SPECIFICATION FairSpec
CONSTANTS
  AnySource = AnySource
  AnyTag = AnyTag
  p1 = p1
  p2 = p2
  p3 = p3
  t1 = t1
  t2 = t2
  o1 = o1
  None = None
  Sent = Sent
  Raised = Raised
  Proc = {p1, p2, p3}
  Tags = {t1}
  Objs = {o1}
  DumpLen <- OneDump
  MaxInt <- Int32
  IntBytes = 4
  Modes = {"sync", "ready"}
  Lengths <- AnyLengths
  SendTo <- FanInSendTo
  RecvFrom <- FanInRecvFrom
  ExchFrom <- Nowhere
  RecvTags = {AnyTag}
  MaxCalls <- FanInCalls
CHECK_DEADLOCK FALSE
INVARIANT IInv
INVARIANT Pairing
INVARIANT NoOrphans
PROPERTY ImplementsMailbox
PROPERTY RecvReturns

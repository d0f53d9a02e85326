SPECIFICATION Spec
CONSTANTS
  AnySource = AnySource
  AnyTag = AnyTag
  p1 = p1
  p2 = p2
  p3 = p3
  t1 = t1
  t2 = t2
  o1 = o1
  None = None
  Sent = Sent
  Raised = Raised
  Proc = {p1, p2}
  Tags = {t1, t2}
  Objs = {o1}
  DumpLen <- OneDump
  MaxInt <- Int32
  IntBytes = 4
  Modes = {"standard"}
  Lengths <- OneLength
  SendTo <- AllSendTo
  RecvFrom <- AllRecvFrom
  ExchFrom <- AllExchFrom
  RecvTags = {t1, AnyTag}
  MaxCalls <- TwoCalls
CHECK_DEADLOCK FALSE
INVARIANT IInv
INVARIANT Delivered
PROPERTY ImplementsMailbox

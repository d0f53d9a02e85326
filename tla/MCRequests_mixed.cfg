SPECIFICATION Spec
CONSTANTS
  AnySource = AnySource
  AnyTag = AnyTag
  Me = Me
  s1 = s1
  s2 = s2
  s3 = s3
  t1 = t1
  t2 = t2
  q1 = q1
  q2 = q2
  q3 = q3
  o1 = o1
  o2 = o2
  None = None
  Null = Null
  Wild = Wild
  Raised = Raised
  Objs = {o1, o2}
  DumpLen <- DumpLens
  MaxInt <- Int32
  IntBytes = 4
  Lengths <- AnyLengths
  Senders = {s1, s2}
  Tags = {t1, t2}
  Writes <- MixedWrites
  MaxLetters <- TwoAndOne
  Req = {q1, q2}
  Source <- MixedSource
  TagOf <- TagEach
  Uses <- Mixed
  Order <- Listed
  MaxStarts = 2
  InitialCap = 1
CHECK_DEADLOCK FALSE
INVARIANT PairInv
INVARIANT RequestPairing
INVARIANT WatchedExactly
INVARIANT NoStrayReceive
INVARIANT DoneIsDone
INVARIANT OwnObject

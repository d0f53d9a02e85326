SPECIFICATION FairSpec
CONSTANTS
  AnySource = AnySource
  AnyTag = AnyTag
  Raised = Raised
  None = None
  N = 3
  Objs = {0, 1, 2}
  DumpLen <- TwoBytes
  MaxInt <- Int32
  IntBytes = 4
  Lengths <- AnyLengths
  MaxCalls = 2
CHECK_DEADLOCK FALSE
INVARIANT IInv
INVARIANT InPlace
INVARIANT Framed
PROPERTY AllReturn
PROPERTY ImplementsCollective

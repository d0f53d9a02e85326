SPECIFICATION FairSpec
CONSTANTS
  AnySource = AnySource
  AnyTag = AnyTag
  Raised = Raised
  None = None
  N = 3
  Objs = {0, 1, 2}
  DumpLen <- TwoBytes
  MaxInt <- Int32
  IntBytes = 4
  Lengths <- AnyLengths
  Plans <- TwoRounds
  ReportTag = 7
CHECK_DEADLOCK FALSE
INVARIANT IInv
INVARIANT InPlace
INVARIANT Ordered
INVARIANT NothingLeft
PROPERTY AllDone
PROPERTY ImplementsCollective

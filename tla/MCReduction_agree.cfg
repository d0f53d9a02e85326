SPECIFICATION FairSpec
CONSTANTS
  AnySource = AnySource
  AnyTag = AnyTag
  Raised = Raised
  N = 2
  Objs = {{0}, {1}, {0, 1}}
  DumpLen <- Growing
  MaxInt <- Int32
  IntBytes = 4
  Lengths <- AnyLengths
  Plans <- TwoOfAny
  ArrayLens <- SomeLens
  MaxCalls = 2
CHECK_DEADLOCK FALSE
INVARIANT IInv
INVARIANT InStep
INVARIANT WholeResult
INVARIANT RefusedByAll
PROPERTY AllReduced

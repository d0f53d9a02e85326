SPECIFICATION Spec
CONSTANTS
  AnySource = AnySource
  AnyTag = AnyTag
  Raised = Raised
  N = 2
  Objs = {{0}, {1}, {0, 1}}
  DumpLen <- Growing
  MaxInt <- Int32
  IntBytes = 4
  Lengths <- FullLengths
  Plans <- Union
  ArrayLens <- Scalar
  MaxCalls = 1
CHECK_DEADLOCK FALSE
INVARIANT Result

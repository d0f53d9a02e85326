SPECIFICATION Spec
CONSTANTS
  AnySource = AnySource
  AnyTag = AnyTag
  Raised = Raised
  None = None
  N = 3
  Objs = {0, 1, 2}
  DumpLen <- TwoBytes
  MaxInt <- Int32
  IntBytes = 4
  Lengths <- StrlenLengths
  MaxCalls = 1
CHECK_DEADLOCK FALSE
INVARIANT Gathered

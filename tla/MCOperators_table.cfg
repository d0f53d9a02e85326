SPECIFICATION Spec
CONSTANTS
  MaxOps = 2
  a = a
  b = b
  c = c
  Ops = {a, b, c}
  Kept = {a, b}
  Predefined = {"min", "minloc", "sum", "band", "lxor", "land"}
  Ranks = {0, 1, 2}
  Bits = {1, 2}
  Args <- Contributions
  None = None
  Outside = Outside
  Cut = Cut
CHECK_DEADLOCK FALSE
SYMMETRY Interchangeable
INVARIANT IInv
INVARIANT OwnProc
INVARIANT OwnFlag
INVARIANT Right
PROPERTY NothingDropped

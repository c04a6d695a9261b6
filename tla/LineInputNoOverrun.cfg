SPECIFICATION Spec
CONSTANTS
  NT = 2
  BufSize = 3
  Chars = {"a", "b"}
  MaxIndex = 6
INVARIANT
  NoOverrun
CHECK_DEADLOCK FALSE

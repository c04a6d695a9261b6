SPECIFICATION Spec
CONSTANTS
  NT = 2
  Cols = 3
  Rows = 3
  BufSize = 4
  KeyCodes = {56, 184, 29, 157, 38, 14, 28, 59, 60}
INVARIANTS
  StoresOnScreen
CHECK_DEADLOCK FALSE

SPECIFICATION Spec
CONSTANTS
  NT = 2
  Cols = 2
  Rows = 2
  BufSize = 3
  KeyCodes = {56, 29, 157, 58, 38, 14, 28, 59, 60}
INVARIANTS
  SingleTerminalOnScreen
  HiddenOnScreen
  Layout
CHECK_DEADLOCK FALSE

SPECIFICATION FairSpec
CONSTANTS
  NT = 2
  BufSize = 2
  Chars = {"a"}
  MaxIndex = 4
INVARIANTS TypeOK NoHoles IndexCovers SingleTerminalFits LineIntact
PROPERTIES SwitchKeepsHalfTyped ReadCompletes
CHECK_DEADLOCK FALSE

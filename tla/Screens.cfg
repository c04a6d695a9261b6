SPECIFICATION FairSpec
CONSTANTS
  NT = 2
  Unflushed = 1
INVARIANTS
  OwnScreen
  DrawsOwn
PROPERTIES
  DrawingShown
CHECK_DEADLOCK FALSE

SPECIFICATION FairSpec
CONSTANTS
  NT = 3
INVARIANTS
  NothingBlocked
PROPERTIES
  DevicesServed
  TerminalsRun
CHECK_DEADLOCK FALSE

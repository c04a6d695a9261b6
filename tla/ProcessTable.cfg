SPECIFICATION Spec
CONSTANTS
  NT = 2
  NSlots = 4
  Args = {"a"}
  Status = {0}
INVARIANTS
  TypeOK
  AddressSpace
  ParentsWait
  RootSlots
  NoLeak
  TerminalProcess
  ArgsOfCaller
PROPERTIES
  PcbStable
  ImplementsStacks
VIEW LiveView
CHECK_DEADLOCK FALSE

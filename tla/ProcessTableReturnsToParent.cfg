SPECIFICATION Spec
CONSTANTS
  NT = 2
  NSlots = 4
  Args = {"a", "b"}
  Status = {0, 1}
INVARIANT
  ReturnsToParent
CHECK_DEADLOCK FALSE

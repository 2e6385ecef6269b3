SPECIFICATION Spec
CONSTANTS
  Ids = {"x"}
  MaxLen = 2
  MaxNames = 1
  MaxFaults = 1
INVARIANT DirectiveIsTakenOnce
CHECK_DEADLOCK FALSE

SPECIFICATION Spec
CONSTANTS
  Words = {"w1", "w2"}
  MaxPressed = 3
  MaxAsked = 2
  MaxGoals = 2
INVARIANT ContextIsFenced
CHECK_DEADLOCK FALSE

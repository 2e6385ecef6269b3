SPECIFICATION Spec
CONSTANTS
  Words = {"w1", "w2"}
  MaxPressed = 3
  MaxAsked = 2
  MaxGoals = 1
INVARIANT GoalsAreFencedToo
CHECK_DEADLOCK FALSE

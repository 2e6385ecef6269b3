SPECIFICATION Spec
CONSTANTS
  Words = {"w1", "w2"}
  MaxPressed = 3
  MaxAsked = 2
  MaxGoals = 0
INVARIANT SteersEndWithTheirTurn
CHECK_DEADLOCK FALSE

SPECIFICATION FairSpec
CONSTANTS
  Keys = {k1, k2}
  NoKey = NoKey
  RingSize = 1
  SteerLimit = 1
  MaxOps = 1
  MaxTurns = 2
  MaxRestarts = 1
INVARIANTS AtMostOneTurnPerKey TurnsStayApart
PROPERTY QuitCompletes
CHECK_DEADLOCK FALSE

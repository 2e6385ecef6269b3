SPECIFICATION Spec
CONSTANTS
  Keys = {k1, k2}
  NoKey = NoKey
  RingSize = 1
  SteerLimit = 1
  MaxOps = 1
  MaxTurns = 2
  MaxRestarts = 1
INVARIANT SteerReachesItsAim
CHECK_DEADLOCK FALSE

SPECIFICATION Spec
CONSTANTS
    MaxTurns = 2
    MaxRestores = 2
    MaxFaults = 0
    MaxCrashes = 1
    MaxClears = 0
    MaxMishaps = 2
    Faulty = {}
INVARIANT CompleteMeansUndone
CHECK_DEADLOCK FALSE

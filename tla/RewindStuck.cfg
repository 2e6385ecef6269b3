SPECIFICATION Spec
CONSTANTS
    MaxTurns = 3
    MaxRestores = 1
    MaxFaults = 0
    MaxCrashes = 0
    MaxClears = 1
    MaxMishaps = 2
    Faulty = {}
PROPERTY GateReopens
CHECK_DEADLOCK FALSE

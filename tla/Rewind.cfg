SPECIFICATION Spec
CONSTANTS
    MaxTurns = 3
    MaxRestores = 2
    MaxFaults = 1
    MaxCrashes = 1
    MaxClears = 1
    MaxMishaps = 2
    Faulty = {"begin", "stage", "reject", "code", "arm", "save", "reconcile", "fold"}
INVARIANTS TypeOK GateHoldsBack RewoundTogether
PROPERTY ReadyIsFinished
CHECK_DEADLOCK FALSE

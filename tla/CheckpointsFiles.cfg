SPECIFICATION StoreSpec
CONSTANTS
    Sessions = {a}
    Paths = {f, g}
    Nobody = nobody
    Unknown = unknown
    MaxKept = 2
    MaxCut = 2
    MaxWrites = 2
    MaxManual = 0
    MaxRestores = 2
    MaxStoreFaults = 1
INVARIANT CompleteRestoreUndoesAll
PROPERTY LeaseIsReturned
CHECK_DEADLOCK FALSE

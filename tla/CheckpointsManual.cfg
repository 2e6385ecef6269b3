SPECIFICATION StoreSpec
CONSTANTS
    Sessions = {a}
    Paths = {f}
    Nobody = nobody
    Unknown = unknown
    MaxKept = 2
    MaxCut = 2
    MaxWrites = 2
    MaxManual = 1
    MaxRestores = 2
    MaxStoreFaults = 0
PROPERTY ManualIsNeverOverwritten
CHECK_DEADLOCK FALSE

SPECIFICATION StoreSpec
CONSTANTS
    Sessions = {a, b}
    Paths = {f}
    Nobody = nobody
    Unknown = unknown
    MaxKept = 2
    MaxCut = 2
    MaxWrites = 2
    MaxManual = 1
    MaxRestores = 2
    MaxStoreFaults = 1
INVARIANT RecordsAgree
PROPERTY OnlyOwnStateIsReplaced
CHECK_DEADLOCK FALSE

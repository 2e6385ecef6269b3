SPECIFICATION Spec
CONSTANTS
    Handlers = {t1}
    MaxAsks = 2
    MaxReplies = 1
    MaxNonces = 2
    MaxFaults = 1
PROPERTY AcknowledgementStays
CHECK_DEADLOCK FALSE

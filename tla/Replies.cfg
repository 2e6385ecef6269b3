SPECIFICATION Spec
CONSTANTS
    Handlers = {t1, t2}
    MaxAsks = 2
    MaxReplies = 2
    MaxNonces = 2
    MaxFaults = 1
INVARIANTS ReplyActsOnce UnansweredStaysOpen
SYMMETRY Symmetry
CHECK_DEADLOCK FALSE

SPECIFICATION Spec
CONSTANTS
    Handlers = {t1}
    MaxAsks = 2
    MaxReplies = 1
    MaxNonces = 2
    MaxFaults = 1
INVARIANT ReplyAnswersItsQuestion
CHECK_DEADLOCK FALSE

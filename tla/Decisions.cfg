SPECIFICATION FairSpec
CONSTANTS
  Calls = {c1, c2}
  NoCall = NoCall
  Questions = {q1, q2}
  Prompts = 2
  Limit = 2
  MaxStarted = 2
  Default = "Deny"
INVARIANTS TypeOK AllowedOnlyByTheHuman CallsReachTheHuman AnswerToldOnce FailedQuestionLeavesNothing
PROPERTIES DecidedWaitsEnd

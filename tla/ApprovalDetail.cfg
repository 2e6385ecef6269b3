SPECIFICATION Spec
CONSTANTS
  Calls = {c1, c2}
  NoCall = NoCall
  Questions = {}
  Prompts = 1
  Limit = 1
  MaxStarted = 2
  Default = "Deny"
INVARIANT DetailIsOwn

SPECIFICATION Spec
CONSTANTS
  Servers = {"a", "b"}
  Names = {"n1", "n2"}
  Specs = {1, 2}
  MaxAsked = 4
  MaxFailures = 2
INVARIANTS
  NothingLeaks
  ToolsAreServed
  ReportsAreTrue
CHECK_DEADLOCK FALSE

SPECIFICATION UpdateSpec
CONSTANTS
  Procs = {p1, p2}
  NoProc = NoProc
  Checked = {}
  Impatient = {p1}
  MaxCrashes = 0
  MaxStalls = 0
INVARIANT IssueAndRevokeSurvive

SPECIFICATION UpdateSpec
CONSTANTS
  Procs = {p1, p2, p3}
  NoProc = NoProc
  Checked = {p1, p2, p3}
  Impatient = {}
  MaxCrashes = 1
  MaxStalls = 0
INVARIANT NoStaleOverwrite

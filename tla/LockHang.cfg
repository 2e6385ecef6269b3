SPECIFICATION FairUpdates
CONSTANTS
  Procs = {p1, p2}
  NoProc = NoProc
  Checked = {}
  Impatient = {p1, p2}
  MaxCrashes = 1
  MaxStalls = 0
PROPERTY NeverHangs

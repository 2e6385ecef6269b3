SPECIFICATION FairUpdates
CONSTANTS
  Procs = {p1, p2, p3}
  NoProc = NoProc
  Checked = {p3}
  Impatient = {p1, p3}
  MaxCrashes = 1
  MaxStalls = 1
INVARIANTS OwnersExclude UpdatesAreKept
PROPERTY EveryCallerGetsThrough

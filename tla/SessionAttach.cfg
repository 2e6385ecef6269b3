SPECIFICATION FairAttach
CONSTANTS
  Procs = {p1, p2, p3}
  Twice = {p1}
  NoProc = NoProc
  MaxCrashes = 1
INVARIANT OwnerIsFindable
PROPERTY NeverWedged
CHECK_DEADLOCK FALSE

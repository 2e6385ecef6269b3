SPECIFICATION Spec
CONSTANTS
  Ids = {"x", "y"}
  MaxLen = 4
  MaxNames = 1
  MaxFaults = 1
INVARIANTS
  RepairIsSound
  UpdatesSurvive
  OneFaultIsSurvived
  EndedTurnIsStored
CHECK_DEADLOCK FALSE

SPECIFICATION Spec
CONSTANTS
  Names = {"disk", "a_b"}
  Ambiguous = {"a_b"}
  Blank = ""
  OldIds <- MCOldIds
  SensorsSeen <- MCSensorsSeen
  Days = {1, 2}
  Hour = 1
  MaxTime = 3
  Steps <- MCSteps
  MaxCycles = 3
  None = None
INVARIANTS
  TypeOK
  CyclesAreWhole
  OldRowsGo
  HistoryFollowsDrive

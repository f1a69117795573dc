SPECIFICATION Spec
CONSTANTS
  Machine = "m"  None = None
  Foreign <- MCForeign
  Heads = {1, 2}
  Stamps <- MCStamps
  Kinds <- MCKinds
  Month <- MCMonth
  MonthStart <- MCStart
  Week <- MCWeek
  Day <- MCDay
  Hour <- MCHour
  Clock <- MCClock
  TorqueMin = 3
  TorqueMax = 6
  Limits = {3, 6}
  Real <- MCReal
  IdleMin = 1
  MaxGap = 1
  MadK = 3
  MadFloor = 0
  MaxItems = 2
  Chunk = 2
  MaxRows = 4
CHECK_DEADLOCK FALSE
INVARIANTS
  IdleRunsAreMaximal
  ToolsAgree
  DaysAddUp
  FlagsAreAMinority
  TauIsATau

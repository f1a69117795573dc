SPECIFICATION Spec
CONSTANTS
  Commands <- MCCommands
  Stem <- MCStem
  CsvFiles = {1, 2, 3}
  NumBatches = 2
  MaxThreads = 3
  MaxRuns = 2
CHECK_DEADLOCK FALSE
INVARIANTS
  ZeroIsComplete
  FailureIsClean

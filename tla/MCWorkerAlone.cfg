SPECIFICATION WSpec
CONSTANTS
  i1 = i1  i2 = i2  w1 = w1
  NoWorker = NoWorker
  Items <- MCItems
  Paths <- MCItems
  Workers = {w1}
  EventCounts = {0, 2}
  Batches <- MCBatches
  IdleTicks = 2
  Formats <- EitherFormat
  CommitFails = TRUE
  MaxQueue = 3
CHECK_DEADLOCK FALSE
INVARIANTS
  ProtocolOrder
  ResultsAreTrue
PROPERTIES
  OrphanGoesHome

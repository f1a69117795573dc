SPECIFICATION FairRun
CONSTANTS
  i1 = i1  i2 = i2  i3 = i3  w1 = w1  w2 = w2
  NoWorker = NoWorker
  Items <- ThreeItems
  Paths <- ThreeItems
  Workers = {w1}
  EventCounts = {1, 2}
  Batches <- TwoAndOne
  IdleTicks = 1
  Formats <- EitherFormat
  CommitFails = TRUE
  Expected = 1
  Cap = 1
  MaxCrashes = 1
  Unframeable = {i3}
  Threshold = 1
  RegTimeout = 1
INVARIANTS
  HolderIsTrue
PROPERTIES
  RunEnds

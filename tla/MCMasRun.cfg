SPECIFICATION RunSpec
CONSTANTS
  i1 = i1  i2 = i2  i3 = i3  w1 = w1  w2 = w2
  NoWorker = NoWorker
  Items <- OneItem
  Paths <- OneItem
  Workers <- MCWorkers
  EventCounts = {1}
  Batches <- OneRowEach
  IdleTicks = 1
  Formats <- AllDuckDb
  CommitFails = FALSE
  Expected = 0
  Cap = 1
  MaxCrashes = 2
  Unframeable = {}
  Threshold = 1
  RegTimeout = 0
SYMMETRY Symmetry
INVARIANTS
  CreditIsOnDisk
  NeverOvercounts

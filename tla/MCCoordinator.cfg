SPECIFICATION FairSpec
CONSTANTS
  i1 = i1  i2 = i2  stranger = stranger  w1 = w1  w2 = w2
  NoWorker = NoWorker
  Items <- MCItems
  Paths <- MCPaths
  Workers <- MCWorkers
  EventCounts = {0, 3}
  Expected = 1
  Cap = 2
  Threshold = 1
  RegTimeout = 1
INVARIANTS
  TypeOK
  CreditedOnce
  CountersAgree
  TotalMatchesCredit
  HolderIsLive
PROPERTIES
  GoneIsGone
  ReopenedByDeathOnly
  SurvivorsKeepTheirItems
  ImplementsLedger
  SilenceEnds

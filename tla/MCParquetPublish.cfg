SPECIFICATION Spec
CONSTANTS
  Procs = {p1, p2}
  Threads <- MCThreads
  Days = {d1}
  Exports = {x1}
  NumBatches = 2
  MaxPublishes = 2
  NoFile = NoFile
  p1 = p1
  p2 = p2
  t1 = t1
  t2 = t2
INVARIANTS
  VisibleIsWhole
  AcknowledgedStays
  NoLitter

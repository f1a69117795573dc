SPECIFICATION Spec
CONSTANTS
  Rows = {r1, r2, bad}
  Poison = {bad}
  Batches <- MCBatches
  MaxWrites = 4
  MaxCrashes = 3
  Probe = Probe
  r1 = r1
  r2 = r2
  bad = bad
CHECK_DEADLOCK FALSE
INVARIANTS
  LegacyStaysRefused
  AcknowledgedRowsStay
  WritesOwnRows
PROPERTIES
  ImplementsEventStore

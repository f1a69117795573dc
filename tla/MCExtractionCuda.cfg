SPECIFICATION Spec
CONSTANTS
  NumHeads = 1
  Counts = {0, 1}
  Texts = {1}
  Instant <- OneText
  Spelled <- OneText
  Lines <- OneHead
  IntMax = 2
  BatchSize = 2
  MaxLines = 3
  Unseen = Unseen
CHECK_DEADLOCK FALSE
INVARIANTS
  CudaRefusesOrAgrees

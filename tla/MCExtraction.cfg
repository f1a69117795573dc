SPECIFICATION Spec
CONSTANTS
  NumHeads = 2
  Counts = {0, 1, 5}
  Texts <- MCTexts
  Instant <- MCInstant
  Spelled <- MCSpelled
  Lines <- MCLines
  IntMax = 2
  BatchSize = 3
  MaxLines = 4
  Unseen = Unseen
CHECK_DEADLOCK FALSE
INVARIANTS
  EnginesAgree
  CapsAreConserved
  OnlySpellingsCollapse

SPECIFICATION Spec
CONSTANTS
  Files = {f1, f2, f3}
  N = 3
  Rows = {r1, r2}
  Priors <- MCPriors
  r1 = r1
  MaxKills = 1
  f1 = f1
  f2 = f2
  f3 = f3
CHECK_DEADLOCK FALSE
INVARIANTS
  MergeIsTheUnion
  EverySourceCounted

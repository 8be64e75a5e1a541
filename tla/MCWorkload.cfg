SPECIFICATION Spec
CONSTANTS
  r1 = r1
  w1 = w1
  w2 = w2
  j1 = j1
  Reader = {r1}
  Writer = {w1, w2}
  Erp = TRUE
  Tables = 1
  Variants = 2
  MaxRows = 1
  CleanupBatch = 1
  Job = {j1}
  Duration = 1
  MaxOps = 3
  MaxFaults = 1
INVARIANTS
  RetentionBounded
  JobsReturned
  CoverageHonest
  VerdictHonest
PROPERTIES
  RunEnds

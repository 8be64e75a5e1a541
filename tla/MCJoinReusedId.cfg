SPECIFICATION Spec
CONSTANTS
  a = a
  b = b
  p = p
  k1 = k1
  w1 = w1
  w2 = w2
  lw = lw
  Rows = {a, b}
  Item = {a, b}
  Width <- MCWidth
  Key = {k1}
  KeyOf <- MCKeyOf
  Candidate = {}
  PairOf <- MCPairOf
  MaxCounter = 2
  MaxLegacyRows = 2
  Retention = 3
  MaxChunkRows = 1
  MaxChunkBytes = 2
  MaxOutboxRows = 3
  MaxOutboxBytes = 6
  MaxOutboxAge = 4
  MaxBatch = 1
  MaxTime = 2
  MaxRebuilds = 1
  Worker = {w1, w2}
  LegacyWorker = {}
  BatchLimit = 2
  PurgeInterval = 2
  MaxFaults = 0
INVARIANTS
  AckedWasDelivered
SYMMETRY Symmetry
CHECK_DEADLOCK FALSE

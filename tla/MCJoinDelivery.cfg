SPECIFICATION FairSpec
CONSTANTS
  a = a
  b = b
  p = p
  k1 = k1
  w1 = w1
  w2 = w2
  lw = lw
  Rows = {a, p}
  Item = {a, p}
  Width <- MCWidth
  Key = {k1}
  KeyOf <- MCKeyOf
  Candidate = {}
  PairOf <- MCPairOf
  MaxCounter = 2
  MaxLegacyRows = 2
  Retention = 1
  MaxChunkRows = 1
  MaxChunkBytes = 2
  MaxOutboxRows = 3
  MaxOutboxBytes = 6
  MaxOutboxAge = 4
  MaxBatch = 2
  MaxTime = 3
  MaxRebuilds = 0
  Worker = {w1}
  LegacyWorker = {}
  BatchLimit = 2
  PurgeInterval = 2
  MaxFaults = 1
INVARIANTS
  TransportInv
  AckedWasDelivered
PROPERTIES
  DeliverySpec
  TransferableDrains
CHECK_DEADLOCK FALSE

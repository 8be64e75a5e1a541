SPECIFICATION OutboxSpec
CONSTANTS
  i1 = i1
  i2 = i2
  i3 = i3
  Item <- MCItem
  Width <- MCWidth
  MaxChunkRows = 2
  MaxChunkBytes = 4
  MaxOutboxRows = 2
  MaxOutboxBytes = 4
  MaxOutboxAge = 2
  MaxBatch = 4
  MaxTime = 5
  MaxRebuilds = 0
INVARIANTS
  EvidenceConserved
CHECK_DEADLOCK FALSE

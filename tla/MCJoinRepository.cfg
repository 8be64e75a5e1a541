SPECIFICATION IngestSpec
CONSTANTS
  r1 = r1
  r2 = r2
  r3 = r3
  r4 = r4
  kj = kj
  kf = kf
  kx = kx
  cand = cand
  Item <- MCItem
  Width <- MCWidth
  Key = {kj, kf, kx}
  KeyOf <- MCKeyOf
  Candidate = {cand}
  PairOf <- MCPairOf
  MaxCounter = 2
  MaxLegacyRows = 3
  Retention = 1
  MaxChunkRows = 2
  MaxChunkBytes = 4
  Sent <- MCSent
  MaxChunkNo = 3
  MaxClock = 4
INVARIANTS
  SamplesExact
  CandidatesSupported
  StatusDescribesNewest

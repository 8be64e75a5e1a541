SPECIFICATION FairSpec
CONSTANTS
  q1 = q1
  Query = {q1}
  AcceptanceRequired = TRUE
  MaxSamplingErrors = 1
  MaxCalls = 1
  MaxBatches <- MCBatches
  MaxFaults = 1

  
PROPERTIES
  BenchmarkEnds

SPECIFICATION FairSpec
CONSTANTS
  r1 = r1
  r2 = r2
  Request = {r1, r2}
  Kinds <- MCKinds
  MeasuredRuns = 2
  MaxFaults = 1
INVARIANTS
  ReadOnlyReplay
  OneSourceOperation
  AnswersTrue
  ValidatedOnClone
  LeftoversExplained
PROPERTIES
  EvaluationsEnd

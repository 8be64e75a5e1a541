SPECIFICATION FairSpec
CONSTANTS
  w1 = w1
  s1 = s1
  s2 = s2
  NoSession = NoSession
  Worker = {w1}
  Session = {s1, s2}
  WindowOrder <- Windows
  Job <- BothFamilies
  Poison <- FirstPoisoned
  MaxFaults = 2
INVARIANTS
  OneScanPerFamily
  ReadyIsCurrent
  ReadersKeepPrevious
  LocksReleased
  UnfinishedIsDue
PROPERTIES
  WindowsRefreshed

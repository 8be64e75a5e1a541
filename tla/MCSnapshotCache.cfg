SPECIFICATION FairCacheSpec
CONSTANTS
  w1 = w1
  w2 = w2
  c1 = c1
  c2 = c2
  t1 = t1
  t2 = t2
  Key = {w1, w2}
  Caller = {c1, c2}
  Task = {t1, t2}
  FreshSeconds = 0
  StaleSeconds = 1
  MaxEntries = 1
  MaxRetries = 1
  MaxExponent = 1
  MaxDelay = 2
  MaxAnnotations = 1
INVARIANTS
  CacheInv
  ReadYourWrites
  SingleFlight
  Shielded
  ClosedQuietly
  Bounded
PROPERTIES
  StragglersInert
  StaleWhileRevalidate
  NeverLockedOut

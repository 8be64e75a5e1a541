SPECIFICATION Spec
CONSTANTS
  w1 = w1
  k1 = k1
  k2 = k2
  c1 = c1
  d1 = d1
  t1 = t1
  u1 = u1
  Window = {w1}
  TrendKey = {k1, k2}
  MetricsCaller = {c1}
  TrendCaller = {d1}
  MetricsTask = {t1}
  TrendTask = {u1}
  FreshSeconds = 0
  StaleSeconds = 1
  MaxMetricsEntries = 1
  MaxTrendEntries = 1
  MaxExponent = 1
  MaxDelay = 2
  MaxAnnotations = 1
INVARIANTS
  RefreshesSerialised

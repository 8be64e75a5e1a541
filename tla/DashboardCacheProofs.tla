------------------------- MODULE DashboardCacheProofs -------------------------
(***************************************************************************)
(* Each of the two caches of the API process behaves as a SnapshotCache    *)
(* although they share annotations, invalidation, shutdown and clock: what *)
(* SnapshotCacheProofs shows of one cache holds of both.                   *)
(***************************************************************************)
EXTENDS DashboardCache, TLAPS

(* A step of the process is a step of the metrics cache, or leaves it and  *)
(* what is shared alone.                                                   *)
LEMMA MetricsStep ==
  [Next]_vars => [Metrics!CacheNext]_<<Metrics!cacheVars, Metrics!hostVars>>
<1> DEFINE Stutter == UNCHANGED <<Metrics!cacheVars, Metrics!hostVars>>
<1> SUFFICES ASSUME [Next]_vars PROVE Metrics!CacheNext \/ Stutter
  OBVIOUS
<1> USE DEF metricsVars, hostVars, Metrics!cacheVars, Metrics!hostVars, Trend!hostVars
<1>1. CASE UNCHANGED vars
  BY <1>1 DEF vars
<1>2. CASE \E c \in MetricsCaller, k \in Window : QueryMetricsSnapshot(c, k)
  BY <1>2 DEF QueryMetricsSnapshot, Metrics!CacheNext
<1>3. CASE \E c \in TrendCaller, k \in TrendKey : GlobalTrendSnapshot(c, k)
  BY <1>3 DEF GlobalTrendSnapshot, Trend!Request, Trend!FreshHit, Trend!StaleHit,
     Trend!Refuse, Trend!Await, Trend!Arrive
<1>4. CASE \E t \in MetricsTask : LoadQueryMetrics(t) \/ RefreshQueryMetrics(t)
  BY <1>4 DEF LoadQueryMetrics, RefreshQueryMetrics, Metrics!CacheNext
<1>5. CASE \E t \in TrendTask : LoadGlobalTrend(t) \/ RefreshGlobalTrend(t)
  BY <1>5 DEF LoadGlobalTrend, RefreshGlobalTrend, Trend!Load, Trend!Succeed,
     Trend!Fail, Trend!Warming, Trend!Ends
<1>6. CASE Disconnect
  BY <1>6 DEF Disconnect, Metrics!CacheNext, Trend!Abandon
<1>7. CASE Annotate \/ CloseQueryRowsCache \/ Tick
  BY <1>7 DEF Annotate, CloseQueryRowsCache, Tick, Metrics!CacheNext
<1>8. CASE \E v \in 1..MaxAnnotations : InvalidateQueryRowsCache(v)
  BY <1>8 DEF InvalidateQueryRowsCache, Metrics!CacheNext
<1> QED BY <1>1, <1>2, <1>3, <1>4, <1>5, <1>6, <1>7, <1>8 DEF Next

(* The same of the trend cache.                                            *)
LEMMA TrendStep ==
  [Next]_vars => [Trend!CacheNext]_<<Trend!cacheVars, Trend!hostVars>>
<1> DEFINE Stutter == UNCHANGED <<Trend!cacheVars, Trend!hostVars>>
<1> SUFFICES ASSUME [Next]_vars PROVE Trend!CacheNext \/ Stutter
  OBVIOUS
<1> USE DEF trendVars, hostVars, Trend!cacheVars, Trend!hostVars, Metrics!hostVars
<1>1. CASE UNCHANGED vars
  BY <1>1 DEF vars
<1>2. CASE \E c \in MetricsCaller, k \in Window : QueryMetricsSnapshot(c, k)
  BY <1>2 DEF QueryMetricsSnapshot, Metrics!Request, Metrics!FreshHit,
     Metrics!StaleHit, Metrics!Refuse, Metrics!Await, Metrics!Arrive
<1>3. CASE \E c \in TrendCaller, k \in TrendKey : GlobalTrendSnapshot(c, k)
  BY <1>3 DEF GlobalTrendSnapshot, Trend!CacheNext
<1>4. CASE \E t \in MetricsTask : LoadQueryMetrics(t) \/ RefreshQueryMetrics(t)
  BY <1>4 DEF LoadQueryMetrics, RefreshQueryMetrics, Metrics!Load, Metrics!Succeed,
     Metrics!Fail, Metrics!Warming, Metrics!Ends
<1>5. CASE \E t \in TrendTask : LoadGlobalTrend(t) \/ RefreshGlobalTrend(t)
  BY <1>5 DEF LoadGlobalTrend, RefreshGlobalTrend, Trend!CacheNext
<1>6. CASE Disconnect
  BY <1>6 DEF Disconnect, Trend!CacheNext, Metrics!Abandon
<1>7. CASE Annotate \/ CloseQueryRowsCache \/ Tick
  BY <1>7 DEF Annotate, CloseQueryRowsCache, Tick, Trend!CacheNext
<1>8. CASE \E v \in 1..MaxAnnotations : InvalidateQueryRowsCache(v)
  BY <1>8 DEF InvalidateQueryRowsCache, Trend!CacheNext
<1> QED BY <1>1, <1>2, <1>3, <1>4, <1>5, <1>6, <1>7, <1>8 DEF Next

(***************************************************************************)
(* The API process implements a snapshot cache twice: neither cache does   *)
(* anything through the other, or through what they share, that a cache on *)
(* its own could not do (PowaRepository, annotate, lifespan).              *)
(***************************************************************************)
THEOREM TwoCaches == Spec => Metrics!CacheSpec /\ Trend!CacheSpec
<1>1. Init => Metrics!Init
  BY DEF Init, Metrics!Init
<1>2. Init => Trend!Init
  BY DEF Init, Trend!Init, Metrics!HostInit, Trend!HostInit
<1>3. Spec => Metrics!CacheSpec
  BY <1>1, MetricsStep, PTL DEF Spec, Metrics!CacheSpec
<1>4. Spec => Trend!CacheSpec
  BY <1>2, TrendStep, PTL DEF Spec, Trend!CacheSpec
<1> QED BY <1>3, <1>4
=============================================================================

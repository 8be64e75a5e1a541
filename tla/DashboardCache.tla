--------------------------- MODULE DashboardCache ---------------------------
(***************************************************************************)
(* The two snapshot caches of PowaRepository in one API process, the       *)
(* query-metrics cache and the trend cache, with what couples them: the    *)
(* annotate handler that commits first and invalidates both afterwards,    *)
(* the lifespan shutdown that cancels the refreshes of both, the loop      *)
(* clock, and the requests of independent handlers.                        *)
(***************************************************************************)
EXTENDS Naturals, FiniteSets, SequencesExt

CONSTANTS
  Window, TrendKey,                 \* keys of the two caches
  MetricsCaller, TrendCaller,       \* handlers reading each of them
  MetricsTask, TrendTask,           \* bound: refresh tasks alive at once
  FreshSeconds, StaleSeconds,
  MaxMetricsEntries, MaxTrendEntries,
  MaxExponent, MaxDelay, MaxAnnotations

VARIABLES
  mGeneration, mCache, mRecent, mRetry, mRetryOrder, mTasks, mRefreshTasks, mHandler,
  tGeneration, tCache, tRecent, tRetry, tRetryOrder, tTasks, tRefreshTasks, tHandler,
  annotation, unannounced, acknowledged, closed

metricsVars == <<mGeneration, mCache, mRecent, mRetry, mRetryOrder, mTasks,
                 mRefreshTasks, mHandler>>
trendVars == <<tGeneration, tCache, tRecent, tRetry, tRetryOrder, tTasks,
               tRefreshTasks, tHandler>>
hostVars == <<annotation, unannounced, acknowledged, closed>>
vars == <<metricsVars, trendVars, hostVars>>

(* The back-off records of the query-metrics cache have no bound of their  *)
(* own: there is one per window at most.                                   *)
Metrics == INSTANCE SnapshotCache WITH
  Key <- Window, Caller <- MetricsCaller, Task <- MetricsTask,
  MaxEntries <- MaxMetricsEntries, MaxRetries <- Cardinality(Window),
  generation <- mGeneration, cache <- mCache, recent <- mRecent,
  retry <- mRetry, retryOrder <- mRetryOrder, tasks <- mTasks,
  refreshTasks <- mRefreshTasks, handler <- mHandler

Trend == INSTANCE SnapshotCache WITH
  Key <- TrendKey, Caller <- TrendCaller, Task <- TrendTask,
  MaxEntries <- MaxTrendEntries, MaxRetries <- MaxTrendEntries,
  generation <- tGeneration, cache <- tCache, recent <- tRecent,
  retry <- tRetry, retryOrder <- tRetryOrder, tasks <- tTasks,
  refreshTasks <- tRefreshTasks, handler <- tHandler

Init ==
  /\ Metrics!CacheInit /\ Trend!CacheInit
  /\ Metrics!HostInit

-----------------------------------------------------------------------------
(* One method of the repository object each; the load methods differ in    *)
(* the view they read.                                                     *)
QueryMetricsSnapshot(c, k) == Metrics!Request(c, k) /\ UNCHANGED trendVars
GlobalTrendSnapshot(c, k) == Trend!Request(c, k) /\ UNCHANGED metricsVars

LoadQueryMetrics(t) == Metrics!Load(t) /\ UNCHANGED trendVars
LoadGlobalTrend(t) == Trend!Load(t) /\ UNCHANGED metricsVars

RefreshQueryMetrics(t) ==
  /\ Metrics!Succeed(t) \/ Metrics!Fail(t) \/ Metrics!Warming(t)
  /\ UNCHANGED trendVars

RefreshGlobalTrend(t) ==
  /\ Trend!Succeed(t) \/ Trend!Fail(t) \/ Trend!Warming(t)
  /\ UNCHANGED metricsVars

Disconnect ==
  \/ \E c \in MetricsCaller : Metrics!Abandon(c) /\ UNCHANGED trendVars
  \/ \E c \in TrendCaller : Trend!Abandon(c) /\ UNCHANGED metricsVars

(* What the caches share happens to both in one step. *)
Annotate == Metrics!Annotate /\ Trend!Annotate
InvalidateQueryRowsCache(v) == Metrics!Announce(v) /\ Trend!Announce(v)
CloseQueryRowsCache == Metrics!Close /\ Trend!Close
Tick == Metrics!Tick /\ Trend!Tick

Next ==
  \/ \E c \in MetricsCaller, k \in Window : QueryMetricsSnapshot(c, k)
  \/ \E c \in TrendCaller, k \in TrendKey : GlobalTrendSnapshot(c, k)
  \/ \E t \in MetricsTask : LoadQueryMetrics(t) \/ RefreshQueryMetrics(t)
  \/ \E t \in TrendTask : LoadGlobalTrend(t) \/ RefreshGlobalTrend(t)
  \/ Disconnect
  \/ Annotate
  \/ \E v \in 1..MaxAnnotations : InvalidateQueryRowsCache(v)
  \/ CloseQueryRowsCache
  \/ Tick

Spec == Init /\ [][Next]_vars

-----------------------------------------------------------------------------
(* README.md:322 and docs/INSTALLATION.md:900 say that one lock lets one   *)
(* refresh at a time read its rows, whatever the cache and the window.     *)
RefreshesSerialised ==
  Cardinality({t \in DOMAIN mTasks : mTasks[t].phase = "loaded"})
    + Cardinality({t \in DOMAIN tTasks : tTasks[t].phase = "loaded"}) <= 1
=============================================================================

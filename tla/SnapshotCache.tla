---------------------------- MODULE SnapshotCache ----------------------------
(***************************************************************************)
(* One stale-while-revalidate cache of PowaRepository                      *)
(* (backend/app/repositories/powa.py) inside one API process: bounded LRU  *)
(* entries, failure back-off, and one shared refresh task per generation   *)
(* and key.                                                                *)
(*                                                                         *)
(* The process is a single asyncio loop and no critical section of the     *)
(* cache lock awaits anything, so a section and the code up to the next    *)
(* await run as one step.  A step is therefore a request up to its answer  *)
(* or its wait, the read of the rows, or the end of a refresh task.        *)
(*                                                                         *)
(* Rows are abstracted to the version of the annotations they carry.       *)
(* Clock values are abstracted to what the code compares: an entry's age   *)
(* and the time left until retry_not_before.                               *)
(***************************************************************************)
EXTENDS Naturals, FiniteSets, SequencesExt

CONSTANTS
  Key,           \* windows, or (window, server, database) scopes
  Caller,        \* request handlers running at the same time
  Task,          \* bound: refresh tasks alive at the same time
  FreshSeconds, StaleSeconds, \* query_list_cache_fresh_seconds, ..._stale_seconds
  MaxEntries,    \* bound of the LRU entries
  MaxRetries,    \* bound of the back-off records
  MaxExponent,   \* 6: failures after which the delay grows no more
  MaxDelay,      \* 60: longest back-off
  MaxAnnotations \* bound: annotation mutations

ASSUME CacheAssumption ==
  /\ FreshSeconds \in Nat /\ StaleSeconds \in Nat
  /\ FreshSeconds <= StaleSeconds
  /\ MaxEntries \in Nat \ {0} /\ MaxRetries \in Nat \ {0}
  /\ MaxExponent \in Nat /\ MaxDelay \in Nat
  /\ MaxAnnotations \in Nat

(* Arithmetic the provers do not know. *)
ASSUME PowerAssumption == \A e \in 0..MaxExponent : 2 ^ e \in Nat

VARIABLES
  generation,    \* bumped by every invalidation
  cache,         \* key |-> rows and age of its entry
  recent,        \* cached keys, least recently used first
  retry,         \* key |-> failures and time left
  retryOrder,    \* keys of retry, least recently used first
  tasks,         \* running refresh tasks, with the handlers awaiting them
  refreshTasks,  \* tasks the repository object still tracks
  handler        \* per caller: what it acknowledged at arrival, its answer

cacheVars ==
  <<generation, cache, recent, retry, retryOrder, tasks, refreshTasks, handler>>

VARIABLES
  annotation,    \* version of the committed annotations (repository)
  unannounced,   \* committed, cache not invalidated yet
  acknowledged,  \* newest version whose annotate() call has returned
  closed         \* lifespan shutdown ran

hostVars == <<annotation, unannounced, acknowledged, closed>>

-----------------------------------------------------------------------------
IsDict(f, S, T) == DOMAIN f \in SUBSET S /\ f \in [DOMAIN f -> T]

Entry == [rows : Nat, age : 0..(StaleSeconds + 1)]
Retry == [failures : 1..(MaxExponent + 1), wait : 0..MaxDelay]
Refresh == [key : Key, gen : Nat, phase : {"loading", "loaded"}, rows : Nat,
            waiters : SUBSET Caller]
Answer == {"none", "waiting", "rows", "backoff", "warming", "error", "cancelled"}
Handler == [since : Nat, answer : Answer, rows : Nat]

CacheTypeOK ==
  /\ annotation \in Nat
  /\ unannounced \in SUBSET (1..annotation)
  /\ acknowledged \in 0..annotation
  /\ closed \in BOOLEAN
  /\ generation \in Nat
  /\ IsDict(cache, Key, Entry)
  /\ recent \in Seq(Key)
  /\ IsDict(retry, Key, Retry)
  /\ retryOrder \in Seq(Key)
  /\ IsDict(tasks, Task, Refresh)
  /\ refreshTasks \in SUBSET Task
  /\ handler \in [Caller -> Handler]

EmptyDict == [k \in {} |-> 0]

CacheInit ==
  /\ generation = 0
  /\ cache = EmptyDict
  /\ recent = <<>>
  /\ retry = EmptyDict
  /\ retryOrder = <<>>
  /\ tasks = EmptyDict
  /\ refreshTasks = {}
  /\ handler = [c \in Caller |-> [since |-> 0, answer |-> "none", rows |-> 0]]

-----------------------------------------------------------------------------
Least(m, n) == IF m <= n THEN m ELSE n

(* An OrderedDict's keys, oldest first: pop(k), move_to_end(k), and         *)
(* popitem(last=False) until at most n are left.                           *)
Drop(order, k) ==
  IF k \in ToSet(order)
  THEN RemoveAt(order, CHOOSE i \in DOMAIN order : order[i] = k)
  ELSE order
Touch(order, k) == Append(Drop(order, k), k)
Newest(order, n) ==
  SubSeq(order, IF Len(order) > n THEN Len(order) - n + 1 ELSE 1, Len(order))

Delay(failures) == Least(2 ^ Least(failures - 1, MaxExponent), MaxDelay)

BackingOff(k) == k \in DOMAIN retry /\ retry[k].wait > 0

Reply(callers, answer, rows) ==
  handler' = [c \in Caller |->
    IF c \in callers THEN [since |-> IF answer = "rows" THEN handler[c].since ELSE 0,
                           answer |-> answer, rows |-> rows]
                     ELSE handler[c]]

(* The tracked task of this generation and key, if there is one. *)
Tracked(k) ==
  {t \in refreshTasks \cap DOMAIN tasks :
     tasks[t].key = k /\ tasks[t].gen = generation}

Create(k, callers) ==
  \E t \in Task \ DOMAIN tasks :
    /\ tasks' = [u \in DOMAIN tasks \cup {t} |->
         IF u = t THEN [key |-> k, gen |-> generation, phase |-> "loading",
                        rows |-> 0, waiters |-> callers]
                  ELSE tasks[u]]
    /\ refreshTasks' = refreshTasks \cup {t}

(* Mutation: the running task is not looked up. *)
StartRefresh_Unshared(k, callers) == Create(k, callers)

(* _start_..._refresh_locked; the callers await the task, shielded. *)
StartRefresh(k, callers) ==
  \/ \E t \in Tracked(k) :
       /\ tasks' = [tasks EXCEPT ![t].waiters = @ \cup callers]
       /\ UNCHANGED refreshTasks
  \/ Tracked(k) = {} /\ Create(k, callers)

-----------------------------------------------------------------------------
(* A request: fresh hit, stale hit, refusal, or wait for the refresh. *)

Aged(k, first, last) == k \in DOMAIN cache /\ cache[k].age \in first..last

Arrive(c, k, answer, rows) ==
  /\ ~closed
  /\ handler[c].answer # "waiting"
  /\ handler' = [handler EXCEPT ![c] =
       [since |-> IF answer \in {"rows", "waiting"} THEN acknowledged ELSE 0,
        answer |-> answer, rows |-> rows]]
  /\ recent' = IF k \in DOMAIN cache THEN Touch(recent, k) ELSE recent
  /\ retryOrder' = IF k \in DOMAIN retry THEN Touch(retryOrder, k) ELSE retryOrder
  /\ UNCHANGED <<generation, cache, retry, hostVars>>

FreshHit(c, k) ==
  /\ Aged(k, 0, FreshSeconds)
  /\ Arrive(c, k, "rows", cache[k].rows)
  /\ UNCHANGED <<tasks, refreshTasks>>

(* Mutation: a stale hit starts no refresh. *)
StaleHit_NoRefresh(c, k) ==
  /\ Aged(k, FreshSeconds + 1, StaleSeconds)
  /\ Arrive(c, k, "rows", cache[k].rows)
  /\ UNCHANGED <<tasks, refreshTasks>>

StaleHit(c, k) ==
  /\ Aged(k, FreshSeconds + 1, StaleSeconds)
  /\ Arrive(c, k, "rows", cache[k].rows)
  /\ IF BackingOff(k) THEN UNCHANGED <<tasks, refreshTasks>>
                      ELSE StartRefresh(k, {})

Refuse(c, k) ==
  /\ ~Aged(k, 0, StaleSeconds)
  /\ BackingOff(k)
  /\ Arrive(c, k, "backoff", 0)
  /\ UNCHANGED <<tasks, refreshTasks>>

(* Mutation: a miss does not look at retry_not_before. *)
Await_Impatient(c, k) ==
  /\ ~Aged(k, 0, StaleSeconds)
  /\ Arrive(c, k, "waiting", 0)
  /\ StartRefresh(k, {c})

Await(c, k) ==
  /\ ~Aged(k, 0, StaleSeconds)
  /\ ~BackingOff(k)
  /\ Arrive(c, k, "waiting", 0)
  /\ StartRefresh(k, {c})

Request(c, k) == FreshHit(c, k) \/ StaleHit(c, k) \/ Refuse(c, k) \/ Await(c, k)

-----------------------------------------------------------------------------
(* A refresh task. *)

(* The query's snapshot is taken; fetching the rows takes further awaits. *)
Load(t) ==
  /\ t \in DOMAIN tasks
  /\ tasks[t].phase = "loading"
  /\ tasks' = [tasks EXCEPT ![t].phase = "loaded", ![t].rows = annotation]
  /\ UNCHANGED <<generation, cache, recent, retry, retryOrder, refreshTasks,
                 handler, hostVars>>

Ends(t, answer, rows) ==
  /\ tasks' = [u \in DOMAIN tasks \ {t} |-> tasks[u]]
  /\ refreshTasks' = refreshTasks \ {t}
  /\ Reply(tasks[t].waiters, answer, rows)
  /\ UNCHANGED <<generation, hostVars>>

PutEntry(k, rows) ==
  LET kept == Newest(Touch(recent, k), MaxEntries)
  IN  /\ retry' = [x \in DOMAIN retry \ {k} |-> retry[x]]
      /\ retryOrder' = Drop(retryOrder, k)
      /\ recent' = kept
      /\ cache' = [x \in (DOMAIN cache \cup {k}) \cap ToSet(kept) |->
           IF x = k THEN [rows |-> rows, age |-> 0] ELSE cache[x]]

(* Mutation: the generation is not compared. *)
StoreEntry_AnyGeneration(t) == PutEntry(tasks[t].key, tasks[t].rows)

StoreEntry(t) ==
  IF tasks[t].gen = generation
  THEN PutEntry(tasks[t].key, tasks[t].rows)
  ELSE UNCHANGED <<retry, retryOrder, recent, cache>>

Succeed(t) ==
  /\ t \in DOMAIN tasks
  /\ tasks[t].phase = "loaded"
  /\ StoreEntry(t)
  /\ Ends(t, "rows", tasks[t].rows)

PutFailure(k, bound) ==
  LET kept == Newest(Touch(retryOrder, k), bound)
      failures == IF k \in DOMAIN retry THEN retry[k].failures + 1 ELSE 1
  IN  /\ retryOrder' = kept
      /\ retry' = [x \in (DOMAIN retry \cup {k}) \cap ToSet(kept) |->
           IF x = k THEN [failures |-> Least(failures, MaxExponent + 1),
                          wait |-> Delay(failures)]
                    ELSE retry[x]]

(* Mutations: the generation is not compared; no record is ever dropped. *)
RecordFailure_AnyGeneration(t) == PutFailure(tasks[t].key, MaxRetries)

RecordFailure_Unbounded(t) ==
  IF tasks[t].gen = generation
  THEN PutFailure(tasks[t].key, Cardinality(Key))
  ELSE UNCHANGED <<retry, retryOrder>>

RecordFailure(t) ==
  IF tasks[t].gen = generation
  THEN PutFailure(tasks[t].key, MaxRetries)
  ELSE UNCHANGED <<retry, retryOrder>>

(* The read fails, or the rows exceed a configured limit. *)
Fail(t) ==
  /\ t \in DOMAIN tasks
  /\ RecordFailure(t)
  /\ Ends(t, "error", 0)
  /\ UNCHANGED <<cache, recent>>

(* The materialized view was never populated: no back-off. *)
Warming(t) ==
  /\ t \in DOMAIN tasks
  /\ tasks[t].phase = "loading"
  /\ Ends(t, "warming", 0)
  /\ UNCHANGED <<cache, recent, retry, retryOrder>>

(* Mutation: the await is not shielded, its cancellation ends the task. *)
Abandon_Unshielded(c) ==
  \E t \in DOMAIN tasks :
    /\ c \in tasks[t].waiters
    /\ Ends(t, "cancelled", 0)
    /\ UNCHANGED <<cache, recent, retry, retryOrder>>

(* The client is gone: only its own await ends, the task is shielded. *)
Abandon(c) ==
  /\ handler[c].answer = "waiting"
  /\ Reply({c}, "none", 0)
  /\ tasks' = [t \in DOMAIN tasks |->
                 [tasks[t] EXCEPT !.waiters = @ \ {c}]]
  /\ UNCHANGED <<generation, cache, recent, retry, retryOrder, refreshTasks, hostVars>>

-----------------------------------------------------------------------------
(* What the rest of the process does to the cache. *)

Forget ==
  /\ generation' = generation + 1
  /\ cache' = EmptyDict /\ recent' = <<>>
  /\ retry' = EmptyDict /\ retryOrder' = <<>>

(* Mutation: the invalidation also forgets the tasks. *)
Invalidate_Untracks == Forget /\ refreshTasks' = {} /\ UNCHANGED <<tasks, handler>>

(* invalidate_query_rows_cache: running tasks go on. *)
Invalidate == Forget /\ UNCHANGED <<tasks, refreshTasks, handler>>

(* close_query_rows_cache: every tracked task is cancelled and awaited. *)
Cancel ==
  /\ Forget
  /\ tasks' = [t \in DOMAIN tasks \ refreshTasks |-> tasks[t]]
  /\ refreshTasks' = {}
  /\ Reply(UNION {tasks[t].waiters : t \in refreshTasks \cap DOMAIN tasks},
           "cancelled", 0)

Age ==
  /\ cache' = [k \in DOMAIN cache |->
       [cache[k] EXCEPT !.age = Least(@ + 1, StaleSeconds + 1)]]
  /\ retry' = [k \in DOMAIN retry |->
       [retry[k] EXCEPT !.wait = IF @ = 0 THEN 0 ELSE @ - 1]]
  /\ UNCHANGED <<generation, recent, retryOrder, tasks, refreshTasks, handler>>

-----------------------------------------------------------------------------
(* The process around the cache. *)

HostInit ==
  /\ annotation = 0
  /\ unannounced = {}
  /\ acknowledged = 0
  /\ closed = FALSE

(* annotate: the transaction commits when its connection block ends ... *)
Annotate ==
  /\ ~closed
  /\ annotation < MaxAnnotations
  /\ annotation' = annotation + 1
  /\ unannounced' = unannounced \cup {annotation + 1}
  /\ UNCHANGED <<cacheVars, acknowledged, closed>>

(* ... and the handler that wrote version v invalidates and returns. *)
Announce(v) ==
  /\ ~closed
  /\ v \in unannounced
  /\ Invalidate
  /\ unannounced' = unannounced \ {v}
  /\ acknowledged' = IF v > acknowledged THEN v ELSE acknowledged
  /\ UNCHANGED <<annotation, closed>>

(* lifespan: no request is accepted any more; close_pool follows. *)
Close ==
  /\ ~closed
  /\ Cancel
  /\ closed' = TRUE
  /\ UNCHANGED <<annotation, unannounced, acknowledged>>

Tick == Age /\ UNCHANGED hostVars

CacheNext ==
  \/ \E c \in Caller, k \in Key : Request(c, k)
  \/ \E c \in Caller : Abandon(c)
  \/ \E t \in Task : Load(t) \/ Succeed(t) \/ Fail(t) \/ Warming(t)
  \/ Annotate
  \/ \E v \in 1..MaxAnnotations : Announce(v)
  \/ Close
  \/ Tick

Init == CacheInit /\ HostInit

CacheSpec == Init /\ [][CacheNext]_<<cacheVars, hostVars>>

(* The loop clock runs; nothing else needs to be assumed. *)
FairCacheSpec == CacheSpec /\ WF_<<cacheVars, hostVars>>(Tick)

-----------------------------------------------------------------------------
(* Properties. *)

(* The inductive invariant behind them: every running task is tracked, no  *)
(* younger than the generation and awaited by handlers that await nothing  *)
(* else; neither an entry nor a loaded task of the generation lacks an     *)
(* acknowledged annotation.                                                *)
TasksOK ==
  /\ refreshTasks = DOMAIN tasks
  /\ \A t \in DOMAIN tasks :
       /\ tasks[t].gen <= generation
       /\ \A c \in tasks[t].waiters :
            /\ handler[c].answer = "waiting"
            /\ tasks[t].phase = "loaded" => tasks[t].rows >= handler[c].since
            /\ \A u \in DOMAIN tasks : c \in tasks[u].waiters => u = t

RowsOK ==
  /\ \A k \in DOMAIN cache : cache[k].rows >= acknowledged
  /\ \A t \in DOMAIN tasks :
       tasks[t].phase = "loaded" /\ tasks[t].gen = generation
         => tasks[t].rows >= acknowledged
  /\ \A c \in Caller : handler[c].since <= annotation

CacheInv == CacheTypeOK /\ TasksOK /\ RowsOK

(* Rows handed to a request carry every annotation whose mutation had been *)
(* answered when the request arrived (the generation guard of              *)
(* _refresh_query_metrics_snapshot; powa.py:2356).                         *)
ReadYourWrites ==
  \A c \in Caller :
    handler[c].answer = "rows" => handler[c].rows >= handler[c].since

(* A generation never loads the same key twice at the same time, however   *)
(* many requests miss, abandon or revalidate it.                           *)
SingleFlight ==
  \A t, u \in DOMAIN tasks :
    t # u /\ tasks[t].key = tasks[u].key => tasks[t].gen # tasks[u].gen

(* After shutdown no refresh is left to use the closed pool, the tasks of  *)
(* earlier generations included, and none can fill the cache again.        *)
ClosedQuietly == closed => DOMAIN tasks = {} /\ DOMAIN cache = {}

(* A disconnected client never cancels the query others wait for.          *)
Shielded == \A c \in Caller : handler[c].answer = "cancelled" => closed

(* The dictionaries stay within their configured sizes, in an order that   *)
(* has each of their keys once.                                            *)
Bounded ==
  /\ ToSet(recent) = DOMAIN cache /\ Len(recent) = Cardinality(DOMAIN cache)
  /\ ToSet(retryOrder) = DOMAIN retry /\ Len(retryOrder) = Cardinality(DOMAIN retry)
  /\ Cardinality(DOMAIN cache) <= MaxEntries
  /\ Cardinality(DOMAIN retry) <= MaxRetries

(* The end of a refresh from before an invalidation changes neither the    *)
(* entries nor the back-off of the generation that replaced it.            *)
StragglersInert ==
  [][\A t \in DOMAIN tasks :
       t \notin DOMAIN tasks' /\ tasks[t].gen # generation /\ ~closed'
         => UNCHANGED <<cache, retry>>]_<<cacheVars, hostVars>>

(* An old entry is answered at once only while it is within its stale      *)
(* limit, and never without a refresh under way or a back-off to wait for. *)
StaleWhileRevalidate ==
  [][\A c \in Caller, k \in Key :
       /\ handler'[c] # handler[c]
       /\ handler'[c].answer = "rows" /\ handler[c].answer # "waiting"
       /\ Last(recent') = k
       => /\ k \in DOMAIN cache
          /\ cache[k].age <= StaleSeconds
          /\ \/ cache[k].age <= FreshSeconds
             \/ BackingOff(k)
             \/ Tracked(k)' # {}]_<<cacheVars, hostVars>>

(* Failing reads and any pattern of requests never keep a key refused for  *)
(* ever: its back-off runs out again and again.                            *)
NeverLockedOut == \A k \in Key : []<>~BackingOff(k)
=============================================================================

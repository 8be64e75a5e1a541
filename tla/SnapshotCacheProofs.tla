------------------------- MODULE SnapshotCacheProofs -------------------------
(***************************************************************************)
(* What holds of a snapshot cache for all values of the constants: any     *)
(* number of keys, handlers, tasks and mutations, any limits.              *)
(***************************************************************************)
EXTENDS SnapshotCache, SequenceTheorems, FiniteSetTheorems, TLAPS

-----------------------------------------------------------------------------
(* The order of an OrderedDict stays a sequence of keys.                   *)
LEMMA DropType ==
  ASSUME NEW S, NEW order \in Seq(S), NEW k
  PROVE  Drop(order, k) \in Seq(S)
<1>1. CASE k \notin ToSet(order)
  BY <1>1 DEF Drop
<1>2. CASE k \in ToSet(order)
  <2> DEFINE i == CHOOSE j \in DOMAIN order : order[j] = k
  <2>1. \E j \in DOMAIN order : order[j] = k
    BY <1>2 DEF ToSet
  <2>2. i \in 1..Len(order)
    BY <2>1, LenProperties
  <2>3. Drop(order, k) = RemoveAt(order, i)
    BY <1>2 DEF Drop
  <2> HIDE DEF i
  <2>4. SubSeq(order, 1, i - 1) \in Seq(S) /\ SubSeq(order, i + 1, Len(order)) \in Seq(S)
    BY <2>2, ElementOfSeq, LenProperties, SubSeqProperties
  <2> QED BY <2>3, <2>4, ConcatProperties DEF RemoveAt
<1> QED BY <1>1, <1>2

LEMMA TouchType ==
  ASSUME NEW S, NEW order \in Seq(S), NEW k \in S
  PROVE  Touch(order, k) \in Seq(S)
BY DropType, AppendProperties DEF Touch

LEMMA NewestType ==
  ASSUME NEW S, NEW order \in Seq(S), NEW n \in Nat
  PROVE  Newest(order, n) \in Seq(S)
<1> DEFINE m == IF Len(order) > n THEN Len(order) - n + 1 ELSE 1
<1>1. m \in Int /\ Len(order) \in Int /\ \A i \in m..Len(order) : order[i] \in S
  BY LenProperties, ElementOfSeq
<1> HIDE DEF m
<1>2. SubSeq(order, m, Len(order)) \in Seq(S)
  BY <1>1, SubSeqProperties
<1> QED BY <1>2 DEF Newest, m

(* A back-off lasts no longer than MaxDelay.                               *)
LEMMA DelayType ==
  ASSUME NEW f \in Nat \ {0}
  PROVE  /\ Delay(f) \in 0..MaxDelay
         /\ Least(f, MaxExponent + 1) \in 1..(MaxExponent + 1)
<1>1. MaxExponent \in Nat /\ MaxDelay \in Nat
  BY CacheAssumption
<1> DEFINE e == Least(f - 1, MaxExponent)
<1>2. e \in 0..MaxExponent
  BY <1>1 DEF Least
<1> HIDE DEF e
<1>3. 2 ^ e \in Nat
  BY <1>2, PowerAssumption
<1>4. Least(2 ^ e, MaxDelay) \in 0..MaxDelay
  BY <1>1, <1>3 DEF Least
<1> QED BY <1>1, <1>4 DEF Delay, Least, e

-----------------------------------------------------------------------------
(* The inductive invariant with the properties it carries.                 *)
Inductive == CacheInv /\ ReadYourWrites /\ SingleFlight /\ Shielded /\ ClosedQuietly

(* What a reply leaves in the handlers.                                    *)
LEMMA ReplyType ==
  ASSUME CacheTypeOK, NEW callers, NEW answer \in Answer, NEW rows \in Nat,
         Reply(callers, answer, rows)
  PROVE  /\ handler' \in [Caller -> Handler]
         /\ \A c \in Caller : c \notin callers => handler'[c] = handler[c]
         /\ \A c \in Caller : c \in callers =>
              /\ handler'[c].answer = answer
              /\ handler'[c].rows = rows
              /\ handler'[c].since = 0 \/ handler'[c].since = handler[c].since
<1>1. handler \in [Caller -> Handler]
  BY DEF CacheTypeOK
<1>2. ASSUME NEW c \in Caller
      PROVE  handler[c] \in Handler /\ handler[c].since \in Nat
  BY <1>1 DEF Handler
<1>3. handler' = [c \in Caller |->
        IF c \in callers
        THEN [since |-> IF answer = "rows" THEN handler[c].since ELSE 0,
              answer |-> answer, rows |-> rows]
        ELSE handler[c]]
  BY DEF Reply
<1>4. ASSUME NEW c \in Caller
      PROVE  [since |-> IF answer = "rows" THEN handler[c].since ELSE 0,
              answer |-> answer, rows |-> rows] \in Handler
  BY <1>2 DEF Handler
<1>5. handler' \in [Caller -> Handler]
  BY <1>2, <1>3, <1>4
<1>6. ASSUME NEW c \in Caller, c \in callers
      PROVE  handler'[c] = [since |-> IF answer = "rows" THEN handler[c].since ELSE 0,
                            answer |-> answer, rows |-> rows]
  BY <1>3, <1>6
<1>7. ASSUME NEW c \in Caller, c \notin callers PROVE handler'[c] = handler[c]
  BY <1>3, <1>7
<1> QED BY <1>5, <1>6, <1>7

(* A refresh is created with a key and a generation no other task has, or  *)
(* one of this key and generation gains a waiter.                          *)
LEMMA StartShape ==
  ASSUME Inductive, NEW k \in Key, NEW callers \in SUBSET Caller,
         StartRefresh(k, callers)
  PROVE  /\ IsDict(tasks', Task, Refresh)
         /\ refreshTasks' = DOMAIN tasks' /\ refreshTasks' \subseteq Task
         /\ DOMAIN tasks \subseteq DOMAIN tasks'
         /\ \A t \in DOMAIN tasks :
              /\ tasks'[t].key = tasks[t].key
              /\ tasks'[t].gen = tasks[t].gen
              /\ tasks'[t].phase = tasks[t].phase
              /\ tasks'[t].rows = tasks[t].rows
         /\ \E u \in DOMAIN tasks' :
              /\ tasks'[u].gen = generation
              /\ tasks'[u].key = k
              /\ u \notin DOMAIN tasks =>
                   /\ tasks'[u].phase = "loading"
                   /\ tasks'[u].waiters = callers
                   /\ \A t \in DOMAIN tasks :
                        tasks[t].key = k => tasks[t].gen # generation
              /\ u \in DOMAIN tasks => tasks'[u].waiters = tasks[u].waiters \cup callers
              /\ \A t \in DOMAIN tasks' :
                   t # u => t \in DOMAIN tasks /\ tasks'[t] = tasks[t]
<1>1. /\ IsDict(tasks, Task, Refresh) /\ refreshTasks = DOMAIN tasks
      /\ generation \in Nat
  BY DEF Inductive, CacheInv, CacheTypeOK, TasksOK
<1>2. /\ tasks \in [DOMAIN tasks -> Refresh]
      /\ DOMAIN tasks \subseteq Task
  BY <1>1 DEF IsDict
<1>3. CASE \E t \in Tracked(k) :
             /\ tasks' = [tasks EXCEPT ![t].waiters = @ \cup callers]
             /\ UNCHANGED refreshTasks
  <2>1. PICK u \in Tracked(k) :
               /\ tasks' = [tasks EXCEPT ![u].waiters = @ \cup callers]
               /\ UNCHANGED refreshTasks
    BY <1>3
  <2>2. u \in DOMAIN tasks /\ tasks[u].key = k /\ tasks[u].gen = generation
    BY <2>1 DEF Tracked
  <2>3. DOMAIN tasks' = DOMAIN tasks
    BY <1>2, <2>1
  <2>4. tasks[u] \in Refresh
    BY <1>2, <2>2
  <2>5. tasks'[u] = [tasks[u] EXCEPT !.waiters = @ \cup callers]
    BY <1>2, <2>1, <2>2
  <2>6. /\ tasks'[u] \in Refresh /\ tasks'[u].key = k
        /\ tasks'[u].gen = generation /\ tasks'[u].phase = tasks[u].phase
        /\ tasks'[u].rows = tasks[u].rows
        /\ tasks'[u].waiters = tasks[u].waiters \cup callers
    BY <2>2, <2>4, <2>5 DEF Refresh
  <2>7. \A t \in DOMAIN tasks : t # u => tasks'[t] = tasks[t]
    BY <1>2, <2>1
  <2>8. tasks' \in [DOMAIN tasks' -> Refresh]
    <3>1. \A t \in DOMAIN tasks : tasks'[t] \in Refresh
      BY <1>2, <2>6, <2>7
    <3>2. tasks' = [t \in DOMAIN tasks |-> tasks'[t]]
      BY <2>1, <2>3
    <3> QED BY <2>3, <3>1, <3>2
  <2>9. IsDict(tasks', Task, Refresh)
    BY <1>2, <2>3, <2>8 DEF IsDict
  <2> QED BY <1>1, <1>2, <2>1, <2>2, <2>3, <2>6, <2>7, <2>9
<1>4. CASE Tracked(k) = {} /\ Create(k, callers)
  <2>1. PICK u \in Task \ DOMAIN tasks :
          /\ tasks' = [t \in DOMAIN tasks \cup {u} |->
               IF t = u THEN [key |-> k, gen |-> generation, phase |-> "loading",
                              rows |-> 0, waiters |-> callers]
                        ELSE tasks[t]]
          /\ refreshTasks' = refreshTasks \cup {u}
    BY <1>4 DEF Create
  <2>2. DOMAIN tasks' = DOMAIN tasks \cup {u}
    BY <2>1
  <2>3. tasks'[u] = [key |-> k, gen |-> generation, phase |-> "loading",
                     rows |-> 0, waiters |-> callers]
    BY <2>1
  <2>4. \A t \in DOMAIN tasks : tasks'[t] = tasks[t]
    BY <2>1
  <2>5. tasks'[u] \in Refresh
    BY <1>1, <2>3 DEF Refresh
  <2>6. tasks' \in [DOMAIN tasks' -> Refresh]
    BY <1>2, <2>1, <2>2, <2>4, <2>5
  <2>7. IsDict(tasks', Task, Refresh)
    BY <1>2, <2>2, <2>6 DEF IsDict
  <2>8. \A t \in DOMAIN tasks : tasks[t].key = k => tasks[t].gen # generation
    BY <1>1, <1>4 DEF Tracked
  <2> QED BY <1>1, <1>2, <2>1, <2>2, <2>3, <2>4, <2>7, <2>8
<1> QED BY <1>3, <1>4 DEF StartRefresh

(* RowsOK by the state it is about.                                        *)
EntriesOK == \A k \in DOMAIN cache : cache[k].rows >= acknowledged
LoadedOK ==
  \A t \in DOMAIN tasks :
    tasks[t].phase = "loaded" /\ tasks[t].gen = generation
      => tasks[t].rows >= acknowledged
ArrivalsOK == \A c \in Caller : handler[c].since <= annotation

(* All a step on tasks and handlers alone has to keep.                     *)
TasksAndHandlers ==
  /\ IsDict(tasks, Task, Refresh) /\ refreshTasks \in SUBSET Task
  /\ handler \in [Caller -> Handler]
  /\ TasksOK /\ LoadedOK /\ ArrivalsOK
  /\ ReadYourWrites /\ SingleFlight /\ Shielded

(* The rest of the state.                                                  *)
HostOK ==
  /\ annotation \in Nat /\ unannounced \in SUBSET (1..annotation)
  /\ acknowledged \in 0..annotation /\ closed \in BOOLEAN
  /\ generation \in Nat

DictsOK ==
  /\ IsDict(cache, Key, Entry) /\ recent \in Seq(Key)
  /\ IsDict(retry, Key, Retry) /\ retryOrder \in Seq(Key)
  /\ EntriesOK

(* The types of the members of the dictionaries.                           *)
LEMMA MemberTypes ==
  ASSUME Inductive
  PROVE  /\ \A c \in Caller : handler[c].since \in Nat /\ handler[c].rows \in Nat
         /\ \A t \in DOMAIN tasks :
              /\ t \in Task
              /\ tasks[t] \in Refresh
              /\ tasks[t].key \in Key
              /\ tasks[t].gen \in Nat
              /\ tasks[t].rows \in Nat
              /\ tasks[t].waiters \subseteq Caller
         /\ \A k \in DOMAIN cache :
              k \in Key /\ cache[k] \in Entry /\ cache[k].rows \in Nat
         /\ \A k \in DOMAIN retry : k \in Key /\ retry[k] \in Retry
         /\ annotation \in Nat /\ acknowledged \in Nat /\ acknowledged <= annotation
         /\ generation \in Nat
<1>1. CacheTypeOK
  BY DEF Inductive, CacheInv
<1>2. handler \in [Caller -> Handler] /\ IsDict(tasks, Task, Refresh)
      /\ IsDict(cache, Key, Entry) /\ IsDict(retry, Key, Retry)
  BY <1>1 DEF CacheTypeOK
<1>3. \A c \in Caller : handler[c].since \in Nat /\ handler[c].rows \in Nat
  BY <1>2 DEF Handler
<1>4. \A t \in DOMAIN tasks :
        /\ t \in Task
        /\ tasks[t] \in Refresh
        /\ tasks[t].key \in Key
        /\ tasks[t].gen \in Nat
        /\ tasks[t].rows \in Nat
        /\ tasks[t].waiters \subseteq Caller
  <2>1. \A t \in DOMAIN tasks : t \in Task /\ tasks[t] \in Refresh
    BY <1>2 DEF IsDict
  <2> QED BY <2>1 DEF Refresh
<1>5. \A k \in DOMAIN cache :
        k \in Key /\ cache[k] \in Entry /\ cache[k].rows \in Nat
  BY <1>2 DEF IsDict, Entry
<1>6. \A k \in DOMAIN retry : k \in Key /\ retry[k] \in Retry
  BY <1>2 DEF IsDict
<1>7. /\ annotation \in Nat /\ acknowledged \in 0..annotation
      /\ generation \in Nat
  BY <1>1 DEF CacheTypeOK
<1> QED BY <1>3, <1>4, <1>5, <1>6, <1>7

LEMMA InductiveParts ==
  Inductive <=> TasksAndHandlers /\ HostOK /\ DictsOK /\ ClosedQuietly
BY Zenon DEF Inductive, CacheInv, CacheTypeOK, RowsOK, TasksAndHandlers,
             HostOK, DictsOK, EntriesOK, LoadedOK, ArrivalsOK

(* The end of a task hands its own rows, or none, to those who await it.   *)
LEMMA EndsKeeps ==
  ASSUME Inductive, NEW t \in DOMAIN tasks, NEW rows \in Nat,
         NEW answer \in {"rows", "error", "warming"},
         answer = "rows" => tasks[t].phase = "loaded" /\ rows = tasks[t].rows,
         Ends(t, answer, rows)
  PROVE  TasksAndHandlers'
<1>1. CacheTypeOK /\ TasksAndHandlers /\ TasksOK
  BY InductiveParts DEF Inductive, CacheInv
<1>2. /\ tasks' = [u \in DOMAIN tasks \ {t} |-> tasks[u]]
      /\ refreshTasks' = refreshTasks \ {t}
      /\ Reply(tasks[t].waiters, answer, rows)
      /\ generation' = generation /\ annotation' = annotation
      /\ acknowledged' = acknowledged /\ closed' = closed
  BY DEF Ends, hostVars
<1>3. /\ DOMAIN tasks' = DOMAIN tasks \ {t}
      /\ \A u \in DOMAIN tasks' : tasks'[u] = tasks[u]
  BY <1>2
<1>4. answer \in Answer
  BY DEF Answer
<1>5. /\ handler' \in [Caller -> Handler]
      /\ \A c \in Caller : c \notin tasks[t].waiters => handler'[c] = handler[c]
      /\ \A c \in Caller : c \in tasks[t].waiters =>
           /\ handler'[c].answer = answer
           /\ handler'[c].rows = rows
           /\ handler'[c].since = 0 \/ handler'[c].since = handler[c].since
  BY <1>1, <1>2, <1>4, ReplyType
<1>6. IsDict(tasks', Task, Refresh) /\ refreshTasks' \in SUBSET Task
  <2>1. IsDict(tasks, Task, Refresh) /\ refreshTasks \in SUBSET Task
    BY <1>1 DEF CacheTypeOK
  <2>2. tasks' \in [DOMAIN tasks' -> Refresh] /\ DOMAIN tasks' \subseteq Task
    BY <1>2, <1>3, <2>1 DEF IsDict
  <2> QED BY <1>2, <2>1, <2>2 DEF IsDict
<1>7. TasksOK'
  <2>1. refreshTasks' = DOMAIN tasks'
    BY <1>1, <1>2, <1>3 DEF TasksOK
  <2>2. ASSUME NEW u \in DOMAIN tasks', NEW c \in tasks'[u].waiters
        PROVE  /\ handler'[c].answer = "waiting"
               /\ tasks'[u].phase = "loaded" => tasks'[u].rows >= handler'[c].since
               /\ \A w \in DOMAIN tasks' : c \in tasks'[w].waiters => w = u
    <3>1. u \in DOMAIN tasks /\ u # t /\ c \in tasks[u].waiters /\ c \in Caller
      BY <1>3, <2>2, MemberTypes
    <3>2. c \notin tasks[t].waiters
      BY <1>1, <3>1 DEF TasksOK
    <3>3. handler'[c] = handler[c]
      BY <1>5, <3>1, <3>2
    <3> QED BY <1>1, <1>3, <3>1, <3>3 DEF TasksOK
  <2>3. \A u \in DOMAIN tasks' : tasks'[u].gen <= generation'
    BY <1>1, <1>2, <1>3 DEF TasksOK
  <2> QED BY <2>1, <2>2, <2>3 DEF TasksOK
<1>8. LoadedOK'
  BY <1>1, <1>2, <1>3 DEF TasksAndHandlers, LoadedOK
<1>9. ArrivalsOK'
  BY <1>1, <1>2, <1>5, MemberTypes DEF TasksAndHandlers, ArrivalsOK
<1>10. ReadYourWrites'
  <2>1. ASSUME NEW c \in Caller, handler'[c].answer = "rows"
        PROVE  handler'[c].rows >= handler'[c].since
    <3>1. CASE c \notin tasks[t].waiters
      BY <1>1, <1>5, <2>1, <3>1 DEF TasksAndHandlers, ReadYourWrites
    <3>2. CASE c \in tasks[t].waiters
      <4>1. answer = "rows" /\ handler'[c].rows = tasks[t].rows
            /\ tasks[t].phase = "loaded"
        BY <1>5, <2>1, <3>2
      <4>2. tasks[t].rows >= handler[c].since
        BY <1>1, <3>2, <4>1 DEF TasksOK
      <4>3. tasks[t].rows \in Nat
        BY MemberTypes
      <4> QED BY <1>5, <3>2, <4>1, <4>2, <4>3
    <3> QED BY <3>1, <3>2
  <2> QED BY <2>1 DEF ReadYourWrites
<1>11. SingleFlight'
  BY <1>1, <1>3 DEF TasksAndHandlers, SingleFlight
<1>12. Shielded'
  BY <1>1, <1>2, <1>5 DEF TasksAndHandlers, Shielded
<1> QED
  BY <1>5, <1>6, <1>7, <1>8, <1>9, <1>10, <1>11, <1>12 DEF TasksAndHandlers

-----------------------------------------------------------------------------
(* What the arrival of a request leaves in the handlers.                   *)
LEMMA ArriveShape ==
  ASSUME Inductive, NEW c \in Caller, NEW k \in Key,
         NEW answer \in {"rows", "backoff", "waiting"}, NEW rows \in Nat,
         Arrive(c, k, answer, rows)
  PROVE  /\ handler' \in [Caller -> Handler]
         /\ \A d \in Caller : d # c => handler'[d] = handler[d]
         /\ handler'[c].answer = answer /\ handler'[c].rows = rows
         /\ handler'[c].since \in {0, acknowledged}
         /\ \A t \in DOMAIN tasks : c \notin tasks[t].waiters
         /\ recent' \in Seq(Key) /\ retryOrder' \in Seq(Key)
<1>1. /\ handler \in [Caller -> Handler] /\ acknowledged \in Nat
      /\ recent \in Seq(Key) /\ retryOrder \in Seq(Key) /\ TasksOK
  BY MemberTypes DEF Inductive, CacheInv, CacheTypeOK
<1> DEFINE h == [since |-> IF answer \in {"rows", "waiting"} THEN acknowledged ELSE 0,
                 answer |-> answer, rows |-> rows]
<1>2. h \in Handler
  BY <1>1 DEF Handler, Answer
<1>3. handler' = [handler EXCEPT ![c] = h] /\ handler[c].answer # "waiting"
  BY DEF Arrive
<1>4. h.answer = answer /\ h.rows = rows /\ h.since \in {0, acknowledged}
  OBVIOUS
<1> HIDE DEF h
<1>5. handler' \in [Caller -> Handler] /\ handler'[c] = h
      /\ \A d \in Caller : d # c => handler'[d] = handler[d]
  BY <1>1, <1>2, <1>3
<1>6. \A t \in DOMAIN tasks : c \notin tasks[t].waiters
  BY <1>1, <1>3 DEF TasksOK
<1>7. recent' \in Seq(Key) /\ retryOrder' \in Seq(Key)
  BY <1>1, TouchType DEF Arrive
<1> QED BY <1>4, <1>5, <1>6, <1>7

(* A request is answered at once with rows no older than acknowledged, or  *)
(* joins the refresh of its key; either way a refresh may have started.    *)
LEMMA ArriveKeeps ==
  ASSUME Inductive, NEW c \in Caller, NEW k \in Key,
         NEW answer \in {"rows", "backoff", "waiting"}, NEW rows \in Nat,
         Arrive(c, k, answer, rows),
         answer = "rows" => rows >= acknowledged,
         \/ answer # "waiting" /\ UNCHANGED <<tasks, refreshTasks>>
         \/ answer # "waiting" /\ StartRefresh(k, {})
         \/ answer = "waiting" /\ StartRefresh(k, {c})
  PROVE  TasksAndHandlers'
<1>1. /\ TasksAndHandlers /\ TasksOK
  BY InductiveParts DEF Inductive, CacheInv
<1>2. /\ handler' \in [Caller -> Handler]
      /\ \A d \in Caller : d # c => handler'[d] = handler[d]
      /\ handler'[c].answer = answer /\ handler'[c].rows = rows
      /\ handler'[c].since \in {0, acknowledged}
      /\ \A t \in DOMAIN tasks : c \notin tasks[t].waiters
  BY ArriveShape
<1>3. /\ generation' = generation /\ annotation' = annotation
      /\ acknowledged' = acknowledged /\ closed' = closed
  BY DEF Arrive, hostVars
<1>4. ArrivalsOK' /\ ReadYourWrites' /\ Shielded'
  <2>1. ArrivalsOK'
    BY <1>1, <1>2, <1>3, MemberTypes DEF TasksAndHandlers, ArrivalsOK
  <2>2. ReadYourWrites'
    BY <1>1, <1>2, MemberTypes DEF TasksAndHandlers, ReadYourWrites
  <2>3. Shielded'
    BY <1>1, <1>2, <1>3 DEF TasksAndHandlers, Shielded
  <2> QED BY <2>1, <2>2, <2>3
<1>5. CASE UNCHANGED <<tasks, refreshTasks>>
  <2>1. TasksOK'
    <3>1. ASSUME NEW u \in DOMAIN tasks, NEW d \in tasks[u].waiters
          PROVE  handler'[d] = handler[d]
      BY <1>2, <3>1, MemberTypes
    <3> QED BY <1>1, <1>3, <1>5, <3>1 DEF TasksOK
  <2>2. LoadedOK' /\ SingleFlight'
    BY <1>1, <1>3, <1>5 DEF TasksAndHandlers, LoadedOK, SingleFlight
  <2>3. IsDict(tasks', Task, Refresh) /\ refreshTasks' \in SUBSET Task
    BY <1>1, <1>5 DEF TasksAndHandlers
  <2> QED BY <1>2, <1>4, <2>1, <2>2, <2>3 DEF TasksAndHandlers
<1>6. ASSUME NEW W \in SUBSET Caller, StartRefresh(k, W),
             W = {} \/ (W = {c} /\ answer = "waiting")
      PROVE  TasksAndHandlers'
  <2>1. /\ IsDict(tasks', Task, Refresh)
        /\ refreshTasks' = DOMAIN tasks' /\ refreshTasks' \subseteq Task
        /\ DOMAIN tasks \subseteq DOMAIN tasks'
        /\ \A t \in DOMAIN tasks :
             /\ tasks'[t].key = tasks[t].key
             /\ tasks'[t].gen = tasks[t].gen
             /\ tasks'[t].phase = tasks[t].phase
             /\ tasks'[t].rows = tasks[t].rows
    BY <1>6, StartShape
  <2>2. PICK u \in DOMAIN tasks' :
          /\ tasks'[u].gen = generation
          /\ tasks'[u].key = k
          /\ u \notin DOMAIN tasks =>
               /\ tasks'[u].phase = "loading"
               /\ tasks'[u].waiters = W
               /\ \A t \in DOMAIN tasks :
                    tasks[t].key = k => tasks[t].gen # generation
          /\ u \in DOMAIN tasks => tasks'[u].waiters = tasks[u].waiters \cup W
          /\ \A t \in DOMAIN tasks' :
               t # u => t \in DOMAIN tasks /\ tasks'[t] = tasks[t]
    BY <1>6, StartShape
  <2>3. ASSUME NEW t \in DOMAIN tasks', NEW d \in tasks'[t].waiters, d # c
        PROVE  t \in DOMAIN tasks /\ d \in tasks[t].waiters /\ handler'[d] = handler[d]
    <3>1. t \in DOMAIN tasks /\ d \in tasks[t].waiters
      BY <1>6, <2>2, <2>3
    <3> QED BY <1>2, <2>3, <3>1, MemberTypes
  <2>4. ASSUME NEW t \in DOMAIN tasks', c \in tasks'[t].waiters
        PROVE  t = u /\ answer = "waiting"
    BY <1>2, <1>6, <2>2, <2>4
  <2>5. TasksOK'
    <3>1. ASSUME NEW t \in DOMAIN tasks' PROVE tasks'[t].gen <= generation'
      <4>1. CASE t = u
        BY <1>3, <2>2, <4>1, MemberTypes
      <4>2. CASE t # u
        BY <1>1, <1>3, <2>2, <4>2 DEF TasksOK
      <4> QED BY <4>1, <4>2
    <3>2. ASSUME NEW t \in DOMAIN tasks', NEW d \in tasks'[t].waiters
          PROVE  /\ handler'[d].answer = "waiting"
                 /\ tasks'[t].phase = "loaded" => tasks'[t].rows >= handler'[d].since
                 /\ \A w \in DOMAIN tasks' : d \in tasks'[w].waiters => w = t
      <4>1. CASE d = c
        <5>1. t = u /\ handler'[d].answer = "waiting"
          BY <1>2, <2>4, <3>2, <4>1
        <5>2. \A w \in DOMAIN tasks' : d \in tasks'[w].waiters => w = t
          BY <2>4, <4>1, <5>1
        <5>3. ASSUME tasks'[t].phase = "loaded"
              PROVE  tasks'[t].rows >= handler'[d].since
          <6>1. u \in DOMAIN tasks /\ tasks[u].phase = "loaded"
                /\ tasks[u].gen = generation /\ tasks'[u].rows = tasks[u].rows
            BY <2>1, <2>2, <5>1, <5>3
          <6>2. tasks[u].rows >= acknowledged
            BY <1>1, <6>1 DEF TasksAndHandlers, LoadedOK
          <6> QED BY <1>2, <4>1, <5>1, <6>1, <6>2, MemberTypes
        <5> QED BY <5>1, <5>2, <5>3
      <4>2. CASE d # c
        <5>1. t \in DOMAIN tasks /\ d \in tasks[t].waiters /\ handler'[d] = handler[d]
          BY <2>3, <3>2, <4>2
        <5>2. \A w \in DOMAIN tasks' : d \in tasks'[w].waiters => w = t
          BY <1>1, <2>3, <4>2, <5>1 DEF TasksOK
        <5> QED BY <1>1, <2>1, <5>1, <5>2 DEF TasksOK
      <4> QED BY <4>1, <4>2
    <3> QED BY <2>1, <3>1, <3>2 DEF TasksOK
  <2>6. LoadedOK'
    <3>1. ASSUME NEW t \in DOMAIN tasks', tasks'[t].phase = "loaded",
                 tasks'[t].gen = generation
          PROVE  tasks'[t].rows >= acknowledged
      <4>1. t \in DOMAIN tasks
        BY <2>2, <3>1
      <4> QED BY <1>1, <2>1, <3>1, <4>1 DEF TasksAndHandlers, LoadedOK
    <3> QED BY <1>3, <3>1 DEF LoadedOK
  <2>7. SingleFlight'
    <3>1. ASSUME NEW t \in DOMAIN tasks', NEW w \in DOMAIN tasks', t # w,
                 tasks'[t].key = tasks'[w].key, tasks'[t].gen = tasks'[w].gen
          PROVE  FALSE
      <4>1. CASE t \in DOMAIN tasks /\ w \in DOMAIN tasks
        BY <1>1, <2>1, <3>1, <4>1 DEF TasksAndHandlers, SingleFlight
      <4>2. CASE t \notin DOMAIN tasks
        <5>1. t = u /\ w \in DOMAIN tasks
          BY <2>2, <3>1, <4>2
        <5> QED BY <2>1, <2>2, <3>1, <4>2, <5>1
      <4>3. CASE w \notin DOMAIN tasks
        <5>1. w = u /\ t \in DOMAIN tasks
          BY <2>2, <3>1, <4>3
        <5> QED BY <2>1, <2>2, <3>1, <4>3, <5>1
      <4> QED BY <4>1, <4>2, <4>3
    <3> QED BY <3>1 DEF SingleFlight
  <2> QED BY <1>2, <1>4, <2>1, <2>5, <2>6, <2>7 DEF TasksAndHandlers
<1> QED BY <1>5, <1>6

-----------------------------------------------------------------------------
(* One lemma per action.                                                   *)
LEMMA RequestKeeps ==
  ASSUME Inductive, NEW c \in Caller, NEW k \in Key, Request(c, k)
  PROVE  Inductive'
<1>1. TasksAndHandlers /\ HostOK /\ DictsOK /\ ClosedQuietly /\ EntriesOK
  BY InductiveParts DEF DictsOK
<1>2. PICK answer \in {"rows", "backoff", "waiting"}, rows \in Nat :
        /\ Arrive(c, k, answer, rows)
        /\ answer = "rows" => rows >= acknowledged
        /\ \/ answer # "waiting" /\ UNCHANGED <<tasks, refreshTasks>>
           \/ answer # "waiting" /\ StartRefresh(k, {})
           \/ answer = "waiting" /\ StartRefresh(k, {c})
  <2>1. ASSUME k \in DOMAIN cache
        PROVE  cache[k].rows \in Nat /\ cache[k].rows >= acknowledged
    BY <1>1, <2>1, MemberTypes DEF EntriesOK
  <2>2. CASE FreshHit(c, k)
    BY <2>1, <2>2 DEF FreshHit, Aged
  <2>3. CASE StaleHit(c, k)
    BY <2>1, <2>3 DEF StaleHit, Aged
  <2>4. CASE Refuse(c, k)
    BY <2>4 DEF Refuse
  <2>5. CASE Await(c, k)
    BY <2>5 DEF Await
  <2> QED BY <2>2, <2>3, <2>4, <2>5 DEF Request
<1>3. TasksAndHandlers'
  BY <1>2, ArriveKeeps
<1>4. /\ generation' = generation /\ cache' = cache /\ retry' = retry
      /\ annotation' = annotation /\ unannounced' = unannounced
      /\ acknowledged' = acknowledged /\ closed' = closed /\ closed # TRUE
  BY <1>2 DEF Arrive, hostVars
<1>5. recent' \in Seq(Key) /\ retryOrder' \in Seq(Key)
  BY <1>2, ArriveShape
<1>6. HostOK' /\ DictsOK' /\ ClosedQuietly'
  <2>1. HostOK'
    BY <1>1, <1>4 DEF HostOK
  <2>2. DictsOK'
    BY <1>1, <1>4, <1>5 DEF DictsOK, EntriesOK
  <2>3. ClosedQuietly'
    BY <1>1, <1>4 DEF ClosedQuietly, HostOK
  <2> QED BY <2>1, <2>2, <2>3
<1> QED BY <1>3, <1>6, InductiveParts, PTL

LEMMA AbandonKeeps ==
  ASSUME Inductive, NEW c \in Caller, Abandon(c)
  PROVE  Inductive'
<1>1. /\ TasksAndHandlers /\ HostOK /\ DictsOK /\ ClosedQuietly
      /\ TasksOK /\ CacheTypeOK
  BY InductiveParts DEF Inductive, CacheInv
<1>2. /\ generation' = generation /\ cache' = cache /\ retry' = retry
      /\ recent' = recent /\ retryOrder' = retryOrder
      /\ refreshTasks' = refreshTasks /\ UNCHANGED hostVars
  BY DEF Abandon
<1>3. /\ annotation' = annotation /\ unannounced' = unannounced
      /\ acknowledged' = acknowledged /\ closed' = closed
  BY <1>2 DEF hostVars
<1>4. tasks' = [t \in DOMAIN tasks |-> [tasks[t] EXCEPT !.waiters = @ \ {c}]]
  BY DEF Abandon
<1>5. /\ DOMAIN tasks' = DOMAIN tasks
      /\ \A t \in DOMAIN tasks :
           /\ tasks'[t] \in Refresh
           /\ tasks'[t].key = tasks[t].key
           /\ tasks'[t].gen = tasks[t].gen
           /\ tasks'[t].phase = tasks[t].phase
           /\ tasks'[t].rows = tasks[t].rows
           /\ tasks'[t].waiters = tasks[t].waiters \ {c}
  <2>1. ASSUME NEW t \in DOMAIN tasks
        PROVE  /\ tasks'[t] = [tasks[t] EXCEPT !.waiters = @ \ {c}]
               /\ tasks[t] \in Refresh
    BY <1>4, MemberTypes
  <2>2. ASSUME NEW r \in Refresh, NEW q, q = [r EXCEPT !.waiters = @ \ {c}]
        PROVE  /\ q \in Refresh
               /\ q.key = r.key /\ q.gen = r.gen /\ q.phase = r.phase
               /\ q.rows = r.rows /\ q.waiters = r.waiters \ {c}
    BY <2>2 DEF Refresh
  <2>3. DOMAIN tasks' = DOMAIN tasks
    BY <1>4
  <2>4. ASSUME NEW t \in DOMAIN tasks
        PROVE  /\ tasks'[t] \in Refresh
               /\ tasks'[t].key = tasks[t].key
               /\ tasks'[t].gen = tasks[t].gen
               /\ tasks'[t].phase = tasks[t].phase
               /\ tasks'[t].rows = tasks[t].rows
               /\ tasks'[t].waiters = tasks[t].waiters \ {c}
    BY <2>1, <2>2, Zenon
  <2> QED BY <2>3, <2>4, Zenon
<1>6. /\ handler' \in [Caller -> Handler]
      /\ \A d \in Caller : d # c => handler'[d] = handler[d]
      /\ handler'[c].answer = "none" /\ handler'[c].rows = 0
      /\ handler'[c].since = 0 \/ handler'[c].since = handler[c].since
  <2>1. Reply({c}, "none", 0) /\ "none" \in Answer /\ 0 \in Nat
    BY DEF Abandon, Answer
  <2> DEFINE gone == {c}
  <2>2. c \in gone /\ \A d \in Caller : d # c => d \notin gone
    OBVIOUS
  <2>3. Reply(gone, "none", 0)
    BY <2>1
  <2> HIDE DEF gone
  <2>4. /\ handler' \in [Caller -> Handler]
        /\ \A d \in Caller : d \notin gone => handler'[d] = handler[d]
        /\ \A d \in Caller : d \in gone =>
             /\ handler'[d].answer = "none"
             /\ handler'[d].rows = 0
             /\ handler'[d].since = 0 \/ handler'[d].since = handler[d].since
    BY <1>1, <2>1, <2>3, ReplyType, Zenon
  <2> QED BY <2>2, <2>4
<1>7. TasksAndHandlers'
  <2>1. IsDict(tasks', Task, Refresh) /\ refreshTasks' \in SUBSET Task
    <3>1. tasks' \in [DOMAIN tasks' -> Refresh]
      BY <1>4, <1>5
    <3>2. DOMAIN tasks' \in SUBSET Task /\ refreshTasks' \in SUBSET Task
      BY <1>1, <1>2, <1>5 DEF TasksAndHandlers, IsDict
    <3> QED BY <3>1, <3>2 DEF IsDict
  <2>2. TasksOK'
    <3>1. ASSUME NEW t \in DOMAIN tasks', NEW d \in tasks'[t].waiters
          PROVE  d \in tasks[t].waiters /\ handler'[d] = handler[d]
      <4>1. d \in tasks[t].waiters /\ d # c
        BY <1>5, <3>1
      <4> QED BY <1>5, <1>6, <4>1, MemberTypes
    <3>2. ASSUME NEW t \in DOMAIN tasks', NEW d \in tasks'[t].waiters,
                 NEW w \in DOMAIN tasks', d \in tasks'[w].waiters
          PROVE  w = t
      <4>1. d \in tasks[w].waiters
        BY <1>5, <3>2
      <4>2. d \in tasks[t].waiters
        BY <3>1
      <4> QED BY <1>1, <1>5, <4>1, <4>2 DEF TasksOK
    <3>3. \A t \in DOMAIN tasks' : tasks'[t].gen <= generation'
      BY <1>1, <1>2, <1>5 DEF TasksOK
    <3>4. ASSUME NEW t \in DOMAIN tasks', NEW d \in tasks'[t].waiters
          PROVE  /\ handler'[d].answer = "waiting"
                 /\ tasks'[t].phase = "loaded" => tasks'[t].rows >= handler'[d].since
      BY <1>1, <1>5, <3>1, <3>4 DEF TasksOK
    <3> QED BY <1>1, <1>2, <1>5, <3>2, <3>3, <3>4 DEF TasksOK
  <2>3. LoadedOK' /\ SingleFlight'
    BY <1>1, <1>2, <1>3, <1>5 DEF TasksAndHandlers, LoadedOK, SingleFlight
  <2>4. ArrivalsOK' /\ ReadYourWrites' /\ Shielded'
    <3>1. ArrivalsOK'
      BY <1>1, <1>3, <1>6, MemberTypes DEF TasksAndHandlers, ArrivalsOK
    <3>2. ReadYourWrites' /\ Shielded'
      BY <1>1, <1>3, <1>6 DEF TasksAndHandlers, ReadYourWrites, Shielded
    <3> QED BY <3>1, <3>2
  <2> QED BY <1>6, <2>1, <2>2, <2>3, <2>4 DEF TasksAndHandlers
<1>8. HostOK' /\ DictsOK' /\ ClosedQuietly'
  BY <1>1, <1>2, <1>3, <1>5 DEF HostOK, DictsOK, EntriesOK, ClosedQuietly
<1> QED BY <1>7, <1>8, InductiveParts, PTL

LEMMA LoadKeeps ==
  ASSUME Inductive, NEW t \in Task, Load(t)
  PROVE  Inductive'
<1>1. /\ TasksAndHandlers /\ HostOK /\ DictsOK /\ ClosedQuietly /\ TasksOK
  BY InductiveParts DEF Inductive, CacheInv
<1>2. /\ generation' = generation /\ cache' = cache /\ retry' = retry
      /\ recent' = recent /\ retryOrder' = retryOrder /\ handler' = handler
      /\ refreshTasks' = refreshTasks
      /\ annotation' = annotation /\ unannounced' = unannounced
      /\ acknowledged' = acknowledged /\ closed' = closed
  BY DEF Load, hostVars
<1>3. /\ t \in DOMAIN tasks
      /\ tasks' = [tasks EXCEPT ![t].phase = "loaded", ![t].rows = annotation]
  BY DEF Load
<1>4. /\ IsDict(tasks, Task, Refresh) /\ annotation \in Nat
      /\ tasks[t] \in Refresh /\ acknowledged <= annotation
  BY <1>1, <1>3, MemberTypes DEF TasksAndHandlers
<1>5. /\ DOMAIN tasks' = DOMAIN tasks
      /\ \A u \in DOMAIN tasks : u # t => tasks'[u] = tasks[u]
  BY <1>3, <1>4 DEF IsDict
<1>6. /\ tasks'[t] \in Refresh /\ tasks'[t].key = tasks[t].key
      /\ tasks'[t].gen = tasks[t].gen /\ tasks'[t].waiters = tasks[t].waiters
      /\ tasks'[t].rows = annotation
  <2>1. tasks'[t] = [tasks[t] EXCEPT !.phase = "loaded", !.rows = annotation]
    BY <1>3, <1>4 DEF IsDict
  <2> QED BY <1>4, <2>1 DEF Refresh
<1>7. TasksAndHandlers'
  <2>1. IsDict(tasks', Task, Refresh)
    <3>1. \A u \in DOMAIN tasks : tasks'[u] \in Refresh
      BY <1>5, <1>6, MemberTypes
    <3>2. tasks' = [u \in DOMAIN tasks |-> tasks'[u]]
      BY <1>3, <1>4 DEF IsDict
    <3>3. tasks' \in [DOMAIN tasks -> Refresh]
      BY <3>1, <3>2
    <3> QED BY <1>4, <1>5, <3>3 DEF IsDict
  <2>2. \A u \in DOMAIN tasks :
          /\ tasks'[u].waiters = tasks[u].waiters
          /\ tasks'[u].gen = tasks[u].gen
          /\ tasks'[u].key = tasks[u].key
    BY <1>5, <1>6
  <2>3. TasksOK'
    <3>1. ASSUME NEW u \in DOMAIN tasks, NEW c \in tasks[u].waiters,
                 tasks'[u].phase = "loaded"
          PROVE  tasks'[u].rows >= handler[c].since
      <4>1. c \in Caller /\ handler[c].since <= annotation
        BY <1>1, <3>1, MemberTypes DEF TasksAndHandlers, ArrivalsOK
      <4>2. handler[c].since \in Nat
        BY <4>1, MemberTypes
      <4>3. CASE u = t
        BY <1>4, <1>6, <4>1, <4>2, <4>3
      <4>4. CASE u # t
        BY <1>1, <1>5, <3>1, <4>4 DEF TasksOK
      <4> QED BY <4>3, <4>4
    <3>2. \A u \in DOMAIN tasks' : tasks'[u].gen <= generation'
      BY <1>1, <1>2, <1>5, <2>2 DEF TasksOK
    <3>3. ASSUME NEW u \in DOMAIN tasks', NEW c \in tasks'[u].waiters
          PROVE  /\ handler'[c].answer = "waiting"
                 /\ tasks'[u].phase = "loaded" => tasks'[u].rows >= handler'[c].since
                 /\ \A w \in DOMAIN tasks' : c \in tasks'[w].waiters => w = u
      BY <1>1, <1>2, <1>5, <2>2, <3>1, <3>3 DEF TasksOK
    <3> QED BY <1>1, <1>2, <1>5, <3>2, <3>3 DEF TasksOK
  <2>4. LoadedOK'
    <3>1. ASSUME NEW u \in DOMAIN tasks, tasks'[u].phase = "loaded",
                 tasks'[u].gen = generation
          PROVE  tasks'[u].rows >= acknowledged
      <4>1. CASE u = t
        BY <1>4, <1>6, <4>1, MemberTypes
      <4>2. CASE u # t
        BY <1>1, <1>5, <3>1, <4>2 DEF TasksAndHandlers, LoadedOK
      <4> QED BY <4>1, <4>2
    <3> QED BY <1>2, <1>5, <3>1 DEF LoadedOK
  <2>5. SingleFlight'
    BY <1>1, <1>5, <2>2 DEF TasksAndHandlers, SingleFlight
  <2>6. /\ refreshTasks' \in SUBSET Task /\ handler' \in [Caller -> Handler]
        /\ ArrivalsOK' /\ ReadYourWrites' /\ Shielded'
    BY <1>1, <1>2 DEF TasksAndHandlers, ArrivalsOK, ReadYourWrites, Shielded
  <2> QED BY <2>1, <2>3, <2>4, <2>5, <2>6 DEF TasksAndHandlers
<1>8. HostOK' /\ DictsOK' /\ ClosedQuietly'
  BY <1>1, <1>2, <1>5 DEF HostOK, DictsOK, EntriesOK, ClosedQuietly
<1> QED BY <1>7, <1>8, InductiveParts, PTL

(* A stored entry keeps the cache no older than acknowledged.              *)
LEMMA PutEntryKeeps ==
  ASSUME Inductive, NEW k \in Key, NEW rows \in Nat, rows >= acknowledged,
         PutEntry(k, rows), acknowledged' = acknowledged
  PROVE  DictsOK'
<1>1. DictsOK /\ IsDict(cache, Key, Entry) /\ IsDict(retry, Key, Retry)
      /\ recent \in Seq(Key) /\ retryOrder \in Seq(Key) /\ EntriesOK
  BY InductiveParts DEF DictsOK
<1> DEFINE kept == Newest(Touch(recent, k), MaxEntries)
           S == (DOMAIN cache \cup {k}) \cap ToSet(kept)
           new == [rows |-> rows, age |-> 0]
<1>2. /\ retry' = [x \in DOMAIN retry \ {k} |-> retry[x]]
      /\ retryOrder' = Drop(retryOrder, k)
      /\ recent' = kept
      /\ cache' = [x \in S |-> IF x = k THEN new ELSE cache[x]]
  BY DEF PutEntry
<1>3. kept \in Seq(Key)
  <2>1. MaxEntries \in Nat
    BY CacheAssumption
  <2> QED BY <1>1, <2>1, TouchType, NewestType
<1>4. retryOrder' \in Seq(Key)
  BY <1>1, <1>2, DropType
<1>5. new \in Entry /\ new.rows = rows
  BY CacheAssumption DEF Entry
<1> HIDE DEF new
<1>6. S \subseteq Key /\ S \subseteq DOMAIN cache \cup {k}
  BY <1>1 DEF IsDict
<1> HIDE DEF S, kept
<1>7. \A x \in S : (IF x = k THEN new ELSE cache[x]) \in Entry
  BY <1>5, <1>6, MemberTypes
<1>8. DOMAIN cache' = S /\ cache' \in [S -> Entry]
      /\ \A x \in S : cache'[x] = IF x = k THEN new ELSE cache[x]
  BY <1>2, <1>7
<1>9. IsDict(cache', Key, Entry)
  BY <1>6, <1>8 DEF IsDict
<1>10. IsDict(retry', Key, Retry)
  BY <1>1, <1>2 DEF IsDict
<1>11. EntriesOK'
  BY <1>1, <1>5, <1>6, <1>8 DEF EntriesOK
<1> QED BY <1>2, <1>3, <1>4, <1>9, <1>10, <1>11 DEF DictsOK

(* A recorded failure keeps the dictionaries typed.                        *)
LEMMA PutFailureKeeps ==
  ASSUME Inductive, NEW k \in Key, PutFailure(k, MaxRetries),
         UNCHANGED <<cache, recent, acknowledged>>
  PROVE  DictsOK'
<1>1. DictsOK /\ IsDict(retry, Key, Retry) /\ retryOrder \in Seq(Key)
  BY InductiveParts DEF DictsOK
<1> DEFINE kept == Newest(Touch(retryOrder, k), MaxRetries)
           S == (DOMAIN retry \cup {k}) \cap ToSet(kept)
           failures == IF k \in DOMAIN retry THEN retry[k].failures + 1 ELSE 1
           new == [failures |-> Least(failures, MaxExponent + 1),
                   wait |-> Delay(failures)]
<1>2. /\ retryOrder' = kept
      /\ retry' = [x \in S |-> IF x = k THEN new ELSE retry[x]]
  BY DEF PutFailure
<1>3. kept \in Seq(Key)
  <2>1. MaxRetries \in Nat
    BY CacheAssumption
  <2> QED BY <1>1, <2>1, TouchType, NewestType
<1>4. failures \in Nat \ {0}
  <2>1. ASSUME k \in DOMAIN retry PROVE retry[k].failures \in Nat
    BY <2>1, MemberTypes, CacheAssumption DEF Retry
  <2> QED BY <2>1
<1> HIDE DEF failures
<1>5. new \in Retry
  BY <1>4, DelayType DEF Retry
<1> HIDE DEF new
<1>6. S \subseteq Key /\ S \subseteq DOMAIN retry \cup {k}
  BY <1>1 DEF IsDict
<1> HIDE DEF S, kept
<1>7. \A x \in S : (IF x = k THEN new ELSE retry[x]) \in Retry
  BY <1>5, <1>6, MemberTypes
<1>8. DOMAIN retry' = S /\ retry' \in [S -> Retry]
  BY <1>2, <1>7
<1>9. IsDict(retry', Key, Retry)
  BY <1>6, <1>8 DEF IsDict
<1> QED BY <1>1, <1>2, <1>3, <1>9 DEF DictsOK, EntriesOK

(* Every end of a task: success, failure, a view not populated yet.        *)
LEMMA EndKeeps ==
  ASSUME Inductive, NEW t \in Task, Succeed(t) \/ Fail(t) \/ Warming(t)
  PROVE  Inductive'
<1>1. /\ TasksAndHandlers /\ HostOK /\ DictsOK /\ ClosedQuietly /\ LoadedOK
      /\ t \in DOMAIN tasks
  BY InductiveParts DEF TasksAndHandlers, Succeed, Fail, Warming
<1>2. tasks[t].key \in Key /\ tasks[t].rows \in Nat
  BY <1>1, MemberTypes
<1>3. PICK answer \in {"rows", "error", "warming"}, rows \in Nat :
        /\ Ends(t, answer, rows)
        /\ answer = "rows" => tasks[t].phase = "loaded" /\ rows = tasks[t].rows
  BY <1>2 DEF Succeed, Fail, Warming
<1>4. TasksAndHandlers'
  BY <1>1, <1>3, EndsKeeps
<1>5. /\ generation' = generation /\ annotation' = annotation
      /\ unannounced' = unannounced /\ acknowledged' = acknowledged
      /\ closed' = closed
  BY <1>3 DEF Ends, hostVars
<1>6. DictsOK'
  <2>1. CASE UNCHANGED <<cache, recent, retry, retryOrder>>
    BY <1>1, <1>5, <2>1 DEF DictsOK, EntriesOK
  <2>2. CASE Succeed(t) /\ tasks[t].gen = generation
    <3>1. PutEntry(tasks[t].key, tasks[t].rows) /\ tasks[t].phase = "loaded"
      BY <2>2 DEF Succeed, StoreEntry
    <3>2. tasks[t].rows >= acknowledged
      BY <1>1, <2>2, <3>1 DEF LoadedOK
    <3> QED BY <1>2, <1>5, <3>1, <3>2, PutEntryKeeps
  <2>3. CASE Fail(t) /\ tasks[t].gen = generation
    <3>1. PutFailure(tasks[t].key, MaxRetries) /\ UNCHANGED <<cache, recent>>
      BY <2>3 DEF Fail, RecordFailure
    <3> QED BY <1>2, <1>5, <3>1, PutFailureKeeps
  <2> QED BY <2>1, <2>2, <2>3 DEF Succeed, StoreEntry, Fail, RecordFailure, Warming
<1>7. HostOK'
  BY <1>1, <1>5 DEF HostOK
<1>8. ClosedQuietly'
  <2>1. ~closed
    BY <1>1 DEF ClosedQuietly, HostOK
  <2> QED BY <1>5, <2>1 DEF ClosedQuietly
<1> QED BY <1>4, <1>6, <1>7, <1>8, InductiveParts, PTL

(* A step that leaves the tasks, the handlers and the generation alone and *)
(* only raises acknowledged annotations no task could miss.                *)
LEMMA AnnotateKeeps ==
  ASSUME Inductive, Annotate
  PROVE  Inductive'
<1>1. TasksAndHandlers /\ HostOK /\ DictsOK /\ ClosedQuietly
  BY InductiveParts
<1>2. /\ annotation' = annotation + 1
      /\ unannounced' = unannounced \cup {annotation + 1}
      /\ acknowledged' = acknowledged /\ closed' = closed
      /\ generation' = generation /\ cache' = cache /\ retry' = retry
      /\ recent' = recent /\ retryOrder' = retryOrder /\ tasks' = tasks
      /\ refreshTasks' = refreshTasks /\ handler' = handler
  BY DEF Annotate, cacheVars
<1>3. HostOK'
  BY <1>1, <1>2 DEF HostOK
<1>4. ArrivalsOK'
  BY <1>1, <1>2, MemberTypes DEF TasksAndHandlers, ArrivalsOK
<1>5. TasksAndHandlers'
  BY <1>1, <1>2, <1>4
     DEF TasksAndHandlers, TasksOK, LoadedOK, ReadYourWrites, SingleFlight, Shielded
<1>6. DictsOK' /\ ClosedQuietly'
  BY <1>1, <1>2 DEF DictsOK, EntriesOK, ClosedQuietly
<1> QED BY <1>3, <1>5, <1>6, InductiveParts, PTL

(* Forgetting leaves empty dictionaries and a generation of its own.       *)
LEMMA ForgetKeeps ==
  ASSUME Inductive, Forget
  PROVE  /\ DictsOK' /\ DOMAIN cache' = {}
         /\ generation' \in Nat
         /\ \A t \in DOMAIN tasks : tasks[t].gen < generation'
<1>1. EmptyDict \in [{} -> Entry] /\ EmptyDict \in [{} -> Retry] /\ DOMAIN EmptyDict = {}
  BY DEF EmptyDict
<1>2. /\ generation' = generation + 1
      /\ cache' = EmptyDict /\ recent' = <<>>
      /\ retry' = EmptyDict /\ retryOrder' = <<>>
  BY DEF Forget
<1>3. IsDict(cache', Key, Entry) /\ IsDict(retry', Key, Retry)
  BY <1>1, <1>2 DEF IsDict
<1>4. <<>> \in Seq(Key)
  BY EmptySeq
<1>5. EntriesOK'
  BY <1>1, <1>2 DEF EntriesOK
<1>6. ASSUME NEW t \in DOMAIN tasks PROVE tasks[t].gen < generation + 1
  <2>1. tasks[t].gen <= generation
    BY DEF Inductive, CacheInv, TasksOK
  <2> QED BY <2>1, MemberTypes
<1> QED BY <1>1, <1>2, <1>3, <1>4, <1>5, <1>6, MemberTypes DEF DictsOK

LEMMA AnnounceKeeps ==
  ASSUME Inductive, NEW v \in 1..MaxAnnotations, Announce(v)
  PROVE  Inductive'
<1>1. TasksAndHandlers /\ HostOK /\ DictsOK /\ ClosedQuietly
  BY InductiveParts
<1>2. /\ DictsOK' /\ DOMAIN cache' = {} /\ generation' \in Nat
      /\ \A t \in DOMAIN tasks : tasks[t].gen < generation'
  BY ForgetKeeps DEF Announce, Invalidate
<1>3. /\ v \in unannounced /\ unannounced' = unannounced \ {v}
      /\ acknowledged' = (IF v > acknowledged THEN v ELSE acknowledged)
      /\ annotation' = annotation /\ closed' = closed
      /\ tasks' = tasks /\ refreshTasks' = refreshTasks /\ handler' = handler
  BY DEF Announce, Invalidate
<1>4. HostOK'
  BY <1>1, <1>2, <1>3 DEF HostOK
<1>5. TasksOK' /\ LoadedOK'
  <2>1. \A t \in DOMAIN tasks : tasks[t].gen <= generation' /\ tasks[t].gen # generation'
    BY <1>2, MemberTypes
  <2> QED BY <1>1, <1>3, <2>1 DEF TasksAndHandlers, TasksOK, LoadedOK
<1>6. TasksAndHandlers'
  BY <1>1, <1>3, <1>5
     DEF TasksAndHandlers, ArrivalsOK, ReadYourWrites, SingleFlight, Shielded
<1>7. ClosedQuietly'
  BY <1>1, <1>2, <1>3 DEF ClosedQuietly
<1> QED BY <1>2, <1>4, <1>6, <1>7, InductiveParts, PTL

LEMMA CloseKeeps ==
  ASSUME Inductive, Close
  PROVE  Inductive'
<1>1. /\ TasksAndHandlers /\ HostOK /\ CacheTypeOK /\ TasksOK
  BY InductiveParts DEF Inductive, CacheInv
<1>2. /\ DictsOK' /\ DOMAIN cache' = {} /\ generation' \in Nat
  BY ForgetKeeps DEF Close, Cancel
<1> DEFINE cancelled == UNION {tasks[t].waiters : t \in refreshTasks \cap DOMAIN tasks}
<1>3. /\ annotation' = annotation /\ unannounced' = unannounced
      /\ acknowledged' = acknowledged /\ closed' = TRUE
      /\ refreshTasks' = {} /\ Reply(cancelled, "cancelled", 0)
      /\ tasks' = [t \in DOMAIN tasks \ refreshTasks |-> tasks[t]]
  BY DEF Close, Cancel
<1> HIDE DEF cancelled
<1>4. DOMAIN tasks' = {} /\ IsDict(tasks', Task, Refresh)
  <2>1. DOMAIN tasks \ refreshTasks = {}
    BY <1>1 DEF TasksOK
  <2> QED BY <1>3, <2>1 DEF IsDict
<1>5. /\ handler' \in [Caller -> Handler]
      /\ \A c \in Caller : c \notin cancelled => handler'[c] = handler[c]
      /\ \A c \in Caller : c \in cancelled =>
           /\ handler'[c].answer = "cancelled"
           /\ handler'[c].rows = 0
           /\ handler'[c].since = 0 \/ handler'[c].since = handler[c].since
  <2>1. "cancelled" \in Answer /\ 0 \in Nat
    BY DEF Answer
  <2> QED BY <1>1, <1>3, <2>1, ReplyType, Zenon
<1>6. TasksOK' /\ LoadedOK' /\ SingleFlight'
  BY <1>3, <1>4 DEF TasksOK, LoadedOK, SingleFlight
<1>7. ArrivalsOK'
  BY <1>1, <1>3, <1>5, MemberTypes DEF TasksAndHandlers, ArrivalsOK
<1>8. ReadYourWrites' /\ Shielded'
  BY <1>1, <1>3, <1>5 DEF TasksAndHandlers, ReadYourWrites, Shielded
<1>9. TasksAndHandlers'
  BY <1>3, <1>4, <1>5, <1>6, <1>7, <1>8 DEF TasksAndHandlers
<1>10. HostOK' /\ ClosedQuietly'
  BY <1>1, <1>2, <1>3, <1>4 DEF HostOK, ClosedQuietly
<1> QED BY <1>2, <1>9, <1>10, InductiveParts, PTL

LEMMA TickKeeps ==
  ASSUME Inductive, Tick
  PROVE  Inductive'
<1>1. TasksAndHandlers /\ HostOK /\ DictsOK /\ ClosedQuietly
  BY InductiveParts
<1>2. /\ annotation' = annotation /\ unannounced' = unannounced
      /\ acknowledged' = acknowledged /\ closed' = closed
      /\ generation' = generation /\ recent' = recent
      /\ retryOrder' = retryOrder /\ tasks' = tasks
      /\ refreshTasks' = refreshTasks /\ handler' = handler
      /\ cache' = [k \in DOMAIN cache |->
           [cache[k] EXCEPT !.age = Least(@ + 1, StaleSeconds + 1)]]
      /\ retry' = [k \in DOMAIN retry |->
           [retry[k] EXCEPT !.wait = IF @ = 0 THEN 0 ELSE @ - 1]]
  BY DEF Tick, Age, hostVars
<1>3. ASSUME NEW e \in Entry, NEW f,
             f = [e EXCEPT !.age = Least(@ + 1, StaleSeconds + 1)]
      PROVE  f \in Entry /\ f.rows = e.rows
  BY <1>3, CacheAssumption DEF Entry, Least
<1>4. ASSUME NEW r \in Retry, NEW q,
             q = [r EXCEPT !.wait = IF @ = 0 THEN 0 ELSE @ - 1]
      PROVE  q \in Retry
  BY <1>4, CacheAssumption DEF Retry
<1>5. \A k \in DOMAIN cache : cache'[k] \in Entry /\ cache'[k].rows = cache[k].rows
  BY <1>2, <1>3, MemberTypes
<1>6. \A k \in DOMAIN retry : retry'[k] \in Retry
  BY <1>2, <1>4, MemberTypes
<1>7. DOMAIN cache' = DOMAIN cache /\ DOMAIN retry' = DOMAIN retry
  BY <1>2
<1>8. IsDict(cache', Key, Entry) /\ IsDict(retry', Key, Retry)
  <2>1. cache' \in [DOMAIN cache -> Entry] /\ retry' \in [DOMAIN retry -> Retry]
    BY <1>2, <1>5, <1>6
  <2> QED BY <1>1, <1>7, <2>1 DEF DictsOK, IsDict
<1>9. DictsOK'
  BY <1>1, <1>2, <1>5, <1>7, <1>8 DEF DictsOK, EntriesOK
<1>10. TasksAndHandlers'
  BY <1>1, <1>2
     DEF TasksAndHandlers, TasksOK, LoadedOK, ArrivalsOK, ReadYourWrites,
         SingleFlight, Shielded
<1>11. HostOK' /\ ClosedQuietly'
  BY <1>1, <1>2, <1>7 DEF HostOK, ClosedQuietly
<1> QED BY <1>9, <1>10, <1>11, InductiveParts, PTL

-----------------------------------------------------------------------------
LEMMA InitInductive ==
  ASSUME CacheInit, HostInit
  PROVE  Inductive
<1>1. /\ EmptyDict \in [{} -> Entry] /\ EmptyDict \in [{} -> Retry]
      /\ EmptyDict \in [{} -> Refresh] /\ DOMAIN EmptyDict = {}
  BY DEF EmptyDict
<1>2. IsDict(cache, Key, Entry) /\ IsDict(retry, Key, Retry)
      /\ IsDict(tasks, Task, Refresh)
  BY <1>1 DEF CacheInit, IsDict
<1>3. DOMAIN cache = {} /\ DOMAIN tasks = {} /\ refreshTasks = {}
  BY <1>1 DEF CacheInit
<1>4. handler \in [Caller -> Handler]
  BY DEF CacheInit, Handler, Answer
<1>5. recent \in Seq(Key) /\ retryOrder \in Seq(Key)
  BY EmptySeq DEF CacheInit
<1>6. DictsOK
  BY <1>2, <1>3, <1>5 DEF DictsOK, EntriesOK
<1>7. HostOK /\ ClosedQuietly
  <2>1. closed = FALSE
    BY DEF HostInit
  <2>2. closed \in BOOLEAN /\ ClosedQuietly
    BY <2>1 DEF ClosedQuietly
  <2>3. /\ annotation \in Nat /\ unannounced \in SUBSET (1..annotation)
        /\ acknowledged \in 0..annotation /\ generation \in Nat
    BY DEF CacheInit, HostInit
  <2> QED BY <2>2, <2>3 DEF HostOK
<1>8. /\ TasksOK /\ LoadedOK /\ SingleFlight
  BY <1>3 DEF TasksOK, LoadedOK, SingleFlight
<1>9. ArrivalsOK /\ ReadYourWrites /\ Shielded
  BY DEF CacheInit, HostInit, ArrivalsOK, ReadYourWrites, Shielded
<1>10. TasksAndHandlers
  BY <1>2, <1>3, <1>4, <1>8, <1>9 DEF TasksAndHandlers
<1> QED BY <1>6, <1>7, <1>10, InductiveParts

(* Every step of the cache and of its process keeps the invariant.         *)
LEMMA CacheStep ==
  ASSUME Inductive, [CacheNext]_<<cacheVars, hostVars>>
  PROVE  Inductive'
<1>1. CASE \E c \in Caller, k \in Key : Request(c, k)
  BY <1>1, RequestKeeps
<1>2. CASE \E c \in Caller : Abandon(c)
  BY <1>2, AbandonKeeps
<1>3. CASE \E t \in Task : Load(t) \/ Succeed(t) \/ Fail(t) \/ Warming(t)
  BY <1>3, LoadKeeps, EndKeeps
<1>4. CASE Annotate \/ Close \/ Tick
  BY <1>4, AnnotateKeeps, CloseKeeps, TickKeeps
<1>5. CASE \E v \in 1..MaxAnnotations : Announce(v)
  BY <1>5, AnnounceKeeps
<1>6. CASE UNCHANGED <<cacheVars, hostVars>>
  BY <1>6 DEF Inductive, CacheInv, CacheTypeOK, TasksOK, RowsOK, ReadYourWrites,
              SingleFlight, Shielded, ClosedQuietly, cacheVars, hostVars
<1> QED BY <1>1, <1>2, <1>3, <1>4, <1>5, <1>6 DEF CacheNext

(* The types and the invariant that carries the properties of a snapshot   *)
(* cache (the refresh tasks and dictionaries of PowaRepository).           *)
THEOREM CacheCorrect == CacheSpec => []CacheInv
<1>1. CacheInit /\ HostInit => Inductive
  BY InitInductive
<1>2. Inductive /\ [CacheNext]_<<cacheVars, hostVars>> => Inductive'
  BY CacheStep
<1>3. Inductive => CacheInv
  BY DEF Inductive
<1> QED BY <1>1, <1>2, <1>3, PTL DEF CacheSpec, Init

(* However many handlers read, refreshes overlap and mutations commit, the *)
(* rows a request gets carry every annotation answered before it arrived   *)
(* (the generation guard of _refresh_query_metrics_snapshot).              *)
THEOREM CacheReadsWrites == CacheSpec => []ReadYourWrites
<1>1. CacheInit /\ HostInit => Inductive
  BY InitInductive
<1>2. Inductive /\ [CacheNext]_<<cacheVars, hostVars>> => Inductive'
  BY CacheStep
<1>3. Inductive => ReadYourWrites
  BY DEF Inductive
<1> QED BY <1>1, <1>2, <1>3, PTL DEF CacheSpec, Init

(* One generation never loads a key twice at once, whoever misses, leaves  *)
(* or revalidates (the shared tasks of _query_metrics_snapshot).           *)
THEOREM CacheTasks == CacheSpec => []SingleFlight
<1>1. CacheInit /\ HostInit => Inductive
  BY InitInductive
<1>2. Inductive /\ [CacheNext]_<<cacheVars, hostVars>> => Inductive'
  BY CacheStep
<1>3. Inductive => SingleFlight
  BY DEF Inductive
<1> QED BY <1>1, <1>2, <1>3, PTL DEF CacheSpec, Init

(* A client that goes away cancels no query others wait for: no await is   *)
(* cancelled before shutdown (asyncio.shield in _query_metrics_snapshot).  *)
THEOREM CacheShields == CacheSpec => []Shielded
<1>1. CacheInit /\ HostInit => Inductive
  BY InitInductive
<1>2. Inductive /\ [CacheNext]_<<cacheVars, hostVars>> => Inductive'
  BY CacheStep
<1>3. Inductive => Shielded
  BY DEF Inductive
<1> QED BY <1>1, <1>2, <1>3, PTL DEF CacheSpec, Init

(* After shutdown no refresh runs, of whatever generation, and nothing is  *)
(* cached (close_query_rows_cache before the pool closes).                 *)
THEOREM CacheCloses == CacheSpec => []ClosedQuietly
<1>1. CacheInit /\ HostInit => Inductive
  BY InitInductive
<1>2. Inductive /\ [CacheNext]_<<cacheVars, hostVars>> => Inductive'
  BY CacheStep
<1>3. Inductive => ClosedQuietly
  BY DEF Inductive
<1> QED BY <1>1, <1>2, <1>3, PTL DEF CacheSpec, Init

(* Whatever becomes of a refresh that an invalidation has outrun, it       *)
(* touches neither entry nor back-off of the new generation.               *)
THEOREM CacheStragglers == CacheSpec => StragglersInert
<1>1. ASSUME [CacheNext]_<<cacheVars, hostVars>>,
             NEW t \in DOMAIN tasks, t \notin DOMAIN tasks',
             tasks[t].gen # generation, ~closed'
      PROVE  UNCHANGED <<cache, retry>>
  <2>1. CASE \E c \in Caller, k \in Key : Request(c, k)
    BY <2>1 DEF Request, FreshHit, StaleHit, Refuse, Await, Arrive
  <2>2. CASE \E c \in Caller : Abandon(c)
    BY <2>2 DEF Abandon
  <2>3. CASE \E u \in Task : Load(u) \/ Warming(u)
    BY <2>3 DEF Load, Warming
  <2>4. CASE \E u \in Task : Succeed(u) \/ Fail(u)
    <3>1. PICK u \in Task : Succeed(u) \/ Fail(u)
      BY <2>4
    <3>2. t = u
      BY <1>1, <3>1 DEF Succeed, Fail, Ends
    <3> QED BY <1>1, <3>1, <3>2 DEF Succeed, StoreEntry, Fail, RecordFailure
  <2>5. CASE Annotate
    BY <2>5 DEF Annotate, cacheVars
  <2>6. CASE Tick \/ \E v \in 1..MaxAnnotations : Announce(v)
    BY <1>1, <2>6 DEF Tick, Age, Announce, Invalidate
  <2>7. CASE Close
    BY <1>1, <2>7 DEF Close
  <2>8. CASE UNCHANGED <<cacheVars, hostVars>>
    BY <2>8 DEF cacheVars
  <2> QED BY <1>1, <2>1, <2>2, <2>3, <2>4, <2>5, <2>6, <2>7, <2>8 DEF CacheNext
<1>2. [CacheNext]_<<cacheVars, hostVars>>
      => [\A t \in DOMAIN tasks :
            t \notin DOMAIN tasks' /\ tasks[t].gen # generation /\ ~closed'
              => UNCHANGED <<cache, retry>>]_<<cacheVars, hostVars>>
  BY <1>1
<1> QED BY <1>2, PTL DEF CacheSpec, StragglersInert

-----------------------------------------------------------------------------
(* The orders of the dictionaries.                                         *)

(* A sequence that has none of its members twice.                          *)
Each(order) == \A i, j \in 1..Len(order) : order[i] = order[j] => i = j

(* An order of the keys S of a dictionary with room for n of them.         *)
Ordered(order, S, n) ==
  /\ order \in Seq(Key) /\ Each(order)
  /\ ToSet(order) = S /\ Len(order) <= n

OrderInv ==
  /\ Ordered(recent, DOMAIN cache, MaxEntries)
  /\ Ordered(retryOrder, DOMAIN retry, MaxRetries)

LEMMA ToSetIs ==
  ASSUME NEW S, NEW order \in Seq(S)
  PROVE  ToSet(order) = {order[i] : i \in 1..Len(order)}
BY LenProperties DEF ToSet

(* The members left when one place of a sequence is taken out.             *)
LEMMA RemoveAtShape ==
  ASSUME NEW S, NEW order \in Seq(S), NEW i \in 1..Len(order)
  PROVE  /\ RemoveAt(order, i) \in Seq(S)
         /\ Len(RemoveAt(order, i)) = Len(order) - 1
         /\ \A j \in 1..(Len(order) - 1) :
              RemoveAt(order, i)[j] = IF j < i THEN order[j] ELSE order[j + 1]
<1> DEFINE n == Len(order)
           head == SubSeq(order, 1, i - 1)
           tail == SubSeq(order, i + 1, n)
<1>1. n \in Nat /\ i \in Nat /\ 1 <= i /\ i <= n
  BY LenProperties
<1>2. \A j \in 1..n : order[j] \in S
  BY ElementOfSeq
<1>3. /\ head \in Seq(S) /\ Len(head) = i - 1
      /\ \A j \in 1..(i - 1) : head[j] = order[j]
  <2>1. \A j \in 1..(i - 1) : order[j] \in S
    BY <1>1, <1>2
  <2>2. /\ head \in Seq(S)
        /\ Len(head) = IF 1 <= i - 1 THEN i - 1 - 1 + 1 ELSE 0
        /\ \A j \in 1..(i - 1 - 1 + 1) : head[j] = order[1 + j - 1]
    BY <1>1, <2>1, SubSeqProperties
  <2> QED BY <1>1, <2>2
<1>4. /\ tail \in Seq(S) /\ Len(tail) = n - i
      /\ \A j \in 1..(n - i) : tail[j] = order[i + j]
  <2>1. \A j \in (i + 1)..n : order[j] \in S
    BY <1>1, <1>2
  <2>2. /\ tail \in Seq(S)
        /\ Len(tail) = IF i + 1 <= n THEN n - (i + 1) + 1 ELSE 0
        /\ \A j \in 1..(n - (i + 1) + 1) : tail[j] = order[i + 1 + j - 1]
    BY <1>1, <2>1, SubSeqProperties
  <2> QED BY <1>1, <2>2
<1> HIDE DEF head, tail
<1>5. /\ head \o tail \in Seq(S) /\ Len(head \o tail) = n - 1
      /\ \A j \in 1..(n - 1) :
           (head \o tail)[j] = IF j <= Len(head) THEN head[j] ELSE tail[j - Len(head)]
  <2>1. /\ head \o tail \in Seq(S) /\ Len(head \o tail) = Len(head) + Len(tail)
        /\ \A j \in 1..(Len(head) + Len(tail)) :
             (head \o tail)[j] = IF j <= Len(head) THEN head[j] ELSE tail[j - Len(head)]
    BY <1>3, <1>4, ConcatProperties
  <2>2. Len(head) + Len(tail) = n - 1
    BY <1>1, <1>3, <1>4
  <2> QED BY <2>1, <2>2
<1>6. RemoveAt(order, i) = head \o tail
  BY DEF RemoveAt, head, tail
<1>7. ASSUME NEW j \in 1..(n - 1)
      PROVE  (head \o tail)[j] = IF j < i THEN order[j] ELSE order[j + 1]
  <2>0. j \in Nat /\ n \in Nat /\ j <= n - 1
    BY <1>1
  <2>1. CASE j < i
    <3>1. j \in 1..(i - 1) /\ j <= Len(head)
      BY <1>1, <1>3, <2>0, <2>1
    <3> QED BY <1>3, <1>5, <2>1, <3>1
  <2>2. CASE ~(j < i)
    <3>1. /\ j - (i - 1) \in 1..(n - i) /\ i + (j - (i - 1)) = j + 1
          /\ ~(j <= Len(head))
      BY <1>1, <1>3, <2>0, <2>2
    <3>2. (head \o tail)[j] = tail[j - (i - 1)]
      BY <1>3, <1>5, <3>1
    <3> QED BY <1>4, <2>2, <3>1, <3>2
  <2> QED BY <2>1, <2>2
<1> QED BY <1>1, <1>5, <1>6, <1>7

LEMMA DropOrder ==
  ASSUME NEW S, NEW order \in Seq(S), Each(order), NEW k
  PROVE  /\ Drop(order, k) \in Seq(S) /\ Each(Drop(order, k))
         /\ ToSet(Drop(order, k)) = ToSet(order) \ {k}
         /\ Len(Drop(order, k)) = IF k \in ToSet(order) THEN Len(order) - 1 ELSE Len(order)
<1>1. CASE k \notin ToSet(order)
  BY <1>1 DEF Drop
<1>2. CASE k \in ToSet(order)
  <2> DEFINE i == CHOOSE j \in DOMAIN order : order[j] = k
             rest == RemoveAt(order, i)
  <2>1. Len(order) \in Nat /\ DOMAIN order = 1..Len(order)
    BY LenProperties
  <2>2. i \in 1..Len(order) /\ order[i] = k
    BY <1>2, <2>1 DEF ToSet
  <2>3. Drop(order, k) = rest
    BY <1>2 DEF Drop
  <2> HIDE DEF i
  <2>4. /\ rest \in Seq(S) /\ Len(rest) = Len(order) - 1
        /\ \A j \in 1..(Len(order) - 1) :
             rest[j] = IF j < i THEN order[j] ELSE order[j + 1]
    BY <2>2, RemoveAtShape
  <2> HIDE DEF rest
  <2>5. Each(rest)
    <3> SUFFICES ASSUME NEW x \in 1..Len(rest), NEW y \in 1..Len(rest),
                        rest[x] = rest[y]
                 PROVE  x = y
      BY DEF Each
    <3> DEFINE X == IF x < i THEN x ELSE x + 1
               Y == IF y < i THEN y ELSE y + 1
    <3>1. X \in 1..Len(order) /\ Y \in 1..Len(order)
      BY <2>1, <2>2, <2>4
    <3>2. rest[x] = order[X] /\ rest[y] = order[Y]
      BY <2>4
    <3>3. X = Y
      BY <3>1, <3>2 DEF Each
    <3> QED BY <2>1, <2>2, <2>4, <3>3
  <2>6. ASSUME NEW e PROVE e \in ToSet(rest) <=> e \in ToSet(order) /\ e # k
    <3>1. ASSUME e \in ToSet(rest) PROVE e \in ToSet(order) /\ e # k
      <4>1. PICK x \in 1..Len(rest) : e = rest[x]
        BY <2>4, <3>1, ToSetIs
      <4> DEFINE X == IF x < i THEN x ELSE x + 1
      <4>2. X \in 1..Len(order) /\ X # i
        BY <2>1, <2>2, <2>4
      <4>3. e = order[X]
        BY <2>4, <4>1
      <4> HIDE DEF X
      <4>4. e # k
        BY <2>2, <4>2, <4>3 DEF Each
      <4> QED BY <4>2, <4>3, <4>4, ToSetIs
    <3>2. ASSUME e \in ToSet(order), e # k PROVE e \in ToSet(rest)
      <4>1. PICK x \in 1..Len(order) : e = order[x]
        BY <3>2, ToSetIs
      <4>2. x # i
        BY <2>2, <3>2, <4>1
      <4> DEFINE X == IF x < i THEN x ELSE x - 1
      <4>3. X \in 1..Len(rest) /\ x = IF X < i THEN X ELSE X + 1
        BY <2>1, <2>2, <2>4, <4>2
      <4> HIDE DEF X
      <4>4. rest[X] = order[x]
        BY <2>4, <4>3
      <4> QED BY <2>4, <4>1, <4>3, <4>4, ToSetIs
    <3> QED BY <3>1, <3>2
  <2> QED BY <1>2, <2>3, <2>4, <2>5, <2>6
<1> QED BY <1>1, <1>2

LEMMA TouchOrder ==
  ASSUME NEW S, NEW order \in Seq(S), Each(order), NEW k \in S
  PROVE  /\ Touch(order, k) \in Seq(S) /\ Each(Touch(order, k))
         /\ ToSet(Touch(order, k)) = ToSet(order) \cup {k}
         /\ k \in ToSet(order) => Len(Touch(order, k)) = Len(order)
         /\ Last(Touch(order, k)) = k
<1> DEFINE rest == Drop(order, k)
           more == Append(rest, k)
<1>1. /\ rest \in Seq(S) /\ Each(rest) /\ ToSet(rest) = ToSet(order) \ {k}
      /\ Len(rest) = IF k \in ToSet(order) THEN Len(order) - 1 ELSE Len(order)
  BY DropOrder
<1>2. Len(rest) \in Nat /\ Len(order) \in Nat
  BY <1>1, LenProperties
<1> HIDE DEF rest
<1>3. /\ more \in Seq(S) /\ Len(more) = Len(rest) + 1
      /\ \A i \in 1..Len(rest) : more[i] = rest[i]
      /\ more[Len(rest) + 1] = k
  BY <1>1, AppendProperties
<1>4. \A i \in 1..Len(rest) : rest[i] # k
  BY <1>1, ToSetIs
<1> HIDE DEF more
<1>5. Each(more)
  <2> SUFFICES ASSUME NEW x \in 1..Len(more), NEW y \in 1..Len(more), more[x] = more[y]
               PROVE  x = y
    BY DEF Each
  <2>1. CASE x \in 1..Len(rest) /\ y \in 1..Len(rest)
    BY <1>1, <1>3, <2>1 DEF Each
  <2>2. CASE x = Len(rest) + 1 \/ y = Len(rest) + 1
    <3>1. x \in 1..Len(rest) \/ x = Len(rest) + 1
      BY <1>2, <1>3
    <3>2. y \in 1..Len(rest) \/ y = Len(rest) + 1
      BY <1>2, <1>3
    <3> QED BY <1>3, <1>4, <2>2, <3>1, <3>2
  <2> QED BY <1>2, <1>3, <2>1, <2>2
<1>6. ToSet(more) = ToSet(rest) \cup {k}
  <2>1. ToSet(more) = {more[i] : i \in 1..Len(more)}
    BY <1>3, ToSetIs
  <2>2. ToSet(rest) = {rest[i] : i \in 1..Len(rest)}
    BY <1>1, ToSetIs
  <2>3. 1..Len(more) = (1..Len(rest)) \cup {Len(rest) + 1}
    BY <1>2, <1>3
  <2> QED BY <1>3, <2>1, <2>2, <2>3
<1>7. Touch(order, k) = more
  BY DEF Touch, more, rest
<1>8. Last(more) = k
  BY <1>3 DEF Last
<1> QED BY <1>1, <1>2, <1>3, <1>5, <1>6, <1>7, <1>8

LEMMA NewestOrder ==
  ASSUME NEW S, NEW order \in Seq(S), Each(order), NEW n \in Nat
  PROVE  /\ Newest(order, n) \in Seq(S) /\ Each(Newest(order, n))
         /\ ToSet(Newest(order, n)) \subseteq ToSet(order)
         /\ Len(Newest(order, n)) <= n
<1> DEFINE m == IF Len(order) > n THEN Len(order) - n + 1 ELSE 1
           kept == SubSeq(order, m, Len(order))
<1>1. Len(order) \in Nat /\ m \in Int /\ 1 <= m
  BY LenProperties
<1>2. \A i \in m..Len(order) : order[i] \in S
  BY <1>1, ElementOfSeq
<1>3. /\ kept \in Seq(S)
      /\ Len(kept) = IF m <= Len(order) THEN Len(order) - m + 1 ELSE 0
      /\ \A i \in 1..(Len(order) - m + 1) : kept[i] = order[m + i - 1]
  BY <1>1, <1>2, SubSeqProperties
<1>4. Len(kept) <= n /\ Len(kept) \in Nat
  BY <1>1, <1>3
<1>5. Newest(order, n) = kept
  BY DEF Newest
<1>6. m <= Len(order) + 1
  BY <1>1
<1> HIDE DEF kept, m
<1>7. Len(kept) = Len(order) - m + 1
  BY <1>1, <1>3, <1>6
<1>8. \A i \in 1..Len(kept) : m + i - 1 \in 1..Len(order) /\ kept[i] = order[m + i - 1]
  BY <1>1, <1>3, <1>7
<1>9. Each(kept)
  <2> SUFFICES ASSUME NEW x \in 1..Len(kept), NEW y \in 1..Len(kept), kept[x] = kept[y]
               PROVE  x = y
    BY DEF Each
  <2>1. m + x - 1 = m + y - 1
    BY <1>8 DEF Each
  <2> QED BY <1>1, <1>4, <2>1
<1>10. ToSet(kept) \subseteq ToSet(order)
  <2>1. ToSet(kept) = {kept[i] : i \in 1..Len(kept)}
    BY <1>3, ToSetIs
  <2>2. ToSet(order) = {order[i] : i \in 1..Len(order)}
    BY ToSetIs
  <2> QED BY <1>8, <2>1, <2>2
<1> QED BY <1>3, <1>4, <1>5, <1>9, <1>10

(* Reading a key that is there keeps the order, dropping one loses it, and *)
(* adding one loses the oldest that are too many.                          *)
LEMMA TouchKeeps ==
  ASSUME NEW order, NEW S, NEW n \in Nat, Ordered(order, S, n), NEW k \in S
  PROVE  Ordered(Touch(order, k), S, n)
<1>1. k \in Key
  BY ToSetIs, ElementOfSeq DEF Ordered
<1>2. order \in Seq(Key) /\ Each(order) /\ ToSet(order) = S /\ Len(order) <= n
  BY DEF Ordered
<1>3. /\ Touch(order, k) \in Seq(Key) /\ Each(Touch(order, k))
      /\ ToSet(Touch(order, k)) = ToSet(order) \cup {k}
      /\ k \in ToSet(order) => Len(Touch(order, k)) = Len(order)
  BY <1>1, <1>2, TouchOrder
<1>4. ToSet(Touch(order, k)) = S /\ Len(Touch(order, k)) = Len(order)
  BY <1>2, <1>3
<1> QED BY <1>2, <1>3, <1>4 DEF Ordered

LEMMA DropKeeps ==
  ASSUME NEW order, NEW S, NEW n \in Nat, Ordered(order, S, n), NEW k
  PROVE  Ordered(Drop(order, k), S \ {k}, n)
<1>1. Len(order) \in Nat
  BY LenProperties DEF Ordered
<1> QED BY <1>1, DropOrder DEF Ordered

LEMMA PutKeeps ==
  ASSUME NEW order, NEW S, NEW n \in Nat, Ordered(order, S, n), NEW k \in Key
  PROVE  LET kept == Newest(Touch(order, k), n)
         IN  Ordered(kept, (S \cup {k}) \cap ToSet(kept), n)
<1> DEFINE more == Touch(order, k)
           kept == Newest(more, n)
<1>1. more \in Seq(Key) /\ Each(more) /\ ToSet(more) = S \cup {k}
  BY TouchOrder DEF Ordered
<1> HIDE DEF more
<1>2. /\ kept \in Seq(Key) /\ Each(kept) /\ ToSet(kept) \subseteq ToSet(more)
      /\ Len(kept) <= n
  BY <1>1, NewestOrder
<1>3. (S \cup {k}) \cap ToSet(kept) = ToSet(kept)
  BY <1>1, <1>2
<1> QED BY <1>2, <1>3 DEF Ordered, more

(* The empty dictionaries of a new generation.                             *)
LEMMA EmptyOrdered ==
  ASSUME NEW n \in Nat
  PROVE  Ordered(<<>>, DOMAIN EmptyDict, n)
<1>1. PICK order \in Seq(Key) : order = <<>> /\ Len(order) = 0
  BY EmptySeq
<1>2. 1..Len(order) = {}
  BY <1>1
<1>3. ToSet(order) = {}
  BY <1>2, ToSetIs
<1>4. Ordered(order, DOMAIN EmptyDict, n)
  BY <1>1, <1>2, <1>3 DEF Ordered, Each, EmptyDict
<1> QED BY <1>1, <1>4

LEMMA OrderStep ==
  ASSUME Inductive, OrderInv, [CacheNext]_<<cacheVars, hostVars>>
  PROVE  OrderInv'
<1>0. MaxEntries \in Nat /\ MaxRetries \in Nat
  BY CacheAssumption
<1>1. CASE UNCHANGED <<cache, recent, retry, retryOrder>>
  BY <1>1 DEF OrderInv
<1>2. ASSUME NEW c \in Caller, NEW k \in Key, Request(c, k)
      PROVE  OrderInv'
  <2>1. /\ recent' = IF k \in DOMAIN cache THEN Touch(recent, k) ELSE recent
        /\ retryOrder' = IF k \in DOMAIN retry THEN Touch(retryOrder, k) ELSE retryOrder
        /\ UNCHANGED <<cache, retry>>
    BY <1>2 DEF Request, FreshHit, StaleHit, Refuse, Await, Arrive
  <2>2. Ordered(recent', DOMAIN cache, MaxEntries)
    BY <1>0, <2>1, TouchKeeps DEF OrderInv
  <2>3. Ordered(retryOrder', DOMAIN retry, MaxRetries)
    BY <1>0, <2>1, TouchKeeps DEF OrderInv
  <2> QED BY <2>1, <2>2, <2>3 DEF OrderInv
<1>3. ASSUME NEW k \in Key, NEW rows, PutEntry(k, rows)
      PROVE  OrderInv'
  <2> DEFINE kept == Newest(Touch(recent, k), MaxEntries)
             S == (DOMAIN cache \cup {k}) \cap ToSet(kept)
  <2>1. /\ retryOrder' = Drop(retryOrder, k) /\ DOMAIN retry' = DOMAIN retry \ {k}
        /\ recent' = kept /\ DOMAIN cache' = S
    BY <1>3 DEF PutEntry
  <2>2. Ordered(kept, S, MaxEntries)
    BY <1>0, PutKeeps DEF OrderInv
  <2>3. Ordered(Drop(retryOrder, k), DOMAIN retry \ {k}, MaxRetries)
    BY <1>0, DropKeeps DEF OrderInv
  <2> HIDE DEF kept, S
  <2> QED BY <2>1, <2>2, <2>3 DEF OrderInv
<1>4. ASSUME NEW k \in Key, PutFailure(k, MaxRetries), UNCHANGED <<cache, recent>>
      PROVE  OrderInv'
  <2> DEFINE kept == Newest(Touch(retryOrder, k), MaxRetries)
             S == (DOMAIN retry \cup {k}) \cap ToSet(kept)
  <2>1. retryOrder' = kept /\ DOMAIN retry' = S
    BY <1>4 DEF PutFailure
  <2>2. Ordered(kept, S, MaxRetries)
    BY <1>0, PutKeeps DEF OrderInv
  <2> HIDE DEF kept, S
  <2> QED BY <1>4, <2>1, <2>2 DEF OrderInv
<1>5. ASSUME NEW t \in Task, Succeed(t) \/ Fail(t) PROVE OrderInv'
  <2>1. tasks[t].key \in Key
    BY <1>5, MemberTypes DEF Succeed, Fail
  <2> QED BY <1>1, <1>3, <1>4, <1>5, <2>1
          DEF Succeed, StoreEntry, Fail, RecordFailure
<1>6. ASSUME Forget PROVE OrderInv'
  BY <1>0, <1>6, EmptyOrdered DEF Forget, OrderInv
<1>7. CASE Tick
  <2>1. /\ recent' = recent /\ retryOrder' = retryOrder
        /\ DOMAIN cache' = DOMAIN cache /\ DOMAIN retry' = DOMAIN retry
    BY <1>7 DEF Tick, Age
  <2> QED BY <2>1 DEF OrderInv
<1>8. ASSUME NEW t \in Task, Load(t) \/ Warming(t)
      PROVE  UNCHANGED <<cache, recent, retry, retryOrder>>
  BY <1>8 DEF Load, Warming
<1>9. ASSUME (\E c \in Caller : Abandon(c)) \/ Annotate \/ UNCHANGED <<cacheVars, hostVars>>
      PROVE  UNCHANGED <<cache, recent, retry, retryOrder>>
  BY <1>9 DEF Abandon, Annotate, cacheVars
<1>10. ASSUME Close \/ \E v \in 1..MaxAnnotations : Announce(v) PROVE Forget
  BY <1>10 DEF Close, Cancel, Announce, Invalidate
<1> QED BY <1>1, <1>2, <1>5, <1>6, <1>7, <1>8, <1>9, <1>10 DEF CacheNext

(* An order without repetitions is as long as the dictionary is large.     *)
LEMMA OrderedSize ==
  ASSUME NEW order, NEW S, NEW n \in Nat, Ordered(order, S, n)
  PROVE  Len(order) = Cardinality(S) /\ Cardinality(S) <= n
<1>1. Len(order) \in Nat /\ order \in [1..Len(order) -> Key]
  BY LenProperties DEF Ordered
<1>2. S = {order[i] : i \in 1..Len(order)}
  BY ToSetIs DEF Ordered
<1>3. order \in [1..Len(order) -> S]
  BY <1>1, <1>2
<1>4. order \in Injection(1..Len(order), S)
  BY <1>3 DEF Injection, IsInjective, Ordered, Each
<1>5. order \in Surjection(1..Len(order), S)
  BY <1>2, <1>3 DEF Surjection
<1>6. ExistsBijection(1..Len(order), S)
  BY <1>4, <1>5 DEF Bijection, ExistsBijection
<1>7. IsFiniteSet(1..Len(order)) /\ Cardinality(1..Len(order)) = Len(order)
  <2> DEFINE m == Len(order)
  <2>1. m \in Nat
    BY <1>1
  <2> HIDE DEF m
  <2>2. IsFiniteSet(1..m) /\ Cardinality(1..m) = IF 1 > m THEN 0 ELSE m - 1 + 1
    BY <2>1, FS_Interval
  <2>3. IsFiniteSet(1..m) /\ Cardinality(1..m) = m
    BY <2>1, <2>2
  <2> QED BY <2>3 DEF m
<1>8. Cardinality(S) = Len(order)
  BY <1>6, <1>7, FS_Bijection
<1> QED BY <1>8 DEF Ordered

(* Whatever is read, stored, dropped and refused, the entries and the      *)
(* back-off records of a cache stay within their limits, each in an order  *)
(* that has its keys once (the OrderedDicts of PowaRepository).            *)
THEOREM CacheBounded == CacheSpec => []Bounded
<1>0. MaxEntries \in Nat /\ MaxRetries \in Nat
  BY CacheAssumption
<1>1. CacheInit /\ HostInit => Inductive /\ OrderInv
  BY <1>0, InitInductive, EmptyOrdered DEF CacheInit, OrderInv
<1>2. Inductive /\ OrderInv /\ [CacheNext]_<<cacheVars, hostVars>>
        => Inductive' /\ OrderInv'
  BY CacheStep, OrderStep
<1>3. OrderInv => Bounded
  <2> SUFFICES ASSUME OrderInv PROVE Bounded
    OBVIOUS
  <2>1. /\ Len(recent) = Cardinality(DOMAIN cache)
        /\ Cardinality(DOMAIN cache) <= MaxEntries
    BY <1>0, OrderedSize DEF OrderInv
  <2>2. /\ Len(retryOrder) = Cardinality(DOMAIN retry)
        /\ Cardinality(DOMAIN retry) <= MaxRetries
    BY <1>0, OrderedSize DEF OrderInv
  <2>3. ToSet(recent) = DOMAIN cache /\ ToSet(retryOrder) = DOMAIN retry
    BY DEF OrderInv, Ordered
  <2> QED BY <2>1, <2>2, <2>3 DEF Bounded
<1> QED BY <1>1, <1>2, <1>3, PTL DEF CacheSpec, Init

(* A handler that gets rows without having waited has found an entry no    *)
(* older than the stale limit, and an entry past its fresh age only with a *)
(* refresh under way or a back-off (_query_metrics_snapshot).              *)
THEOREM CacheRevalidates == CacheSpec => StaleWhileRevalidate
<1> DEFINE A(c, k) ==
      /\ k \in DOMAIN cache
      /\ cache[k].age <= StaleSeconds
      /\ \/ cache[k].age <= FreshSeconds
         \/ BackingOff(k)
         \/ Tracked(k)' # {}
<1>1. ASSUME Inductive, OrderInv, [CacheNext]_<<cacheVars, hostVars>>,
             NEW c \in Caller, NEW k \in Key,
             handler'[c] # handler[c], handler'[c].answer = "rows",
             handler[c].answer # "waiting", Last(recent') = k
      PROVE  A(c, k)
  <2>0. CacheTypeOK /\ TasksOK /\ FreshSeconds \in Nat /\ StaleSeconds \in Nat
        /\ FreshSeconds <= StaleSeconds
    BY <1>1, CacheAssumption DEF Inductive, CacheInv
  <2>1. ASSUME NEW d \in Caller, NEW x \in Key, Request(d, x) PROVE A(c, k)
    <3>1. PICK answer \in {"rows", "backoff", "waiting"}, rows \in Nat :
            Arrive(d, x, answer, rows)
      BY <1>1, <2>1, MemberTypes DEF Request, FreshHit, StaleHit, Refuse, Await, Aged
    <3>2. /\ handler'[d].answer = answer
          /\ \A e \in Caller : e # d => handler'[e] = handler[e]
      BY <1>1, <3>1, ArriveShape
    <3>3. d = c /\ answer = "rows"
      BY <1>1, <3>2
    <3>4. FreshHit(d, x) \/ StaleHit(d, x)
      <4>1. ~Refuse(d, x) /\ ~Await(d, x)
        <5>1. ASSUME Arrive(d, x, "backoff", 0) \/ Arrive(d, x, "waiting", 0) PROVE FALSE
          <6>1. handler'[d].answer \in {"backoff", "waiting"}
            BY <1>1, <5>1, ArriveShape
          <6> QED BY <3>2, <3>3, <6>1
        <5> QED BY <5>1 DEF Refuse, Await
      <4> QED BY <2>1, <4>1 DEF Request
    <3>5. x \in DOMAIN cache /\ cache[x].age \in 0..StaleSeconds
      BY <2>0, <3>4 DEF FreshHit, StaleHit, Aged
    <3>6. recent' = Touch(recent, x)
      BY <3>1, <3>5 DEF Arrive
    <3>7. x = k
      <4>1. recent \in Seq(Key) /\ Each(recent)
        BY <1>1 DEF OrderInv, Ordered
      <4>2. Last(Touch(recent, x)) = x
        BY <4>1, TouchOrder
      <4> QED BY <1>1, <3>6, <4>2
    <3>8. CASE FreshHit(d, x)
      BY <2>0, <3>5, <3>7, <3>8 DEF FreshHit, Aged
    <3>9. CASE StaleHit(d, x)
      <4>1. CASE BackingOff(x)
        BY <2>0, <3>5, <3>7, <4>1
      <4>2. CASE StartRefresh(x, {})
        <5>1. /\ refreshTasks' = DOMAIN tasks'
              /\ \E u \in DOMAIN tasks' : tasks'[u].gen = generation /\ tasks'[u].key = x
          BY <1>1, <4>2, StartShape
        <5>2. generation' = generation
          BY <3>1 DEF Arrive
        <5>3. Tracked(x)' # {}
          BY <5>1, <5>2 DEF Tracked
        <5> QED BY <2>0, <3>5, <3>7, <5>3
      <4> QED BY <3>9, <4>1, <4>2 DEF StaleHit
    <3> QED BY <3>4, <3>8, <3>9
  <2>2. ASSUME NEW callers, NEW answer, NEW rows, Reply(callers, answer, rows),
               answer = "rows" => \A d \in callers : handler[d].answer = "waiting"
        PROVE  FALSE
    <3>1. handler' = [d \in Caller |->
            IF d \in callers
            THEN [since |-> IF answer = "rows" THEN handler[d].since ELSE 0,
                  answer |-> answer, rows |-> rows]
            ELSE handler[d]]
      BY <2>2 DEF Reply
    <3>2. CASE c \in callers
      <4>1. handler'[c].answer = answer
        BY <3>1, <3>2
      <4> QED BY <1>1, <2>2, <3>2, <4>1
    <3>3. CASE c \notin callers
      BY <1>1, <3>1, <3>3
    <3> QED BY <3>2, <3>3
  <2>3. ASSUME NEW t \in Task, Succeed(t) \/ Fail(t) \/ Warming(t) PROVE FALSE
    <3>1. t \in DOMAIN tasks
      BY <2>3 DEF Succeed, Fail, Warming
    <3>2. \A d \in tasks[t].waiters : handler[d].answer = "waiting"
      BY <2>0, <3>1 DEF TasksOK
    <3> QED BY <2>2, <2>3, <3>2 DEF Succeed, Fail, Warming, Ends
  <2>4. ASSUME Close \/ \E d \in Caller : Abandon(d) PROVE FALSE
    BY <2>2, <2>4 DEF Close, Cancel, Abandon
  <2>5. ASSUME (\E t \in Task : Load(t)) \/ Annotate \/ Tick
                 \/ (\E v \in 1..MaxAnnotations : Announce(v))
                 \/ UNCHANGED <<cacheVars, hostVars>>
        PROVE  FALSE
    <3>1. handler' = handler
      BY <2>5 DEF Load, Annotate, Tick, Age, Announce, Invalidate, cacheVars
    <3> QED BY <1>1, <3>1
  <2> QED BY <1>1, <2>1, <2>3, <2>4, <2>5 DEF CacheNext
<1>2. Inductive /\ OrderInv /\ [CacheNext]_<<cacheVars, hostVars>>
      => [\A c \in Caller, k \in Key :
            /\ handler'[c] # handler[c]
            /\ handler'[c].answer = "rows" /\ handler[c].answer # "waiting"
            /\ Last(recent') = k
            => A(c, k)]_<<cacheVars, hostVars>>
  BY <1>1
<1>3. CacheInit /\ HostInit => Inductive /\ OrderInv
  BY InitInductive, EmptyOrdered, CacheAssumption DEF CacheInit, OrderInv
<1>4. Inductive /\ OrderInv /\ [CacheNext]_<<cacheVars, hostVars>>
        => Inductive' /\ OrderInv'
  BY CacheStep, OrderStep
<1> QED BY <1>2, <1>3, <1>4, PTL DEF CacheSpec, Init, StaleWhileRevalidate
=============================================================================

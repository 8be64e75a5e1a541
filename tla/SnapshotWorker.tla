---------------------------- MODULE SnapshotWorker ----------------------------
(***************************************************************************)
(* The workers that keep the dashboard's materialized views populated      *)
(* (backend/app/snapshot_worker.py) over the repository: one session-level *)
(* advisory lock and one table of refresh states per family of views.      *)
(*                                                                         *)
(* Every statement of a worker is a transaction of its own (autocommit)    *)
(* and a step of its own; a REFRESH is two, its snapshot and its commit.   *)
(* A session may outlive the worker's connection to it: it then finishes   *)
(* or aborts the REFRESH it runs, and keeps its lock until it ends.        *)
(*                                                                         *)
(* Durations are abstracted: a refreshed_at is due or not, a retry time is *)
(* reached or not.  The data of a view is abstracted to whether it was     *)
(* read after the last announced start of a refresh of that view.          *)
(***************************************************************************)
EXTENDS Naturals, SequencesExt

CONSTANTS
  Worker,
  Session,    \* bound: sessions of the repository at one time
  NoSession,
  WindowOrder, \* WINDOW_ORDER
  Job,        \* <<family, window>>; in the code every family has every window
  Poison,     \* jobs whose REFRESH always runs into statement_timeout
  MaxFaults   \* bound: failed statements, lost connections, crashes

Family == {"query_metrics", "global_trend"}

ASSUME WorkerAssumption ==
  /\ NoSession \notin Session
  /\ Job \subseteq Family \X ToSet(WindowOrder)
  /\ Poison \subseteq Job
  /\ MaxFaults \in Nat

VARIABLES
  lock,     \* per family the session that holds its advisory lock
  row,      \* the state tables
  view,     \* the materialized views
  scans,    \* REFRESH statements that run
  pc, conn, \* per worker: next statement, session
  job,      \* per worker: the job in hand
  todo,     \* per worker: jobs left of its plan
  waiting,  \* per worker: jobs whose retry_not_before is in the future
  faults

serverVars == <<lock, row, view, scans>>
workerVars == <<pc, conn, job, todo, waiting>>
vars == <<serverVars, workerVars, faults>>

-----------------------------------------------------------------------------
Working == {"mark", "check", "refresh", "refreshConcurrently", "scanning", "ready"}
AtJob == Working \cup {"failed", "unlock", "unlockFailed"}

NoJob == <<>>
Row == [status : {"pending", "refreshing", "ready", "failed"}, due : BOOLEAN]
Scan == [by : Session, job : Job, concurrently : BOOLEAN, current : BOOLEAN]

TypeOK ==
  /\ lock \in [Family -> Session \cup {NoSession}]
  /\ row \in [Job -> Row]
  /\ view \in [Job -> {"empty", "old", "current"}]
  /\ scans \in SUBSET Scan
  /\ pc \in [Worker -> {"closed", "plan", "planTrends", "jobs"} \cup AtJob]
  /\ conn \in [Worker -> Session \cup {NoSession}]
  /\ job \in [Worker -> Job \cup {NoJob}]
  /\ todo \in [Worker -> SUBSET Job]
  /\ waiting \in [Worker -> SUBSET Job]
  /\ faults \in 0..MaxFaults

Init ==
  /\ lock = [f \in Family |-> NoSession]
  /\ row = [j \in Job |-> [status |-> "pending", due |-> TRUE]]
  /\ view = [j \in Job |-> "empty"]
  /\ scans = {}
  /\ pc = [w \in Worker |-> "closed"]
  /\ conn = [w \in Worker |-> NoSession]
  /\ job = [w \in Worker |-> NoJob]
  /\ todo = [w \in Worker |-> {}]
  /\ waiting = [w \in Worker |-> {}]
  /\ faults = 0

-----------------------------------------------------------------------------
Connected(w) == conn[w] # NoSession
Goto(w, next) == pc' = [pc EXCEPT ![w] = next]

(* A plan has the metrics first, each family's windows in WINDOW_ORDER.    *)
Position(win) == CHOOSE i \in DOMAIN WindowOrder : WindowOrder[i] = win
Before(j, k) ==
  \/ j[1] = "query_metrics" /\ k[1] = "global_trend"
  \/ j[1] = k[1] /\ Position(j[2]) < Position(k[2])
NextUp(w, j) == j \in todo[w] /\ \A k \in todo[w] \ {j} : Before(j, k)

(* Mutations: what a crashed worker marked counts as in progress; every    *)
(* window is refreshed in every pass.                                      *)
Due_NotRefreshing(f) ==
  {j \in Job : j[1] = f /\ row[j].due /\ row[j].status # "refreshing"}
Due_Always(f) == {j \in Job : j[1] = f}

(* _due_windows *)
Due(f) == {j \in Job : j[1] = f /\ row[j].due}

-----------------------------------------------------------------------------
(* run_worker: connect, plan both families, go through the plan. *)

Open(w) ==
  /\ pc[w] = "closed"
  /\ \E s \in Session :
       /\ \A v \in Worker : conn[v] # s
       /\ \A f \in Family : lock[f] # s
       /\ \A x \in scans : x.by # s
       /\ conn' = [conn EXCEPT ![w] = s]
  /\ Goto(w, "plan")
  /\ UNCHANGED <<serverVars, job, todo, waiting, faults>>

PlanMetrics(w) ==
  /\ pc[w] = "plan" /\ Connected(w)
  /\ todo' = [todo EXCEPT ![w] = Due("query_metrics")]
  /\ Goto(w, "planTrends")
  /\ UNCHANGED <<serverVars, conn, job, waiting, faults>>

PlanTrends(w) ==
  /\ pc[w] = "planTrends" /\ Connected(w)
  /\ todo' = [todo EXCEPT ![w] = @ \cup Due("global_trend")]
  /\ Goto(w, "jobs")
  /\ UNCHANGED <<serverVars, conn, job, waiting, faults>>

(* A plan cannot be read over a lost connection: the outer handler opens   *)
(* another one.  retry_not_before is kept.                                 *)
Reopen(w) ==
  /\ pc[w] \in {"plan", "planTrends"} /\ ~Connected(w)
  /\ todo' = [todo EXCEPT ![w] = {}]
  /\ Goto(w, "closed")
  /\ UNCHANGED <<serverVars, conn, job, waiting, faults>>

EndPass(w) ==
  /\ pc[w] = "jobs" /\ todo[w] = {}
  /\ Goto(w, "plan")
  /\ UNCHANGED <<serverVars, conn, job, todo, waiting, faults>>

Skip(w, j) ==
  /\ pc[w] = "jobs" /\ NextUp(w, j)
  /\ j \in waiting[w]
  /\ todo' = [todo EXCEPT ![w] = @ \ {j}]
  /\ UNCHANGED <<serverVars, pc, conn, job, waiting, faults>>

-----------------------------------------------------------------------------
(* _refresh_snapshot *)

Attempt(w, j) ==
  /\ pc[w] = "jobs" /\ NextUp(w, j)
  /\ j \notin waiting[w]
  /\ todo' = [todo EXCEPT ![w] = @ \ {j}]

(* Mutation: the answer of pg_try_advisory_lock is not looked at. *)
TryLock_Unchecked(w, j) ==
  /\ Attempt(w, j) /\ Connected(w)
  /\ lock' = [lock EXCEPT ![j[1]] = IF @ = NoSession THEN conn[w] ELSE @]
  /\ job' = [job EXCEPT ![w] = j]
  /\ Goto(w, "mark")
  /\ UNCHANGED <<row, view, scans, conn, waiting, faults>>

TryLock(w, j) ==
  /\ Attempt(w, j) /\ Connected(w)
  /\ lock[j[1]] \in {NoSession, conn[w]}
  /\ lock' = [lock EXCEPT ![j[1]] = conn[w]]
  /\ job' = [job EXCEPT ![w] = j]
  /\ Goto(w, "mark")
  /\ UNCHANGED <<row, view, scans, conn, waiting, faults>>

(* Another session holds the lock, or the connection is lost. *)
Refused(w, j) ==
  /\ Attempt(w, j)
  /\ Connected(w) => lock[j[1]] \notin {NoSession, conn[w]}
  /\ waiting' = [waiting EXCEPT ![w] = @ \cup {j}]
  /\ UNCHANGED <<serverVars, pc, conn, job, faults>>

(* _set_refreshing.  Data read before this start is old from now on. *)
SetRefreshing(w) ==
  LET j == job[w]
  IN  /\ pc[w] = "mark" /\ Connected(w)
      /\ row' = [row EXCEPT ![j].status = "refreshing"]
      /\ view' = [view EXCEPT ![j] = IF @ = "empty" THEN @ ELSE "old"]
      /\ scans' = {IF x.job = j THEN [x EXCEPT !.current = FALSE] ELSE x : x \in scans}
      /\ Goto(w, "check")
      /\ UNCHANGED <<lock, conn, job, todo, waiting, faults>>

(* Mutation: the view is locked against its readers. *)
CheckPopulated_Ignored(w) ==
  /\ pc[w] = "check" /\ Connected(w)
  /\ Goto(w, "refresh")
  /\ UNCHANGED <<serverVars, conn, job, todo, waiting, faults>>

CheckPopulated(w) ==
  /\ pc[w] = "check" /\ Connected(w)
  /\ Goto(w, IF view[job[w]] = "empty" THEN "refresh" ELSE "refreshConcurrently")
  /\ UNCHANGED <<serverVars, conn, job, todo, waiting, faults>>

(* REFRESH waits while another one works on the same view. *)
StartRefresh(w) ==
  /\ pc[w] \in {"refresh", "refreshConcurrently"} /\ Connected(w)
  /\ \A x \in scans : x.job # job[w]
  /\ scans' = scans \cup
       {[by |-> conn[w], job |-> job[w],
         concurrently |-> pc[w] = "refreshConcurrently", current |-> TRUE]}
  /\ Goto(w, "scanning")
  /\ UNCHANGED <<lock, row, view, conn, job, todo, waiting, faults>>

Commit(x) ==
  /\ x.job \notin Poison
  /\ view' = [view EXCEPT ![x.job] = IF x.current THEN "current" ELSE "old"]
  /\ scans' = scans \ {x}

FinishRefresh(w) ==
  /\ pc[w] = "scanning"
  /\ \E x \in scans : x.by = conn[w] /\ Commit(x)
  /\ Goto(w, "ready")
  /\ UNCHANGED <<lock, row, conn, job, todo, waiting, faults>>

(* The row count and _set_ready. *)
SetReady(w) ==
  /\ pc[w] = "ready" /\ Connected(w)
  /\ row' = [row EXCEPT ![job[w]] = [status |-> "ready", due |-> FALSE]]
  /\ Goto(w, "unlock")
  /\ UNCHANGED <<lock, view, scans, conn, job, todo, waiting, faults>>

SetFailed(w) ==
  /\ pc[w] = "failed" /\ Connected(w)
  /\ row' = [row EXCEPT ![job[w]].status = "failed"]
  /\ Goto(w, "unlockFailed")
  /\ UNCHANGED <<lock, view, scans, conn, job, todo, waiting, faults>>

(* The job is over; after a failure it waits for its retry time. *)
EndJob(w) ==
  /\ waiting' = [waiting EXCEPT ![w] =
       IF pc[w] = "unlock" THEN @ \ {job[w]} ELSE @ \cup {job[w]}]
  /\ job' = [job EXCEPT ![w] = NoJob]
  /\ Goto(w, "jobs")

(* Mutation: the lock is released after success only. *)
Unlock_AfterSuccess(w) ==
  /\ pc[w] \in {"unlock", "unlockFailed"} /\ Connected(w)
  /\ lock' = IF pc[w] = "unlock" THEN [lock EXCEPT ![job[w][1]] = NoSession] ELSE lock
  /\ EndJob(w)
  /\ UNCHANGED <<row, view, scans, conn, todo, faults>>

Unlock(w) ==
  /\ pc[w] \in {"unlock", "unlockFailed"} /\ Connected(w)
  /\ lock' = [lock EXCEPT ![job[w][1]] = IF @ = conn[w] THEN NoSession ELSE @]
  /\ EndJob(w)
  /\ UNCHANGED <<row, view, scans, conn, todo, faults>>

(* Over a lost connection every statement left of the job raises, those of *)
(* its except and finally blocks included, which are only logged.          *)
LoseJob(w) ==
  /\ pc[w] \in AtJob /\ ~Connected(w)
  /\ EndJob(w)
  /\ UNCHANGED <<serverVars, conn, todo, faults>>

-----------------------------------------------------------------------------
(* What goes wrong. *)

Fault == faults < MaxFaults /\ faults' = faults + 1

(* Mutation: the error of a statement is logged and the job goes on. *)
Raise_Swallowed(w) ==
  /\ Goto(w, "ready")
  /\ scans' = {x \in scans : x.by # conn[w]}
  /\ UNCHANGED <<lock, row, view, conn, job, todo, waiting>>

Raise(w) ==
  /\ Goto(w, "failed")
  /\ scans' = {x \in scans : x.by # conn[w]}
  /\ UNCHANGED <<lock, row, view, conn, job, todo, waiting>>

(* statement_timeout ends the REFRESH of a poisoned job. *)
TimeOut(w) ==
  /\ pc[w] = "scanning" /\ Connected(w) /\ job[w] \in Poison
  /\ Raise(w)
  /\ UNCHANGED faults

FailStatement(w) ==
  /\ pc[w] \in Working /\ Connected(w)
  /\ Raise(w) /\ Fault

FailSetFailed(w) ==
  /\ pc[w] = "failed" /\ Connected(w)
  /\ Goto(w, "unlockFailed") /\ Fault
  /\ UNCHANGED <<serverVars, conn, job, todo, waiting>>

Disconnect(w) ==
  /\ Connected(w)
  /\ conn' = [conn EXCEPT ![w] = NoSession]
  /\ Fault
  /\ UNCHANGED <<serverVars, pc, job, todo, waiting>>

(* The row is written, the reply is lost with the connection. *)
LoseReadyReply(w) ==
  /\ pc[w] = "ready" /\ Connected(w)
  /\ row' = [row EXCEPT ![job[w]] = [status |-> "ready", due |-> FALSE]]
  /\ conn' = [conn EXCEPT ![w] = NoSession]
  /\ Goto(w, "failed") /\ Fault
  /\ UNCHANGED <<lock, view, scans, job, todo, waiting>>

(* The process dies, or stops between two jobs, and is started again. *)
Crash(w) ==
  /\ pc[w] # "closed"
  /\ Goto(w, "closed")
  /\ conn' = [conn EXCEPT ![w] = NoSession]
  /\ job' = [job EXCEPT ![w] = NoJob]
  /\ todo' = [todo EXCEPT ![w] = {}]
  /\ waiting' = [waiting EXCEPT ![w] = {}]
  /\ Fault
  /\ UNCHANGED serverVars

Abandoned(s) == \A w \in Worker : conn[w] # s

(* A session nobody is connected to commits the REFRESH it runs, or ends. *)
FinishAbandoned(s) ==
  /\ Abandoned(s)
  /\ \E x \in scans : x.by = s /\ Commit(x)
  /\ UNCHANGED <<lock, row, workerVars, faults>>

EndSession(s) ==
  /\ Abandoned(s)
  /\ lock' = [f \in Family |-> IF lock[f] = s THEN NoSession ELSE lock[f]]
  /\ scans' = {x \in scans : x.by # s}
  /\ UNCHANGED <<row, view, workerVars, faults>>

(* refreshed_at passes its interval; retry_not_before passes. *)
BecomeDue(j) ==
  /\ ~row[j].due
  /\ row' = [row EXCEPT ![j].due = TRUE]
  /\ UNCHANGED <<lock, view, scans, workerVars, faults>>

RetryTimeComes(w, j) ==
  /\ j \in waiting[w]
  /\ waiting' = [waiting EXCEPT ![w] = @ \ {j}]
  /\ UNCHANGED <<serverVars, pc, conn, job, todo, faults>>

-----------------------------------------------------------------------------
WorkerStep(w) ==
  \/ Open(w) \/ PlanMetrics(w) \/ PlanTrends(w) \/ Reopen(w) \/ EndPass(w)
  \/ \E j \in Job : Skip(w, j) \/ TryLock(w, j) \/ Refused(w, j)
  \/ SetRefreshing(w) \/ CheckPopulated(w)
  \/ StartRefresh(w) \/ FinishRefresh(w) \/ TimeOut(w) \/ SetReady(w)
  \/ SetFailed(w) \/ Unlock(w) \/ LoseJob(w)

WorkerFault(w) ==
  FailStatement(w) \/ FailSetFailed(w) \/ Disconnect(w) \/ LoseReadyReply(w) \/ Crash(w)

Next ==
  \/ \E w \in Worker : WorkerStep(w) \/ WorkerFault(w)
  \/ \E s \in Session : FinishAbandoned(s) \/ EndSession(s)
  \/ \E j \in Job : BecomeDue(j) \/ \E w \in Worker : RetryTimeComes(w, j)

Spec == Init /\ [][Next]_vars

(* Workers run on, time passes, and the server ends abandoned sessions.    *)
FairSpec ==
  /\ Spec
  /\ \A w \in Worker : WF_vars(WorkerStep(w))
  /\ \A w \in Worker, j \in Job : WF_vars(RetryTimeComes(w, j))
  /\ \A s \in Session : WF_vars(EndSession(s))

-----------------------------------------------------------------------------
(* Properties. *)

(* One expensive scan per family at a time, whoever runs it: a worker, or  *)
(* a session whose worker is gone (QUERY_METRICS_LOCK_NAME).               *)
OneScanPerFamily ==
  \A x, y \in scans : x.job[1] = y.job[1] => x = y

(* A row that says ready belongs to data read after the refresh_started_at *)
(* of that row (_set_refreshing before REFRESH before _set_ready).         *)
ReadyIsCurrent ==
  \A j \in Job : row[j].status = "ready" => view[j] = "current"

(* While a populated view is recomputed its readers keep the previous      *)
(* complete result: only an empty view is refreshed under an exclusive     *)
(* lock, although the check is a statement before (snapshot_worker.py:153; *)
(* sql/017:7; CHANGELOG.md:11).                                            *)
ReadersKeepPrevious ==
  \A x \in scans : view[x.job] # "empty" => x.concurrently

(* A live session keeps a family locked only while its worker is at a job  *)
(* of that family, whatever failed: pg_advisory_unlock is on every path.   *)
LocksReleased ==
  \A w \in Worker, f \in Family :
    Connected(w) /\ lock[f] = conn[w] => pc[w] \in AtJob /\ job[w][1] = f

(* With one worker, a row that does not say ready is due, so its refresh   *)
(* is tried again however the last try ended.                              *)
UnfinishedIsDue ==
  \A j \in Job : row[j].status # "ready" => row[j].due

(* Every window that can be refreshed is, again and again, although other  *)
(* windows of its family time out every time and workers crash.            *)
WindowsRefreshed ==
  \A j \in Job \ Poison : row[j].due ~> ~row[j].due
=============================================================================

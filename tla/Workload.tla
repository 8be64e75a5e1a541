------------------------------- MODULE Workload -------------------------------
(***************************************************************************)
(* The realistic workload generator (deployment/workload/workload.py): the *)
(* supervisor of run(), the worker threads of run_worker, the metrics they *)
(* share, and the transactions they run against the source database.       *)
(*                                                                         *)
(* A step of a worker is one SQL statement (or its commit) with the code   *)
(* up to the next one.  A lock on a database object is held by whoever is  *)
(* between the statement that takes it and the end of the transaction, so  *)
(* the steps themselves say who holds what.  Bind values and intervals are *)
(* left out.                                                               *)
(***************************************************************************)
EXTENDS Naturals, FiniteSets

CONSTANTS
  Reader, Writer,        \* worker ids of the read-only roles, of the writer role
  Erp,                   \* the profile is "erp"
  Tables, Variants,      \* erp_table_count, erp_query_variants_per_table
  MaxRows, CleanupBatch, \* max_mutation_rows and max_event_rows; the batches
  Job,                   \* rows of workload_jobs
  Duration,              \* clock value of the deadline
  MaxOps,                \* bound: operations begun
  MaxFaults              \* bound: failing statements, connections, processes

ASSUME WorkloadAssumption ==
  /\ Reader \cap Writer = {}
  /\ Erp \in BOOLEAN /\ Tables \in Nat /\ Variants \in Nat \ {0}
  /\ MaxRows \in Nat /\ CleanupBatch \in Nat \ {0}
  /\ Duration \in Nat /\ MaxOps \in Nat /\ MaxFaults \in Nat

VARIABLES
  phase,     \* run(): "preflight", "running", "joining", "done"
  futures,   \* workers the supervisor still waits for
  stop,      \* stop_event
  signalled, \* signal_received
  fatal,     \* fatal_error
  status,    \* of the final payload
  now,
  faults     \* faults injected so far

VARIABLES
  worker,    \* per worker: where it is, in which operation, on what
  succeeded, failed, nextOrdinal, visited \* WorkloadMetrics

VARIABLES
  rows,      \* table |-> ids of its committed workload rows
  nextId,    \* table |-> its id sequence
  job,       \* job |-> committed status, and whether run_at has come
  recorded   \* fingerprints pg_stat_statements has counted

mainVars == <<phase, futures, stop, signalled, fatal, status>>
metricVars == <<succeeded, failed, nextOrdinal, visited>>
dataVars == <<rows, nextId, job, recorded>>
vars == <<mainVars, now, faults, worker, metricVars, dataVars>>

Worker == Reader \cup Writer
Table == {"mutation", "event"}

(* erp_fingerprint_target *)
Target == Tables * Variants

(* A worker outside of any transaction. *)
NoWork == [at |-> "new", op |-> "none", on |-> 0, doomed |-> {}]

Init ==
  /\ phase = "preflight" /\ futures = {}
  /\ stop = FALSE /\ signalled = FALSE /\ fatal = FALSE /\ status = "none"
  /\ now = 0 /\ faults = 0
  /\ worker = [w \in Worker |-> NoWork]
  /\ succeeded = 0 /\ failed = 0 /\ nextOrdinal = 0 /\ visited = {}
  /\ rows = [t \in Table |-> 1..MaxRows]
  /\ nextId = [t \in Table |-> MaxRows + 1]
  /\ job = [j \in Job |-> [ready |-> TRUE, due |-> TRUE]]
  /\ recorded = {}

-----------------------------------------------------------------------------
At(w, places) == worker[w].at \in places
Open == {"idle", "begin", "insert", "cleanup", "requeue", "commit"}
InTransaction(w) == At(w, Open \ {"idle"})

Goes(w, at) == worker' = [worker EXCEPT ![w].at = at]
Drops(w, at) == worker' = [worker EXCEPT ![w] = [NoWork EXCEPT !.at = at]]
Fault == faults < MaxFaults /\ faults' = faults + 1

(* while not stop_event.is_set() and time.monotonic() < deadline *)
Looping == ~stop /\ now < Duration

Begun == succeeded + failed + Cardinality({w \in Worker : InTransaction(w)})

-----------------------------------------------------------------------------
(* A worker: connect, then one operation after another. *)

(* psycopg.connect and _configure_connection succeed. *)
Connect(w) ==
  /\ At(w, {"connect"}) /\ Looping
  /\ Goes(w, "idle")
  /\ UNCHANGED <<mainVars, now, faults, metricVars, dataVars>>

(* An OperationalError: wait and double the delay, or leave at the deadline. *)
ConnectFails(w) ==
  /\ At(w, {"connect"}) /\ Looping
  /\ Fault
  /\ Goes(w, "backoff")
  /\ UNCHANGED <<mainVars, now, metricVars, dataVars>>

Retry(w) ==
  /\ At(w, {"backoff"})
  /\ Goes(w, "connect")
  /\ UNCHANGED <<mainVars, now, faults, metricVars, dataVars>>

Leave(w) ==
  /\ At(w, {"connect", "idle"}) /\ ~Looping
  /\ Goes(w, "ended")
  /\ UNCHANGED <<mainVars, now, faults, metricVars, dataVars>>

Operation(w) ==
  IF w \in Reader
  THEN {"read"} \cup (IF Target > 0 THEN {"erp"} ELSE {})
  ELSE Table \cup {"update", "claim", "hotspot"}

(* Mutation: the counter is advanced before it is read. *)
Ordinal_Skips == (nextOrdinal + 1) % Target

(* reserve_erp_fingerprint, under the lock of the metrics *)
Ordinal == nextOrdinal % Target

(* choose_operation draws any operation with a weight. *)
Choose(w, op) ==
  /\ At(w, {"idle"}) /\ Looping
  /\ op \in Operation(w) /\ Begun < MaxOps
  /\ worker' = [worker EXCEPT ![w] =
       [at |-> "begin", op |-> op, on |-> IF op = "erp" THEN Ordinal ELSE 0,
        doomed |-> {}]]
  /\ nextOrdinal' = nextOrdinal + (IF op = "erp" THEN 1 ELSE 0)
  /\ UNCHANGED <<mainVars, now, faults, succeeded, failed, visited, dataVars>>

-----------------------------------------------------------------------------
(* The statements of an operation. *)

(* Who holds the advisory lock of a table, or the one hotspot row. *)
Holds(w, op) == worker[w].op = op /\ At(w, {"insert", "cleanup", "commit"})
Waits(w) ==
  /\ At(w, {"begin"}) /\ worker[w].op \in Table \cup {"hotspot"}
  /\ \E v \in Worker \ {w} : Holds(v, worker[w].op)

Statement(w, op) == At(w, {"begin"}) /\ worker[w].op = op

ReadRows(w) ==
  /\ Statement(w, "read")
  /\ Goes(w, "commit")
  /\ UNCHANGED <<mainVars, now, faults, metricVars, dataVars>>

(* An order or an inventory row that nobody holds (SKIP LOCKED). *)
UpdateRow(w) ==
  /\ Statement(w, "update")
  /\ Goes(w, "commit")
  /\ UNCHANGED <<mainVars, now, faults, metricVars, dataVars>>

(* The statement of an ordinal: its table, and the shape of the query. *)
Fingerprint(ordinal) == <<ordinal \div Variants + 1, ordinal % Variants>>

ExecuteErpQuery(w) ==
  /\ Statement(w, "erp")
  /\ Goes(w, "commit")
  /\ recorded' = recorded \cup {Fingerprint(worker[w].on)}
  /\ UNCHANGED <<mainVars, now, faults, metricVars, rows, nextId, job>>

ControlledLock(w) ==
  /\ Statement(w, "hotspot") /\ ~Waits(w)
  /\ Goes(w, "commit")
  /\ UNCHANGED <<mainVars, now, faults, metricVars, dataVars>>

(* Mutation: insert and cleanup are not serialised. *)
RetentionLock_None(w) ==
  /\ \E t \in Table : Statement(w, t)
  /\ Goes(w, "insert")
  /\ UNCHANGED <<mainVars, now, faults, metricVars, dataVars>>

RetentionLock(w) ==
  /\ \E t \in Table : Statement(w, t)
  /\ ~Waits(w)
  /\ Goes(w, "insert")
  /\ UNCHANGED <<mainVars, now, faults, metricVars, dataVars>>

(* The INSERT, and for a mutation the UPDATE of the row just inserted. *)
InsertRow(w) ==
  LET t == worker[w].op IN
  /\ At(w, {"insert"})
  /\ worker' = [worker EXCEPT ![w].at = "cleanup", ![w].on = nextId[t]]
  /\ nextId' = [nextId EXCEPT ![t] = @ + 1]
  /\ UNCHANGED <<mainVars, now, faults, metricVars, rows, job, recorded>>

(* ORDER BY id DESC OFFSET MaxRows LIMIT CleanupBatch *)
Newer(ids, id) == Cardinality({i \in ids : i > id})
Doomed(ids) ==
  {id \in ids : Newer(ids, id) \in MaxRows..(MaxRows + CleanupBatch - 1)}

CleanUp(w) ==
  /\ At(w, {"cleanup"})
  /\ worker' = [worker EXCEPT ![w].at = "commit",
       ![w].doomed = Doomed(rows[worker[w].op] \cup {worker[w].on})]
  /\ UNCHANGED <<mainVars, now, faults, metricVars, dataVars>>

(* Ready jobs whose time has come and that no transaction holds. *)
Claimable ==
  {j \in Job : job[j].ready /\ job[j].due
               /\ \A v \in Worker : At(v, {"requeue", "commit"})
                    /\ worker[v].op = "claim" => worker[v].on # j}

(* Mutation: the claim is committed on its own. *)
ClaimJob_Commits(w) ==
  /\ Statement(w, "claim")
  /\ \E j \in Claimable :
       /\ worker' = [worker EXCEPT ![w].at = "requeue", ![w].on = j]
       /\ job' = [job EXCEPT ![j].ready = FALSE]
  /\ UNCHANGED <<mainVars, now, faults, metricVars, rows, nextId, recorded>>

ClaimJob(w) ==
  /\ Statement(w, "claim")
  /\ IF Claimable = {} THEN Goes(w, "commit")
     ELSE \E j \in Claimable :
            worker' = [worker EXCEPT ![w].at = "requeue", ![w].on = j]
  /\ UNCHANGED <<mainVars, now, faults, metricVars, dataVars>>

RequeueJob(w) ==
  /\ At(w, {"requeue"})
  /\ Goes(w, "commit")
  /\ UNCHANGED <<mainVars, now, faults, metricVars, dataVars>>

-----------------------------------------------------------------------------
(* The end of a transaction. *)

(* What the server makes durable; recorded statements are so already. *)
Durable(w) ==
  LET t == worker[w].op IN
  /\ rows' = IF t \in Table
             THEN [rows EXCEPT ![t] = (@ \cup {worker[w].on}) \ worker[w].doomed]
             ELSE rows
  /\ job' = IF t = "claim" /\ worker[w].on \in Job
            THEN [job EXCEPT ![worker[w].on] = [ready |-> TRUE, due |-> FALSE]]
            ELSE job
  /\ UNCHANGED <<nextId, recorded>>

Commit(w) ==
  /\ At(w, {"commit"})
  /\ Durable(w)
  /\ succeeded' = succeeded + 1
  /\ visited' = visited \cup (IF worker[w].op = "erp" THEN {worker[w].on} ELSE {})
  /\ Drops(w, "idle")
  /\ UNCHANGED <<mainVars, now, faults, failed, nextOrdinal>>

(* A psycopg.Error and the rollback; the connection survives it.  A wait   *)
(* for a lock runs into lock_timeout without any other fault.              *)
StatementFails(w) ==
  /\ InTransaction(w)
  /\ IF Waits(w) THEN UNCHANGED faults ELSE Fault
  /\ failed' = failed + 1
  /\ Drops(w, "idle")
  /\ UNCHANGED <<mainVars, now, succeeded, nextOrdinal, visited, dataVars>>

(* The connection is gone: the loop connects again at once.  A commit that *)
(* was under way may have been carried out.                                *)
ConnectionLost(w) ==
  /\ InTransaction(w)
  /\ Fault
  /\ failed' = failed + 1
  /\ Drops(w, "connect")
  /\ \/ At(w, {"commit"}) /\ Durable(w)
     \/ UNCHANGED dataVars
  /\ UNCHANGED <<mainVars, now, succeeded, nextOrdinal, visited>>

(* Any other exception, or a role the login may not take: the thread ends. *)
Raise(w) ==
  /\ InTransaction(w) \/ (At(w, {"connect"}) /\ Looping)
  /\ Fault
  /\ Drops(w, "raised")
  /\ UNCHANGED <<mainVars, now, metricVars, dataVars>>

-----------------------------------------------------------------------------
(* The supervisor. *)

Start ==
  /\ phase = "preflight"
  /\ phase' = "running" /\ futures' = Worker
  /\ worker' = [w \in Worker |-> [worker[w] EXCEPT !.at = "connect"]]
  /\ UNCHANGED <<stop, signalled, fatal, status, now, faults, metricVars, dataVars>>

(* The catalog is incomplete, a role is missing, the statistics cannot be  *)
(* read before or after the run: main() reports a failure.                 *)
Abort ==
  /\ \/ phase = "preflight"
     \/ phase = "joining" /\ \A w \in Worker : At(w, {"ended", "raised"})
  /\ Fault
  /\ phase' = "done" /\ status' = "failed"
  /\ UNCHANGED <<futures, stop, signalled, fatal, now, worker, metricVars, dataVars>>

Ended == {w \in futures : At(w, {"ended", "raised"})}

(* Mutation: finished futures stay in the set that is waited for. *)
Supervise_Keeps ==
  /\ phase = "running" /\ (Ended # {} \/ (now >= Duration /\ ~stop))
  /\ fatal' = (\E w \in Ended : At(w, {"raised"}))
  /\ stop' = (stop \/ fatal' \/ now >= Duration)
  /\ phase' = IF fatal' THEN "joining" ELSE phase
  /\ UNCHANGED <<futures, signalled, status, now, faults, worker, metricVars, dataVars>>

(* One turn of "while futures" that finds something to do. *)
Supervise ==
  /\ phase = "running" /\ (Ended # {} \/ (now >= Duration /\ ~stop))
  /\ fatal' = (\E w \in Ended : At(w, {"raised"}))
  /\ futures' = futures \ Ended
  /\ stop' = (stop \/ fatal' \/ futures' = {} \/ now >= Duration)
  /\ phase' = IF fatal' \/ futures' = {} THEN "joining" ELSE phase
  /\ UNCHANGED <<signalled, status, now, faults, worker, metricVars, dataVars>>

(* Mutation: the coverage of the sweep is not looked at. *)
Verdict_AnyCoverage ==
  IF fatal THEN "failed"
  ELSE IF signalled THEN "interrupted"
  ELSE IF succeeded = 0 THEN "failed"
  ELSE "completed"

Verdict ==
  IF fatal THEN "failed"
  ELSE IF signalled THEN "interrupted"
  ELSE IF succeeded = 0 \/ (Erp /\ Cardinality(visited) < Target) THEN "failed"
  ELSE "completed"

(* executor.shutdown(wait=True), the closing statistics, the final payload *)
Finish ==
  /\ phase = "joining" /\ \A w \in Worker : At(w, {"ended", "raised"})
  /\ phase' = "done" /\ status' = Verdict
  /\ UNCHANGED <<futures, stop, signalled, fatal, now, faults, worker, metricVars,
                 dataVars>>

(* SIGINT or SIGTERM while the handlers are installed. *)
RequestStop ==
  /\ phase \in {"running", "joining"} /\ ~signalled
  /\ signalled' = TRUE /\ stop' = TRUE
  /\ UNCHANGED <<phase, futures, fatal, status, now, faults, worker, metricVars,
                 dataVars>>

Tick ==
  /\ phase = "running" /\ now < Duration
  /\ now' = now + 1
  /\ job' = [j \in Job |-> [job[j] EXCEPT !.due = TRUE]]
  /\ UNCHANGED <<mainVars, faults, worker, metricVars, rows, nextId, recorded>>

Terminated == phase = "done" /\ UNCHANGED vars

-----------------------------------------------------------------------------
Work(w) ==
  \/ ReadRows(w) \/ UpdateRow(w) \/ ExecuteErpQuery(w) \/ ControlledLock(w)
  \/ RetentionLock(w) \/ InsertRow(w) \/ CleanUp(w)
  \/ ClaimJob(w) \/ RequeueJob(w)
  \/ Commit(w)

Next ==
  \/ \E w \in Worker :
       \/ Connect(w) \/ ConnectFails(w) \/ Retry(w) \/ Leave(w)
       \/ \E op \in Operation(w) : Choose(w, op)
       \/ Work(w)
       \/ StatementFails(w) \/ ConnectionLost(w) \/ Raise(w)
  \/ Start \/ Abort \/ Supervise \/ Finish \/ RequestStop
  \/ Tick
  \/ Terminated

(* Threads are scheduled, statement_timeout and lock_timeout bound every   *)
(* statement, and the clock runs.                                          *)
Spec ==
  /\ Init /\ [][Next]_vars
  /\ \A w \in Worker : WF_vars(Work(w)) /\ WF_vars(Leave(w)) /\ WF_vars(Retry(w))
  /\ WF_vars(Start) /\ WF_vars(Supervise) /\ WF_vars(Finish) /\ WF_vars(Tick)

-----------------------------------------------------------------------------
(* Properties. *)

(* Whatever fails in between and however many writers insert at once, the  *)
(* committed rows of the workload never outgrow the limit: the insert and  *)
(* the cleanup of one transaction see the cleanup of the one before        *)
(* (workload.py:1075-1078).                                                *)
RetentionBounded == \A t \in Table : Cardinality(rows[t]) <= MaxRows

(* A claimed job is either requeued by the transaction that claimed it or  *)
(* was never claimed: nobody else ever sees it running, and a worker that  *)
(* dies in between loses no job (workload.py:1137-1147).                   *)
JobsReturned == \A j \in Job : job[j].ready

(* The coverage reported is of fingerprints the source has executed, and   *)
(* while nothing fails the shared sweep leaves no reserved fingerprint out *)
(* (workload.py:1518-1534).                                                *)
CoverageHonest ==
  /\ \A o \in visited : Fingerprint(o) \in recorded
  /\ failed = 0 /\ ~(\E w \in Worker : At(w, {"raised"})) =>
       \A o \in 0..(Target - 1) : o < nextOrdinal =>
         \/ o \in visited
         \/ \E w \in Worker : InTransaction(w) /\ worker[w].op = "erp"
                              /\ worker[w].on = o

(* The final payload comes when no thread runs any more, and it says       *)
(* "completed" only if every worker returned normally and, for the ERP     *)
(* profile, every family of query has been executed on every table         *)
(* (workload.py:1985-2045).                                                *)
VerdictHonest ==
  /\ phase = "done" => \A w \in Worker : At(w, {"new", "ended", "raised"})
  /\ status = "completed" =>
       /\ \A w \in Worker : At(w, {"ended"})
       /\ Erp => recorded = (1..Tables) \X (0..(Variants - 1))

(* A bounded run ends with its payload: no lock wait, reconnect or worker  *)
(* outlives the deadline for ever (workload.py:1985-2015).                 *)
RunEnds == <>(status # "none")
=============================================================================

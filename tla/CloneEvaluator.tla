--------------------------- MODULE CloneEvaluator ---------------------------
(***************************************************************************)
(* The clone evaluator (backend/app/clone_evaluator.py): evaluations wait  *)
(* for one slot in order of arrival, and each copies the clone template    *)
(* into job databases of its own, replays the query there and drops them.  *)
(* A job database is <<request, role>>: "base" and "cand" of an index      *)
(* validation, "query" of a direct EXPLAIN ANALYZE.                        *)
(***************************************************************************)
EXTENDS EvaluationRequests

CONSTANT MeasuredRuns \* clone_measured_runs

ASSUME CloneAssumption == MeasuredRuns \in Nat \ {0}

VARIABLES
  line,     \* requests waiting for or holding _evaluation_slots, in order
  clone,    \* per request: the worker thread and its local state
  database, \* job database |-> "none", "creating" (its client is gone),
            \*   "there", or "late" (committed after its client had gone)
  indexed,  \* job databases in which the candidate index exists
  replayed  \* requests whose query was executed on a clone

cloneVars == <<line, clone, database, indexed, replayed>>

Role == {"base", "cand", "query"}
JobDatabase == Request \X Role

NoCloneJob == [at |-> "none", role |-> "none", tracked |-> <<>>, tried |-> 0, clean |-> TRUE,
               runs |-> 0, ddl |-> FALSE, used |-> TRUE, status |-> "none", destroyed |-> FALSE]

(* What is kept of a job that ended: its verdict was sound, its cleanup.   *)
Over(r, how, destroyed) ==
  [NoCloneJob EXCEPT !.at = how, !.destroyed = destroyed,
     !.runs = IF clone[r].status = "RUNTIME_VALIDATED" THEN clone[r].runs ELSE 0,
     !.used = clone[r].status = "RUNTIME_VALIDATED" => clone[r].used]

CloneInit ==
  /\ line = <<>>
  /\ clone = [r \in Request |-> NoCloneJob]
  /\ database = [d \in JobDatabase |-> "none"]
  /\ indexed = {} /\ replayed = {}

OnClone(r) == clone[r].at \notin {"none", "done", "lost"}
At(r, place) == clone[r].at = place
CloneGoto(r, place) == clone' = [clone EXCEPT ![r].at = place]

(* Any stop, error or verdict goes on to _destroy_job_databases.           *)
Stop(r, status) ==
  clone' = [clone EXCEPT ![r].at = "drop", ![r].status = status]

CloneData == <<database, indexed, replayed>>

-----------------------------------------------------------------------------
(* The detached task queues for the slot; the probe does not queue behind  *)
(* an evaluation.                                                          *)
AdmitClone(r) ==
  /\ post[r] = "clone" /\ post' = [post EXCEPT ![r] = "none"]
  /\ IF call[r].kind = "health" /\ line # <<>>
     THEN /\ Respond(r, "clone", Told("BUSY", "no", "no", FALSE, TRUE))
          /\ UNCHANGED <<line, clone>>
     ELSE /\ line' = Append(line, r)
          /\ CloneGoto(r, "queued")
          /\ UNCHANGED reply
  /\ UNCHANGED <<call, faults, CloneData>>

(* With the slot: source alias, database, the exact candidate SQL and the  *)
(* text of the query, then the marker, the role and the manifest of the    *)
(* template.  The probe only does the latter.                              *)
CloneGate(r) ==
  /\ At(r, "queued") /\ Head(line) = r
  /\ \/ Stop(r, "REJECTED")
     \/ call[r].kind = "health" /\ Stop(r, "HEALTHY")
     \/ /\ call[r].kind # "health" /\ TextAccepted(r)
        /\ clone' = [clone EXCEPT ![r].at = "create",
                       ![r].role = IF call[r].kind = "query" THEN "query" ELSE "base"]
  /\ UNCHANGED <<requestVars, faults, line, CloneData>>

(* The name is tracked before PostgreSQL receives CREATE DATABASE; then    *)
(* the runner role alone is let in.                                        *)
Track(r) == Append(clone[r].tracked, clone[r].role)

CreateDatabase(r) ==
  /\ At(r, "create")
  /\ clone' = [clone EXCEPT ![r].tracked = Track(r),
                 ![r].at = CASE clone[r].role = "base"  -> "preflight"
                             [] clone[r].role = "cand"  -> "index"
                             [] clone[r].role = "query" -> "explain"]
  /\ database' = [database EXCEPT ![<<r, clone[r].role>>] = "there"]
  /\ UNCHANGED <<requestVars, faults, line, indexed, replayed>>

(* Mutation: the name is tracked once CREATE DATABASE has succeeded. *)
CreateDatabaseLost_Untracked(r) ==
  /\ At(r, "create") /\ Fault
  /\ Stop(r, "REJECTED")
  /\ \E outcome \in {"none", "there", "creating"} :
       database' = [database EXCEPT ![<<r, clone[r].role>>] = outcome]
  /\ UNCHANGED <<requestVars, line, indexed, replayed>>

(* The connection or its guard fails before the name is tracked; or the    *)
(* reply is lost and nothing was created, the database was committed, or   *)
(* the server is still copying the template.                               *)
CreateDatabaseLost(r) ==
  /\ At(r, "create") /\ Fault
  /\ \/ Stop(r, "REJECTED") /\ UNCHANGED database
     \/ /\ clone' = [clone EXCEPT ![r].at = "drop", ![r].status = "REJECTED",
                                  ![r].tracked = Track(r)]
        /\ \E outcome \in {"none", "there", "creating"} :
             database' = [database EXCEPT ![<<r, clone[r].role>>] = outcome]
  /\ UNCHANGED <<requestVars, line, indexed, replayed>>

(* Under the runner role, in a read-only transaction of the baseline, a    *)
(* plan without ANALYZE; then the candidate database is made.              *)
PreflightBaseline(r) ==
  /\ At(r, "preflight")
  /\ \/ Stop(r, "REJECTED")
     \/ /\ PlanReadOnly(r)
        /\ clone' = [clone EXCEPT ![r].at = "create", ![r].role = "cand"]
  /\ UNCHANGED <<requestVars, faults, line, CloneData>>

(* Relation, columns and existing indexes of the clone first.              *)
CreateCandidateIndex(r) ==
  /\ At(r, "index")
  /\ \/ /\ Stop(r, "REJECTED")
        /\ UNCHANGED indexed
     \/ /\ clone' = [clone EXCEPT ![r].at = "measure", ![r].ddl = TRUE]
        /\ indexed' = indexed \cup {<<r, clone[r].role>>}
  /\ UNCHANGED <<requestVars, faults, line, database, replayed>>

(* One measured run on each database, each with a preflight of its own and *)
(* a rollback; after the last one the verdict.                             *)
Measure(r) ==
  /\ At(r, "measure")
  /\ replayed' = replayed \cup {r}
  /\ \/ Stop(r, "REJECTED")
     \/ \E used \in BOOLEAN :
          LET job == [clone[r] EXCEPT !.runs = @ + 1, !.used = @ /\ used] IN
          IF job.runs < MeasuredRuns THEN clone' = [clone EXCEPT ![r] = job]
          ELSE \E status \in {"REJECTED", "RUNTIME_VALIDATED"} :
                 /\ status = "RUNTIME_VALIDATED" => job.used
                 /\ clone' = [clone EXCEPT ![r] = [job EXCEPT !.at = "drop",
                                                             !.status = status]]
  /\ UNCHANGED <<requestVars, faults, line, database, indexed>>

(* The direct path plans, executes and rolls back in one transaction.      *)
ExplainQuery(r) ==
  /\ At(r, "explain")
  /\ IF PlanReadOnly(r)
     THEN /\ \E status \in {"RUNTIME_VALIDATED", "REJECTED"} : Stop(r, status)
          /\ replayed' = replayed \cup {r}
     ELSE Stop(r, "REJECTED") /\ UNCHANGED replayed
  /\ UNCHANGED <<requestVars, faults, line, database, indexed>>

(* Any other statement fails; a lost reply hides a committed index.        *)
CloneFails(r) ==
  /\ clone[r].at \in {"preflight", "index", "measure", "explain"}
  /\ Fault
  /\ Stop(r, "REJECTED")
  /\ \/ UNCHANGED indexed
     \/ At(r, "index") /\ indexed' = indexed \cup {<<r, clone[r].role>>}
  /\ UNCHANGED <<requestVars, line, database, replayed>>

-----------------------------------------------------------------------------
(* _destroy_job_databases: the last one first, each attempt on its own.    *)
(* DROP DATABASE IF EXISTS finds nothing of a name still being created.    *)
AllTried(r) == clone[r].tried = Len(clone[r].tracked)

DropDatabase(r) ==
  LET j == clone[r]
      d == <<r, j.tracked[Len(j.tracked) - j.tried]>>
      dropped == [database EXCEPT ![d] = IF @ = "creating" THEN @ ELSE "none"]
  IN
  /\ At(r, "drop") /\ ~AllTried(r)
  /\ \/ /\ database' = dropped /\ indexed' = indexed \ {d}
        /\ clone' = [clone EXCEPT ![r].tried = @ + 1]
        /\ UNCHANGED faults
     \/ /\ Fault
        /\ database' \in {database, dropped} /\ UNCHANGED indexed
        /\ clone' = [clone EXCEPT ![r].tried = @ + 1, ![r].clean = FALSE]
  /\ UNCHANGED <<requestVars, line, replayed>>

(* Whether any tracked name is left in the catalog.                        *)
Remaining(r) ==
  \E k \in ToSet(clone[r].tracked) : database[<<r, k>>] \in {"there", "late"}

(* Mutation: a failed cleanup does not change the status. *)
CloneResult_KeepsStatus(r, destroyed) ==
  Told(clone[r].status, "no", "no", clone[r].ddl, destroyed)

CloneResult(r, destroyed) ==
  LET j == clone[r] IN
  Told(IF destroyed THEN j.status ELSE "REJECTED", "no", "no", j.ddl, destroyed)

(* Mutation: the slot is not handed on when the cleanup failed. *)
Recount_Keeps(r) ==
  /\ At(r, "drop") /\ AllTried(r)
  /\ \E destroyed \in BOOLEAN :
       /\ \/ destroyed = (clone[r].clean /\ ~Remaining(r)) /\ UNCHANGED faults
          \/ clone[r].tracked # <<>> /\ ~destroyed /\ Fault
       /\ Respond(r, "clone", CloneResult(r, destroyed))
       /\ clone' = [clone EXCEPT ![r] = Over(r, "done", destroyed)]
       /\ line' = IF destroyed THEN Tail(line) ELSE line
  /\ UNCHANGED <<call, post, CloneData>>

(* Every attempt succeeded and no name remains; the count itself may fail. *)
(* The task ends with its answer: the slot goes to the next in line.       *)
Recount(r) ==
  /\ At(r, "drop") /\ AllTried(r)
  /\ \E destroyed \in BOOLEAN :
       /\ \/ destroyed = (clone[r].clean /\ ~Remaining(r)) /\ UNCHANGED faults
          \/ clone[r].tracked # <<>> /\ ~destroyed /\ Fault
       /\ Respond(r, "clone", CloneResult(r, destroyed))
       /\ clone' = [clone EXCEPT ![r] = Over(r, "done", destroyed)]
  /\ line' = Tail(line)
  /\ UNCHANGED <<call, post, CloneData>>

-----------------------------------------------------------------------------
(* A CREATE DATABASE that outlived its connection ends.                    *)
CreateEnds(d) ==
  /\ database[d] = "creating"
  /\ \E outcome \in {"none", "late"} :
       database' = [database EXCEPT ![d] = outcome]
  /\ UNCHANGED <<requestVars, faults, line, clone, indexed, replayed>>

(* The process dies and starts again: tasks, slot and tracked names gone,  *)
(* whatever its session was doing.                                         *)
CloneRestart ==
  /\ line # <<>> /\ Fault
  /\ LET r == Head(line)
         d == <<r, clone[r].role>>
     IN  IF At(r, "create")
         THEN \E outcome \in {"none", "there", "creating"} :
                database' = [database EXCEPT ![d] = outcome]
         ELSE UNCHANGED database
  /\ line' = <<>>
  /\ clone' = [r \in Request |-> IF OnClone(r) THEN Over(r, "lost", FALSE) ELSE clone[r]]
  /\ UNCHANGED <<requestVars, indexed, replayed>>

CloneStep(r) ==
  \/ CloneGate(r) \/ CreateDatabase(r) \/ PreflightBaseline(r)
  \/ CreateCandidateIndex(r) \/ Measure(r) \/ ExplainQuery(r)
  \/ DropDatabase(r) \/ Recount(r)

CloneNext ==
  \/ \E r \in Request : AdmitClone(r) \/ CloneStep(r) \/ CreateDatabaseLost(r)
                        \/ CloneFails(r)
  \/ \E d \in JobDatabase : CreateEnds(d)
  \/ CloneRestart
=============================================================================

--------------------------- MODULE SourceEvaluator ---------------------------
(***************************************************************************)
(* The source evaluator (backend/app/evaluator.py): one admission slot, a  *)
(* worker thread per admitted operation, and its session on the monitored  *)
(* source, where it plans with HypoPG or runs EXPLAIN ANALYZE in a         *)
(* read-only transaction it always rolls back.                             *)
(***************************************************************************)
EXTENDS EvaluationRequests

VARIABLES
  free,   \* _evaluation_slots has its permit
  source, \* per request: the worker thread and its local state
  open,   \* requests with a transaction open on the source
  ran     \* requests whose statement was executed with ANALYZE

sourceVars == <<free, source, open, ran>>

NoSourceJob ==
  [at |-> "none", started |-> FALSE, executed |-> FALSE, status |-> "none"]

Ended(how) == [NoSourceJob EXCEPT !.at = how]

SourceInit ==
  /\ free = TRUE /\ open = {} /\ ran = {}
  /\ source = [r \in Request |-> NoSourceJob]

OnSource(r) == source[r].at \notin {"none", "done", "lost"}
Goto(r, place) == source' = [source EXCEPT ![r].at = place]

(* An exception leaves for the finally block with the status its handler   *)
(* gives; so does a finished evaluation.                                   *)
Leave(r, status) ==
  source' = [source EXCEPT ![r].at = "closing", ![r].status = status]

Yes(b) == IF b THEN "yes" ELSE "no"

-----------------------------------------------------------------------------
(* Mutation: a second operation is admitted while the slot is taken. *)
AdmitSource_Unchecked(r) ==
  /\ post[r] = "source" /\ post' = [post EXCEPT ![r] = "none"]
  /\ free' = FALSE /\ Goto(r, "gate")
  /\ UNCHANGED <<reply, call, faults, open, ran>>

(* _run_serialized_evaluation: there is no queue, a second operation is    *)
(* turned away.                                                            *)
AdmitSource(r) ==
  /\ post[r] = "source" /\ post' = [post EXCEPT ![r] = "none"]
  /\ IF free
     THEN free' = FALSE /\ Goto(r, "gate") /\ UNCHANGED reply
     ELSE /\ Respond(r, "source", Told("REJECTED", "no", "no", FALSE, TRUE))
          /\ UNCHANGED <<free, source>>
  /\ UNCHANGED <<call, faults, open, ran>>

(* The alias and database of the request, the evidence it carries, and its *)
(* text: one SELECT, and values for the parameters of an EXPLAIN ANALYZE.  *)
(* Only then the connection and its transaction.                           *)
SourceBegin(r) ==
  /\ source[r].at = "gate"
  /\ \/ Leave(r, "REJECTED") /\ UNCHANGED open
     \/ /\ TextAccepted(r)
        /\ open' = open \cup {r}
        /\ source' = [source EXCEPT ![r].at = "guard", ![r].started = TRUE]
  /\ UNCHANGED <<requestVars, faults, free, ran>>

(* The connection bound to this session is the configured database, of the *)
(* identity the telemetry named, under the low-privilege role; for a plan  *)
(* also the relation, its operators and its existing indexes.              *)
SourceGuard(r) ==
  /\ source[r].at = "guard"
  /\ \/ Leave(r, "REJECTED")
     \/ ~call[r].stale
        /\ Goto(r, IF call[r].kind = "explain" THEN "preflight" ELSE "plan")
  /\ UNCHANGED <<requestVars, faults, free, open, ran>>

(* The baseline plan, the hypothetical index, the plan with it.            *)
HypotheticalPlan(r) ==
  /\ source[r].at = "plan"
  /\ \E status \in {"VALIDATED", "REJECTED"} : Leave(r, status)
  /\ UNCHANGED <<requestVars, faults, free, open, ran>>

(* Mutation: the text gate alone decides what is executed. *)
SourcePreflight_Skipped(r) ==
  /\ source[r].at = "preflight"
  /\ source' = [source EXCEPT ![r].at = "analyze", ![r].executed = TRUE]
  /\ UNCHANGED <<requestVars, faults, free, open, ran>>

(* A plan without ANALYZE shows every write and row lock first.            *)
SourcePreflight(r) ==
  /\ source[r].at = "preflight"
  /\ IF PlanReadOnly(r)
     THEN source' = [source EXCEPT ![r].at = "analyze", ![r].executed = TRUE]
     ELSE Leave(r, "REJECTED")
  /\ UNCHANGED <<requestVars, faults, free, open, ran>>

(* The statement runs; its timeout or a refused privilege ends it.         *)
SourceAnalyze(r) ==
  /\ source[r].at = "analyze"
  /\ ran' = ran \cup {r}
  /\ \E status \in {"RUNTIME_VALIDATED", "REJECTED"} : Leave(r, status)
  /\ UNCHANGED <<requestVars, faults, free, open>>

(* A statement or the connection fails wherever the thread is, also after  *)
(* BEGIN and before the settings of the transaction.                       *)
SourceFails(r) ==
  /\ source[r].at \in {"gate", "guard", "plan", "preflight", "analyze"}
  /\ Fault
  /\ Leave(r, "REJECTED")
  /\ \/ /\ source[r].at = "gate" /\ TextAccepted(r)
        /\ open' = open \cup {r}
     \/ UNCHANGED open
  /\ UNCHANGED <<requestVars, free, ran>>

(* RUNTIME_VALIDATED needs a clean rollback.                               *)
SourceResult(r, rolledBack) ==
  LET j == source[r] IN
  IF call[r].kind # "explain" THEN Told(j.status, "no", "no", FALSE, TRUE)
  ELSE Told(IF j.status = "RUNTIME_VALIDATED" /\ ~rolledBack THEN "REJECTED" ELSE j.status,
            Yes(j.executed), Yes(rolledBack), FALSE, TRUE)

(* The finally block, rollback and close, and the end of the task.  When   *)
(* the rollback fails the server aborts the transaction once it misses its *)
(* client.                                                                 *)
Rollback(r) ==
  /\ source[r].at = "closing"
  /\ \/ /\ open' = open \ {r}
        /\ Respond(r, "source", SourceResult(r, source[r].started))
        /\ UNCHANGED faults
     \/ /\ r \in open /\ Fault
        /\ Respond(r, "source", SourceResult(r, FALSE))
        /\ UNCHANGED open
  /\ source' = [source EXCEPT ![r] = Ended("done")] /\ free' = TRUE
  /\ UNCHANGED <<call, post, ran>>

-----------------------------------------------------------------------------
(* The server ends a transaction whose client is gone.                     *)
SourceAborts(r) ==
  /\ r \in open /\ source[r].at \in {"done", "lost"}
  /\ open' = open \ {r}
  /\ UNCHANGED <<requestVars, faults, free, source, ran>>

(* The process dies and starts again: the slot and the threads are gone.   *)
SourceRestart ==
  /\ \E r \in Request : OnSource(r)
  /\ Fault
  /\ source' = [r \in Request |-> IF OnSource(r) THEN Ended("lost") ELSE source[r]]
  /\ free' = TRUE
  /\ UNCHANGED <<requestVars, open, ran>>

SourceStep(r) ==
  \/ SourceBegin(r) \/ SourceGuard(r) \/ HypotheticalPlan(r)
  \/ SourcePreflight(r) \/ SourceAnalyze(r) \/ Rollback(r)

SourceNext ==
  \/ \E r \in Request : AdmitSource(r) \/ SourceStep(r) \/ SourceFails(r)
                        \/ SourceAborts(r)
  \/ SourceRestart
=============================================================================

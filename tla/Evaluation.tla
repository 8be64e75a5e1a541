----------------------------- MODULE Evaluation -----------------------------
(***************************************************************************)
(* Plan and runtime evaluations end to end: the API threads, the source    *)
(* evaluator and the clone evaluator, each a process that may die and      *)
(* start again, and requests and results that arrive late or never.        *)
(***************************************************************************)
EXTENDS SourceEvaluator, CloneEvaluator

vars == <<requestVars, faults, sourceVars, cloneVars>>

Init == RequestInit /\ SourceInit /\ CloneInit

Ask(r, kind) ==
  \/ Refuse(r, kind)
  \/ \E query \in {"plain", "locking", "refused"}, stale \in BOOLEAN :
       Resolve(r, kind, query, stale)

ApiNext ==
  \E r \in Request :
    \/ \E kind \in Kinds[r] : Ask(r, kind)
    \/ Receive(r) \/ Unreachable(r)

(* Every caller has been told, and nothing is left running.                *)
Settled ==
  /\ \A r \in Request : call[r].at = "answered" /\ post[r] = "none"
  /\ free /\ line = <<>> /\ open = {}
  /\ \A d \in JobDatabase : database[d] # "creating"
  /\ UNCHANGED vars

Next ==
  \/ ApiNext /\ UNCHANGED <<sourceVars, cloneVars>>
  \/ SourceNext /\ UNCHANGED cloneVars
  \/ CloneNext /\ UNCHANGED sourceVars
  \/ Settled

Spec == Init /\ [][Next]_vars

(* A process accepts what reaches it.  Every statement on the source ends: *)
(* statement_timeout and transaction_timeout are set in its transaction.   *)
(* The clone's own statements are assumed to end.                          *)
Fairness ==
  /\ \A r \in Request :
       /\ WF_vars(AdmitSource(r) /\ UNCHANGED cloneVars)
       /\ WF_vars(SourceStep(r) /\ UNCHANGED cloneVars)
       /\ WF_vars(AdmitClone(r) /\ UNCHANGED sourceVars)
       /\ WF_vars(CloneStep(r) /\ UNCHANGED sourceVars)

FairSpec == Spec /\ Fairness

-----------------------------------------------------------------------------
Kind(r) == call[r].kind
Outcome(r) == call[r].answer

(***************************************************************************)
(* Whatever the evaluators are asked, nothing whose plan locks or writes   *)
(* rows is ever executed or indexed, and no statement runs in a source     *)
(* database recreated after its telemetry: each gate is passed by the job  *)
(* that executes, in the session in which it executes (evaluator.py:       *)
(* 803-809, clone_evaluator.py:1496-1531).                                 *)
(***************************************************************************)
ReadOnlyReplay ==
  /\ \A r \in ran : call[r].query = "plain" /\ ~call[r].stale
  /\ \A r \in replayed : call[r].query = "plain"
  /\ \A d \in indexed : call[d[1]].query = "plain" /\ d[2] = "cand"

(***************************************************************************)
(* The evaluator runs one operation on the source at a time, and the slot  *)
(* is never lost: it is held exactly while the one worker thread lives,    *)
(* although callers give up and the process restarts.  Threads are         *)
(* counted: a transaction orphaned by a restart may still be open on the   *)
(* server (evaluator.py:926-948).                                          *)
(***************************************************************************)
OneSourceOperation ==
  /\ Cardinality({r \in Request : OnSource(r)}) <= 1
  /\ free <=> \A r \in Request : ~OnSource(r)

(***************************************************************************)
(* What a caller is told of an EXPLAIN ANALYZE is true however late the    *)
(* job is: "not executed" of a statement that never ran and never will,    *)
(* "rolled back" of a transaction that is over, and a clone is "destroyed" *)
(* only when no database that its job created is in the catalog; a CREATE  *)
(* that outlives its broken connection is nobody's to see                  *)
(* (services/evaluator.py:77-82, services/clone_evaluator.py:135-140).     *)
(***************************************************************************)
AnswersTrue ==
  \A r \in Request :
    /\ Kind(r) = "explain" /\ call[r].at = "answered" =>
         /\ Outcome(r).executed = "no" => r \notin ran
         /\ Outcome(r).rolledBack = "yes" => r \notin open
         /\ Outcome(r).status = "RUNTIME_VALIDATED" =>
              r \in ran /\ Outcome(r).rolledBack = "yes"
    /\ Kind(r) = "query" /\ call[r].at = "answered" /\ Outcome(r).destroyed =>
         database[<<r, "query">>] # "there"

(***************************************************************************)
(* A validated real index was planned by HypoPG first, measured in every   *)
(* run with the index in use, and has left no job database behind          *)
(* (clone_evaluator.py:1847-1873, 1937-1944, api/router.py:1267-1281).     *)
(***************************************************************************)
ValidatedOnClone ==
  \A r \in Request :
    Kind(r) = "runtime" /\ Outcome(r).status = "RUNTIME_VALIDATED" =>
      /\ call[r].planned /\ r \in replayed
      /\ clone[r].runs = MeasuredRuns /\ clone[r].used
      /\ \A k \in Role : database[<<r, k>>] = "none"

(***************************************************************************)
(* A job database outlives its job only when the job said so, when the     *)
(* evaluator died, or when its CREATE DATABASE was still running on the    *)
(* server after the connection had broken: a CREATE that committed without *)
(* a reply is cleaned up (clone_evaluator.py:1044-1049).                   *)
(***************************************************************************)
LeftoversExplained ==
  \A r \in Request, k \in Role :
    database[<<r, k>>] = "there" /\ clone[r].at = "done" =>
      ~clone[r].destroyed

(***************************************************************************)
(* An evaluation that reached an evaluator ends, and those behind it get   *)
(* their turn, whether their callers still wait or not; the source slot is *)
(* free again and again (evaluator.py:938-942, clone_evaluator.py:2082).   *)
(***************************************************************************)
EvaluationsEnd ==
  /\ \A r \in Request : OnClone(r) ~> ~OnClone(r)
  /\ []<>free
=============================================================================

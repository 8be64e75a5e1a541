---------------------------- MODULE MCEvaluation ----------------------------
(***************************************************************************)
(* Model checking of the evaluations.  A runtime validation, which needs   *)
(* the planner and then the clone, competes with a request of each kind    *)
(* but advice, which is the first half of a runtime validation.            *)
(***************************************************************************)
EXTENDS Evaluation, TLC

CONSTANTS r1, r2

MCKinds ==
  r1 :> {"runtime"} @@
  r2 :> {"explain", "runtime", "query", "health"}
=============================================================================

------------------------------ MODULE MCWorkload ------------------------------
(***************************************************************************)
(* Model checking of the generator: one reader that sweeps two ERP         *)
(* fingerprints and two writers that share tables, jobs and the hotspot.   *)
(***************************************************************************)
EXTENDS Workload

CONSTANTS r1, w1, w2, j1
=============================================================================

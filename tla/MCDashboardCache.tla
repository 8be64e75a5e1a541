-------------------------- MODULE MCDashboardCache --------------------------
(***************************************************************************)
(* Model checking of the two caches together: one window, and two trend    *)
(* scopes that compete for one entry and one back-off record.              *)
(***************************************************************************)
EXTENDS DashboardCache

CONSTANTS w1, k1, k2, c1, d1, t1, u1
=============================================================================

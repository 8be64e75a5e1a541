--------------------------- MODULE MCSnapshotCache ---------------------------
(***************************************************************************)
(* Model checking of one cache: two windows compete for one entry and two  *)
(* handlers read them.  Times are scaled down; a stale age and both a      *)
(* first and a longest back-off exist.                                     *)
(***************************************************************************)
EXTENDS SnapshotCache

CONSTANTS w1, w2, c1, c2, t1, t2
=============================================================================

-------------------------- MODULE MCSnapshotWorker --------------------------
(***************************************************************************)
(* Model checking of the snapshot worker: one worker, as deployed, serves  *)
(* both families while a window's REFRESH times out every time and the     *)
(* sessions of lost connections live on.                                   *)
(***************************************************************************)
EXTENDS SnapshotWorker, TLC

CONSTANTS w1, s1, s2

Windows == <<"1h", "24h">>
BothFamilies == ({"query_metrics"} \X {"1h", "24h"}) \cup {<<"global_trend", "1h">>}
FirstPoisoned == {<<"query_metrics", "1h">>}
=============================================================================

--------------------------- MODULE MCSourceOutbox ---------------------------
(***************************************************************************)
(* Model checking of the source outbox on its own, and its properties.     *)
(***************************************************************************)
EXTENDS SourceOutbox

CONSTANTS i1, i2, i3

MCItem == {i1, i2, i3}
MCWidth == [i \in MCItem |-> 1]

(***************************************************************************)
(* docs/ITERATIONS_2_5_TO_2_7.md:30 calls capture and reset one atomic     *)
(* source transaction: a row that happened is still in pg_qualstats or in  *)
(* a batch.  Rows recorded between the read and the reset, and rows of a   *)
(* capture that rolls back after its reset, are in neither.                *)
(***************************************************************************)
EvidenceConserved ==
  Item \ fresh =
    live \cup UNION {ToSet(q.rows) : q \in capturing}
         \cup UNION {ToSet(c.batch.rows) : c \in captured}

(***************************************************************************)
(* A drained queue always closes the breaker again (the comment at         *)
(* sql/003:149): evidence that waits in pg_qualstats is eventually taken,  *)
(* as long as batches are acknowledged and the bounds last, although the   *)
(* outbox relations never shrink here.                                     *)
(***************************************************************************)
BreakerRecovers ==
  live # {} ~> (live = {} \/ nextBatch > MaxBatch \/ now = MaxTime)

(* The collector retries every snapshot interval, a transaction that has   *)
(* reset ends, and the snapshotter acknowledges what is pending.           *)
OutboxFairness ==
  /\ WF_outboxVars(CaptureRead)
  /\ WF_outboxVars(CaptureReset)
  /\ WF_outboxVars(CaptureCommit)
  /\ \A b \in 1..MaxBatch : WF_outboxVars(Pending(b) /\ AckBatch(b))

OutboxFairSpec == OutboxSpec /\ OutboxFairness
=============================================================================

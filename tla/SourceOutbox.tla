----------------------------- MODULE SourceOutbox -----------------------------
(***************************************************************************)
(* The source side of the JOIN pipeline (sql/003_join_snapshot_source.sql):*)
(* pg_qualstats accumulates predicate rows, the PoWA collector calls       *)
(* capture_and_reset() at every snapshot boundary, and the snapshotter     *)
(* lists, fetches and acknowledges the batches of the outbox.              *)
(*                                                                         *)
(* capture_and_reset() runs in one database transaction, but pg_qualstats  *)
(* lives in shared memory: what it holds is read by one statement and      *)
(* discarded by a later one, executions keep adding rows in between, and a *)
(* rollback does not bring discarded rows back.  So the capture is three   *)
(* steps here: read, reset, commit (or abort at either point).             *)
(***************************************************************************)
EXTENDS JoinBatch, SequencesExt

CONSTANTS
  MaxOutboxRows,   \* advisor_join.max_outbox_rows
  MaxOutboxBytes,  \* advisor_join.max_outbox_bytes, in stored rows
  MaxOutboxAge,    \* advisor_join.max_outbox_age_seconds, in clock ticks
  MaxBatch,        \* bound: batch ids the identity sequence hands out
  MaxTime,         \* bound: last value of the clock
  MaxRebuilds      \* bound: times the source volume is recreated

ASSUME OutboxLimitsAssumption ==
  /\ MaxOutboxRows \in Nat \ {0}
  /\ MaxOutboxBytes \in Nat \ {0}
  /\ MaxOutboxAge \in Nat \ {0}
ASSUME OutboxBoundsAssumption ==
  /\ MaxBatch \in Nat
  /\ MaxTime \in Nat
  /\ MaxRebuilds \in Nat

VARIABLES
  now,        \* wall clock; it advances at every capture
  fresh,      \* rows whose execution has not happened yet
  live,       \* rows pg_qualstats() returns
  capturing,  \* the batch of the open capture transaction: {} or one batch
  resetDone,  \* that transaction has already called pg_qualstats_reset()
  nextBatch,  \* the batch_id identity sequence, which no rollback rewinds
  outbox,     \* committed, unacknowledged batches
  storage,    \* rows the two outbox relations occupy, dead ones included
  epoch,      \* number of times the source volume has been recreated
  captured    \* history: every batch a capture committed, with its epoch

outboxVars == <<now, fresh, live, capturing, resetDone, nextBatch, outbox,
                storage, epoch, captured>>

captureVars == <<fresh, live, capturing, resetDone, nextBatch, storage,
                 epoch, captured>>

OutboxTypeOK ==
  /\ now \in Nat
  /\ fresh \in SUBSET Item
  /\ live \in SUBSET Item
  /\ capturing \in SUBSET Batch
  /\ resetDone \in BOOLEAN
  /\ nextBatch \in Nat \ {0}
  /\ outbox \in SUBSET Batch
  /\ storage \in Nat
  /\ epoch \in Nat
  /\ captured \in SUBSET [epoch : Nat, batch : Batch]

OutboxInit ==
  /\ now = 0
  /\ fresh = Item
  /\ live = {}
  /\ capturing = {}
  /\ resetDone = FALSE
  /\ nextBatch = 1
  /\ outbox = {}
  /\ storage = 0
  /\ epoch = 0
  /\ captured = {}

-----------------------------------------------------------------------------
PendingRows == MapThenSumSet(LAMBDA q : Len(q.rows), outbox)

(* Mutations of the breaker: the row count is not compared, the age is not *)
(* compared, the relation size counts although nothing is pending.         *)
WithinLimits_NoRows ==
  /\ outbox # {} => storage < MaxOutboxBytes
  /\ \A q \in outbox : now - q.at < MaxOutboxAge
WithinLimits_NoAge ==
  /\ PendingRows < MaxOutboxRows
  /\ outbox # {} => storage < MaxOutboxBytes
WithinLimits_DeadSpace ==
  /\ PendingRows < MaxOutboxRows
  /\ storage < MaxOutboxBytes
  /\ \A q \in outbox : now - q.at < MaxOutboxAge

(* assert_outbox_within_limits(): the relation size counts only while some *)
(* batch is pending, so a drained outbox always passes.                    *)
WithinLimits ==
  /\ PendingRows < MaxOutboxRows
  /\ outbox # {} => storage < MaxOutboxBytes
  /\ \A q \in outbox : now - q.at < MaxOutboxAge

(* A sampled execution leaves a row in pg_qualstats. *)
Record(i) ==
  /\ i \in fresh
  /\ fresh' = fresh \ {i}
  /\ live' = live \cup {i}
  /\ UNCHANGED <<now, capturing, resetDone, nextBatch, outbox, storage, epoch,
                 captured>>

(* The breaker, the batch row and the MATERIALIZED read of pg_qualstats(). *)
CaptureRead ==
  /\ capturing = {}
  /\ WithinLimits
  /\ nextBatch <= MaxBatch
  /\ now < MaxTime
  /\ now' = now + 1
  /\ capturing' = {[id |-> nextBatch, at |-> now + 1, rows |-> SetToSeq(live)]}
  /\ nextBatch' = nextBatch + 1
  /\ storage' = storage + 1 + Cardinality(live)
  /\ UNCHANGED <<fresh, live, resetDone, outbox, epoch, captured>>

(* Mutation: the capture forgets to reset pg_qualstats. *)
CaptureReset_Forgotten ==
  /\ capturing # {}
  /\ ~resetDone
  /\ resetDone' = TRUE
  /\ UNCHANGED <<now, fresh, live, capturing, nextBatch, outbox, storage, epoch,
                 captured>>

(* pg_qualstats_reset() discards whatever is there now. *)
CaptureReset ==
  /\ capturing # {}
  /\ ~resetDone
  /\ resetDone' = TRUE
  /\ live' = {}
  /\ UNCHANGED <<now, fresh, capturing, nextBatch, outbox, storage, epoch,
                 captured>>

CaptureCommit ==
  /\ resetDone
  /\ outbox' = outbox \cup capturing
  /\ captured' = captured \cup {[epoch |-> epoch, batch |-> q] : q \in capturing}
  /\ capturing' = {}
  /\ resetDone' = FALSE
  /\ UNCHANGED <<now, fresh, live, nextBatch, storage, epoch>>

(* The collector's transaction rolls back: the batch never existed, its id *)
(* and its dead rows are spent.                                            *)
CaptureAbort ==
  /\ capturing # {}
  /\ capturing' = {}
  /\ resetDone' = FALSE
  /\ UNCHANGED <<now, fresh, live, nextBatch, outbox, storage, epoch, captured>>

(* Time passes; retention and the age limit read this clock. *)
Tick ==
  /\ now < MaxTime
  /\ now' = now + 1
  /\ UNCHANGED <<outbox, captureVars>>

(* The source volume is recreated from its init scripts: the outbox is     *)
(* empty again and batch ids restart, while the repository keeps its own.  *)
Rebuild ==
  /\ epoch < MaxRebuilds
  /\ epoch' = epoch + 1
  /\ live' = {}
  /\ capturing' = {}
  /\ resetDone' = FALSE
  /\ nextBatch' = 1
  /\ outbox' = {}
  /\ storage' = 0
  /\ UNCHANGED <<now, fresh, captured>>

-----------------------------------------------------------------------------
(* list_batch_headers(limit): the headers with the limit smallest ids. *)
ListHeaders(limit) ==
  {HeaderOf(q) : q \in {p \in outbox :
      Cardinality({older \in outbox : older.id < p.id}) < limit}}

Pending(b) == \E q \in outbox : q.id = b

(* ack_batch(b): an idempotent DELETE. *)
AckBatch(b) ==
  /\ outbox' = {q \in outbox : q.id # b}
  /\ UNCHANGED <<now, captureVars>>

-----------------------------------------------------------------------------
(* The outbox on its own: any pending batch may be acknowledged. *)
Capture == CaptureRead \/ CaptureReset \/ CaptureCommit \/ CaptureAbort

OutboxNext ==
  \/ \E i \in Item : Record(i)
  \/ Capture
  \/ Tick
  \/ \E b \in 1..MaxBatch : Pending(b) /\ AckBatch(b)

OutboxSpec == OutboxInit /\ [][OutboxNext]_outboxVars

-----------------------------------------------------------------------------
RowsOlderThan(q) ==
  MapThenSumSet(LAMBDA p : Len(p.rows), {p \in outbox : p.id < q.id})

(***************************************************************************)
(* The backlog overshoots the row limit by at most the newest batch: what  *)
(* was pending when a batch was captured was below the limit, whatever     *)
(* acknowledgements and captures came in between (assert_outbox_within_    *)
(* limits protects the monitored primary's disk).                          *)
(***************************************************************************)
BacklogBounded == \A q \in outbox : RowsOlderThan(q) < MaxOutboxRows

(***************************************************************************)
(* No batch is captured behind an overdue one: of two pending batches the  *)
(* newer was taken before the older reached the age limit.                 *)
(***************************************************************************)
CapturedInTime ==
  \A q, p \in outbox : p.id < q.id => q.at - p.at <= MaxOutboxAge

(***************************************************************************)
(* A predicate row is exported in at most one committed batch, whatever    *)
(* captures rolled back before or after pg_qualstats_reset(): counters are *)
(* never reported twice.                                                   *)
(***************************************************************************)
CapturedOnce ==
  \A c, d \in captured :
     c # d => ToSet(c.batch.rows) \cap ToSet(d.batch.rows) = {}
=============================================================================

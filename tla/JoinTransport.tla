---------------------------- MODULE JoinTransport ----------------------------
(***************************************************************************)
(* The whole JOIN pipeline: the source outbox, the repository and the      *)
(* join-snapshotter daemons between them (deployment/join-snapshotter/     *)
(* snapshotter.py), several compatible workers at a time.                  *)
(*                                                                         *)
(* A daemon step is one statement group of one database transaction.  The  *)
(* repository functions are split where READ COMMITTED lets another        *)
(* transaction commit between two of their statements: ingest_join_chunk   *)
(* looks for a finalized batch first and stages afterwards, and so does    *)
(* finalize_join_batch before it takes the staging row lock.  A fault (a   *)
(* lost connection, a statement timeout, a reply lost after a commit) may  *)
(* hit any step; a crash forgets the worker's memory.                      *)
(*                                                                         *)
(* Legacy workers are daemons of an older release: they hand a whole batch *)
(* to ingest_join_batch and acknowledge it with the same ack_batch.        *)
(***************************************************************************)
EXTENDS SourceOutbox, JoinRepository

CONSTANTS
  Worker,         \* daemons of this release
  LegacyWorker,   \* daemons that still use ingest_join_batch
  BatchLimit,     \* JOIN_BATCH_LIMIT: headers listed per cycle
  PurgeInterval,  \* JOIN_PURGE_INTERVAL_SECONDS, in clock ticks
  MaxFaults       \* bound: crashes and failed or unanswered calls

ASSUME WorkerAssumption == Worker \cap LegacyWorker = {}
ASSUME TransportLimitsAssumption ==
  /\ BatchLimit \in Nat \ {0}
  /\ PurgeInterval \in Nat \ {0}
  /\ MaxFaults \in Nat

AnyWorker == Worker \cup LegacyWorker

VARIABLES
  pc,         \* where each worker is in run() and run_cycle()
  session,    \* the source epoch its source connection belongs to
  listed,     \* headers listed in this cycle
  todo,       \* those not handled yet; the smallest id is in process
  xfer,       \* chunk_no, expected_offset and the chunk in hand
  failed,     \* first_failure is set
  marker,     \* the health marker file exists
  nextPurge,  \* next_purge_at
  faults      \* faults so far

workerVars == <<pc, session, listed, todo, xfer, failed, marker, nextPurge>>

vars == <<outboxVars, repoVars, workerVars, faults>>

Location == {"idle", "list", "batch", "fetch", "ingest", "stage", "finalize",
             "commit", "ack", "report", "purge", "legacy"}

NoTransfer == [no |-> 1, off |-> 0, chunk |-> {}]

WorkerTypeOK ==
  /\ pc \in [AnyWorker -> Location]
  /\ session \in [AnyWorker -> Nat]
  /\ listed \in [AnyWorker -> SUBSET Header]
  /\ todo \in [AnyWorker -> SUBSET Header]
  /\ xfer \in [AnyWorker -> [no : Nat, off : Nat, chunk : SUBSET Chunk]]
  /\ failed \in [AnyWorker -> BOOLEAN]
  /\ marker \in [AnyWorker -> BOOLEAN]
  /\ nextPurge \in [AnyWorker -> Nat]
  /\ faults \in Nat

TypeOK == OutboxTypeOK /\ RepoTypeOK /\ WorkerTypeOK

Init ==
  /\ OutboxInit
  /\ RepoInit
  /\ pc = [w \in AnyWorker |-> "idle"]
  /\ session = [w \in AnyWorker |-> 0]
  /\ listed = [w \in AnyWorker |-> {}]
  /\ todo = [w \in AnyWorker |-> {}]
  /\ xfer = [w \in AnyWorker |-> NoTransfer]
  /\ failed = [w \in AnyWorker |-> FALSE]
  /\ marker = [w \in AnyWorker |-> FALSE]
  /\ nextPurge = [w \in AnyWorker |-> 0]
  /\ faults = 0

-----------------------------------------------------------------------------
Goto(w, place) == pc' = [pc EXCEPT ![w] = place]

(* The header in process: headers are handled in batch_id order. *)
InProcess(w, h) == h \in todo[w] /\ \A g \in todo[w] : h.id <= g.id

(* The source connection still leads to the volume it was opened on. *)
SourceAlive(w) == session[w] = epoch

Fault == faults < MaxFaults /\ faults' = faults + 1

(* The loop goes on with the next header. *)
NextHeader(w, h) ==
  /\ todo' = [todo EXCEPT ![w] = @ \ {h}]
  /\ xfer' = [xfer EXCEPT ![w] = NoTransfer]
  /\ Goto(w, IF w \in Worker THEN "batch" ELSE "idle")

(* Both connections are opened and the repository answers the probe. *)
Connect(w) ==
  /\ w \in Worker
  /\ pc[w] = "idle"
  /\ session' = [session EXCEPT ![w] = epoch]
  /\ Goto(w, "list")
  /\ UNCHANGED <<outboxVars, repoVars, listed, todo, xfer, failed, marker,
                 nextPurge, faults>>

List(w) ==
  /\ pc[w] = "list"
  /\ SourceAlive(w)
  /\ listed' = [listed EXCEPT ![w] = ListHeaders(BatchLimit)]
  /\ todo' = [todo EXCEPT ![w] = ListHeaders(BatchLimit)]
  /\ Goto(w, "batch")
  /\ UNCHANGED <<outboxVars, repoVars, session, xfer, failed, marker, nextPurge,
                 faults>>

(* The first fetch finds the batch gone: another worker acknowledged it. *)
SkipAcknowledged(w) ==
  /\ pc[w] = "batch"
  /\ SourceAlive(w)
  /\ \E h \in todo[w] :
       /\ InProcess(w, h)
       /\ ~Pending(h.id)
       /\ NextHeader(w, h)
  /\ UNCHANGED <<outboxVars, repoVars, session, listed, failed, marker,
                 nextPurge, faults>>

(* The next chunk of the batch, at expected_offset. *)
FetchChunk(w) ==
  /\ pc[w] \in {"batch", "fetch"}
  /\ SourceAlive(w)
  /\ \E h \in todo[w] : \E q \in outbox :
       /\ InProcess(w, h)
       /\ HeaderOf(q) = h
       /\ ~ChunkRaises(q.rows, xfer[w].off)
       /\ xfer' = [xfer EXCEPT ![w].chunk =
                     {ChunkAt(q.rows, xfer[w].no, xfer[w].off)}]
  /\ Goto(w, "ingest")
  /\ UNCHANGED <<outboxVars, repoVars, session, listed, todo, failed, marker,
                 nextPurge, faults>>

(* Mutation: the last chunk is taken for the proof of durability. *)
ChunkTransferred_AckFirst(w, c) ==
  /\ xfer' = [xfer EXCEPT ![w] =
                IF c.last THEN [@ EXCEPT !.chunk = {}]
                ELSE [no |-> @.no + 1, off |-> @.off + Len(c.rows), chunk |-> {}]]
  /\ Goto(w, IF c.last THEN "ack" ELSE "fetch")
  /\ UNCHANGED <<outboxVars, session, listed, todo, failed, marker, nextPurge,
                 faults>>

(* After the chunk committed (or was a repeat): finalize or fetch on. *)
ChunkTransferred(w, c) ==
  /\ xfer' = [xfer EXCEPT ![w] =
                IF c.last THEN [@ EXCEPT !.chunk = {}]
                ELSE [no |-> @.no + 1, off |-> @.off + Len(c.rows), chunk |-> {}]]
  /\ Goto(w, IF c.last THEN "finalize" ELSE "fetch")
  /\ UNCHANGED <<outboxVars, session, listed, todo, failed, marker, nextPurge,
                 faults>>

(* ingest_join_chunk, first statement: already final, a no-op ... *)
IngestKnown(w) ==
  /\ pc[w] = "ingest"
  /\ \E h \in todo[w] : \E c \in xfer[w].chunk :
       /\ InProcess(w, h)
       /\ Finalized(h.id)
       /\ ~FinalConflict(h)
       /\ ChunkTransferred(w, c)
  /\ UNCHANGED repoVars

(* ... or not final yet: go on to stage the chunk. *)
IngestUnknown(w) ==
  /\ pc[w] = "ingest"
  /\ \E h \in todo[w] : InProcess(w, h) /\ ~Finalized(h.id)
  /\ Goto(w, "stage")
  /\ UNCHANGED <<outboxVars, repoVars, session, listed, todo, xfer, failed,
                 marker, nextPurge, faults>>

Stage(w) ==
  /\ pc[w] = "stage"
  /\ \E h \in todo[w] : \E c \in xfer[w].chunk :
       /\ InProcess(w, h)
       /\ StageChunk(h, c)
       /\ ChunkTransferred(w, c)

(* finalize_join_batch, first statement: already final ... *)
FinalizeKnown(w) ==
  /\ pc[w] = "finalize"
  /\ \E h \in todo[w] : InProcess(w, h) /\ FinalizeAgain(h.id)
  /\ Goto(w, "ack")
  /\ UNCHANGED <<outboxVars, session, listed, todo, xfer, failed, marker,
                 nextPurge, faults>>

(* Mutation: a batch whose chunks are all staged is taken for durable. *)
FinalizeUnknown_Acks(w) ==
  /\ pc[w] = "finalize"
  /\ \E h \in todo[w] : InProcess(w, h) /\ ~Finalized(h.id)
  /\ Goto(w, "ack")
  /\ UNCHANGED <<outboxVars, repoVars, session, listed, todo, xfer, failed,
                 marker, nextPurge, faults>>

(* ... or not final yet: go on to lock the staging row ... *)
FinalizeUnknown(w) ==
  /\ pc[w] = "finalize"
  /\ \E h \in todo[w] : InProcess(w, h) /\ ~Finalized(h.id)
  /\ Goto(w, "commit")
  /\ UNCHANGED <<outboxVars, repoVars, session, listed, todo, xfer, failed,
                 marker, nextPurge, faults>>

(* ... the rest of it: the batch becomes public, or turns out to have been *)
(* finalized in between.                                                   *)
FinalizeCommit(w) ==
  /\ pc[w] = "commit"
  /\ \E h \in todo[w] :
       /\ InProcess(w, h)
       /\ ~FinalizeRaises(h.id)
       /\ FinalizeNew(h.id) \/ FinalizeAgain(h.id)
  /\ Goto(w, "ack")
  /\ UNCHANGED <<outboxVars, session, listed, todo, xfer, failed, marker,
                 nextPurge, faults>>

(* acknowledge_batch; whether or not a row was deleted. *)
Acknowledge(w) ==
  /\ pc[w] = "ack"
  /\ SourceAlive(w)
  /\ \E h \in todo[w] :
       /\ InProcess(w, h)
       /\ AckBatch(h.id)
       /\ NextHeader(w, h)
  /\ UNCHANGED <<repoVars, session, listed, failed, marker, nextPurge, faults>>

(* Mutations: the cycle forgets that the batch failed; the failure ends    *)
(* the cycle and later headers get no chance.                              *)
BatchFailed_Forgotten(w) ==
  /\ \E h \in todo[w] : InProcess(w, h) /\ NextHeader(w, h)
  /\ UNCHANGED <<outboxVars, repoVars, session, listed, failed, marker,
                 nextPurge>>
BatchFailed_EndsCycle(w) ==
  /\ todo[w] # {}
  /\ todo' = [todo EXCEPT ![w] = {}]
  /\ listed' = [listed EXCEPT ![w] = {}]
  /\ xfer' = [xfer EXCEPT ![w] = NoTransfer]
  /\ Goto(w, IF w \in Worker THEN "report" ELSE "idle")
  /\ UNCHANGED <<outboxVars, repoVars, session, failed, marker, nextPurge>>

(* An exception in one batch: it stays unacknowledged and the cycle goes   *)
(* on.  An older daemon has one batch in hand and starts over.             *)
BatchFailed(w) ==
  /\ \E h \in todo[w] : InProcess(w, h) /\ NextHeader(w, h)
  /\ failed' = [failed EXCEPT ![w] = w \in Worker]
  /\ UNCHANGED <<outboxVars, repoVars, session, listed, marker, nextPurge>>

(* What the databases and the worker's own checks raise on. *)
Refused(w) ==
  \E h \in todo[w] :
    /\ InProcess(w, h)
    /\ \/ pc[w] \in {"batch", "fetch", "ack"} /\ ~SourceAlive(w)
       \/ pc[w] = "fetch" /\ ~Pending(h.id)
       \/ /\ pc[w] \in {"batch", "fetch"}
          /\ \E q \in outbox :
               /\ q.id = h.id
               /\ HeaderOf(q) # h \/ ChunkRaises(q.rows, xfer[w].off)
       \/ pc[w] = "ingest" /\ FinalConflict(h)
       \/ pc[w] = "stage" /\ \E c \in xfer[w].chunk : StageConflict(h, c)
       \/ pc[w] = "commit" /\ FinalizeRaises(h.id)
       \/ pc[w] = "legacy" /\ \E c \in xfer[w].chunk : LegacyRaises(h, c.rows)

RefuseBatch(w) == Refused(w) /\ BatchFailed(w) /\ UNCHANGED faults

(* A call of the batch fails before or after it took effect. *)
LoseCall(w) ==
  /\ pc[w] \in {"batch", "fetch", "ingest", "stage", "finalize", "commit", "ack",
                "legacy"}
  /\ Fault
  /\ BatchFailed(w)

(* The acknowledgement commits and its reply is lost. *)
LoseAckReply(w) ==
  /\ pc[w] = "ack"
  /\ SourceAlive(w)
  /\ Fault
  /\ \E h \in todo[w] :
       /\ InProcess(w, h)
       /\ AckBatch(h.id)
       /\ NextHeader(w, h)
  /\ failed' = [failed EXCEPT ![w] = w \in Worker]
  /\ UNCHANGED <<repoVars, session, listed, marker, nextPurge>>

(* All headers handled and none failed: both connections exit, the health  *)
(* marker is written, and retention runs when it is due.  header_records   *)
(* and first_failure are locals of run_cycle and end with it.              *)
EndCleanCycle(w) ==
  /\ pc[w] = "batch"
  /\ todo[w] = {}
  /\ ~failed[w]
  /\ marker' = [marker EXCEPT ![w] = TRUE]
  /\ listed' = [listed EXCEPT ![w] = {}]
  /\ Goto(w, IF now >= nextPurge[w] THEN "purge" ELSE "idle")
  /\ UNCHANGED <<outboxVars, repoVars, session, todo, xfer, failed, nextPurge,
                 faults>>

EndFailedCycle(w) ==
  /\ pc[w] = "batch"
  /\ todo[w] = {}
  /\ failed[w]
  /\ failed' = [failed EXCEPT ![w] = FALSE]
  /\ listed' = [listed EXCEPT ![w] = {}]
  /\ Goto(w, "report")
  /\ UNCHANGED <<outboxVars, repoVars, session, todo, xfer, marker, nextPurge,
                 faults>>

(* The cycle raises outside the per-batch handler: the connection the      *)
(* headers are listed over is dead ...                                     *)
RefuseCycle(w) ==
  /\ pc[w] = "list"
  /\ ~SourceAlive(w)
  /\ Goto(w, "report")
  /\ UNCHANGED <<outboxVars, repoVars, session, listed, todo, xfer, failed,
                 marker, nextPurge, faults>>

(* ... or connecting, listing or the retention call fails. *)
LoseCycle(w) ==
  /\ w \in Worker
  /\ pc[w] \in {"idle", "list", "purge"}
  /\ Fault
  /\ Goto(w, "report")
  /\ UNCHANGED <<outboxVars, repoVars, session, listed, todo, xfer, failed,
                 marker, nextPurge>>

(* record_error over a connection of its own, then back-off. *)
Report(w) ==
  /\ pc[w] = "report"
  /\ RecordError
  /\ Goto(w, "idle")
  /\ UNCHANGED <<outboxVars, session, listed, todo, xfer, failed, marker,
                 nextPurge, faults>>

(* A failure to report is only logged. *)
LoseReport(w) ==
  /\ pc[w] = "report"
  /\ Fault
  /\ Goto(w, "idle")
  /\ UNCHANGED <<outboxVars, repoVars, session, listed, todo, xfer, failed,
                 marker, nextPurge>>

Purge(w) ==
  /\ pc[w] = "purge"
  /\ PurgeHistory(now)
  /\ nextPurge' = [nextPurge EXCEPT ![w] = now + PurgeInterval]
  /\ Goto(w, "idle")
  /\ UNCHANGED <<outboxVars, session, listed, todo, xfer, failed, marker, faults>>

(* The process dies and is restarted: run() clears the marker and starts   *)
(* over; open transactions roll back.                                      *)
Crash(w) ==
  /\ Fault
  /\ pc[w] # "idle"
  /\ Goto(w, "idle")
  /\ listed' = [listed EXCEPT ![w] = {}]
  /\ todo' = [todo EXCEPT ![w] = {}]
  /\ xfer' = [xfer EXCEPT ![w] = NoTransfer]
  /\ failed' = [failed EXCEPT ![w] = FALSE]
  /\ marker' = [marker EXCEPT ![w] = FALSE]
  /\ nextPurge' = [nextPurge EXCEPT ![w] = 0]
  /\ UNCHANGED <<outboxVars, repoVars, session>>

-----------------------------------------------------------------------------
(* The older daemon: fetch_batches, ingest_join_batch, ack_batch. *)
LegacyFetch(w) ==
  /\ w \in LegacyWorker
  /\ pc[w] = "idle"
  /\ \E q \in outbox :
       /\ HeaderOf(q) \in ListHeaders(BatchLimit)
       /\ todo' = [todo EXCEPT ![w] = {HeaderOf(q)}]
       /\ xfer' = [xfer EXCEPT ![w].chunk =
                     {[no |-> 1, offset |-> 0, rows |-> q.rows, last |-> TRUE]}]
  /\ session' = [session EXCEPT ![w] = epoch]
  /\ Goto(w, "legacy")
  /\ UNCHANGED <<outboxVars, repoVars, listed, failed, marker, nextPurge,
                 faults>>

LegacyTransfer(w) ==
  /\ pc[w] = "legacy"
  /\ \E h \in todo[w] : \E c \in xfer[w].chunk :
       InProcess(w, h) /\ LegacyIngest(h, c.rows)
  /\ Goto(w, "ack")
  /\ UNCHANGED <<outboxVars, session, listed, todo, xfer, failed, marker,
                 nextPurge, faults>>

-----------------------------------------------------------------------------
SourceStep ==
  /\ (\E i \in Item : Record(i)) \/ Capture \/ Tick \/ Rebuild
  /\ UNCHANGED <<repoVars, workerVars, faults>>

(* What the daemon does of its own accord. *)
WorkerStep(w) ==
  \/ Connect(w) \/ List(w) \/ SkipAcknowledged(w) \/ FetchChunk(w)
  \/ IngestKnown(w) \/ IngestUnknown(w) \/ Stage(w)
  \/ FinalizeKnown(w) \/ FinalizeUnknown(w) \/ FinalizeCommit(w)
  \/ Acknowledge(w) \/ RefuseBatch(w) \/ RefuseCycle(w)
  \/ EndCleanCycle(w) \/ EndFailedCycle(w) \/ Report(w) \/ Purge(w)
  \/ LegacyFetch(w) \/ LegacyTransfer(w)

(* What happens to it. *)
WorkerFault(w) ==
  LoseCall(w) \/ LoseAckReply(w) \/ LoseCycle(w) \/ LoseReport(w) \/ Crash(w)

Next ==
  \/ SourceStep
  \/ \E w \in AnyWorker : WorkerStep(w) \/ WorkerFault(w)

Spec == Init /\ [][Next]_vars

(***************************************************************************)
(* Fairness: run() never stops trying, every call ends (connect_timeout,   *)
(* statement_timeout), and a capture that has begun ends.                  *)
(***************************************************************************)
Fairness ==
  /\ \A w \in Worker : WF_vars(WorkerStep(w))
  /\ WF_vars(SourceStep /\ CaptureReset)
  /\ WF_vars(SourceStep /\ CaptureCommit)

FairSpec == Spec /\ Fairness

-----------------------------------------------------------------------------
(* The batches the current source volume has committed. *)
CapturedNow == {c.batch : c \in {d \in captured : d.epoch = epoch}}

(***************************************************************************)
(* Nothing is lost on the way: a captured batch that is no longer in the   *)
(* source outbox has been finalized in the repository, whatever workers    *)
(* overlap, crash or lose replies (acknowledge_batch only after            *)
(* finalize_batch, snapshotter.py:623-628).                                *)
(***************************************************************************)
AckedWasDelivered ==
  \A q \in CapturedNow : q \in outbox \/ HeaderOf(q) \in delivered

(***************************************************************************)
(* Public evidence is the capture: the samples are those of the captured   *)
(* batches that are final, each raw row counted once, though workers stage *)
(* chunks of one batch in turns, repeat them, stage after another worker's *)
(* finalization and find staging purged under them.                        *)
(***************************************************************************)
PublishedExact ==
  LET final == {q \in {c.batch : c \in captured} : HeaderOf(q) \in finals}
  IN  /\ finals = {HeaderOf(q) : q \in final}
      /\ samples = Deserved(final)

(***************************************************************************)
(* A cycle that ends clean, and so refreshes the health marker, has seen   *)
(* every header it listed made durable, the skipped ones included          *)
(* (run_cycle's comment at snapshotter.py:665).                            *)
(***************************************************************************)
CleanCycleDelivered ==
  \A w \in Worker : ~failed[w] => listed[w] \ todo[w] \subseteq delivered

-----------------------------------------------------------------------------
(***************************************************************************)
(* The inductive strengthening of AckedWasDelivered and                    *)
(* CleanCycleDelivered for a source that is not rebuilt.                   *)
(***************************************************************************)
KnownHeaders == {HeaderOf(c.batch) : c \in captured}

(* A batch id names one capture: the identity sequence never goes back. *)
IdsUnique ==
  /\ \A c \in captured : c.epoch = epoch /\ c.batch.id < nextBatch
  /\ \A c, d \in captured : c.batch.id = d.batch.id => c = d
  /\ \A q \in capturing :
       /\ q.id < nextBatch
       /\ \A p \in capturing : p = q
       /\ \A c \in captured : c.batch.id # q.id

(* Whatever a table or a worker says of a batch is what was captured. *)
HeadersKnown ==
  /\ outbox \subseteq {c.batch : c \in captured}
  /\ staging \subseteq KnownHeaders
  /\ finals \subseteq delivered
  /\ delivered \subseteq KnownHeaders
  /\ \A w \in AnyWorker : todo[w] \subseteq KnownHeaders

(* A worker about to acknowledge has proof of durability. *)
AckProven ==
  \A w \in AnyWorker :
    pc[w] = "ack" => \A h \in todo[w] : InProcess(w, h) => h \in delivered

(***************************************************************************)
(* Together: what a worker holds, what is staged and what is public all    *)
(* name captures, each by its own id, and acknowledgement follows          *)
(* finalization (the primary keys of outbox_batches, join_batch_staging    *)
(* and join_snapshot_batches, and the order of calls in run_cycle).        *)
(***************************************************************************)
TransportInv ==
  /\ TypeOK
  /\ IdsUnique
  /\ HeadersKnown
  /\ AckProven
  /\ AckedWasDelivered
  /\ CleanCycleDelivered

-----------------------------------------------------------------------------
(* The pipeline as a queue with at-least-once hand-over. *)
Delivery ==
  INSTANCE JoinDelivery WITH
    Message <- [id : 1..MaxBatch, at : 0..MaxTime, count : 0..Cardinality(Item)],
    queue   <- {HeaderOf(q) : q \in outbox},
    arrived <- delivered

(***************************************************************************)
(* The transport implements at-least-once delivery: a header leaves the    *)
(* source queue only after it has arrived, and arrives while it is queued, *)
(* as long as the source volume is not recreated                           *)
(* (docs/ITERATIONS_2_5_TO_2_7.md:22-26).                                  *)
(***************************************************************************)
DeliverySpec == Delivery!Spec
=============================================================================

------------------------------ MODULE JoinIngest ------------------------------
(***************************************************************************)
(* The repository functions of the JOIN pipeline on their own, called in   *)
(* any order with any carving of the captured batches that passes the      *)
(* argument validation of ingest_join_chunk: what they guarantee does not  *)
(* rest on the daemon.                                                     *)
(***************************************************************************)
EXTENDS JoinRepository

CONSTANTS
  Sent,        \* the batches the source captures; ids may start over, but no
               \*   two captures with one id are of the same moment and size
  MaxChunkNo,  \* largest chunk number (1000000 in the code)
  MaxClock     \* bound: clock

ASSUME SentAssumption ==
  /\ Sent \subseteq Batch
  /\ \A p, q \in Sent : HeaderOf(p) = HeaderOf(q) => p = q
ASSUME ChunkNoAssumption == MaxChunkNo \in Nat

VARIABLE clock

ingestVars == <<repoVars, clock>>

(* The rows that follow the offset, as a chunk with that number.           *)
ChunkOf(q, n, o, k) ==
  [no |-> n, offset |-> o, rows |-> SubSeq(q.rows, o + 1, o + k),
   last |-> o + k = Len(q.rows)]

(* The argument validation of ingest_join_chunk.                           *)
ValidChunk(q, n, o, k) ==
  IF q.rows = <<>> THEN n = 1 /\ o = 0 /\ k = 0
                   ELSE k > 0 /\ o + k <= Len(q.rows)

Arrived == {q \in Sent : q.at <= clock}

(* A chunk of a batch that is final already changes nothing.               *)
Ingest ==
  /\ \E q \in Arrived, n \in 1..MaxChunkNo, k \in 0..MaxChunkRows :
     \E o \in 0..Len(q.rows) :
       /\ ValidChunk(q, n, o, k)
       /\ ~Finalized(q.id)
       /\ StageChunk(HeaderOf(q), ChunkOf(q, n, o, k))
  /\ UNCHANGED clock

Finalize ==
  /\ \E n \in {q.id : q \in Sent} : FinalizeAgain(n) \/ FinalizeNew(n)
  /\ UNCHANGED clock

Legacy ==
  /\ \E q \in Arrived : LegacyIngest(HeaderOf(q), q.rows)
  /\ UNCHANGED clock

ReportError == RecordError /\ UNCHANGED clock

PurgeOld == PurgeHistory(clock) /\ UNCHANGED clock

Advance ==
  /\ clock < MaxClock
  /\ clock' = clock + 1
  /\ UNCHANGED repoVars

IngestInit == RepoInit /\ clock = 1

IngestNext == Ingest \/ Finalize \/ Legacy \/ ReportError \/ PurgeOld \/ Advance

IngestSpec == IngestInit /\ [][IngestNext]_ingestVars

(***************************************************************************)
(* Public evidence is exactly the capture: the samples of a finalized      *)
(* batch sum every raw row of it once and nothing else, however the batch  *)
(* was carved, repeated, reordered or mixed with its namesake, and nothing *)
(* of an unfinished batch is public (docs/ARCHITECTURE.md:101).            *)
(***************************************************************************)
SamplesExact == samples = Deserved({q \in Sent : HeaderOf(q) \in finals})

(***************************************************************************)
(* The candidate and evidence tables agree although batches are finalized  *)
(* out of order and purged: evidence belongs to a finalized batch of that  *)
(* capture time, and last_supported_at is the newest evidence.             *)
(***************************************************************************)
CandidatesSupported ==
  /\ \A e \in evidence : \E f \in finals : f.id = e.id /\ f.at = e.at
  /\ \A x \in candidates :
       LET times == {e.at : e \in {y \in evidence : y.cand = x.cand}}
       IN  times # {} /\ x.last = Max(times)

(***************************************************************************)
(* The status row describes one delivered batch: last_row_count is the row *)
(* count of last_batch_id even when an older batch is finalized later.     *)
(***************************************************************************)
StatusDescribesNewest ==
  status.lastBatch # 0 =>
    \E h \in delivered : h.id = status.lastBatch /\ h.count = status.lastRows
=============================================================================

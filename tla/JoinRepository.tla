---------------------------- MODULE JoinRepository ----------------------------
(***************************************************************************)
(* The repository side of the JOIN pipeline for one source: chunk staging, *)
(* finalization into the public evidence tables, candidate refresh, source *)
(* status and retention (sql/012, sql/013 and sql/001).                    *)
(*                                                                         *)
(* Tables are sets of records; primary keys and unique indexes are guards. *)
(* A SQL function that raises changes nothing, so only the successful      *)
(* outcomes are actions and the conditions under which a function raises   *)
(* are predicates of their own, for the callers to react to.               *)
(***************************************************************************)
EXTENDS JoinBatch, SequencesExt

CONSTANTS
  Key,          \* natural keys of join_predicate_samples
  KeyOf,        \* KeyOf[i]: the natural key of raw row i
  Candidate,    \* possible two-column index candidates
  PairOf,       \* PairOf[c]: the JOIN key and the filter key that support c
  MaxCounter,   \* largest aggregated counter (bigint)
  MaxLegacyRows,\* rows that ingest_join_batch takes at most
  Retention     \* JOIN_RETENTION_DAYS, in clock ticks

ASSUME KeyAssumption == KeyOf \in [Item -> Key]
ASSUME PairAssumption == PairOf \in [Candidate -> [join : Key, filter : Key]]
ASSUME CounterAssumption == MaxCounter \in Nat
ASSUME RetentionAssumption == Retention \in Nat /\ MaxLegacyRows \in Nat

VARIABLES
  staging,     \* join_batch_staging: headers of batches in transfer
  receipts,    \* join_chunk_receipts with their join_predicate_staging rows
  finals,      \* join_snapshot_batches: headers of finalized batches
  samples,     \* join_predicate_samples: one summed counter per natural key
  candidates,  \* advisor.index_candidates
  evidence,    \* advisor.index_candidate_evidence
  status,      \* join_source_status of this source
  delivered    \* history: every header whose finalization committed

repoVars == <<staging, receipts, finals, samples, candidates, evidence, status,
              delivered>>

Receipt == [id : Nat, no : Nat, offset : Nat, rows : Seq(Item), last : BOOLEAN]

RepoTypeOK ==
  /\ staging \in SUBSET Header
  /\ receipts \in SUBSET Receipt /\ IsFiniteSet(receipts)
  /\ finals \in SUBSET Header
  /\ samples \in SUBSET [id : Nat, key : Key, n : Nat]
  /\ candidates \in SUBSET [cand : Candidate, first : Nat, last : Nat]
  /\ evidence \in SUBSET [cand : Candidate, id : Nat, at : Nat]
  /\ status \in [state : {"NONE", "HEALTHY", "ERROR"}, lastBatch : Nat,
                 lastAt : Nat, lastRows : Nat]
  /\ delivered \in SUBSET Header

(* No status row exists until the first ingest or error; 0 stands for NULL. *)
RepoInit ==
  /\ staging = {}
  /\ receipts = {}
  /\ finals = {}
  /\ samples = {}
  /\ candidates = {}
  /\ evidence = {}
  /\ status = [state |-> "NONE", lastBatch |-> 0, lastAt |-> 0, lastRows |-> 0]
  /\ delivered = {}

-----------------------------------------------------------------------------
(* ingest_join_chunk *)

Finalized(b) == \E f \in finals : f.id = b

(* A batch id that is already final with another captured_at or row count. *)
FinalConflict(h) == \E f \in finals : f.id = h.id /\ f # h

ReceiptOf(h, c) == [id |-> h.id, no |-> c.no, offset |-> c.offset,
                    rows |-> c.rows, last |-> c.last]

(* Another header is staged, the receipt of this chunk number differs, or  *)
(* a unique index on the offset or on the last chunk is hit.               *)
StageConflict(h, c) ==
  \/ \E s \in staging : s.id = h.id /\ s # h
  \/ \E r \in receipts :
        /\ r.id = h.id
        /\ r # ReceiptOf(h, c)
        /\ r.no = c.no \/ r.offset = c.offset \/ (r.last /\ c.last)

(* The staging insert; a receipt that is already there is left alone. *)
StageChunk(h, c) ==
  /\ ~StageConflict(h, c)
  /\ staging' = staging \cup {h}
  /\ receipts' = receipts \cup {ReceiptOf(h, c)}
  /\ UNCHANGED <<finals, samples, candidates, evidence, status, delivered>>

-----------------------------------------------------------------------------
(* finalize_join_batch *)

ReceiptsOf(b) == {r \in receipts : r.id = b}

(* The completeness check over the receipts in chunk_no order. *)
Contiguous(R) ==
  /\ {r.no : r \in R} = 1..Cardinality(R)
  /\ \A r \in R :
       \/ r.no = 1 /\ r.offset = 0
       \/ \E p \in R : p.no = r.no - 1 /\ r.offset = p.offset + Len(p.rows)

EndsAt(R, count) ==
  \E r \in R : /\ r.last
               /\ r.offset + Len(r.rows) = count
               /\ \A p \in R : p.no <= r.no /\ (p.last => p = r)

(* Mutation: gaps and overlaps between chunks are not looked for. *)
Complete_AnyRanges(R, count) ==
  /\ R # {}
  /\ MapThenSumSet(LAMBDA r : Len(r.rows), R) = count
  /\ EndsAt(R, count)

Complete(R, count) ==
  /\ R # {}
  /\ MapThenSumSet(LAMBDA r : Len(r.rows), R) = count
  /\ Contiguous(R)
  /\ EndsAt(R, count)

(* One summed counter per natural key; every raw row counts once.  Raw     *)
(* rows are identified by their chunk number and their place in the chunk. *)
StagedRows(R) == UNION {{<<r.no, i, r.rows[i]>> : i \in DOMAIN r.rows} : r \in R}

(* Mutation: one of several rows with the same natural key is kept. *)
Aggregated_KeepOne(b, raw) ==
  {[id |-> b, key |-> k, n |-> 1] : k \in {KeyOf[t[3]] : t \in raw}}

Aggregated(b, raw) ==
  {[id |-> b, key |-> k, n |-> Cardinality({t \in raw : KeyOf[t[3]] = k})] :
     k \in {KeyOf[t[3]] : t \in raw}}

Overflows(sums) == \E s \in sums : s.n > MaxCounter

Supported(sums) ==
  {c \in Candidate : {PairOf[c].join, PairOf[c].filter} \subseteq {s.key : s \in sums}}

(* Mutation: the newest finalization wins, however old its capture is. *)
RefreshCandidates_Overwrite(h, sums) ==
  LET known == {c.cand : c \in candidates}
  IN  /\ candidates' =
           {IF c.cand \in Supported(sums) THEN [c EXCEPT !.last = h.at] ELSE c :
              c \in candidates}
           \cup {[cand |-> c, first |-> h.at, last |-> h.at] :
                   c \in Supported(sums) \ known}
      /\ evidence' = evidence \cup
           {[cand |-> c, id |-> h.id, at |-> h.at] : c \in Supported(sums)}

(* refresh_candidates: upsert with GREATEST, evidence ON CONFLICT DO       *)
(* NOTHING; first_supported_at keeps the value of the first insert.        *)
RefreshCandidates(h, sums) ==
  LET known == {c.cand : c \in candidates}
      unseen == {c \in Supported(sums) :
                   ~\E e \in evidence : e.cand = c /\ e.id = h.id}
  IN  /\ candidates' =
           {IF c.cand \in Supported(sums)
              THEN [c EXCEPT !.last = Max({@, h.at})] ELSE c : c \in candidates}
           \cup {[cand |-> c, first |-> h.at, last |-> h.at] :
                   c \in Supported(sums) \ known}
      /\ evidence' = evidence \cup
           {[cand |-> c, id |-> h.id, at |-> h.at] : c \in unseen}

(* Mutation: the row count of whatever batch came last (sql/001's version). *)
MarkHealthy_LastComer(h) ==
  status' = [state     |-> "HEALTHY",
             lastBatch |-> Max({status.lastBatch, h.id}),
             lastAt    |-> Max({status.lastAt, h.at}),
             lastRows  |-> h.count]

MarkHealthy(h) ==
  status' = [state     |-> "HEALTHY",
             lastBatch |-> Max({status.lastBatch, h.id}),
             lastAt    |-> Max({status.lastAt, h.at}),
             lastRows  |-> IF h.id >= status.lastBatch THEN h.count
                                                       ELSE status.lastRows]

DropStaging(b) ==
  /\ staging' = {s \in staging : s.id # b}
  /\ receipts' = {r \in receipts : r.id # b}

(* Why finalize_join_batch raises on a batch that is not final yet. *)
FinalizeRaises(b) ==
  \/ ~\E s \in staging : s.id = b
  \/ \E s \in staging :
       /\ s.id = b
       /\ \/ ~Complete(ReceiptsOf(b), s.count)
          \/ FinalConflict(s)
          \/ ~Finalized(b) /\ Overflows(Aggregated(b, StagedRows(ReceiptsOf(b))))

(* Already final: only the leftover staging goes. *)
FinalizeAgain(b) ==
  /\ Finalized(b)
  /\ DropStaging(b)
  /\ UNCHANGED <<finals, samples, candidates, evidence, status, delivered>>

(* A complete, staged batch becomes public in one commit. *)
FinalizeNew(b) ==
  /\ ~Finalized(b)
  /\ ~FinalizeRaises(b)
  /\ \E h \in staging :
       LET sums == Aggregated(b, StagedRows(ReceiptsOf(b)))
       IN  /\ h.id = b
           /\ finals' = finals \cup {h}
           /\ samples' = samples \cup sums
           /\ RefreshCandidates(h, sums)
           /\ MarkHealthy(h)
           /\ delivered' = delivered \cup {h}
  /\ DropStaging(b)

-----------------------------------------------------------------------------
(* ingest_join_batch: the rolling-upgrade entry point takes a whole batch. *)
LegacyRows(rows) == {<<1, i, rows[i]>> : i \in DOMAIN rows}

LegacyRaises(h, rows) ==
  \/ Len(rows) > MaxLegacyRows
  \/ FinalConflict(h)
  \/ ~Finalized(h.id) /\ Overflows(Aggregated(h.id, LegacyRows(rows)))

LegacyIngest(h, rows) ==
  /\ ~LegacyRaises(h, rows)
  /\ IF Finalized(h.id)
     THEN UNCHANGED <<finals, samples, candidates, evidence, status, delivered>>
     ELSE LET sums == Aggregated(h.id, LegacyRows(rows))
          IN  /\ finals' = finals \cup {h}
              /\ samples' = samples \cup sums
              /\ RefreshCandidates(h, sums)
              /\ MarkHealthy(h)
              /\ delivered' = delivered \cup {h}
  /\ UNCHANGED <<staging, receipts>>

-----------------------------------------------------------------------------
(* record_join_error *)
RecordError ==
  /\ status' = [status EXCEPT !.state = "ERROR"]
  /\ UNCHANGED <<staging, receipts, finals, samples, candidates, evidence,
                 delivered>>

(* purge_join_source_history at time t, with the cascades of the keys. *)
Expired(at, t) == at + Retention < t

(* Mutations: the key from samples to their batch has no cascade; evidence *)
(* is purged, the candidates it supported are not.                         *)
PurgeHistory_KeepSamples(t) ==
  /\ staging' = {s \in staging : ~Expired(s.at, t)}
  /\ receipts' = {r \in receipts : \E s \in staging' : s.id = r.id}
  /\ finals' = {f \in finals : ~Expired(f.at, t)}
  /\ UNCHANGED <<samples, candidates, evidence, status, delivered>>
PurgeHistory_KeepCandidates(t) ==
  /\ staging' = {s \in staging : ~Expired(s.at, t)}
  /\ receipts' = {r \in receipts : \E s \in staging' : s.id = r.id}
  /\ finals' = {f \in finals : ~Expired(f.at, t)}
  /\ samples' = {s \in samples : \E f \in finals' : f.id = s.id}
  /\ evidence' = {e \in evidence : ~Expired(e.at, t)}
  /\ UNCHANGED <<candidates, status, delivered>>

PurgeHistory(t) ==
  /\ staging' = {s \in staging : ~Expired(s.at, t)}
  /\ receipts' = {r \in receipts : \E s \in staging' : s.id = r.id}
  /\ finals' = {f \in finals : ~Expired(f.at, t)}
  /\ samples' = {s \in samples : \E f \in finals' : f.id = s.id}
  /\ candidates' = {c \in candidates : ~Expired(c.last, t)}
  /\ evidence' = {e \in evidence : /\ ~Expired(e.at, t)
                                   /\ \E c \in candidates' : c.cand = e.cand}
  /\ UNCHANGED <<status, delivered>>
-----------------------------------------------------------------------------
(* Reference: the samples the batches of Q deserve, straight from the rows *)
(* they captured.                                                          *)
Deserved(Q) ==
  UNION {{[id |-> q.id, key |-> k,
           n |-> Cardinality({i \in DOMAIN q.rows : KeyOf[q.rows[i]] = k})] :
             k \in {KeyOf[r] : r \in ToSet(q.rows)}} : q \in Q}
=============================================================================

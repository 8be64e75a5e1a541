-------------------------- MODULE JoinRepositoryProofs --------------------------
(***************************************************************************)
(* Facts about the carving of a batch into chunks, and what the            *)
(* repository's functions do to its tables, for all values of the          *)
(* constants: every one of them keeps the tables well typed, and keeps     *)
(* what is staged and published true to a set of captures.  Called in any  *)
(* order, they publish exactly what was captured.                          *)
(***************************************************************************)
EXTENDS JoinIngest, FiniteSetTheorems, SequenceTheorems,
        WellFoundedInduction, TLAPS

(* A nonempty set of naturals below a bound has a largest element, and Max *)
(* is that element.                                                        *)
LEMMA MaxBounded ==
  ASSUME NEW n \in Nat, NEW S \in SUBSET (0..n), S # {}
  PROVE  Max(S) \in S /\ \A y \in S : y <= Max(S)
<1> DEFINE T == {m \in Nat : \A y \in S : y <= m}
<1>1. T \subseteq Nat /\ T # {}
  <2>1. n \in T  OBVIOUS
  <2> QED BY <2>1
<1>2. \E m \in T : \A k \in T : ~(<<k, m>> \in OpToRel(<, Nat))
  <2> HIDE DEF T
  <2> QED BY <1>1, NatLessThanWellFounded, WFMin
<1>3. PICK m \in T : \A k \in T : ~(k < m)
  BY <1>2 DEF OpToRel
<1>4. m \in S
  <2>1. SUFFICES ASSUME m \notin S PROVE FALSE  OBVIOUS
  <2>2. PICK y \in S : y <= m  OBVIOUS
  <2>3. \A z \in S : z \in Nat /\ z <= m - 1  BY <2>1
  <2>4. m - 1 \in T  BY <2>2, <2>3
  <2> QED BY <2>4, <1>3
<1> QED BY <1>4 DEF Max

(* The row limit of a chunk never passes the rows that are left. *)
LEMMA RowLimit ==
  ASSUME NEW rows \in Seq(Item), NEW offset \in Nat, offset < Len(rows)
  PROVE  LET limit == Min({MaxChunkRows, Len(rows) - offset})
         IN  limit \in Nat /\ limit <= Len(rows) - offset /\ limit <= MaxChunkRows
<1>1. MaxChunkRows \in Nat  BY ChunkRowsAssumption
<1>2. Len(rows) - offset \in Nat  BY LenProperties
<1> DEFINE a == MaxChunkRows
           b == Len(rows) - offset
<1>3. \E x \in {a, b} : \A y \in {a, b} : x <= y  BY <1>1, <1>2
<1>4. Min({a, b}) \in {a, b} /\ \A y \in {a, b} : Min({a, b}) <= y
  <2> HIDE DEF a, b
  <2> QED BY <1>3 DEF Min
<1> QED BY <1>1, <1>2, <1>4

(* When fetch_batch_chunk does not raise it finds a size: no rows for an   *)
(* empty batch, else between one row and all that are left.                *)
LEMMA ChunkSizeBounds ==
  ASSUME NEW rows \in Seq(Item), NEW offset \in Nat, ~ChunkRaises(rows, offset)
  PROVE  /\ ChunkSize(rows, offset) \in Nat
         /\ offset + ChunkSize(rows, offset) <= Len(rows)
         /\ ChunkSize(rows, offset) <= MaxChunkRows
         /\ rows # <<>> => ChunkSize(rows, offset) > 0
<1>1. CASE rows = <<>>
  BY <1>1, ChunkRowsAssumption DEF ChunkRaises, ChunkSize
<1>2. CASE rows # <<>>
  <2> DEFINE S == FittingSizes(rows, offset)
             limit == Min({MaxChunkRows, Len(rows) - offset})
  <2>1. offset < Len(rows) /\ S # {}
    BY <1>2, LenProperties DEF ChunkRaises
  <2>2. limit \in Nat /\ limit <= Len(rows) - offset /\ limit <= MaxChunkRows
    BY <2>1, RowLimit
  <2>3. S \subseteq 1..limit  BY DEF FittingSizes, Halvings
  <2>4. Max(S) \in S
    <3> HIDE DEF S, limit
    <3>1. S \in SUBSET (0..limit)  BY <2>2, <2>3
    <3> QED BY <2>1, <2>2, <3>1, MaxBounded
  <2>5. ChunkSize(rows, offset) \in 1..limit
    BY <1>2, <2>3, <2>4 DEF ChunkSize
  <2> HIDE DEF limit
  <2> QED BY <2>2, <2>5, LenProperties, ChunkRowsAssumption
<1> QED BY <1>1, <1>2

(***************************************************************************)
(* Every chunk that fetch_batch_chunk returns is a well-formed piece of    *)
(* the batch: it holds the rows that follow its offset, it makes progress  *)
(* unless the batch is empty, and it is last exactly when it reaches the   *)
(* end (sql/003:353-492).                                                  *)
(***************************************************************************)
THEOREM ChunkIsPiece ==
  ASSUME NEW rows \in Seq(Item), NEW no \in Nat, NEW offset \in Nat,
         ~ChunkRaises(rows, offset)
  PROVE  LET c == ChunkAt(rows, no, offset)
         IN  /\ c \in Chunk
             /\ c.no = no /\ c.offset = offset
             /\ Len(c.rows) <= MaxChunkRows
             /\ offset + Len(c.rows) <= Len(rows)
             /\ \A i \in 1..Len(c.rows) : c.rows[i] = rows[offset + i]
             /\ rows # <<>> => Len(c.rows) > 0
             /\ c.last <=> offset + Len(c.rows) = Len(rows)
<1> DEFINE k == ChunkSize(rows, offset)
           c == ChunkAt(rows, no, offset)
<1>1. /\ k \in Nat
      /\ offset + k <= Len(rows)
      /\ k <= MaxChunkRows
      /\ rows # <<>> => k > 0
  BY ChunkSizeBounds
<1>2. c = [no |-> no, offset |-> offset,
           rows |-> SubSeq(rows, offset + 1, offset + k),
           last |-> offset + k = Len(rows)]
  BY DEF ChunkAt
<1> HIDE DEF k, c
<1>3. \A i \in (offset + 1)..(offset + k) : rows[i] \in Item
  BY <1>1, ElementOfSeq, LenProperties
<1>4. /\ SubSeq(rows, offset + 1, offset + k) \in Seq(Item)
      /\ Len(SubSeq(rows, offset + 1, offset + k)) = k
      /\ \A i \in 1..k :
           SubSeq(rows, offset + 1, offset + k)[i] = rows[offset + i]
  <2> DEFINE m == offset + 1
             n == offset + k
  <2>1. m \in Int /\ n \in Int /\ \A i \in m..n : rows[i] \in Item
    BY <1>1, <1>3
  <2>2. /\ SubSeq(rows, m, n) \in Seq(Item)
        /\ Len(SubSeq(rows, m, n)) = IF m <= n THEN n - m + 1 ELSE 0
        /\ \A i \in 1..(n - m + 1) : SubSeq(rows, m, n)[i] = rows[m + i - 1]
    <3> HIDE DEF m, n
    <3> QED BY <2>1, SubSeqProperties
  <2>3. n - m + 1 = k /\ (IF m <= n THEN n - m + 1 ELSE 0) = k
    BY <1>1
  <2>4. \A i \in 1..k : m + i - 1 = offset + i
    BY <1>1
  <2> QED BY <2>2, <2>3, <2>4
<1>5. c \in Chunk  BY <1>1, <1>2, <1>4 DEF Chunk
<1>6. /\ Len(c.rows) = k
      /\ \A i \in 1..k : c.rows[i] = rows[offset + i]
      /\ c.last <=> offset + k = Len(rows)
      /\ c.no = no /\ c.offset = offset
  BY <1>2, <1>4
<1> QED BY <1>1, <1>5, <1>6 DEF c

-----------------------------------------------------------------------------
(* The tables of the repository. *)

(* GREATEST of two naturals is a natural.                                  *)
LEMMA MaxOfTwo ==
  ASSUME NEW x \in Nat, NEW y \in Nat
  PROVE  Max({x, y}) \in Nat
<1>1. \E m \in {x, y} : \A k \in {x, y} : m >= k
  OBVIOUS
<1>2. Max({x, y}) \in {x, y}
  BY <1>1 DEF Max
<1> QED BY <1>2

(* The raw rows of finitely many sequences of items.                       *)
LEMMA NumberedRowsFinite ==
  ASSUME NEW no, NEW rows \in Seq(Item)
  PROVE  IsFiniteSet({<<no, i, rows[i]>> : i \in DOMAIN rows})
<1> DEFINE D == DOMAIN rows
           T == {<<no, i, rows[i]>> : i \in D}
           f == [i \in D |-> <<no, i, rows[i]>>]
<1>1. IsFiniteSet(D)
  <2>1. D = 1..Len(rows) /\ Len(rows) \in Nat
    BY LenProperties
  <2> QED BY <2>1, FS_Interval
<1>2. f \in Surjection(D, T)
  BY DEF Surjection
<1> HIDE DEF D, T, f
<1>3. IsFiniteSet(T)
  BY <1>1, <1>2, FS_Surjection
<1> QED BY <1>3 DEF T, D

(* The staged rows of a batch are finitely many, each with its item.       *)
LEMMA StagedRowsFinite ==
  ASSUME RepoTypeOK, NEW b
  PROVE  /\ IsFiniteSet(StagedRows(ReceiptsOf(b)))
         /\ \A t \in StagedRows(ReceiptsOf(b)) : t[3] \in Item
<1> DEFINE R == ReceiptsOf(b)
           Rows(r) == {<<r.no, i, r.rows[i]>> : i \in DOMAIN r.rows}
           f == [r \in R |-> Rows(r)]
           S == {Rows(r) : r \in R}
<1>1. R \subseteq receipts /\ R \subseteq Receipt
  BY DEF ReceiptsOf, RepoTypeOK
<1>2. IsFiniteSet(R)
  BY <1>1, FS_Subset DEF RepoTypeOK
<1>3. IsFiniteSet(S)
  <2>1. f \in Surjection(R, S)
    BY DEF Surjection
  <2> HIDE DEF f, R, S
  <2> QED BY <1>2, <2>1, FS_Surjection
<1>4. \A T \in S : IsFiniteSet(T)
  <2> SUFFICES ASSUME NEW r \in R PROVE IsFiniteSet(Rows(r))
    OBVIOUS
  <2>1. r.rows \in Seq(Item)
    BY <1>1 DEF Receipt
  <2> QED BY <2>1, NumberedRowsFinite
<1>5. IsFiniteSet(UNION S)
  <2> HIDE DEF S
  <2> QED BY <1>3, <1>4, FS_UNION
<1>6. StagedRows(R) = UNION S
  BY DEF StagedRows
<1>7. ASSUME NEW t \in StagedRows(R) PROVE t[3] \in Item
  <2>0. PICK r \in R : t \in Rows(r)
    BY DEF StagedRows
  <2>1. PICK i \in DOMAIN r.rows : t = <<r.no, i, r.rows[i]>>
    BY <2>0
  <2>2. r.rows \in Seq(Item)
    BY <1>1 DEF Receipt
  <2>3. r.rows[i] \in Item
    BY <2>2, ElementOfSeq, LenProperties
  <2> QED BY <2>1, <2>3
<1> QED BY <1>5, <1>6, <1>7

(* The rows an older daemon sends are finitely many, each with its item.   *)
LEMMA LegacyRowsFinite ==
  ASSUME NEW rows \in Seq(Item)
  PROVE  /\ IsFiniteSet(LegacyRows(rows))
         /\ \A t \in LegacyRows(rows) : t[3] \in Item
<1>1. IsFiniteSet(LegacyRows(rows))
  BY NumberedRowsFinite DEF LegacyRows
<1>2. \A i \in DOMAIN rows : rows[i] \in Item
  BY ElementOfSeq, LenProperties
<1> QED BY <1>1, <1>2 DEF LegacyRows

(* The sums over finitely many raw rows are samples.                       *)
LEMMA AggregatedType ==
  ASSUME NEW b \in Nat, NEW raw, IsFiniteSet(raw), \A t \in raw : t[3] \in Item
  PROVE  Aggregated(b, raw) \subseteq [id : Nat, key : Key, n : Nat]
<1> DEFINE Keys == {KeyOf[t[3]] : t \in raw}
           Same(k) == {t \in raw : KeyOf[t[3]] = k}
           Sum(k) == Cardinality(Same(k))
<1>1. Aggregated(b, raw) = {[id |-> b, key |-> k, n |-> Sum(k)] : k \in Keys}
  BY DEF Aggregated
<1>2. Keys \subseteq Key
  <2> SUFFICES ASSUME NEW t \in raw PROVE KeyOf[t[3]] \in Key
    OBVIOUS
  <2>1. t[3] \in Item
    OBVIOUS
  <2> QED BY <2>1, KeyAssumption
<1>3. ASSUME NEW k PROVE Sum(k) \in Nat
  <2>1. Same(k) \in SUBSET raw
    OBVIOUS
  <2>2. IsFiniteSet(Same(k))
    <3> HIDE DEF Same
    <3> QED BY <2>1, FS_Subset
  <2> QED BY <2>2, FS_CardinalityType
<1> HIDE DEF Keys, Sum
<1> QED BY <1>1, <1>2, <1>3

(* The candidate upserts keep both candidate tables well typed.            *)
LEMMA RefreshCandidatesType ==
  ASSUME RepoTypeOK, NEW h \in Header, NEW sums, RefreshCandidates(h, sums)
  PROVE  /\ candidates' \subseteq [cand : Candidate, first : Nat, last : Nat]
         /\ evidence' \subseteq [cand : Candidate, id : Nat, at : Nat]
<1>1. h.at \in Nat /\ h.id \in Nat
  BY DEF Header
<1>2. Supported(sums) \subseteq Candidate
  BY DEF Supported
<1>3. ASSUME NEW c \in candidates
      PROVE  [c EXCEPT !.last = Max({@, h.at})] \in
               [cand : Candidate, first : Nat, last : Nat]
  <2>1. c \in [cand : Candidate, first : Nat, last : Nat]
    BY DEF RepoTypeOK
  <2>2. Max({c.last, h.at}) \in Nat
    BY <1>1, <2>1, MaxOfTwo
  <2> QED BY <2>1, <2>2
<1>4. candidates' \subseteq [cand : Candidate, first : Nat, last : Nat]
  <2> SUFFICES ASSUME NEW c \in candidates'
               PROVE  c \in [cand : Candidate, first : Nat, last : Nat]
    OBVIOUS
  <2>1. CASE \E d \in candidates :
               c = IF d.cand \in Supported(sums)
                   THEN [d EXCEPT !.last = Max({@, h.at})] ELSE d
    <3>1. PICK d \in candidates :
            c = IF d.cand \in Supported(sums)
                THEN [d EXCEPT !.last = Max({@, h.at})] ELSE d
      BY <2>1
    <3>2. d \in [cand : Candidate, first : Nat, last : Nat]
      BY DEF RepoTypeOK
    <3> QED BY <3>1, <3>2, <1>3
  <2>2. CASE \E d \in Supported(sums) : c = [cand |-> d, first |-> h.at, last |-> h.at]
    BY <2>2, <1>1, <1>2
  <2> QED BY <2>1, <2>2 DEF RefreshCandidates
<1>5. evidence' \subseteq [cand : Candidate, id : Nat, at : Nat]
  BY <1>1, <1>2 DEF RefreshCandidates, RepoTypeOK
<1> QED BY <1>4, <1>5

(* The status row keeps its columns.                                       *)
LEMMA MarkHealthyType ==
  ASSUME RepoTypeOK, NEW h \in Header, MarkHealthy(h)
  PROVE  status' \in [state : {"NONE", "HEALTHY", "ERROR"}, lastBatch : Nat,
                      lastAt : Nat, lastRows : Nat]
<1>1. h.at \in Nat /\ h.id \in Nat /\ h.count \in Nat
  BY DEF Header
<1>2. status.lastBatch \in Nat /\ status.lastAt \in Nat /\ status.lastRows \in Nat
  BY DEF RepoTypeOK
<1>3. Max({status.lastBatch, h.id}) \in Nat /\ Max({status.lastAt, h.at}) \in Nat
  BY <1>1, <1>2, MaxOfTwo
<1> QED BY <1>1, <1>2, <1>3 DEF MarkHealthy

(* Deleting staged rows.                                                   *)
LEMMA DropStagingType ==
  ASSUME RepoTypeOK, NEW b, DropStaging(b)
  PROVE  staging' \subseteq staging /\ receipts' \subseteq receipts
BY DEF DropStaging

(* A subset of the receipts is a table of receipts.                        *)
LEMMA FewerReceipts ==
  ASSUME RepoTypeOK, NEW R, R \subseteq receipts
  PROVE  R \in SUBSET Receipt /\ IsFiniteSet(R)
BY FS_Subset DEF RepoTypeOK

(* ingest_join_chunk keeps the tables well typed.                          *)
LEMMA StageChunkType ==
  ASSUME RepoTypeOK, NEW h \in Header, NEW c \in Chunk, StageChunk(h, c)
  PROVE  RepoTypeOK'
<1>1. ReceiptOf(h, c) \in Receipt
  BY DEF ReceiptOf, Receipt, Header, Chunk
<1>2. receipts' = receipts \cup {ReceiptOf(h, c)} /\ staging' = staging \cup {h}
  BY DEF StageChunk
<1>3. receipts' \in SUBSET Receipt /\ staging' \in SUBSET Header
  BY <1>1, <1>2 DEF RepoTypeOK
<1>4. IsFiniteSet(receipts')
  BY <1>2, FS_AddElement DEF RepoTypeOK
<1> QED BY <1>3, <1>4 DEF StageChunk, RepoTypeOK

(* The finalization of a batch that is final already.                      *)
LEMMA FinalizeAgainType ==
  ASSUME RepoTypeOK, NEW b \in Nat, FinalizeAgain(b)
  PROVE  RepoTypeOK'
<1>1. staging' \subseteq staging /\ receipts' \subseteq receipts
  BY DropStagingType DEF FinalizeAgain
<1>2. receipts' \in SUBSET Receipt /\ IsFiniteSet(receipts')
  BY <1>1, FewerReceipts
<1>3. staging' \in SUBSET Header
  BY <1>1 DEF RepoTypeOK
<1> QED BY <1>2, <1>3 DEF FinalizeAgain, RepoTypeOK

(* The publication of a batch, common to finalize_join_batch and           *)
(* ingest_join_batch.                                                      *)
LEMMA PublishType ==
  ASSUME RepoTypeOK, NEW h \in Header, NEW raw,
         IsFiniteSet(raw), \A t \in raw : t[3] \in Item,
         finals' = finals \cup {h},
         samples' = samples \cup Aggregated(h.id, raw),
         RefreshCandidates(h, Aggregated(h.id, raw)),
         MarkHealthy(h),
         delivered' = delivered \cup {h},
         staging' \subseteq staging, receipts' \subseteq receipts
  PROVE  RepoTypeOK'
<1>1. h.id \in Nat
  BY DEF Header
<1>2. samples' \in SUBSET [id : Nat, key : Key, n : Nat]
  BY <1>1, AggregatedType DEF RepoTypeOK
<1>3. /\ candidates' \in SUBSET [cand : Candidate, first : Nat, last : Nat]
      /\ evidence' \in SUBSET [cand : Candidate, id : Nat, at : Nat]
  BY RefreshCandidatesType
<1>4. status' \in [state : {"NONE", "HEALTHY", "ERROR"}, lastBatch : Nat,
                   lastAt : Nat, lastRows : Nat]
  BY MarkHealthyType
<1>5. receipts' \in SUBSET Receipt /\ IsFiniteSet(receipts')
  BY FewerReceipts
<1>6. finals' \in SUBSET Header /\ delivered' \in SUBSET Header
  BY DEF RepoTypeOK
<1>7. staging' \in SUBSET Header
  BY DEF RepoTypeOK
<1> QED BY <1>2, <1>3, <1>4, <1>5, <1>6, <1>7 DEF RepoTypeOK

(* The first finalization of a batch.                                      *)
LEMMA FinalizeNewType ==
  ASSUME RepoTypeOK, NEW b \in Nat, FinalizeNew(b)
  PROVE  RepoTypeOK'
<1> DEFINE raw == StagedRows(ReceiptsOf(b))
<1>1. PICK h \in staging :
        /\ h.id = b
        /\ finals' = finals \cup {h}
        /\ samples' = samples \cup Aggregated(b, raw)
        /\ RefreshCandidates(h, Aggregated(b, raw))
        /\ MarkHealthy(h)
        /\ delivered' = delivered \cup {h}
  BY DEF FinalizeNew
<1>2. h \in Header
  BY DEF RepoTypeOK
<1>3. IsFiniteSet(raw) /\ \A t \in raw : t[3] \in Item
  BY StagedRowsFinite
<1>4. staging' \subseteq staging /\ receipts' \subseteq receipts
  BY DropStagingType DEF FinalizeNew
<1> HIDE DEF raw
<1> QED BY <1>1, <1>2, <1>3, <1>4, PublishType

(* ingest_join_batch.                                                      *)
LEMMA LegacyIngestType ==
  ASSUME RepoTypeOK, NEW h \in Header, NEW rows \in Seq(Item), LegacyIngest(h, rows)
  PROVE  RepoTypeOK'
<1>1. CASE Finalized(h.id)
  BY <1>1 DEF LegacyIngest, RepoTypeOK
<1>2. CASE ~Finalized(h.id)
  <2>1. IsFiniteSet(LegacyRows(rows)) /\ \A t \in LegacyRows(rows) : t[3] \in Item
    BY LegacyRowsFinite
  <2>2. /\ finals' = finals \cup {h}
        /\ samples' = samples \cup Aggregated(h.id, LegacyRows(rows))
        /\ RefreshCandidates(h, Aggregated(h.id, LegacyRows(rows)))
        /\ MarkHealthy(h)
        /\ delivered' = delivered \cup {h}
        /\ staging' \subseteq staging /\ receipts' \subseteq receipts
    BY <1>2 DEF LegacyIngest
  <2> QED BY <2>1, <2>2, PublishType
<1> QED BY <1>1, <1>2

(* record_join_error.                                                      *)
LEMMA RecordErrorType ==
  ASSUME RepoTypeOK, RecordError
  PROVE  RepoTypeOK'
<1>1. status' \in [state : {"NONE", "HEALTHY", "ERROR"}, lastBatch : Nat,
                   lastAt : Nat, lastRows : Nat]
  BY DEF RecordError, RepoTypeOK
<1> QED BY <1>1 DEF RecordError, RepoTypeOK

(* purge_join_source_history.                                              *)
LEMMA PurgeHistoryType ==
  ASSUME RepoTypeOK, NEW t \in Nat, PurgeHistory(t)
  PROVE  RepoTypeOK'
<1>1. /\ staging' \subseteq staging /\ receipts' \subseteq receipts
      /\ finals' \subseteq finals /\ samples' \subseteq samples
      /\ candidates' \subseteq candidates /\ evidence' \subseteq evidence
  BY DEF PurgeHistory
<1>2. receipts' \in SUBSET Receipt /\ IsFiniteSet(receipts')
  BY <1>1, FewerReceipts
<1>3. status' = status /\ delivered' = delivered
  BY DEF PurgeHistory
<1> QED BY <1>1, <1>2, <1>3 DEF RepoTypeOK

(* The repository starts empty.                                            *)
LEMMA RepoInitType == RepoInit => RepoTypeOK
<1> SUFFICES ASSUME RepoInit PROVE RepoTypeOK
  OBVIOUS
<1>1. IsFiniteSet(receipts)
  BY FS_EmptySet DEF RepoInit
<1>2. status \in [state : {"NONE", "HEALTHY", "ERROR"}, lastBatch : Nat,
                  lastAt : Nat, lastRows : Nat]
  BY DEF RepoInit
<1>3. /\ staging = {} /\ receipts = {} /\ finals = {} /\ samples = {}
      /\ candidates = {} /\ evidence = {} /\ delivered = {}
  BY DEF RepoInit
<1> QED BY <1>1, <1>2, <1>3 DEF RepoTypeOK

-----------------------------------------------------------------------------
(* The receipts of a batch and the rows they hold. *)

(* A nonempty set of naturals has a least element.                         *)
LEMMA LeastNat ==
  ASSUME NEW T \in SUBSET Nat, T # {}
  PROVE  \E m \in T : \A k \in T : m <= k
<1>1. \E m \in T : \A k \in T : ~(<<k, m>> \in OpToRel(<, Nat))
  BY NatLessThanWellFounded, WFMin
<1>2. PICK m \in T : \A k \in T : ~(k < m)
  BY <1>1 DEF OpToRel
<1> QED BY <1>2

(* The receipt holds the rows that follow its offset in the batch ...      *)
Piece(r, rows) ==
  /\ r.offset + Len(r.rows) <= Len(rows)
  /\ \A i \in 1..Len(r.rows) : r.rows[i] = rows[r.offset + i]

(* ... and the receipts of a batch that passes the completeness check.     *)
Carving(R, rows) ==
  /\ R \subseteq Receipt /\ IsFiniteSet(R)
  /\ rows \in Seq(Item)
  /\ \A r \in R : Piece(r, rows)
  /\ \A r, p \in R : r.no = p.no => r = p
  /\ Contiguous(R) /\ EndsAt(R, Len(rows))

(* A receipt that is not the first has one just before it.                 *)
LEMMA Predecessor ==
  ASSUME NEW R, NEW rows, Carving(R, rows), NEW r \in R
  PROVE  /\ r.no \in Nat \ {0} /\ r.offset \in Nat
         /\ r.rows \in Seq(Item) /\ Len(r.rows) \in Nat
         /\ \/ r.no = 1 /\ r.offset = 0
            \/ \E p \in R : p.no = r.no - 1 /\ r.offset = p.offset + Len(p.rows)
<1>1. r \in Receipt
  BY DEF Carving
<1>2. r.no \in {d.no : d \in R} /\ Cardinality(R) \in Nat
  BY FS_CardinalityType DEF Carving
<1>3. r.no \in 1..Cardinality(R)
  BY <1>2 DEF Carving, Contiguous
<1>4. r.no \in Nat \ {0}
  BY <1>2, <1>3
<1>5. r.offset \in Nat /\ r.rows \in Seq(Item) /\ Len(r.rows) \in Nat
  BY <1>1, LenProperties DEF Receipt
<1>6. \/ r.no = 1 /\ r.offset = 0
      \/ \E p \in R : p.no = r.no - 1 /\ r.offset = p.offset + Len(p.rows)
  BY DEF Carving, Contiguous
<1> QED BY <1>4, <1>5, <1>6

(* Receipts do not overlap: a later one starts where an earlier one ends   *)
(* or after it.                                                            *)
LEMMA ChunksInOrder ==
  ASSUME NEW R, NEW rows, Carving(R, rows),
         NEW r \in R, NEW p \in R, r.no < p.no
  PROVE  r.offset + Len(r.rows) <= p.offset
<1> DEFINE End == r.offset + Len(r.rows)
           T == {m \in Nat : \E d \in R : d.no = m /\ r.no < m /\ ~(End <= d.offset)}
<1> SUFFICES ASSUME T # {} PROVE FALSE
  BY Predecessor
<1>1. PICK m \in T : \A k \in T : m <= k
  <2>1. T \in SUBSET Nat
    OBVIOUS
  <2> HIDE DEF T
  <2> QED BY <2>1, LeastNat
<1>2. PICK d \in R : d.no = m /\ r.no < m /\ ~(End <= d.offset)
  BY <1>1
<1>3. r.no \in Nat \ {0} /\ m \in Nat /\ End \in Nat
  BY <1>1, Predecessor
<1>4. PICK e \in R : e.no = d.no - 1 /\ d.offset = e.offset + Len(e.rows)
  BY <1>2, <1>3, Predecessor
<1>5. e.no \in Nat /\ e.offset \in Nat /\ Len(e.rows) \in Nat
  BY Predecessor
<1>6. CASE e.no = r.no
  <2>1. e = r
    BY <1>6 DEF Carving
  <2> QED BY <2>1, <1>2, <1>3, <1>4
<1>7. CASE e.no # r.no
  <2>1. r.no < e.no /\ e.no < m
    BY <1>2, <1>3, <1>4, <1>5, <1>7
  <2>2. e.no \notin T
    BY <2>1, <1>1, <1>3, <1>5
  <2>3. End <= e.offset
    BY <2>1, <2>2, <1>5
  <2> QED BY <2>3, <1>2, <1>3, <1>4, <1>5
<1> QED BY <1>6, <1>7

(* Receipts leave no gap: every place of the batch is in one of them.      *)
LEMMA PlaceCovered ==
  ASSUME NEW R, NEW rows, Carving(R, rows), NEW j \in 1..Len(rows)
  PROVE  \E r \in R : r.offset < j /\ j <= r.offset + Len(r.rows)
<1> DEFINE T == {m \in Nat : \E d \in R : d.no = m /\ j <= d.offset + Len(d.rows)}
<1>0. Len(rows) \in Nat
  BY LenProperties DEF Carving
<1>1. T # {}
  <2>1. PICK d \in R : d.offset + Len(d.rows) = Len(rows)
    BY DEF Carving, EndsAt
  <2>2. d.no \in T
    BY <2>1, <1>0, Predecessor
  <2> QED BY <2>2
<1>2. PICK m \in T : \A k \in T : m <= k
  <2>1. T \in SUBSET Nat
    OBVIOUS
  <2> HIDE DEF T
  <2> QED BY <2>1, <1>1, LeastNat
<1>3. PICK r \in R : r.no = m /\ j <= r.offset + Len(r.rows)
  BY <1>2
<1>4. CASE r.offset = 0
  BY <1>0, <1>3, <1>4
<1>5. ASSUME NEW p \in R, p.no = r.no - 1, r.offset = p.offset + Len(p.rows)
      PROVE  r.offset < j
  <2>1. /\ p.no \in Nat /\ p.offset \in Nat /\ Len(p.rows) \in Nat /\ r.no \in Nat
    BY Predecessor
  <2>2. p.no \notin T
    BY <1>2, <1>3, <1>5, <2>1
  <2>3. ~(j <= p.offset + Len(p.rows))
    BY <2>1, <2>2
  <2> QED BY <1>0, <1>5, <2>1, <2>3
<1> QED BY <1>3, <1>4, <1>5, Predecessor

(* What the rows of one batch deserve to be published as.                  *)
DeservedOf(b, rows) ==
  {[id |-> b, key |-> k, n |-> Cardinality({i \in DOMAIN rows : KeyOf[rows[i]] = k})] :
     k \in {KeyOf[r] : r \in ToSet(rows)}}

(* These samples carry the id of the batch.                                *)
LEMMA DeservedId ==
  ASSUME NEW b, NEW rows, NEW s \in DeservedOf(b, rows)
  PROVE  s.id = b
<1>1. PICK n : \E k : s = [id |-> b, key |-> k, n |-> n]
  BY DEF DeservedOf
<1> QED BY <1>1

(* Raw rows that are the rows of the batch, one for each place, sum up to  *)
(* what the batch deserves.                                                *)
LEMMA SumsByPlace ==
  ASSUME NEW b, NEW raw, IsFiniteSet(raw), NEW rows,
         NEW place \in Bijection(raw, DOMAIN rows),
         \A t \in raw : t[3] = rows[place[t]]
  PROVE  Aggregated(b, raw) = DeservedOf(b, rows)
<1> DEFINE Same(k) == {t \in raw : KeyOf[t[3]] = k}
           Places(k) == {i \in DOMAIN rows : KeyOf[rows[i]] = k}
<1>1. /\ place \in [raw -> DOMAIN rows]
      /\ \A s, t \in raw : place[s] = place[t] => s = t
      /\ \A i \in DOMAIN rows : \E t \in raw : place[t] = i
  BY DEF Bijection, Injection, Surjection, IsInjective
<1>2. ASSUME NEW k PROVE Cardinality(Same(k)) = Cardinality(Places(k))
  <2> DEFINE g == [t \in Same(k) |-> place[t]]
  <2>1. g \in [Same(k) -> Places(k)]
    BY <1>1
  <2>2. \A s, t \in Same(k) : g[s] = g[t] => s = t
    BY <1>1
  <2>3. \A i \in Places(k) : \E t \in Same(k) : g[t] = i
    BY <1>1
  <2>4. g \in Bijection(Same(k), Places(k))
    <3> HIDE DEF g, Same, Places
    <3> QED BY <2>1, <2>2, <2>3 DEF Bijection, Injection, Surjection, IsInjective
  <2>5. IsFiniteSet(Same(k))
    BY FS_Subset
  <2>6. ExistsBijection(Same(k), Places(k))
    <3> HIDE DEF g, Same, Places
    <3> QED BY <2>4 DEF ExistsBijection
  <2> HIDE DEF Same, Places
  <2> QED BY <2>5, <2>6, FS_Bijection
<1>3. {KeyOf[t[3]] : t \in raw} = {KeyOf[r] : r \in ToSet(rows)}
  <2>1. ASSUME NEW t \in raw PROVE KeyOf[t[3]] \in {KeyOf[r] : r \in ToSet(rows)}
    BY <1>1 DEF ToSet
  <2>2. ASSUME NEW i \in DOMAIN rows PROVE KeyOf[rows[i]] \in {KeyOf[t[3]] : t \in raw}
    <3>1. PICK t \in raw : place[t] = i
      BY <1>1
    <3> QED BY <3>1
  <2> QED BY <2>1, <2>2 DEF ToSet
<1>4. /\ Aggregated(b, raw) = {[id |-> b, key |-> k, n |-> Cardinality(Same(k))] :
                                 k \in {KeyOf[t[3]] : t \in raw}}
      /\ DeservedOf(b, rows) = {[id |-> b, key |-> k, n |-> Cardinality(Places(k))] :
                                  k \in {KeyOf[r] : r \in ToSet(rows)}}
  BY DEF Aggregated, DeservedOf
<1> HIDE DEF Same, Places
<1> QED BY <1>2, <1>3, <1>4

(* The receipts of a carving hold every row of the batch exactly once.     *)
LEMMA CarvingExact ==
  ASSUME NEW b, NEW R, NEW rows, Carving(R, rows), IsFiniteSet(StagedRows(R))
  PROVE  Aggregated(b, StagedRows(R)) = DeservedOf(b, rows)
<1> DEFINE raw == StagedRows(R)
           Of(t) == CHOOSE r \in R : r.no = t[1]
           place == [t \in raw |-> Of(t).offset + t[2]]
<1>1. ASSUME NEW t \in raw
      PROVE  /\ Of(t) \in R /\ t[1] = Of(t).no
             /\ t[2] \in 1..Len(Of(t).rows) /\ t[3] = Of(t).rows[t[2]]
             /\ t = <<t[1], t[2], t[3]>>
  <2>1. PICK r \in R : t \in {<<r.no, i, r.rows[i]>> : i \in DOMAIN r.rows}
    BY DEF StagedRows
  <2>2. PICK i \in DOMAIN r.rows : t = <<r.no, i, r.rows[i]>>
    BY <2>1
  <2>3. \A d \in R : d.no = r.no => d = r
    BY DEF Carving
  <2>4. Of(t) = r
    BY <2>2, <2>3
  <2>5. DOMAIN r.rows = 1..Len(r.rows)
    BY Predecessor, LenProperties
  <2> QED BY <2>2, <2>4, <2>5
<1> HIDE DEF Of
<1>2. DOMAIN rows = 1..Len(rows) /\ Len(rows) \in Nat
  BY LenProperties DEF Carving
<1>3. ASSUME NEW t \in raw
      PROVE  /\ t[2] \in Nat \ {0} /\ Of(t).offset \in Nat /\ Len(Of(t).rows) \in Nat
             /\ place[t] \in DOMAIN rows /\ t[3] = rows[place[t]]
  <2>1. Of(t) \in R
    BY <1>1
  <2>2. Of(t).offset \in Nat /\ Len(Of(t).rows) \in Nat
    BY <2>1, Predecessor
  <2>3. Piece(Of(t), rows)
    BY <2>1 DEF Carving
  <2>4. t[2] \in Nat \ {0} /\ t[2] <= Len(Of(t).rows)
    BY <1>1, <2>2
  <2>5. place[t] = Of(t).offset + t[2]
    OBVIOUS
  <2>6. place[t] \in 1..Len(rows)
    BY <1>2, <2>2, <2>3, <2>4, <2>5 DEF Piece
  <2>7. t[3] = rows[place[t]]
    BY <1>1, <2>3, <2>5 DEF Piece
  <2> QED BY <1>2, <2>2, <2>4, <2>6, <2>7
<1>4. ASSUME NEW s \in raw, NEW t \in raw, place[s] = place[t] PROVE s = t
  <2>1. /\ Of(s) \in R /\ Of(t) \in R
        /\ s[1] = Of(s).no /\ t[1] = Of(t).no
    BY <1>1
  <2>2. /\ Of(s).no \in Nat /\ Of(t).no \in Nat
        /\ s[2] \in 1..Len(Of(s).rows) /\ t[2] \in 1..Len(Of(t).rows)
    BY <1>1, <2>1, Predecessor
  <2>3. Of(s).offset + s[2] = Of(t).offset + t[2]
    BY <1>4
  <2>4. ~(Of(s).no < Of(t).no)
    <3> SUFFICES ASSUME Of(s).no < Of(t).no PROVE FALSE
      OBVIOUS
    <3>1. Of(s).offset + Len(Of(s).rows) <= Of(t).offset
      BY <2>1, ChunksInOrder
    <3> QED BY <3>1, <2>2, <2>3, <1>3
  <2>5. ~(Of(t).no < Of(s).no)
    <3> SUFFICES ASSUME Of(t).no < Of(s).no PROVE FALSE
      OBVIOUS
    <3>1. Of(t).offset + Len(Of(t).rows) <= Of(s).offset
      BY <2>1, ChunksInOrder
    <3> QED BY <3>1, <2>2, <2>3, <1>3
  <2>6. Of(s).no = Of(t).no
    BY <2>2, <2>4, <2>5
  <2>7. Of(s) = Of(t)
    BY <2>1, <2>6 DEF Carving
  <2>8. s[2] = t[2]
    BY <2>2, <2>3, <2>7, <1>3
  <2>9. s[1] = t[1] /\ s[3] = t[3]
    BY <1>1, <2>7, <2>8
  <2> QED BY <1>1, <2>8, <2>9
<1>5. ASSUME NEW j \in DOMAIN rows PROVE \E t \in raw : place[t] = j
  <2>1. PICK r \in R : r.offset < j /\ j <= r.offset + Len(r.rows)
    BY <1>2, PlaceCovered
  <2>2. r.offset \in Nat /\ Len(r.rows) \in Nat /\ DOMAIN r.rows = 1..Len(r.rows)
    BY Predecessor, LenProperties
  <2> DEFINE i == j - r.offset
             t == <<r.no, i, r.rows[i]>>
  <2>3. i \in DOMAIN r.rows /\ r.offset + i = j
    BY <1>2, <2>1, <2>2
  <2>4. t \in raw
    BY <2>3 DEF StagedRows
  <2>5. Of(t) = r
    BY <1>1, <2>4 DEF Carving
  <2>6. place[t] = Of(t).offset + t[2]
    BY <2>4
  <2>7. place[t] = j
    BY <2>3, <2>5, <2>6
  <2> QED BY <2>4, <2>7
<1>6. place \in Bijection(raw, DOMAIN rows)
  <2>1. place \in [raw -> DOMAIN rows]
    BY <1>3
  <2> HIDE DEF place, raw
  <2> QED BY <1>4, <1>5, <2>1 DEF Bijection, Injection, Surjection, IsInjective
<1>7. \A t \in raw : t[3] = rows[place[t]]
  BY <1>3
<1> HIDE DEF place, raw
<1>8. Aggregated(b, raw) = DeservedOf(b, rows)
  <2>1. IsFiniteSet(raw)
    BY DEF raw
  <2> QED BY <2>1, <1>6, <1>7, SumsByPlace
<1> QED BY <1>8 DEF raw

(* So does the whole batch an older daemon sends.                          *)
LEMMA LegacyExact ==
  ASSUME NEW b, NEW rows \in Seq(Item)
  PROVE  Aggregated(b, LegacyRows(rows)) = DeservedOf(b, rows)
<1> DEFINE raw == LegacyRows(rows)
           place == [t \in raw |-> t[2]]
<1>1. ASSUME NEW t \in raw
      PROVE  place[t] \in DOMAIN rows /\ t = <<1, place[t], rows[place[t]]>>
  <2>1. PICK i \in DOMAIN rows : t = <<1, i, rows[i]>>
    BY DEF LegacyRows
  <2> QED BY <2>1
<1>2. ASSUME NEW i \in DOMAIN rows PROVE \E t \in raw : place[t] = i
  <2>1. <<1, i, rows[i]>> \in raw
    BY DEF LegacyRows
  <2> QED BY <2>1
<1>3. place \in Bijection(raw, DOMAIN rows)
  <2>1. place \in [raw -> DOMAIN rows]
    BY <1>1
  <2> HIDE DEF place, raw
  <2> QED BY <1>1, <1>2, <2>1 DEF Bijection, Injection, Surjection, IsInjective
<1>4. \A t \in raw : t[3] = rows[place[t]]
  BY <1>1
<1>5. IsFiniteSet(raw)
  BY LegacyRowsFinite
<1> HIDE DEF place, raw
<1>6. Aggregated(b, raw) = DeservedOf(b, rows)
  BY <1>3, <1>4, <1>5, SumsByPlace
<1> QED BY <1>6 DEF raw

-----------------------------------------------------------------------------
(* What is staged and published of the captures Q.                         *)

(* Captures that the repository can tell apart by their headers.           *)
Distinguishable(Q) ==
  /\ Q \subseteq Batch
  /\ \A p, q \in Q : HeaderOf(p) = HeaderOf(q) => p = q

(* What is staged belongs to one capture: a batch id has one header, and   *)
(* every receipt is a piece of the batch with that header.                 *)
StagedFrom(Q) ==
  /\ \A s \in staging : \E q \in Q : s = HeaderOf(q)
  /\ \A s, t \in staging : s.id = t.id => s = t
  /\ \A r \in receipts : \E q \in Q :
       HeaderOf(q) \in staging /\ q.id = r.id /\ Piece(r, q.rows)
  /\ \A r, p \in receipts : r.id = p.id /\ r.no = p.no => r = p

(* A batch id is final once, and every final header is a capture's. *)
FinalFrom(Q) ==
  /\ \A f \in finals : \E q \in Q : f = HeaderOf(q)
  /\ \A f, g \in finals : f.id = g.id => f = g

(* The samples are those of the captures that are final. *)
ExactFrom(Q) == samples = Deserved({q \in Q : HeaderOf(q) \in finals})

PublishedFrom(Q) == StagedFrom(Q) /\ FinalFrom(Q) /\ ExactFrom(Q)

(* The header of a capture.                                                *)
LEMMA BatchHeader ==
  ASSUME NEW q \in Batch
  PROVE  /\ q.id \in Nat /\ q.at \in Nat /\ q.rows \in Seq(Item)
         /\ Len(q.rows) \in Nat /\ HeaderOf(q) \in Header
         /\ HeaderOf(q).id = q.id /\ HeaderOf(q).at = q.at
         /\ HeaderOf(q).count = Len(q.rows)
BY LenProperties DEF Batch, Header, HeaderOf

(* Staging a piece of a capture.                                           *)
LEMMA StagedChunk ==
  ASSUME NEW Q, Distinguishable(Q), StagedFrom(Q), NEW q \in Q, NEW c,
         Piece(c, q.rows), StageChunk(HeaderOf(q), c)
  PROVE  StagedFrom(Q)'
<1> DEFINE h == HeaderOf(q)
           new == ReceiptOf(h, c)
<1>1. h.id = q.id
  BY BatchHeader DEF Distinguishable
<1>2. new.id = h.id /\ new.no = c.no /\ new.offset = c.offset /\ new.rows = c.rows
  BY DEF ReceiptOf
<1>3. Piece(new, q.rows)
  BY <1>2 DEF Piece
<1> HIDE DEF h
<1>4. /\ staging' = staging \cup {h} /\ receipts' = receipts \cup {new}
      /\ ~StageConflict(h, c)
  BY DEF StageChunk, h
<1>5. \A s \in staging : s.id = h.id => s = h
  BY <1>4 DEF StageConflict
<1>6. \A r \in receipts : r.id = h.id /\ r.no = c.no => r = new
  BY <1>4 DEF StageConflict
<1> HIDE DEF new
<1>7. \A s \in staging' : \E p \in Q : s = HeaderOf(p)
  BY <1>4 DEF StagedFrom, h
<1>8. \A s, t \in staging' : s.id = t.id => s = t
  BY <1>4, <1>5 DEF StagedFrom
<1>9. \A r \in receipts' : \E p \in Q :
        HeaderOf(p) \in staging' /\ p.id = r.id /\ Piece(r, p.rows)
  <2> SUFFICES ASSUME NEW r \in receipts'
               PROVE  \E p \in Q :
                        HeaderOf(p) \in staging' /\ p.id = r.id /\ Piece(r, p.rows)
    OBVIOUS
  <2>1. CASE r \in receipts
    BY <2>1, <1>4 DEF StagedFrom
  <2>2. CASE r = new
    BY <2>2, <1>1, <1>2, <1>3, <1>4 DEF h
  <2> QED BY <1>4, <2>1, <2>2
<1>10. \A r, p \in receipts' : r.id = p.id /\ r.no = p.no => r = p
  BY <1>2, <1>4, <1>6 DEF StagedFrom
<1> QED BY <1>7, <1>8, <1>9, <1>10 DEF StagedFrom

(* Dropping the staged rows of a batch keeps the others in order.          *)
LEMMA StagedDropped ==
  ASSUME NEW Q, Distinguishable(Q), StagedFrom(Q), NEW b, DropStaging(b)
  PROVE  StagedFrom(Q)'
<1>1. /\ staging' = {s \in staging : s.id # b}
      /\ receipts' = {r \in receipts : r.id # b}
  BY DEF DropStaging
<1>2. ASSUME NEW r \in receipts'
      PROVE  \E p \in Q : HeaderOf(p) \in staging' /\ p.id = r.id /\ Piece(r, p.rows)
  <2>1. PICK p \in Q : HeaderOf(p) \in staging /\ p.id = r.id /\ Piece(r, p.rows)
    BY <1>1 DEF StagedFrom
  <2>2. HeaderOf(p).id # b
    BY <1>1, <2>1, BatchHeader DEF Distinguishable
  <2> QED BY <1>1, <2>1, <2>2
<1> QED BY <1>1, <1>2 DEF StagedFrom

(* Publishing what a capture deserves, under an id that is not final yet.  *)
LEMMA PublishedOne ==
  ASSUME NEW Q, Distinguishable(Q), FinalFrom(Q), ExactFrom(Q), NEW q \in Q,
         ~Finalized(q.id), finals' = finals \cup {HeaderOf(q)},
         samples' = samples \cup DeservedOf(q.id, q.rows)
  PROVE  FinalFrom(Q)' /\ ExactFrom(Q)'
<1>1. \A f \in finals : f.id # HeaderOf(q).id
  BY BatchHeader DEF Finalized, Distinguishable
<1>2. FinalFrom(Q)'
  BY <1>1 DEF FinalFrom
<1> DEFINE O == {p \in Q : HeaderOf(p) \in finals}
           N == {p \in Q : HeaderOf(p) \in finals'}
           D(S) == UNION {DeservedOf(p.id, p.rows) : p \in S}
<1>3. N = O \cup {q}
  BY DEF Distinguishable
<1>4. Deserved(O) = D(O) /\ Deserved(N) = D(N)
  BY DEF Deserved, DeservedOf
<1>5. samples = D(O)
  BY <1>4 DEF ExactFrom
<1>6. D(N) = D(O) \cup DeservedOf(q.id, q.rows)
  <2> HIDE DEF O, N
  <2> QED BY <1>3
<1>7. samples' = Deserved(N)
  <2> HIDE DEF D, O, N
  <2> QED BY <1>4, <1>5, <1>6
<1> QED BY <1>2, <1>7 DEF ExactFrom

(* The staged receipts of a batch that passes the completeness check sum   *)
(* up to what its capture deserves.                                        *)
LEMMA StagedExact ==
  ASSUME RepoTypeOK, NEW Q, Distinguishable(Q), StagedFrom(Q), NEW h \in staging,
         Complete(ReceiptsOf(h.id), h.count)
  PROVE  \E q \in Q : /\ h = HeaderOf(q) /\ h.id = q.id
                      /\ Aggregated(h.id, StagedRows(ReceiptsOf(h.id)))
                           = DeservedOf(q.id, q.rows)
<1> DEFINE R == ReceiptsOf(h.id)
<1>1. PICK q \in Q : h = HeaderOf(q)
  BY DEF StagedFrom
<1>2. q.id = h.id /\ h.count = Len(q.rows) /\ q.rows \in Seq(Item)
  BY <1>1, BatchHeader DEF Distinguishable
<1>3. R \subseteq receipts
  BY DEF ReceiptsOf
<1>4. R \subseteq Receipt /\ IsFiniteSet(R)
  BY <1>3, FewerReceipts
<1>5. ASSUME NEW r \in R PROVE Piece(r, q.rows)
  <2>1. PICK p \in Q : HeaderOf(p) \in staging /\ p.id = r.id /\ Piece(r, p.rows)
    BY <1>3 DEF StagedFrom
  <2>2. HeaderOf(p).id = h.id
    BY <2>1, BatchHeader DEF ReceiptsOf, Distinguishable
  <2>3. HeaderOf(p) = h
    BY <2>1, <2>2 DEF StagedFrom
  <2>4. p = q
    BY <1>1, <2>3 DEF Distinguishable
  <2> QED BY <2>1, <2>4
<1>6. \A r, p \in R : r.no = p.no => r = p
  BY DEF ReceiptsOf, StagedFrom
<1>7. Carving(R, q.rows)
  BY <1>2, <1>4, <1>5, <1>6 DEF Carving, Complete
<1>8. IsFiniteSet(StagedRows(R))
  BY StagedRowsFinite
<1>9. Aggregated(q.id, StagedRows(R)) = DeservedOf(q.id, q.rows)
  BY <1>7, <1>8, CarvingExact
<1> QED BY <1>1, <1>2, <1>9

(* ingest_join_chunk.                                                      *)
LEMMA StageChunkFrom ==
  ASSUME NEW Q, Distinguishable(Q), PublishedFrom(Q), NEW q \in Q, NEW c,
         Piece(c, q.rows), StageChunk(HeaderOf(q), c)
  PROVE  PublishedFrom(Q)'
<1>1. StagedFrom(Q)'
  BY StagedChunk DEF PublishedFrom
<1>2. finals' = finals /\ samples' = samples
  BY DEF StageChunk
<1> QED BY <1>1, <1>2 DEF PublishedFrom, FinalFrom, ExactFrom

(* finalize_join_batch, the first time ...                                 *)
LEMMA FinalizeNewFrom ==
  ASSUME RepoTypeOK, NEW Q, Distinguishable(Q), PublishedFrom(Q), NEW b, FinalizeNew(b)
  PROVE  PublishedFrom(Q)'
<1>1. PICK h \in staging :
        /\ h.id = b
        /\ finals' = finals \cup {h}
        /\ samples' = samples \cup Aggregated(b, StagedRows(ReceiptsOf(b)))
  BY DEF FinalizeNew
<1>2. ~Finalized(b) /\ Complete(ReceiptsOf(b), h.count) /\ DropStaging(b)
  BY <1>1 DEF FinalizeNew, FinalizeRaises
<1>3. PICK q \in Q : /\ h = HeaderOf(q) /\ h.id = q.id
                     /\ Aggregated(b, StagedRows(ReceiptsOf(b)))
                          = DeservedOf(q.id, q.rows)
  BY <1>1, <1>2, StagedExact DEF PublishedFrom
<1>4. FinalFrom(Q)' /\ ExactFrom(Q)'
  BY <1>1, <1>2, <1>3, PublishedOne DEF PublishedFrom
<1>5. StagedFrom(Q)'
  BY <1>2, StagedDropped DEF PublishedFrom
<1> QED BY <1>4, <1>5 DEF PublishedFrom

(* ... and again.                                                          *)
LEMMA FinalizeAgainFrom ==
  ASSUME NEW Q, Distinguishable(Q), PublishedFrom(Q), NEW b, FinalizeAgain(b)
  PROVE  PublishedFrom(Q)'
<1>1. StagedFrom(Q)'
  BY StagedDropped DEF PublishedFrom, FinalizeAgain
<1>2. finals' = finals /\ samples' = samples
  BY DEF FinalizeAgain
<1> QED BY <1>1, <1>2 DEF PublishedFrom, FinalFrom, ExactFrom

(* ingest_join_batch.                                                      *)
LEMMA LegacyIngestFrom ==
  ASSUME NEW Q, Distinguishable(Q), PublishedFrom(Q), NEW q \in Q,
         LegacyIngest(HeaderOf(q), q.rows)
  PROVE  PublishedFrom(Q)'
<1>1. HeaderOf(q).id = q.id /\ q.rows \in Seq(Item)
  BY BatchHeader DEF Distinguishable
<1>2. staging' = staging /\ receipts' = receipts
  BY DEF LegacyIngest
<1>3. StagedFrom(Q)'
  BY <1>2 DEF PublishedFrom, StagedFrom
<1>4. CASE Finalized(q.id)
  <2>1. finals' = finals /\ samples' = samples
    BY <1>1, <1>4 DEF LegacyIngest
  <2> QED BY <1>3, <2>1 DEF PublishedFrom, FinalFrom, ExactFrom
<1>5. CASE ~Finalized(q.id)
  <2>1. /\ finals' = finals \cup {HeaderOf(q)}
        /\ samples' = samples \cup Aggregated(q.id, LegacyRows(q.rows))
    BY <1>1, <1>5 DEF LegacyIngest
  <2>2. Aggregated(q.id, LegacyRows(q.rows)) = DeservedOf(q.id, q.rows)
    BY <1>1, LegacyExact
  <2>3. FinalFrom(Q)' /\ ExactFrom(Q)'
    BY <1>5, <2>1, <2>2, PublishedOne DEF PublishedFrom
  <2> QED BY <1>3, <2>3 DEF PublishedFrom
<1> QED BY <1>4, <1>5

(* record_join_error, and every step that leaves these tables alone.       *)
LEMMA NothingPublished ==
  ASSUME NEW Q, PublishedFrom(Q), UNCHANGED <<staging, receipts, finals, samples>>
  PROVE  PublishedFrom(Q)'
BY DEF PublishedFrom, StagedFrom, FinalFrom, ExactFrom

(* purge_join_source_history: what remains is what belonged to the batches *)
(* that remain.                                                            *)
LEMMA PurgeHistoryFrom ==
  ASSUME NEW Q, Distinguishable(Q), PublishedFrom(Q), NEW t, PurgeHistory(t)
  PROVE  PublishedFrom(Q)'
<1>1. /\ staging' = {s \in staging : ~Expired(s.at, t)}
      /\ receipts' = {r \in receipts : \E s \in staging' : s.id = r.id}
      /\ finals' = {f \in finals : ~Expired(f.at, t)}
      /\ samples' = {s \in samples : \E f \in finals' : f.id = s.id}
  BY DEF PurgeHistory
<1>2. \A q \in Q : HeaderOf(q).id = q.id
  BY BatchHeader DEF Distinguishable
<1>3. StagedFrom(Q)'
  <2>1. ASSUME NEW r \in receipts'
        PROVE  \E p \in Q : HeaderOf(p) \in staging' /\ p.id = r.id /\ Piece(r, p.rows)
    <3>1. PICK p \in Q : HeaderOf(p) \in staging /\ p.id = r.id /\ Piece(r, p.rows)
      BY <1>1 DEF PublishedFrom, StagedFrom
    <3>2. PICK s \in staging' : s.id = r.id
      BY <1>1
    <3>3. s = HeaderOf(p)
      BY <1>1, <1>2, <3>1, <3>2 DEF PublishedFrom, StagedFrom
    <3> QED BY <3>1, <3>2, <3>3
  <2>2. \A s \in staging' : \E q \in Q : s = HeaderOf(q)
    BY <1>1 DEF PublishedFrom, StagedFrom
  <2>3. \A s, u \in staging' : s.id = u.id => s = u
    BY <1>1 DEF PublishedFrom, StagedFrom
  <2>4. \A r, p \in receipts' : r.id = p.id /\ r.no = p.no => r = p
    BY <1>1 DEF PublishedFrom, StagedFrom
  <2> QED BY <2>1, <2>2, <2>3, <2>4 DEF StagedFrom
<1>4. FinalFrom(Q)'
  BY <1>1 DEF PublishedFrom, FinalFrom
<1>5. ExactFrom(Q)'
  <2> DEFINE O == {p \in Q : HeaderOf(p) \in finals}
             N == {p \in Q : HeaderOf(p) \in finals'}
             D(S) == UNION {DeservedOf(p.id, p.rows) : p \in S}
  <2>1. Deserved(O) = D(O) /\ Deserved(N) = D(N)
    BY DEF Deserved, DeservedOf
  <2>2. samples = D(O)
    BY <2>1 DEF PublishedFrom, ExactFrom
  <2>3. \A p \in O : \A s \in DeservedOf(p.id, p.rows) : s.id = p.id
    BY DeservedId
  <2>4. ASSUME NEW p \in O PROVE (\E f \in finals' : f.id = p.id) <=> p \in N
    <3>1. HeaderOf(p) \in finals /\ HeaderOf(p).id = p.id
      BY <1>2
    <3>2. \A f \in finals' : f.id = p.id => f = HeaderOf(p)
      BY <1>1, <3>1 DEF PublishedFrom, FinalFrom
    <3> QED BY <3>1, <3>2
  <2>5. N \subseteq O
    BY <1>1
  <2>6. samples' = D(N)
    <3>1. ASSUME NEW s \in samples' PROVE s \in D(N)
      <4>1. PICK p \in O : s \in DeservedOf(p.id, p.rows)
        BY <1>1, <2>2
      <4>2. p \in N
        BY <1>1, <2>3, <2>4, <4>1
      <4> QED BY <4>1, <4>2
    <3>2. ASSUME NEW s \in D(N) PROVE s \in samples'
      <4>1. PICK p \in N : s \in DeservedOf(p.id, p.rows)
        OBVIOUS
      <4>2. p \in O /\ s.id = p.id
        BY <2>3, <2>5, <4>1
      <4>3. s \in samples /\ \E f \in finals' : f.id = s.id
        BY <2>2, <2>4, <4>1, <4>2
      <4> QED BY <1>1, <4>3
    <3> HIDE DEF D, N
    <3> QED BY <3>1, <3>2
  <2>7. samples' = Deserved(N)
    <3> HIDE DEF D, N, O
    <3> QED BY <2>1, <2>6
  <2> QED BY <2>7 DEF ExactFrom
<1> QED BY <1>3, <1>4, <1>5 DEF PublishedFrom

(* More captures change nothing of what is staged and published.           *)
LEMMA MoreCaptures ==
  ASSUME NEW Q, NEW P, Q \subseteq P, Distinguishable(P), PublishedFrom(Q)
  PROVE  PublishedFrom(P)
<1>1. {q \in P : HeaderOf(q) \in finals} = {q \in Q : HeaderOf(q) \in finals}
  BY DEF PublishedFrom, FinalFrom, Distinguishable
<1>2. ExactFrom(P)
  BY <1>1 DEF PublishedFrom, ExactFrom
<1>3. FinalFrom(P)
  BY DEF PublishedFrom, FinalFrom
<1>4. StagedFrom(P)
  BY DEF PublishedFrom, StagedFrom
<1> QED BY <1>2, <1>3, <1>4 DEF PublishedFrom

(* The repository starts with nothing staged and nothing public.           *)
LEMMA NothingYet == ASSUME RepoInit, NEW Q PROVE PublishedFrom(Q)
<1>1. staging = {} /\ receipts = {} /\ finals = {} /\ samples = {}
  BY DEF RepoInit
<1>2. {q \in Q : HeaderOf(q) \in finals} = {}
  BY <1>1
<1>3. ExactFrom(Q)
  BY <1>1, <1>2 DEF ExactFrom, Deserved
<1> QED BY <1>1, <1>3 DEF PublishedFrom, StagedFrom, FinalFrom

-----------------------------------------------------------------------------
(***************************************************************************)
(* The functions by themselves, for any captures, any carving of them and  *)
(* any order of the calls: the samples are exactly the captured rows,      *)
(* candidates and evidence agree, and the status row is about one          *)
(* delivered batch.                                                        *)
(***************************************************************************)
(* CandidatesSupported without Max, and no evidence outlives the candidate *)
(* it is about.                                                            *)
EvidenceInv ==
  /\ \A e \in evidence : \E f \in finals : f.id = e.id /\ f.at = e.at
  /\ \A e \in evidence : \E x \in candidates : x.cand = e.cand
  /\ \A x \in candidates :
       /\ \E e \in evidence : e.cand = x.cand /\ e.at = x.last
       /\ \A e \in evidence : e.cand = x.cand => e.at <= x.last

(* The inductive invariant. *)
IngestInv ==
  /\ RepoTypeOK /\ clock \in Nat
  /\ PublishedFrom(Sent) /\ EvidenceInv /\ StatusDescribesNewest

(* GREATEST of two naturals is the larger one.                             *)
LEMMA MaxOfTwoIs ==
  ASSUME NEW x \in Nat, NEW y \in Nat
  PROVE  Max({x, y}) = IF x >= y THEN x ELSE y
<1> DEFINE S == {x, y}
<1>1. \E m \in S : \A k \in S : m >= k
  OBVIOUS
<1>2. Max(S) \in S /\ \A k \in S : Max(S) >= k
  <2> HIDE DEF S
  <2> QED BY <1>1 DEF Max
<1>3. Max(S) \in S /\ Max(S) >= x /\ Max(S) >= y
  BY <1>2
<1> HIDE DEF S
<1>4. Max(S) = IF x >= y THEN x ELSE y
  BY <1>3 DEF S
<1> QED BY <1>4 DEF S

(* An upper bound of a set of naturals that is in the set is its maximum.  *)
LEMMA MaxIs ==
  ASSUME NEW S \in SUBSET Nat, NEW x \in S, \A y \in S : y <= x
  PROVE  Max(S) = x
<1>1. \A y \in S : x >= y
  OBVIOUS
<1>2. Max(S) \in S /\ \A y \in S : Max(S) >= y
  BY <1>1 DEF Max
<1>3. Max(S) \in Nat /\ x \in Nat /\ x >= Max(S) /\ Max(S) >= x
  BY <1>1, <1>2
<1> QED BY <1>3

(* CandidatesSupported is what EvidenceInv says.                           *)
LEMMA EvidenceImplies ==
  ASSUME RepoTypeOK, EvidenceInv
  PROVE  CandidatesSupported
<1> SUFFICES ASSUME NEW x \in candidates
             PROVE  LET times == {e.at : e \in {y \in evidence : y.cand = x.cand}}
                    IN  times # {} /\ x.last = Max(times)
  BY DEF CandidatesSupported, EvidenceInv
<1> DEFINE times == {e.at : e \in {y \in evidence : y.cand = x.cand}}
<1>1. times \in SUBSET Nat
  BY DEF RepoTypeOK
<1>2. x.last \in times /\ \A t \in times : t <= x.last
  BY DEF EvidenceInv
<1> HIDE DEF times
<1>3. Max(times) = x.last
  BY <1>1, <1>2, MaxIs
<1> QED BY <1>2, <1>3 DEF times

(* The headers of the captures tell them apart.                            *)
LEMMA SentDistinguishable ==
  /\ Distinguishable(Sent)
  /\ \A q \in Sent : /\ q \in Batch /\ q.id \in Nat /\ q.rows \in Seq(Item)
                     /\ HeaderOf(q) \in Header /\ HeaderOf(q).id = q.id
BY SentAssumption, BatchHeader DEF Distinguishable

(* A chunk that passes the validation is a piece of its batch.             *)
LEMMA ValidChunkIsPiece ==
  ASSUME NEW q \in Sent, NEW n \in 1..MaxChunkNo, NEW o \in 0..Len(q.rows),
         NEW k \in 0..MaxChunkRows, ValidChunk(q, n, o, k)
  PROVE  /\ ChunkOf(q, n, o, k) \in Chunk
         /\ ChunkOf(q, n, o, k).no = n
         /\ Piece(ChunkOf(q, n, o, k), q.rows)
<1> DEFINE rows == q.rows
           part == SubSeq(rows, o + 1, o + k)
<1>1. rows \in Seq(Item) /\ Len(rows) \in Nat
  BY SentDistinguishable, LenProperties
<1>2. o \in Nat /\ k \in Nat /\ n \in Nat
  BY <1>1, ChunkRowsAssumption, ChunkNoAssumption
<1>3. o + k <= Len(rows)
  <2>1. CASE rows = <<>>
    BY <2>1, <1>1, <1>2 DEF ValidChunk
  <2>2. CASE rows # <<>>
    BY <2>2 DEF ValidChunk
  <2> QED BY <2>1, <2>2
<1>4. \A i \in (o + 1)..(o + k) : rows[i] \in Item
  <2> SUFFICES ASSUME NEW i \in (o + 1)..(o + k) PROVE rows[i] \in Item
    OBVIOUS
  <2>1. i \in 1..Len(rows)
    BY <1>1, <1>2, <1>3
  <2> QED BY <1>1, <2>1, ElementOfSeq
<1>5. /\ part \in Seq(Item) /\ Len(part) = k
      /\ \A i \in 1..k : part[i] = rows[o + i]
  <2> DEFINE a == o + 1
             z == o + k
  <2>1. a \in Int /\ z \in Int /\ \A i \in a..z : rows[i] \in Item
    BY <1>2, <1>4
  <2>2. /\ SubSeq(rows, a, z) \in Seq(Item)
        /\ Len(SubSeq(rows, a, z)) = IF a <= z THEN z - a + 1 ELSE 0
        /\ \A i \in 1..(z - a + 1) : SubSeq(rows, a, z)[i] = rows[a + i - 1]
    <3> HIDE DEF a, z, rows
    <3> QED BY <2>1, SubSeqProperties
  <2>3. z - a + 1 = k /\ (IF a <= z THEN z - a + 1 ELSE 0) = k
    BY <1>2
  <2>4. \A i \in 1..k : a + i - 1 = o + i
    BY <1>2
  <2> QED BY <2>2, <2>3, <2>4
<1>6. ChunkOf(q, n, o, k) = [no |-> n, offset |-> o, rows |-> part,
                             last |-> o + k = Len(rows)]
  BY DEF ChunkOf
<1>7. (o + k = Len(rows)) \in BOOLEAN
  OBVIOUS
<1> DEFINE c == ChunkOf(q, n, o, k)
<1>8. c \in Chunk /\ c.no = n
  <2> HIDE DEF part, rows
  <2> QED BY <1>2, <1>5, <1>6, <1>7 DEF Chunk
<1>9. c.offset = o /\ c.rows = part
  BY <1>6
<1>10. Piece(c, rows)
  <2> HIDE DEF part, rows, c
  <2> QED BY <1>3, <1>5, <1>9 DEF Piece
<1> QED BY <1>8, <1>10

(* refresh_candidates, of a batch that was not final before.               *)
LEMMA PublishedEvidence ==
  ASSUME RepoTypeOK, EvidenceInv, NEW h \in Header, \A f \in finals : f.id # h.id,
         NEW sums, RefreshCandidates(h, sums), finals' = finals \cup {h}
  PROVE  EvidenceInv'
<1> DEFINE Sup == Supported(sums)
           known == {c.cand : c \in candidates}
           Grown(c) == IF c.cand \in Sup THEN [c EXCEPT !.last = Max({@, h.at})] ELSE c
           Proof(c) == [cand |-> c, id |-> h.id, at |-> h.at]
           Fresh(c) == [cand |-> c, first |-> h.at, last |-> h.at]
<1>1. h.at \in Nat /\ h.id \in Nat
  BY DEF Header
<1>2. \A e \in evidence : e.id # h.id
  BY DEF EvidenceInv
<1>3. evidence' = evidence \cup {Proof(c) : c \in Sup}
  <2>1. {c \in Sup : ~\E e \in evidence : e.cand = c /\ e.id = h.id} = Sup
    BY <1>2
  <2> QED BY <2>1 DEF RefreshCandidates
<1>4. candidates' = {Grown(c) : c \in candidates} \cup {Fresh(c) : c \in Sup \ known}
  BY DEF RefreshCandidates
<1>5. ASSUME NEW d \in candidates
      PROVE  /\ Grown(d) \in candidates' /\ Grown(d).cand = d.cand
             /\ d.last \in Nat /\ d.cand \in known
             /\ d.cand \in Sup =>
                  /\ Grown(d).last = IF d.last >= h.at THEN d.last ELSE h.at
             /\ d.cand \notin Sup => Grown(d).last = d.last
  <2>1. d \in [cand : Candidate, first : Nat, last : Nat]
    BY DEF RepoTypeOK
  <2>2. Max({d.last, h.at}) = IF d.last >= h.at THEN d.last ELSE h.at
    BY <1>1, <2>1, MaxOfTwoIs
  <2>3. Grown(d) \in candidates'
    BY <1>4
  <2> HIDE DEF Sup
  <2> QED BY <2>1, <2>2, <2>3
<1>6. ASSUME NEW c \in Sup
      PROVE  /\ Proof(c) \in evidence' /\ Proof(c).cand = c
             /\ Proof(c).at = h.at /\ Proof(c).id = h.id
  BY <1>3
<1>7. ASSUME NEW c \in Sup \ known
      PROVE  Fresh(c) \in candidates' /\ Fresh(c).cand = c /\ Fresh(c).last = h.at
  BY <1>4
<1>8. \A e \in evidence : e.at \in Nat
  BY DEF RepoTypeOK
<1>9. \A e \in evidence' : e \in evidence \/ \E c \in Sup : e = Proof(c)
  BY <1>3
<1>10. \A x \in candidates' : \/ \E d \in candidates : x = Grown(d)
                              \/ \E c \in Sup \ known : x = Fresh(c)
  BY <1>4
<1>11. \A e \in evidence : e \in evidence'
  BY <1>3
<1> HIDE DEF Sup, Grown, Proof, Fresh
<1>12. \A e \in evidence' : \E f \in finals' : f.id = e.id /\ f.at = e.at
  BY <1>6, <1>9 DEF EvidenceInv
<1>13. ASSUME NEW e \in evidence' PROVE \E x \in candidates' : x.cand = e.cand
  <2>1. CASE e \in evidence
    BY <2>1, <1>5 DEF EvidenceInv
  <2>2. ASSUME NEW c \in Sup, e = Proof(c) PROVE \E x \in candidates' : x.cand = e.cand
    <3>1. CASE c \in known
      <4>1. PICK d \in candidates : d.cand = c
        BY <3>1
      <4> QED BY <4>1, <2>2, <1>5, <1>6
    <3>2. CASE c \notin known
      BY <3>2, <2>2, <1>6, <1>7
    <3> QED BY <3>1, <3>2
  <2> QED BY <1>9, <2>1, <2>2
<1>14. ASSUME NEW x \in candidates'
       PROVE  /\ \E e \in evidence' : e.cand = x.cand /\ e.at = x.last
              /\ \A e \in evidence' : e.cand = x.cand => e.at <= x.last
  <2>1. ASSUME NEW d \in candidates, x = Grown(d)
        PROVE  /\ \E e \in evidence' : e.cand = x.cand /\ e.at = x.last
               /\ \A e \in evidence' : e.cand = x.cand => e.at <= x.last
    <3>1. PICK e \in evidence : e.cand = d.cand /\ e.at = d.last
      BY DEF EvidenceInv
    <3>2. \A a \in evidence : a.cand = d.cand => a.at <= d.last
      BY DEF EvidenceInv
    <3>3. CASE d.cand \in Sup
      <4>1. x.cand = d.cand /\ x.last = IF d.last >= h.at THEN d.last ELSE h.at
        BY <2>1, <3>3, <1>5
      <4>2. d.last \in Nat /\ d.last <= x.last /\ h.at <= x.last /\ x.last \in Nat
        BY <4>1, <1>1, <1>5
      <4>3. \E a \in evidence' : a.cand = x.cand /\ a.at = x.last
        <5>1. CASE d.last >= h.at
          BY <5>1, <4>1, <3>1, <1>11
        <5>2. CASE ~(d.last >= h.at)
          BY <5>2, <4>1, <3>3, <1>6
        <5> QED BY <5>1, <5>2
      <4>4. ASSUME NEW a \in evidence', a.cand = x.cand PROVE a.at <= x.last
        <5>1. CASE a \in evidence
          BY <5>1, <4>1, <4>2, <4>4, <3>2, <1>8
        <5>2. CASE \E c \in Sup : a = Proof(c)
          BY <5>2, <4>2, <1>6
        <5> QED BY <5>1, <5>2, <1>9
      <4> QED BY <4>3, <4>4
    <3>4. CASE d.cand \notin Sup
      <4>1. x.cand = d.cand /\ x.last = d.last
        BY <2>1, <3>4, <1>5
      <4>2. \A a \in evidence' : a.cand = x.cand => a \in evidence
        BY <4>1, <3>4, <1>6, <1>9
      <4> QED BY <4>1, <4>2, <3>1, <3>2, <1>11
    <3> QED BY <3>3, <3>4
  <2>2. ASSUME NEW c \in Sup \ known, x = Fresh(c)
        PROVE  /\ \E e \in evidence' : e.cand = x.cand /\ e.at = x.last
               /\ \A e \in evidence' : e.cand = x.cand => e.at <= x.last
    <3>1. x.cand = c /\ x.last = h.at
      BY <2>2, <1>7
    <3>2. \A e \in evidence : e.cand # c
      BY DEF EvidenceInv
    <3>3. \A e \in evidence' : e.cand = c => e.at = h.at
      BY <3>2, <1>6, <1>9
    <3> QED BY <3>1, <3>3, <1>1, <1>6
  <2> QED BY <1>10, <2>1, <2>2
<1> QED BY <1>12, <1>13, <1>14 DEF EvidenceInv

(* The status row after a publication.                                     *)
LEMMA PublishedStatus ==
  ASSUME RepoTypeOK, StatusDescribesNewest, NEW h \in Header, MarkHealthy(h),
         delivered' = delivered \cup {h}
  PROVE  StatusDescribesNewest'
<1>1. h.id \in Nat /\ status.lastBatch \in Nat
  BY DEF Header, RepoTypeOK
<1>2. /\ status'.lastBatch = Max({status.lastBatch, h.id})
      /\ status'.lastRows = IF h.id >= status.lastBatch THEN h.count
                                                         ELSE status.lastRows
  BY DEF MarkHealthy
<1>3. Max({status.lastBatch, h.id}) =
        IF status.lastBatch >= h.id THEN status.lastBatch ELSE h.id
  BY <1>1, MaxOfTwoIs
<1>4. CASE h.id >= status.lastBatch
  <2>1. status'.lastBatch = h.id /\ status'.lastRows = h.count
    BY <1>1, <1>2, <1>3, <1>4
  <2> QED BY <2>1 DEF StatusDescribesNewest
<1>5. CASE ~(h.id >= status.lastBatch)
  <2>1. status'.lastBatch = status.lastBatch /\ status'.lastRows = status.lastRows
    BY <1>1, <1>2, <1>3, <1>5
  <2> QED BY <2>1 DEF StatusDescribesNewest
<1> QED BY <1>4, <1>5

(* Publishing a batch that is not final yet, as finalize_join_batch and    *)
(* ingest_join_batch do it.                                                *)
LEMMA PublishedStep ==
  ASSUME IngestInv, NEW h \in Header, ~Finalized(h.id), NEW sums,
         finals' = finals \cup {h}, RefreshCandidates(h, sums), MarkHealthy(h),
         delivered' = delivered \cup {h}
  PROVE  EvidenceInv' /\ StatusDescribesNewest'
<1>1. \A f \in finals : f.id # h.id
  BY DEF Finalized
<1> QED BY <1>1, PublishedEvidence, PublishedStatus DEF IngestInv

(* A step that changes neither candidates, evidence, finals nor status.    *)
LEMMA EvidenceSame ==
  ASSUME IngestInv, UNCHANGED <<finals, candidates, evidence, status, delivered>>
  PROVE  EvidenceInv' /\ StatusDescribesNewest'
BY DEF IngestInv, EvidenceInv, StatusDescribesNewest

(* ingest_join_chunk.                                                      *)
LEMMA IngestStep ==
  ASSUME IngestInv, Ingest
  PROVE  IngestInv'
<1>1. PICK q \in Arrived, n \in 1..MaxChunkNo, k \in 0..MaxChunkRows :
      \E o \in 0..Len(q.rows) :
        ValidChunk(q, n, o, k) /\ StageChunk(HeaderOf(q), ChunkOf(q, n, o, k))
  BY DEF Ingest
<1>2. PICK o \in 0..Len(q.rows) :
        ValidChunk(q, n, o, k) /\ StageChunk(HeaderOf(q), ChunkOf(q, n, o, k))
  BY <1>1
<1>3. q \in Sent
  BY DEF Arrived
<1>4. ChunkOf(q, n, o, k) \in Chunk /\ Piece(ChunkOf(q, n, o, k), q.rows)
  BY <1>2, <1>3, ValidChunkIsPiece
<1>5. RepoTypeOK'
  BY <1>2, <1>3, <1>4, StageChunkType, SentDistinguishable DEF IngestInv
<1>6. PublishedFrom(Sent)'
  BY <1>2, <1>3, <1>4, StageChunkFrom, SentDistinguishable DEF IngestInv
<1>7. EvidenceInv' /\ StatusDescribesNewest'
  BY <1>2, EvidenceSame DEF StageChunk
<1>8. clock' = clock
  BY DEF Ingest
<1> QED BY <1>5, <1>6, <1>7, <1>8 DEF IngestInv

(* finalize_join_batch, the first time and again.                          *)
LEMMA FinalizeStep ==
  ASSUME IngestInv, Finalize
  PROVE  IngestInv'
<1>1. PICK q \in Sent : FinalizeAgain(q.id) \/ FinalizeNew(q.id)
  BY DEF Finalize
<1>2. q.id \in Nat
  BY SentDistinguishable
<1>3. RepoTypeOK' /\ PublishedFrom(Sent)'
  BY <1>1, <1>2, FinalizeAgainType, FinalizeNewType, FinalizeAgainFrom,
     FinalizeNewFrom, SentDistinguishable
  DEF IngestInv
<1>4. EvidenceInv' /\ StatusDescribesNewest'
  <2>1. CASE FinalizeAgain(q.id)
    BY <2>1, EvidenceSame DEF FinalizeAgain
  <2>2. CASE FinalizeNew(q.id)
    <3> DEFINE sums == Aggregated(q.id, StagedRows(ReceiptsOf(q.id)))
    <3>1. PICK h \in staging :
            /\ h.id = q.id
            /\ finals' = finals \cup {h}
            /\ RefreshCandidates(h, sums)
            /\ MarkHealthy(h)
            /\ delivered' = delivered \cup {h}
      BY <2>2 DEF FinalizeNew
    <3>2. h \in Header /\ ~Finalized(h.id)
      BY <2>2, <3>1 DEF IngestInv, RepoTypeOK, FinalizeNew
    <3> HIDE DEF sums
    <3> QED BY <3>1, <3>2, PublishedStep
  <2> QED BY <1>1, <2>1, <2>2
<1>5. clock' = clock
  BY DEF Finalize
<1> QED BY <1>3, <1>4, <1>5 DEF IngestInv

(* ingest_join_batch.                                                      *)
LEMMA LegacyStep ==
  ASSUME IngestInv, Legacy
  PROVE  IngestInv'
<1>1. PICK q \in Sent : LegacyIngest(HeaderOf(q), q.rows)
  BY DEF Legacy, Arrived
<1> DEFINE h == HeaderOf(q)
           sums == Aggregated(h.id, LegacyRows(q.rows))
<1>2. h \in Header /\ q.rows \in Seq(Item)
  BY SentDistinguishable
<1>3. RepoTypeOK' /\ PublishedFrom(Sent)'
  BY <1>1, <1>2, LegacyIngestType, LegacyIngestFrom, SentDistinguishable
  DEF IngestInv
<1>4. EvidenceInv' /\ StatusDescribesNewest'
  <2>1. CASE Finalized(h.id)
    BY <1>1, <2>1, EvidenceSame DEF LegacyIngest
  <2>2. CASE ~Finalized(h.id)
    <3>1. /\ finals' = finals \cup {h}
          /\ RefreshCandidates(h, sums)
          /\ MarkHealthy(h)
          /\ delivered' = delivered \cup {h}
      BY <1>1, <2>2 DEF LegacyIngest
    <3> HIDE DEF sums, h
    <3> QED BY <1>2, <2>2, <3>1, PublishedStep
  <2> QED BY <2>1, <2>2
<1>5. clock' = clock
  BY DEF Legacy
<1> QED BY <1>3, <1>4, <1>5 DEF IngestInv

(* record_join_error.                                                      *)
LEMMA ReportStep ==
  ASSUME IngestInv, ReportError
  PROVE  IngestInv'
<1>1. RecordError /\ clock' = clock
  BY DEF ReportError
<1>2. RepoTypeOK' /\ PublishedFrom(Sent)'
  BY <1>1, RecordErrorType, NothingPublished DEF IngestInv, RecordError
<1>3. EvidenceInv'
  BY <1>1 DEF IngestInv, EvidenceInv, RecordError
<1>4. StatusDescribesNewest'
  <2>1. status'.lastBatch = status.lastBatch /\ status'.lastRows = status.lastRows
    BY <1>1 DEF RecordError, IngestInv, RepoTypeOK
  <2> QED BY <1>1, <2>1 DEF IngestInv, StatusDescribesNewest, RecordError
<1> QED BY <1>1, <1>2, <1>3, <1>4 DEF IngestInv

(* purge_join_source_history: what remains is what belonged to the batches *)
(* and candidates that remain.                                             *)
LEMMA PurgeStep ==
  ASSUME IngestInv, PurgeOld
  PROVE  IngestInv'
<1>1. PurgeHistory(clock) /\ clock' = clock /\ clock \in Nat
  BY DEF PurgeOld, IngestInv
<1>2. RepoTypeOK' /\ PublishedFrom(Sent)'
  BY <1>1, PurgeHistoryType, PurgeHistoryFrom, SentDistinguishable DEF IngestInv
<1>3. /\ finals' = {f \in finals : ~Expired(f.at, clock)}
      /\ candidates' = {c \in candidates : ~Expired(c.last, clock)}
      /\ evidence' = {e \in evidence : /\ ~Expired(e.at, clock)
                                       /\ \E c \in candidates' : c.cand = e.cand}
      /\ status' = status /\ delivered' = delivered
  BY <1>1 DEF PurgeHistory
<1>4. EvidenceInv'
  <2>1. ASSUME NEW e \in evidence'
        PROVE  \E f \in finals' : f.id = e.id /\ f.at = e.at
    BY <1>3 DEF IngestInv, EvidenceInv
  <2>2. ASSUME NEW x \in candidates'
        PROVE  /\ \E e \in evidence' : e.cand = x.cand /\ e.at = x.last
               /\ \A e \in evidence' : e.cand = x.cand => e.at <= x.last
    BY <1>3 DEF IngestInv, EvidenceInv
  <2> QED BY <1>3, <2>1, <2>2 DEF EvidenceInv
<1>5. StatusDescribesNewest'
  BY <1>3 DEF IngestInv, StatusDescribesNewest
<1> QED BY <1>1, <1>2, <1>4, <1>5 DEF IngestInv

(* The invariant holds at the start ...                                    *)
LEMMA IngestStart == IngestInit => IngestInv
<1> SUFFICES ASSUME IngestInit PROVE IngestInv
  OBVIOUS
<1>1. RepoTypeOK /\ PublishedFrom(Sent)
  BY RepoInitType, NothingYet DEF IngestInit
<1>2. /\ finals = {} /\ candidates = {} /\ evidence = {} /\ clock = 1
      /\ status.lastBatch = 0
  BY DEF IngestInit, RepoInit
<1> QED BY <1>1, <1>2 DEF IngestInv, EvidenceInv, StatusDescribesNewest

(* ... and is kept by every step.                                          *)
LEMMA IngestKept ==
  ASSUME IngestInv, [IngestNext]_ingestVars
  PROVE  IngestInv'
<1>1. CASE Advance \/ UNCHANGED ingestVars
  <2>1. UNCHANGED repoVars /\ clock' \in Nat
    BY <1>1 DEF Advance, ingestVars, IngestInv
  <2>2. RepoTypeOK'
    BY <2>1 DEF IngestInv, RepoTypeOK, repoVars
  <2>3. PublishedFrom(Sent)'
    BY <2>1, NothingPublished DEF IngestInv, repoVars
  <2>4. EvidenceInv' /\ StatusDescribesNewest'
    BY <2>1, EvidenceSame DEF repoVars
  <2> QED BY <2>1, <2>2, <2>3, <2>4 DEF IngestInv
<1> QED BY <1>1, IngestStep, FinalizeStep, LegacyStep, ReportStep, PurgeStep
     DEF IngestNext

(* The inductive invariant of the repository's functions: one header for   *)
(* each staged id, receipts that are pieces of that capture, one final     *)
(* batch for each id, evidence and candidates in step (sql/012, sql/013).  *)
THEOREM IngestInvariant == IngestSpec => []IngestInv
<1>1. IngestInv /\ [IngestNext]_ingestVars => IngestInv'
  BY IngestKept
<1> QED BY IngestStart, <1>1, PTL DEF IngestSpec

(***************************************************************************)
(* Public evidence is exactly the capture, for any captures and any        *)
(* carving: receipts without a gap or an overlap are a bijection between   *)
(* staged rows and the places of the batch (sql/013:52-283).               *)
(***************************************************************************)
THEOREM EvidenceExact == IngestSpec => []SamplesExact
<1>1. IngestInv => SamplesExact
  BY DEF IngestInv, PublishedFrom, ExactFrom, SamplesExact
<1> QED BY IngestInvariant, <1>1, PTL

(***************************************************************************)
(* Candidates and their evidence agree through out-of-order finalization   *)
(* and retention (sql/012: refresh_candidates and the purge).              *)
(***************************************************************************)
THEOREM CandidatesAgree == IngestSpec => []CandidatesSupported
<1>1. IngestInv => CandidatesSupported
  BY EvidenceImplies DEF IngestInv
<1> QED BY IngestInvariant, <1>1, PTL

(***************************************************************************)
(* The source status is about one delivered batch (sql/013:248-275).       *)
(***************************************************************************)
THEOREM StatusOfOneBatch == IngestSpec => []StatusDescribesNewest
<1>1. IngestInv => StatusDescribesNewest
  BY DEF IngestInv
<1> QED BY IngestInvariant, <1>1, PTL
=============================================================================

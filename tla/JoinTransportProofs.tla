--------------------------- MODULE JoinTransportProofs ---------------------------
(***************************************************************************)
(* The source outbox, and the JOIN pipeline for any number of workers,     *)
(* items, batches, faults and limits: it is well typed, it publishes       *)
(* exactly what was captured, and as long as the source volume is not      *)
(* recreated no captured batch leaves the source before it is durable.     *)
(***************************************************************************)
EXTENDS JoinTransport, JoinRepositoryProofs

-----------------------------------------------------------------------------
(* The source outbox by itself.                                            *)

(* A finite set is laid out as a sequence of its elements.                 *)
LEMMA SetToSeqIsSeq ==
  ASSUME NEW S, IsFiniteSet(S)
  PROVE  /\ SetToSeq(S) \in Seq(S)
         /\ Len(SetToSeq(S)) = Cardinality(S)
<1> DEFINE n == Cardinality(S)
<1>1. n \in Nat /\ ExistsBijection(1..n, S)
  BY FS_CardinalityType
<1>2. \E f \in [1..n -> S] : IsInjective(f)
  BY <1>1 DEF ExistsBijection, Bijection, Injection, IsInjective
<1>3. SetToSeq(S) \in [1..n -> S]
  BY <1>2 DEF SetToSeq
<1> HIDE DEF n
<1>4. SetToSeq(S) \in Seq(S)
  BY <1>1, <1>3
<1>5. Len(SetToSeq(S)) = n
  BY <1>1, <1>3, <1>4, LenProperties
<1> QED BY <1>4, <1>5 DEF n

(* The rows a capture exports are at most those there are.                 *)
LEMMA LiveRows ==
  ASSUME OutboxTypeOK
  PROVE  /\ SetToSeq(live) \in Seq(Item)
         /\ Len(SetToSeq(live)) \in 0..Cardinality(Item)
         /\ Cardinality(live) \in Nat
<1>1. live \in SUBSET Item
  BY DEF OutboxTypeOK
<1>2. IsFiniteSet(live) /\ Cardinality(live) <= Cardinality(Item)
  BY <1>1, ItemAssumption, FS_Subset
<1>3. Cardinality(live) \in Nat /\ Cardinality(Item) \in Nat
  BY <1>2, ItemAssumption, FS_CardinalityType
<1>4. SetToSeq(live) \in Seq(live) /\ Len(SetToSeq(live)) = Cardinality(live)
  BY <1>2, SetToSeqIsSeq
<1>5. SetToSeq(live) \in Seq(Item)
  BY <1>1, <1>4, SeqMonotonic
<1> QED BY <1>2, <1>3, <1>4, <1>5

(* Each step of the outbox keeps its types.                                *)
LEMMA OutboxStepType ==
  ASSUME OutboxTypeOK,
         \/ \E i \in Item : Record(i)
         \/ Capture
         \/ Tick
         \/ Rebuild
         \/ \E b \in Nat : AckBatch(b)
         \/ UNCHANGED outboxVars
  PROVE  OutboxTypeOK'
<1> USE DEF OutboxTypeOK
<1>1. ASSUME NEW i \in Item, Record(i) PROVE OutboxTypeOK'
  <2>1. fresh' \subseteq Item /\ live' \subseteq Item
    BY <1>1 DEF Record
  <2> QED BY <1>1, <2>1 DEF Record
<1>2. CASE CaptureRead
  <2> DEFINE q == [id |-> nextBatch, at |-> now + 1, rows |-> SetToSeq(live)]
  <2>1. q \in Batch  BY LiveRows DEF Batch
  <2>2. nextBatch' \in Nat \ {0} /\ storage' \in Nat /\ now' \in Nat
    BY <1>2, LiveRows DEF CaptureRead
  <2>3. capturing' = {q}  BY <1>2 DEF CaptureRead
  <2> QED BY <1>2, <2>1, <2>2, <2>3 DEF CaptureRead
<1>3. CASE CaptureReset
  BY <1>3 DEF CaptureReset
<1>4. CASE CaptureCommit
  <2>1. outbox' \subseteq Batch /\ capturing' \subseteq Batch
    BY <1>4 DEF CaptureCommit
  <2>2. captured' \subseteq [epoch : Nat, batch : Batch]
    BY <1>4 DEF CaptureCommit
  <2> QED BY <1>4, <2>1, <2>2 DEF CaptureCommit
<1>5. CASE CaptureAbort
  BY <1>5 DEF CaptureAbort
<1>6. CASE Tick
  BY <1>6 DEF Tick, captureVars
<1>7. CASE Rebuild
  <2>1. live' \subseteq Item /\ outbox' \subseteq Batch /\ capturing' \subseteq Batch
    BY <1>7 DEF Rebuild
  <2>2. /\ now' \in Nat /\ nextBatch' \in Nat \ {0} /\ storage' \in Nat
        /\ epoch' \in Nat
    BY <1>7 DEF Rebuild
  <2>4. resetDone' \in BOOLEAN
    BY <1>7 DEF Rebuild
  <2>3. /\ fresh' \subseteq Item
        /\ captured' \subseteq [epoch : Nat, batch : Batch]
    BY <1>7 DEF Rebuild
  <2> QED BY <2>1, <2>2, <2>3, <2>4
<1>8. ASSUME NEW b \in Nat, AckBatch(b) PROVE OutboxTypeOK'
  <2>1. outbox' \subseteq Batch
    BY <1>8 DEF AckBatch
  <2> QED BY <1>8, <2>1 DEF AckBatch, captureVars
<1>9. CASE UNCHANGED outboxVars
  BY <1>9 DEF outboxVars
<1> QED BY <1>1, <1>2, <1>3, <1>4, <1>5, <1>6, <1>7, <1>8, <1>9 DEF Capture

(* An empty outbox is well typed.                                          *)
LEMMA OutboxInitType == OutboxInit => OutboxTypeOK
<1> SUFFICES ASSUME OutboxInit PROVE OutboxTypeOK
  OBVIOUS
<1>1. /\ now \in Nat /\ nextBatch \in Nat \ {0} /\ storage \in Nat /\ epoch \in Nat
  BY DEF OutboxInit
<1>3. resetDone \in BOOLEAN
  BY DEF OutboxInit
<1>2. /\ fresh \subseteq Item /\ live \subseteq Item
      /\ outbox \subseteq Batch /\ capturing \subseteq Batch
      /\ captured \subseteq [epoch : Nat, batch : Batch]
  BY DEF OutboxInit
<1> QED BY <1>1, <1>2, <1>3 DEF OutboxTypeOK

(* The tables of the outbox on its own stay well typed.                    *)
THEOREM OutboxType == OutboxSpec => []OutboxTypeOK
<1>2. OutboxTypeOK /\ [OutboxNext]_outboxVars => OutboxTypeOK'
  BY OutboxStepType, OutboxBoundsAssumption DEF OutboxNext
<1> QED BY OutboxInitType, <1>2, PTL DEF OutboxSpec

-----------------------------------------------------------------------------
Rows(q) == ToSet(q.rows)

(* What a capture exports is in its batch until the reset discards it, and *)
(* nowhere else after it.                                                  *)
ExportInv ==
  /\ live \cap fresh = {}
  /\ resetDone => capturing # {}
  /\ \A c \in captured : Rows(c.batch) \cap (fresh \cup live) = {}
  /\ \A q \in capturing :
       /\ Rows(q) \cap fresh = {}
       /\ IF resetDone THEN Rows(q) \cap live = {} ELSE Rows(q) \subseteq live
       /\ \A c \in captured : Rows(c.batch) \cap Rows(q) = {}
       /\ \A p \in capturing : p = q
  /\ CapturedOnce

(* Ids follow the order of captures, the open one is the newest, and none  *)
(* was opened behind an overdue batch.                                     *)
OrderInv ==
  /\ \A q \in outbox \cup capturing : q.id < nextBatch
  /\ \A q \in capturing :
       /\ \A p \in outbox : p.id < q.id /\ q.at - p.at <= MaxOutboxAge
       /\ \A p \in capturing : p = q
  /\ CapturedInTime

CaptureInv == OutboxTypeOK /\ ExportInv /\ OrderInv

(* The sequence of a capture has the live rows and no others.              *)
LEMMA ExportedRows ==
  ASSUME OutboxTypeOK
  PROVE  ToSet(SetToSeq(live)) \subseteq live
<1>1. IsFiniteSet(live)
  BY ItemAssumption, FS_Subset DEF OutboxTypeOK
<1> DEFINE s == SetToSeq(live)
<1>2. s \in Seq(live)
  BY <1>1, SetToSeqIsSeq
<1> HIDE DEF s
<1>3. \A i \in DOMAIN s : s[i] \in live
  BY <1>2
<1> QED BY <1>3 DEF s, ToSet

(* No step of the outbox brings an exported row back.                      *)
LEMMA ExportStep ==
  ASSUME OutboxTypeOK, ExportInv, [OutboxNext]_outboxVars
  PROVE  ExportInv'
<1> USE DEF ExportInv, CapturedOnce
<1>1. ASSUME NEW i \in Item, Record(i) PROVE ExportInv'
  <2>1. /\ fresh' = fresh \ {i} /\ live' = live \cup {i} /\ i \in fresh
        /\ UNCHANGED <<capturing, captured, resetDone>>
    BY <1>1 DEF Record
  <2> QED BY <2>1
<1>2. CASE CaptureRead
  <2> DEFINE q == [id |-> nextBatch, at |-> now + 1, rows |-> SetToSeq(live)]
  <2>1. /\ capturing' = {q} /\ UNCHANGED <<fresh, live, captured, resetDone>>
    BY <1>2 DEF CaptureRead
  <2>2. Rows(q) \subseteq live
    BY ExportedRows DEF Rows
  <2>3. ~resetDone
    BY <1>2 DEF CaptureRead
  <2> HIDE DEF q
  <2> QED BY <2>1, <2>2, <2>3
<1>3. CASE CaptureReset
  BY <1>3 DEF CaptureReset
<1>4. CASE CaptureCommit
  <2>1. /\ resetDone /\ ~resetDone' /\ capturing' = {} /\ UNCHANGED <<fresh, live>>
        /\ captured' = captured \cup {[epoch |-> epoch, batch |-> q] : q \in capturing}
    BY <1>4 DEF CaptureCommit
  <2>2. ASSUME NEW c \in captured'
        PROVE  \/ c \in captured
               \/ \E q \in capturing : c = [epoch |-> epoch, batch |-> q]
    BY <2>1
  <2>3. ASSUME NEW c \in captured' PROVE Rows(c.batch) \cap (fresh \cup live) = {}
    BY <2>1, <2>2
  <2>4. ASSUME NEW c \in captured', NEW d \in captured', c # d
        PROVE  Rows(c.batch) \cap Rows(d.batch) = {}
    <3>1. CASE c \in captured /\ d \in captured
      BY <2>4, <3>1 DEF Rows
    <3>2. CASE c \in captured /\ \E q \in capturing : d = [epoch |-> epoch, batch |-> q]
      BY <3>2
    <3>3. CASE d \in captured /\ \E q \in capturing : c = [epoch |-> epoch, batch |-> q]
      BY <3>3
    <3>4. CASE /\ \E q \in capturing : c = [epoch |-> epoch, batch |-> q]
               /\ \E q \in capturing : d = [epoch |-> epoch, batch |-> q]
      <4>1. PICK q \in capturing : c = [epoch |-> epoch, batch |-> q]
        BY <3>4
      <4>2. PICK p \in capturing : d = [epoch |-> epoch, batch |-> p]
        BY <3>4
      <4>3. p = q
        OBVIOUS
      <4> QED BY <2>4, <4>1, <4>2, <4>3
    <3> QED BY <2>2, <3>1, <3>2, <3>3, <3>4
  <2>5. CapturedOnce'
    BY <2>4 DEF Rows
  <2> QED BY <2>1, <2>3, <2>5
<1>5. CASE CaptureAbort
  BY <1>5 DEF CaptureAbort
<1>6. CASE Tick
  BY <1>6 DEF Tick, captureVars
<1>7. CASE \E b \in 1..MaxBatch : AckBatch(b)
  BY <1>7 DEF AckBatch, captureVars
<1>8. CASE UNCHANGED outboxVars
  BY <1>8 DEF outboxVars
<1> QED BY <1>1, <1>2, <1>3, <1>4, <1>5, <1>6, <1>7, <1>8 DEF OutboxNext, Capture

(* No step of the outbox lets a batch follow an overdue one.               *)
LEMMA OrderStep ==
  ASSUME OutboxTypeOK, OrderInv, [OutboxNext]_outboxVars
  PROVE  OrderInv'
<1> USE DEF OrderInv, CapturedInTime
<1>0. /\ now \in Nat /\ nextBatch \in Nat
      /\ outbox \subseteq Batch /\ capturing \subseteq Batch
      /\ \A q \in Batch : q.id \in Nat /\ q.at \in Nat
  BY DEF OutboxTypeOK, Batch
<1>1. ASSUME NEW i \in Item, Record(i) PROVE OrderInv'
  BY <1>1 DEF Record
<1>2. CASE CaptureRead
  <2> DEFINE q == [id |-> nextBatch, at |-> now + 1, rows |-> SetToSeq(live)]
  <2>1. /\ capturing' = {q} /\ outbox' = outbox /\ nextBatch' = nextBatch + 1
        /\ WithinLimits
    BY <1>2 DEF CaptureRead
  <2>2. q.id = nextBatch /\ q.at = now + 1
    OBVIOUS
  <2> HIDE DEF q
  <2>3. ASSUME NEW p \in outbox PROVE p.id < q.id /\ q.at - p.at <= MaxOutboxAge
    <3>1. now - p.at < MaxOutboxAge
      BY <2>1 DEF WithinLimits
    <3>2. p.at \in Nat /\ p.id < nextBatch
      BY <1>0
    <3> QED BY <1>0, <2>2, <3>1, <3>2, OutboxLimitsAssumption
  <2>4. ASSUME NEW p \in outbox' \cup capturing' PROVE p.id < nextBatch'
    BY <1>0, <2>1, <2>2, <2>4
  <2>5. CapturedInTime'
    BY <2>1
  <2> QED BY <2>1, <2>3, <2>4, <2>5
<1>3. CASE CaptureReset
  BY <1>3 DEF CaptureReset
<1>4. CASE CaptureCommit
  <2>1. outbox' = outbox \cup capturing /\ capturing' = {} /\ nextBatch' = nextBatch
    BY <1>4 DEF CaptureCommit
  <2>2. ASSUME NEW q \in outbox', NEW p \in outbox', p.id < q.id
        PROVE  q.at - p.at <= MaxOutboxAge
    <3>1. q.id \in Nat /\ p.id \in Nat
      BY <1>0, <2>1
    <3>2. CASE q \in capturing /\ p \in capturing
      <4>1. p = q  BY <3>2
      <4> QED BY <2>2, <3>1, <4>1
    <3>3. CASE q \in outbox /\ p \in capturing
      <4>1. q.id < p.id  BY <3>3
      <4> QED BY <2>2, <3>1, <4>1
    <3> QED BY <2>1, <2>2, <3>2, <3>3
  <2>3. CapturedInTime'
    BY <2>2
  <2> QED BY <2>1, <2>3
<1>5. CASE CaptureAbort
  BY <1>5 DEF CaptureAbort
<1>6. CASE Tick
  BY <1>6 DEF Tick, captureVars
<1>7. CASE \E b \in 1..MaxBatch : AckBatch(b)
  BY <1>7 DEF AckBatch, captureVars
<1>8. CASE UNCHANGED outboxVars
  BY <1>8 DEF outboxVars
<1> QED BY <1>1, <1>2, <1>3, <1>4, <1>5, <1>6, <1>7, <1>8 DEF OutboxNext, Capture

(* The outbox keeps its types, its exports apart and its captures ordered. *)
LEMMA CaptureInvariant == OutboxSpec => []CaptureInv
<1>1. OutboxInit => CaptureInv
  BY OutboxInitType DEF OutboxInit, CaptureInv, ExportInv, OrderInv, CapturedOnce,
                        CapturedInTime
<1>2. CaptureInv /\ [OutboxNext]_outboxVars => CaptureInv'
  BY ExportStep, OrderStep, OutboxStepType DEF CaptureInv, OutboxNext
<1> QED BY <1>1, <1>2, PTL DEF OutboxSpec

(* A row is exported in at most one committed batch, wherever captures     *)
(* roll back: the batch is read before the reset and committed after it    *)
(* (capture_and_reset).                                                    *)
THEOREM RowsExportedOnce == OutboxSpec => []CapturedOnce
<1>1. CaptureInv => CapturedOnce
  BY DEF CaptureInv, ExportInv
<1> QED BY CaptureInvariant, <1>1, PTL

(* No batch is captured behind an overdue one (the age check of            *)
(* assert_outbox_within_limits), however acknowledgements interleave.      *)
THEOREM NothingBehindOverdue == OutboxSpec => []CapturedInTime
<1>1. CaptureInv => CapturedInTime
  BY DEF CaptureInv, OrderInv
<1> QED BY CaptureInvariant, <1>1, PTL

-----------------------------------------------------------------------------
(* Sums over the rows of pending batches.  The fold of the community       *)
(* modules is a recursive function; the facts about it follow from the     *)
(* least set that would break them.                                        *)
RowSum(S) == MapThenSumSet(LAMBDA q : Len(q.rows), S)

(* The element the fold takes next. *)
First(s) == CHOOSE x \in s : TRUE

SumStep(g, s) ==
  IF s = {} THEN 0 ELSE Len(First(s).rows) + g[s \ {First(s)}]

(* A function that sums up every subset of S. *)
Summing(g, S) == \A s \in SUBSET S : g[s] = SumStep(g, s)

Partial(S) == CHOOSE g : g = [s \in SUBSET S |-> SumStep(g, s)]

LEMMA RowSumUnfolds == ASSUME NEW S PROVE RowSum(S) = Partial(S)[S]
BY DEF RowSum, Partial, SumStep, First, MapThenSumSet, MapThenFoldSet

(* Of the subsets of a finite set with some property, one has no smaller   *)
(* one by one element.                                                     *)
LEMMA LeastSet ==
  ASSUME NEW S, IsFiniteSet(S), NEW P \in SUBSET (SUBSET S), P # {}
  PROVE  \E s \in P : \A x \in s : s \ {x} \notin P
<1> DEFINE T == {Cardinality(s) : s \in P}
<1>1. \A s \in P : IsFiniteSet(s) /\ Cardinality(s) \in Nat
  BY FS_Subset, FS_CardinalityType
<1>2. T \in SUBSET Nat /\ T # {}
  BY <1>1
<1>3. PICK m \in T : \A k \in T : m <= k
  <2> HIDE DEF T
  <2> QED BY <1>2, LeastNat
<1>4. PICK s \in P : Cardinality(s) = m
  BY <1>3
<1>5. ASSUME NEW x \in s, s \ {x} \in P PROVE FALSE
  <2>1. Cardinality(s \ {x}) = Cardinality(s) - 1
    BY <1>1, FS_RemoveElement
  <2>2. m <= Cardinality(s) - 1
    BY <1>3, <1>5, <2>1
  <2> QED BY <1>1, <1>4, <2>2
<1> QED BY <1>4, <1>5

(* The element taken is one of the set.                                    *)
LEMMA FirstIn == ASSUME NEW s, s # {} PROVE First(s) \in s
BY DEF First

(* Up to any size there is such a function ...                             *)
LEMMA SummingUpTo ==
  ASSUME NEW S, IsFiniteSet(S), NEW n \in Nat
  PROVE  \E g : \A s \in SUBSET S : Cardinality(s) <= n => g[s] = SumStep(g, s)
<1> DEFINE Good(m) == \E g : \A s \in SUBSET S : Cardinality(s) <= m => g[s] = SumStep(g, s)
           T == {m \in Nat : ~Good(m)}
<1> SUFFICES ASSUME T # {} PROVE FALSE
  OBVIOUS
<1>1. PICK m \in T : \A k \in T : m <= k
  <2>1. T \in SUBSET Nat
    OBVIOUS
  <2> HIDE DEF T
  <2> QED BY <2>1, LeastNat
<1>2. \A s \in SUBSET S : IsFiniteSet(s) /\ Cardinality(s) \in Nat
  BY FS_Subset, FS_CardinalityType
<1>3. CASE m = 0
  <2> DEFINE g == [s \in SUBSET S |-> 0]
  <2>1. ASSUME NEW s \in SUBSET S, Cardinality(s) <= m PROVE g[s] = SumStep(g, s)
    <3>1. s = {}
      BY <1>2, <1>3, <2>1, FS_EmptySet
    <3> QED BY <3>1 DEF SumStep
  <2> HIDE DEF g
  <2>2. Good(m)
    BY <2>1
  <2> QED BY <2>2, <1>1
<1>4. CASE m # 0
  <2>1. m - 1 \in Nat /\ m - 1 \notin T
    BY <1>1, <1>4
  <2>2. PICK g : \A s \in SUBSET S : Cardinality(s) <= m - 1 => g[s] = SumStep(g, s)
    BY <2>1
  <2> DEFINE f == [s \in SUBSET S |-> SumStep(g, s)]
  <2>3. ASSUME NEW s \in SUBSET S, Cardinality(s) <= m PROVE f[s] = SumStep(f, s)
    <3>1. CASE s = {}
      BY <3>1 DEF SumStep
    <3>2. CASE s # {}
      <4> DEFINE r == s \ {First(s)}
      <4>1. r \in SUBSET S /\ Cardinality(r) <= m - 1
        BY <1>1, <1>2, <2>3, <3>2, FirstIn, FS_RemoveElement
      <4>2. g[r] = SumStep(g, r)
        <5> HIDE DEF r
        <5> QED BY <2>2, <4>1
      <4>3. f[r] = g[r]
        <5> HIDE DEF r
        <5> QED BY <4>1, <4>2
      <4>4. f[s] = Len(First(s).rows) + g[r]
        BY <3>2 DEF SumStep
      <4>5. SumStep(f, s) = Len(First(s).rows) + f[r]
        BY <3>2 DEF SumStep
      <4> HIDE DEF f, r
      <4> QED BY <4>3, <4>4, <4>5
    <3> QED BY <3>1, <3>2
  <2> HIDE DEF f
  <2>4. Good(m)
    BY <2>3
  <2> QED BY <2>4, <1>1
<1> QED BY <1>3, <1>4

(* ... so the fold is one.                                                 *)
LEMMA PartialSums ==
  ASSUME NEW S, IsFiniteSet(S)
  PROVE  Summing(Partial(S), S)
<1>1. PICK g : \A s \in SUBSET S : Cardinality(s) <= Cardinality(S) => g[s] = SumStep(g, s)
  BY FS_CardinalityType, SummingUpTo
<1>2. \A s \in SUBSET S : g[s] = SumStep(g, s)
  BY <1>1, FS_Subset
<1> DEFINE f == [s \in SUBSET S |-> g[s]]
<1>3. ASSUME NEW s \in SUBSET S PROVE f[s] = SumStep(f, s)
  <2>1. s \ {First(s)} \in SUBSET S
    OBVIOUS
  <2> QED BY <1>2, <2>1 DEF SumStep
<1>4. f = [s \in SUBSET S |-> SumStep(f, s)]
  BY <1>3
<1> HIDE DEF f
<1>5. Partial(S) = [s \in SUBSET S |-> SumStep(Partial(S), s)]
  BY <1>4 DEF Partial
<1> HIDE DEF Partial
<1> QED BY <1>5 DEF Summing

(* Two such functions agree where both are defined.                        *)
LEMMA SummingAgree ==
  ASSUME NEW S, NEW R, NEW g, NEW h, Summing(g, S), Summing(h, R),
         NEW T, IsFiniteSet(T), T \subseteq S, T \subseteq R
  PROVE  g[T] = h[T]
<1> DEFINE P == {s \in SUBSET T : g[s] # h[s]}
<1> SUFFICES ASSUME P # {} PROVE FALSE
  OBVIOUS
<1>1. PICK s \in P : \A x \in s : s \ {x} \notin P
  <2>1. P \in SUBSET (SUBSET T)
    OBVIOUS
  <2> HIDE DEF P
  <2> QED BY <2>1, LeastSet
<1>2. g[s] = SumStep(g, s) /\ h[s] = SumStep(h, s)
  BY DEF Summing
<1>3. CASE s = {}
  BY <1>2, <1>3 DEF SumStep
<1>4. CASE s # {}
  <2>1. s \ {First(s)} \in SUBSET T /\ s \ {First(s)} \notin P
    BY <1>1, <1>4, FirstIn
  <2>2. g[s \ {First(s)}] = h[s \ {First(s)}]
    BY <2>1
  <2>3. g[s] = h[s]
    BY <1>2, <1>4, <2>2 DEF SumStep
  <2> QED BY <2>3
<1> QED BY <1>3, <1>4

(* The sum, one element at a time.                                         *)
LEMMA RowSumStep ==
  ASSUME NEW S, IsFiniteSet(S)
  PROVE  RowSum(S) = IF S = {} THEN 0
                     ELSE Len(First(S).rows) + RowSum(S \ {First(S)})
<1>1. RowSum(S) = SumStep(Partial(S), S)
  BY PartialSums, RowSumUnfolds DEF Summing
<1>2. CASE S = {}
  BY <1>1, <1>2 DEF SumStep
<1>3. CASE S # {}
  <2> DEFINE R == S \ {First(S)}
  <2>1. IsFiniteSet(R) /\ R \subseteq S
    BY FS_Subset
  <2> HIDE DEF R
  <2>2. Partial(S)[R] = Partial(R)[R]
    BY <2>1, PartialSums, SummingAgree
  <2>3. RowSum(S) = Len(First(S).rows) + Partial(S)[R]
    BY <1>1, <1>3 DEF SumStep, R
  <2>4. RowSum(S) = Len(First(S).rows) + RowSum(R)
    BY <2>2, <2>3, RowSumUnfolds
  <2> QED BY <1>3, <2>4 DEF R
<1> QED BY <1>2, <1>3

(* Batches hold a natural number of rows together.                         *)
LEMMA RowSumNat ==
  ASSUME NEW S \in SUBSET Batch, IsFiniteSet(S)
  PROVE  RowSum(S) \in Nat
<1> DEFINE P == {s \in SUBSET S : RowSum(s) \notin Nat}
<1> SUFFICES ASSUME P # {} PROVE FALSE
  OBVIOUS
<1>1. PICK s \in P : \A x \in s : s \ {x} \notin P
  <2>1. P \in SUBSET (SUBSET S)
    OBVIOUS
  <2> HIDE DEF P
  <2> QED BY <2>1, LeastSet
<1>2. IsFiniteSet(s)
  BY FS_Subset
<1>3. CASE s = {}
  <2>1. RowSum(s) = 0
    BY <1>2, <1>3, RowSumStep
  <2> QED BY <2>1
<1>4. CASE s # {}
  <2>1. First(s) \in s /\ s \ {First(s)} \in SUBSET S
    BY <1>4, FirstIn
  <2>2. RowSum(s \ {First(s)}) \in Nat
    BY <1>1, <2>1
  <2>3. Len(First(s).rows) \in Nat
    BY <2>1, LenProperties DEF Batch
  <2>4. RowSum(s) = Len(First(s).rows) + RowSum(s \ {First(s)})
    BY <1>2, <1>4, RowSumStep
  <2> QED BY <2>2, <2>3, <2>4
<1> QED BY <1>3, <1>4

(* Whichever element is taken first.                                       *)
LEMMA RowSumRemove ==
  ASSUME NEW S \in SUBSET Batch, IsFiniteSet(S), NEW x \in S
  PROVE  RowSum(S) = Len(x.rows) + RowSum(S \ {x})
<1> DEFINE Off(s, y) == RowSum(s) # Len(y.rows) + RowSum(s \ {y})
           P == {s \in SUBSET S : \E y \in s : Off(s, y)}
<1> SUFFICES ASSUME P # {} PROVE FALSE
  OBVIOUS
<1>1. PICK s \in P : \A y \in s : s \ {y} \notin P
  <2>1. P \in SUBSET (SUBSET S)
    OBVIOUS
  <2> HIDE DEF P
  <2> QED BY <2>1, LeastSet
<1>2. PICK y \in s : Off(s, y)
  BY <1>1
<1> DEFINE c == First(s)
<1>3. c \in s /\ IsFiniteSet(s)
  BY <1>2, FirstIn, FS_Subset
<1>4. RowSum(s) = Len(c.rows) + RowSum(s \ {c})
  BY <1>2, <1>3, RowSumStep
<1>5. c # y
  BY <1>2, <1>4
<1>6. /\ s \ {c} \in SUBSET S /\ s \ {y} \in SUBSET S
      /\ y \in s \ {c} /\ c \in s \ {y}
      /\ s \ {c} \notin P /\ s \ {y} \notin P
  BY <1>1, <1>2, <1>3, <1>5
<1>7. RowSum(s \ {c}) = Len(y.rows) + RowSum((s \ {c}) \ {y})
  BY <1>6
<1>8. RowSum(s \ {y}) = Len(c.rows) + RowSum((s \ {y}) \ {c})
  BY <1>6
<1>9. (s \ {c}) \ {y} = (s \ {y}) \ {c}
  OBVIOUS
<1>10. RowSum((s \ {y}) \ {c}) \in Nat
  <2>1. (s \ {y}) \ {c} \in SUBSET S
    OBVIOUS
  <2>2. IsFiniteSet((s \ {y}) \ {c}) /\ (s \ {y}) \ {c} \in SUBSET Batch
    BY <2>1, FS_Subset
  <2> QED BY <2>2, RowSumNat
<1>11. Len(c.rows) \in Nat /\ Len(y.rows) \in Nat
  BY <1>2, <1>3, LenProperties DEF Batch
<1>12. RowSum(s) = Len(y.rows) + RowSum(s \ {y})
  <2>1. PICK n \in Nat : n = RowSum((s \ {y}) \ {c})
    BY <1>10
  <2>2. RowSum(s \ {c}) = Len(y.rows) + n
    BY <1>7, <1>9, <2>1
  <2>3. RowSum(s \ {y}) = Len(c.rows) + n
    BY <1>8, <2>1
  <2> HIDE DEF c
  <2> QED BY <1>4, <1>11, <2>2, <2>3
<1> QED BY <1>2, <1>12

(* Fewer batches hold no more rows.                                        *)
LEMMA RowSumMonotone ==
  ASSUME NEW T \in SUBSET Batch, IsFiniteSet(T), NEW S \in SUBSET T
  PROVE  RowSum(S) <= RowSum(T)
<1> DEFINE P == {s \in SUBSET T : S \subseteq s /\ ~(RowSum(S) <= RowSum(s))}
<1> SUFFICES ASSUME P # {} PROVE FALSE
  OBVIOUS
<1>1. PICK s \in P : \A x \in s : s \ {x} \notin P
  <2>1. P \in SUBSET (SUBSET T)
    OBVIOUS
  <2> HIDE DEF P
  <2> QED BY <2>1, LeastSet
<1>2. /\ IsFiniteSet(s) /\ IsFiniteSet(S) /\ s \in SUBSET Batch /\ S \in SUBSET Batch
      /\ S \subseteq s /\ ~(RowSum(S) <= RowSum(s))
  BY <1>1, FS_Subset
<1>3. RowSum(S) \in Nat /\ RowSum(s) \in Nat
  BY <1>2, RowSumNat
<1>4. S # s
  BY <1>2, <1>3
<1>5. PICK x \in s : x \notin S
  BY <1>2, <1>4
<1>6. s \ {x} \in SUBSET T /\ S \subseteq s \ {x} /\ s \ {x} \notin P
  BY <1>1, <1>2, <1>5
<1>7. RowSum(S) <= RowSum(s \ {x})
  BY <1>6
<1>8. RowSum(s) = Len(x.rows) + RowSum(s \ {x})
  BY <1>2, RowSumRemove
<1>9. Len(x.rows) \in Nat /\ RowSum(s \ {x}) \in Nat
  <2>1. s \ {x} \in SUBSET Batch /\ IsFiniteSet(s \ {x}) /\ x \in Batch
    BY <1>2, FS_Subset
  <2> QED BY <2>1, RowSumNat, LenProperties DEF Batch
<1> QED BY <1>2, <1>3, <1>7, <1>8, <1>9

-----------------------------------------------------------------------------
(* Every batch, pending or being captured, found less than the limit of    *)
(* rows in front of it.                                                    *)
BacklogInv ==
  /\ CaptureInv
  /\ IsFiniteSet(outbox)
  /\ \A q \in outbox \cup capturing : RowsOlderThan(q) < MaxOutboxRows

(* The breaker at CaptureRead; later the rows in front of a batch only     *)
(* become fewer, since batches come in behind it.                          *)
LEMMA BacklogStep ==
  ASSUME BacklogInv, [OutboxNext]_outboxVars
  PROVE  BacklogInv'
<1> DEFINE Older(q) == {p \in outbox : p.id < q.id}
<1>1. /\ CaptureInv /\ OutboxTypeOK /\ OrderInv /\ IsFiniteSet(outbox)
      /\ outbox \subseteq Batch /\ capturing \subseteq Batch
      /\ \A q \in Batch : q.id \in Nat
  BY DEF BacklogInv, CaptureInv, OutboxTypeOK, Batch
<1>2. CaptureInv'
  BY <1>1, ExportStep, OrderStep, OutboxStepType DEF CaptureInv, OutboxNext
<1>3. \A q \in outbox \cup capturing : RowSum(Older(q)) < MaxOutboxRows
  BY DEF BacklogInv, RowsOlderThan, RowSum
<1>4. ASSUME NEW q PROVE RowsOlderThan(q)' = RowSum({p \in outbox' : p.id < q.id})
  BY DEF RowsOlderThan, RowSum, MapThenSumSet, MapThenFoldSet
<1>5. MaxOutboxRows \in Nat
  BY OutboxLimitsAssumption
<1>6. CASE CaptureRead
  <2>1. outbox' = outbox /\ PendingRows < MaxOutboxRows
    BY <1>6 DEF CaptureRead, WithinLimits
  <2>2. PICK n : capturing' = {n} /\ n.id = nextBatch
    <3> DEFINE q == [id |-> nextBatch, at |-> now + 1, rows |-> SetToSeq(live)]
    <3>1. capturing' = {q} /\ q.id = nextBatch
      BY <1>6 DEF CaptureRead
    <3> HIDE DEF q
    <3> QED BY <3>1
  <2>3. {p \in outbox' : p.id < n.id} = outbox
    BY <1>1, <2>1, <2>2 DEF OrderInv
  <2>4. RowsOlderThan(n)' < MaxOutboxRows
    <3>1. RowSum(outbox) < MaxOutboxRows
      BY <2>1 DEF PendingRows, RowSum
    <3>2. RowsOlderThan(n)' = RowSum({p \in outbox' : p.id < n.id})
      BY <1>4
    <3> QED BY <2>3, <3>1, <3>2
  <2>5. ASSUME NEW q \in outbox PROVE RowsOlderThan(q)' < MaxOutboxRows
    <3>1. {p \in outbox' : p.id < q.id} = Older(q)
      BY <2>1
    <3> HIDE DEF Older
    <3> QED BY <1>3, <1>4, <3>1
  <2>6. \A q \in outbox' \cup capturing' : RowsOlderThan(q)' < MaxOutboxRows
    BY <2>1, <2>2, <2>4, <2>5
  <2>7. IsFiniteSet(outbox')
    BY <1>1, <2>1
  <2> QED BY <1>2, <2>6, <2>7 DEF BacklogInv
<1>7. CASE CaptureCommit
  <2>1. outbox' = outbox \cup capturing /\ capturing' = {}
    BY <1>7 DEF CaptureCommit
  <2>2. \A q \in capturing : capturing = {q}
    BY <1>1 DEF OrderInv
  <2>3. IsFiniteSet(outbox')
    <3>1. CASE capturing = {}
      BY <1>1, <2>1, <3>1
    <3>2. CASE capturing # {}
      <4>1. PICK q \in capturing : capturing = {q}
        BY <2>2, <3>2
      <4> QED BY <1>1, <2>1, <4>1, FS_AddElement
    <3> QED BY <3>1, <3>2
  <2>4. ASSUME NEW q \in outbox \cup capturing
        PROVE  {p \in outbox' : p.id < q.id} = Older(q)
    <3>1. ASSUME NEW p \in capturing PROVE ~(p.id < q.id)
      <4>1. CASE q \in outbox
        <5>1. q.id < p.id /\ q.id \in Nat /\ p.id \in Nat
          BY <1>1, <4>1 DEF OrderInv
        <5> QED BY <5>1
      <4>2. CASE q \in capturing
        <5>1. p = q /\ q.id \in Nat
          BY <1>1, <2>2, <4>2
        <5> QED BY <5>1
      <4> QED BY <4>1, <4>2
    <3> QED BY <2>1, <3>1
  <2>5. ASSUME NEW q \in outbox' PROVE RowsOlderThan(q)' < MaxOutboxRows
    <3> HIDE DEF Older
    <3> QED BY <1>3, <1>4, <2>1, <2>4
  <2> QED BY <1>2, <2>1, <2>3, <2>5 DEF BacklogInv
<1>8. CASE ~CaptureRead /\ ~CaptureCommit
  <2>1. outbox' \subseteq outbox /\ capturing' \subseteq capturing
    <3>1. CASE \E i \in Item : Record(i)
      BY <3>1 DEF Record
    <3>2. CASE CaptureReset \/ CaptureAbort
      BY <3>2 DEF CaptureReset, CaptureAbort
    <3>3. CASE Tick \/ \E b \in 1..MaxBatch : AckBatch(b)
      BY <3>3 DEF Tick, AckBatch, captureVars
    <3>4. CASE UNCHANGED outboxVars
      BY <3>4 DEF outboxVars
    <3> QED BY <1>8, <3>1, <3>2, <3>3, <3>4 DEF OutboxNext, Capture
  <2>2. IsFiniteSet(outbox')
    BY <1>1, <2>1, FS_Subset
  <2>3. ASSUME NEW q \in outbox' \cup capturing' PROVE RowsOlderThan(q)' < MaxOutboxRows
    <3> DEFINE fewer == {p \in outbox' : p.id < q.id}
    <3>1. fewer \in SUBSET Older(q)
      BY <2>1
    <3>2. Older(q) \in SUBSET Batch /\ IsFiniteSet(Older(q))
      BY <1>1, FS_Subset
    <3>3. fewer \in SUBSET Batch /\ IsFiniteSet(fewer)
      BY <3>1, <3>2, FS_Subset
    <3>4. RowSum(Older(q)) < MaxOutboxRows
      BY <1>3, <2>1
    <3>5. RowsOlderThan(q)' = RowSum(fewer)
      BY <1>4
    <3> HIDE DEF Older, fewer
    <3>6. RowSum(fewer) <= RowSum(Older(q))
      BY <3>1, <3>2, RowSumMonotone
    <3>7. RowSum(fewer) \in Nat /\ RowSum(Older(q)) \in Nat
      BY <3>2, <3>3, RowSumNat
    <3> QED BY <1>5, <3>4, <3>5, <3>6, <3>7
  <2> QED BY <1>2, <2>2, <2>3 DEF BacklogInv
<1> QED BY <1>6, <1>7, <1>8

(* The backlog overshoots max_outbox_rows by at most its newest batch,     *)
(* whatever is captured and acknowledged in what order                     *)
(* (assert_outbox_within_limits).                                          *)
THEOREM BacklogLimited == OutboxSpec => []BacklogBounded
<1>1. OutboxInit => BacklogInv
  <2> SUFFICES ASSUME OutboxInit PROVE BacklogInv
    OBVIOUS
  <2>1. outbox = {} /\ capturing = {}
    BY DEF OutboxInit
  <2>2. CaptureInv
    BY OutboxInitType DEF OutboxInit, CaptureInv, ExportInv, OrderInv, CapturedOnce,
                          CapturedInTime
  <2> QED BY <2>1, <2>2, FS_EmptySet DEF BacklogInv
<1>2. BacklogInv /\ [OutboxNext]_outboxVars => BacklogInv'
  BY BacklogStep
<1>3. BacklogInv => BacklogBounded
  BY DEF BacklogInv, BacklogBounded
<1> QED BY <1>1, <1>2, <1>3, PTL DEF OutboxSpec

-----------------------------------------------------------------------------
(* The pipeline.                                                           *)

(* ListHeaders returns headers.                                            *)
LEMMA ListHeadersType ==
  ASSUME OutboxTypeOK, NEW limit
  PROVE  ListHeaders(limit) \in SUBSET Header
<1> SUFFICES ASSUME NEW q \in outbox PROVE HeaderOf(q) \in Header
  BY DEF ListHeaders
<1>1. q \in Batch
  BY DEF OutboxTypeOK
<1> QED BY <1>1, LenProperties DEF Batch, Header, HeaderOf

(* The loop over the headers moves on.                                     *)
LEMMA NextHeaderType ==
  ASSUME WorkerTypeOK, NEW w \in AnyWorker, NEW h, NextHeader(w, h)
  PROVE  /\ pc' \in [AnyWorker -> Location]
         /\ todo' \in [AnyWorker -> SUBSET Header]
         /\ xfer' \in [AnyWorker -> [no : Nat, off : Nat, chunk : SUBSET Chunk]]
<1>1. NoTransfer \in [no : Nat, off : Nat, chunk : SUBSET Chunk]
  BY DEF NoTransfer
<1>2. xfer' \in [AnyWorker -> [no : Nat, off : Nat, chunk : SUBSET Chunk]]
  BY <1>1 DEF NextHeader, WorkerTypeOK
<1>3. todo[w] \ {h} \in SUBSET Header
  BY DEF WorkerTypeOK
<1>4. todo' \in [AnyWorker -> SUBSET Header]
  BY <1>3 DEF NextHeader, WorkerTypeOK
<1>5. pc' \in [AnyWorker -> Location]
  BY DEF NextHeader, Goto, WorkerTypeOK, Location
<1> QED BY <1>2, <1>4, <1>5

(* After a chunk the worker's cursor is well typed.                        *)
LEMMA ChunkTransferredType ==
  ASSUME WorkerTypeOK, NEW w \in AnyWorker, NEW c \in xfer[w].chunk,
         ChunkTransferred(w, c)
  PROVE  WorkerTypeOK'
<1>1. c \in Chunk /\ xfer[w] \in [no : Nat, off : Nat, chunk : SUBSET Chunk]
  BY DEF WorkerTypeOK
<1>2. Len(c.rows) \in Nat
  BY <1>1, LenProperties DEF Chunk
<1> DEFINE x == IF c.last THEN [xfer[w] EXCEPT !.chunk = {}]
                ELSE [no |-> xfer[w].no + 1, off |-> xfer[w].off + Len(c.rows),
                      chunk |-> {}]
<1>3. x \in [no : Nat, off : Nat, chunk : SUBSET Chunk]
  BY <1>1, <1>2
<1>4. xfer' = [xfer EXCEPT ![w] = x]
  BY DEF ChunkTransferred
<1> HIDE DEF x
<1>5. xfer' \in [AnyWorker -> [no : Nat, off : Nat, chunk : SUBSET Chunk]]
  BY <1>3, <1>4 DEF WorkerTypeOK
<1>6. pc' \in [AnyWorker -> Location]
  BY DEF ChunkTransferred, Goto, WorkerTypeOK, Location
<1> QED BY <1>5, <1>6 DEF ChunkTransferred, WorkerTypeOK

(* What one step of a worker, or one fault, does to the memory of the      *)
(* workers.                                                                *)
LEMMA WorkerActionType ==
  ASSUME TypeOK, NEW w \in AnyWorker, WorkerStep(w) \/ WorkerFault(w)
  PROVE  WorkerTypeOK'
<1>0. OutboxTypeOK /\ WorkerTypeOK
  BY DEF TypeOK
<1>1. CASE Connect(w)
  BY <1>0, <1>1 DEF Connect, Goto, WorkerTypeOK, OutboxTypeOK, Location
<1>2. CASE List(w)
  BY <1>0, <1>2, ListHeadersType DEF List, Goto, WorkerTypeOK, Location
<1>3. CASE SkipAcknowledged(w)
  BY <1>0, <1>3, NextHeaderType DEF SkipAcknowledged, WorkerTypeOK
<1>4. CASE FetchChunk(w)
  <2>1. PICK q \in outbox :
          /\ ~ChunkRaises(q.rows, xfer[w].off)
          /\ xfer' = [xfer EXCEPT ![w].chunk =
                        {ChunkAt(q.rows, xfer[w].no, xfer[w].off)}]
    BY <1>4 DEF FetchChunk
  <2>2. q.rows \in Seq(Item)
    BY <1>0 DEF OutboxTypeOK, Batch
  <2>3. xfer[w] \in [no : Nat, off : Nat, chunk : SUBSET Chunk]
    BY <1>0 DEF WorkerTypeOK
  <2>4. ChunkAt(q.rows, xfer[w].no, xfer[w].off) \in Chunk
    BY <2>1, <2>2, <2>3, ChunkIsPiece
  <2>5. xfer' \in [AnyWorker -> [no : Nat, off : Nat, chunk : SUBSET Chunk]]
    BY <1>0, <2>1, <2>3, <2>4 DEF WorkerTypeOK
  <2>6. pc' \in [AnyWorker -> Location]
    BY <1>0, <1>4 DEF FetchChunk, Goto, WorkerTypeOK, Location
  <2> QED BY <1>0, <1>4, <2>5, <2>6 DEF FetchChunk, WorkerTypeOK
<1>5. CASE IngestKnown(w)
  BY <1>0, <1>5, ChunkTransferredType DEF IngestKnown
<1>6. CASE IngestUnknown(w)
  BY <1>0, <1>6 DEF IngestUnknown, Goto, WorkerTypeOK, Location
<1>7. CASE Stage(w)
  BY <1>0, <1>7, ChunkTransferredType DEF Stage
<1>8. CASE FinalizeKnown(w)
  BY <1>0, <1>8 DEF FinalizeKnown, Goto, WorkerTypeOK, Location
<1>9. CASE FinalizeUnknown(w)
  BY <1>0, <1>9 DEF FinalizeUnknown, Goto, WorkerTypeOK, Location
<1>10. CASE FinalizeCommit(w)
  BY <1>0, <1>10 DEF FinalizeCommit, Goto, WorkerTypeOK, Location
<1>11. CASE Acknowledge(w)
  BY <1>0, <1>11, NextHeaderType DEF Acknowledge, WorkerTypeOK
<1>12. CASE BatchFailed(w) /\ (UNCHANGED faults \/ Fault)
  <2>1. PICK h \in todo[w] : NextHeader(w, h)
    BY <1>12 DEF BatchFailed
  <2>2. failed' \in [AnyWorker -> BOOLEAN]
    BY <1>0, <1>12 DEF BatchFailed, WorkerTypeOK
  <2>3. faults' \in Nat
    BY <1>0, <1>12 DEF Fault, WorkerTypeOK
  <2> QED BY <1>0, <1>12, <2>1, <2>2, <2>3, NextHeaderType DEF BatchFailed, WorkerTypeOK
<1>13. CASE LoseAckReply(w)
  <2>1. PICK h \in todo[w] : NextHeader(w, h)
    BY <1>13 DEF LoseAckReply
  <2>2. failed' \in [AnyWorker -> BOOLEAN]
    BY <1>0, <1>13 DEF LoseAckReply, WorkerTypeOK
  <2>3. faults' \in Nat
    BY <1>0, <1>13 DEF LoseAckReply, Fault, WorkerTypeOK
  <2> QED BY <1>0, <1>13, <2>1, <2>2, <2>3, NextHeaderType
          DEF LoseAckReply, WorkerTypeOK
<1>14. CASE EndCleanCycle(w)
  BY <1>0, <1>14 DEF EndCleanCycle, Goto, WorkerTypeOK, Location
<1>15. CASE EndFailedCycle(w)
  BY <1>0, <1>15 DEF EndFailedCycle, Goto, WorkerTypeOK, Location
<1>16. CASE RefuseCycle(w)
  BY <1>0, <1>16 DEF RefuseCycle, Goto, WorkerTypeOK, Location
<1>17. CASE LoseCycle(w)
  BY <1>0, <1>17 DEF LoseCycle, Fault, Goto, WorkerTypeOK, Location
<1>18. CASE Report(w)
  BY <1>0, <1>18 DEF Report, Goto, WorkerTypeOK, Location
<1>19. CASE LoseReport(w)
  BY <1>0, <1>19 DEF LoseReport, Fault, Goto, WorkerTypeOK, Location
<1>20. CASE Purge(w)
  <2>1. now + PurgeInterval \in Nat
    BY <1>0, TransportLimitsAssumption DEF OutboxTypeOK
  <2> QED BY <1>0, <1>20, <2>1 DEF Purge, Goto, WorkerTypeOK, Location
<1>21. CASE Crash(w)
  <2>1. NoTransfer \in [no : Nat, off : Nat, chunk : SUBSET Chunk]
    BY DEF NoTransfer
  <2>2. xfer' \in [AnyWorker -> [no : Nat, off : Nat, chunk : SUBSET Chunk]]
    BY <1>0, <1>21, <2>1 DEF Crash, WorkerTypeOK
  <2>3. /\ listed' \in [AnyWorker -> SUBSET Header]
        /\ todo' \in [AnyWorker -> SUBSET Header]
    BY <1>0, <1>21 DEF Crash, WorkerTypeOK
  <2>4. /\ failed' \in [AnyWorker -> BOOLEAN]
        /\ marker' \in [AnyWorker -> BOOLEAN]
    BY <1>0, <1>21 DEF Crash, WorkerTypeOK
  <2>5. nextPurge' \in [AnyWorker -> Nat] /\ faults' \in Nat
    BY <1>0, <1>21 DEF Crash, Fault, WorkerTypeOK
  <2>6. pc' \in [AnyWorker -> Location] /\ session' = session
    BY <1>0, <1>21 DEF Crash, Goto, WorkerTypeOK, Location
  <2> QED BY <1>0, <2>2, <2>3, <2>4, <2>5, <2>6 DEF WorkerTypeOK
<1>22. CASE LegacyFetch(w)
  <2> DEFINE piece(q) == [no |-> 1, offset |-> 0, rows |-> q.rows, last |-> TRUE]
  <2>1. PICK q \in outbox :
          /\ HeaderOf(q) \in ListHeaders(BatchLimit)
          /\ todo' = [todo EXCEPT ![w] = {HeaderOf(q)}]
          /\ xfer' = [xfer EXCEPT ![w].chunk = {piece(q)}]
    BY <1>22 DEF LegacyFetch
  <2>2. q.rows \in Seq(Item)
    BY <1>0 DEF OutboxTypeOK, Batch
  <2>3. piece(q) \in Chunk
    BY <2>2 DEF Chunk
  <2> HIDE DEF piece
  <2>4. xfer' \in [AnyWorker -> [no : Nat, off : Nat, chunk : SUBSET Chunk]]
    BY <1>0, <2>1, <2>3 DEF WorkerTypeOK
  <2>5. todo' \in [AnyWorker -> SUBSET Header]
    BY <1>0, <2>1, ListHeadersType DEF WorkerTypeOK
  <2>6. pc' \in [AnyWorker -> Location] /\ session' \in [AnyWorker -> Nat]
    BY <1>0, <1>22 DEF LegacyFetch, Goto, WorkerTypeOK, OutboxTypeOK, Location
  <2> QED BY <1>0, <1>22, <2>4, <2>5, <2>6 DEF LegacyFetch, WorkerTypeOK
<1>23. CASE LegacyTransfer(w)
  BY <1>0, <1>23 DEF LegacyTransfer, Goto, WorkerTypeOK, Location
<1> QED BY <1>1, <1>2, <1>3, <1>4, <1>5, <1>6, <1>7, <1>8, <1>9, <1>10, <1>11,
           <1>12, <1>13, <1>14, <1>15, <1>16, <1>17, <1>18, <1>19, <1>20, <1>21,
           <1>22, <1>23
        DEF WorkerStep, WorkerFault, RefuseBatch, LoseCall

(* What a worker does to the source: it acknowledges a batch, or nothing.  *)
LEMMA WorkerOutbox ==
  ASSUME TypeOK, NEW w \in AnyWorker, WorkerStep(w) \/ WorkerFault(w)
  PROVE  (\E b \in Nat : AckBatch(b)) \/ UNCHANGED outboxVars
<1>1. ASSUME NEW h \in todo[w], AckBatch(h.id)
      PROVE  \E b \in Nat : AckBatch(b)
  <2>1. h.id \in Nat
    BY DEF TypeOK, WorkerTypeOK, Header
  <2> QED BY <1>1, <2>1
<1>2. CASE Acknowledge(w) \/ LoseAckReply(w)
  BY <1>1, <1>2 DEF Acknowledge, LoseAckReply
<1>3. CASE ~(Acknowledge(w) \/ LoseAckReply(w))
  BY <1>3 DEF WorkerStep, WorkerFault, Connect, List, SkipAcknowledged,
     FetchChunk, IngestKnown, ChunkTransferred, IngestUnknown, Stage,
     FinalizeKnown, FinalizeUnknown, FinalizeCommit, RefuseBatch, BatchFailed,
     RefuseCycle, EndCleanCycle, EndFailedCycle, Report, Purge, LegacyFetch,
     LegacyTransfer, LoseCall, LoseCycle, LoseReport, Crash
<1> QED BY <1>2, <1>3

(* What a worker does to the repository: one call of one of its functions  *)
(* with well-typed arguments, or nothing.                                  *)
LEMMA WorkerRepo ==
  ASSUME TypeOK, NEW w \in AnyWorker, WorkerStep(w) \/ WorkerFault(w)
  PROVE  \/ \E h \in todo[w], c \in Chunk : StageChunk(h, c)
         \/ \E h \in todo[w] : FinalizeAgain(h.id)
         \/ \E h \in todo[w] : FinalizeNew(h.id)
         \/ \E h \in todo[w], c \in Chunk : LegacyIngest(h, c.rows)
         \/ RecordError
         \/ PurgeHistory(now)
         \/ UNCHANGED repoVars
<1>0. \A c \in xfer[w].chunk : c \in Chunk
  BY DEF TypeOK, WorkerTypeOK
<1>1. CASE Stage(w)
  BY <1>0, <1>1 DEF Stage
<1>2. CASE FinalizeKnown(w)
  BY <1>2 DEF FinalizeKnown
<1>3. CASE FinalizeCommit(w)
  BY <1>3 DEF FinalizeCommit
<1>4. CASE LegacyTransfer(w)
  BY <1>0, <1>4 DEF LegacyTransfer
<1>5. CASE Report(w)
  BY <1>5 DEF Report
<1>6. CASE Purge(w)
  BY <1>6 DEF Purge
<1>7. CASE ~ \/ Stage(w) \/ FinalizeKnown(w) \/ FinalizeCommit(w)
             \/ LegacyTransfer(w) \/ Report(w) \/ Purge(w)
  BY <1>7 DEF WorkerStep, WorkerFault, Connect, List, SkipAcknowledged,
     FetchChunk, IngestKnown, IngestUnknown, FinalizeUnknown, Acknowledge,
     RefuseBatch, BatchFailed, RefuseCycle, EndCleanCycle, EndFailedCycle,
     LegacyFetch, LoseCall, LoseAckReply, LoseCycle, LoseReport, Crash
<1> QED BY <1>1, <1>2, <1>3, <1>4, <1>5, <1>6, <1>7

(* Every step keeps every table and every worker's memory well typed.      *)
LEMMA TypeStep == TypeOK /\ [Next]_vars => TypeOK'
<1> SUFFICES ASSUME TypeOK, [Next]_vars PROVE TypeOK'
  OBVIOUS
<1>1. CASE SourceStep
  <2>1. OutboxTypeOK'
    BY <1>1, OutboxStepType DEF SourceStep, TypeOK
  <2>2. RepoTypeOK'
    BY <1>1 DEF SourceStep, TypeOK, repoVars, RepoTypeOK
  <2>3. WorkerTypeOK'
    BY <1>1 DEF SourceStep, TypeOK, workerVars, WorkerTypeOK
  <2> QED BY <2>1, <2>2, <2>3 DEF TypeOK
<1>2. ASSUME NEW w \in AnyWorker, WorkerStep(w) \/ WorkerFault(w)
      PROVE  TypeOK'
  <2>1. OutboxTypeOK'
    BY <1>2, WorkerOutbox, OutboxStepType DEF TypeOK
  <2>2. RepoTypeOK'
    <3>1. RepoTypeOK /\ now \in Nat
      BY DEF TypeOK, OutboxTypeOK
    <3>2. ASSUME NEW h \in todo[w] PROVE h \in Header /\ h.id \in Nat
      BY DEF TypeOK, WorkerTypeOK, Header
    <3>3. \A c \in Chunk : c.rows \in Seq(Item)
      BY DEF Chunk
    <3>4. UNCHANGED repoVars => RepoTypeOK'
      BY <3>1 DEF repoVars, RepoTypeOK
    <3> QED BY <1>2, <3>1, <3>2, <3>3, <3>4, WorkerRepo, StageChunkType,
               FinalizeAgainType, FinalizeNewType, LegacyIngestType,
               RecordErrorType, PurgeHistoryType
  <2>3. WorkerTypeOK'
    BY <1>2, WorkerActionType
  <2> QED BY <2>1, <2>2, <2>3 DEF TypeOK
<1>3. CASE UNCHANGED vars
  <2>1. OutboxTypeOK'
    BY <1>3, OutboxStepType DEF vars, TypeOK
  <2>2. RepoTypeOK'
    BY <1>3 DEF vars, TypeOK, repoVars, RepoTypeOK
  <2>3. WorkerTypeOK'
    BY <1>3 DEF vars, TypeOK, workerVars, WorkerTypeOK
  <2> QED BY <2>1, <2>2, <2>3 DEF TypeOK
<1> QED BY <1>1, <1>2, <1>3 DEF Next

(* Nothing has happened yet.                                               *)
LEMMA TypeInit == Init => TypeOK
<1> SUFFICES ASSUME Init PROVE TypeOK
  OBVIOUS
<1>1. OutboxTypeOK /\ RepoTypeOK
  BY OutboxInitType, RepoInitType DEF Init
<1>2. xfer \in [AnyWorker -> [no : Nat, off : Nat, chunk : SUBSET Chunk]]
  BY DEF Init, NoTransfer
<1>3. failed \in [AnyWorker -> BOOLEAN] /\ marker \in [AnyWorker -> BOOLEAN]
  BY DEF Init
<1>4. /\ session \in [AnyWorker -> Nat] /\ nextPurge \in [AnyWorker -> Nat]
      /\ faults \in Nat
  BY DEF Init
<1>5. /\ pc \in [AnyWorker -> Location]
      /\ listed \in [AnyWorker -> SUBSET Header]
      /\ todo \in [AnyWorker -> SUBSET Header]
  BY DEF Init, Location
<1> QED BY <1>1, <1>2, <1>3, <1>4, <1>5 DEF TypeOK, WorkerTypeOK

(***************************************************************************)
(* The tables of both databases and the memory of every daemon stay well   *)
(* typed: each row that is staged or published belongs to a batch with an  *)
(* id, a capture time and a row count, counters stay natural numbers and   *)
(* every chunk cursor stays inside the numbers fetch_batch_chunk takes.    *)
(***************************************************************************)
THEOREM TransportType == Spec => []TypeOK
BY TypeInit, TypeStep, PTL DEF Spec

-----------------------------------------------------------------------------
(* Two known headers with one id are one header.                           *)
LEMMA SameHeader ==
  ASSUME IdsUnique, NEW g \in KnownHeaders, NEW h \in KnownHeaders, g.id = h.id
  PROVE  g = h
<1>1. PICK c \in captured : g = HeaderOf(c.batch)
  BY DEF KnownHeaders
<1>2. PICK d \in captured : h = HeaderOf(d.batch)
  BY DEF KnownHeaders
<1>3. c.batch.id = d.batch.id
  BY <1>1, <1>2 DEF HeaderOf
<1> QED BY <1>1, <1>2, <1>3 DEF IdsUnique

(* A worker has one header in process.                                     *)
LEMMA OneInProcess ==
  ASSUME TypeOK, IdsUnique, HeadersKnown, NEW w \in AnyWorker,
         NEW g, NEW h, InProcess(w, g), InProcess(w, h)
  PROVE  g = h
<1>1. g \in todo[w] /\ h \in todo[w] /\ g.id <= h.id /\ h.id <= g.id
  BY DEF InProcess
<1>2. g.id \in Nat /\ h.id \in Nat
  BY <1>1 DEF TypeOK, WorkerTypeOK, Header
<1>3. g \in KnownHeaders /\ h \in KnownHeaders
  BY <1>1 DEF HeadersKnown
<1>4. g.id = h.id
  BY <1>1, <1>2
<1> QED BY <1>3, <1>4, SameHeader

(* A header whose id is final is delivered.                                *)
LEMMA FinalizedDelivered ==
  ASSUME IdsUnique, HeadersKnown, NEW h \in KnownHeaders, Finalized(h.id)
  PROVE  h \in delivered
<1>1. PICK f \in finals : f.id = h.id
  BY DEF Finalized
<1>2. f \in delivered /\ f \in KnownHeaders
  BY DEF HeadersKnown
<1> QED BY <1>1, <1>2, SameHeader

(* A captured batch whose id is not pending is delivered.                  *)
LEMMA GoneDelivered ==
  ASSUME IdsUnique, AckedWasDelivered, NEW h \in KnownHeaders, ~Pending(h.id)
  PROVE  h \in delivered
<1>1. PICK c \in captured : h = HeaderOf(c.batch)
  BY DEF KnownHeaders
<1>2. c.epoch = epoch
  BY DEF IdsUnique
<1>3. c.batch \in CapturedNow
  BY <1>2 DEF CapturedNow
<1>4. c.batch \notin outbox
  BY <1>1 DEF Pending, HeaderOf
<1> QED BY <1>1, <1>3, <1>4 DEF AckedWasDelivered

(* A worker's step leaves the other workers' memory alone.                 *)
LEMMA OthersUntouched ==
  ASSUME TypeOK, NEW w \in AnyWorker, WorkerStep(w) \/ WorkerFault(w)
  PROVE  \A v \in AnyWorker \ {w} : /\ pc'[v] = pc[v]
                                    /\ todo'[v] = todo[v]
                                    /\ listed'[v] = listed[v]
                                    /\ failed'[v] = failed[v]
                                    /\ xfer'[v] = xfer[v]
<1> SUFFICES ASSUME NEW v \in AnyWorker, v # w
             PROVE  /\ pc'[v] = pc[v] /\ todo'[v] = todo[v]
                    /\ listed'[v] = listed[v] /\ failed'[v] = failed[v]
                    /\ xfer'[v] = xfer[v]
  OBVIOUS
<1>1. WorkerTypeOK
  BY DEF TypeOK
<1>2. CASE WorkerFault(w) \/ RefuseBatch(w)
  BY <1>1, <1>2 DEF WorkerFault, LoseCall, LoseAckReply, LoseCycle, LoseReport,
     Crash, RefuseBatch, BatchFailed, NextHeader, Goto, WorkerTypeOK
<1>3. CASE WorkerStep(w) /\ ~RefuseBatch(w)
  BY <1>1, <1>3 DEF WorkerStep, Connect, List, SkipAcknowledged, FetchChunk,
     IngestKnown, ChunkTransferred, IngestUnknown, Stage, FinalizeKnown,
     FinalizeUnknown, FinalizeCommit, Acknowledge, RefuseCycle, EndCleanCycle,
     EndFailedCycle, Report, Purge, LegacyFetch, LegacyTransfer, NextHeader,
     Goto, WorkerTypeOK
<1> QED BY <1>2, <1>3

(* What a worker's step does to the shared history.                        *)
LEMMA WorkerHistory ==
  ASSUME TypeOK, NEW w \in AnyWorker, WorkerStep(w) \/ WorkerFault(w)
  PROVE  /\ UNCHANGED <<capturing, nextBatch, epoch, captured>>
         /\ outbox' \subseteq outbox
         /\ delivered \subseteq delivered'
         /\ finals' \ finals \subseteq delivered'
         /\ delivered' \subseteq delivered \cup staging \cup todo[w]
         /\ staging' \subseteq staging \cup todo[w]
<1>1. /\ UNCHANGED <<capturing, nextBatch, epoch, captured>>
      /\ outbox' \subseteq outbox
  BY WorkerOutbox DEF AckBatch, captureVars, outboxVars
<1>2. /\ delivered \subseteq delivered'
      /\ finals' \ finals \subseteq delivered'
      /\ delivered' \subseteq delivered \cup staging \cup todo[w]
      /\ staging' \subseteq staging \cup todo[w]
  <2>1. ASSUME NEW h \in todo[w], NEW c \in Chunk, StageChunk(h, c) PROVE <1>2!:
    BY <2>1 DEF StageChunk
  <2>2. ASSUME NEW h \in todo[w], FinalizeAgain(h.id) PROVE <1>2!:
    BY <2>2 DEF FinalizeAgain, DropStaging
  <2>3. ASSUME NEW h \in todo[w], FinalizeNew(h.id) PROVE <1>2!:
    <3>1. PICK s \in staging : finals' = finals \cup {s} /\ delivered' = delivered \cup {s}
      BY <2>3 DEF FinalizeNew
    <3>2. staging' \subseteq staging
      BY <2>3 DEF FinalizeNew, DropStaging
    <3> QED BY <3>1, <3>2
  <2>4. ASSUME NEW h \in todo[w], NEW c \in Chunk, LegacyIngest(h, c.rows) PROVE <1>2!:
    BY <2>4 DEF LegacyIngest
  <2>5. CASE RecordError
    BY <2>5 DEF RecordError
  <2>6. CASE PurgeHistory(now)
    BY <2>6 DEF PurgeHistory
  <2>7. CASE UNCHANGED repoVars
    BY <2>7 DEF repoVars
  <2> QED BY <2>1, <2>2, <2>3, <2>4, <2>5, <2>6, <2>7, WorkerRepo
<1> QED BY <1>1, <1>2

(* A worker handles known headers only.                                    *)
LEMMA TodoKnown ==
  ASSUME TypeOK, HeadersKnown, NEW w \in AnyWorker, WorkerStep(w) \/ WorkerFault(w)
  PROVE  todo'[w] \subseteq KnownHeaders
<1>1. WorkerTypeOK /\ todo[w] \subseteq KnownHeaders
  BY DEF TypeOK, HeadersKnown
<1>2. \A q \in outbox : HeaderOf(q) \in KnownHeaders
  BY DEF HeadersKnown, KnownHeaders
<1>3. ListHeaders(BatchLimit) \subseteq KnownHeaders
  BY <1>2 DEF ListHeaders
<1>4. CASE List(w)
  BY <1>1, <1>3, <1>4 DEF List, WorkerTypeOK
<1>5. CASE LegacyFetch(w)
  BY <1>1, <1>2, <1>5 DEF LegacyFetch, WorkerTypeOK
<1>6. CASE Crash(w)
  BY <1>1, <1>6 DEF Crash, WorkerTypeOK
<1>7. ASSUME NEW h \in todo[w], NextHeader(w, h) PROVE todo'[w] \subseteq KnownHeaders
  BY <1>1, <1>7 DEF NextHeader, WorkerTypeOK
<1>8. CASE \/ SkipAcknowledged(w) \/ Acknowledge(w) \/ RefuseBatch(w)
           \/ LoseCall(w) \/ LoseAckReply(w)
  BY <1>7, <1>8 DEF SkipAcknowledged, Acknowledge, RefuseBatch, LoseCall,
     LoseAckReply, BatchFailed
<1>9. CASE todo' = todo
  BY <1>1, <1>9
<1> QED BY <1>4, <1>5, <1>6, <1>8, <1>9 DEF WorkerStep, WorkerFault, Connect,
     FetchChunk, IngestKnown, ChunkTransferred, IngestUnknown, Stage,
     FinalizeKnown, FinalizeUnknown, FinalizeCommit, RefuseCycle, EndCleanCycle,
     EndFailedCycle, Report, Purge, LegacyTransfer, LoseCycle, LoseReport

(* Tables and workers name captures only.                                  *)
LEMMA WorkerHeaders ==
  ASSUME TypeOK, HeadersKnown, NEW w \in AnyWorker, WorkerStep(w) \/ WorkerFault(w)
  PROVE  HeadersKnown'
<1>1. KnownHeaders' = KnownHeaders
  BY WorkerHistory DEF KnownHeaders
<1>2. outbox' \subseteq {c.batch : c \in captured'}
  BY WorkerHistory DEF HeadersKnown
<1>3. \A v \in AnyWorker : todo'[v] \subseteq KnownHeaders
  BY TodoKnown, OthersUntouched DEF HeadersKnown
<1>4. /\ staging' \subseteq KnownHeaders
      /\ delivered' \subseteq KnownHeaders
      /\ finals' \subseteq delivered'
  BY WorkerHistory DEF HeadersKnown
<1> QED BY <1>1, <1>2, <1>3, <1>4 DEF HeadersKnown

(* A worker comes to acknowledge a batch only through a call that proves   *)
(* it durable.                                                             *)
LEMMA AckReached ==
  ASSUME TransportInv, NEW w \in AnyWorker, WorkerStep(w) \/ WorkerFault(w),
         pc'[w] = "ack", NEW h, InProcess(w, h)'
  PROVE  h \in delivered'
<1>1. WorkerTypeOK /\ TypeOK /\ IdsUnique /\ HeadersKnown
  BY DEF TransportInv, TypeOK
<1>2. ASSUME todo' = todo, NEW g \in todo[w], InProcess(w, g), g \in delivered'
      PROVE  h \in delivered'
  <2>1. InProcess(w, h)
    BY <1>2 DEF InProcess
  <2> QED BY <1>1, <1>2, <2>1, OneInProcess
<1>3. CASE FinalizeKnown(w)
  <2>1. PICK g \in todo[w] : InProcess(w, g) /\ FinalizeAgain(g.id)
    BY <1>3 DEF FinalizeKnown
  <2>2. g \in delivered /\ delivered' = delivered
    BY <1>1, <2>1, FinalizedDelivered DEF FinalizeAgain, HeadersKnown
  <2> QED BY <1>2, <1>3, <2>1, <2>2 DEF FinalizeKnown
<1>4. CASE FinalizeCommit(w)
  <2>1. PICK g \in todo[w] : InProcess(w, g) /\ (FinalizeNew(g.id) \/ FinalizeAgain(g.id))
    BY <1>4 DEF FinalizeCommit
  <2>2. g \in KnownHeaders
    BY <1>1 DEF HeadersKnown
  <2>3. CASE FinalizeAgain(g.id)
    <3>1. g \in delivered /\ delivered' = delivered
      BY <1>1, <2>2, <2>3, FinalizedDelivered DEF FinalizeAgain
    <3> QED BY <1>2, <1>4, <2>1, <3>1 DEF FinalizeCommit
  <2>4. CASE FinalizeNew(g.id)
    <3>1. PICK s \in staging : s.id = g.id /\ delivered' = delivered \cup {s}
      BY <2>4 DEF FinalizeNew
    <3>2. s = g
      BY <1>1, <2>2, <3>1, SameHeader DEF HeadersKnown
    <3> QED BY <1>2, <1>4, <2>1, <3>1, <3>2 DEF FinalizeCommit
  <2> QED BY <2>1, <2>3, <2>4
<1>5. CASE LegacyTransfer(w)
  <2>1. todo' = todo /\ InProcess(w, h)
    BY <1>5 DEF LegacyTransfer, InProcess
  <2>2. PICK g \in todo[w], c \in xfer[w].chunk :
          InProcess(w, g) /\ LegacyIngest(g, c.rows)
    BY <1>5 DEF LegacyTransfer
  <2>3. g \in delivered'
    <3>1. g \in KnownHeaders
      BY <1>1 DEF HeadersKnown
    <3>2. CASE Finalized(g.id)
      BY <1>1, <2>2, <3>1, <3>2, FinalizedDelivered DEF LegacyIngest
    <3>3. CASE ~Finalized(g.id)
      BY <2>2, <3>3 DEF LegacyIngest
    <3> QED BY <3>2, <3>3
  <2> QED BY <1>2, <2>1, <2>2, <2>3
<1>6. CASE WorkerFault(w) \/ RefuseBatch(w) \/ SkipAcknowledged(w) \/ Acknowledge(w)
  <2>1. pc'[w] # "ack"
    BY <1>1, <1>6 DEF WorkerFault, LoseCall, LoseAckReply, LoseCycle, LoseReport,
       Crash, RefuseBatch, BatchFailed, SkipAcknowledged, Acknowledge,
       NextHeader, Goto, WorkerTypeOK
  <2> QED BY <2>1
<1>7. CASE IngestKnown(w) \/ Stage(w)
  BY <1>1, <1>7 DEF IngestKnown, Stage, ChunkTransferred, Goto, WorkerTypeOK
<1>8. CASE \/ Connect(w) \/ List(w) \/ FetchChunk(w) \/ IngestUnknown(w)
           \/ FinalizeUnknown(w) \/ RefuseCycle(w) \/ EndCleanCycle(w)
           \/ EndFailedCycle(w) \/ Report(w) \/ Purge(w) \/ LegacyFetch(w)
  BY <1>1, <1>8 DEF Connect, List, FetchChunk, IngestUnknown, FinalizeUnknown,
     RefuseCycle, EndCleanCycle, EndFailedCycle, Report, Purge, LegacyFetch,
     Goto, WorkerTypeOK
<1> QED BY <1>3, <1>4, <1>5, <1>6, <1>7, <1>8 DEF WorkerStep

(* Whatever leaves the outbox has been delivered.                          *)
LEMMA AckedStep ==
  ASSUME TransportInv, NEW w \in AnyWorker, WorkerStep(w) \/ WorkerFault(w)
  PROVE  AckedWasDelivered'
<1>1. /\ TypeOK /\ IdsUnique /\ HeadersKnown /\ AckProven /\ AckedWasDelivered
      /\ delivered \subseteq delivered'
      /\ CapturedNow' = CapturedNow
  BY WorkerHistory DEF TransportInv, CapturedNow
<1>2. CASE Acknowledge(w) \/ LoseAckReply(w)
  <2>1. PICK h \in todo[w] : InProcess(w, h) /\ AckBatch(h.id)
    BY <1>2 DEF Acknowledge, LoseAckReply
  <2>2. h \in delivered /\ h \in KnownHeaders
    BY <1>1, <1>2, <2>1 DEF AckProven, HeadersKnown, Acknowledge, LoseAckReply
  <2> SUFFICES ASSUME NEW q \in CapturedNow, q \in outbox, q.id = h.id
               PROVE  HeaderOf(q) \in delivered
    BY <1>1, <2>1 DEF AckedWasDelivered, AckBatch
  <2>3. HeaderOf(q) \in KnownHeaders /\ HeaderOf(q).id = h.id
    BY DEF CapturedNow, KnownHeaders, HeaderOf
  <2> QED BY <1>1, <2>2, <2>3, SameHeader
<1>3. CASE UNCHANGED outbox
  BY <1>1, <1>3 DEF AckedWasDelivered
<1>4. ~(Acknowledge(w) \/ LoseAckReply(w)) => UNCHANGED outbox
  BY DEF outboxVars, WorkerStep, WorkerFault, Connect, List, SkipAcknowledged,
     FetchChunk, IngestKnown, ChunkTransferred, IngestUnknown, Stage,
     FinalizeKnown, FinalizeUnknown, FinalizeCommit, RefuseBatch, BatchFailed,
     RefuseCycle, EndCleanCycle, EndFailedCycle, Report, Purge, LegacyFetch,
     LegacyTransfer, LoseCall, LoseCycle, LoseReport, Crash
<1> QED BY <1>2, <1>3, <1>4

(* A header a clean cycle drops from its list has been delivered.          *)
LEMMA CleanStep ==
  ASSUME TransportInv, NEW w \in Worker, WorkerStep(w) \/ WorkerFault(w),
         ~failed'[w]
  PROVE  listed'[w] \ todo'[w] \subseteq delivered'
<1>1. /\ WorkerTypeOK /\ IdsUnique /\ HeadersKnown /\ AckProven
      /\ AckedWasDelivered
      /\ ~failed[w] => listed[w] \ todo[w] \subseteq delivered
      /\ w \in AnyWorker
  BY DEF TransportInv, TypeOK, CleanCycleDelivered, AnyWorker
<1>2. delivered \subseteq delivered'
  BY <1>1, WorkerHistory DEF TransportInv
<1>3. ASSUME UNCHANGED <<listed, failed>>,
             NEW h \in delivered, NextHeader(w, h)
      PROVE  listed'[w] \ todo'[w] \subseteq delivered'
  <2>1. todo'[w] = todo[w] \ {h}
    BY <1>1, <1>3 DEF NextHeader, WorkerTypeOK
  <2> QED BY <1>1, <1>2, <1>3, <2>1
<1>4. CASE SkipAcknowledged(w)
  <2>1. PICK h \in todo[w] : ~Pending(h.id) /\ NextHeader(w, h)
    BY <1>4 DEF SkipAcknowledged
  <2>2. h \in delivered
    BY <1>1, <2>1, GoneDelivered DEF HeadersKnown
  <2> QED BY <1>3, <1>4, <2>1, <2>2 DEF SkipAcknowledged
<1>5. CASE Acknowledge(w)
  <2>1. PICK h \in todo[w] : InProcess(w, h) /\ NextHeader(w, h)
    BY <1>5 DEF Acknowledge
  <2>2. h \in delivered
    BY <1>1, <1>5, <2>1 DEF AckProven, Acknowledge
  <2> QED BY <1>3, <1>5, <2>1, <2>2 DEF Acknowledge
<1>6. CASE RefuseBatch(w) \/ LoseCall(w) \/ LoseAckReply(w)
  <2>1. failed' = [failed EXCEPT ![w] = w \in Worker]
    BY <1>6 DEF RefuseBatch, LoseCall, LoseAckReply, BatchFailed
  <2>2. failed'[w]
    BY <1>1, <2>1 DEF WorkerTypeOK
  <2> QED BY <2>2
<1>7. CASE List(w)
  <2>1. listed'[w] = todo'[w]
    BY <1>1, <1>7 DEF List, WorkerTypeOK
  <2> QED BY <2>1
<1>8. CASE EndCleanCycle(w) \/ EndFailedCycle(w) \/ Crash(w)
  <2>1. listed'[w] = {}
    BY <1>1, <1>8 DEF EndCleanCycle, EndFailedCycle, Crash, WorkerTypeOK
  <2> QED BY <2>1
<1>9. CASE LegacyFetch(w)
  <2>1. listed' = listed /\ failed' = failed
    BY <1>9 DEF LegacyFetch
  <2>2. w \in LegacyWorker
    BY <1>9 DEF LegacyFetch
  <2> QED BY <2>2, WorkerAssumption
<1>10. CASE UNCHANGED <<listed, todo, failed>>
  BY <1>1, <1>2, <1>10
<1> QED BY <1>4, <1>5, <1>6, <1>7, <1>8, <1>9, <1>10
     DEF WorkerStep, WorkerFault, Connect, FetchChunk, IngestKnown,
     ChunkTransferred, IngestUnknown, Stage, FinalizeKnown, FinalizeUnknown,
     FinalizeCommit, RefuseCycle, Report, Purge, LegacyTransfer, LoseCycle,
     LoseReport

(* A worker's step, or a fault, keeps the invariant.                       *)
LEMMA WorkerInv ==
  ASSUME TransportInv, NEW w \in AnyWorker, WorkerStep(w) \/ WorkerFault(w)
  PROVE  TransportInv'
<1>1. /\ TypeOK /\ IdsUnique /\ HeadersKnown /\ AckProven /\ CleanCycleDelivered
  BY DEF TransportInv
<1>2. [Next]_vars
  BY DEF Next
<1>3. TypeOK'
  BY <1>1, <1>2, TypeStep
<1>4. IdsUnique'
  BY <1>1, WorkerHistory DEF IdsUnique
<1>5. HeadersKnown'
  BY <1>1, WorkerHeaders
<1>6. AckProven'
  <2> SUFFICES ASSUME NEW v \in AnyWorker, pc'[v] = "ack",
                      NEW h \in todo'[v], InProcess(v, h)'
               PROVE  h \in delivered'
    BY DEF AckProven
  <2>1. CASE v = w
    BY <2>1, AckReached
  <2>2. CASE v # w
    <3>1. pc[v] = "ack" /\ todo'[v] = todo[v]
      BY <1>1, <2>2, OthersUntouched
    <3>2. InProcess(v, h)
      BY <3>1 DEF InProcess
    <3>3. h \in delivered
      BY <1>1, <3>1, <3>2 DEF AckProven
    <3> QED BY <1>1, <3>3, WorkerHistory
  <2> QED BY <2>1, <2>2
<1>7. AckedWasDelivered'
  BY AckedStep
<1>8. CleanCycleDelivered'
  <2> SUFFICES ASSUME NEW v \in Worker, ~failed'[v]
               PROVE  listed'[v] \ todo'[v] \subseteq delivered'
    BY DEF CleanCycleDelivered
  <2>1. CASE v = w
    BY <2>1, CleanStep
  <2>2. CASE v # w
    <3>1. /\ ~failed[v] /\ listed'[v] = listed[v] /\ todo'[v] = todo[v]
      BY <1>1, <2>2, OthersUntouched DEF AnyWorker
    <3> QED BY <1>1, <3>1, WorkerHistory DEF CleanCycleDelivered
  <2> QED BY <2>1, <2>2
<1> QED BY <1>3, <1>4, <1>5, <1>6, <1>7, <1>8 DEF TransportInv

(* The source's own steps keep it while the volume is not recreated: a     *)
(* capture gets an id no batch has had.                                    *)
LEMMA SourceInv ==
  ASSUME MaxRebuilds = 0, TransportInv, SourceStep
  PROVE  TransportInv'
<1>1. /\ TypeOK /\ IdsUnique /\ HeadersKnown /\ AckProven
      /\ AckedWasDelivered /\ CleanCycleDelivered /\ OutboxTypeOK
  BY DEF TransportInv, TypeOK
<1>2. UNCHANGED <<repoVars, workerVars>>
  BY DEF SourceStep
<1>3. TypeOK'
  <2>1. [Next]_vars
    BY DEF Next
  <2> QED BY <1>1, <2>1, TypeStep
<1>4. IdsUnique' /\ outbox' \subseteq {c.batch : c \in captured'}
      /\ captured \subseteq captured' /\ AckedWasDelivered'
  <2>1. CASE CaptureRead
    <3> DEFINE q == [id |-> nextBatch, at |-> now + 1, rows |-> SetToSeq(live)]
    <3>1. capturing' = {q} /\ q.id = nextBatch
      BY <2>1 DEF CaptureRead
    <3> HIDE DEF q
    <3>2. nextBatch \in Nat /\ nextBatch' = nextBatch + 1
      BY <1>1, <2>1 DEF CaptureRead, OutboxTypeOK
    <3>3. \A c \in captured : c.batch.id \in Nat
      BY <1>1 DEF OutboxTypeOK, Batch
    <3>4. IdsUnique'
      BY <1>1, <2>1, <3>1, <3>2, <3>3 DEF CaptureRead, IdsUnique
    <3>5. UNCHANGED <<outbox, epoch, captured>>
      BY <2>1 DEF CaptureRead
    <3>6. outbox' \subseteq {c.batch : c \in captured'}
      BY <1>1, <3>5 DEF HeadersKnown
    <3>7. AckedWasDelivered'
      BY <1>1, <1>2, <3>5 DEF AckedWasDelivered, CapturedNow, repoVars
    <3> QED BY <3>4, <3>5, <3>6, <3>7
  <2>2. CASE CaptureCommit
    <3>1. IdsUnique'
      BY <1>1, <2>2 DEF CaptureCommit, IdsUnique
    <3>2. outbox' \subseteq {c.batch : c \in captured'}
      <4>1. captured \subseteq captured'
        BY <2>2 DEF CaptureCommit
      <4>2. \A p \in outbox : \E c \in captured' : p = c.batch
        BY <1>1, <4>1 DEF HeadersKnown
      <4>3. ASSUME NEW p \in capturing PROVE \E c \in captured' : p = c.batch
        <5>1. [epoch |-> epoch, batch |-> p] \in captured'
          BY <2>2 DEF CaptureCommit
        <5> QED BY <5>1
      <4> QED BY <2>2, <4>2, <4>3 DEF CaptureCommit
    <3>3. AckedWasDelivered'
      BY <1>1, <1>2, <2>2 DEF CaptureCommit, AckedWasDelivered, CapturedNow, repoVars
    <3> QED BY <2>2, <3>1, <3>2, <3>3 DEF CaptureCommit
  <2>3. CASE CaptureReset \/ CaptureAbort \/ Tick \/ \E i \in Item : Record(i)
    <3>1. /\ UNCHANGED <<nextBatch, outbox, epoch, captured>>
          /\ capturing' \subseteq capturing
      BY <2>3 DEF CaptureReset, CaptureAbort, Tick, captureVars, Record
    <3>2. IdsUnique'
      BY <1>1, <3>1 DEF IdsUnique
    <3>3. outbox' \subseteq {c.batch : c \in captured'}
      BY <1>1, <3>1 DEF HeadersKnown
    <3>4. AckedWasDelivered'
      BY <1>1, <1>2, <3>1 DEF AckedWasDelivered, CapturedNow, repoVars
    <3> QED BY <3>1, <3>2, <3>3, <3>4
  <2>4. ~Rebuild
    BY <1>1 DEF Rebuild, OutboxTypeOK
  <2> QED BY <2>1, <2>2, <2>3, <2>4 DEF SourceStep, Capture
<1>5. HeadersKnown'
  <2>1. KnownHeaders \subseteq KnownHeaders'
    BY <1>4 DEF KnownHeaders
  <2> QED BY <1>1, <1>2, <1>4, <2>1 DEF HeadersKnown, repoVars, workerVars
<1>6. AckProven' /\ CleanCycleDelivered'
  BY <1>1, <1>2
     DEF AckProven, CleanCycleDelivered, InProcess, repoVars, workerVars
<1> QED BY <1>3, <1>4, <1>5, <1>6 DEF TransportInv

(* Nothing captured, nothing owed.                                         *)
LEMMA InitInv == Init => TransportInv
<1> SUFFICES ASSUME Init PROVE TransportInv
  OBVIOUS
<1>1. TypeOK
  BY TypeInit
<1>2. IdsUnique
  BY DEF Init, OutboxInit, IdsUnique
<1>3. HeadersKnown
  BY DEF Init, OutboxInit, RepoInit, HeadersKnown
<1>4. AckProven /\ CleanCycleDelivered
  BY DEF Init, AckProven, CleanCycleDelivered, AnyWorker
<1>5. AckedWasDelivered
  BY DEF Init, OutboxInit, AckedWasDelivered, CapturedNow
<1> QED BY <1>1, <1>2, <1>3, <1>4, <1>5 DEF TransportInv

(***************************************************************************)
(* The inductive invariant of the transport, for a source volume that is   *)
(* not recreated.                                                          *)
(***************************************************************************)
THEOREM TransportInvariant ==
  ASSUME MaxRebuilds = 0
  PROVE  Spec => []TransportInv
<1>1. TransportInv /\ [Next]_vars => TransportInv'
  <2> SUFFICES ASSUME TransportInv, [Next]_vars PROVE TransportInv'
    OBVIOUS
  <2>1. CASE SourceStep
    BY <2>1, SourceInv
  <2>2. ASSUME NEW w \in AnyWorker, WorkerStep(w) \/ WorkerFault(w)
        PROVE  TransportInv'
    BY <2>2, WorkerInv
  <2>3. CASE UNCHANGED vars
    <3>1. TypeOK'
      BY TypeStep DEF TransportInv
    <3>2. UNCHANGED <<outboxVars, repoVars, workerVars>>
      BY <2>3 DEF vars
    <3>3. /\ IdsUnique' /\ AckedWasDelivered' /\ HeadersKnown'
      BY <3>2 DEF TransportInv, IdsUnique, AckedWasDelivered, CapturedNow,
         HeadersKnown, KnownHeaders, outboxVars, repoVars, workerVars
    <3>4. AckProven' /\ CleanCycleDelivered'
      BY <3>2 DEF TransportInv, AckProven, CleanCycleDelivered, InProcess,
         repoVars, workerVars
    <3> QED BY <3>1, <3>3, <3>4 DEF TransportInv
  <2> QED BY <2>1, <2>2, <2>3 DEF Next
<1> QED BY <1>1, InitInv, PTL DEF Spec

(***************************************************************************)
(* Nothing is lost: whatever workers of both releases overlap, crash, lose *)
(* replies or lose races for a batch, a captured batch is in the source    *)
(* outbox or final in the repository.                                      *)
(***************************************************************************)
THEOREM NothingLost ==
  ASSUME MaxRebuilds = 0
  PROVE  Spec => []AckedWasDelivered
<1>1. TransportInv => AckedWasDelivered
  BY DEF TransportInv
<1> QED BY <1>1, TransportInvariant, PTL

(***************************************************************************)
(* A cycle without a failure has delivered every header it has handled, so *)
(* the health marker it refreshes tells the truth.                         *)
(***************************************************************************)
THEOREM CleanCycles ==
  ASSUME MaxRebuilds = 0
  PROVE  Spec => []CleanCycleDelivered
<1>1. TransportInv => CleanCycleDelivered
  BY DEF TransportInv
<1> QED BY <1>1, TransportInvariant, PTL

-----------------------------------------------------------------------------
(***************************************************************************)
(* What is left of it when source volumes are recreated: ids start over,   *)
(* and finalize_join_batch answers for a namesake (sql/013:66).            *)
(***************************************************************************)
(* A batch of a former volume with the same id was delivered.              *)
FormerNamesake(q) ==
  \E c \in captured : /\ c.epoch < epoch /\ c.batch.id = q.id
                      /\ HeaderOf(c.batch) \in delivered

LossExplained ==
  \A q \in CapturedNow :
    q \in outbox \/ HeaderOf(q) \in delivered \/ FormerNamesake(q)

(* An id names one capture of a volume.                                    *)
IdsOfEpoch ==
  /\ \A c \in captured : /\ c.epoch <= epoch
                         /\ c.epoch = epoch => c.batch.id < nextBatch
  /\ \A c, d \in captured :
       c.epoch = d.epoch /\ c.batch.id = d.batch.id => c = d
  /\ \A q \in capturing :
       /\ q.id < nextBatch
       /\ \A p \in capturing : p = q
       /\ \A c \in captured : c.epoch = epoch => c.batch.id # q.id

(* Some batch with this id was delivered: all that an acknowledgement can  *)
(* rely on.                                                                *)
Known(id) == \E d \in delivered : d.id = id

NamesakeInv ==
  /\ TypeOK /\ IdsOfEpoch /\ HeadersKnown
  /\ \A w \in AnyWorker : pc[w] = "ack" =>
       \A h \in todo[w] : InProcess(w, h) => Known(h.id)
  /\ \A q \in CapturedNow : q \in outbox \/ Known(q.id)

(* The ids of two headers in process are the same.                         *)
LEMMA OneIdInProcess ==
  ASSUME TypeOK, NEW w \in AnyWorker, NEW g, NEW h, InProcess(w, g), InProcess(w, h)
  PROVE  g.id = h.id
<1>1. g \in todo[w] /\ h \in todo[w] /\ g.id <= h.id /\ h.id <= g.id
  BY DEF InProcess
<1>2. g.id \in Nat /\ h.id \in Nat
  BY <1>1 DEF TypeOK, WorkerTypeOK, Header
<1> QED BY <1>1, <1>2

(* A worker comes to acknowledge an id only when it is known.              *)
LEMMA AckOfKnown ==
  ASSUME TypeOK, HeadersKnown, NEW w \in AnyWorker, WorkerStep(w) \/ WorkerFault(w),
         pc'[w] = "ack", NEW h, InProcess(w, h)'
  PROVE  Known(h.id)'
<1>1. WorkerTypeOK
  BY DEF TypeOK
<1>2. ASSUME todo' = todo, NEW g \in todo[w], InProcess(w, g),
             NEW d \in delivered', d.id = g.id
      PROVE  Known(h.id)'
  <2>1. InProcess(w, h)
    BY <1>2 DEF InProcess
  <2>2. d.id = h.id
    BY <1>2, <2>1, OneIdInProcess
  <2> QED BY <2>2 DEF Known
<1>3. ASSUME NEW id, Finalized(id) PROVE \E d \in delivered : d.id = id
  BY <1>3 DEF Finalized, HeadersKnown
<1>4. delivered \subseteq delivered'
  BY WorkerHistory
<1>5. CASE FinalizeKnown(w)
  <2>1. PICK g \in todo[w] : InProcess(w, g) /\ Finalized(g.id)
    BY <1>5 DEF FinalizeKnown, FinalizeAgain
  <2>2. PICK d \in delivered : d.id = g.id
    BY <1>3, <2>1
  <2> QED BY <1>2, <1>4, <1>5, <2>1, <2>2 DEF FinalizeKnown
<1>6. CASE FinalizeCommit(w)
  <2>1. PICK g \in todo[w] : InProcess(w, g) /\ (FinalizeNew(g.id) \/ FinalizeAgain(g.id))
    BY <1>6 DEF FinalizeCommit
  <2>2. PICK d \in delivered' : d.id = g.id
    <3>1. CASE FinalizeAgain(g.id)
      BY <1>3, <1>4, <3>1 DEF FinalizeAgain
    <3>2. CASE FinalizeNew(g.id)
      BY <3>2 DEF FinalizeNew
    <3> QED BY <2>1, <3>1, <3>2
  <2> QED BY <1>2, <1>6, <2>1, <2>2 DEF FinalizeCommit
<1>7. CASE LegacyTransfer(w)
  <2>1. PICK g \in todo[w], c \in xfer[w].chunk :
          InProcess(w, g) /\ LegacyIngest(g, c.rows)
    BY <1>7 DEF LegacyTransfer
  <2>2. PICK d \in delivered' : d.id = g.id
    <3>1. CASE Finalized(g.id)
      BY <1>3, <1>4, <3>1
    <3>2. CASE ~Finalized(g.id)
      BY <2>1, <3>2 DEF LegacyIngest
    <3> QED BY <3>1, <3>2
  <2> QED BY <1>2, <1>7, <2>1, <2>2 DEF LegacyTransfer
<1>8. CASE WorkerFault(w) \/ RefuseBatch(w) \/ SkipAcknowledged(w) \/ Acknowledge(w)
  <2>1. pc'[w] # "ack"
    BY <1>1, <1>8 DEF WorkerFault, LoseCall, LoseAckReply, LoseCycle, LoseReport,
       Crash, RefuseBatch, BatchFailed, SkipAcknowledged, Acknowledge,
       NextHeader, Goto, WorkerTypeOK
  <2> QED BY <2>1
<1>9. CASE IngestKnown(w) \/ Stage(w)
  BY <1>1, <1>9 DEF IngestKnown, Stage, ChunkTransferred, Goto, WorkerTypeOK
<1>10. CASE \/ Connect(w) \/ List(w) \/ FetchChunk(w) \/ IngestUnknown(w)
            \/ FinalizeUnknown(w) \/ RefuseCycle(w) \/ EndCleanCycle(w)
            \/ EndFailedCycle(w) \/ Report(w) \/ Purge(w) \/ LegacyFetch(w)
  BY <1>1, <1>10 DEF Connect, List, FetchChunk, IngestUnknown, FinalizeUnknown,
     RefuseCycle, EndCleanCycle, EndFailedCycle, Report, Purge, LegacyFetch,
     Goto, WorkerTypeOK
<1> QED BY <1>5, <1>6, <1>7, <1>8, <1>9, <1>10 DEF WorkerStep

(* Only an acknowledgement takes batches from the outbox, those of its id. *)
LEMMA WorkerNamesake ==
  ASSUME NamesakeInv, NEW w \in AnyWorker, WorkerStep(w) \/ WorkerFault(w)
  PROVE  NamesakeInv'
<1>1. TypeOK /\ IdsOfEpoch /\ HeadersKnown
  BY DEF NamesakeInv
<1>2. /\ UNCHANGED <<capturing, nextBatch, epoch, captured>>
      /\ delivered \subseteq delivered'
      /\ CapturedNow' = CapturedNow
  BY <1>1, WorkerHistory DEF CapturedNow
<1>3. TypeOK'
  <2>1. [Next]_vars
    BY DEF Next
  <2> QED BY <1>1, <2>1, TypeStep
<1>4. IdsOfEpoch'
  BY <1>1, <1>2 DEF IdsOfEpoch
<1>5. HeadersKnown'
  BY <1>1, WorkerHeaders
<1>6. ASSUME NEW id, Known(id) PROVE Known(id)'
  BY <1>2, <1>6 DEF Known
<1>7. ASSUME NEW v \in AnyWorker, pc'[v] = "ack", NEW h \in todo'[v], InProcess(v, h)'
      PROVE  Known(h.id)'
  <2>1. CASE v = w
    BY <1>1, <1>7, <2>1, AckOfKnown
  <2>2. CASE v # w
    <3>1. pc[v] = "ack" /\ todo'[v] = todo[v]
      BY <1>1, <1>7, <2>2, OthersUntouched
    <3>2. InProcess(v, h) /\ h \in todo[v]
      BY <1>7, <3>1 DEF InProcess
    <3>3. Known(h.id)
      BY <3>1, <3>2 DEF NamesakeInv
    <3> QED BY <1>6, <3>3
  <2> QED BY <2>1, <2>2
<1>8. ASSUME NEW q \in CapturedNow, q \notin outbox' PROVE Known(q.id)'
  <2>1. CASE Known(q.id)
    BY <1>6, <2>1
  <2>2. CASE q \in outbox
    <3>1. Acknowledge(w) \/ LoseAckReply(w)
      BY <1>8, <2>2 DEF outboxVars, WorkerStep, WorkerFault, Connect, List,
         SkipAcknowledged, FetchChunk, IngestKnown, ChunkTransferred, IngestUnknown,
         Stage, FinalizeKnown, FinalizeUnknown, FinalizeCommit, RefuseBatch,
         BatchFailed, RefuseCycle, EndCleanCycle, EndFailedCycle, Report, Purge,
         LegacyFetch, LegacyTransfer, LoseCall, LoseCycle, LoseReport, Crash
    <3>2. PICK h \in todo[w] : InProcess(w, h) /\ AckBatch(h.id) /\ pc[w] = "ack"
      BY <3>1 DEF Acknowledge, LoseAckReply
    <3>3. q.id = h.id
      BY <1>8, <2>2, <3>2 DEF AckBatch
    <3>4. Known(h.id)
      BY <3>2 DEF NamesakeInv
    <3> QED BY <1>6, <3>3, <3>4
  <2> QED BY <1>8, <2>1, <2>2 DEF NamesakeInv
<1> QED BY <1>2, <1>3, <1>4, <1>5, <1>7, <1>8 DEF NamesakeInv

(* A recreated volume starts with no batch of its own.                     *)
LEMMA SourceNamesake ==
  ASSUME NamesakeInv, SourceStep
  PROVE  NamesakeInv'
<1>1. TypeOK /\ IdsOfEpoch /\ HeadersKnown /\ OutboxTypeOK
  BY DEF NamesakeInv, TypeOK
<1>2. UNCHANGED <<repoVars, workerVars>>
  BY DEF SourceStep
<1>3. TypeOK'
  <2>1. [Next]_vars
    BY DEF Next
  <2> QED BY <1>1, <2>1, TypeStep
<1>4. \A c \in captured : c.epoch \in Nat /\ c.batch.id \in Nat
  BY <1>1 DEF OutboxTypeOK, Batch
<1>5. /\ IdsOfEpoch'
      /\ outbox' \subseteq {c.batch : c \in captured'}
      /\ captured \subseteq captured'
      /\ \A q \in CapturedNow' : q \in outbox' \/ (q \in CapturedNow /\ q \notin outbox)
  <2>1. CASE CaptureRead
    <3> DEFINE q == [id |-> nextBatch, at |-> now + 1, rows |-> SetToSeq(live)]
    <3>1. capturing' = {q} /\ q.id = nextBatch
      BY <2>1 DEF CaptureRead
    <3> HIDE DEF q
    <3>2. nextBatch \in Nat /\ nextBatch' = nextBatch + 1
      BY <1>1, <2>1 DEF CaptureRead, OutboxTypeOK
    <3>3. UNCHANGED <<outbox, epoch, captured>>
      BY <2>1 DEF CaptureRead
    <3>4. IdsOfEpoch'
      BY <1>1, <1>4, <3>1, <3>2, <3>3 DEF IdsOfEpoch
    <3> QED BY <1>1, <3>3, <3>4 DEF HeadersKnown, CapturedNow
  <2>2. CASE CaptureCommit
    <3>1. /\ captured' = captured \cup {[epoch |-> epoch, batch |-> p] : p \in capturing}
          /\ outbox' = outbox \cup capturing /\ capturing' = {}
          /\ UNCHANGED <<epoch, nextBatch>>
      BY <2>2 DEF CaptureCommit
    <3>2. epoch \in Nat
      BY <1>1 DEF OutboxTypeOK
    <3>3. IdsOfEpoch'
      BY <1>1, <3>1, <3>2 DEF IdsOfEpoch
    <3>4. ASSUME NEW p \in capturing PROVE \E c \in captured' : p = c.batch
      <4>1. [epoch |-> epoch, batch |-> p] \in captured'
        BY <3>1
      <4> QED BY <4>1
    <3>5. \A p \in outbox : \E c \in captured' : p = c.batch
      BY <1>1, <3>1 DEF HeadersKnown
    <3> QED BY <3>1, <3>3, <3>4, <3>5 DEF CapturedNow
  <2>3. CASE CaptureReset \/ CaptureAbort \/ Tick \/ \E i \in Item : Record(i)
    <3>1. /\ UNCHANGED <<nextBatch, outbox, epoch, captured>>
          /\ capturing' \subseteq capturing
      BY <2>3 DEF CaptureReset, CaptureAbort, Tick, captureVars, Record
    <3>2. IdsOfEpoch'
      BY <1>1, <3>1 DEF IdsOfEpoch
    <3> QED BY <1>1, <3>1, <3>2 DEF HeadersKnown, CapturedNow
  <2>4. CASE Rebuild
    <3>1. /\ epoch' = epoch + 1 /\ captured' = captured
          /\ capturing' = {} /\ outbox' = {} /\ epoch \in Nat
      BY <1>1, <2>4 DEF Rebuild, OutboxTypeOK
    <3>2. \A c \in captured : c.epoch < epoch'
      BY <1>1, <1>4, <3>1 DEF IdsOfEpoch
    <3>3. IdsOfEpoch'
      BY <1>1, <1>4, <3>1, <3>2 DEF IdsOfEpoch
    <3>4. CapturedNow' = {}
      BY <1>4, <3>1, <3>2 DEF CapturedNow
    <3> QED BY <3>1, <3>3, <3>4
  <2> QED BY <2>1, <2>2, <2>3, <2>4 DEF SourceStep, Capture
<1>6. HeadersKnown'
  <2>1. KnownHeaders \subseteq KnownHeaders'
    BY <1>5 DEF KnownHeaders
  <2> QED BY <1>1, <1>2, <1>5, <2>1 DEF HeadersKnown, repoVars, workerVars
<1>7. ASSUME NEW id, Known(id) PROVE Known(id)'
  BY <1>2, <1>7 DEF Known, repoVars
<1>8. \A w \in AnyWorker : pc'[w] = "ack" =>
        \A h \in todo'[w] : InProcess(w, h)' => Known(h.id)'
  BY <1>2, <1>7 DEF NamesakeInv, InProcess, workerVars
<1>9. \A q \in CapturedNow' : q \in outbox' \/ Known(q.id)'
  BY <1>5, <1>7 DEF NamesakeInv
<1> QED BY <1>3, <1>5, <1>6, <1>8, <1>9 DEF NamesakeInv

(***************************************************************************)
(* Whatever is recreated, a batch of the current source volume is in the   *)
(* outbox, delivered, or shares its id with a delivered batch of a former  *)
(* volume: the branch of finalize_join_batch that answers for a namesake   *)
(* (sql/013:66-75) loses such namesakes, and nothing else is lost.         *)
(***************************************************************************)
THEOREM OnlyNamesakesLost == Spec => []LossExplained
<1>1. Init => NamesakeInv
  <2> SUFFICES ASSUME Init PROVE NamesakeInv
    OBVIOUS
  <2>1. TypeOK
    BY TypeInit
  <2>2. IdsOfEpoch /\ HeadersKnown
    BY DEF Init, OutboxInit, RepoInit, IdsOfEpoch, HeadersKnown
  <2> QED BY <2>1, <2>2 DEF Init, OutboxInit, NamesakeInv, CapturedNow
<1>2. NamesakeInv /\ [Next]_vars => NamesakeInv'
  <2> SUFFICES ASSUME NamesakeInv, [Next]_vars PROVE NamesakeInv'
    OBVIOUS
  <2>1. CASE SourceStep
    BY <2>1, SourceNamesake
  <2>2. ASSUME NEW w \in AnyWorker, WorkerStep(w) \/ WorkerFault(w)
        PROVE  NamesakeInv'
    BY <2>2, WorkerNamesake
  <2>3. CASE UNCHANGED vars
    <3>1. TypeOK'
      BY TypeStep DEF NamesakeInv
    <3>2. UNCHANGED <<outboxVars, repoVars, workerVars>>
      BY <2>3 DEF vars
    <3>3. IdsOfEpoch' /\ HeadersKnown' /\ CapturedNow' = CapturedNow
      BY <3>2 DEF NamesakeInv, IdsOfEpoch, HeadersKnown, KnownHeaders, CapturedNow,
         outboxVars, repoVars, workerVars
    <3> QED BY <3>1, <3>2, <3>3
         DEF NamesakeInv, Known, InProcess, outboxVars, repoVars, workerVars
  <2> QED BY <2>1, <2>2, <2>3 DEF Next
<1>3. NamesakeInv => LossExplained
  <2> SUFFICES ASSUME NamesakeInv, NEW q \in CapturedNow, q \notin outbox
               PROVE  HeaderOf(q) \in delivered \/ FormerNamesake(q)
    BY DEF LossExplained
  <2>1. PICK d \in delivered : d.id = q.id
    BY DEF NamesakeInv, Known
  <2>2. PICK c \in captured : d = HeaderOf(c.batch)
    BY <2>1 DEF NamesakeInv, HeadersKnown, KnownHeaders
  <2>3. PICK e \in captured : e.epoch = epoch /\ e.batch = q
    BY DEF CapturedNow
  <2>4. c.batch.id = q.id
    BY <2>1, <2>2 DEF HeaderOf
  <2>5. CASE c.epoch = epoch
    <3>1. c = e
      BY <2>3, <2>4, <2>5 DEF NamesakeInv, IdsOfEpoch
    <3> QED BY <2>1, <2>2, <2>3, <3>1
  <2>6. CASE c.epoch # epoch
    <3>1. c.epoch \in Nat /\ epoch \in Nat
      BY DEF NamesakeInv, TypeOK, OutboxTypeOK
    <3>2. c.epoch < epoch
      BY <2>6, <3>1 DEF NamesakeInv, IdsOfEpoch
    <3> QED BY <2>1, <2>2, <2>4, <3>2 DEF FormerNamesake
  <2> QED BY <2>5, <2>6
<1> QED BY <1>1, <1>2, <1>3, PTL DEF Spec

-----------------------------------------------------------------------------
(***************************************************************************)
(* What is public is what was captured.  This needs no assumption on the   *)
(* source volume: two captures never share their moment, so their headers  *)
(* differ although a recreated volume hands out the same ids again.        *)
(***************************************************************************)
AllCaptured == {c.batch : c \in captured}

(* Captures are in the order of their moments; pending ones differ by id.  *)
CaptureOrder ==
  /\ outbox \subseteq AllCaptured
  /\ \A q \in outbox : q.id < nextBatch
  /\ \A p, q \in outbox : p.id = q.id => p = q
  /\ \A q \in AllCaptured : q.at <= now
  /\ \A p, q \in AllCaptured : p.at = q.at => p = q
  /\ \A q \in capturing : /\ q.id < nextBatch /\ q.at <= now
                          /\ \A p \in capturing : p = q
                          /\ \A p \in outbox : p.id # q.id
                          /\ \A p \in AllCaptured : p.at # q.at

(* The chunk a worker holds is a piece of the batch in process, and an     *)
(* older daemon holds all of it.                                           *)
Holds(w) ==
  /\ todo[w] \subseteq {HeaderOf(q) : q \in AllCaptured}
  /\ \A g, h \in todo[w] : g.id = h.id => g = h
  /\ xfer[w].chunk # {} => pc[w] \in {"ingest", "stage", "legacy", "ack"}
  /\ \A c \in xfer[w].chunk, h \in todo[w] : InProcess(w, h) =>
       \E q \in AllCaptured : /\ HeaderOf(q) = h /\ Piece(c, q.rows)
                              /\ pc[w] = "legacy" => c.rows = q.rows

PublishInv ==
  /\ TypeOK /\ CaptureOrder
  /\ \A w \in AnyWorker : Holds(w)
  /\ PublishedFrom(AllCaptured)

(* Captures are told apart by their headers.                               *)
LEMMA CapturedDistinguishable ==
  ASSUME OutboxTypeOK, CaptureOrder
  PROVE  Distinguishable(AllCaptured)
<1>1. AllCaptured \subseteq Batch
  BY DEF OutboxTypeOK, AllCaptured
<1>2. ASSUME NEW p \in AllCaptured, NEW q \in AllCaptured, HeaderOf(p) = HeaderOf(q)
      PROVE  p = q
  <2>1. p.at = q.at
    BY <1>2 DEF HeaderOf
  <2> QED BY <2>1 DEF CaptureOrder
<1> QED BY <1>1, <1>2 DEF Distinguishable

(* Every step of the source, and an acknowledgement, keeps the captures    *)
(* in order; a new capture has a later moment than all before it.          *)
LEMMA CaptureOrderStep ==
  ASSUME OutboxTypeOK, CaptureOrder,
         \/ (\E i \in Item : Record(i)) \/ Capture \/ Tick \/ Rebuild
         \/ \E b \in Nat : AckBatch(b)
         \/ UNCHANGED outboxVars
  PROVE  CaptureOrder' /\ AllCaptured \subseteq AllCaptured'
<1>0. /\ nextBatch \in Nat /\ now \in Nat /\ outbox \subseteq Batch
      /\ AllCaptured \subseteq Batch /\ capturing \subseteq Batch
      /\ \A q \in Batch : q.id \in Nat /\ q.at \in Nat
  BY DEF OutboxTypeOK, AllCaptured, Batch
<1>1. CASE CaptureRead
  <2> DEFINE q == [id |-> nextBatch, at |-> now + 1, rows |-> SetToSeq(live)]
  <2>1. capturing' = {q} /\ q.id = nextBatch /\ q.at = now + 1
    BY <1>1 DEF CaptureRead
  <2> HIDE DEF q
  <2>2. nextBatch' = nextBatch + 1 /\ now' = now + 1 /\ outbox' = outbox
        /\ captured' = captured
    BY <1>1 DEF CaptureRead
  <2>3. AllCaptured' = AllCaptured
    BY <2>2 DEF AllCaptured
  <2>4. \A p \in outbox : p.id < nextBatch' /\ p.id # q.id
    BY <1>0, <2>1, <2>2 DEF CaptureOrder
  <2>5. \A p \in AllCaptured : p.at <= now' /\ p.at # q.at
    BY <1>0, <2>1, <2>2 DEF CaptureOrder
  <2>6. q.id < nextBatch' /\ q.at <= now'
    BY <1>0, <2>1, <2>2
  <2> QED BY <2>1, <2>2, <2>3, <2>4, <2>5, <2>6 DEF CaptureOrder
<1>2. CASE CaptureCommit
  <2>1. /\ outbox' = outbox \cup capturing /\ capturing' = {}
        /\ nextBatch' = nextBatch /\ now' = now
        /\ captured' = captured \cup {[epoch |-> epoch, batch |-> q] : q \in capturing}
    BY <1>2 DEF CaptureCommit
  <2>2. AllCaptured' = AllCaptured \cup capturing
    <3>1. \A q \in capturing : q \in AllCaptured'
      <4> SUFFICES ASSUME NEW q \in capturing PROVE q \in AllCaptured'
        OBVIOUS
      <4>1. [epoch |-> epoch, batch |-> q] \in captured'
        BY <2>1
      <4> QED BY <4>1 DEF AllCaptured
    <3>2. \A c \in captured' : c.batch \in AllCaptured \cup capturing
      BY <2>1 DEF AllCaptured
    <3>3. AllCaptured \subseteq AllCaptured'
      BY <2>1 DEF AllCaptured
    <3> QED BY <3>1, <3>2, <3>3 DEF AllCaptured
  <2> QED BY <2>1, <2>2 DEF CaptureOrder
<1>3. CASE Rebuild
  <2>1. /\ outbox' = {} /\ capturing' = {} /\ now' = now /\ captured' = captured
    BY <1>3 DEF Rebuild
  <2> QED BY <2>1 DEF CaptureOrder, AllCaptured
<1>4. CASE Tick
  <2>1. /\ now' = now + 1
        /\ UNCHANGED <<outbox, capturing, nextBatch, captured>>
    BY <1>4 DEF Tick, captureVars
  <2>2. \A q \in Batch : q.at <= now => q.at <= now'
    BY <1>0, <2>1
  <2> QED BY <1>0, <2>1, <2>2 DEF CaptureOrder, AllCaptured
<1>5. CASE \/ CaptureReset \/ CaptureAbort \/ (\E i \in Item : Record(i))
           \/ (\E b \in Nat : AckBatch(b)) \/ UNCHANGED outboxVars
  <2>1. /\ UNCHANGED <<now, nextBatch, captured>>
        /\ outbox' \subseteq outbox /\ capturing' \subseteq capturing
    BY <1>5 DEF CaptureReset, CaptureAbort, Record, AckBatch, captureVars, outboxVars
  <2>2. AllCaptured' = AllCaptured
    BY <2>1 DEF AllCaptured
  <2> QED BY <2>1, <2>2 DEF CaptureOrder
<1> QED BY <1>1, <1>2, <1>3, <1>4, <1>5 DEF Capture

(* The headers of the outbox, listed or fetched.                           *)
LEMMA ListedHeaders ==
  ASSUME CaptureOrder
  PROVE  /\ ListHeaders(BatchLimit) \subseteq {HeaderOf(q) : q \in AllCaptured}
         /\ \A g, h \in ListHeaders(BatchLimit) : g.id = h.id => g = h
<1>1. \A h \in ListHeaders(BatchLimit) : \E q \in outbox : h = HeaderOf(q)
  BY DEF ListHeaders
<1>2. \A q \in outbox : HeaderOf(q).id = q.id
  BY DEF HeaderOf
<1> QED BY <1>1, <1>2 DEF CaptureOrder

(* A worker without a chunk that handles fewer headers.                    *)
LEMMA HoldsNothing ==
  ASSUME NEW w \in AnyWorker, Holds(w), xfer'[w].chunk = {}, todo'[w] \subseteq todo[w],
         AllCaptured \subseteq AllCaptured'
  PROVE  Holds(w)'
<1>1. /\ todo'[w] \subseteq {HeaderOf(q) : q \in AllCaptured'}
      /\ \A g, h \in todo'[w] : g.id = h.id => g = h
  BY DEF Holds
<1> QED BY <1>1 DEF Holds

(* A worker that keeps what it has in hand.                                *)
LEMMA HoldsSame ==
  ASSUME NEW w \in AnyWorker, Holds(w), xfer'[w] = xfer[w], todo'[w] = todo[w],
         \/ pc'[w] = pc[w]
         \/ xfer[w].chunk = {}
         \/ pc'[w] \in {"ingest", "stage", "ack"},
         AllCaptured \subseteq AllCaptured'
  PROVE  Holds(w)'
<1>1. todo'[w] \subseteq {HeaderOf(q) : q \in AllCaptured'}
  BY DEF Holds
<1>2. xfer'[w].chunk # {} => pc'[w] \in {"ingest", "stage", "legacy", "ack"}
  BY DEF Holds
<1>3. ASSUME NEW c \in xfer'[w].chunk, NEW h \in todo'[w], InProcess(w, h)'
      PROVE  \E q \in AllCaptured' : /\ HeaderOf(q) = h /\ Piece(c, q.rows)
                                     /\ pc'[w] = "legacy" => c.rows = q.rows
  <2>1. InProcess(w, h)
    BY <1>3 DEF InProcess
  <2>2. PICK q \in AllCaptured : /\ HeaderOf(q) = h /\ Piece(c, q.rows)
                                 /\ pc[w] = "legacy" => c.rows = q.rows
    BY <1>3, <2>1 DEF Holds
  <2>3. pc'[w] = "legacy" => pc[w] = "legacy"
    BY <1>3
  <2> QED BY <2>2, <2>3
<1> QED BY <1>1, <1>2, <1>3 DEF Holds

(* What a worker's own step leaves it with.                                *)
LEMMA HoldsOwn ==
  ASSUME TypeOK, CaptureOrder, NEW w \in AnyWorker, Holds(w),
         WorkerStep(w) \/ WorkerFault(w), AllCaptured \subseteq AllCaptured'
  PROVE  Holds(w)'
<1>1. WorkerTypeOK /\ OutboxTypeOK
  BY DEF TypeOK
<1>2. CASE List(w)
  <2>1. todo'[w] = ListHeaders(BatchLimit) /\ xfer' = xfer /\ pc[w] = "list"
    BY <1>1, <1>2 DEF List, WorkerTypeOK
  <2>2. xfer'[w].chunk = {}
    BY <2>1 DEF Holds
  <2>3. /\ todo'[w] \subseteq {HeaderOf(q) : q \in AllCaptured'}
        /\ \A g, h \in todo'[w] : g.id = h.id => g = h
    BY <2>1, ListedHeaders
  <2> QED BY <2>2, <2>3 DEF Holds
<1>3. CASE FetchChunk(w)
  <2>1. PICK h \in todo[w], q \in outbox :
          /\ InProcess(w, h) /\ HeaderOf(q) = h
          /\ ~ChunkRaises(q.rows, xfer[w].off)
          /\ xfer' = [xfer EXCEPT ![w].chunk =
                        {ChunkAt(q.rows, xfer[w].no, xfer[w].off)}]
    BY <1>3 DEF FetchChunk
  <2> DEFINE c == ChunkAt(q.rows, xfer[w].no, xfer[w].off)
  <2>2. q.rows \in Seq(Item) /\ xfer[w].no \in Nat /\ xfer[w].off \in Nat
    BY <1>1 DEF OutboxTypeOK, Batch, WorkerTypeOK
  <2>3. Piece(c, q.rows)
    BY <2>1, <2>2, ChunkIsPiece DEF Piece
  <2>4. xfer'[w].chunk = {c}
    BY <1>1, <2>1 DEF WorkerTypeOK
  <2> HIDE DEF c
  <2>5. todo' = todo /\ pc'[w] = "ingest"
    BY <1>1, <1>3 DEF FetchChunk, Goto, WorkerTypeOK
  <2>6. q \in AllCaptured'
    BY DEF CaptureOrder
  <2>7. ASSUME NEW g \in todo'[w], InProcess(w, g)' PROVE g = h
    <3>1. g.id <= h.id /\ h.id <= g.id /\ g \in todo[w]
      BY <2>1, <2>5, <2>7 DEF InProcess
    <3>2. g.id \in Nat /\ h.id \in Nat
      BY <1>1, <3>1 DEF WorkerTypeOK, Header
    <3>3. g.id = h.id
      BY <3>1, <3>2
    <3> QED BY <3>1, <3>3 DEF Holds
  <2>8. /\ todo'[w] \subseteq {HeaderOf(p) : p \in AllCaptured'}
        /\ \A g, k \in todo'[w] : g.id = k.id => g = k
    BY <2>5 DEF Holds
  <2> QED BY <2>1, <2>3, <2>4, <2>5, <2>6, <2>7, <2>8 DEF Holds
<1>4. ASSUME NEW c, ChunkTransferred(w, c) PROVE Holds(w)'
  <2>1. xfer'[w].chunk = {}
    BY <1>1, <1>4 DEF ChunkTransferred, WorkerTypeOK
  <2>2. todo' = todo
    BY <1>4 DEF ChunkTransferred
  <2> QED BY <2>1, <2>2, HoldsNothing
<1>5. ASSUME NEW h, NextHeader(w, h) PROVE Holds(w)'
  <2>1. xfer'[w].chunk = {}
    BY <1>1, <1>5 DEF NextHeader, NoTransfer, WorkerTypeOK
  <2>2. todo'[w] \subseteq todo[w]
    BY <1>1, <1>5 DEF NextHeader, WorkerTypeOK
  <2> QED BY <2>1, <2>2, HoldsNothing
<1>6. CASE Crash(w)
  <2>1. xfer'[w].chunk = {} /\ todo'[w] = {}
    BY <1>1, <1>6 DEF Crash, NoTransfer, WorkerTypeOK
  <2> QED BY <2>1, HoldsNothing
<1>7. CASE LegacyFetch(w)
  <2> DEFINE piece(q) == [no |-> 1, offset |-> 0, rows |-> q.rows, last |-> TRUE]
  <2>1. PICK q \in outbox :
          /\ todo' = [todo EXCEPT ![w] = {HeaderOf(q)}]
          /\ xfer' = [xfer EXCEPT ![w].chunk = {piece(q)}]
    BY <1>7 DEF LegacyFetch
  <2>2. q.rows \in Seq(Item) /\ q \in AllCaptured'
    BY <1>1 DEF OutboxTypeOK, Batch, CaptureOrder
  <2>3. Piece(piece(q), q.rows) /\ piece(q).rows = q.rows
    BY <2>2, LenProperties DEF Piece
  <2> HIDE DEF piece
  <2>4. xfer'[w].chunk = {piece(q)}
    BY <1>1, <2>1 DEF WorkerTypeOK
  <2>5. todo'[w] = {HeaderOf(q)}
    BY <1>1, <2>1 DEF WorkerTypeOK
  <2>6. pc'[w] = "legacy"
    BY <1>1, <1>7 DEF LegacyFetch, Goto, WorkerTypeOK
  <2> QED BY <2>2, <2>3, <2>4, <2>5, <2>6 DEF Holds
<1>8. CASE IngestUnknown(w) \/ LegacyTransfer(w)
  <2>1. UNCHANGED <<todo, xfer>> /\ pc'[w] \in {"stage", "ack"}
    BY <1>1, <1>8 DEF IngestUnknown, LegacyTransfer, Goto, WorkerTypeOK
  <2> QED BY <2>1, HoldsSame
<1>9. CASE \/ Connect(w) \/ FinalizeKnown(w) \/ FinalizeUnknown(w)
           \/ FinalizeCommit(w) \/ RefuseCycle(w) \/ EndCleanCycle(w)
           \/ EndFailedCycle(w) \/ Report(w) \/ Purge(w) \/ LoseCycle(w)
           \/ LoseReport(w)
  <2>1. UNCHANGED <<todo, xfer>> /\ pc[w] \notin {"ingest", "stage", "legacy", "ack"}
    BY <1>9 DEF Connect, FinalizeKnown, FinalizeUnknown, FinalizeCommit,
       RefuseCycle, EndCleanCycle, EndFailedCycle, Report, Purge, LoseCycle,
       LoseReport
  <2>2. xfer'[w].chunk = {} /\ todo'[w] \subseteq todo[w]
    BY <2>1 DEF Holds
  <2> QED BY <2>2, HoldsNothing
<1>10. CASE \/ SkipAcknowledged(w) \/ Acknowledge(w) \/ RefuseBatch(w)
            \/ LoseCall(w) \/ LoseAckReply(w)
  BY <1>5, <1>10 DEF SkipAcknowledged, Acknowledge, RefuseBatch, LoseCall,
     LoseAckReply, BatchFailed
<1>11. CASE IngestKnown(w) \/ Stage(w)
  BY <1>4, <1>11 DEF IngestKnown, Stage
<1> QED BY <1>2, <1>3, <1>6, <1>7, <1>8, <1>9, <1>10, <1>11
     DEF WorkerStep, WorkerFault

(* A worker's step publishes nothing but what was captured.                *)
LEMMA PublishedByWorker ==
  ASSUME PublishInv, NEW w \in AnyWorker, WorkerStep(w) \/ WorkerFault(w)
  PROVE  PublishedFrom(AllCaptured)'
<1>1. PICK Q : Q = AllCaptured
  OBVIOUS
<1>2. RepoTypeOK /\ Distinguishable(Q) /\ PublishedFrom(Q) /\ TypeOK
  BY <1>1, CapturedDistinguishable DEF PublishInv, TypeOK
<1>3. ASSUME NEW h \in todo[w], InProcess(w, h), NEW c \in xfer[w].chunk
      PROVE  \E q \in Q : /\ HeaderOf(q) = h /\ Piece(c, q.rows)
                          /\ pc[w] = "legacy" => c.rows = q.rows
  BY <1>1, <1>3 DEF PublishInv, Holds
<1>4. PublishedFrom(Q)'
  <2>1. CASE Stage(w)
    <3>1. PICK h \in todo[w] : \E c \in xfer[w].chunk :
            InProcess(w, h) /\ StageChunk(h, c)
      BY <2>1 DEF Stage
    <3>2. PICK c \in xfer[w].chunk : InProcess(w, h) /\ StageChunk(h, c)
      BY <3>1
    <3>3. PICK q \in Q : HeaderOf(q) = h /\ Piece(c, q.rows)
      BY <1>3, <3>2
    <3> QED BY <1>2, <3>2, <3>3, StageChunkFrom
  <2>2. CASE FinalizeKnown(w)
    BY <1>2, <2>2, FinalizeAgainFrom DEF FinalizeKnown
  <2>3. CASE FinalizeCommit(w)
    BY <1>2, <2>3, FinalizeAgainFrom, FinalizeNewFrom DEF FinalizeCommit
  <2>4. CASE LegacyTransfer(w)
    <3>1. PICK h \in todo[w] : \E c \in xfer[w].chunk :
            InProcess(w, h) /\ LegacyIngest(h, c.rows)
      BY <2>4 DEF LegacyTransfer
    <3>2. PICK c \in xfer[w].chunk : InProcess(w, h) /\ LegacyIngest(h, c.rows)
      BY <3>1
    <3>3. PICK q \in Q : HeaderOf(q) = h /\ c.rows = q.rows
      BY <1>3, <2>4, <3>2 DEF LegacyTransfer
    <3>4. LegacyIngest(HeaderOf(q), q.rows)
      BY <3>2, <3>3
    <3> QED BY <1>2, <3>4, LegacyIngestFrom
  <2>5. CASE Purge(w)
    BY <1>2, <2>5, PurgeHistoryFrom DEF Purge
  <2>6. CASE ~ \/ Stage(w) \/ FinalizeKnown(w) \/ FinalizeCommit(w)
               \/ LegacyTransfer(w) \/ Purge(w)
    <3>1. UNCHANGED <<staging, receipts, finals, samples>>
      BY <2>6 DEF WorkerStep, WorkerFault, Connect, List, SkipAcknowledged,
         FetchChunk, IngestKnown, IngestUnknown, FinalizeUnknown, Acknowledge,
         RefuseBatch, BatchFailed, RefuseCycle, EndCleanCycle, EndFailedCycle,
         Report, RecordError, LegacyFetch, LoseCall, LoseAckReply, LoseCycle,
         LoseReport, Crash, repoVars
    <3> QED BY <1>2, <3>1, NothingPublished
  <2> QED BY <2>1, <2>2, <2>3, <2>4, <2>5, <2>6
<1>5. AllCaptured' = Q
  BY <1>1, <1>2, WorkerHistory DEF AllCaptured
<1> QED BY <1>4, <1>5 DEF PublishedFrom, StagedFrom, FinalFrom, ExactFrom

(* A step that leaves the repository alone publishes nothing, however many *)
(* batches it captures.                                                    *)
LEMMA PublishedBySource ==
  ASSUME PublishInv, UNCHANGED repoVars, OutboxTypeOK', CaptureOrder',
         AllCaptured \subseteq AllCaptured'
  PROVE  PublishedFrom(AllCaptured)'
<1>1. PICK Q : Q = AllCaptured
  OBVIOUS
<1>2. PICK P : P = AllCaptured'
  OBVIOUS
<1>3. Distinguishable(AllCaptured)'
  BY CapturedDistinguishable, PTL
<1>4. Distinguishable(P)
  BY <1>2, <1>3 DEF Distinguishable
<1>5. PublishedFrom(P)
  BY <1>1, <1>2, <1>4, MoreCaptures DEF PublishInv
<1>6. PublishedFrom(P)'
  BY <1>5, NothingPublished DEF repoVars
<1> QED BY <1>2, <1>6 DEF PublishedFrom, StagedFrom, FinalFrom, ExactFrom

(* Every step keeps all of it.                                             *)
LEMMA PublishStep == PublishInv /\ [Next]_vars => PublishInv'
<1> SUFFICES ASSUME PublishInv, [Next]_vars PROVE PublishInv'
  OBVIOUS
<1>1. TypeOK /\ OutboxTypeOK /\ CaptureOrder /\ \A w \in AnyWorker : Holds(w)
  BY DEF PublishInv, TypeOK
<1>2. TypeOK' /\ OutboxTypeOK'
  BY <1>1, TypeStep DEF TypeOK
<1>3. CASE SourceStep \/ UNCHANGED vars
  <2>1. UNCHANGED repoVars /\ UNCHANGED workerVars
    BY <1>3 DEF SourceStep, vars
  <2>2. CaptureOrder' /\ AllCaptured \subseteq AllCaptured'
    BY <1>1, <1>3, CaptureOrderStep DEF SourceStep, vars
  <2>3. PublishedFrom(AllCaptured)'
    BY <1>2, <2>1, <2>2, PublishedBySource
  <2>4. ASSUME NEW w \in AnyWorker PROVE Holds(w)'
    BY <1>1, <2>1, <2>2, HoldsSame DEF workerVars
  <2> QED BY <1>2, <2>2, <2>3, <2>4 DEF PublishInv
<1>4. ASSUME NEW w \in AnyWorker, WorkerStep(w) \/ WorkerFault(w) PROVE PublishInv'
  <2>1. CaptureOrder' /\ AllCaptured \subseteq AllCaptured'
    BY <1>1, <1>4, WorkerOutbox, CaptureOrderStep
  <2>2. PublishedFrom(AllCaptured)'
    BY <1>4, PublishedByWorker
  <2>3. ASSUME NEW v \in AnyWorker PROVE Holds(v)'
    <3>1. CASE v = w
      BY <1>1, <1>4, <2>1, <3>1, HoldsOwn
    <3>2. CASE v # w
      BY <1>1, <1>4, <2>1, <3>2, OthersUntouched, HoldsSame
    <3> QED BY <3>1, <3>2
  <2> QED BY <1>2, <2>1, <2>2, <2>3 DEF PublishInv
<1> QED BY <1>3, <1>4 DEF Next

(* Nothing captured, nothing public.                                       *)
LEMMA PublishInit == Init => PublishInv
<1> SUFFICES ASSUME Init PROVE PublishInv
  OBVIOUS
<1>1. AllCaptured = {} /\ outbox = {} /\ capturing = {}
  BY DEF Init, OutboxInit, AllCaptured
<1>2. CaptureOrder
  BY <1>1 DEF CaptureOrder
<1>3. \A w \in AnyWorker : Holds(w)
  <2> SUFFICES ASSUME NEW w \in AnyWorker PROVE Holds(w)
    OBVIOUS
  <2>1. todo[w] = {} /\ xfer[w].chunk = {}
    BY DEF Init, NoTransfer
  <2> QED BY <2>1 DEF Holds
<1>4. PublishedFrom(AllCaptured)
  BY NothingYet DEF Init
<1> QED BY <1>2, <1>3, <1>4, TypeInit DEF PublishInv

(***************************************************************************)
(* The inductive invariant of publication, for any number of recreations   *)
(* of the source volume: captures differ in their headers, a worker holds  *)
(* pieces of the batch it handles, and what is staged or public is made of *)
(* captured rows (snapshotter.py:560-628, sql/012, sql/013).               *)
(***************************************************************************)
THEOREM PublishInvariant == Spec => []PublishInv
BY PublishInit, PublishStep, PTL DEF Spec

(***************************************************************************)
(* Public evidence is exactly the capture, each raw row counted once,      *)
(* whatever workers of both releases interleave, repeat, lose or crash,    *)
(* whatever retention purges under them, and although a recreated source   *)
(* hands out batch ids again.                                              *)
(***************************************************************************)
THEOREM PublicIsCaptured == Spec => []PublishedExact
<1>1. PublishInv => PublishedExact
  <2> SUFFICES ASSUME PublishInv PROVE PublishedExact
    OBVIOUS
  <2> DEFINE final == {q \in AllCaptured : HeaderOf(q) \in finals}
  <2>1. finals = {HeaderOf(q) : q \in final}
    BY DEF PublishInv, PublishedFrom, FinalFrom
  <2>2. samples = Deserved(final)
    BY DEF PublishInv, PublishedFrom, ExactFrom
  <2> QED BY <2>1, <2>2 DEF PublishedExact, AllCaptured
<1> QED BY <1>1, PublishInvariant, PTL

-----------------------------------------------------------------------------
(***************************************************************************)
(* The JOIN pipeline implements the queue of JoinDelivery: the refinement, *)
(* proved for all values of the constants, of a source volume that is not  *)
(* recreated.  A batch in the outbox is a message in the queue, a header   *)
(* whose finalization committed is a message that has arrived.             *)
(***************************************************************************)

(* The messages of the abstract queue: headers within the model's bounds.  *)
Headers == [id : 1..MaxBatch, at : 0..MaxTime, count : 0..Cardinality(Item)]

(* Captures stay within the bounds of the model.                           *)
Bounded ==
  /\ now <= MaxTime
  /\ \A q \in capturing : HeaderOf(q) \in Headers
  /\ KnownHeaders \subseteq Headers

(* ... and every step keeps them there.                                    *)
LEMMA BoundedStep ==
  ASSUME TypeOK, Bounded, [Next]_vars
  PROVE  Bounded'
<1>1. OutboxTypeOK
  BY DEF TypeOK
<1>2. ASSUME UNCHANGED <<capturing, captured>>, now' <= MaxTime PROVE Bounded'
  BY <1>2 DEF Bounded, KnownHeaders
<1>3. CASE CaptureRead
  <2> DEFINE q == [id |-> nextBatch, at |-> now + 1, rows |-> SetToSeq(live)]
  <2>1. Len(q.rows) \in 0..Cardinality(Item)
    BY <1>1, LiveRows
  <2>2. q.id \in 1..MaxBatch /\ q.at \in 0..MaxTime /\ now' <= MaxTime
    BY <1>1, <1>3, OutboxBoundsAssumption DEF CaptureRead, OutboxTypeOK
  <2>3. HeaderOf(q) \in Headers
    BY <2>1, <2>2 DEF HeaderOf, Headers
  <2>4. capturing' = {q} /\ captured' = captured
    BY <1>3 DEF CaptureRead
  <2> HIDE DEF q
  <2> QED BY <2>2, <2>3, <2>4 DEF Bounded, KnownHeaders
<1>4. CASE CaptureCommit
  <2>1. ASSUME NEW c \in captured' PROVE HeaderOf(c.batch) \in Headers
    <3>1. CASE c \in captured
      BY <3>1 DEF Bounded, KnownHeaders
    <3>2. CASE c \notin captured
      <4>1. PICK q \in capturing : c = [epoch |-> epoch, batch |-> q]
        BY <1>4, <3>2 DEF CaptureCommit
      <4>2. c.batch = q
        BY <4>1
      <4> QED BY <4>2 DEF Bounded
    <3> QED BY <3>1, <3>2
  <2>2. KnownHeaders' \subseteq Headers
    BY <2>1 DEF KnownHeaders
  <2> QED BY <1>4, <2>2 DEF CaptureCommit, Bounded
<1>5. CASE CaptureReset \/ \E i \in Item : Record(i)
  BY <1>2, <1>5 DEF CaptureReset, Record, Bounded
<1>6. CASE CaptureAbort \/ Rebuild
  BY <1>6 DEF CaptureAbort, Rebuild, Bounded, KnownHeaders
<1>7. CASE Tick
  <2>1. now' <= MaxTime
    BY <1>1, <1>7, OutboxBoundsAssumption DEF Tick, OutboxTypeOK
  <2> QED BY <1>2, <1>7, <2>1 DEF Tick, captureVars
<1>8. ASSUME NEW w \in AnyWorker, WorkerStep(w) \/ WorkerFault(w) PROVE Bounded'
  <2>1. UNCHANGED <<now, capturing, captured>>
    BY <1>8, WorkerOutbox DEF AckBatch, captureVars, outboxVars
  <2> QED BY <1>2, <2>1 DEF Bounded
<1>9. CASE UNCHANGED vars
  BY <1>2, <1>9 DEF vars, outboxVars, Bounded
<1> QED BY <1>3, <1>4, <1>5, <1>6, <1>7, <1>8, <1>9 DEF Next, SourceStep, Capture

(* The first state is within the bounds.                                   *)
LEMMA BoundedInit == Init => Bounded
<1> SUFFICES ASSUME Init PROVE Bounded
  OBVIOUS
<1>1. now <= MaxTime
  BY OutboxBoundsAssumption DEF Init, OutboxInit
<1>2. capturing = {} /\ KnownHeaders = {}
  BY DEF Init, OutboxInit, KnownHeaders
<1> QED BY <1>1, <1>2 DEF Bounded

(* The queue of the refinement.                                            *)
Queue == {HeaderOf(q) : q \in outbox}

(* A commit of a capture sends its header, for the first time.             *)
LEMMA CommitSends ==
  ASSUME MaxRebuilds = 0, TransportInv, Bounded, CaptureCommit,
         UNCHANGED <<repoVars, workerVars>>
  PROVE  \/ UNCHANGED <<Queue, delivered>>
         \/ \E m \in Headers : /\ m \notin Queue \cup delivered
                               /\ Queue' = Queue \cup {m}
                               /\ UNCHANGED delivered
<1>1. IdsUnique /\ HeadersKnown
  BY DEF TransportInv
<1>2. UNCHANGED delivered
  BY DEF repoVars
<1>3. CASE capturing = {}
  <2>1. outbox' = outbox
    BY <1>3 DEF CaptureCommit
  <2> QED BY <1>2, <2>1 DEF Queue
<1>4. ASSUME NEW q \in capturing
      PROVE  \E m \in Headers : /\ m \notin Queue \cup delivered
                             /\ Queue' = Queue \cup {m}
                             /\ UNCHANGED delivered
  <2>1. capturing = {q}
    BY <1>1 DEF IdsUnique
  <2>2. outbox' = outbox \cup {q}
    BY <2>1 DEF CaptureCommit
  <2>3. Queue' = Queue \cup {HeaderOf(q)}
    BY <2>2 DEF Queue
  <2>4. \A c \in captured : c.batch.id # q.id
    BY <1>1 DEF IdsUnique
  <2>5. HeaderOf(q) \notin KnownHeaders
    BY <2>4 DEF KnownHeaders, HeaderOf
  <2>6. Queue \cup delivered \subseteq KnownHeaders
    BY <1>1 DEF HeadersKnown, Queue, KnownHeaders
  <2>7. HeaderOf(q) \in Headers
    BY DEF Bounded
  <2> QED BY <1>2, <2>3, <2>5, <2>6, <2>7
<1> QED BY <1>3, <1>4

(* A known header is queued or has arrived.                                *)
LEMMA QueuedOrArrived ==
  ASSUME TransportInv, NEW h \in KnownHeaders
  PROVE  h \in Queue \cup delivered
<1>1. PICK c \in captured : h = HeaderOf(c.batch)
  BY DEF KnownHeaders
<1>2. c.batch \in CapturedNow
  BY DEF TransportInv, IdsUnique, CapturedNow
<1> QED BY <1>1, <1>2 DEF TransportInv, AckedWasDelivered, Queue

(* A worker's step takes a header that has arrived off the queue, or adds  *)
(* one queued header to those that have arrived, or does neither.          *)
LEMMA WorkerMoves ==
  ASSUME TransportInv, Bounded, NEW w \in AnyWorker, WorkerStep(w) \/ WorkerFault(w)
  PROVE  \/ UNCHANGED <<Queue, delivered>>
         \/ \E m \in Headers : /\ m \in Queue \cap delivered
                               /\ Queue' = Queue \ {m}
                               /\ UNCHANGED delivered
         \/ \E m \in Headers : /\ m \in Queue
                               /\ delivered' = delivered \cup {m}
                               /\ UNCHANGED Queue
<1>1. TypeOK /\ IdsUnique /\ HeadersKnown /\ AckProven /\ KnownHeaders \subseteq Headers
  BY DEF TransportInv, Bounded
<1>2. todo[w] \subseteq KnownHeaders /\ Queue \subseteq KnownHeaders
      /\ staging \subseteq KnownHeaders
  BY <1>1 DEF HeadersKnown, Queue, KnownHeaders
<1>3. CASE Acknowledge(w) \/ LoseAckReply(w)
  <2>1. PICK h \in todo[w] : InProcess(w, h) /\ AckBatch(h.id)
    BY <1>3 DEF Acknowledge, LoseAckReply
  <2>2. h \in delivered /\ UNCHANGED delivered
    BY <1>1, <1>3, <2>1 DEF AckProven, Acknowledge, LoseAckReply, repoVars
  <2>3. Queue' = Queue \ {h}
    <3>1. \A q \in outbox : q.id = h.id <=> HeaderOf(q) = h
      <4> SUFFICES ASSUME NEW q \in outbox, q.id = h.id PROVE HeaderOf(q) = h
        BY DEF HeaderOf
      <4>1. HeaderOf(q) \in KnownHeaders /\ HeaderOf(q).id = q.id
        BY <1>2 DEF Queue, HeaderOf
      <4> QED BY <1>1, <1>2, <4>1, SameHeader
    <3>2. outbox' = {q \in outbox : HeaderOf(q) # h}
      BY <2>1, <3>1 DEF AckBatch
    <3> QED BY <3>2 DEF Queue
  <2>4. h \in Headers
    BY <1>1, <1>2
  <2> QED BY <2>2, <2>3, <2>4
<1>4. ASSUME UNCHANGED outbox, NEW h \in KnownHeaders, delivered' = delivered \cup {h}
      PROVE  \/ UNCHANGED <<Queue, delivered>>
             \/ \E m \in Headers : /\ m \in Queue
                                   /\ delivered' = delivered \cup {m}
                                   /\ UNCHANGED Queue
  <2>1. UNCHANGED Queue
    BY <1>4 DEF Queue
  <2>2. h \in Headers /\ h \in Queue \cup delivered
    BY <1>1, QueuedOrArrived
  <2> QED BY <1>4, <2>1, <2>2
<1>5. CASE ~(Acknowledge(w) \/ LoseAckReply(w))
  <2>1. UNCHANGED outbox
    BY <1>5 DEF outboxVars, WorkerStep, WorkerFault, Connect, List,
       SkipAcknowledged, FetchChunk, IngestKnown, ChunkTransferred, IngestUnknown,
       Stage, FinalizeKnown, FinalizeUnknown, FinalizeCommit, RefuseBatch,
       BatchFailed, RefuseCycle, EndCleanCycle, EndFailedCycle, Report, Purge,
       LegacyFetch, LegacyTransfer, LoseCall, LoseCycle, LoseReport, Crash
  <2>2. \/ UNCHANGED delivered
        \/ \E h \in KnownHeaders : delivered' = delivered \cup {h}
    <3>1. ASSUME NEW h \in todo[w], FinalizeNew(h.id)
          PROVE  \E s \in KnownHeaders : delivered' = delivered \cup {s}
      BY <1>2, <3>1 DEF FinalizeNew
    <3>2. ASSUME NEW h \in todo[w], NEW c \in Chunk, LegacyIngest(h, c.rows)
          PROVE  UNCHANGED delivered \/ delivered' = delivered \cup {h}
      BY <3>2 DEF LegacyIngest
    <3>3. ASSUME \/ \E h \in todo[w], c \in Chunk : StageChunk(h, c)
                 \/ \E h \in todo[w] : FinalizeAgain(h.id)
                 \/ RecordError
                 \/ PurgeHistory(now)
                 \/ UNCHANGED repoVars
          PROVE  UNCHANGED delivered
      BY <3>3 DEF StageChunk, FinalizeAgain, RecordError, PurgeHistory, repoVars
    <3> QED BY <1>1, <1>2, <3>1, <3>2, <3>3, WorkerRepo
  <2>3. CASE UNCHANGED delivered
    BY <2>1, <2>3 DEF Queue
  <2>4. CASE \E h \in KnownHeaders : delivered' = delivered \cup {h}
    BY <1>4, <2>1, <2>4
  <2> QED BY <2>2, <2>3, <2>4
<1> QED BY <1>3, <1>5

(***************************************************************************)
(* The transport implements the queue with at-least-once hand-over: every  *)
(* step of the pipeline sends a header, delivers one that waits, forgets   *)
(* one that has arrived, or changes neither end.                           *)
(***************************************************************************)
THEOREM TransportDelivers ==
  ASSUME MaxRebuilds = 0
  PROVE  Spec => DeliverySpec
<1> DEFINE Inv == TransportInv /\ Bounded
<1>1. Init => Delivery!Init
  BY DEF Init, OutboxInit, RepoInit, Delivery!Init
<1>2. Inv /\ [Next]_vars => [Delivery!Next]_Delivery!deliveryVars
  <2> SUFFICES ASSUME TransportInv, Bounded, [Next]_vars
               PROVE  \/ Delivery!Next
                      \/ UNCHANGED <<Queue, delivered>>
    BY DEF Queue, Delivery!deliveryVars
  <2> USE DEF Delivery!Next, Delivery!Send, Delivery!Arrive, Delivery!Forget,
              Queue, Headers
  <2>1. CASE SourceStep
    <3>1. UNCHANGED <<repoVars, workerVars>> /\ UNCHANGED delivered
      BY <2>1 DEF SourceStep, repoVars
    <3>2. CASE CaptureCommit
      BY <3>1, <3>2, CommitSends
    <3>3. CASE ~CaptureCommit
      <4>1. ~Rebuild
        BY DEF TransportInv, TypeOK, OutboxTypeOK, Rebuild
      <4>2. UNCHANGED outbox
        BY <2>1, <3>3, <4>1 DEF SourceStep, Capture, CaptureRead, CaptureReset,
           CaptureAbort, Tick, Record
      <4> QED BY <3>1, <4>2
    <3> QED BY <3>2, <3>3
  <2>2. ASSUME NEW w \in AnyWorker, WorkerStep(w) \/ WorkerFault(w)
        PROVE  Delivery!Next \/ UNCHANGED <<Queue, delivered>>
    BY <2>2, WorkerMoves
  <2>3. CASE UNCHANGED vars
    BY <2>3 DEF vars, outboxVars, repoVars
  <2> QED BY <2>1, <2>2, <2>3 DEF Next
<1>3. Spec => []TransportInv
  BY TransportInvariant
<1>4. Spec => []Bounded
  <2>1. TransportInv => TypeOK
    BY DEF TransportInv
  <2>2. TransportInv /\ Bounded /\ [Next]_vars => Bounded'
    BY <2>1, BoundedStep
  <2> QED BY <1>3, <2>2, BoundedInit, PTL DEF Spec
<1> QED BY <1>1, <1>2, <1>3, <1>4, PTL DEF Spec, DeliverySpec, Delivery!Spec
=============================================================================

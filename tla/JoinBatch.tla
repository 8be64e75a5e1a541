------------------------------ MODULE JoinBatch ------------------------------
(***************************************************************************)
(* The records the JOIN transport moves between the monitored source and   *)
(* the repository, and the deterministic carving of one captured batch     *)
(* into bounded chunks (advisor_join.fetch_batch_chunk).                   *)
(*                                                                         *)
(* An Item is one raw pg_qualstats row of a query that joins, the rows a   *)
(* capture exports; all its columns but its encoded width are abstracted.  *)
(* A batch is the sequence of rows captured at one reset boundary, in      *)
(* row_no order.                                                           *)
(***************************************************************************)
EXTENDS Naturals, Sequences, FiniteSets, FiniteSetsExt

CONSTANTS
  Item,            \* raw predicate rows that joining queries leave behind
  Width,           \* Width[i]: bytes of row i in the chunk payload
  MaxChunkRows,    \* c_max_chunk_rows
  MaxChunkBytes    \* c_max_chunk_bytes

ASSUME ItemAssumption == IsFiniteSet(Item)
ASSUME WidthAssumption == Width \in [Item -> Nat]
ASSUME ChunkRowsAssumption == MaxChunkRows \in Nat \ {0}
ASSUME ChunkBytesAssumption == MaxChunkBytes \in Nat

(* A row of outbox_batches together with its outbox_rows. *)
Batch == [id : Nat, at : Nat, rows : Seq(Item)]

(* What list_batch_headers returns, and what the repository keys on. *)
Header == [id : Nat, at : Nat, count : Nat]

HeaderOf(q) == [id |-> q.id, at |-> q.at, count |-> Len(q.rows)]

Chunk == [no : Nat, offset : Nat, rows : Seq(Item), last : BOOLEAN]

-----------------------------------------------------------------------------
(* octet_length of the k rows that follow offset. *)
PayloadBytes(rows, offset, k) ==
  MapThenSumSet(LAMBDA i : Width[rows[i]], (offset + 1)..(offset + k))

(* The row limits the halving loop tries: limit, limit/2, ..., 1. *)
Halvings(limit) == {k \in 1..limit : \E j \in 0..limit : k = limit \div (2^j)}

(* Those whose payload passes EXIT WHEN v_payload_bytes <= limit. *)
FittingSizes(rows, offset) ==
  LET limit == Min({MaxChunkRows, Len(rows) - offset})
  IN  {k \in Halvings(limit) : PayloadBytes(rows, offset, k) <= MaxChunkBytes}

(* The loop stops at the first, hence the largest, size that fits. *)
ChunkSize(rows, offset) ==
  IF rows = <<>> THEN 0 ELSE Max(FittingSizes(rows, offset))

(* fetch_batch_chunk raises on an offset outside the batch and on a single *)
(* row that is wider than a whole chunk.                                   *)
ChunkRaises(rows, offset) ==
  IF rows = <<>>
  THEN offset # 0
  ELSE \/ offset >= Len(rows)
       \/ FittingSizes(rows, offset) = {}

(* The chunk that number no, starting at offset, carries. *)
ChunkAt(rows, no, offset) ==
  LET k == ChunkSize(rows, offset)
  IN  [no |-> no, offset |-> offset,
       rows |-> SubSeq(rows, offset + 1, offset + k),
       last |-> offset + k = Len(rows)]
=============================================================================

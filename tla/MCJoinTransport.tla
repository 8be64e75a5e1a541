--------------------------- MODULE MCJoinTransport ---------------------------
(***************************************************************************)
(* Model checking of the JOIN pipeline.  Row p is wider than a whole chunk *)
(* (a poison row); the other rows share one natural key.                   *)
(***************************************************************************)
EXTENDS JoinTransport

CONSTANTS a, b, p, w1, w2, lw, Rows, k1

MCWidth == [i \in Rows |-> IF i = p THEN 3 ELSE 1]
MCKeyOf == [i \in Rows |-> k1]
MCPairOf == [c \in {} |-> [join |-> k1, filter |-> k1]]

Symmetry == Permutations(Worker)

-----------------------------------------------------------------------------
Poison(q) == \E i \in ToSet(q.rows) : Width[i] > MaxChunkBytes

(***************************************************************************)
(* A batch the transport can carry leaves the source, although a batch it  *)
(* cannot carry stays at the head of the list (the per-batch handler of    *)
(* run_cycle; docs/ARCHITECTURE.md:103).                                   *)
(***************************************************************************)
TransferableDrains ==
  \A n \in 1..MaxBatch :
    (\E q \in outbox : q.id = n /\ ~Poison(q)) ~> ~Pending(n)
=============================================================================

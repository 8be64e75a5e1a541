-------------------------- MODULE MCJoinRepository --------------------------
(***************************************************************************)
(* Model checking of the repository functions: a batch of four rows that   *)
(* can be carved in many ways, its namesake as after a recreated source    *)
(* volume, and a newer batch.                                              *)
(***************************************************************************)
EXTENDS JoinIngest

CONSTANTS r1, r2, r3, r4, kj, kf, kx, cand

MCItem == {r1, r2, r3, r4}
MCWidth == [i \in MCItem |-> 1]
MCKeyOf == [i \in MCItem |-> CASE i = r2 -> kj [] i = r3 -> kx [] OTHER -> kf]
MCPairOf == [x \in {cand} |-> [join |-> kj, filter |-> kf]]

MCSent == {[id |-> 1, at |-> 1, rows |-> <<r1, r2, r3, r4>>],
           [id |-> 1, at |-> 2, rows |-> <<r2>>],
           [id |-> 2, at |-> 2, rows |-> <<r2, r1>>]}
=============================================================================

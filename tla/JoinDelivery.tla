----------------------------- MODULE JoinDelivery -----------------------------
(***************************************************************************)
(* What the JOIN pipeline promises: a queue from which a message is taken  *)
(* only after it has arrived at the other side.                            *)
(***************************************************************************)
CONSTANT Message

VARIABLES
  queue,     \* messages waiting at the source
  arrived    \* messages that are durable in the repository

deliveryVars == <<queue, arrived>>

Init == queue = {} /\ arrived = {}

(* A message is sent once. *)
Send(m) ==
  /\ m \notin queue \cup arrived
  /\ queue' = queue \cup {m}
  /\ UNCHANGED arrived

(* It arrives while it is still waiting, the first time at least ... *)
Arrive(m) ==
  /\ m \in queue
  /\ arrived' = arrived \cup {m}
  /\ UNCHANGED queue

(* ... and only then may it be forgotten. *)
Forget(m) ==
  /\ m \in queue \cap arrived
  /\ queue' = queue \ {m}
  /\ UNCHANGED arrived

Next == \E m \in Message : Send(m) \/ Arrive(m) \/ Forget(m)

Spec == Init /\ [][Next]_deliveryVars
=============================================================================

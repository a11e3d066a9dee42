---------------------------- MODULE OutboxDelivery ----------------------------
(***************************************************************************)
(* What the outbox promises whoever records an event in it: the event is    *)
(* handled, or marked failed for somebody to look at, and that is final.    *)
(***************************************************************************)
CONSTANT Events

VARIABLE outcome

Outcome == {"absent", "pending", "handled", "failed"}

Init == outcome = [e \in Events |-> "absent"]

Record(e) ==
  /\ outcome[e] = "absent"
  /\ outcome' = [outcome EXCEPT ![e] = "pending"]

Settle(e) ==
  /\ outcome[e] = "pending"
  /\ \E o \in {"handled", "failed"} : outcome' = [outcome EXCEPT ![e] = o]

Next == \E e \in Events : Record(e) \/ Settle(e)

Spec == Init /\ [][Next]_outcome
===============================================================================

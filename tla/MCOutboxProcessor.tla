-------------------------- MODULE MCOutboxProcessor --------------------------
(* OutboxProcessor for TLC: a few events, some without a handler.           *)
EXTENDS OutboxProcessor, TLC

CONSTANT Count  \* how many events there are

FirstEvents == 1..Count
TheFirst == {1}

(* Processors are interchangeable. *)
Symmetry == Permutations(Processors)
===============================================================================

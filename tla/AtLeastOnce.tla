---------------------------- MODULE AtLeastOnce -----------------------------
(***************************************************************************)
(* What a loop that commits its own offsets promises                       *)
(* (sinks/postgres_sink.py): "Rows first, offsets second. The order is the *)
(* whole guarantee." A message may be dealt with any number of times, and  *)
(* offsets only pass messages that have been.                              *)
(***************************************************************************)
EXTENDS Integers

CONSTANT Partitions

VARIABLES
    committed,  \* committed[p]: messages of p the group is done with
    done        \* done[p]: messages of p that have been dealt with

Init ==
    /\ committed = [p \in Partitions |-> 0]
    /\ done \in [Partitions -> SUBSET Nat]

\* A batch is dealt with, or offsets are committed, over any of the partitions.
Advance ==
    /\ done' \in [Partitions -> SUBSET Nat]
    /\ committed' \in [Partitions -> Nat]
    /\ \A p \in Partitions :
           /\ done[p] \subseteq done'[p]
           /\ committed[p] =< committed'[p]
           /\ 1..committed'[p] \subseteq done'[p]

Spec == Init /\ [][Advance]_<<committed, done>>
=============================================================================

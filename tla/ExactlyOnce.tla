---------------------------- MODULE ExactlyOnce -----------------------------
(***************************************************************************)
(* What the transactional loop promises (processors/transactional.py):     *)
(* "the output messages and the consumer offsets for the input that        *)
(* produced them commit together or not at all". Whatever crashes and      *)
(* moves between instances, a reader of committed data sees offsets that   *)
(* only move forward, and exactly the output of a sequential run up to     *)
(* them.                                                                   *)
(***************************************************************************)
EXTENDS Processor

VARIABLES
    committed,   \* committed[p]: messages of p the group has processed
    out          \* out[p]: committed output for the messages of p

Init ==
    /\ committed = [p \in Partitions |-> 0]
    /\ out = [p \in Partitions |-> <<>>]

\* One transaction, over any of the partitions.
Advance ==
    /\ committed' \in [Partitions -> Nat]
    /\ \A p \in Partitions : committed[p] =< committed'[p]
    /\ \A p \in Partitions : committed'[p] =< Len(Log[p])
    /\ out' = [p \in Partitions |-> SeqOut[p][committed'[p]]]

Spec == Init /\ [][Advance]_<<committed, out>>
=============================================================================

----------------------------- MODULE Processor ------------------------------
(***************************************************************************)
(* What a subclass of TransactionalProcessor supplies, and the result it   *)
(* is meant to have: the output of one process that reads every partition  *)
(* in order, never fails and never loses its memory.                       *)
(***************************************************************************)
EXTENDS Integers, Sequences

CONSTANTS
    Partitions,      \* partitions of the input topic
    Log,             \* Log[p]: the messages of partition p, in offset order
    Fresh,           \* a partition's state before any message
    NoState,         \* a partition this instance keeps no state for
    Absorb(_, _),    \* handle: the state after a message
    Emits(_, _),     \* handle: the output messages for a message
    Raises(_),       \* handle: does the message make it raise?
    Restore(_, _, _, _)  \* partitions_assigned: the state rebuilt from what is
                         \* in memory, the partition, its committed offset and
                         \* its committed output

(***************************************************************************)
(* The sequential run: the state and the output after k messages of p.     *)
(***************************************************************************)
CONSTANTS SeqState, SeqOut

\* What the sequential run emits for message k + 1 of p, and all of it.
SeqEmits(p, k) == Emits(SeqState[p][k], Log[p][k + 1])
Outputs ==
    UNION {UNION {{SeqEmits(p, k)[n] : n \in DOMAIN SeqEmits(p, k)} :
                      k \in 0..(Len(Log[p]) - 1)} : p \in Partitions}

ASSUME SequentialRun ==
    /\ \A p \in Partitions : Len(Log[p]) \in Nat
    /\ \A p \in Partitions : SeqState[p][0] = Fresh /\ SeqOut[p][0] = <<>>
    /\ \A p \in Partitions : \A k \in 0..(Len(Log[p]) - 1) :
           /\ SeqState[p][k + 1] = Absorb(SeqState[p][k], Log[p][k + 1])
           /\ SeqEmits(p, k) \in Seq(Outputs)
           /\ SeqOut[p][k + 1] = SeqOut[p][k] \o SeqEmits(p, k)
=============================================================================

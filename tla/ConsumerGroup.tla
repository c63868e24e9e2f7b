--------------------------- MODULE ConsumerGroup ----------------------------
(***************************************************************************)
(* The consumer group under the components that write to PostgreSQL: the   *)
(* trending processor and the two sinks. Their offsets are committed by    *)
(* the consumer itself (no transaction), and they share this part of the   *)
(* loop: common/topics.py, consumer_config in common/config.py.            *)
(*                                                                         *)
(* Offsets count messages: o messages of a partition are committed, and    *)
(* message o + 1 is next.                                                  *)
(***************************************************************************)
EXTENDS Integers, Sequences

CONSTANTS
    Partitions,  \* partitions of the input topic
    Log,         \* Log[p]: the messages of partition p, in offset order
    Instances,   \* members of the group
    NoInstance,  \* no owner
    MaxFaults    \* bound: revocations, expulsions, stops, crashes, lost writes

ASSUME GroupAssumption ==
    /\ NoInstance \notin Instances
    /\ MaxFaults \in Nat
    /\ \A p \in Partitions : Len(Log[p]) \in Nat

VARIABLES
    committed,  \* group offsets
    owner,      \* the group coordinator's view of who owns a partition
    pc,         \* where member i is; "down" when it is not running
    assigned,   \* consumer.assignment()
    pos,        \* consumer.position()
    faults

groupVars == <<committed, owner, pc, assigned, pos, faults>>

GroupInit ==
    /\ committed = [p \in Partitions |-> 0]
    /\ owner = [p \in Partitions |-> NoInstance]
    /\ pc = [i \in Instances |-> "down"]
    /\ assigned = [i \in Instances |-> {}]
    /\ pos = [i \in Instances |-> [p \in Partitions |-> 0]]
    /\ faults = 0

FaultBudget == faults < MaxFaults /\ faults' = faults + 1

\* The coordinator took i's partitions away and i does not know yet.
Stale(i) == \E p \in assigned[i] : owner[p] # i

\* Consumer() and subscribe: a new member waits for its old self to be dropped.
Join(i) ==
    /\ pc[i] = "down"
    /\ \A p \in Partitions : owner[p] # i
    /\ pc' = [pc EXCEPT ![i] = "poll"]
    /\ UNCHANGED <<committed, owner, assigned, pos, faults>>

\* on_assign and take_partitions, inside poll(): reading starts after message
\* `after`.
TakeFrom(i, p, after) ==
    /\ pc[i] = "poll"
    /\ ~Stale(i)
    /\ owner[p] = NoInstance
    /\ owner' = [owner EXCEPT ![p] = i]
    /\ assigned' = [assigned EXCEPT ![i] = @ \union {p}]
    /\ pos' = [pos EXCEPT ![i][p] = after]
    /\ UNCHANGED <<committed, pc, faults>>

\* The log is all there: reading starts at the committed offset.
Take(i, p) == TakeFrom(i, p, committed[p])

\* poll() returned the next message of p.
Advance(i, p) ==
    /\ pc[i] = "poll"
    /\ p \in assigned[i]
    /\ pos[i][p] < Len(Log[p])
    /\ pos' = [pos EXCEPT ![i][p] = @ + 1]
    /\ UNCHANGED <<committed, owner, pc, assigned, faults>>

\* release_partitions: what i still owned of S is free, and i has no position
\* there any more.
GiveUp(i, S) ==
    /\ assigned' = [assigned EXCEPT ![i] = @ \ S]
    /\ pos' = [pos EXCEPT ![i] = [p \in Partitions |-> IF p \in S THEN 0 ELSE @[p]]]
    /\ owner' = [p \in Partitions |->
                    IF p \in S /\ owner[p] = i THEN NoInstance ELSE owner[p]]

\* The coordinator expels a member that is too slow, or dead.
Expel(i) ==
    /\ \E p \in Partitions : owner[p] = i
    /\ IF pc[i] = "down" THEN UNCHANGED faults ELSE FaultBudget
    /\ owner' = [p \in Partitions |-> IF owner[p] = i THEN NoInstance ELSE owner[p]]
    /\ UNCHANGED <<committed, pc, assigned, pos>>

\* The process ends without leaving the group.
Die(i) ==
    /\ pc' = [pc EXCEPT ![i] = "down"]
    /\ assigned' = [assigned EXCEPT ![i] = {}]
    /\ pos' = [pos EXCEPT ![i] = [p \in Partitions |-> 0]]
    /\ UNCHANGED <<committed, owner>>

\* commit(asynchronous=False) for the offsets of the partitions in DOMAIN
\* offsets: refused, with an exception, when the member was expelled.
\* Mutant: never refused.
MutantCommitAccepted(i, offsets) == TRUE
CommitAccepted(i, offsets) == DOMAIN offsets = {} \/ ~Stale(i)

CommitTo(offsets) ==
    committed' = [p \in Partitions |-> IF p \in DOMAIN offsets
                                       THEN offsets[p] ELSE committed[p]]

GroupTypeOK ==
    /\ \A p \in Partitions : committed[p] \in 0..Len(Log[p])
    /\ DOMAIN committed = Partitions
    /\ owner \in [Partitions -> Instances \union {NoInstance}]
    /\ assigned \in [Instances -> SUBSET Partitions]
    /\ \A i \in Instances : \A p \in Partitions : pos[i][p] \in 0..Len(Log[p])
    /\ faults \in 0..MaxFaults

\* A committed offset never moves back, not even when a member that was
\* expelled commits late: consumer.commit is refused then.
OffsetsNeverRegress ==
    [][\A p \in Partitions : committed'[p] >= committed[p]]_committed
=============================================================================

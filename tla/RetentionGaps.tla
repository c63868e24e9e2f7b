--------------------------- MODULE RetentionGaps ----------------------------
(***************************************************************************)
(* A topic's retention under a consumer group (common/offsets.py): records *)
(* may be deleted before the group has read them. On assignment the member *)
(* compares the committed offset with the log start and reports what is    *)
(* gone; auto.offset.reset then starts it at the oldest record left.       *)
(*                                                                         *)
(* Retention deletes only what no member owns here: what it deletes under  *)
(* a member that is running but too slow, or between the report and the    *)
(* first fetch, is not reported by anyone.                                 *)
(***************************************************************************)
EXTENDS ConsumerGroup

VARIABLES
    logStart,  \* logStart[p]: the first logStart[p] messages are deleted
    reported,  \* history: messages reported as expired unread
    begun      \* history: where p was first read from, without an offset

retentionVars == <<logStart, reported, begun>>

RetentionInit ==
    /\ logStart = [p \in Partitions |-> 0]
    /\ reported = [p \in Partitions |-> {}]
    /\ begun = [p \in Partitions |-> 0]

\* retention.ms has passed for the messages up to n. The stream goes on, so the
\* last message is never old enough.
Expire(p, n) ==
    /\ FaultBudget
    /\ owner[p] = NoInstance
    /\ n \in (logStart[p] + 1)..(Len(Log[p]) - 1)
    /\ logStart' = [logStart EXCEPT ![p] = n]
    /\ UNCHANGED <<committed, owner, pc, assigned, pos, reported, begun>>

\* find_retention_gaps: "No commit yet: a new group, nothing to have lost".
\* Mutant: the record at the committed offset is left out.
MutantGap(p) ==
    IF committed[p] = 0 THEN {} ELSE (committed[p] + 2)..logStart[p]
Gap(p) == IF committed[p] = 0 THEN {} ELSE (committed[p] + 1)..logStart[p]

\* auto.offset.reset = earliest
StartOf(p) == IF committed[p] < logStart[p] THEN logStart[p] ELSE committed[p]

\* on_assign with report_retention_gaps.
TakeReporting(i, p) ==
    /\ TakeFrom(i, p, StartOf(p))
    /\ reported' = [reported EXCEPT ![p] = @ \union Gap(p)]
    /\ begun' = [begun EXCEPT ![p] = IF committed[p] = 0 THEN StartOf(p) ELSE @]
    /\ UNCHANGED logStart

\* Messages the group is not going to store: reported, or gone before the group
\* had an offset.
Excused(p) == reported[p] \union 1..begun[p]

RetentionTypeOK ==
    \A p \in Partitions :
        /\ logStart[p] \in 0..Len(Log[p])
        /\ reported[p] \subseteq 1..Len(Log[p])
        /\ begun[p] \in 0..Len(Log[p])
=============================================================================

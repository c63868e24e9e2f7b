------------------------ MODULE AssignmentWatchdog --------------------------
(***************************************************************************)
(* AssignmentWatchdog in common/topics.py: a group that formed before its  *)
(* topic was known everywhere has an assignment that covers no partition,  *)
(* and nothing would change that. Every member looks at the group now and  *)
(* then and, when it saw partitions without an owner at enough checks in a *)
(* row, leaves the group and joins it again.                               *)
(***************************************************************************)
EXTENDS ConsumerGroup, FiniteSets

CONSTANT StrikesBeforeRejoin  \* STRIKES_BEFORE_REJOIN

ASSUME StrikesAssumption == StrikesBeforeRejoin \in Nat \ {0}

VARIABLES
    covered,  \* does the group's assignment cover the topic?
    strikes   \* strikes[i]: self.strikes of member i

watchdogVars == <<covered, strikes>>

\* The topic has just been created.
WatchdogInit ==
    /\ covered = FALSE
    /\ strikes = [i \in Instances |-> 0]

\* Members join: the leader computes an assignment from the metadata of the
\* coordinator, which may or may not know the topic by now.
Computed == covered' \in {covered, TRUE}

\* The count starts afresh.
NewWatchdog(i) == strikes' = [strikes EXCEPT ![i] = 0]

\* unowned_partitions: over all members. Mutant: over this one.
MutantUnowned(i) == Cardinality(Partitions \ assigned[i])
Unowned(i) == Cardinality({p \in Partitions : owner[p] = NoInstance})

\* Partitions are on their way from one member to another.
Rebalancing == covered /\ \E p \in Partitions : owner[p] = NoInstance

\* check found none, or a group that is not stable.
CheckPasses(i) ==
    /\ Unowned(i) = 0 \/ Rebalancing
    /\ strikes[i] > 0
    /\ NewWatchdog(i)
    /\ UNCHANGED <<groupVars, covered>>

\* check found partitions without an owner in a stable group. The group also
\* looks stable between the two rounds of a cooperative rebalance: that a check,
\* every 15 s, falls into that moment is a fault of the budget.
SeesUnowned(i) ==
    /\ Unowned(i) > 0
    /\ IF Rebalancing THEN FaultBudget ELSE UNCHANGED faults

CheckStrikes(i) ==
    /\ SeesUnowned(i)
    /\ strikes[i] + 1 < StrikesBeforeRejoin
    /\ strikes' = [strikes EXCEPT ![i] = @ + 1]
    /\ UNCHANGED <<committed, owner, pc, assigned, pos, covered>>

\* _rejoin: unsubscribe gives the partitions up, subscribe makes the group
\* compute its assignment again, from metadata that is complete by now.
CheckRejoins(i) ==
    /\ SeesUnowned(i)
    /\ strikes[i] + 1 >= StrikesBeforeRejoin
    /\ NewWatchdog(i)
    /\ GiveUp(i, assigned[i])
    /\ covered' = TRUE
    /\ UNCHANGED <<committed, pc>>

Check(i) ==
    /\ pc[i] = "poll"
    /\ CheckPasses(i) \/ CheckStrikes(i) \/ CheckRejoins(i)

WatchdogTypeOK ==
    /\ covered \in BOOLEAN
    /\ strikes \in [Instances -> 0..(StrikesBeforeRejoin - 1)]
=============================================================================

---------------------------- MODULE DetectorFeed ----------------------------
(***************************************************************************)
(* Edit war detection on one partition, fed with any short sequence of     *)
(* messages, some of them late, next to a reference: the rule of           *)
(* edit_war_detector.py's first lines, stated over the whole history.      *)
(* expire may run, and the partition may get a new owner, at any time. The *)
(* loop commits alerts with offsets, so each message counts as committed   *)
(* when it is handled: see TransactionalProcessor.                         *)
(***************************************************************************)
EXTENDS EditWar, OwnerReplay

CONSTANTS
    Edits,         \* what a message may say, apart from when
    Times,         \* event times in ms
    Lags,          \* how long after its event a message may get to Kafka
    MaxLateMs,     \* bound: how far a message may be behind one before it
    MaxEvents      \* bound: how many messages there are

ASSUME FeedAssumption ==
    /\ \A e \in Edits : e.bot \in BOOLEAN /\ e.revert \in BOOLEAN /\ e.readable \in BOOLEAN
    /\ Times \subseteq Nat /\ Lags \subseteq Nat /\ MaxEvents \in Nat

VARIABLES
    det,       \* the owner's detector
    seen,      \* the partition: every message handled, in offset order
    raised     \* history: the alerts, each with the offset that raised it

vars == <<det, seen, raised, next, missed, restarts>>

Init ==
    /\ det = NewDetector
    /\ seen = <<>>
    /\ raised = {}
    /\ ReplayInit

\* The cleaner copies a message's timestamp, the time at which the ingestor sent it.
Message(n, e, t, lag) ==
    [id |-> n, page |-> e.page, user |-> e.user, bot |-> e.bot, revert |-> e.revert,
     readable |-> e.readable, time |-> t, stamp |-> t + lag]

\* handle
Feed(msg) ==
    /\ Len(seen) < MaxEvents
    /\ \A n \in DOMAIN seen : seen[n].time - msg.time =< MaxLateMs
    /\ ReadOn(seen, Len(seen))
    /\ det' = WarAbsorb(det, msg)
    /\ seen' = Append(seen, msg)
    /\ raised' = raised \union
                 {[at |-> msg.id, alert |-> a] : a \in Range(WarEmits(det, msg))}

\* periodic
Housekeeping ==
    /\ ~Replaying(seen, Len(seen))
    /\ det' = Expire(det)
    /\ UNCHANGED <<seen, raised, next, missed, restarts>>

\* warm: a new detector, whatever was there, in the same or another process
NewOwner ==
    /\ BeginReplay(seen, Len(seen), WarWindowMs)
    /\ det' = NewDetector
    /\ UNCHANGED <<seen, raised>>

\* _replay_into: alerts found are discarded.
Warm ==
    /\ ReplayNext(seen, Len(seen))
    /\ det' = WarAbsorb(det, seen[next])
    /\ UNCHANGED <<seen, raised>>

\* The replay is cut short.
CutShort == EndReplay(seen, Len(seen)) /\ UNCHANGED <<det, seen, raised>>

Next ==
    \/ \E e \in Edits, t \in Times, lag \in Lags : Feed(Message(Len(seen) + 1, e, t, lag))
    \/ Housekeeping
    \/ NewOwner
    \/ Warm
    \/ CutShort

Spec == Init /\ [][Next]_vars

-----------------------------------------------------------------------------
IsRevert(n) == seen[n].readable /\ Counts(seen[n])

\* The reverts of message n's page up to n; those at most a window old.
Reverts(n) == {m \in 1..n : IsRevert(m) /\ seen[m].page = seen[n].page}
Recent(n) == {m \in Reverts(n) : seen[n].time - seen[m].time =< WarWindowMs}

\* The rule: a war starts with enough reverts by enough people, and lasts until no
\* revert has come for a window.
Enough(n) ==
    /\ Cardinality(Recent(n)) >= MinReverts
    /\ Cardinality({seen[m].user : m \in Recent(n)}) >= MinUsers

InWar(n) ==
    /\ IsRevert(n)
    /\ \E first \in Reverts(n) :
           /\ Enough(first)
           /\ \A m \in Reverts(n) : m > first => \E k \in Recent(m) : first =< k /\ k < m

StartsWar(n) == InWar(n) /\ \A m \in Recent(n) \ {n} : ~InWar(m)

\* How far out of order the messages came.
LateMs ==
    Max({0} \union UNION {{seen[m].time - seen[n].time : m \in 1..n} : n \in DOMAIN seen})

\* Events at most a window apart have messages stamped at most a window apart.
NoneHeldUp ==
    \A m, n \in DOMAIN seen :
        m =< n /\ seen[n].time - seen[m].time =< WarWindowMs =>
            seen[n].stamp - seen[m].stamp =< WarWindowMs

Alerted == {r.at : r \in raised}
Starts == {n \in DOMAIN seen : StartsWar(n)}

\* With one owner, messages in order, and whenever expire runs, there is an alert
\* for exactly the reverts that start a war by the rule, one for each war.
OneAlertPerWar == restarts = 0 /\ LateMs = 0 => Alerted = Starts

\* With any number of owners there is no alert but at a revert in a war, and no war
\* is missed unless a replay left some of its window out: one window of history is
\* enough for that, though it is a window of message times and the rule's is one of
\* event times, as long as no message gets to Kafka long after its event.
NoWarMissed ==
    LateMs = 0 =>
        /\ \A n \in Alerted : InWar(n)
        /\ missed = {} /\ NoneHeldUp => Starts \subseteq Alerted

\* "A page is flagged when it collects min_reverts reverts inside window_ms":
\* the reverts an alert names, with those that a replay brought back among them,
\* are no further apart than that and what messages came late by: _evict stops at
\* the first revert that is recent enough, so later ones may be older.
InsideWindow ==
    \A r \in raised : r.alert.end - r.alert.start =< WarWindowMs + LateMs
=============================================================================

---------------------------- MODULE CleanerFeed -----------------------------
(***************************************************************************)
(* One partition of wiki.raw and its cleaner, over every short sequence of *)
(* messages. The partition may get a new owner, which warms up a new       *)
(* cache, at any point; what the owner has handled is committed, see       *)
(* TransactionalProcessor. Copies of an event have its event time, so they *)
(* arrive out of the order of event times; message timestamps do not go    *)
(* back.                                                                   *)
(***************************************************************************)
EXTENDS Cleaner, OwnerReplay

CONSTANTS
    EventIds,      \* ids: each is its event's time in ms, too
    InvalidIds,    \* the ids of events that clean_event rejects
    Stamps,        \* message timestamps in ms
    MaxEvents      \* bound: how many messages there are

ASSUME FeedAssumption ==
    EventIds \subseteq Nat /\ Stamps \subseteq Nat /\ MaxEvents \in Nat

VARIABLES
    log,      \* the partition, from beginning to end
    done,     \* how many messages are handled
    cache,    \* the owner's cache
    emitted   \* history: the offsets that were emitted as clean

vars == <<log, done, cache, emitted, next, missed, restarts>>

Message(id, stamp) ==
    [id |-> id, time |-> id, stamp |-> stamp,
     kind |-> IF id \in InvalidIds THEN "invalid" ELSE "edit"]

Init ==
    /\ \E ids \in [1..MaxEvents -> EventIds], stamps \in [1..MaxEvents -> Stamps] :
           /\ \A n \in 1..MaxEvents : stamps[n] >= ids[n]
           /\ \A m, n \in 1..MaxEvents : m =< n => stamps[m] =< stamps[n]
           /\ log = [n \in 1..MaxEvents |-> Message(ids[n], stamps[n])]
    /\ done = 0
    /\ cache = EmptyCache
    /\ emitted = {}
    /\ ReplayInit

\* handle
Handle ==
    /\ done < MaxEvents
    /\ ReadOn(log, done)
    /\ LET msg == log[done + 1]
       IN /\ cache' = CleanAbsorb(cache, msg)
          /\ emitted' = IF CleanEmits(cache, msg) = <<<<"clean", msg.id>>>>
                        THEN emitted \union {done + 1} ELSE emitted
    /\ done' = done + 1
    /\ UNCHANGED log

\* partitions_assigned, in a process that has no cache for the partition
NewOwner ==
    /\ BeginReplay(log, done, WindowMs)
    /\ cache' = EmptyCache
    /\ UNCHANGED <<log, done, emitted>>

\* _load
Warm ==
    /\ ReplayNext(log, done)
    /\ cache' = Load(cache, log[next])
    /\ UNCHANGED <<log, done, emitted>>

\* The replay is cut short.
CutShort == EndReplay(log, done) /\ UNCHANGED <<log, done, cache, emitted>>

Next == Handle \/ NewOwner \/ Warm \/ CutShort

Spec == Init /\ [][Next]_vars

-----------------------------------------------------------------------------
Valid(n) == log[n].id \notin InvalidIds

\* How far the partition had got before message n, by either clock.
NewestTime(n) == Max({log[k].time : k \in {j \in 1..(n - 1) : Valid(j)}})
NewestStamp(n) == log[n - 1].stamp

\* A copy is found, by whichever owner, when the partition is no more than a
\* window past its original by event time and by message time, there were no
\* more ids so far than the cache may hold, and no replay left its original out.
CopiesFound ==
    \A n \in emitted : \A m \in 1..(n - 1) :
        (log[m].id = log[n].id) =>
            \/ m \in missed
            \/ NewestTime(n) - log[m].time > WindowMs
            \/ NewestStamp(n) - log[m].stamp > WindowMs
            \/ Cardinality({log[k].id : k \in 1..n}) > MaxIds

\* No event is taken for a copy of itself: every valid event among the handled
\* messages was emitted, though warm-up reads the same partition, all of its
\* window or less.
NothingSwallowed ==
    {log[n].id : n \in {k \in 1..done : Valid(k)}} \subseteq {log[n].id : n \in emitted}

\* "Bounded": no more than max_ids ids, except while they share one bucket.
BoundedByBuckets == Size(cache) =< MaxIds \/ Cardinality(DOMAIN cache) = 1
=============================================================================

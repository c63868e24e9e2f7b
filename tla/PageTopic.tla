----------------------------- MODULE PageTopic ------------------------------
(***************************************************************************)
(* wiki.page-latest between page state, which writes it and rebuilds its   *)
(* guard from it (processors/page_state.py), and the readers that follow   *)
(* it. Around the guard the loop does what ExactlyOnce promises: one owner *)
(* of a partition at a time, whose records and offsets commit together.    *)
(*                                                                         *)
(* "Together" leaves a gap: the markers of a transaction are written to    *)
(* each partition on its own, so offsets can be stable before the output   *)
(* is, and read_committed readers stop at the last stable offset. The      *)
(* topic is compacted: a record may be gone once a later one of its page   *)
(* is stable, and a tombstone once it is older than TombstoneMs and the    *)
(* records before it are gone.                                             *)
(***************************************************************************)
EXTENDS PageState

CONSTANTS
    Partitions,   \* of wiki.clean, and so of wiki.page-latest
    Log,          \* Log[p]: the messages of wiki.clean
    TombstoneMs,  \* delete.retention.ms
    MaxMoves      \* bound: how often a partition gets a new owner

\* Times are epoch milliseconds; the topic is keyed by page.
ASSUME TopicAssumption ==
    /\ IsFiniteSet(Partitions)
    /\ \A p \in Partitions : Len(Log[p]) \in Nat /\ DOMAIN Log[p] = 1..Len(Log[p])
    /\ \A p \in Partitions : \A o \in DOMAIN Log[p] : Log[p][o].time \in Nat
    /\ \A p, q \in Partitions : p # q => PagesOf(Log[p]) \cap PagesOf(Log[q]) = {}

\* Events are late by less than tombstones are kept for.
ASSUME LatenessAssumption ==
    /\ TombstoneMs \in Nat
    /\ \A p \in Partitions : \A n, o \in DOMAIN Log[p] :
           n < o => Log[p][n].time - Log[p][o].time =< TombstoneMs

VARIABLES
    committed,  \* group offsets of page state
    topic,      \* topic[p]: the records of p
    stable,     \* stable[p]: how many of them are before the last stable offset
    guard,      \* self.applied[p] of the owner of p
    blind,      \* history: was a guard of p rebuilt from only part of its records?
    moves

topicVars == <<committed, topic, stable, guard, blind, moves>>

TopicInit ==
    /\ committed = [p \in Partitions |-> 0]
    /\ topic = [p \in Partitions |-> <<>>]
    /\ stable = [p \in Partitions |-> 0]
    /\ guard = [p \in Partitions |-> NoPages]
    /\ blind = [p \in Partitions |-> FALSE]
    /\ moves = 0

\* handle and the commit of its transaction. The next one of the partition
\* waits until this one is complete.
Handle(p) ==
    /\ committed[p] < Len(Log[p])
    /\ stable[p] = Len(topic[p])
    /\ LET msg == Log[p][committed[p] + 1]
       IN /\ topic' = [topic EXCEPT ![p] = @ \o PageEmits(guard[p], msg)]
          /\ guard' = [guard EXCEPT ![p] = PageAbsorb(@, msg)]
    /\ committed' = [committed EXCEPT ![p] = @ + 1]
    /\ stable' \in {stable, [stable EXCEPT ![p] = Len(topic'[p])]}
    /\ UNCHANGED <<blind, moves>>

\* The transaction coordinator gets to the output partition.
WriteMarker(p) ==
    /\ stable[p] < Len(topic[p])
    /\ stable' = [stable EXCEPT ![p] = Len(topic[p])]
    /\ UNCHANGED <<committed, topic, guard, blind, moves>>

\* Compaction.
Superseded(p, n) ==
    \E m \in (n + 1)..stable[p] : topic[p][m].page = topic[p][n].page

Aged(p, n) ==
    /\ topic[p][n].shows = Tombstone
    /\ \E o \in 1..committed[p] : Log[p][o].time - topic[p][n].time > TombstoneMs

Compactions(p) ==
    {gone \in SUBSET (1..stable[p]) : \A n \in gone :
        \/ Superseded(p, n)
        \/ Aged(p, n) /\ \A m \in 1..(n - 1) :
                             topic[p][m].page = topic[p][n].page => m \in gone}

\* partitions_assigned: load_applied reads to the end of the partition, or until
\* a poll times out. Nobody else writes to it meanwhile, so it is one step.
NewOwner(p) ==
    /\ moves < MaxMoves
    /\ \E until \in 0..stable[p], gone \in Compactions(p) :
           /\ guard' = [guard EXCEPT ![p] =
                            PageRestore(@, p, committed[p], Restrict(topic[p], (1..until) \ gone))]
           /\ blind' = [blind EXCEPT ![p] = @ \/ until < Len(topic[p])]
    /\ moves' = moves + 1
    /\ UNCHANGED <<committed, topic, stable>>

TopicStep(p) == Handle(p) \/ WriteMarker(p)

\* The topic holds for every page the newest change by event time, deletions
\* included, as long as every guard was rebuilt from the whole partition: late
\* edits neither replace a newer one nor bring a deleted page back, whatever
\* compaction has taken of the records the guard is rebuilt from.
NewestKept ==
    \A p \in Partitions : \A page \in PagesOf(Log[p]) :
        blind[p] \/ ShownBy(topic[p], page) = NewestChange(Log[p], committed[p], page)
=============================================================================

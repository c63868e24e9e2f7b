----------------------------- MODULE PageStore ------------------------------
(***************************************************************************)
(* The dashboard's copy of wiki.page-latest (web/pages.py): a thread reads *)
(* the topic from the beginning into a table and goes on following it,     *)
(* starting over when something fails. Endpoints read the table at any     *)
(* time, under the same lock.                                              *)
(***************************************************************************)
EXTENDS PageTopic

CONSTANT MaxBreaks  \* bound: how often following the topic fails

VARIABLES
    pages,       \* _pages
    atEnd,       \* _at_end
    partitions,  \* self.partitions
    read,        \* the consumer's positions
    following,   \* inside the loop of _follow?
    breaks,
    caught       \* history: how far p went when its end was last reported

storeVars == <<pages, atEnd, partitions, read, following, breaks, caught>>
vars == <<topicVars, storeVars>>

Init ==
    /\ TopicInit
    /\ pages = <<>>
    /\ atEnd = {}
    /\ partitions = 0
    /\ read = [p \in Partitions |-> 0]
    /\ following = FALSE
    /\ breaks = 0
    /\ caught = [p \in Partitions |-> 0]

\* _follow up to its loop: everything is read again. Mutant: the ends reached
\* before still count.
MutantForgotten == atEnd
Forgotten == {}

Follow ==
    /\ ~following
    /\ following' = TRUE
    /\ partitions' = Cardinality(Partitions)
    /\ pages' = <<>>
    /\ atEnd' = Forgotten
    /\ read' = [p \in Partitions |-> 0]
    /\ UNCHANGED <<topicVars, breaks, caught>>

\* _follow raised: a fatal error, or none that is caught. _run tries again; the
\* table stays as it is until the next attempt has found the topic.
Break ==
    /\ following
    /\ breaks < MaxBreaks
    /\ breaks' = breaks + 1
    /\ following' = FALSE
    /\ UNCHANGED <<topicVars, pages, atEnd, partitions, read, caught>>

\* isolation.level. Mutant: read_uncommitted.
MutantReadable(p) == Len(topic[p])
Readable(p) == stable[p]

\* apply. Mutant: a deletion is not applied.
MutantApplied(table, r) ==
    IF r.shows = Tombstone THEN table
    ELSE [k \in DOMAIN table \union {r.page} |-> IF k = r.page THEN r.shows ELSE table[k]]
Applied(table, r) ==
    IF r.shows = Tombstone THEN Restrict(table, DOMAIN table \ {r.page})
    ELSE [k \in DOMAIN table \union {r.page} |-> IF k = r.page THEN r.shows ELSE table[k]]

Read(p) ==
    /\ following
    /\ read[p] < Readable(p)
    /\ pages' = Applied(pages, topic[p][read[p] + 1])
    /\ read' = [read EXCEPT ![p] = @ + 1]
    /\ UNCHANGED <<topicVars, atEnd, partitions, following, breaks, caught>>

\* The next record is no longer there. A tombstone is not dropped from under a
\* reader: it is kept for a day, which is longer than reading takes.
Skip(p) ==
    /\ following
    /\ read[p] < Readable(p)
    /\ \/ Superseded(p, read[p] + 1)
       \/ Aged(p, read[p] + 1) /\ topic[p][read[p] + 1].page \notin DOMAIN pages
    /\ read' = [read EXCEPT ![p] = @ + 1]
    /\ UNCHANGED <<topicVars, pages, atEnd, partitions, following, breaks, caught>>

\* _PARTITION_EOF
Eof(p) ==
    /\ following
    /\ read[p] = Readable(p)
    /\ atEnd' = atEnd \union {p}
    /\ caught' = [caught EXCEPT ![p] = read[p]]
    /\ UNCHANGED <<topicVars, pages, partitions, read, following, breaks>>

StoreStep == Follow \/ \E p \in Partitions : Read(p) \/ Skip(p) \/ Eof(p)

Next ==
    \/ \E p \in Partitions : (TopicStep(p) \/ NewOwner(p)) /\ UNCHANGED storeVars
    \/ StoreStep
    \/ Break

Spec == Init /\ [][Next]_vars

\* Page state goes on, coordinators finish what they began, and the store's
\* thread keeps polling and, after a failure, tries again.
FairSpec ==
    /\ Spec
    /\ \A p \in Partitions : WF_vars(TopicStep(p) /\ UNCHANGED storeVars)
    /\ WF_vars(StoreStep)

\* stats
CaughtUp == partitions > 0 /\ Cardinality(atEnd) >= partitions

\* get
Got(page) == IF page \in DOMAIN pages THEN pages[page] ELSE Tombstone

-----------------------------------------------------------------------------
TypeOK ==
    /\ \A p \in Partitions : committed[p] \in 0..Len(Log[p])
    /\ \A p \in Partitions : stable[p] \in 0..Len(topic[p])
    /\ blind \in [Partitions -> BOOLEAN]
    /\ atEnd \subseteq Partitions
    /\ partitions \in {0, Cardinality(Partitions)}
    /\ \A p \in Partitions : read[p] \in 0..stable[p]
    /\ following \in BOOLEAN

\* "caught_up": what a store in this state shows of a page was the page's state
\* at some moment since the store reached the end, never an earlier one, through
\* reconnects and compaction.
ShowsRecent ==
    CaughtUp =>
        \A p \in Partitions : \A page \in PagesOf(Log[p]) :
            \E n \in caught[p]..stable[p] :
                Got(page) = ShownBy(SubSeq(topic[p], 1, n), page)

\* In the end the dashboard shows the newest change of every page and says that
\* it has caught up, whatever order edits arrived in and whichever of page
\* state, coordinators and the store's own connection failed on the way.
EventuallyNewest ==
    <>[](CaughtUp /\ \A p \in Partitions : \A page \in PagesOf(Log[p]) :
             blind[p] \/ Got(page) = NewestChange(Log[p], Len(Log[p]), page))
=============================================================================

-------------------------- MODULE EditWarDetector ---------------------------
(***************************************************************************)
(* The edit war detector of one partition                                  *)
(* (processors/edit_war_detector.py). An event is a record: id, page, user,*)
(* bot, revert (is_revert) and its time in ms. Ids are numbers, so that    *)
(* they have an order.                                                     *)
(***************************************************************************)
EXTENDS Integers, Sequences, FiniteSetsExt, Functions

CONSTANTS
    WarWindowMs,  \* window_ms
    MinReverts,   \* min_reverts
    MinUsers      \* min_users

ASSUME DetectorAssumption ==
    WarWindowMs \in Nat \ {0} /\ MinReverts \in Nat \ {0} /\ MinUsers \in Nat

NewDetector == [pages |-> <<>>, watermark |-> 0]

\* setdefault(page_key, PageState())
PageOf(d, page) ==
    IF page \in DOMAIN d.pages THEN d.pages[page] ELSE [reverts |-> <<>>, until |-> -1]

\* observe: bot reverts are enforcement.
Counts(e) == e.revert /\ ~e.bot

\* _evict: from the left, up to the first that is recent enough. Mutant: never.
MutantEvict(reverts, now) == reverts
Evict(reverts, now) ==
    LET stay == {n \in DOMAIN reverts : reverts[n].time >= now - WarWindowMs}
    IN SubSeq(reverts, Min(stay \union {Len(reverts) + 1}), Len(reverts))

\* observe: the page's reverts with e among them.
WithRevert(d, e) == Evict(Append(PageOf(d, e.page).reverts, e), e.time)

\* observe: e belongs to a war there was an alert for.
Extends(d, e) == e.time =< PageOf(d, e.page).until

\* observe: does e raise an alert?
Raises(d, e) ==
    /\ Counts(e)
    /\ ~Extends(d, e)
    /\ Len(WithRevert(d, e)) >= MinReverts
    /\ Cardinality({r.user : r \in Range(WithRevert(d, e))}) >= MinUsers

\* observe: the state it leaves.
Observe(d, e) ==
    LET page == [reverts |-> WithRevert(d, e),
                 until |-> IF Extends(d, e) \/ Raises(d, e)
                           THEN e.time + WarWindowMs ELSE PageOf(d, e.page).until]
    IN [watermark |-> Max({d.watermark, e.time}),
        pages |-> IF Counts(e)
                  THEN [k \in DOMAIN d.pages \union {e.page} |->
                           IF k = e.page THEN page ELSE d.pages[k]]
                  ELSE d.pages]

\* EditWarAlert and alert_id_for: the id is that of the war's first revert.
EditWarAlert(page, reverts) ==
    LET first == CHOOSE r \in reverts : \A s \in reverts :
                     r.time < s.time \/ (r.time = s.time /\ r.id =< s.id)
    IN [page |-> page, first |-> first.id, reverts |-> {r.id : r \in reverts},
        start |-> first.time, end |-> Max({r.time : r \in reverts})]

\* observe: the alert it returns.
AlertFor(d, e) == EditWarAlert(e.page, Range(WithRevert(d, e)))

Alerts(d, e) == IF Raises(d, e) THEN <<AlertFor(d, e)>> ELSE <<>>

\* expire: quiet pages are forgotten. Mutant: while their war is still on.
MutantQuiet(d, page) == d.pages[page].reverts # <<>>
Quiet(d, page) ==
    LET reverts == d.pages[page].reverts
    IN /\ \/ reverts = <<>>
          \/ reverts[Len(reverts)].time < d.watermark - WarWindowMs
       /\ d.pages[page].until < d.watermark

Expire(d) ==
    [d EXCEPT !.pages = [k \in {p \in DOMAIN d.pages : ~Quiet(d, p)} |-> d.pages[k]]]
=============================================================================

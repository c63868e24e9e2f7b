----------------------------- MODULE PageState ------------------------------
(***************************************************************************)
(* The page state's part of the transactional loop                         *)
(* (processors/page_state.py, processors/page_latest.py): wiki.page-latest *)
(* holds the latest edit of every page, and a guard remembers the event    *)
(* time last applied to each.                                              *)
(*                                                                         *)
(* A message of wiki.clean is a record: id, page, event time and kind:     *)
(* edit (or new), delete, other: a log entry or a categorisation;          *)
(* unreadable: does not decode. A record of wiki.page-latest has the page, *)
(* the event time and the id of the edit it shows, or Tombstone.           *)
(***************************************************************************)
EXTENDS Integers, Sequences, FiniteSetsExt

CONSTANT Tombstone

NoPages == <<>>

\* applied.get(key, -1)
AppliedTime(applied, page) == IF page \in DOMAIN applied THEN applied[page] ELSE -1

\* remember
Remember(applied, page, time) ==
    [k \in DOMAIN applied \union {page} |->
        IF k = page THEN Max({AppliedTime(applied, k), time}) ELSE applied[k]]

\* is_stale. Mutant: an equal time is stale too.
MutantIsStale(applied, page, time) == time =< AppliedTime(applied, page)
IsStale(applied, page, time) == time < AppliedTime(applied, page)

\* page_update and handle: does the message change its page?
Applies(applied, msg) ==
    /\ msg.kind \in {"edit", "delete"}
    /\ ~IsStale(applied, msg.page, msg.time)

\* handle catches what from_json raises on a message it cannot read; event_ms,
\* outside of that, gets a time that clean_event has written.
PageRaises(msg) == FALSE

PageAbsorb(applied, msg) ==
    IF Applies(applied, msg) THEN Remember(applied, msg.page, msg.time) ELSE applied

\* PageLatest.from_event, or the tombstone of a deleted page.
PageLatest(msg) ==
    [page |-> msg.page, time |-> msg.time,
     shows |-> IF msg.kind = "delete" THEN Tombstone ELSE msg.id]

PageEmits(applied, msg) ==
    IF Applies(applied, msg) THEN <<PageLatest(msg)>> ELSE <<>>

\* load_applied: the records read of the output partition, in place of what was
\* in memory. A record has its event time, and a tombstone its timestamp.
\* Mutant: a tombstone is not looked at.
MutantPageRestore(applied, p, until, output) ==
    LET records(page) ==
            {n \in DOMAIN output : output[n].page = page /\ output[n].shows # Tombstone}
    IN [page \in {output[n].page : n \in {m \in DOMAIN output : output[m].shows # Tombstone}} |->
           Max({output[n].time : n \in records(page)})]
PageRestore(applied, p, until, output) ==
    LET records(page) == {n \in DOMAIN output : output[n].page = page}
    IN [page \in {output[n].page : n \in DOMAIN output} |->
           Max({output[n].time : n \in records(page)})]

-----------------------------------------------------------------------------
(***************************************************************************)
(* The reference: what the topic should show of a page. A page that is not *)
(* there and one that was deleted look the same.                           *)
(***************************************************************************)
PagesOf(log) == {log[o].page : o \in DOMAIN log}

\* After n messages: the edit or deletion with the latest event time, the last
\* to arrive of those with the same time.
NewestChange(log, n, page) ==
    LET changes == {o \in 1..n : log[o].kind \in {"edit", "delete"} /\ log[o].page = page}
        newest == CHOOSE o \in changes : \A m \in changes :
                      \/ log[m].time < log[o].time
                      \/ log[m].time = log[o].time /\ m =< o
    IN IF changes = {} \/ log[newest].kind = "delete" THEN Tombstone ELSE log[newest].id

\* What records say of a page: its last one.
ShownBy(records, page) ==
    LET ofPage == {n \in DOMAIN records : records[n].page = page}
    IN IF ofPage = {} THEN Tombstone ELSE records[Max(ofPage)].shows
=============================================================================

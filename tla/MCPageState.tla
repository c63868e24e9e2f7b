---------------------------- MODULE MCPageState -----------------------------
(***************************************************************************)
(* The transactional loop with the page state's hooks, for TLC.            *)
(***************************************************************************)
EXTENDS TransactionalProcessor, Warmup, PageState, SequentialRuns, TLC

CONSTANT p1

Msg(id, page, time, kind) == [id |-> id, page |-> page, time |-> time, kind |-> kind]

\* An older edit after a newer one, two edits at the same time, an edit from
\* before its page's deletion, and messages that change nothing.
PageLog ==
    p1 :> << Msg(1, "A", 20, "edit"), Msg(2, "A", 10, "edit"), Msg(3, "B", 15, "edit"),
             Msg(4, "A", 20, "edit"), Msg(5, "B", 16, "other"),
             Msg(6, "A", 30, "delete"), Msg(7, "A", 0, "unreadable"),
             Msg(8, "A", 25, "edit") >>

\* wiki.page-latest shows, of the edits and deletions before the committed
\* offset, the one with the latest event time, and the last to arrive of those
\* with the same time, whoever wrote it and however often the guard was rebuilt.
LatestShown ==
    \A p \in Partitions : \A page \in PagesOf(Log[p]) :
        ShownBy(out[p], page) = NewestChange(Log[p], committed[p], page)
=============================================================================

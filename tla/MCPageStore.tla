---------------------------- MODULE MCPageStore -----------------------------
(***************************************************************************)
(* An instance of PageStore for TLC.                                       *)
(***************************************************************************)
EXTENDS PageStore, TLC

CONSTANTS p1, p2

Msg(id, page, time, kind) == [id |-> id, page |-> page, time |-> time, kind |-> kind]

\* A page that is edited, deleted and edited again by late messages, while
\* another moves time past the tombstone; and a second partition.
ViewLog ==
    p1 :> << Msg(1, "A", 20, "edit"), Msg(2, "A", 24, "delete"), Msg(3, "A", 22, "edit"),
             Msg(4, "B", 30, "edit"), Msg(5, "B", 26, "edit") >> @@
    p2 :> << Msg(6, "C", 10, "edit") >>
=============================================================================

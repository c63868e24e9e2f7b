----------------------------- MODULE MCTrending -----------------------------
(***************************************************************************)
(* Instances of Trending for TLC. A minute is 10 ms and lateness 10 ms.    *)
(***************************************************************************)
EXTENDS Trending, TLC

CONSTANTS p1, p2

Edit(page, time) == [page |-> page, time |-> time]

\* One partition: two pages, edits out of order within the allowance, a record
\* that does not decode, one window too many unless the first ones were flushed
\* before it, and a late edit that a replay may count.
LineLog ==
    p1 :> << Edit("A", 12), Edit("A", 21), Edit(Unreadable, 0), Edit("A", 13),
             Edit("B", 45), Edit("C", 46), Edit("A", 14) >>

\* Two partitions of one instance.
PairLog == p1 :> << Edit("A", 12), Edit("A", 13), Edit("A", 35) >> @@
           p2 :> << Edit("C", 12) >>
=============================================================================

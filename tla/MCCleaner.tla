----------------------------- MODULE MCCleaner ------------------------------
(***************************************************************************)
(* The transactional loop with the cleaner's hooks, for TLC.               *)
(***************************************************************************)
EXTENDS TransactionalProcessor, Warmup, Cleaner, SequentialRuns, TLC

CONSTANTS p1, p2

Msg(id, kind, time, stamp) ==
    [id |-> id, kind |-> kind, time |-> time, stamp |-> stamp]

\* Copies of an event share its partition: p1 has one the ingestor sent again.
\* Event times lag behind message times. Nobody gets past the last message of p2.
CleanerLog ==
    p1 :> << Msg("a", "edit", 10, 11), Msg("d", "canary", 11, 11),
             Msg("a", "edit", 10, 13) >> @@
    p2 :> << Msg("c", "invalid", 10, 10), Msg("e", "edit", 9, 12), Msg("f", "odd", 9, 13) >>

\* A partition with a copy and one with a single event.
ShortLog ==
    p1 :> << Msg("a", "edit", 10, 11), Msg("a", "edit", 10, 12) >> @@
    p2 :> << Msg("b", "edit", 10, 10) >>

CleanRestore(cache, p, until, output) == Warmed(cache, Log[p], until)

Symmetry == Permutations(Instances)

\* wiki.clean has no event twice, though wiki.raw does.
CleanUnique ==
    \A p \in Partitions : \A x, y \in DOMAIN out[p] :
        out[p][x] = out[p][y] /\ out[p][x][1] = "clean" => x = y
=============================================================================

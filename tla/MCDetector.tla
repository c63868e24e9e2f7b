----------------------------- MODULE MCDetector -----------------------------
(***************************************************************************)
(* Edit war detection on one partition, for TLC.                           *)
(***************************************************************************)
EXTENDS DetectorFeed, TLC

CONSTANT Users

\* Reverts of a page by people and by a bot, which only move the watermark, and a
\* record that does not decode.
WarEdits ==
    LET Revert(user, bot, readable) ==
            [page |-> "A", user |-> user, bot |-> bot, revert |-> TRUE, readable |-> readable]
    IN {Revert(u, FALSE, TRUE) : u \in Users}
       \union {Revert("bot", TRUE, TRUE), Revert("bot", FALSE, FALSE)}

Symmetry == Permutations(Users)
=============================================================================

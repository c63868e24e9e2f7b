----------------------------- MODULE MCIngestor -----------------------------
(***************************************************************************)
(* An instance of Ingestor for TLC.                                        *)
(***************************************************************************)
EXTENDS Ingestor, TLC

\* Every kind of event the parser yields, one of them without an id of its own.
MixedKind == 1 :> "edit" @@ 2 :> "bad" @@ 3 :> "error" @@ 4 :> "edit"
MixedIds == {1, 2, 4}
=============================================================================

--------------------------- MODULE MCPostgresSink ---------------------------
(***************************************************************************)
(* An instance of PostgresSink for TLC.                                    *)
(***************************************************************************)
EXTENDS PostgresSink, TLC

CONSTANTS p1, p2

\* A row that may be refused, one behind it that retention may take after a
\* commit, and a record that does not decode.
SinkLog == p1 :> <<"a", "b", Unreadable>> @@ p2 :> <<"c">>
=============================================================================

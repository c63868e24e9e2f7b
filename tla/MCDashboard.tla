---------------------------- MODULE MCDashboard -----------------------------
(***************************************************************************)
(* An instance of Dashboard for TLC: a view of cached totals with a choice *)
(* of ranges next to the live feed, which is not cached.                   *)
(***************************************************************************)
EXTENDS Dashboard, TLC

TwoViews == "trending" :> {"hour", "day"} @@ "edits" :> {"feed"}
StatementCounts == "hour" :> 1 @@ "day" :> 2 @@ "feed" :> 1
=============================================================================

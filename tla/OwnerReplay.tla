----------------------------- MODULE OwnerReplay ----------------------------
(***************************************************************************)
(* The new owner of one partition reads its recent history message by      *)
(* message (PartitionReplayer.replay in processors/warmup.py), before it   *)
(* reads on from the committed offset. The replay may begin late: the      *)
(* anchor record cannot be read and the window ends now, or the log starts *)
(* later. It may end early: a poll times out. And the owner may be gone    *)
(* before it is through.                                                   *)
(***************************************************************************)
EXTENDS PartitionReplayer

CONSTANT MaxRestarts  \* bound: how often the partition gets a new owner

VARIABLES
    next,     \* the offset that the owner reads next
    missed,   \* history: offsets that a replay left out of its window
    restarts

ReplayInit ==
    /\ next = 1
    /\ missed = {}
    /\ restarts = 0

\* replay's loop: is the next message before the committed offset? Mutant: or at
\* it.
MutantReplaying(log, until) == next \in DOMAIN log /\ next =< until + 1
Replaying(log, until) == next =< until

BeginReplay(log, until, window) ==
    /\ restarts < MaxRestarts
    /\ restarts' = restarts + 1
    /\ \/ until = 0 /\ next' = 1 /\ UNCHANGED missed
       \/ /\ until > 0
          /\ next' \in StartOffset(log, until, window)..(until + 1)
          /\ missed' = missed \union WindowStart(log, until, window)..(next' - 1)

ReplayNext(log, until) ==
    /\ Replaying(log, until)
    /\ next' = next + 1
    /\ UNCHANGED <<missed, restarts>>

EndReplay(log, until) ==
    /\ Replaying(log, until)
    /\ next' = until + 1
    /\ missed' = missed \union next..until
    /\ UNCHANGED restarts

\* The owner is through and goes on with the message at the committed offset.
ReadOn(log, until) ==
    /\ ~Replaying(log, until)
    /\ next' = until + 2
    /\ UNCHANGED <<missed, restarts>>
=============================================================================

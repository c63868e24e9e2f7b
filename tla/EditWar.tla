------------------------------ MODULE EditWar -------------------------------
(***************************************************************************)
(* What edit war detection supplies to the transactional loop              *)
(* (processors/edit_war.py): one detector per partition of wiki.clean. A   *)
(* message is an event of EditWarDetector with its message timestamp and   *)
(* whether it decodes.                                                     *)
(***************************************************************************)
EXTENDS EditWarDetector, PartitionReplayer

\* handle and _replay_into
WarAbsorb(d, msg) == IF msg.readable THEN Observe(d, msg) ELSE d

\* handle
WarEmits(d, msg) == IF msg.readable THEN Alerts(d, msg) ELSE <<>>
=============================================================================

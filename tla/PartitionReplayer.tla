-------------------------- MODULE PartitionReplayer -------------------------
(***************************************************************************)
(* How a new owner of a partition reads back its recent history            *)
(* (processors/warmup.py).                                                 *)
(***************************************************************************)
EXTENDS Integers, Sequences, FiniteSetsExt

CONSTANT MaxRecords   \* MAX_RECORDS

ASSUME ReplayAssumption == MaxRecords \in Nat

\* anchor_time and offsets_for_times: the first message inside the window, which
\* ends at the last of the `until` committed messages. Mutant: a window too short.
MutantWindowStart(log, until, window) ==
    Min({o \in 1..Len(log) : log[o].stamp > log[until].stamp - window})
WindowStart(log, until, window) ==
    Min({o \in 1..Len(log) : log[o].stamp >= log[until].stamp - window})

\* start_offset
StartOffset(log, until, window) ==
    Max({WindowStart(log, until, window), until - MaxRecords + 1})

\* replay: the messages from the window start to the committed offset.
Replayed(log, until, window) ==
    IF until = 0 THEN <<>>
    ELSE SubSeq(log, StartOffset(log, until, window), until)
=============================================================================

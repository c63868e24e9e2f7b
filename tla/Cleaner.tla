------------------------------ MODULE Cleaner -------------------------------
(***************************************************************************)
(* The cleaner's part of the transactional loop (processors/cleaner.py,    *)
(* processors/transform.py, processors/warmup.py): what handling a message *)
(* does to a partition's dedup cache and what it emits, and how the cache  *)
(* is rebuilt when a partition arrives.                                    *)
(*                                                                         *)
(* A message of wiki.raw is a record: its event id, its kind, its event    *)
(* time and its message timestamp. Kinds: edit; canary: a heartbeat;       *)
(* invalid: JSON with an id that clean_event rejects (for want of a usable *)
(* time, among others); garbage: no id can be read from it; odd: JSON with *)
(* an id on which clean_event raises something else than ParseError (a     *)
(* timestamp out of range, a revision that is not an object).              *)
(***************************************************************************)
EXTENDS DedupCache, PartitionReplayer, SequencesExt

\* parse_raw and event_id_of succeed.
HasId(msg) == msg.kind # "garbage"

\* is_canary
IsCanary(msg) == msg.kind = "canary"

\* clean_event succeeds.
IsValid(msg) == msg.kind = "edit"

\* transform only catches a ParseError.
CleanRaises(msg) == msg.kind = "odd"

\* event_time_ms: clean_event has made sure of it, so there is no fallback.
EventTime(msg) == msg.time

\* The record for wiki.dlq.
DlqRecord(msg) == <<"dlq", msg.id>>

\* transform and handle: only an event that passes validation meets the cache.
CleanAbsorb(cache, msg) ==
    IF IsValid(msg) THEN Record(cache, msg.id, EventTime(msg)) ELSE cache

\* transform and handle: Skipped, Rejected, Clean or Duplicate.
CleanEmits(cache, msg) ==
    CASE IsCanary(msg) -> <<>>
      [] ~IsCanary(msg) /\ ~IsValid(msg) -> <<DlqRecord(msg)>>
      [] OTHER -> IF IsNew(cache, msg.id, EventTime(msg))
                  THEN <<<<"clean", msg.id>>>> ELSE <<>>

\* _load: any record with an id, at its message time.
Load(cache, msg) ==
    IF HasId(msg) THEN Record(cache, msg.id, msg.stamp) ELSE cache

\* warm: on top of the cache there is.
Warmed(cache, log, until) == FoldLeft(Load, cache, Replayed(log, until, WindowMs))
=============================================================================

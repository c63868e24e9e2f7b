--------------------------- MODULE MinuteWindows ----------------------------
(***************************************************************************)
(* The counting windows of one partition (processors/windows.py). A window *)
(* is keyed by page and minute; a message is a record with its page and    *)
(* its event time in ms. Offsets start at 1 and 0 means "none".            *)
(***************************************************************************)
EXTENDS Integers, FiniteSetsExt

CONSTANTS
    MinuteMs,    \* MINUTE_MS
    LatenessMs,  \* lateness_ms
    MaxWindows   \* max_windows

ASSUME WindowsAssumption ==
    MinuteMs \in Nat \ {0} /\ LatenessMs \in Nat /\ MaxWindows \in Nat \ {0}

\* PartitionState
NewState ==
    [windows |-> <<>>, last |-> 0, flushed |-> {}, watermark |-> 0, floor |-> 0]

MinuteStart(time) == (time \div MinuteMs) * MinuteMs
KeyOf(msg) == <<msg.page, MinuteStart(msg.time)>>

ClosedBefore(s) == MinuteStart(s.watermark - LatenessMs)

\* add: too late, or the minute was written or forced out already.
Rejects(s, key) ==
    \/ key[2] < ClosedBefore(s)
    \/ key[2] \in s.flushed /\ key \notin DOMAIN s.windows

\* setdefault and Window.add
Counting(windows, key, offset) ==
    [k \in DOMAIN windows \union {key} |->
        IF k # key THEN windows[k]
        ELSE IF k \notin DOMAIN windows THEN [count |-> 1, first |-> offset]
        ELSE [count |-> windows[k].count + 1,
              first |-> Min({windows[k].first, offset})]]

\* _enforce_cap: whole minutes go, oldest first, until few enough windows are
\* left. They are not written.
EnforceCap(s) ==
    LET minutes == {k[2] : k \in DOMAIN s.windows}
        From(m) == {k \in DOMAIN s.windows : k[2] >= m}
        keep == IF Cardinality(DOMAIN s.windows) =< MaxWindows THEN DOMAIN s.windows
                ELSE UNION {From(m) : m \in {n \in minutes :
                                                Cardinality(From(n)) =< MaxWindows}}
    IN [s EXCEPT !.windows = [k \in keep |-> s.windows[k]],
                 !.flushed = @ \union {k[2] : k \in DOMAIN s.windows \ keep}]

\* add
Add(s, offset, msg) ==
    LET seen == [s EXCEPT !.last = Max({@, offset}), !.watermark = Max({@, msg.time})]
    IN IF Rejects(seen, KeyOf(msg)) THEN seen
       ELSE EnforceCap([seen EXCEPT !.windows = Counting(@, KeyOf(msg), offset)])

\* pop_closed: the keys it returns.
Done(s, final) == {k \in DOMAIN s.windows : final \/ k[2] < ClosedBefore(s)}

\* pop_closed: partial_floor, with the open windows a final flush has written.
\* Mutant: it is not kept.
MutantPartialFloor(s, partial) == 0
PartialFloor(s, partial) ==
    LET firsts == {s.windows[k].first : k \in partial}
    IN IF firsts = {} THEN s.floor
       ELSE Min(firsts \union (IF s.floor = 0 THEN {} ELSE {s.floor}))

\* pop_closed: the state it leaves.
PopClosed(s, final) ==
    LET done == Done(s, final)
        partial == {k \in done : k[2] >= ClosedBefore(s)}
    IN [s EXCEPT
            !.windows = [k \in DOMAIN s.windows \ done |-> s.windows[k]],
            !.flushed = {m \in @ \union {k[2] : k \in done} : m >= ClosedBefore(s)},
            !.floor = PartialFloor(s, partial)]

\* commit_offsets, for a partition with a state: messages before the oldest one
\* still needed. Mutants: the last message read, whatever is open, and the one
\* after it.
MutantCommitOffset(s) == s.last
MutantCommitAhead(s) == s.last + 1
CommitOffset(s) ==
    LET needed == {s.windows[k].first : k \in DOMAIN s.windows}
                  \union (IF s.floor = 0 THEN {} ELSE {s.floor})
    IN IF needed = {} THEN s.last ELSE Min(needed) - 1
=============================================================================

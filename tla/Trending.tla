------------------------------ MODULE Trending ------------------------------
(***************************************************************************)
(* The trending processor (processors/trending.py): counts edits per page  *)
(* and minute from wiki.clean and writes totals to trending_minutes.       *)
(*                                                                         *)
(* A flush writes rows and then commits offsets; the process can die or be *)
(* expelled in between, so these are two steps. Every edit of a page is on *)
(* one partition. Unreadable is the page of a record that does not decode. *)
(* PostgreSQL may refuse the rows of a page for its title (a NUL in it),   *)
(* which clean_event lets through.                                         *)
(***************************************************************************)
EXTENDS ConsumerGroup, MinuteWindows

CONSTANTS
    Unreadable,
    Refusable  \* pages whose rows may turn out to be refused

VARIABLES
    table,   \* trending_minutes: table[key] is edit_count, 0 when there is no row
    refused, \* the pages whose rows PostgreSQL does not take
    mem,     \* mem[i][p]: windows.partitions, NewState when p is not in it
    giving,  \* giving[i]: the partitions an on_revoke in progress is about
    dropped  \* history: <<p, minute>> that the cap has forced out

vars == <<committed, owner, pc, assigned, pos, faults, table, refused, mem, giving,
          dropped>>

Offsets(p) == 1..Len(Log[p])
Readable(p) == {o \in Offsets(p) : Log[p][o].page # Unreadable}
Keys == UNION {{KeyOf(Log[p][o]) : o \in Readable(p)} : p \in Partitions}

\* Times are epoch milliseconds; the topic is keyed by page.
ASSUME LogAssumption ==
    /\ \A p \in Partitions : \A o \in Readable(p) : Log[p][o].time \in Nat
    /\ \A p, q \in Partitions : \A o \in Readable(p) : \A n \in Readable(q) :
           Log[p][o].page = Log[q][n].page => p = q

Init ==
    /\ GroupInit
    /\ table = [key \in Keys |-> 0]
    /\ refused \in SUBSET Refusable
    /\ mem = [i \in Instances |-> [p \in Partitions |-> NewState]]
    /\ giving = [i \in Instances |-> {}]
    /\ dropped = {}

Start(i) == Join(i) /\ UNCHANGED <<table, refused, mem, giving, dropped>>

\* on_assign
Assign(i, p) == Take(i, p) /\ UNCHANGED <<table, refused, mem, giving, dropped>>

\* run and handle: a record that does not decode leaves no trace.
Receive(i, p) ==
    /\ Advance(i, p)
    /\ mem' = LET o == pos'[i][p]
              IN IF o \in Readable(p)
                 THEN [mem EXCEPT ![i][p] = Add(@, o, Log[p][o])] ELSE mem
    /\ dropped' = dropped \union
                  {<<p, minute>> : minute \in mem'[i][p].flushed \ mem[i][p].flushed}
    /\ UNCHANGED <<table, refused, giving>>

\* upsert_trending keeps the larger total. Mutant: it adds up.
MutantUpsert(total, count) == total + count
Upsert(total, count) == Max({total, count})

\* The rows of a flush are one transaction: all or none.
Accepted(i, final) ==
    \A p \in Partitions : \A key \in Done(mem[i][p], final) : key[1] \notin refused

\* flush: pop_closed on every partition in memory, and the rows. Database.write
\* repeats a write whose connection was lost, which changes nothing the second
\* time.
WriteClosed(i, final) ==
    /\ Accepted(i, final)
    /\ table' = [key \in Keys |->
                    LET counts == {mem[i][p].windows[key].count :
                            p \in {q \in Partitions : key \in Done(mem[i][q], final)}}
                    IN IF counts = {} THEN table[key]
                       ELSE Upsert(table[key], Max(counts))]
    /\ mem' = [mem EXCEPT ![i] = [p \in Partitions |-> PopClosed(@[p], final)]]
    /\ UNCHANGED refused

\* flush: commit_offsets of the partitions in memory.
Needed(i) ==
    [p \in {q \in Partitions : mem[i][q].last > 0} |-> CommitOffset(mem[i][p])]

\* _periodic
Flush(i) ==
    /\ pc[i] = "poll"
    /\ WriteClosed(i, FALSE)
    /\ pc' = [pc EXCEPT ![i] = "commit"]
    /\ UNCHANGED <<committed, owner, assigned, pos, faults, giving, dropped>>

Commit(i) ==
    /\ pc[i] = "commit"
    /\ CommitAccepted(i, Needed(i))
    /\ CommitTo(Needed(i))
    /\ pc' = [pc EXCEPT ![i] = "poll"]
    /\ UNCHANGED <<owner, assigned, pos, faults, table, refused, mem, giving, dropped>>

\* on_revoke for S, up to its commit: the final flush covers every partition in
\* memory, not only those in S.
BeginRelease(i, S, next) ==
    /\ pc[i] = "poll"
    /\ WriteClosed(i, TRUE)
    /\ giving' = [giving EXCEPT ![i] = S]
    /\ pc' = [pc EXCEPT ![i] = next]
    /\ UNCHANGED <<committed, owner, assigned, pos, dropped>>

\* A cooperative rebalance, or a rejoin by the watchdog, takes p from i.
Revoke(i, p) ==
    /\ FaultBudget
    /\ p \in assigned[i]
    /\ owner[p] = i
    /\ BeginRelease(i, {p}, "revoke")

\* An expelled member finds out.
Lost(i) ==
    /\ Stale(i)
    /\ BeginRelease(i, assigned[i], "revoke")
    /\ UNCHANGED faults

\* stop() and shutdown: a final flush, then close(), whose on_revoke has nothing
\* left to write.
Stop(i) ==
    /\ FaultBudget
    /\ BeginRelease(i, assigned[i], "stop")

\* windows.revoke: the state of the partitions given up.
Forget(i, S) == [p \in Partitions |-> IF p \in S THEN NewState ELSE mem[i][p]]

\* The rest of on_revoke or shutdown.
Release(i) ==
    /\ pc[i] \in {"revoke", "stop"}
    /\ CommitAccepted(i, Needed(i))
    /\ CommitTo(Needed(i))
    /\ GiveUp(i, giving[i])
    /\ mem' = [mem EXCEPT ![i] = Forget(i, giving[i])]
    /\ giving' = [giving EXCEPT ![i] = {}]
    /\ pc' = [pc EXCEPT ![i] = IF pc[i] = "stop" THEN "down" ELSE "poll"]
    /\ UNCHANGED <<faults, table, refused, dropped>>

\* The end of the process, whichever way: what it had in memory is gone.
Exit(i) ==
    /\ Die(i)
    /\ mem' = [mem EXCEPT ![i] = [p \in Partitions |-> NewState]]
    /\ giving' = [giving EXCEPT ![i] = {}]
    /\ UNCHANGED <<table, refused, dropped>>

\* The commit raised: nobody catches it.
CommitRefused(i) ==
    /\ pc[i] \in {"commit", "revoke", "stop"}
    /\ ~CommitAccepted(i, Needed(i))
    /\ Exit(i)
    /\ UNCHANGED faults

\* Database.write does not catch what is wrong with a row: the process ends, in a
\* flush of _periodic, of on_revoke or of shutdown.
WriteRefused(i, final) ==
    /\ pc[i] = "poll"
    /\ ~Accepted(i, final)
    /\ Exit(i)

FlushRefused(i) == WriteRefused(i, FALSE) /\ UNCHANGED faults
LostRefused(i) == Stale(i) /\ WriteRefused(i, TRUE) /\ UNCHANGED faults
ReleaseRefused(i) == FaultBudget /\ WriteRefused(i, TRUE)

\* A crash, or a database that stays away too long.
Crash(i) ==
    /\ FaultBudget
    /\ pc[i] # "down"
    /\ Exit(i)

Expelled(i) == Expel(i) /\ UNCHANGED <<table, refused, mem, giving, dropped>>

-----------------------------------------------------------------------------
Next ==
    \E i \in Instances :
        \/ Start(i)
        \/ \E p \in Partitions : Assign(i, p) \/ Receive(i, p) \/ Revoke(i, p)
        \/ Flush(i)
        \/ Commit(i)
        \/ Lost(i)
        \/ Stop(i)
        \/ Release(i)
        \/ CommitRefused(i)
        \/ FlushRefused(i)
        \/ LostRefused(i)
        \/ ReleaseRefused(i)
        \/ Crash(i)
        \/ Expelled(i)

Spec == Init /\ [][Next]_vars

\* A supervisor restarts members, the coordinator notices dead ones, a flush is
\* finished once begun and comes up again and again, and between two flushes
\* the loop polls, so that what poll() has to do is not put off for ever.
FairSpec ==
    /\ Spec
    /\ \A i \in Instances :
           /\ WF_vars(Start(i))
           /\ WF_vars(pc[i] = "down" /\ Expelled(i))
           /\ WF_vars(Flush(i) \/ FlushRefused(i))
           /\ WF_vars(Commit(i) \/ Release(i) \/ CommitRefused(i))
           /\ SF_vars(Lost(i) \/ LostRefused(i))
           /\ \A p \in Partitions : SF_vars(Assign(i, p)) /\ SF_vars(Receive(i, p))

-----------------------------------------------------------------------------
(***************************************************************************)
(* The reference: one process that reads a partition from its beginning.   *)
(***************************************************************************)

\* An edit is late when the partition had moved past its minute by then.
Late(p, o) ==
    KeyOf(Log[p][o])[2] <
        MinuteStart(Max({Log[p][n].time : n \in Readable(p) \cap 1..o}) - LatenessMs)

\* The edits for a key among the first n messages of p that are not late.
OnTime(p, key, n) ==
    {o \in Readable(p) \cap 1..n : KeyOf(Log[p][o]) = key /\ ~Late(p, o)}

\* The minutes that are over by the end of the log.
Over(p, key) ==
    key[2] < MinuteStart(Max({Log[p][o].time : o \in Readable(p)}) - LatenessMs)

TypeOK ==
    /\ GroupTypeOK
    /\ pc \in [Instances -> {"down", "poll", "commit", "revoke", "stop"}]
    /\ table \in [Keys -> Nat]
    /\ giving \in [Instances -> SUBSET Partitions]

\* A replay after a crash, a revocation or an expulsion never makes an edit
\* count twice: no total exceeds the edits there are.
NeverOvercounted ==
    \A p \in Partitions : \A key \in Keys :
        (\E o \in Readable(p) : KeyOf(Log[p][o]) = key) =>
            table[key] =< Cardinality({o \in Readable(p) : KeyOf(Log[p][o]) = key})

\* "A partition is only advanced past the oldest offset its open windows still
\* need": every edit before the committed offset, which nobody will read again,
\* is in the total of its minute, unless the cap has forced that minute out.
CommittedCounted ==
    \A p \in Partitions : \A key \in Keys :
        \/ <<p, key[2]>> \in dropped
        \/ table[key] >= Cardinality(OnTime(p, key, committed[p]))

\* A flush that is due has a row that is refused.
Refusal == \E i \in Instances : pc[i] = "poll" /\ ~Accepted(i, FALSE)

\* "a partial total is always corrected" (flush): the total of a minute that is
\* over is in the end that of an uninterrupted run, or larger by late edits that
\* a replay took in, unless the cap has forced the minute out, or a refused row
\* ends one process after the other.
TotalsCorrected ==
    \A p \in Partitions : \A key \in Keys :
        Over(p, key) => \/ <>[](\/ <<p, key[2]>> \in dropped
                                \/ table[key] >= Cardinality(OnTime(p, key, Len(Log[p]))))
                        \/ []<>Refusal
=============================================================================

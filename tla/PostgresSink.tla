---------------------------- MODULE PostgresSink ----------------------------
(***************************************************************************)
(* The loop that copies a topic into a table (sinks/postgres_sink.py,      *)
(* sinks/db.py): wiki.clean into edits, wiki.alerts into alerts. Rows      *)
(* first, offsets second, as separate steps: the process can die, be       *)
(* expelled or lose the database in between. A message is its row's key;   *)
(* Unreadable is one that does not decode. PostgreSQL may refuse a row for *)
(* what is in it (a number too large for its column, a NUL in a text):     *)
(* clean_event lets it through, and no retry helps.                        *)
(***************************************************************************)
EXTENDS RetentionGaps, AssignmentWatchdog

CONSTANTS
    BatchSize,   \* BATCH_SIZE
    Unreadable,
    Refusable    \* rows that may turn out to be refused

ASSUME SinkAssumption == BatchSize \in Nat \ {0}

VARIABLES
    table,   \* the keys of the rows PostgreSQL has committed
    refused, \* those of the rows it does not take
    batch    \* batch[i]: <<partition, offset>> of the messages collected

database == <<table, refused>>
around == <<logStart, reported, begun, covered, strikes>>
vars == <<committed, owner, pc, assigned, pos, faults, database, batch, around>>

Init ==
    /\ GroupInit
    /\ RetentionInit
    /\ WatchdogInit
    /\ table = {}
    /\ refused \in SUBSET Refusable
    /\ batch = [i \in Instances |-> {}]

\* run up to the loop.
Start(i) ==
    /\ Join(i)
    /\ Computed
    /\ UNCHANGED <<database, batch, strikes, retentionVars>>

\* on_assign
Assign(i, p) ==
    /\ covered
    /\ TakeReporting(i, p)
    /\ UNCHANGED <<database, batch, watchdogVars>>

\* watchdog.check(), between two batches.
Watch(i) ==
    /\ batch[i] = {}
    /\ Check(i)
    /\ UNCHANGED <<database, batch, retentionVars>>

\* Retention, while no member owns p.
Expires(p) ==
    /\ \E n \in 1..Len(Log[p]) : Expire(p, n)
    /\ UNCHANGED <<database, batch, watchdogVars>>

\* collect_batch: one message.
Collect(i, p) ==
    /\ Cardinality(batch[i]) < BatchSize
    /\ Advance(i, p)
    /\ batch' = [batch EXCEPT ![i] = @ \union {<<p, pos'[i][p]>>}]
    /\ UNCHANGED <<database, around>>

\* on_revoke, which runs inside collect_batch: the batch keeps what it has.
LetGo(i, S) ==
    /\ pc[i] = "poll"
    /\ GiveUp(i, S)
    /\ UNCHANGED <<committed, database, covered, retentionVars>>

\* A cooperative rebalance takes p from i.
Revoke(i, p) ==
    /\ FaultBudget
    /\ p \in assigned[i]
    /\ owner[p] = i
    /\ LetGo(i, {p})
    /\ UNCHANGED <<pc, batch, strikes>>

\* An expelled member finds out.
Lost(i) ==
    /\ Stale(i)
    /\ LetGo(i, assigned[i])
    /\ UNCHANGED <<pc, batch, strikes, faults>>

\* stop() and shutdown: between two batches. close() commits nothing.
Close(i) ==
    /\ FaultBudget
    /\ batch[i] = {}
    /\ LetGo(i, assigned[i])
    /\ pc' = [pc EXCEPT ![i] = "down"]
    /\ NewWatchdog(i)
    /\ UNCHANGED batch

\* The batch is full or the interval is up.
BeginWrite(i) ==
    /\ pc[i] = "poll"
    /\ batch[i] # {}
    /\ pc' = [pc EXCEPT ![i] = "write"]
    /\ UNCHANGED <<committed, owner, assigned, pos, faults, database, batch, around>>

\* write_batch: decode leaves out what it cannot read; insert_edits and
\* insert_alerts leave a row that is there as it is.
Rows(i) == {Log[m[1]][m[2]] : m \in batch[i]} \ {Unreadable}

\* One transaction: all of the rows or none.
Accepted(i) == Rows(i) \cap refused = {}

WriteRows(i) ==
    /\ pc[i] = "write"
    /\ Accepted(i)
    /\ table' = table \union Rows(i)
    /\ pc' = [pc EXCEPT ![i] = "commit"]
    /\ UNCHANGED <<committed, owner, assigned, pos, faults, refused, batch, around>>

\* Database.write: the connection broke before or after the database committed;
\* it is reopened and the write tried again. Mutant: it is taken as done.
MutantWriteLost(i) ==
    /\ FaultBudget
    /\ pc[i] = "write"
    /\ pc' = [pc EXCEPT ![i] = "commit"]
    /\ UNCHANGED <<committed, owner, assigned, pos, database, batch, around>>

WriteLost(i) ==
    /\ FaultBudget
    /\ pc[i] = "write"
    /\ \/ table' = table
       \/ Accepted(i) /\ table' = table \union Rows(i)
    /\ UNCHANGED <<committed, owner, pc, assigned, pos, refused, batch, around>>

\* commit() without arguments: the positions that are past what is committed.
\* Mutants: one message too far, and the last message instead of the next.
MutantStoredAhead(i) ==
    [p \in {q \in assigned[i] : pos[i][q] > committed[q]} |-> pos[i][p] + 1]
MutantStoredBehind(i) ==
    [p \in {q \in assigned[i] : pos[i][q] > committed[q]} |-> pos[i][p] - 1]
Stored(i) == [p \in {q \in assigned[i] : pos[i][q] > committed[q]} |-> pos[i][p]]

\* With nothing to commit the client raises, as it does for an expelled member.
Committable(i) == DOMAIN Stored(i) # {} /\ CommitAccepted(i, Stored(i))

Commit(i) ==
    /\ pc[i] = "commit"
    /\ Committable(i)
    /\ CommitTo(Stored(i))
    /\ batch' = [batch EXCEPT ![i] = {}]
    /\ pc' = [pc EXCEPT ![i] = "poll"]
    /\ UNCHANGED <<owner, assigned, pos, faults, database, around>>

Exit(i) ==
    /\ Die(i)
    /\ batch' = [batch EXCEPT ![i] = {}]
    /\ NewWatchdog(i)
    /\ UNCHANGED <<database, covered, retentionVars>>

\* The commit raised: nobody catches it.
CommitRefused(i) ==
    /\ pc[i] = "commit"
    /\ ~Committable(i)
    /\ Exit(i)
    /\ UNCHANGED faults

\* Database.write catches what is wrong with the connection, not with a row: the
\* process ends, and the next owner of the partition meets the row again.
WriteRefused(i) ==
    /\ pc[i] = "write"
    /\ ~Accepted(i)
    /\ Exit(i)
    /\ UNCHANGED faults

\* A crash, or a database that stays away through all of wait_for_database.
Crash(i) ==
    /\ FaultBudget
    /\ pc[i] # "down"
    /\ Exit(i)

Expelled(i) == Expel(i) /\ UNCHANGED <<database, batch, around>>

-----------------------------------------------------------------------------
Turn(i) ==
    \/ Start(i)
    \/ \E p \in Partitions : Assign(i, p) \/ Collect(i, p)
    \/ Watch(i)
    \/ Lost(i)
    \/ BeginWrite(i)
    \/ WriteRows(i)
    \/ WriteRefused(i)
    \/ Commit(i)
    \/ CommitRefused(i)

Next ==
    \/ \E i \in Instances :
           \/ Turn(i)
           \/ \E p \in Partitions : Revoke(i, p)
           \/ Close(i)
           \/ WriteLost(i)
           \/ Crash(i)
           \/ Expelled(i)
    \/ \E p \in Partitions : Expires(p)

Spec == Init /\ [][Next]_vars

\* Every member keeps taking turns (a supervisor restarts it), and the
\* coordinator notices dead ones.
FairSpec ==
    /\ Spec
    /\ \A i \in Instances :
           WF_vars(Turn(i)) /\ WF_vars(pc[i] = "down" /\ Expelled(i))

-----------------------------------------------------------------------------
TypeOK ==
    /\ GroupTypeOK
    /\ RetentionTypeOK
    /\ WatchdogTypeOK
    /\ pc \in [Instances -> {"down", "poll", "write", "commit"}]
    /\ \A i \in Instances : batch[i] \subseteq Partitions \X Nat

\* Messages of p that need nothing more: their row is there, they do not decode,
\* or their loss was reported.
Dealt(p) ==
    {o \in 1..Len(Log[p]) : Log[p][o] \in table \union {Unreadable}} \union Excused(p)

\* "a crash in between replays the batch instead of losing it", and what expires
\* unread "must not be silent": the row of every readable message before the
\* committed offset is in the table, whoever collected, wrote and committed it,
\* or its loss was reported.
CommittedStored == \A p \in Partitions : 1..committed[p] \subseteq Dealt(p)

\* Rows first, offsets second: the sink implements the abstract specification.
Guarantee == INSTANCE AtLeastOnce WITH done <- [p \in Partitions |-> Dealt(p)]
ImplementsGuarantee == Guarantee!Spec

\* A batch with a row that is refused is about to be written.
Refusal == \E i \in Instances : pc[i] = "write" /\ ~Accepted(i)

\* Every message is eventually stored and committed, through any finite number
\* of faults, even when a revocation leaves a batch with nothing to commit; or
\* a refused row ends one process after the other. No partition stops silently.
AllCommitted ==
    \/ <>(\A p \in Partitions : committed[p] = Len(Log[p]))
    \/ []<>Refusal

\* The group settles: after finitely many faults every partition has an owner
\* for good, also in a group that was stuck from the start, and the watchdogs of
\* its members do not keep taking partitions from each other. Only a refused row
\* can keep it from that, by ending its members.
GroupSettles ==
    \/ <>[](\A p \in Partitions : owner[p] # NoInstance)
    \/ []<>Refusal
=============================================================================

----------------------- MODULE TransactionalProcessor -----------------------
(***************************************************************************)
(* The consume-transform-produce loop shared by the cleaner, the page      *)
(* state and the edit war processor (processors/transactional.py), run by  *)
(* several instances of one consumer group.                                *)
(*                                                                         *)
(* Group and transaction coordinators are modelled by what the loop relies *)
(* on: one owner per partition; a transaction's outputs and offsets become *)
(* visible together; an assigned partition starts at its committed offset, *)
(* once no transaction holds offsets for it (read_committed consumers wait *)
(* for stable offsets); an expelled member's offsets are refused.          *)
(* Output is kept per input partition: a partition's messages meet only    *)
(* their own partition's state. Offsets count messages: o messages of a    *)
(* partition are committed, and message o + 1 is next. periodic() does     *)
(* nothing here; DetectorFeed has the edit war processor's.                *)
(***************************************************************************)
EXTENDS Processor, FiniteSets, Functions

CONSTANTS
    Instances,          \* processes, each with its own transactional id
    NoInstance,         \* no owner
    MaxBatch,           \* MAX_BATCH
    CallbacksMidBatch,  \* may on_revoke run while messages are collected?
    MaxFaults           \* bound: revocations, expulsions, stops, crashes, errors

ASSUME ConstantsAssumption ==
    /\ NoInstance \notin Instances
    /\ MaxBatch \in Nat \ {0}
    /\ CallbacksMidBatch \in BOOLEAN
    /\ MaxFaults \in Nat

NoOffset == -1

VARIABLES
    committed,  \* group offsets
    out,        \* committed output, per input partition
    owner,      \* the group coordinator's view of who owns a partition
    txnOff,     \* txnOff[i][p]: offset in i's open transaction, or NoOffset
    txnOut,     \* txnOut[i][p]: output in i's open transaction
    pc,         \* where instance i is; "down" when it is not running
    assigned,   \* consumer.assignment()
    pos,        \* consumer.position()
    batch,      \* batch[i][p]: offsets collected and not handled yet
    state,      \* the subclass's state per partition: caches, detectors...
    faults

kafka == <<committed, out, owner>>
txn   == <<txnOff, txnOut>>
local == <<assigned, pos, batch, state>>
vars  == <<committed, out, owner, txnOff, txnOut, pc, assigned, pos, batch,
           state, faults>>

Init ==
    /\ committed = [p \in Partitions |-> 0]
    /\ out = [p \in Partitions |-> <<>>]
    /\ owner = [p \in Partitions |-> NoInstance]
    /\ txnOff = [i \in Instances |-> [p \in Partitions |-> NoOffset]]
    /\ txnOut = [i \in Instances |-> [p \in Partitions |-> <<>>]]
    /\ pc = [i \in Instances |-> "down"]
    /\ assigned = [i \in Instances |-> {}]
    /\ pos = [i \in Instances |-> [p \in Partitions |-> 0]]
    /\ batch = [i \in Instances |-> [p \in Partitions |-> <<>>]]
    /\ state = [i \in Instances |-> [p \in Partitions |-> NoState]]
    /\ faults = 0

FaultBudget == faults < MaxFaults /\ faults' = faults + 1

\* in_transaction becomes FALSE and the coordinator drops what was pending.
TxnEnds(i) ==
    /\ txnOff' = [txnOff EXCEPT ![i] = [p \in Partitions |-> NoOffset]]
    /\ txnOut' = [txnOut EXCEPT ![i] = [p \in Partitions |-> <<>>]]

BatchEmpty(i) == \A p \in Partitions : batch[i][p] = <<>>
BatchSize(i) == SumFunction([p \in Partitions |-> Len(batch[i][p])])

\* The coordinator took i's partitions away and i does not know yet.
Stale(i) == \E p \in assigned[i] : owner[p] # i

-----------------------------------------------------------------------------
(***************************************************************************)
(* Starting, and the rebalance callbacks, which run inside poll().         *)
(***************************************************************************)

\* __init__ and run up to the loop: init_transactions aborts what an earlier
\* process left open. A new member waits for the group to drop its old self.
Start(i) ==
    /\ pc[i] = "down"
    /\ \A p \in Partitions : owner[p] # i
    /\ pc' = [pc EXCEPT ![i] = "collect"]
    /\ TxnEnds(i)
    /\ UNCHANGED <<kafka, local, faults>>

\* The offset an assigned partition starts from is not about to change. Mutant:
\* it is read while a transaction is still open.
MutantOffsetStable(p) == TRUE
OffsetStable(p) == \A j \in Instances : txnOff[j][p] = NoOffset

\* partitions_assigned: state kept from before is added to. Mutant: no warm-up.
MutantRestored(i, p) == Fresh
Restored(i, p) ==
    Restore(IF state[i][p] = NoState THEN Fresh ELSE state[i][p],
            p, committed[p], out[p])

\* on_assign.
Assign(i, p) ==
    /\ pc[i] = "collect"
    /\ ~Stale(i)
    /\ owner[p] = NoInstance
    /\ OffsetStable(p)
    /\ owner' = [owner EXCEPT ![p] = i]
    /\ assigned' = [assigned EXCEPT ![i] = @ \union {p}]
    /\ pos' = [pos EXCEPT ![i][p] = committed[p]]
    /\ state' = [state EXCEPT ![i][p] = Restored(i, p)]
    /\ UNCHANGED <<committed, out, txn, pc, batch, faults>>

\* partitions_revoked: what i remembers of the partitions in S goes. Mutant: it
\* is kept.
MutantForget(i, S) == state[i]
Forget(i, S) == [p \in Partitions |-> IF p \in S THEN NoState ELSE state[i][p]]

\* on_revoke, for the partitions in S. poll() only runs
\* in collect_batch, so no transaction is open and _abort is not reached.
Release(i, S) ==
    /\ pc[i] = "collect"
    /\ CallbacksMidBatch \/ BatchEmpty(i)
    /\ assigned' = [assigned EXCEPT ![i] = @ \ S]
    /\ state' = [state EXCEPT ![i] = Forget(i, S)]
    /\ UNCHANGED <<committed, out, txn, pos, batch>>

\* A cooperative rebalance, or a rejoin by the watchdog, takes p from i: the
\* coordinator gives it away only after i has released it.
Revoke(i, p) ==
    /\ FaultBudget
    /\ p \in assigned[i]
    /\ owner[p] = i
    /\ Release(i, {p})
    /\ owner' = [owner EXCEPT ![p] = NoInstance]
    /\ UNCHANGED pc

\* An expelled member finds out and gives up everything it had. Mutant: it
\* never does.
MutantLost(i) == FALSE /\ UNCHANGED vars
Lost(i) ==
    /\ Stale(i)
    /\ Release(i, assigned[i])
    /\ UNCHANGED <<owner, pc, faults>>

\* The group coordinator expels a member that is too slow, or dead.
Expel(i) ==
    /\ \E p \in Partitions : owner[p] = i
    /\ IF pc[i] = "down" THEN UNCHANGED faults ELSE FaultBudget
    /\ owner' = [p \in Partitions |-> IF owner[p] = i THEN NoInstance ELSE owner[p]]
    /\ UNCHANGED <<committed, out, txn, pc, local>>

\* stop() and shutdown: the loop ends between two batches; close() releases
\* the partitions through on_revoke.
Close(i) ==
    /\ FaultBudget
    /\ BatchEmpty(i)
    /\ Release(i, assigned[i])
    /\ owner' = [p \in Partitions |-> IF owner[p] = i THEN NoInstance ELSE owner[p]]
    /\ pc' = [pc EXCEPT ![i] = "down"]

\* What is left of a process that ended without shutdown. Its transaction stays
\* open until it times out or the id is used again.
Dies(i) ==
    /\ pc' = [pc EXCEPT ![i] = "down"]
    /\ assigned' = [assigned EXCEPT ![i] = {}]
    /\ batch' = [batch EXCEPT ![i] = [p \in Partitions |-> <<>>]]
    /\ state' = [state EXCEPT ![i] = [p \in Partitions |-> NoState]]
    /\ UNCHANGED <<kafka, txn, pos>>

\* The process dies, or a KafkaException is raised out of the loop.
Crash(i) ==
    /\ FaultBudget
    /\ pc[i] # "down"
    /\ Dies(i)

\* transaction.timeout.ms after a crash.
TxnTimeout(i) ==
    /\ pc[i] = "down"
    /\ \E p \in Partitions : txnOff[i][p] # NoOffset
    /\ TxnEnds(i)
    /\ UNCHANGED <<kafka, pc, local, faults>>

-----------------------------------------------------------------------------
(***************************************************************************)
(* One turn of the loop: collect_batch, then process_batch.                *)
(***************************************************************************)

\* collect_batch: poll returned a message of p.
Poll(i, p) ==
    /\ pc[i] = "collect"
    /\ p \in assigned[i]
    /\ pos[i][p] < Len(Log[p])
    /\ BatchSize(i) < MaxBatch
    /\ batch' = [batch EXCEPT ![i][p] = Append(@, pos[i][p] + 1)]
    /\ pos' = [pos EXCEPT ![i][p] = @ + 1]
    /\ UNCHANGED <<kafka, txn, pc, assigned, state, faults>>

\* The batch is full or the interval is up; process_batch begins a transaction.
Begin(i) ==
    /\ pc[i] = "collect"
    /\ ~BatchEmpty(i)
    /\ pc' = [pc EXCEPT ![i] = "process"]
    /\ UNCHANGED <<kafka, txn, local, faults>>

\* process_batch: handle one message. A partition without state starts afresh.
Handle(i, p) ==
    /\ pc[i] = "process"
    /\ batch[i][p] # <<>>
    /\ ~Raises(Log[p][Head(batch[i][p])])
    /\ LET held == IF state[i][p] = NoState THEN Fresh ELSE state[i][p]
           msg  == Log[p][Head(batch[i][p])]
       IN /\ state' = [state EXCEPT ![i][p] = Absorb(held, msg)]
          /\ txnOut' = [txnOut EXCEPT ![i][p] = @ \o Emits(held, msg)]
    /\ batch' = [batch EXCEPT ![i][p] = Tail(@)]
    /\ UNCHANGED <<kafka, txnOff, pc, assigned, pos, faults>>

\* process_batch only catches a KafkaException: any other ends the process, with
\* what the messages before it put into the transaction.
HandleRaises(i, p) ==
    /\ pc[i] = "process"
    /\ batch[i][p] # <<>>
    /\ Raises(Log[p][Head(batch[i][p])])
    /\ Dies(i)
    /\ UNCHANGED faults

\* process_batch: the positions of the whole assignment. Mutants: one too far,
\* and none at all.
MutantPositionsAhead(i) ==
    [p \in Partitions |-> IF p \in assigned[i] THEN pos[i][p] + 1 ELSE NoOffset]
MutantNoPositions(i) == [p \in Partitions |-> NoOffset]
Positions(i) ==
    [p \in Partitions |-> IF p \in assigned[i] THEN pos[i][p] ELSE NoOffset]

\* send_offsets_to_transaction passes consumer_group_metadata, so the group can
\* refuse the offsets of an expelled member. Mutant: it cannot tell.
MutantGroupAccepts(i) == TRUE
GroupAccepts(i) == ~Stale(i)

SendOffsets(i) ==
    /\ pc[i] = "process"
    /\ BatchEmpty(i)
    /\ GroupAccepts(i)
    /\ txnOff' = [txnOff EXCEPT ![i] = Positions(i)]
    /\ pc' = [pc EXCEPT ![i] = "commit"]
    /\ UNCHANGED <<kafka, txnOut, local, faults>>

\* commit_transaction.
Commit(i) ==
    /\ pc[i] = "commit"
    /\ committed' = [p \in Partitions |-> IF txnOff[i][p] = NoOffset
                                          THEN committed[p] ELSE txnOff[i][p]]
    /\ out' = [p \in Partitions |-> out[p] \o txnOut[i][p]]
    /\ TxnEnds(i)
    /\ pc' = [pc EXCEPT ![i] = "collect"]
    /\ UNCHANGED <<owner, local, faults>>

\* The except branch with txn_requires_abort, and _abort. The rest of the batch
\* is dropped; positions and state stay as they are.
Abort(i) ==
    /\ TxnEnds(i)
    /\ batch' = [batch EXCEPT ![i] = [p \in Partitions |-> <<>>]]
    /\ pc' = [pc EXCEPT ![i] = "collect"]
    /\ UNCHANGED <<kafka, assigned, pos, state>>

\* The group refuses the offsets of an expelled member.
Fenced(i) ==
    /\ pc[i] = "process"
    /\ BatchEmpty(i)
    /\ ~GroupAccepts(i)
    /\ Abort(i)
    /\ UNCHANGED faults

\* Any other abortable error, from produce, send_offsets or commit.
AbortableError(i) ==
    /\ FaultBudget
    /\ pc[i] \in {"process", "commit"}
    /\ Abort(i)

-----------------------------------------------------------------------------
Turn(i) ==
    \/ Start(i)
    \/ \E p \in Partitions : Assign(i, p) \/ Poll(i, p) \/ Handle(i, p) \/ HandleRaises(i, p)
    \/ Lost(i)
    \/ Begin(i)
    \/ SendOffsets(i)
    \/ Fenced(i)
    \/ Commit(i)

Next ==
    \E i \in Instances :
        \/ Turn(i)
        \/ Expel(i)
        \/ TxnTimeout(i)
        \/ Close(i)
        \/ Crash(i)
        \/ \E p \in Partitions : Revoke(i, p)

Spec == Init /\ [][Next]_vars

\* With abortable errors in live transactions.
AbortingSpec == Init /\ [][Next \/ \E i \in Instances : AbortableError(i)]_vars

\* Every instance keeps taking turns (a supervisor restarts it), and the
\* coordinators notice dead members and time out what they left open.
FairSpec ==
    /\ Spec
    /\ \A i \in Instances :
           /\ WF_vars(Turn(i))
           /\ WF_vars(pc[i] = "down" /\ Expel(i))
           /\ WF_vars(TxnTimeout(i))

-----------------------------------------------------------------------------
TypeOK ==
    /\ \A p \in Partitions : committed[p] \in 0..Len(Log[p])
    /\ DOMAIN committed = Partitions
    /\ owner \in [Partitions -> Instances \union {NoInstance}]
    /\ pc \in [Instances -> {"down", "collect", "process", "commit"}]
    /\ assigned \in [Instances -> SUBSET Partitions]
    /\ pos \in [Instances -> [Partitions -> Nat]]
    /\ txnOff \in [Instances -> [Partitions -> Nat \union {NoOffset}]]
    /\ faults \in Nat

\* Output and offsets commit together: the committed output of a partition is
\* that of a sequential run up to its committed offset, nothing lost and
\* nothing twice, through crashes, expulsions and moves between instances.
ExactlyOnceOutput == \A p \in Partitions : out[p] = SeqOut[p][committed[p]]

\* Two instances never hold offsets of the same partition in open
\* transactions, not even an expelled one that is still committing.
OneWriter ==
    \A i, j \in Instances : \A p \in Partitions :
        txnOff[i][p] # NoOffset /\ txnOff[j][p] # NoOffset => i = j

\* The loop implements the abstract specification of its promise.
Promise == INSTANCE ExactlyOnce WITH committed <- committed, out <- out
ImplementsPromise == Promise!Spec

\* "Output for a revoked partition must not commit after it moves" (on_revoke):
\* output of a partition's messages becomes visible only in a step that also
\* moves the partition's offset.
OutputWithOffsets ==
    [][\A p \in Partitions : out'[p] # out[p] => committed'[p] # committed[p]]_vars

\* A batch whose offsets are committed has its output committed: everything a
\* sequential run emits up to the committed offset is in the output.
NothingLost ==
    \A p \in Partitions :
        Range(SeqOut[p][committed[p]]) \subseteq Range(out[p])

\* Every message is eventually processed and committed, through any finite
\* number of faults.
AllProcessed == \A p \in Partitions : <>(committed[p] = Len(Log[p]))
=============================================================================

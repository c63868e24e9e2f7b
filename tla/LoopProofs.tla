----------------------------- MODULE LoopProofs -----------------------------
(***************************************************************************)
(* Proofs about TransactionalProcessor, for any subclass whose warm-up     *)
(* suffices (Warmup), any number of partitions, instances and faults, any  *)
(* logs and batch sizes.                                                   *)
(***************************************************************************)
EXTENDS TransactionalProcessor, Warmup, SequenceTheorems, TLAPS

(***************************************************************************)
(* The type invariant: TypeOK, the bounds of positions and of offsets in   *)
(* transactions that it needs, and the shape of the remaining variables.   *)
(***************************************************************************)
InLog ==
    \A i \in Instances : \A p \in Partitions :
        /\ pos[i][p] \in 0..Len(Log[p])
        /\ txnOff[i][p] \in 0..Len(Log[p]) \union {NoOffset}

Shape ==
    /\ committed \in [Partitions -> Nat]
    /\ batch \in [Instances -> [Partitions -> Seq(Nat)]]
    /\ DOMAIN out = Partitions
    /\ DOMAIN state = Instances /\ \A i \in Instances : DOMAIN state[i] = Partitions
    /\ DOMAIN txnOut = Instances /\ \A i \in Instances : DOMAIN txnOut[i] = Partitions

Typed == TypeOK /\ InLog /\ Shape

\* The initial state is type correct.
LEMMA TypeInit == Init => Typed
<1> SUFFICES ASSUME Init PROVE Typed
  OBVIOUS
<1>a. \A p \in Partitions : Len(Log[p]) \in Nat
  BY SequentialRun
<1>1. TypeOK
  BY <1>a, ConstantsAssumption DEF Init, TypeOK
<1>2. InLog
  <2>1. ASSUME NEW p \in Partitions PROVE 0 \in 0..Len(Log[p])
    <3>1. Len(Log[p]) \in Nat
      BY <1>a
    <3> QED
      BY <3>1
  <2> SUFFICES ASSUME NEW i \in Instances, NEW p \in Partitions
               PROVE  pos[i][p] = 0 /\ txnOff[i][p] = NoOffset
    BY <2>1, Zenon DEF InLog
  <2> QED
    BY DEF Init
<1>3. Shape
  BY DEF Init, Shape
<1> QED
  BY <1>1, <1>2, <1>3 DEF Typed

\* A transaction that ends leaves nothing behind.
LEMMA TxnEndsTyped ==
    ASSUME Typed, NEW i \in Instances, TxnEnds(i)
    PROVE  /\ txnOff' \in [Instances -> [Partitions -> Nat \union {NoOffset}]]
           /\ \A j \in Instances : \A p \in Partitions :
                  txnOff'[j][p] = IF j = i THEN NoOffset ELSE txnOff[j][p]
           /\ DOMAIN txnOut' = Instances
           /\ \A j \in Instances : DOMAIN txnOut'[j] = Partitions
           /\ \A j \in Instances : \A p \in Partitions :
                  txnOut'[j][p] = IF j = i THEN <<>> ELSE txnOut[j][p]
BY DEF Typed, TypeOK, Shape, TxnEnds

\* Every step keeps the types.
LEMMA TypeStep == Typed /\ [Next]_vars => Typed'
<1> SUFFICES ASSUME Typed, [Next]_vars PROVE Typed'
  OBVIOUS
<1>a. TypeOK /\ InLog /\ Shape /\ faults \in Nat
  BY DEF Typed, TypeOK
<1>b. ASSUME FaultBudget PROVE faults' \in Nat
  BY <1>b, <1>a DEF FaultBudget
<1>c. \A p \in Partitions : Len(Log[p]) \in Nat
  BY SequentialRun
\* Callbacks, which change neither offsets nor batches.
<1>d. ASSUME NEW i \in Instances, NEW S, Release(i, S), faults' \in Nat,
             owner' \in [Partitions -> Instances \union {NoInstance}],
             pc' \in [Instances -> {"down", "collect", "process", "commit"}]
      PROVE  Typed'
  <2>1. /\ assigned' = [assigned EXCEPT ![i] = @ \ S]
        /\ state' = [state EXCEPT ![i] = Forget(i, S)]
        /\ UNCHANGED <<committed, out, txnOff, txnOut, pos, batch>>
    BY <1>d DEF Release, txn
  <2>2. TypeOK'
    BY <2>1, <1>a, <1>d DEF TypeOK
  <2>3. InLog'
    BY <2>1, <1>a DEF InLog
  <2>4. Shape'
    <3>1. DOMAIN state' = Instances
      BY <2>1, <1>a DEF Shape
    <3>2. \A j \in Instances : DOMAIN state'[j] = Partitions
      BY <2>1, <1>a DEF Shape, Forget
    <3> QED
      BY <2>1, <3>1, <3>2, <1>a DEF Shape
  <2> QED
    BY <2>2, <2>3, <2>4 DEF Typed
<1>e. ASSUME NEW i \in Instances, Dies(i), faults' \in Nat PROVE Typed'
  <2>1. TypeOK'
    BY <1>a, <1>e DEF TypeOK, Dies, kafka, txn
  <2>2. InLog'
    BY <1>a, <1>e DEF InLog, Dies, txn
  <2>3. Shape'
    <3>1. batch' \in [Instances -> [Partitions -> Seq(Nat)]]
      BY <1>a, <1>e DEF Shape, Dies
    <3> QED
      BY <3>1, <1>a, <1>e DEF Shape, Dies, kafka, txn
  <2> QED
    BY <2>1, <2>2, <2>3 DEF Typed
<1>1. CASE UNCHANGED vars
  BY <1>1, <1>a DEF vars, Typed, TypeOK, InLog, Shape
<1>2. ASSUME NEW i \in Instances, Start(i) PROVE Typed'
  <2>1. TxnEnds(i) /\ UNCHANGED <<committed, out, owner, assigned, pos, batch, state, faults>>
    BY <1>2 DEF Start, kafka, local
  <2>2. pc' \in [Instances -> {"down", "collect", "process", "commit"}]
    BY <1>2, <1>a DEF Start, TypeOK
  <2> QED
    BY <2>1, <2>2, <1>a, TxnEndsTyped DEF Typed, TypeOK, InLog, Shape
<1>3. ASSUME NEW i \in Instances, NEW p \in Partitions, Assign(i, p) PROVE Typed'
  <2>1. /\ owner' = [owner EXCEPT ![p] = i]
        /\ assigned' = [assigned EXCEPT ![i] = @ \union {p}]
        /\ pos' = [pos EXCEPT ![i][p] = committed[p]]
        /\ state' = [state EXCEPT ![i][p] = Restored(i, p)]
        /\ UNCHANGED <<committed, out, txnOff, txnOut, pc, batch, faults>>
    BY <1>3 DEF Assign, txn
  <2>2. TypeOK'
    BY <2>1, <1>a DEF TypeOK, Shape
  <2>3. InLog'
    BY <2>1, <1>a DEF TypeOK, InLog
  <2>4. Shape'
    <3>1. DOMAIN state' = Instances /\ \A j \in Instances : DOMAIN state'[j] = Partitions
      BY <2>1, <1>a DEF Shape
    <3> QED
      BY <2>1, <3>1, <1>a DEF Shape
  <2> QED
    BY <2>2, <2>3, <2>4 DEF Typed
<1>4. ASSUME NEW i \in Instances, NEW p \in Partitions, Poll(i, p) PROVE Typed'
  <2>1. /\ pos[i][p] < Len(Log[p])
        /\ batch' = [batch EXCEPT ![i][p] = Append(@, pos[i][p] + 1)]
        /\ pos' = [pos EXCEPT ![i][p] = @ + 1]
        /\ UNCHANGED <<committed, out, owner, txnOff, txnOut, pc, assigned, state, faults>>
    BY <1>4 DEF Poll, kafka, txn
  <2>2. pos[i][p] + 1 \in Nat /\ pos[i][p] + 1 \in 0..Len(Log[p])
    BY <2>1, <1>a, <1>c DEF TypeOK
  <2>3. TypeOK'
    BY <2>1, <2>2, <1>a DEF TypeOK
  <2>4. InLog'
    BY <2>1, <2>2, <1>a DEF TypeOK, InLog
  <2>5. Shape'
    <3>1. Append(batch[i][p], pos[i][p] + 1) \in Seq(Nat)
      BY <2>2, <1>a DEF Shape
    <3>2. batch' \in [Instances -> [Partitions -> Seq(Nat)]]
      BY <2>1, <3>1, <1>a DEF Shape
    <3> QED
      BY <2>1, <3>2, <1>a DEF Shape
  <2> QED
    BY <2>3, <2>4, <2>5 DEF Typed
<1>5. ASSUME NEW i \in Instances, NEW p \in Partitions, Handle(i, p) PROVE Typed'
  <2>1. /\ batch[i][p] # <<>>
        /\ \E s : state' = [state EXCEPT ![i][p] = s]
        /\ \E e : txnOut' = [txnOut EXCEPT ![i][p] = @ \o e]
        /\ batch' = [batch EXCEPT ![i][p] = Tail(@)]
        /\ UNCHANGED <<committed, out, owner, txnOff, pc, assigned, pos, faults>>
    BY <1>5 DEF Handle, kafka
  <2>2. TypeOK' /\ InLog'
    BY <2>1, <1>a DEF TypeOK, InLog
  <2>3. Shape'
    <3>1. Tail(batch[i][p]) \in Seq(Nat)
      BY <2>1, <1>a DEF Shape
    <3>2. batch' \in [Instances -> [Partitions -> Seq(Nat)]]
      BY <2>1, <3>1, <1>a DEF Shape
    <3>3. DOMAIN state' = Instances /\ \A j \in Instances : DOMAIN state'[j] = Partitions
      BY <2>1, <1>a DEF Shape
    <3>4. DOMAIN txnOut' = Instances /\ \A j \in Instances : DOMAIN txnOut'[j] = Partitions
      BY <2>1, <1>a DEF Shape
    <3> QED
      BY <2>1, <3>2, <3>3, <3>4, <1>a DEF Shape
  <2> QED
    BY <2>2, <2>3 DEF Typed
<1>6. ASSUME NEW i \in Instances, NEW p \in Partitions, HandleRaises(i, p) PROVE Typed'
  BY <1>6, <1>a, <1>e DEF HandleRaises
<1>7. ASSUME NEW i \in Instances, Lost(i) PROVE Typed'
  BY <1>7, <1>a, <1>d DEF Lost, TypeOK
<1>8. ASSUME NEW i \in Instances, Begin(i) PROVE Typed'
  BY <1>8, <1>a DEF Begin, kafka, txn, local, Typed, TypeOK, InLog, Shape
<1>9. ASSUME NEW i \in Instances, SendOffsets(i) PROVE Typed'
  <2>1. /\ txnOff' = [txnOff EXCEPT ![i] = Positions(i)]
        /\ pc' = [pc EXCEPT ![i] = "commit"]
        /\ UNCHANGED <<committed, out, owner, txnOut, assigned, pos, batch, state, faults>>
    BY <1>9 DEF SendOffsets, kafka, local
  <2>2. /\ Positions(i) \in [Partitions -> Nat \union {NoOffset}]
        /\ \A p \in Partitions : Positions(i)[p] \in 0..Len(Log[p]) \union {NoOffset}
    BY <1>a DEF Positions, TypeOK, InLog
  <2>3. TypeOK'
    BY <2>1, <2>2, <1>a DEF TypeOK
  <2>4. InLog'
    BY <2>1, <2>2, <1>a DEF TypeOK, InLog
  <2>5. Shape'
    BY <2>1, <1>a DEF Shape
  <2> QED
    BY <2>3, <2>4, <2>5 DEF Typed
<1>10. ASSUME NEW i \in Instances, Fenced(i) PROVE Typed'
  <2>1. /\ TxnEnds(i)
        /\ batch' = [batch EXCEPT ![i] = [p \in Partitions |-> <<>>]]
        /\ pc' = [pc EXCEPT ![i] = "collect"]
        /\ UNCHANGED <<committed, out, owner, assigned, pos, state, faults>>
    BY <1>10 DEF Fenced, Abort, kafka
  <2>2. TypeOK' /\ InLog'
    BY <2>1, <1>a, TxnEndsTyped DEF TypeOK, InLog
  <2>3. Shape'
    <3>1. batch' \in [Instances -> [Partitions -> Seq(Nat)]]
      BY <2>1, <1>a DEF Shape
    <3> QED
      BY <2>1, <3>1, <1>a, TxnEndsTyped DEF Shape
  <2> QED
    BY <2>2, <2>3 DEF Typed
<1>11. ASSUME NEW i \in Instances, Commit(i) PROVE Typed'
  <2>1. /\ committed' = [p \in Partitions |-> IF txnOff[i][p] = NoOffset
                                              THEN committed[p] ELSE txnOff[i][p]]
        /\ out' = [p \in Partitions |-> out[p] \o txnOut[i][p]]
        /\ TxnEnds(i)
        /\ pc' = [pc EXCEPT ![i] = "collect"]
        /\ UNCHANGED <<owner, assigned, pos, batch, state, faults>>
    BY <1>11 DEF Commit, local
  <2>2. /\ committed' \in [Partitions -> Nat]
        /\ \A p \in Partitions : committed'[p] \in 0..Len(Log[p])
    BY <2>1, <1>a DEF TypeOK, InLog, Shape
  <2>3. TypeOK' /\ InLog'
    BY <2>1, <2>2, <1>a, TxnEndsTyped DEF TypeOK, InLog
  <2>4. Shape'
    BY <2>1, <2>2, <1>a, TxnEndsTyped DEF Shape
  <2> QED
    BY <2>3, <2>4 DEF Typed
<1>12. ASSUME NEW i \in Instances, Expel(i) PROVE Typed'
  <2>1. owner' \in [Partitions -> Instances \union {NoInstance}] /\ faults' \in Nat
    BY <1>12, <1>a, <1>b DEF Expel, TypeOK
  <2> QED
    BY <1>12, <2>1, <1>a DEF Expel, txn, local, Typed, TypeOK, InLog, Shape
<1>13. ASSUME NEW i \in Instances, TxnTimeout(i) PROVE Typed'
  <2>1. TxnEnds(i) /\ UNCHANGED <<committed, out, owner, pc, assigned, pos, batch, state, faults>>
    BY <1>13 DEF TxnTimeout, kafka, local
  <2> QED
    BY <2>1, <1>a, TxnEndsTyped DEF Typed, TypeOK, InLog, Shape
<1>14. ASSUME NEW i \in Instances, Close(i) PROVE Typed'
  <2>1. /\ owner' \in [Partitions -> Instances \union {NoInstance}]
        /\ pc' \in [Instances -> {"down", "collect", "process", "commit"}]
    BY <1>14, <1>a DEF Close, TypeOK
  <2> QED
    BY <1>14, <2>1, <1>b, <1>d DEF Close
<1>15. ASSUME NEW i \in Instances, Crash(i) PROVE Typed'
  BY <1>15, <1>b, <1>e DEF Crash
<1>16. ASSUME NEW i \in Instances, NEW p \in Partitions, Revoke(i, p) PROVE Typed'
  <2>1. owner' \in [Partitions -> Instances \union {NoInstance}] /\ pc' = pc
    BY <1>16, <1>a DEF Revoke, TypeOK
  <2> QED
    BY <1>16, <2>1, <1>a, <1>b, <1>d DEF Revoke, TypeOK
<1> QED
  BY <1>1, <1>2, <1>3, <1>4, <1>5, <1>6, <1>7, <1>8, <1>9, <1>10, <1>11, <1>12,
     <1>13, <1>14, <1>15, <1>16 DEF Next, Turn

\* The variables of the loop keep their types; in particular no instance commits
\* an offset past the end of the log.
THEOREM TypeCorrect == Spec => []TypeOK
<1>1. Typed => TypeOK
  BY DEF Typed
<1> QED
  BY <1>1, TypeInit, TypeStep, PTL DEF Spec

-----------------------------------------------------------------------------
(***************************************************************************)
(* Who may hold offsets of a partition in an open transaction: its owner,  *)
(* or an instance that was its owner until it was expelled, as long as the *)
(* partition has no new owner. OneWriter follows.                          *)
(***************************************************************************)
TxnOwned ==
    \A i \in Instances : \A p \in Partitions :
        txnOff[i][p] # NoOffset => owner[p] \in {i, NoInstance}

WriterInv == Typed /\ OneWriter /\ TxnOwned

\* Initially no transaction is open.
LEMMA WriterInit == Init => WriterInv
<1> SUFFICES ASSUME Init PROVE WriterInv
  OBVIOUS
<1>1. \A i \in Instances : \A p \in Partitions : txnOff[i][p] = NoOffset
  BY DEF Init
<1> QED
  BY <1>1, TypeInit DEF WriterInv, OneWriter, TxnOwned

\* Every step keeps the invariant: offsets enter a transaction when the group
\* accepts them, and a partition gets a new owner when no transaction holds
\* offsets for it.
LEMMA WriterStep == WriterInv /\ [Next]_vars => WriterInv'
<1> SUFFICES ASSUME WriterInv, [Next]_vars PROVE WriterInv'
  OBVIOUS
<1>a. Typed /\ Typed'
  BY TypeStep DEF WriterInv
<1>b. /\ owner \in [Partitions -> Instances \union {NoInstance}]
      /\ assigned \in [Instances -> SUBSET Partitions]
      /\ txnOff \in [Instances -> [Partitions -> Nat \union {NoOffset}]]
      /\ NoInstance \notin Instances
  BY <1>a, ConstantsAssumption DEF Typed, TypeOK
\* Steps after which transactions hold no more than before.
<1>c. ASSUME \A i \in Instances : \A p \in Partitions :
                 txnOff'[i][p] # NoOffset => txnOff[i][p] # NoOffset
      PROVE  OneWriter'
  BY <1>c DEF WriterInv, OneWriter
<1>d. ASSUME NEW i \in Instances, TxnEnds(i), UNCHANGED owner PROVE WriterInv'
  <2>1. \A j \in Instances : \A p \in Partitions :
            txnOff'[j][p] # NoOffset => txnOff[j][p] # NoOffset
    BY <1>a, <1>d, TxnEndsTyped
  <2> QED
    BY <2>1, <1>a, <1>c, <1>d DEF WriterInv, TxnOwned
\* Steps after which a partition has its old owner or none.
<1>e. ASSUME UNCHANGED txnOff,
             \A p \in Partitions : owner'[p] \in {owner[p], NoInstance}
      PROVE  WriterInv'
  <2>1. TxnOwned'
    BY <1>e DEF WriterInv, TxnOwned
  <2> QED
    BY <2>1, <1>a, <1>c, <1>e DEF WriterInv
<1>1. ASSUME NEW i \in Instances, Start(i) \/ Fenced(i) \/ Commit(i) \/ TxnTimeout(i)
      PROVE  WriterInv'
  BY <1>1, <1>d DEF Start, Fenced, Abort, Commit, TxnTimeout, kafka
<1>2. ASSUME NEW i \in Instances, NEW p \in Partitions, Assign(i, p) PROVE WriterInv'
  <2>1. /\ UNCHANGED txnOff
        /\ \A j \in Instances : txnOff[j][p] = NoOffset
        /\ owner' = [owner EXCEPT ![p] = i]
    BY <1>2 DEF Assign, OffsetStable, txn
  <2>2. TxnOwned'
    BY <2>1, <1>b DEF WriterInv, TxnOwned
  <2> QED
    BY <2>1, <2>2, <1>a, <1>c DEF WriterInv
<1>3. ASSUME NEW i \in Instances, SendOffsets(i) PROVE WriterInv'
  <2>1. /\ txnOff' = [txnOff EXCEPT ![i] = Positions(i)]
        /\ UNCHANGED owner
        /\ \A p \in assigned[i] : owner[p] = i
    BY <1>3 DEF SendOffsets, GroupAccepts, Stale, kafka
  <2>2. ASSUME NEW p \in Partitions, txnOff'[i][p] # NoOffset PROVE owner[p] = i
    BY <2>1, <2>2, <1>b DEF Positions
  <2>3. TxnOwned'
    BY <2>1, <2>2, <1>b DEF WriterInv, TxnOwned
  <2>4. OneWriter'
    <3> SUFFICES ASSUME NEW j \in Instances, NEW k \in Instances, NEW p \in Partitions,
                        txnOff'[j][p] # NoOffset, txnOff'[k][p] # NoOffset
                 PROVE  j = k
      BY DEF OneWriter
    <3>1. CASE j # i /\ k # i
      BY <3>1, <2>1, <1>b DEF WriterInv, OneWriter
    <3>2. CASE j = i \/ k = i
      BY <3>2, <2>1, <2>2, <2>3, <1>b DEF TxnOwned
    <3> QED
      BY <3>1, <3>2
  <2> QED
    BY <2>3, <2>4, <1>a DEF WriterInv
<1>4. ASSUME NEW i \in Instances, Lost(i) \/ Begin(i) \/ Crash(i) PROVE WriterInv'
  BY <1>4, <1>e DEF Lost, Release, Begin, Crash, Dies, kafka, txn
<1>5. ASSUME NEW i \in Instances, NEW p \in Partitions,
             Poll(i, p) \/ Handle(i, p) \/ HandleRaises(i, p)
      PROVE  WriterInv'
  BY <1>5, <1>e DEF Poll, Handle, HandleRaises, Dies, kafka, txn
<1>6. ASSUME NEW i \in Instances, Expel(i) \/ Close(i) PROVE WriterInv'
  <2>1. /\ UNCHANGED txnOff
        /\ owner' = [p \in Partitions |-> IF owner[p] = i THEN NoInstance ELSE owner[p]]
    BY <1>6 DEF Expel, Close, Release, txn
  <2> QED
    BY <2>1, <1>e
<1>7. ASSUME NEW i \in Instances, NEW p \in Partitions, Revoke(i, p) PROVE WriterInv'
  <2>1. UNCHANGED txnOff /\ owner' = [owner EXCEPT ![p] = NoInstance]
    BY <1>7 DEF Revoke, Release, txn
  <2> QED
    BY <2>1, <1>b, <1>e
<1>8. CASE UNCHANGED vars
  BY <1>8, <1>e DEF vars
<1> QED
  BY <1>1, <1>2, <1>3, <1>4, <1>5, <1>6, <1>7, <1>8 DEF Next, Turn

\* Two instances never hold offsets of the same partition in open transactions,
\* not even an expelled one that is still committing.
THEOREM SingleWriter == Spec => []OneWriter
<1>1. WriterInv => OneWriter
  BY DEF WriterInv
<1> QED
  BY <1>1, WriterInit, WriterStep, PTL DEF Spec

-----------------------------------------------------------------------------
(***************************************************************************)
(* Exactly once.                                                           *)
(***************************************************************************)

\* The messages of p that i has handled: those it has read and that are not in
\* the batch any more.
Handled(i, p) == pos[i][p] - Len(batch[i][p])

\* What an instance has of a partition it works on is what a sequential run has
\* after Handled(i, p) messages.
InStep(i, p) ==
    /\ Handled(i, p) \in committed[p]..pos[i][p]
    /\ \A k \in 1..Len(batch[i][p]) : batch[i][p][k] = Handled(i, p) + k
    /\ state[i][p] \in Agreeing[p][Handled(i, p)]
    /\ txnOut[i][p] \in Seq(Outputs)
    /\ out[p] \o txnOut[i][p] = SeqOut[p][Handled(i, p)]
    /\ pc[i] = "collect" => committed[p] = Handled(i, p)

\* Every partition an instance owns, and those of a transaction it is committing,
\* also when it has been expelled since.
OwnsInStep(i) ==
    \A p \in assigned[i] : owner[p] = i \/ pc[i] = "commit" => InStep(i, p)

\* An expulsion takes all the partitions of an instance.
ExpelledFromAll(i) == \A p, q \in assigned[i] : owner[p] = i => owner[q] = i

\* An instance keeps nothing of partitions it does not have.
NothingLeft(i) ==
    \A p \in Partitions :
        p \notin assigned[i] =>
            /\ batch[i][p] = <<>>
            /\ state[i][p] = NoState
            /\ pc[i] # "down" => txnOut[i][p] = <<>> /\ txnOff[i][p] = NoOffset

\* Where the loop is tells what is in the transaction and in the batch.
InPhase(i) ==
    /\ pc[i] = "down" => assigned[i] = {}
    /\ pc[i] = "collect" => \A p \in Partitions : txnOut[i][p] = <<>>
    /\ pc[i] \in {"collect", "process"} =>
           \A p \in Partitions : txnOff[i][p] = NoOffset
    /\ pc[i] = "commit" =>
           /\ BatchEmpty(i)
           /\ \A p \in assigned[i] : txnOff[i][p] = pos[i][p]

InstanceInv(i) == OwnsInStep(i) /\ ExpelledFromAll(i) /\ NothingLeft(i) /\ InPhase(i)

OutputTyped == \A p \in Partitions : out[p] \in Seq(Outputs)

LoopInv ==
    /\ WriterInv
    /\ OutputTyped
    /\ ExactlyOnceOutput
    /\ \A i \in Instances : InstanceInv(i)

\* Initially there is neither input read nor output.
LEMMA LoopInit == Init => LoopInv
<1> SUFFICES ASSUME Init PROVE LoopInv
  OBVIOUS
<1>1. OutputTyped
  <2>1. \A p \in Partitions : out[p] = <<>>
    BY DEF Init
  <2>2. <<>> \in Seq(Outputs)
    OBVIOUS
  <2> QED
    BY <2>1, <2>2 DEF OutputTyped
<1>2. ExactlyOnceOutput
  <2> SUFFICES ASSUME NEW p \in Partitions PROVE out[p] = SeqOut[p][committed[p]]
    BY DEF ExactlyOnceOutput
  <2>1. out[p] = <<>> /\ committed[p] = 0
    BY DEF Init
  <2>2. SeqOut[p][0] = <<>>
    BY SequentialRun
  <2> QED
    BY <2>1, <2>2
<1>3. ASSUME NEW i \in Instances PROVE InstanceInv(i)
  <2>1. assigned[i] = {} /\ pc[i] = "down"
    BY DEF Init
  <2>2. NothingLeft(i)
    BY <2>1 DEF Init, NothingLeft
  <2> QED
    BY <2>1, <2>2 DEF InstanceInv, OwnsInStep, ExpelledFromAll, InPhase
<1> QED
  BY <1>1, <1>2, <1>3, WriterInit DEF LoopInv

\* A step that does not touch what i has of p leaves i in step.
LEMMA StaysInStep ==
    ASSUME NEW i \in Instances, NEW p \in Partitions, InStep(i, p),
           pos'[i][p] = pos[i][p], batch'[i][p] = batch[i][p],
           state'[i][p] = state[i][p], txnOut'[i][p] = txnOut[i][p],
           out'[p] = out[p], committed'[p] = committed[p],
           pc'[i] = "collect" => pc[i] = "collect"
    PROVE  InStep(i, p)'
BY DEF InStep, Handled

\* A step of another instance that changes neither the output nor the offsets of
\* what i works on, nor what i owns.
LEMMA OtherInstance ==
    ASSUME LoopInv, NEW i \in Instances,
           pc'[i] = pc[i], assigned'[i] = assigned[i], pos'[i] = pos[i],
           batch'[i] = batch[i], state'[i] = state[i],
           txnOff'[i] = txnOff[i], txnOut'[i] = txnOut[i],
           \A p \in Partitions : owner'[p] = i <=> owner[p] = i,
           \A p \in assigned[i] : owner[p] = i \/ pc[i] = "commit" =>
               out'[p] = out[p] /\ committed'[p] = committed[p]
    PROVE  InstanceInv(i)'
<1>1. InstanceInv(i) /\ assigned[i] \subseteq Partitions
  BY DEF LoopInv, WriterInv, Typed, TypeOK
<1>2. OwnsInStep(i)'
  <2> SUFFICES ASSUME NEW p \in assigned[i], owner[p] = i \/ pc[i] = "commit"
               PROVE  InStep(i, p)'
    BY <1>1 DEF OwnsInStep
  <2> QED
    BY <1>1, StaysInStep DEF InstanceInv, OwnsInStep
<1>3. ExpelledFromAll(i)'
  BY <1>1 DEF InstanceInv, ExpelledFromAll
<1>4. NothingLeft(i)'
  BY <1>1 DEF InstanceInv, NothingLeft
<1>5. InPhase(i)'
  BY <1>1 DEF InstanceInv, InPhase, BatchEmpty
<1> QED
  BY <1>2, <1>3, <1>4, <1>5 DEF InstanceInv

\* Handling the next message of a partition keeps its instance in step: it takes
\* the state from after h messages to after h + 1, and what it adds to the
\* transaction is what the sequential run emits for message h + 1.
LEMMA HandleInStep ==
    ASSUME LoopInv, Typed', NEW i \in Instances, NEW p \in Partitions, Handle(i, p),
           InStep(i, p)
    PROVE  InStep(i, p)'
<1> DEFINE h == Handled(i, p)
           msg == Log[p][h + 1]
<1>a. /\ pos[i][p] \in 0..Len(Log[p]) /\ Len(Log[p]) \in Nat
      /\ committed[p] \in Nat
      /\ batch[i][p] \in Seq(Nat) /\ batch[i][p] # <<>>
      /\ out[p] \in Seq(Outputs)
  <2>1. Typed /\ OutputTyped
    BY DEF LoopInv, WriterInv
  <2> QED
    BY <2>1, SequentialRun, SMTT(40) DEF Typed, InLog, Shape, OutputTyped, Handle
<1>b. Len(batch[i][p]) \in Nat \ {0}
  BY <1>a
<1>c. h \in 0..(Len(Log[p]) - 1) /\ h = pos[i][p] - Len(batch[i][p])
  <2>1. h = pos[i][p] - Len(batch[i][p]) /\ h \in committed[p]..pos[i][p]
    BY DEF InStep, Handled
  <2> QED
    BY <2>1, <1>a, <1>b
<1>d. Head(batch[i][p]) = h + 1
  <2>1. batch[i][p][1] = h + 1
    BY <1>b DEF InStep
  <2> QED
    BY <2>1, <1>a
<1>e. /\ state[i][p] \in Agreeing[p][h]
      /\ state[i][p] # NoState
  <2>1. h \in 0..Len(Log[p])
    BY <1>a, <1>c
  <2>2. NoState \notin Agreeing[p][h]
    BY <2>1, WarmupSuffices
  <2> QED
    BY <2>2 DEF InStep
<1>f. /\ Emits(state[i][p], msg) = SeqEmits(p, h)
      /\ Absorb(state[i][p], msg) \in Agreeing[p][h + 1]
  BY <1>c, <1>e, WarmupSuffices
<1>g. /\ SeqEmits(p, h) \in Seq(Outputs)
      /\ SeqOut[p][h + 1] = SeqOut[p][h] \o SeqEmits(p, h)
  BY <1>c, SequentialRun
<1>1. /\ state'[i][p] = Absorb(state[i][p], msg)
      /\ txnOut'[i][p] = txnOut[i][p] \o Emits(state[i][p], msg)
      /\ batch'[i][p] = Tail(batch[i][p])
      /\ UNCHANGED <<out, committed, pos, pc>>
      /\ pc[i] = "process"
  <2>1. Shape
    BY DEF LoopInv, WriterInv, Typed
  <2> QED
    BY <2>1, <1>d, <1>e DEF Handle, Shape, kafka
<1>2. Handled(i, p)' = h + 1 /\ Len(Tail(batch[i][p])) = Len(batch[i][p]) - 1
  <2>1. Len(Tail(batch[i][p])) = Len(batch[i][p]) - 1
    BY <1>a
  <2>2. Handled(i, p)' = pos[i][p] - (Len(batch[i][p]) - 1)
    BY <1>1, <2>1 DEF Handled
  <2> QED
    BY <2>1, <2>2, <1>a, <1>b, <1>c
<1>3. h + 1 \in committed[p]..pos[i][p]
  <2>1. h \in committed[p]..pos[i][p]
    BY DEF InStep
  <2> QED
    BY <2>1, <1>a, <1>b, <1>c, SMTT(40)
<1>4. ASSUME NEW k \in 1..(Len(batch[i][p]) - 1)
      PROVE  Tail(batch[i][p])[k] = h + 1 + k
  <2>1. Tail(batch[i][p])[k] = batch[i][p][k + 1]
    BY <1>a
  <2>2. k + 1 \in 1..Len(batch[i][p])
    BY <1>b
  <2>3. batch[i][p][k + 1] = h + (k + 1)
    BY <2>2 DEF InStep
  <2> QED
    BY <2>1, <2>3, <1>a, <1>b, <1>c
<1>5. /\ txnOut'[i][p] \in Seq(Outputs)
      /\ out[p] \o txnOut'[i][p] = SeqOut[p][h + 1]
  <2>1. txnOut[i][p] \in Seq(Outputs) /\ out[p] \o txnOut[i][p] = SeqOut[p][h]
    BY DEF InStep
  <2>2. txnOut'[i][p] = txnOut[i][p] \o SeqEmits(p, h)
    BY <1>1, <1>f
  <2>3. (out[p] \o txnOut[i][p]) \o SeqEmits(p, h)
            = out[p] \o (txnOut[i][p] \o SeqEmits(p, h))
    <3>1. out[p] \in Seq(Outputs)
      BY <1>a
    <3>2. txnOut[i][p] \in Seq(Outputs)
      BY <2>1
    <3>3. SeqEmits(p, h) \in Seq(Outputs)
      BY <1>g
    <3>4. \A a, b, c \in Seq(Outputs) : (a \o b) \o c = a \o (b \o c)
      <4> TAKE a, b, c \in Seq(Outputs)
      <4> QED
        BY ConcatAssociative
    <3> QED
      BY <3>1, <3>2, <3>3, <3>4, Zenon
  <2>4. txnOut'[i][p] \in Seq(Outputs)
    BY <2>1, <2>2, <1>g, ConcatProperties
  <2> QED
    BY <2>1, <2>2, <2>3, <2>4, <1>g
<1> QED
  BY <1>1, <1>2, <1>3, <1>4, <1>5, <1>f DEF InStep

\* An assigned partition starts in step: at its committed offset, with the state
\* the warm-up rebuilds from the committed output.
LEMMA AssignInStep ==
    ASSUME LoopInv, NEW i \in Instances, NEW p \in Partitions, Assign(i, p),
           p \notin assigned[i]
    PROVE  InStep(i, p)'
<1>a. Typed /\ OutputTyped /\ ExactlyOnceOutput /\ NothingLeft(i) /\ InPhase(i)
  BY DEF LoopInv, WriterInv, InstanceInv
<1>b. /\ committed[p] \in 0..Len(Log[p]) /\ committed[p] \in Nat
      /\ out[p] \in Seq(Outputs) /\ out[p] = SeqOut[p][committed[p]]
  BY <1>a DEF Typed, TypeOK, Shape, OutputTyped, ExactlyOnceOutput
<1>c. batch[i][p] = <<>> /\ state[i][p] = NoState /\ txnOut[i][p] = <<>>
  BY <1>a DEF Assign, NothingLeft, InPhase
<1>1. /\ pos'[i][p] = committed[p]
      /\ state'[i][p] = Restore(Fresh, p, committed[p], out[p])
      /\ UNCHANGED <<committed, out, txnOut, batch>>
  BY <1>a, <1>c DEF Assign, Restored, txn, Typed, TypeOK, Shape
<1>2. state'[i][p] \in Agreeing[p][committed[p]]
  BY <1>1, <1>b, WarmupSuffices
<1>3. Handled(i, p)' = committed[p] /\ Len(batch'[i][p]) = 0
  <2>1. Len(batch'[i][p]) = 0
    BY <1>1, <1>c
  <2> QED
    BY <2>1, <1>1, <1>b DEF Handled
<1>4. txnOut'[i][p] \in Seq(Outputs) /\ out'[p] \o txnOut'[i][p] = out[p]
  <2>1. <<>> \in Seq(Outputs)
    OBVIOUS
  <2>2. \A s \in Seq(Outputs) : s \o <<>> = s
    <3> TAKE s \in Seq(Outputs)
    <3> QED
      BY ConcatEmptySeq
  <2>3. out[p] \o <<>> = out[p]
    BY <2>2, <1>b, Zenon
  <2> QED
    BY <2>1, <2>3, <1>1, <1>c
<1> QED
  BY <1>1, <1>2, <1>3, <1>4, <1>b DEF InStep

\* One more message in the batch: the instance has read, and not handled, more.
LEMMA PollInStep ==
    ASSUME LoopInv, NEW i \in Instances, NEW p \in Partitions, Poll(i, p), InStep(i, p)
    PROVE  InStep(i, p)'
<1>a. /\ pos[i][p] \in Nat /\ committed[p] \in Nat
      /\ batch[i][p] \in Seq(Nat) /\ Len(batch[i][p]) \in Nat
      /\ Shape /\ TypeOK
  BY DEF LoopInv, WriterInv, Typed, TypeOK, Shape
<1>b. Handled(i, p) = pos[i][p] - Len(batch[i][p])
  BY DEF Handled
<1>1. /\ pos'[i][p] = pos[i][p] + 1
      /\ batch'[i][p] = Append(batch[i][p], pos[i][p] + 1)
      /\ UNCHANGED <<committed, out, txnOut, pc, state>>
  BY <1>a DEF Poll, Shape, TypeOK, kafka, txn
<1>2. Len(batch'[i][p]) = Len(batch[i][p]) + 1
  BY <1>1, <1>a
<1>3. Handled(i, p)' = Handled(i, p)
  <2>1. Handled(i, p)' = (pos[i][p] + 1) - (Len(batch[i][p]) + 1)
    BY <1>1, <1>2 DEF Handled
  <2>2. \A m, n \in Nat : (m + 1) - (n + 1) = m - n
    OBVIOUS
  <2>3. (pos[i][p] + 1) - (Len(batch[i][p]) + 1) = pos[i][p] - Len(batch[i][p])
    BY <2>2, <1>a, Zenon
  <2> QED
    BY <2>1, <2>3, <1>b
<1>4. ASSUME NEW k \in 1..Len(batch'[i][p]) PROVE batch'[i][p][k] = Handled(i, p) + k
  <2>1. CASE k = Len(batch[i][p]) + 1
    <3>1. batch'[i][p][k] = pos[i][p] + 1
      BY <2>1, <1>1, <1>a
    <3> QED
      BY <3>1, <2>1, <1>a, <1>b
  <2>2. CASE k # Len(batch[i][p]) + 1
    <3>1. k \in 1..Len(batch[i][p])
      BY <2>2, <1>2, <1>a
    <3>2. batch'[i][p][k] = batch[i][p][k]
      BY <3>1, <1>1, <1>a
    <3>3. batch[i][p][k] = Handled(i, p) + k
      BY <3>1 DEF InStep
    <3> QED
      BY <3>2, <3>3
  <2> QED
    BY <2>1, <2>2
<1>5. Handled(i, p) \in committed[p]..(pos[i][p] + 1)
  BY <1>a, <1>b DEF InStep
<1> QED
  BY <1>1, <1>3, <1>4, <1>5 DEF InStep

\* A committed transaction moves a partition's offset over the messages that its
\* output is for.
LEMMA CommitAdvances ==
    ASSUME LoopInv, NEW i \in Instances, Commit(i), NEW p \in Partitions
    PROVE  /\ committed'[p] \in committed[p]..Len(Log[p])
           /\ out'[p] \in Seq(Outputs)
           /\ out'[p] = SeqOut[p][committed'[p]]
           /\ p \in assigned[i] => committed'[p] = Handled(i, p)
           /\ p \notin assigned[i] => committed'[p] = committed[p] /\ out'[p] = out[p]
<1>a. /\ Typed /\ OutputTyped /\ ExactlyOnceOutput
      /\ OwnsInStep(i) /\ NothingLeft(i) /\ InPhase(i)
  BY DEF LoopInv, WriterInv, InstanceInv
<1>b. /\ pc[i] = "commit"
      /\ committed'[p] = IF txnOff[i][p] = NoOffset THEN committed[p] ELSE txnOff[i][p]
      /\ out'[p] = out[p] \o txnOut[i][p]
  BY DEF Commit
<1>c. /\ committed[p] \in 0..Len(Log[p]) /\ pos[i][p] \in 0..Len(Log[p])
      /\ Len(Log[p]) \in Nat
      /\ out[p] \in Seq(Outputs) /\ out[p] = SeqOut[p][committed[p]]
  BY <1>a, SequentialRun DEF Typed, TypeOK, InLog, OutputTyped, ExactlyOnceOutput
<1>1. CASE p \in assigned[i]
  <2>1. InStep(i, p) /\ batch[i][p] = <<>> /\ txnOff[i][p] = pos[i][p]
    BY <1>1, <1>a, <1>b DEF OwnsInStep, InPhase, BatchEmpty
  <2>2. Handled(i, p) = pos[i][p]
    <3>1. Len(batch[i][p]) = 0
      BY <2>1
    <3> QED
      BY <3>1, <1>c DEF Handled
  <2>3. committed'[p] = pos[i][p]
    BY <2>1, <1>b, <1>c DEF NoOffset
  <2>4. out'[p] = SeqOut[p][pos[i][p]]
    BY <2>1, <2>2, <1>b DEF InStep
  <2>5. out'[p] \in Seq(Outputs)
    <3>1. \A s, t \in Seq(Outputs) : s \o t \in Seq(Outputs)
      OBVIOUS
    <3> QED
      BY <2>1, <3>1, <1>b, <1>c, Zenon DEF InStep
  <2>6. committed[p] =< pos[i][p]
    BY <2>1, <2>2, <1>c DEF InStep
  <2> QED
    BY <1>1, <2>2, <2>3, <2>4, <2>5, <2>6, <1>c
<1>2. CASE p \notin assigned[i]
  <2>1. committed'[p] = committed[p] /\ txnOut[i][p] = <<>>
    BY <1>2, <1>a, <1>b DEF NothingLeft
  <2>2. \A s \in Seq(Outputs) : s \o <<>> = s
    <3> TAKE s \in Seq(Outputs)
    <3> QED
      BY ConcatEmptySeq
  <2>3. out[p] \o <<>> = out[p]
    BY <2>2, <1>c, Zenon
  <2>4. out'[p] = out[p]
    BY <2>1, <2>3, <1>b
  <2> QED
    BY <1>2, <2>1, <2>4, <1>c
<1> QED
  BY <1>1, <1>2

\* Every step keeps the invariant when no callback runs while a batch is being
\* collected (MCCleanerRevokeMidBatch shows what one does then).
LEMMA LoopStep ==
    ASSUME CallbacksMidBatch = FALSE, LoopInv, [Next]_vars
    PROVE  LoopInv'
<1>a. /\ WriterInv /\ OutputTyped /\ ExactlyOnceOutput /\ Typed /\ Shape
      /\ \A j \in Instances : InstanceInv(j)
  BY DEF LoopInv, WriterInv, Typed
<1>b. WriterInv' /\ Typed'
  BY <1>a, WriterStep DEF WriterInv
<1>c. /\ owner \in [Partitions -> Instances \union {NoInstance}]
      /\ pc \in [Instances -> {"down", "collect", "process", "commit"}]
      /\ assigned \in [Instances -> SUBSET Partitions]
      /\ pos \in [Instances -> [Partitions -> Nat]]
      /\ txnOff \in [Instances -> [Partitions -> Nat \union {NoOffset}]]
      /\ batch \in [Instances -> [Partitions -> Seq(Nat)]]
      /\ DOMAIN state = Instances /\ DOMAIN txnOut = Instances
      /\ \A j \in Instances : DOMAIN state[j] = Partitions /\ DOMAIN txnOut[j] = Partitions
      /\ NoInstance \notin Instances
  BY <1>a, ConstantsAssumption DEF Typed, TypeOK, Shape
\* It suffices to look at the instance that takes the step.
<1>d. ASSUME NEW i \in Instances, UNCHANGED <<committed, out>>,
             \A j \in Instances \ {i} :
                 /\ pc'[j] = pc[j] /\ assigned'[j] = assigned[j] /\ pos'[j] = pos[j]
                 /\ batch'[j] = batch[j] /\ state'[j] = state[j]
                 /\ txnOff'[j] = txnOff[j] /\ txnOut'[j] = txnOut[j]
                 /\ \A p \in Partitions : owner'[p] = j <=> owner[p] = j,
             InstanceInv(i)'
      PROVE  LoopInv'
  <2>1. OutputTyped' /\ ExactlyOnceOutput'
    BY <1>a, <1>d DEF OutputTyped, ExactlyOnceOutput
  <2>2. ASSUME NEW j \in Instances, j # i PROVE InstanceInv(j)'
    BY <2>2, <1>d, OtherInstance
  <2> QED
    BY <2>1, <2>2, <1>b, <1>d DEF LoopInv
<1>e. ASSUME NEW i \in Instances, NEW p \in assigned[i],
             owner[p] = i \/ pc[i] = "commit"
      PROVE  InStep(i, p) /\ p \in Partitions
  BY <1>a, <1>c, <1>e DEF InstanceInv, OwnsInStep
\* The end of a process.
<1>f. ASSUME NEW i \in Instances, Dies(i) PROVE LoopInv'
  <2>1. /\ pc' = [pc EXCEPT ![i] = "down"]
        /\ assigned' = [assigned EXCEPT ![i] = {}]
        /\ batch' = [batch EXCEPT ![i] = [p \in Partitions |-> <<>>]]
        /\ state' = [state EXCEPT ![i] = [p \in Partitions |-> NoState]]
        /\ UNCHANGED <<committed, out, owner, txnOff, txnOut, pos>>
    BY <1>f DEF Dies, kafka, txn
  <2>2. /\ pc'[i] = "down" /\ assigned'[i] = {}
        /\ \A p \in Partitions : batch'[i][p] = <<>> /\ state'[i][p] = NoState
    BY <2>1, <1>c
  <2>3. InstanceInv(i)'
    BY <2>2 DEF InstanceInv, OwnsInStep, ExpelledFromAll, NothingLeft, InPhase
  <2>4. \A j \in Instances \ {i} :
            /\ pc'[j] = pc[j] /\ assigned'[j] = assigned[j]
            /\ batch'[j] = batch[j] /\ state'[j] = state[j]
    BY <2>1, <1>c
  <2> QED
    BY <2>1, <2>3, <2>4, <1>d
\* The callbacks. Their batch is empty.
<1>g. ASSUME NEW i \in Instances, NEW S, S \subseteq assigned[i], Release(i, S),
             \A j \in Instances \ {i} :
                 pc'[j] = pc[j] /\ \A p \in Partitions : owner'[p] = j <=> owner[p] = j,
             pc'[i] = pc[i] \/ pc'[i] = "down",
             pc'[i] = "down" => assigned'[i] = {},
             \A p \in assigned[i] \ S : owner'[p] = owner[p]
      PROVE  LoopInv'
  <2>1. /\ pc[i] = "collect" /\ BatchEmpty(i)
        /\ assigned' = [assigned EXCEPT ![i] = @ \ S]
        /\ state' = [state EXCEPT ![i] = Forget(i, S)]
        /\ UNCHANGED <<committed, out, txnOff, txnOut, pos, batch>>
    BY <1>g DEF Release, txn
  <2>2. /\ assigned'[i] = assigned[i] \ S
        /\ \A p \in Partitions : state'[i][p] = IF p \in S THEN NoState ELSE state[i][p]
        /\ \A p \in Partitions : batch[i][p] = <<>>
    BY <2>1, <1>c DEF Forget, BatchEmpty
  <2>3. OwnsInStep(i)'
    <3> SUFFICES ASSUME NEW p \in assigned'[i], owner'[p] = i \/ pc'[i] = "commit"
                 PROVE  InStep(i, p)'
      BY DEF OwnsInStep
    <3>1. p \in assigned[i] \ S /\ owner[p] = i /\ pc'[i] = pc[i]
      BY <2>1, <2>2, <1>g
    <3>2. InStep(i, p) /\ p \in Partitions
      BY <3>1, <1>e
    <3> QED
      BY <3>1, <3>2, <2>1, <2>2, StaysInStep
  <2>4. ExpelledFromAll(i)'
    BY <2>2, <1>a, <1>g DEF InstanceInv, ExpelledFromAll
  <2>5. NothingLeft(i)' /\ InPhase(i)'
    BY <2>1, <2>2, <1>a, <1>g DEF InstanceInv, NothingLeft, InPhase
  <2>6. \A j \in Instances \ {i} : assigned'[j] = assigned[j] /\ state'[j] = state[j]
    BY <2>1, <1>c
  <2> QED
    BY <2>1, <2>3, <2>4, <2>5, <2>6, <1>d, <1>g DEF InstanceInv
<1>1. CASE UNCHANGED vars
  <2>1. OutputTyped' /\ ExactlyOnceOutput'
    BY <1>1, <1>a DEF vars, OutputTyped, ExactlyOnceOutput
  <2>2. ASSUME NEW j \in Instances PROVE InstanceInv(j)'
    BY <1>1, OtherInstance DEF vars
  <2> QED
    BY <2>1, <2>2, <1>b DEF LoopInv
<1>2. ASSUME NEW i \in Instances, Start(i) PROVE LoopInv'
  <2>1. /\ pc[i] = "down" /\ pc' = [pc EXCEPT ![i] = "collect"] /\ TxnEnds(i)
        /\ UNCHANGED <<committed, out, owner, assigned, pos, batch, state>>
    BY <1>2 DEF Start, kafka, local
  <2>2. /\ pc'[i] = "collect" /\ assigned[i] = {}
        /\ \A p \in Partitions : txnOff'[i][p] = NoOffset /\ txnOut'[i][p] = <<>>
    BY <2>1, <1>a, <1>c, TxnEndsTyped DEF InstanceInv, InPhase
  <2>3. InstanceInv(i)'
    BY <2>1, <2>2, <1>a DEF InstanceInv, OwnsInStep, ExpelledFromAll, NothingLeft, InPhase
  <2>4. \A j \in Instances \ {i} :
            pc'[j] = pc[j] /\ txnOff'[j] = txnOff[j] /\ txnOut'[j] = txnOut[j]
    BY <2>1, <1>c DEF TxnEnds
  <2> QED
    BY <2>1, <2>3, <2>4, <1>d
<1>3. ASSUME NEW i \in Instances, NEW p \in Partitions, Assign(i, p) PROVE LoopInv'
  <2>1. /\ pc[i] = "collect" /\ owner[p] = NoInstance
        /\ \A q \in assigned[i] : owner[q] = i
        /\ owner' = [owner EXCEPT ![p] = i]
        /\ assigned' = [assigned EXCEPT ![i] = @ \union {p}]
        /\ pos' = [pos EXCEPT ![i][p] = committed[p]]
        /\ state' = [state EXCEPT ![i][p] = Restored(i, p)]
        /\ UNCHANGED <<committed, out, txnOff, txnOut, pc, batch>>
    BY <1>3 DEF Assign, Stale, txn
  <2>2. p \notin assigned[i] /\ assigned'[i] = assigned[i] \union {p}
    BY <2>1, <1>c
  <2>3. OwnsInStep(i)'
    <3> SUFFICES ASSUME NEW q \in assigned'[i] PROVE InStep(i, q)'
      BY DEF OwnsInStep
    <3>1. CASE q = p
      BY <3>1, <2>2, <1>3, AssignInStep
    <3>2. CASE q # p
      <4>1. q \in assigned[i] /\ q \in Partitions /\ InStep(i, q)
        BY <3>2, <2>1, <2>2, <1>e
      <4>2. pos'[i][q] = pos[i][q] /\ state'[i][q] = state[i][q]
        BY <3>2, <4>1, <2>1, <1>c
      <4> QED
        BY <4>1, <4>2, <2>1, StaysInStep
    <3> QED
      BY <3>1, <3>2
  <2>4. ExpelledFromAll(i)'
    BY <2>1, <2>2, <1>c DEF ExpelledFromAll
  <2>5. NothingLeft(i)'
    <3>1. ASSUME NEW q \in Partitions, q \notin assigned'[i]
          PROVE  q \notin assigned[i] /\ state'[i][q] = state[i][q]
      BY <3>1, <2>1, <2>2, <1>c
    <3> QED
      BY <3>1, <2>1, <1>a DEF InstanceInv, NothingLeft
  <2>6. InPhase(i)'
    BY <2>1, <1>a DEF InstanceInv, InPhase
  <2>7. \A j \in Instances \ {i} :
            /\ assigned'[j] = assigned[j] /\ pos'[j] = pos[j] /\ state'[j] = state[j]
            /\ \A q \in Partitions : owner'[q] = j <=> owner[q] = j
    BY <2>1, <1>c
  <2> QED
    BY <2>1, <2>3, <2>4, <2>5, <2>6, <2>7, <1>d DEF InstanceInv
<1>4. ASSUME NEW i \in Instances, NEW p \in Partitions, Poll(i, p) PROVE LoopInv'
  <2>1. /\ pc[i] = "collect" /\ p \in assigned[i]
        /\ batch' = [batch EXCEPT ![i][p] = Append(@, pos[i][p] + 1)]
        /\ pos' = [pos EXCEPT ![i][p] = @ + 1]
        /\ UNCHANGED <<committed, out, owner, txnOff, txnOut, pc, assigned, state>>
    BY <1>4 DEF Poll, kafka, txn
  <2>2. \A q \in Partitions : q # p => pos'[i][q] = pos[i][q] /\ batch'[i][q] = batch[i][q]
    BY <2>1, <1>c
  <2>3. OwnsInStep(i)'
    <3> SUFFICES ASSUME NEW q \in assigned[i], owner[q] = i PROVE InStep(i, q)'
      BY <2>1 DEF OwnsInStep
    <3>1. InStep(i, q) /\ q \in Partitions
      BY <1>e
    <3>2. CASE q = p
      BY <3>1, <3>2, <1>4, PollInStep
    <3>3. CASE q # p
      BY <3>1, <3>3, <2>1, <2>2, StaysInStep
    <3> QED
      BY <3>2, <3>3
  <2>4. ExpelledFromAll(i)' /\ InPhase(i)'
    BY <2>1, <1>a DEF InstanceInv, ExpelledFromAll, InPhase
  <2>5. NothingLeft(i)'
    BY <2>1, <2>2, <1>a DEF InstanceInv, NothingLeft
  <2>6. \A j \in Instances \ {i} : pos'[j] = pos[j] /\ batch'[j] = batch[j]
    BY <2>1, <1>c
  <2> QED
    BY <2>1, <2>3, <2>4, <2>5, <2>6, <1>d DEF InstanceInv
<1>5. ASSUME NEW i \in Instances, NEW p \in Partitions, Handle(i, p) PROVE LoopInv'
  <2>1. /\ pc[i] = "process" /\ batch[i][p] # <<>>
        /\ \E s : state' = [state EXCEPT ![i][p] = s]
        /\ \E e : txnOut' = [txnOut EXCEPT ![i][p] = @ \o e]
        /\ batch' = [batch EXCEPT ![i][p] = Tail(@)]
        /\ UNCHANGED <<committed, out, owner, txnOff, pc, assigned, pos>>
    BY <1>5 DEF Handle, kafka
  <2>2. p \in assigned[i]
    BY <2>1, <1>a DEF InstanceInv, NothingLeft
  <2>3. \A q \in Partitions : q # p => /\ batch'[i][q] = batch[i][q]
                                       /\ state'[i][q] = state[i][q]
                                       /\ txnOut'[i][q] = txnOut[i][q]
    BY <2>1, <1>c
  <2>4. OwnsInStep(i)'
    <3> SUFFICES ASSUME NEW q \in assigned[i], owner[q] = i PROVE InStep(i, q)'
      BY <2>1 DEF OwnsInStep
    <3>1. InStep(i, q) /\ q \in Partitions
      BY <1>e
    <3>2. CASE q = p
      BY <3>1, <3>2, <1>5, <1>b, HandleInStep
    <3>3. CASE q # p
      BY <3>1, <3>3, <2>1, <2>3, StaysInStep
    <3> QED
      BY <3>2, <3>3
  <2>5. ExpelledFromAll(i)' /\ InPhase(i)'
    BY <2>1, <1>a DEF InstanceInv, ExpelledFromAll, InPhase
  <2>6. NothingLeft(i)'
    BY <2>1, <2>2, <2>3, <1>a DEF InstanceInv, NothingLeft
  <2>7. \A j \in Instances \ {i} :
            batch'[j] = batch[j] /\ state'[j] = state[j] /\ txnOut'[j] = txnOut[j]
    BY <2>1, <1>c
  <2> QED
    BY <2>1, <2>4, <2>5, <2>6, <2>7, <1>d DEF InstanceInv
<1>6. ASSUME NEW i \in Instances, NEW p \in Partitions, HandleRaises(i, p) PROVE LoopInv'
  BY <1>6, <1>f DEF HandleRaises
<1>7. ASSUME NEW i \in Instances, Lost(i) PROVE LoopInv'
  <2>1. Release(i, assigned[i]) /\ UNCHANGED <<owner, pc>> /\ pc[i] # "down"
    BY <1>7 DEF Lost, Release
  <2> QED
    BY <2>1, <1>g
<1>8. ASSUME NEW i \in Instances, Begin(i) PROVE LoopInv'
  <2>1. /\ pc[i] = "collect" /\ pc' = [pc EXCEPT ![i] = "process"]
        /\ UNCHANGED <<committed, out, owner, txnOff, txnOut, assigned, pos, batch, state>>
    BY <1>8 DEF Begin, kafka, txn, local
  <2>2. pc'[i] = "process" /\ \A j \in Instances \ {i} : pc'[j] = pc[j]
    BY <2>1, <1>c
  <2>3. OwnsInStep(i)'
    <3> SUFFICES ASSUME NEW q \in assigned[i], owner[q] = i PROVE InStep(i, q)'
      BY <2>1, <2>2 DEF OwnsInStep
    <3> QED
      BY <2>1, <2>2, <1>e, StaysInStep
  <2>4. ExpelledFromAll(i)' /\ NothingLeft(i)' /\ InPhase(i)'
    BY <2>1, <2>2, <1>a DEF InstanceInv, ExpelledFromAll, NothingLeft, InPhase
  <2> QED
    BY <2>1, <2>2, <2>3, <2>4, <1>d DEF InstanceInv
<1>9. ASSUME NEW i \in Instances, SendOffsets(i) PROVE LoopInv'
  <2>1. /\ pc[i] = "process" /\ BatchEmpty(i)
        /\ \A q \in assigned[i] : owner[q] = i
        /\ txnOff' = [txnOff EXCEPT ![i] = Positions(i)]
        /\ pc' = [pc EXCEPT ![i] = "commit"]
        /\ UNCHANGED <<committed, out, owner, txnOut, assigned, pos, batch, state>>
    BY <1>9 DEF SendOffsets, GroupAccepts, Stale, kafka, local
  <2>2. /\ pc'[i] = "commit"
        /\ \A q \in Partitions :
               txnOff'[i][q] = IF q \in assigned[i] THEN pos[i][q] ELSE NoOffset
        /\ \A j \in Instances \ {i} : pc'[j] = pc[j] /\ txnOff'[j] = txnOff[j]
    BY <2>1, <1>c DEF Positions
  <2>3. OwnsInStep(i)'
    <3> SUFFICES ASSUME NEW q \in assigned[i] PROVE InStep(i, q)'
      BY <2>1 DEF OwnsInStep
    <3> QED
      BY <2>1, <2>2, <1>e, StaysInStep
  <2>4. InPhase(i)'
    BY <2>1, <2>2, <1>c DEF InPhase, BatchEmpty
  <2>5. ExpelledFromAll(i)' /\ NothingLeft(i)'
    BY <2>1, <2>2, <1>a DEF InstanceInv, ExpelledFromAll, NothingLeft
  <2> QED
    BY <2>1, <2>2, <2>3, <2>4, <2>5, <1>d DEF InstanceInv
<1>10. ASSUME NEW i \in Instances, Fenced(i) PROVE LoopInv'
  <2>1. /\ TxnEnds(i)
        /\ \E p \in assigned[i] : owner[p] # i
        /\ batch' = [batch EXCEPT ![i] = [p \in Partitions |-> <<>>]]
        /\ pc' = [pc EXCEPT ![i] = "collect"] /\ pc[i] = "process"
        /\ UNCHANGED <<committed, out, owner, assigned, pos, state>>
    BY <1>10 DEF Fenced, GroupAccepts, Stale, Abort, kafka
  <2>2. /\ pc'[i] = "collect"
        /\ \A p \in Partitions : /\ batch'[i][p] = <<>>
                                 /\ txnOff'[i][p] = NoOffset /\ txnOut'[i][p] = <<>>
    BY <2>1, <1>a, <1>c, TxnEndsTyped
  <2>3. \A p \in assigned[i] : owner[p] # i
    BY <2>1, <1>a DEF InstanceInv, ExpelledFromAll
  <2>4. InstanceInv(i)'
    BY <2>1, <2>2, <2>3, <1>a DEF InstanceInv, OwnsInStep, ExpelledFromAll, NothingLeft,
       InPhase
  <2>5. \A j \in Instances \ {i} :
            /\ pc'[j] = pc[j] /\ batch'[j] = batch[j]
            /\ txnOff'[j] = txnOff[j] /\ txnOut'[j] = txnOut[j]
    BY <2>1, <1>c DEF TxnEnds
  <2> QED
    BY <2>1, <2>4, <2>5, <1>d
<1>11. ASSUME NEW i \in Instances, Commit(i) PROVE LoopInv'
  <2>1. /\ pc[i] = "commit" /\ TxnEnds(i)
        /\ pc' = [pc EXCEPT ![i] = "collect"]
        /\ UNCHANGED <<owner, assigned, pos, batch, state>>
    BY <1>11 DEF Commit, local
  <2>2. OutputTyped' /\ ExactlyOnceOutput'
    BY <1>11, CommitAdvances DEF OutputTyped, ExactlyOnceOutput
  <2>3. /\ pc'[i] = "collect"
        /\ \A p \in Partitions : txnOff'[i][p] = NoOffset /\ txnOut'[i][p] = <<>>
    BY <2>1, <1>a, <1>c, TxnEndsTyped
  <2>4. OwnsInStep(i)'
    <3> SUFFICES ASSUME NEW q \in assigned[i] PROVE InStep(i, q)'
      BY <2>1 DEF OwnsInStep
    <3>1. InStep(i, q) /\ q \in Partitions
      BY <2>1, <1>e
    <3>2. /\ committed'[q] = Handled(i, q) /\ out'[q] \in Seq(Outputs)
          /\ out'[q] = SeqOut[q][committed'[q]]
      BY <3>1, <1>11, CommitAdvances
    <3>3. Handled(i, q)' = Handled(i, q)
      BY <2>1 DEF Handled
    <3>4. Handled(i, q) \in committed'[q]..pos[i][q]
      <4>1. /\ pos[i][q] \in Nat /\ batch[i][q] \in Seq(Nat)
            /\ committed[q] \in Nat /\ Handled(i, q) \in committed[q]..pos[i][q]
        BY <3>1, <1>a, <1>c DEF InStep, Shape
      <4> QED
        BY <3>2, <4>1
    <3>5. txnOut'[i][q] \in Seq(Outputs) /\ out'[q] \o txnOut'[i][q] = out'[q]
      <4>1. <<>> \in Seq(Outputs)
        OBVIOUS
      <4>2. \A s \in Seq(Outputs) : s \o <<>> = s
        <5> TAKE s \in Seq(Outputs)
        <5> QED
          BY ConcatEmptySeq
      <4>3. out'[q] \o <<>> = out'[q]
        BY <3>2, <4>2, Zenon
      <4> QED
        BY <3>1, <4>1, <4>3, <2>3
    <3> QED
      BY <3>1, <3>2, <3>3, <3>4, <3>5, <2>1 DEF InStep
  <2>5. ExpelledFromAll(i)' /\ NothingLeft(i)' /\ InPhase(i)'
    BY <2>1, <2>3, <1>a DEF InstanceInv, ExpelledFromAll, NothingLeft, InPhase
  <2>6. ASSUME NEW j \in Instances, j # i PROVE InstanceInv(j)'
    <3>1. pc'[j] = pc[j] /\ txnOff'[j] = txnOff[j] /\ txnOut'[j] = txnOut[j]
      BY <2>1, <2>6, <1>c DEF TxnEnds
    <3>2. ASSUME NEW p \in assigned[j], owner[p] = j \/ pc[j] = "commit"
          PROVE  out'[p] = out[p] /\ committed'[p] = committed[p]
      <4>1. p \in Partitions /\ pos[i][p] # NoOffset /\ pos[j][p] # NoOffset
        BY <3>2, <1>c DEF NoOffset
      <4>2. p \notin assigned[i]
        <5> SUFFICES ASSUME p \in assigned[i] PROVE FALSE
          OBVIOUS
        <5>1. txnOff[i][p] # NoOffset
          BY <2>1, <4>1, <1>a DEF InstanceInv, InPhase
        <5>2. CASE owner[p] = j
          BY <5>1, <5>2, <2>6, <4>1, <1>a, <1>c DEF WriterInv, TxnOwned
        <5>3. CASE pc[j] = "commit"
          <6>1. txnOff[j][p] # NoOffset
            BY <5>3, <4>1, <1>a DEF InstanceInv, InPhase
          <6> QED
            BY <5>1, <6>1, <4>1, <2>6, <1>a DEF WriterInv, OneWriter
        <5> QED
          BY <5>2, <5>3, <3>2
      <4> QED
        BY <4>1, <4>2, <1>11, CommitAdvances
    <3> QED
      BY <3>1, <3>2, <2>1, OtherInstance
  <2> QED
    BY <2>2, <2>4, <2>5, <2>6, <1>b DEF LoopInv, InstanceInv
<1>12. ASSUME NEW i \in Instances, Expel(i) PROVE LoopInv'
  <2>1. /\ owner' = [p \in Partitions |-> IF owner[p] = i THEN NoInstance ELSE owner[p]]
        /\ UNCHANGED <<committed, out, txnOff, txnOut, pc, assigned, pos, batch, state>>
    BY <1>12 DEF Expel, txn, local
  <2>2. /\ \A p \in Partitions : owner'[p] # i
        /\ \A j \in Instances \ {i} : \A p \in Partitions : owner'[p] = j <=> owner[p] = j
    BY <2>1, <1>c
  <2>3. OwnsInStep(i)'
    <3> SUFFICES ASSUME NEW q \in assigned[i], owner'[q] = i \/ pc[i] = "commit"
                 PROVE  InStep(i, q)'
      BY <2>1 DEF OwnsInStep
    <3>1. q \in Partitions /\ pc[i] = "commit"
      BY <2>2, <1>c
    <3> QED
      BY <3>1, <2>1, <1>e, StaysInStep
  <2>4. ExpelledFromAll(i)' /\ NothingLeft(i)' /\ InPhase(i)'
    BY <2>1, <2>2, <1>a, <1>c DEF InstanceInv, ExpelledFromAll, NothingLeft, InPhase,
       BatchEmpty
  <2> QED
    BY <2>1, <2>2, <2>3, <2>4, <1>d DEF InstanceInv
<1>13. ASSUME NEW i \in Instances, TxnTimeout(i) PROVE LoopInv'
  <2>1. /\ TxnEnds(i) /\ pc[i] = "down"
        /\ UNCHANGED <<committed, out, owner, pc, assigned, pos, batch, state>>
    BY <1>13 DEF TxnTimeout, kafka, local
  <2>2. InstanceInv(i)'
    BY <2>1, <1>a DEF InstanceInv, OwnsInStep, ExpelledFromAll, NothingLeft, InPhase
  <2>3. \A j \in Instances \ {i} : txnOff'[j] = txnOff[j] /\ txnOut'[j] = txnOut[j]
    BY <2>1, <1>c DEF TxnEnds
  <2> QED
    BY <2>1, <2>2, <2>3, <1>d
<1>14. ASSUME NEW i \in Instances, Close(i) PROVE LoopInv'
  <2>1. /\ Release(i, assigned[i])
        /\ owner' = [p \in Partitions |-> IF owner[p] = i THEN NoInstance ELSE owner[p]]
        /\ pc' = [pc EXCEPT ![i] = "down"]
    BY <1>14 DEF Close
  <2>2. /\ pc'[i] = "down" /\ assigned'[i] = {}
        /\ \A j \in Instances \ {i} :
               pc'[j] = pc[j] /\ \A p \in Partitions : owner'[p] = j <=> owner[p] = j
    BY <2>1, <1>c DEF Release
  <2> QED
    BY <2>1, <2>2, <1>g
<1>15. ASSUME NEW i \in Instances, Crash(i) PROVE LoopInv'
  BY <1>15, <1>f DEF Crash
<1>16. ASSUME NEW i \in Instances, NEW p \in Partitions, Revoke(i, p) PROVE LoopInv'
  <2>0. PICK S : S = {p}
    OBVIOUS
  <2>1. /\ p \in assigned[i] /\ owner[p] = i /\ Release(i, S)
        /\ owner' = [owner EXCEPT ![p] = NoInstance] /\ pc' = pc
    BY <2>0, <1>16 DEF Revoke
  <2>2. /\ \A j \in Instances \ {i} :
               pc'[j] = pc[j] /\ \A q \in Partitions : owner'[q] = j <=> owner[q] = j
        /\ \A q \in assigned[i] \ S : owner'[q] = owner[q]
        /\ S \subseteq assigned[i]
        /\ pc'[i] = pc[i] /\ pc[i] # "down"
    BY <2>0, <2>1, <1>c DEF Release
  <2>3. Release(i, S)
    BY <2>1
  <2> QED
    BY <2>2, <2>3, <1>g
<1> QED
  BY <1>1, <1>2, <1>3, <1>4, <1>5, <1>6, <1>7, <1>8, <1>9, <1>10, <1>11, <1>12,
     <1>13, <1>14, <1>15, <1>16 DEF Next, Turn

\* The invariant holds throughout.
LEMMA LoopInvariant == ASSUME CallbacksMidBatch = FALSE PROVE Spec => []LoopInv
<1>1. LoopInv /\ [Next]_vars => LoopInv'
  BY LoopStep
<1> QED
  BY <1>1, LoopInit, PTL DEF Spec

\* Exactly once: the committed output of a partition is that of a sequential run
\* up to its committed offset, through crashes, expulsions, fenced commits and
\* moves between instances, as long as partitions are not revoked while a batch
\* is being collected.
THEOREM ExactlyOnceHolds ==
    ASSUME CallbacksMidBatch = FALSE PROVE Spec => []ExactlyOnceOutput
<1>1. LoopInv => ExactlyOnceOutput
  BY DEF LoopInv
<1> QED
  BY <1>1, LoopInvariant, PTL

\* What a step may do to the committed data of a partition: nothing, or move the
\* offset forward together with the output.
LEMMA CommittedStep ==
    ASSUME [Next]_vars
    PROVE  \/ UNCHANGED <<committed, out>>
           \/ \E i \in Instances : Commit(i)
<1>1. ASSUME NEW i \in Instances,
             \/ Start(i) \/ Lost(i) \/ Begin(i) \/ SendOffsets(i) \/ Fenced(i)
             \/ Expel(i) \/ TxnTimeout(i) \/ Close(i) \/ Crash(i)
      PROVE  UNCHANGED <<committed, out>>
  BY <1>1 DEF Start, Lost, Release, Begin, SendOffsets, Fenced, Abort, Expel,
     TxnTimeout, Close, Crash, Dies, kafka
<1>2. ASSUME NEW i \in Instances, NEW p \in Partitions,
             \/ Assign(i, p) \/ Poll(i, p) \/ Handle(i, p) \/ HandleRaises(i, p)
             \/ Revoke(i, p)
      PROVE  UNCHANGED <<committed, out>>
  BY <1>2 DEF Assign, Poll, Handle, HandleRaises, Dies, Revoke, Release, kafka
<1>3. CASE UNCHANGED vars
  BY <1>3 DEF vars
<1> QED
  BY <1>1, <1>2, <1>3 DEF Next, Turn

\* "Output for a revoked partition must not commit after it moves": output
\* becomes visible only in a step that also moves the partition's offset, when
\* no callback runs while a batch is being collected.
THEOREM OutputMovesOffsets ==
    ASSUME CallbacksMidBatch = FALSE PROVE Spec => OutputWithOffsets
<1>1. LoopInv /\ [Next]_vars =>
          [\A p \in Partitions : out'[p] # out[p] => committed'[p] # committed[p]]_vars
  <2> SUFFICES ASSUME LoopInv, [Next]_vars, NEW p \in Partitions,
                      committed'[p] = committed[p]
               PROVE  out'[p] = out[p]
    OBVIOUS
  <2>1. out[p] = SeqOut[p][committed[p]]
    BY DEF LoopInv, ExactlyOnceOutput
  <2>2. ASSUME NEW i \in Instances, Commit(i) PROVE out'[p] = SeqOut[p][committed'[p]]
    BY <2>2, CommitAdvances
  <2> QED
    BY <2>1, <2>2, CommittedStep
<1> QED
  BY <1>1, LoopInvariant, PTL DEF Spec, OutputWithOffsets

\* The loop implements ExactlyOnce: a reader of committed data sees offsets that
\* only move forward and exactly the output of a sequential run up to them.
THEOREM KeepsPromise ==
    ASSUME CallbacksMidBatch = FALSE PROVE Spec => ImplementsPromise
<1>1. Init => Promise!Init
  BY DEF Init, Promise!Init
<1>2. LoopInv /\ [Next]_vars => [Promise!Advance]_<<committed, out>>
  <2> SUFFICES ASSUME LoopInv, [Next]_vars, NEW i \in Instances, Commit(i)
               PROVE  Promise!Advance
    BY CommittedStep
  <2>1. Typed' /\ Typed
    BY TypeStep DEF LoopInv, WriterInv
  <2>2. committed' \in [Partitions -> Nat] /\ committed \in [Partitions -> Nat]
    BY <2>1 DEF Typed, Shape
  <2>3. ASSUME NEW p \in Partitions
        PROVE  /\ committed[p] =< committed'[p] /\ committed'[p] =< Len(Log[p])
               /\ out'[p] = SeqOut[p][committed'[p]]
    <3>1. Len(Log[p]) \in Nat /\ committed[p] \in Nat
      BY <2>2, SequentialRun
    <3>2. committed'[p] \in committed[p]..Len(Log[p]) /\ out'[p] = SeqOut[p][committed'[p]]
      BY CommitAdvances
    <3> QED
      BY <3>1, <3>2
  <2>4. out' = [p \in Partitions |-> out[p] \o txnOut[i][p]]
    BY DEF Commit
  <2>5. out' = [p \in Partitions |-> SeqOut[p][committed'[p]]]
    BY <2>3, <2>4
  <2> QED
    BY <2>2, <2>3, <2>5 DEF Promise!Advance
<1> QED
  BY <1>1, <1>2, LoopInvariant, PTL DEF Spec, ImplementsPromise, Promise!Spec
=============================================================================

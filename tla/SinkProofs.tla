----------------------------- MODULE SinkProofs -----------------------------
(***************************************************************************)
(* Proofs about PostgresSink, for any number of partitions, members and    *)
(* faults, any logs, refused rows, batch sizes and strikes.                *)
(***************************************************************************)
EXTENDS PostgresSink, TLAPS

-----------------------------------------------------------------------------
(***************************************************************************)
(* Facts about the operations of ConsumerGroup. GroupTypeOK says what      *)
(* values the variables have where they are used; GroupTyped adds that     *)
(* they are functions, which steps that update one value rely on.          *)
(***************************************************************************)
GroupTyped ==
    /\ GroupTypeOK
    /\ committed \in [Partitions -> Nat]
    /\ pos \in [Instances -> [Partitions -> Nat]]

\* A group without members has well-typed state.
LEMMA GroupInitTyped == GroupInit => GroupTyped
BY GroupAssumption DEF GroupInit, GroupTyped, GroupTypeOK

\* The budget of faults is respected.
LEMMA FaultBudgetTyped == GroupTyped /\ FaultBudget => faults' \in 0..MaxFaults
BY GroupAssumption DEF GroupTyped, GroupTypeOK, FaultBudget

\* Steps that leave the group alone, but may spend a fault, keep the types.
LEMMA GroupUnchangedTyped ==
    ASSUME GroupTyped, UNCHANGED <<committed, owner, assigned, pos>>,
           faults' \in 0..MaxFaults
    PROVE  GroupTyped'
BY DEF GroupTyped, GroupTypeOK

\* on_assign keeps the types when reading starts inside the log.
LEMMA TakeTyped ==
    ASSUME GroupTyped, NEW i \in Instances, NEW p \in Partitions,
           NEW after \in 0..Len(Log[p]), TakeFrom(i, p, after)
    PROVE  GroupTyped'
<1> USE GroupAssumption DEF TakeFrom, GroupTyped, GroupTypeOK
<1>1. after \in Nat
  OBVIOUS
<1>2. pos' \in [Instances -> [Partitions -> Nat]]
  BY <1>1
<1>3. \A j \in Instances : \A q \in Partitions : pos'[j][q] \in 0..Len(Log[q])
  OBVIOUS
<1>4. /\ owner' \in [Partitions -> Instances \union {NoInstance}]
      /\ assigned' \in [Instances -> SUBSET Partitions]
  OBVIOUS
<1> QED
  BY <1>2, <1>3, <1>4

\* poll() keeps the types: it returns messages of the log only.
LEMMA AdvanceTyped ==
    ASSUME GroupTyped, NEW i \in Instances, NEW p \in Partitions, Advance(i, p)
    PROVE  GroupTyped'
<1> USE GroupAssumption DEF Advance, GroupTyped, GroupTypeOK
<1>1. pos[i][p] + 1 \in 0..Len(Log[p])
  OBVIOUS
<1>2. pos' \in [Instances -> [Partitions -> Nat]]
  BY <1>1
<1>3. \A j \in Instances : \A q \in Partitions : pos'[j][q] \in 0..Len(Log[q])
  BY <1>1
<1> QED
  BY <1>2, <1>3

\* release_partitions keeps the types of what it changes.
LEMMA GiveUpTyped ==
    ASSUME GroupTyped, NEW i \in Instances, NEW S, GiveUp(i, S)
    PROVE  /\ assigned' \in [Instances -> SUBSET Partitions]
           /\ owner' \in [Partitions -> Instances \union {NoInstance}]
           /\ pos' \in [Instances -> [Partitions -> Nat]]
           /\ \A j \in Instances : \A q \in Partitions : pos'[j][q] \in 0..Len(Log[q])
<1> USE GroupAssumption DEF GiveUp, GroupTyped, GroupTypeOK
<1>1. /\ assigned' \in [Instances -> SUBSET Partitions]
      /\ owner' \in [Partitions -> Instances \union {NoInstance}]
  OBVIOUS
<1>2. pos' \in [Instances -> [Partitions -> Nat]]
  OBVIOUS
<1>3. \A j \in Instances : \A q \in Partitions : pos'[j][q] \in 0..Len(Log[q])
  OBVIOUS
<1> QED
  BY <1>1, <1>2, <1>3

\* The end of a process keeps the types.
LEMMA DieTyped ==
    ASSUME GroupTyped, NEW i \in Instances, Die(i), faults' \in 0..MaxFaults
    PROVE  GroupTyped'
<1> USE GroupAssumption DEF Die, GroupTyped, GroupTypeOK
<1>1. assigned' \in [Instances -> SUBSET Partitions]
  OBVIOUS
<1>2. pos' \in [Instances -> [Partitions -> Nat]]
  OBVIOUS
<1>3. \A j \in Instances : \A q \in Partitions : pos'[j][q] \in 0..Len(Log[q])
  OBVIOUS
<1> QED
  BY <1>1, <1>2, <1>3

\* The coordinator's expulsion keeps the types.
LEMMA ExpelTyped ==
    ASSUME GroupTyped, NEW i \in Instances, Expel(i)
    PROVE  GroupTyped'
<1>1. faults' \in 0..MaxFaults
  BY FaultBudgetTyped DEF Expel, GroupTyped, GroupTypeOK
<1>2. owner' \in [Partitions -> Instances \union {NoInstance}]
  BY DEF Expel, GroupTyped, GroupTypeOK
<1> QED
  BY <1>1, <1>2 DEF Expel, GroupTyped, GroupTypeOK

\* A commit of offsets inside the log keeps the types.
LEMMA CommitToTyped ==
    ASSUME GroupTyped, NEW offsets, CommitTo(offsets),
           \A p \in Partitions : p \in DOMAIN offsets => offsets[p] \in 0..Len(Log[p])
    PROVE  /\ committed' \in [Partitions -> Nat]
           /\ \A p \in Partitions : committed'[p] \in 0..Len(Log[p])
BY GroupAssumption DEF CommitTo, GroupTyped, GroupTypeOK

-----------------------------------------------------------------------------
(***************************************************************************)
(* The type invariant. TypeOK says what values variables have where they   *)
(* are used; Typed adds that they are functions, and that a batch holds    *)
(* messages of the log.                                                    *)
(***************************************************************************)
RetentionTyped ==
    /\ RetentionTypeOK
    /\ logStart \in [Partitions -> Nat]
    /\ reported \in [Partitions -> SUBSET Nat]
    /\ begun \in [Partitions -> Nat]

LocalTyped ==
    /\ pc \in [Instances -> {"down", "poll", "write", "commit"}]
    /\ batch \in [Instances -> SUBSET (Partitions \X Nat)]
    /\ \A i \in Instances : \A m \in batch[i] : m[2] \in 1..Len(Log[m[1]])

Typed == GroupTyped /\ RetentionTyped /\ WatchdogTypeOK /\ LocalTyped

\* Typed contains the type invariant.
LEMMA TypedImplies == Typed => TypeOK
BY DEF Typed, GroupTyped, RetentionTyped, LocalTyped, TypeOK

\* The initial state is type correct.
LEMMA TypeInit == Init => Typed
<1> SUFFICES ASSUME Init PROVE Typed
  OBVIOUS
<1>1. GroupTyped
  BY GroupInitTyped DEF Init
<1>2. RetentionTyped
  BY GroupAssumption DEF Init, RetentionInit, RetentionTyped, RetentionTypeOK
<1>3. covered \in BOOLEAN
  BY DEF Init, WatchdogInit
<1>4. strikes \in [Instances -> 0..(StrikesBeforeRejoin - 1)]
  BY StrikesAssumption DEF Init, WatchdogInit
<1>5. LocalTyped
  BY DEF Init, GroupInit, LocalTyped
<1> QED
  BY <1>1, <1>2, <1>3, <1>4, <1>5 DEF Typed, WatchdogTypeOK

\* A fresh watchdog is well typed.
LEMMA NewWatchdogTyped ==
    ASSUME WatchdogTypeOK, NEW i \in Instances, NewWatchdog(i)
    PROVE  strikes' \in [Instances -> 0..(StrikesBeforeRejoin - 1)]
BY StrikesAssumption DEF NewWatchdog, WatchdogTypeOK

\* on_assign reports and starts inside the log.
LEMMA StartOfTyped ==
    ASSUME GroupTyped, RetentionTyped, NEW p \in Partitions
    PROVE  /\ StartOf(p) \in 0..Len(Log[p])
           /\ committed[p] =< StartOf(p)
           /\ logStart[p] =< StartOf(p)
           /\ Gap(p) \subseteq 1..Len(Log[p])
BY GroupAssumption DEF StartOf, Gap, GroupTyped, GroupTypeOK, RetentionTyped,
   RetentionTypeOK

\* Steps that leave the retention state alone keep its types.
LEMMA RetentionUnchanged ==
    RetentionTyped /\ UNCHANGED retentionVars => RetentionTyped'
BY DEF RetentionTyped, RetentionTypeOK, retentionVars

\* release_partitions keeps the types of the whole group.
LEMMA LetGoTyped ==
    ASSUME GroupTyped, NEW i \in Instances, NEW S, LetGo(i, S),
           faults' \in 0..MaxFaults
    PROVE  GroupTyped'
<1>1. GiveUp(i, S) /\ committed' = committed
  BY DEF LetGo
<1> QED
  BY <1>1, GiveUpTyped DEF GroupTyped, GroupTypeOK

\* Every step keeps the types.
LEMMA TypeStep == Typed /\ [Next]_vars => Typed'
<1> SUFFICES ASSUME Typed, [Next]_vars PROVE Typed'
  OBVIOUS
<1>a. /\ GroupTyped /\ RetentionTyped /\ WatchdogTypeOK /\ LocalTyped
      /\ faults \in 0..MaxFaults
  BY DEF Typed, GroupTyped, GroupTypeOK
<1>1. CASE UNCHANGED vars
  <2>1. GroupTyped'
    BY <1>1, <1>a, GroupUnchangedTyped DEF vars
  <2>2. RetentionTyped'
    BY <1>1, <1>a, RetentionUnchanged DEF vars, around, retentionVars
  <2>3. WatchdogTypeOK' /\ LocalTyped'
    BY <1>1, <1>a DEF vars, around, WatchdogTypeOK, LocalTyped
  <2> QED
    BY <2>1, <2>2, <2>3 DEF Typed
<1>2. ASSUME NEW i \in Instances, Start(i) PROVE Typed'
  <2>1. GroupTyped'
    BY <1>2, <1>a, GroupUnchangedTyped DEF Start, Join
  <2>2. RetentionTyped'
    BY <1>2, <1>a, RetentionUnchanged DEF Start
  <2>3. covered' \in BOOLEAN
    BY <1>2, <1>a DEF Start, Computed, WatchdogTypeOK
  <2>4. strikes' \in [Instances -> 0..(StrikesBeforeRejoin - 1)]
    BY <1>2, <1>a DEF Start, WatchdogTypeOK
  <2>5. LocalTyped'
    BY <1>2, <1>a DEF Start, Join, LocalTyped
  <2> QED
    BY <2>1, <2>2, <2>3, <2>4, <2>5 DEF Typed, WatchdogTypeOK
<1>3. ASSUME NEW i \in Instances, NEW p \in Partitions, Assign(i, p) PROVE Typed'
  <2>1. TakeFrom(i, p, StartOf(p))
    BY <1>3 DEF Assign, TakeReporting
  <2>2. GroupTyped'
    BY <2>1, <1>a, TakeTyped, StartOfTyped
  <2>3. RetentionTyped'
    <3>1. /\ logStart' = logStart
          /\ reported' = [reported EXCEPT ![p] = @ \union Gap(p)]
          /\ begun' = [begun EXCEPT ![p] = IF committed[p] = 0 THEN StartOf(p) ELSE @]
      BY <1>3 DEF Assign, TakeReporting
    <3>2. Gap(p) \subseteq 1..Len(Log[p]) /\ StartOf(p) \in 0..Len(Log[p])
      BY <1>a, StartOfTyped
    <3>3. 1..Len(Log[p]) \subseteq Nat /\ 0..Len(Log[p]) \subseteq Nat
      BY GroupAssumption
    <3>4. /\ begun' \in [Partitions -> Nat]
          /\ \A q \in Partitions : begun'[q] \in 0..Len(Log[q])
      BY <3>1, <3>2, <3>3, <1>a DEF RetentionTyped, RetentionTypeOK
    <3>5. /\ reported' \in [Partitions -> SUBSET Nat]
          /\ \A q \in Partitions : reported'[q] \subseteq 1..Len(Log[q])
      BY <3>1, <3>2, <3>3, <1>a DEF RetentionTyped, RetentionTypeOK
    <3> QED
      BY <3>1, <3>4, <3>5, <1>a DEF RetentionTyped, RetentionTypeOK
  <2>4. WatchdogTypeOK' /\ LocalTyped'
    BY <1>3, <2>1, <1>a DEF Assign, TakeFrom, watchdogVars, WatchdogTypeOK, LocalTyped
  <2> QED
    BY <2>2, <2>3, <2>4 DEF Typed
<1>4. ASSUME NEW i \in Instances, Watch(i) PROVE Typed'
  <2>1. RetentionTyped'
    BY <1>4, <1>a, RetentionUnchanged DEF Watch
  <2>2. CASE CheckPasses(i)
    <3>1. GroupTyped'
      BY <2>2, <1>a, GroupUnchangedTyped DEF CheckPasses, groupVars
    <3>2. strikes' \in [Instances -> 0..(StrikesBeforeRejoin - 1)]
      BY <2>2, <1>a, NewWatchdogTyped DEF CheckPasses
    <3>3. covered' \in BOOLEAN
      BY <2>2, <1>a DEF CheckPasses, WatchdogTypeOK
    <3>4. LocalTyped'
      BY <1>4, <2>2, <1>a DEF Watch, CheckPasses, groupVars, LocalTyped
    <3> QED
      BY <2>1, <3>1, <3>2, <3>3, <3>4 DEF Typed, WatchdogTypeOK
  <2>3. ASSUME SeesUnowned(i) PROVE faults' \in 0..MaxFaults
    BY <2>3, <1>a, FaultBudgetTyped DEF SeesUnowned
  <2>4. CASE CheckStrikes(i)
    <3>1. GroupTyped'
      BY <2>3, <2>4, <1>a, GroupUnchangedTyped DEF CheckStrikes
    <3>2. strikes' \in [Instances -> 0..(StrikesBeforeRejoin - 1)]
      BY <2>4, <1>a, StrikesAssumption DEF CheckStrikes, WatchdogTypeOK
    <3>3. covered' \in BOOLEAN
      BY <2>4, <1>a DEF CheckStrikes, WatchdogTypeOK
    <3>4. LocalTyped'
      BY <1>4, <2>4, <1>a DEF Watch, CheckStrikes, LocalTyped
    <3> QED
      BY <2>1, <3>1, <3>2, <3>3, <3>4 DEF Typed, WatchdogTypeOK
  <2>5. CASE CheckRejoins(i)
    <3>1. GroupTyped'
      BY <2>3, <2>5, <1>a, GiveUpTyped DEF CheckRejoins, GroupTyped, GroupTypeOK
    <3>2. strikes' \in [Instances -> 0..(StrikesBeforeRejoin - 1)]
      BY <2>5, <1>a, NewWatchdogTyped DEF CheckRejoins
    <3>3. covered' \in BOOLEAN
      BY <2>5 DEF CheckRejoins
    <3>4. LocalTyped'
      BY <1>4, <2>5, <1>a DEF Watch, CheckRejoins, LocalTyped
    <3> QED
      BY <2>1, <3>1, <3>2, <3>3, <3>4 DEF Typed, WatchdogTypeOK
  <2> QED
    BY <1>4, <2>2, <2>4, <2>5 DEF Watch, Check
<1>5. ASSUME NEW p \in Partitions, Expires(p) PROVE Typed'
  <2>1. PICK n \in 1..Len(Log[p]) : Expire(p, n)
    BY <1>5 DEF Expires
  <2>2. GroupTyped'
    BY <2>1, <1>a, GroupUnchangedTyped, FaultBudgetTyped DEF Expire
  <2>3. RetentionTyped'
    BY <2>1, <1>a, GroupAssumption DEF Expire, RetentionTyped, RetentionTypeOK
  <2>4. WatchdogTypeOK' /\ LocalTyped'
    BY <1>5, <2>1, <1>a DEF Expires, Expire, watchdogVars, WatchdogTypeOK, LocalTyped
  <2> QED
    BY <2>2, <2>3, <2>4 DEF Typed
<1>6. ASSUME NEW i \in Instances, NEW p \in Partitions, Collect(i, p) PROVE Typed'
  <2>1. GroupTyped'
    BY <1>6, <1>a, AdvanceTyped DEF Collect
  <2>2. RetentionTyped'
    BY <1>6, <1>a, RetentionUnchanged DEF Collect, around, retentionVars
  <2>3. pos'[i][p] \in 1..Len(Log[p]) /\ pos'[i][p] \in Nat
    BY <1>6, <1>a, GroupAssumption DEF Collect, Advance, GroupTyped, GroupTypeOK
  <2>4. LocalTyped'
    <3>1. batch' = [batch EXCEPT ![i] = @ \union {<<p, pos'[i][p]>>}] /\ pc' = pc
      BY <1>6 DEF Collect, Advance
    <3>2. <<p, pos'[i][p]>> \in Partitions \X Nat
      BY <2>3
    <3>3. batch' \in [Instances -> SUBSET (Partitions \X Nat)]
      BY <3>1, <3>2, <1>a DEF LocalTyped
    <3>4. ASSUME NEW j \in Instances, NEW m \in batch'[j]
          PROVE  m[2] \in 1..Len(Log[m[1]])
      <4>1. m \in batch[j] \/ m = <<p, pos'[i][p]>>
        BY <3>1, <1>a DEF LocalTyped
      <4> QED
        BY <4>1, <2>3, <1>a DEF LocalTyped
    <3> QED
      BY <3>1, <3>3, <3>4, <1>a DEF LocalTyped
  <2>5. WatchdogTypeOK'
    BY <1>6, <1>a DEF Collect, around, WatchdogTypeOK
  <2> QED
    BY <2>1, <2>2, <2>4, <2>5 DEF Typed
<1>7. ASSUME NEW i \in Instances, NEW p \in Partitions, Revoke(i, p) PROVE Typed'
  <2>1. GroupTyped'
    BY <1>7, <1>a, LetGoTyped, FaultBudgetTyped DEF Revoke
  <2>2. RetentionTyped'
    BY <1>7, <1>a, RetentionUnchanged DEF Revoke, LetGo
  <2>3. WatchdogTypeOK' /\ LocalTyped'
    BY <1>7, <1>a DEF Revoke, LetGo, WatchdogTypeOK, LocalTyped
  <2> QED
    BY <2>1, <2>2, <2>3 DEF Typed
<1>8. ASSUME NEW i \in Instances, Lost(i) PROVE Typed'
  <2>1. GroupTyped'
    BY <1>8, <1>a, LetGoTyped DEF Lost
  <2>2. RetentionTyped'
    BY <1>8, <1>a, RetentionUnchanged DEF Lost, LetGo
  <2>3. WatchdogTypeOK' /\ LocalTyped'
    BY <1>8, <1>a DEF Lost, LetGo, WatchdogTypeOK, LocalTyped
  <2> QED
    BY <2>1, <2>2, <2>3 DEF Typed
<1>9. ASSUME NEW i \in Instances, Close(i) PROVE Typed'
  <2>1. GroupTyped'
    BY <1>9, <1>a, LetGoTyped, FaultBudgetTyped DEF Close
  <2>2. RetentionTyped'
    BY <1>9, <1>a, RetentionUnchanged DEF Close, LetGo
  <2>3. strikes' \in [Instances -> 0..(StrikesBeforeRejoin - 1)]
    BY <1>9, <1>a, NewWatchdogTyped DEF Close
  <2>4. covered' \in BOOLEAN
    BY <1>9, <1>a DEF Close, LetGo, WatchdogTypeOK
  <2>5. LocalTyped'
    BY <1>9, <1>a DEF Close, LocalTyped
  <2> QED
    BY <2>1, <2>2, <2>3, <2>4, <2>5 DEF Typed, WatchdogTypeOK
<1>10. ASSUME NEW i \in Instances, BeginWrite(i) \/ WriteRows(i) \/ WriteLost(i)
       PROVE  Typed'
  <2>1. faults' \in 0..MaxFaults
    BY <1>10, <1>a, FaultBudgetTyped DEF BeginWrite, WriteRows, WriteLost
  <2>2. UNCHANGED <<committed, owner, assigned, pos, batch, around>>
    BY <1>10 DEF BeginWrite, WriteRows, WriteLost
  <2>3. GroupTyped'
    BY <2>1, <2>2, <1>a, GroupUnchangedTyped
  <2>4. RetentionTyped'
    BY <2>2, <1>a, RetentionUnchanged DEF around, retentionVars
  <2>5. WatchdogTypeOK'
    BY <2>2, <1>a DEF around, WatchdogTypeOK
  <2>6. LocalTyped'
    BY <1>10, <2>2, <1>a DEF BeginWrite, WriteRows, WriteLost, LocalTyped
  <2> QED
    BY <2>3, <2>4, <2>5, <2>6 DEF Typed
<1>11. ASSUME NEW i \in Instances, Commit(i) PROVE Typed'
  <2>1. \A p \in Partitions :
            p \in DOMAIN Stored(i) => Stored(i)[p] \in 0..Len(Log[p])
    BY <1>a DEF Stored, GroupTyped, GroupTypeOK
  <2>2. GroupTyped'
    <3>1. /\ committed' \in [Partitions -> Nat]
          /\ \A p \in Partitions : committed'[p] \in 0..Len(Log[p])
      BY <2>1, <1>11, <1>a, CommitToTyped DEF Commit
    <3> QED
      BY <3>1, <1>11, <1>a DEF Commit, GroupTyped, GroupTypeOK
  <2>3. RetentionTyped'
    BY <1>11, <1>a, RetentionUnchanged DEF Commit, around, retentionVars
  <2>4. WatchdogTypeOK'
    BY <1>11, <1>a DEF Commit, around, WatchdogTypeOK
  <2>5. LocalTyped'
    BY <1>11, <1>a DEF Commit, LocalTyped
  <2> QED
    BY <2>2, <2>3, <2>4, <2>5 DEF Typed
<1>12. ASSUME NEW i \in Instances, WriteRefused(i) \/ CommitRefused(i) \/ Crash(i)
       PROVE  Typed'
  <2>1. Exit(i) /\ faults' \in 0..MaxFaults
    BY <1>12, <1>a, FaultBudgetTyped DEF WriteRefused, CommitRefused, Crash
  <2>2. GroupTyped'
    BY <2>1, <1>a, DieTyped DEF Exit
  <2>3. RetentionTyped'
    BY <2>1, <1>a, RetentionUnchanged DEF Exit
  <2>4. strikes' \in [Instances -> 0..(StrikesBeforeRejoin - 1)]
    BY <2>1, <1>a, NewWatchdogTyped DEF Exit
  <2>5. covered' \in BOOLEAN
    BY <2>1, <1>a DEF Exit, WatchdogTypeOK
  <2>6. LocalTyped'
    BY <2>1, <1>a DEF Exit, Die, LocalTyped
  <2> QED
    BY <2>2, <2>3, <2>4, <2>5, <2>6 DEF Typed, WatchdogTypeOK
<1>13. ASSUME NEW i \in Instances, Expelled(i) PROVE Typed'
  <2>1. GroupTyped'
    BY <1>13, <1>a, ExpelTyped DEF Expelled
  <2>2. RetentionTyped'
    BY <1>13, <1>a, RetentionUnchanged DEF Expelled, around, retentionVars
  <2>3. WatchdogTypeOK' /\ LocalTyped'
    BY <1>13, <1>a DEF Expelled, Expel, around, WatchdogTypeOK, LocalTyped
  <2> QED
    BY <2>1, <2>2, <2>3 DEF Typed
<1> QED
  BY <1>1, <1>2, <1>3, <1>4, <1>5, <1>6, <1>7, <1>8, <1>9, <1>10, <1>11, <1>12,
     <1>13 DEF Next, Turn

\* The sink's variables keep their types, whatever the group, the database and
\* the retention of the topic do.
THEOREM TypeCorrect == Spec => []TypeOK
<1>1. Spec => []Typed
  BY TypeInit, TypeStep, PTL DEF Spec
<1> QED
  BY <1>1, TypedImplies, PTL

-----------------------------------------------------------------------------
(***************************************************************************)
(* Rows first, offsets second. CommittedStored alone is not inductive: a   *)
(* commit moves an offset over messages that a member collected earlier.   *)
(* What makes it safe is that whatever the owner of a partition has read   *)
(* past the committed offset is dealt with or still in its batch, and that *)
(* a batch is in the table before its member comes to commit.              *)
(***************************************************************************)

\* What i has read of p, past the committed offset, is dealt with or in the batch.
Accounted(i, p) ==
    \A o \in (committed[p] + 1)..pos[i][p] : o \in Dealt(p) \/ <<p, o>> \in batch[i]

ReadAccounted ==
    \A i \in Instances : \A p \in assigned[i] : owner[p] = i => Accounted(i, p)

\* A batch that is about to be committed is in the table.
WrittenBeforeCommit ==
    \A i \in Instances :
        pc[i] = "commit" => \A m \in batch[i] : m[2] \in Dealt(m[1])

\* A group starts at the log start of its time, which only moves on.
BegunAtLogStart == \A p \in Partitions : begun[p] =< logStart[p]

SinkInv ==
    /\ Typed
    /\ CommittedStored
    /\ ReadAccounted
    /\ WrittenBeforeCommit
    /\ BegunAtLogStart

\* Initially nothing is read.
LEMMA SinkInvInit == Init => SinkInv
<1> SUFFICES ASSUME Init PROVE SinkInv
  OBVIOUS
<1>1. Typed
  BY TypeInit
<1>2. CommittedStored
  <2>1. \A p \in Partitions : committed[p] \in Nat /\ committed[p] = 0
    BY <1>1 DEF Init, GroupInit, Typed, GroupTyped
  <2> SUFFICES ASSUME NEW p \in Partitions PROVE 1..committed[p] = {}
    BY DEF CommittedStored
  <2> QED
    BY <2>1
<1>3. ReadAccounted /\ WrittenBeforeCommit
  BY DEF Init, GroupInit, ReadAccounted, WrittenBeforeCommit
<1>4. BegunAtLogStart
  <2>1. \A p \in Partitions : /\ begun[p] \in Nat /\ logStart[p] \in Nat
                              /\ begun[p] = logStart[p]
    BY <1>1 DEF Init, RetentionInit, Typed, RetentionTyped
  <2> SUFFICES ASSUME NEW p \in Partitions PROVE begun[p] =< logStart[p]
    BY DEF BegunAtLogStart
  <2> QED
    BY <2>1
<1> QED
  BY <1>1, <1>2, <1>3, <1>4 DEF SinkInv

\* What the group is not going to store stays excused: reports are kept, and the
\* place where a group began moves only while it has no offset.
LEMMA ExcusedGrows ==
    ASSUME SinkInv, [Next]_vars
    PROVE  \A p \in Partitions : /\ reported[p] \subseteq reported'[p]
                                 /\ begun[p] =< begun'[p]
                                 /\ begun'[p] =< logStart'[p]
<1>a. /\ logStart \in [Partitions -> Nat]
      /\ reported \in [Partitions -> SUBSET Nat]
      /\ begun \in [Partitions -> Nat]
      /\ \A p \in Partitions : begun[p] =< logStart[p]
      /\ committed \in [Partitions -> Nat]
  BY DEF SinkInv, Typed, RetentionTyped, BegunAtLogStart, GroupTyped
<1>1. CASE UNCHANGED retentionVars
  BY <1>1, <1>a DEF retentionVars
<1>2. ASSUME NEW i \in Instances, NEW q \in Partitions, Assign(i, q),
             NEW p \in Partitions
      PROVE  /\ reported[p] \subseteq reported'[p]
             /\ begun[p] =< begun'[p]
             /\ begun'[p] =< logStart'[p]
  BY <1>2, <1>a DEF Assign, TakeReporting, StartOf
<1>3. ASSUME NEW q \in Partitions, Expires(q), NEW p \in Partitions
      PROVE  /\ reported[p] \subseteq reported'[p]
             /\ begun[p] =< begun'[p]
             /\ begun'[p] =< logStart'[p]
  <2>1. PICK n \in 1..Len(Log[q]) : Expire(q, n)
    BY <1>3 DEF Expires
  <2> QED
    BY <2>1, <1>a, GroupAssumption DEF Expire
<1>4. ASSUME NEW i \in Instances,
             \/ Start(i) \/ Watch(i) \/ Lost(i) \/ BeginWrite(i) \/ WriteRows(i)
             \/ WriteRefused(i) \/ Commit(i) \/ CommitRefused(i) \/ Close(i)
             \/ WriteLost(i) \/ Crash(i) \/ Expelled(i)
      PROVE  UNCHANGED retentionVars
  BY <1>4 DEF Start, Watch, Lost, LetGo, BeginWrite, WriteRows, WriteRefused, Commit,
     CommitRefused, Close, WriteLost, Crash, Exit, Expelled, around, retentionVars
<1>5. ASSUME NEW i \in Instances, NEW q \in Partitions, Collect(i, q) \/ Revoke(i, q)
      PROVE  UNCHANGED retentionVars
  BY <1>5 DEF Collect, Revoke, LetGo, around, retentionVars
<1>6. CASE UNCHANGED vars
  BY <1>6, <1>1 DEF vars, around, retentionVars
<1> QED
  BY <1>1, <1>2, <1>3, <1>4, <1>5, <1>6 DEF Next, Turn

\* No row is ever deleted.
LEMMA TableGrows == [Next]_vars => table \subseteq table'
<1> SUFFICES ASSUME [Next]_vars PROVE table \subseteq table'
  OBVIOUS
<1>1. ASSUME NEW i \in Instances, WriteRows(i) \/ WriteLost(i)
      PROVE  table \subseteq table'
  BY <1>1 DEF WriteRows, WriteLost
<1>2. ASSUME NEW i \in Instances,
             \/ Start(i) \/ Watch(i) \/ Lost(i) \/ BeginWrite(i) \/ Commit(i)
             \/ WriteRefused(i) \/ CommitRefused(i) \/ Close(i) \/ Crash(i)
             \/ Expelled(i)
      PROVE  UNCHANGED table
  BY <1>2 DEF Start, Watch, Lost, LetGo, BeginWrite, Commit, WriteRefused, CommitRefused,
     Close, Crash, Exit, Expelled, database
<1>3. ASSUME NEW i \in Instances, NEW q \in Partitions,
             Assign(i, q) \/ Collect(i, q) \/ Revoke(i, q)
      PROVE  UNCHANGED table
  BY <1>3 DEF Assign, Collect, Revoke, LetGo, database
<1>4. ASSUME NEW q \in Partitions, Expires(q) PROVE UNCHANGED table
  BY <1>4 DEF Expires, database
<1>5. CASE UNCHANGED vars
  BY <1>5 DEF vars, database
<1> QED
  BY <1>1, <1>2, <1>3, <1>4, <1>5 DEF Next, Turn

\* A message that is dealt with stays so.
LEMMA DealtGrows ==
    ASSUME SinkInv, [Next]_vars, NEW p \in Partitions
    PROVE  Dealt(p) \subseteq Dealt(p)'
<1>1. reported[p] \subseteq reported'[p] /\ begun[p] =< begun'[p]
  BY ExcusedGrows
<1>2. begun[p] \in Nat /\ begun'[p] \in Nat
  BY TypeStep DEF SinkInv, Typed, RetentionTyped
<1>3. 1..begun[p] \subseteq 1..begun'[p]
  BY <1>1, <1>2
<1>4. table \subseteq table'
  BY TableGrows
<1> QED
  BY <1>1, <1>3, <1>4 DEF Dealt, Excused

\* A member that reads no more of p and drops nothing from its batch still
\* accounts for what it has read of p.
LEMMA StillAccounted ==
    ASSUME SinkInv, [Next]_vars, NEW i \in Instances, NEW p \in Partitions,
           p \in assigned[i], owner[p] = i,
           committed[p] =< committed'[p], pos'[i][p] =< pos[i][p],
           batch[i] \subseteq batch'[i]
    PROVE  Accounted(i, p)'
<1>1. Typed /\ Typed' /\ Accounted(i, p)
  BY TypeStep DEF SinkInv, ReadAccounted
<1>2. /\ committed[p] \in Nat /\ committed'[p] \in Nat
      /\ pos[i][p] \in Nat /\ pos'[i][p] \in Nat
  BY <1>1 DEF Typed, GroupTyped
<1>3. Dealt(p) \subseteq Dealt(p)'
  BY DealtGrows
<1>4. (committed'[p] + 1)..pos'[i][p] \subseteq (committed[p] + 1)..pos[i][p]
  BY <1>2
<1> QED
  BY <1>1, <1>3, <1>4 DEF Accounted

\* Every step keeps the invariant.
LEMMA SinkInvStep == SinkInv /\ [Next]_vars => SinkInv'
<1> SUFFICES ASSUME SinkInv, [Next]_vars PROVE SinkInv'
  OBVIOUS
<1>a. Typed /\ Typed'
  BY TypeStep DEF SinkInv
<1>b. \A p \in Partitions : Dealt(p) \subseteq Dealt(p)'
  BY DealtGrows
<1>c. /\ pc \in [Instances -> {"down", "poll", "write", "commit"}]
      /\ batch \in [Instances -> SUBSET (Partitions \X Nat)]
      /\ owner \in [Partitions -> Instances \union {NoInstance}]
      /\ assigned \in [Instances -> SUBSET Partitions]
      /\ pos \in [Instances -> [Partitions -> Nat]]
      /\ committed \in [Partitions -> Nat]
      /\ NoInstance \notin Instances
  BY <1>a, GroupAssumption DEF Typed, LocalTyped, GroupTyped, GroupTypeOK
<1>d. BegunAtLogStart'
  BY ExcusedGrows DEF BegunAtLogStart
\* Steps that do not commit.
<1>e. ASSUME UNCHANGED committed PROVE CommittedStored'
  BY <1>e, <1>b DEF CommittedStored, SinkInv
\* Steps that leave the batches and the places of the members alone.
<1>f. ASSUME NEW i \in Instances, pc'[i] = "commit" => pc[i] = "commit",
             batch'[i] \subseteq batch[i]
      PROVE  pc'[i] = "commit" => \A m \in batch'[i] : m[2] \in Dealt(m[1])'
  <2> SUFFICES ASSUME pc'[i] = "commit", NEW m \in batch'[i]
               PROVE  m[2] \in Dealt(m[1])'
    OBVIOUS
  <2>1. m \in batch[i] /\ m[1] \in Partitions
    BY <1>f, <1>c
  <2>2. m[2] \in Dealt(m[1])
    BY <2>1, <1>f DEF SinkInv, WrittenBeforeCommit
  <2> QED
    BY <2>1, <2>2, <1>b
<1>g. ASSUME UNCHANGED <<committed, owner, assigned, pos>>, UNCHANGED batch
      PROVE  ReadAccounted'
  <2> SUFFICES ASSUME NEW j \in Instances, NEW q \in assigned'[j], owner'[q] = j
               PROVE  Accounted(j, q)'
    BY DEF ReadAccounted
  <2> QED
    BY <1>g, <1>c, StillAccounted
\* Members give up partitions, or are expelled.
<1>h. ASSUME \A j \in Instances : \A q \in Partitions :
                 q \in assigned'[j] /\ owner'[q] = j =>
                     q \in assigned[j] /\ owner[q] = j /\ pos'[j][q] = pos[j][q]
                         /\ batch'[j] = batch[j],
             UNCHANGED committed
      PROVE  ReadAccounted'
  <2> SUFFICES ASSUME NEW j \in Instances, NEW q \in assigned'[j], owner'[q] = j
               PROVE  Accounted(j, q)'
    BY DEF ReadAccounted
  <2>1. q \in Partitions
    BY <1>a DEF Typed, GroupTyped, GroupTypeOK
  <2> QED
    BY <2>1, <1>h, <1>c, StillAccounted
<1>i. ASSUME NEW i \in Instances, NEW S, GiveUp(i, S), UNCHANGED <<batch, committed>>
      PROVE  ReadAccounted'
  <2> SUFFICES ASSUME NEW j \in Instances, NEW q \in Partitions,
                      q \in assigned'[j], owner'[q] = j
               PROVE  q \in assigned[j] /\ owner[q] = j /\ pos'[j][q] = pos[j][q]
    BY <1>i, <1>h
  <2> QED
    BY <1>i, <1>c DEF GiveUp
<1>1. CASE UNCHANGED vars
  <2>1. UNCHANGED <<committed, owner, assigned, pos, batch, pc>>
    BY <1>1 DEF vars
  <2> QED
    BY <2>1, <1>a, <1>d, <1>e, <1>f, <1>g DEF SinkInv, WrittenBeforeCommit
<1>2. ASSUME NEW i \in Instances, Start(i) PROVE SinkInv'
  <2>1. /\ UNCHANGED <<committed, owner, assigned, pos, batch>>
        /\ pc' = [pc EXCEPT ![i] = "poll"]
    BY <1>2 DEF Start, Join
  <2>2. WrittenBeforeCommit'
    BY <2>1, <1>c, <1>f DEF WrittenBeforeCommit
  <2> QED
    BY <2>1, <2>2, <1>a, <1>d, <1>e, <1>g DEF SinkInv
<1>3. ASSUME NEW i \in Instances, NEW p \in Partitions, Assign(i, p) PROVE SinkInv'
  <2>1. /\ TakeFrom(i, p, StartOf(p))
        /\ UNCHANGED <<committed, batch, pc>>
        /\ reported' = [reported EXCEPT ![p] = @ \union Gap(p)]
        /\ begun' = [begun EXCEPT ![p] = IF committed[p] = 0 THEN StartOf(p) ELSE @]
    BY <1>3 DEF Assign, TakeReporting, TakeFrom
  <2>2. WrittenBeforeCommit'
    BY <2>1, <1>f DEF WrittenBeforeCommit
  <2>3. pos'[i][p] = StartOf(p)
    BY <2>1, <1>c DEF TakeFrom
  <2>4. (committed[p] + 1)..StartOf(p) \subseteq Excused(p)'
    <3>1. /\ logStart[p] \in Nat /\ committed[p] \in Nat
          /\ reported'[p] = reported[p] \union Gap(p)
          /\ begun'[p] = IF committed[p] = 0 THEN StartOf(p) ELSE begun[p]
      BY <2>1, <1>a DEF Typed, RetentionTyped, GroupTyped
    <3> QED
      BY <3>1 DEF StartOf, Gap, Excused
  <2>5. Accounted(i, p)'
    BY <2>1, <2>3, <2>4 DEF Accounted, Dealt
  <2>6. ReadAccounted'
    <3> SUFFICES ASSUME NEW j \in Instances, NEW q \in assigned'[j], owner'[q] = j
                 PROVE  Accounted(j, q)'
      BY DEF ReadAccounted
    <3>1. CASE q = p
      BY <3>1, <2>1, <2>5, <1>c DEF TakeFrom
    <3>2. CASE q # p
      <4>1. /\ q \in Partitions /\ q \in assigned[j] /\ owner[q] = j
            /\ pos'[j][q] = pos[j][q]
        BY <3>2, <2>1, <1>c DEF TakeFrom
      <4>2. /\ committed[q] =< committed'[q] /\ pos'[j][q] =< pos[j][q]
            /\ batch[j] \subseteq batch'[j]
        BY <4>1, <2>1, <1>c
      <4> QED
        BY <4>1, <4>2, StillAccounted
    <3> QED
      BY <3>1, <3>2
  <2> QED
    BY <2>1, <2>2, <2>6, <1>a, <1>d, <1>e DEF SinkInv
<1>4. ASSUME NEW i \in Instances, Watch(i) PROVE SinkInv'
  <2>1. UNCHANGED <<committed, pc, batch>>
    BY <1>4 DEF Watch, Check, CheckPasses, CheckStrikes, CheckRejoins, groupVars
  <2>2. CASE UNCHANGED <<owner, assigned, pos>>
    BY <2>1, <2>2, <1>a, <1>d, <1>e, <1>f, <1>g DEF SinkInv, WrittenBeforeCommit
  <2>3. CASE GiveUp(i, assigned[i])
    BY <2>1, <2>3, <1>a, <1>d, <1>e, <1>f, <1>i DEF SinkInv, WrittenBeforeCommit
  <2> QED
    BY <1>4, <2>2, <2>3 DEF Watch, Check, CheckPasses, CheckStrikes, CheckRejoins,
       groupVars
<1>5. ASSUME NEW p \in Partitions, Expires(p) PROVE SinkInv'
  <2>1. UNCHANGED <<committed, owner, assigned, pos, batch, pc>>
    BY <1>5 DEF Expires, Expire
  <2> QED
    BY <2>1, <1>a, <1>d, <1>e, <1>f, <1>g DEF SinkInv, WrittenBeforeCommit
<1>6. ASSUME NEW i \in Instances, NEW p \in Partitions, Collect(i, p) PROVE SinkInv'
  <2>1. /\ UNCHANGED <<committed, owner, assigned, pc>>
        /\ pos' = [pos EXCEPT ![i][p] = @ + 1]
        /\ pc[i] = "poll" /\ p \in assigned[i]
        /\ batch' = [batch EXCEPT ![i] = @ \union {<<p, pos'[i][p]>>}]
    BY <1>6 DEF Collect, Advance
  <2>2. /\ pos'[i][p] = pos[i][p] + 1
        /\ batch[i] \subseteq batch'[i]
        /\ <<p, pos[i][p] + 1>> \in batch'[i]
    BY <2>1, <1>c
  <2>3. WrittenBeforeCommit'
    <3> SUFFICES ASSUME NEW j \in Instances, pc'[j] = "commit"
                 PROVE  \A m \in batch'[j] : m[2] \in Dealt(m[1])'
      BY DEF WrittenBeforeCommit
    <3>1. batch'[j] = batch[j]
      BY <2>1, <1>c
    <3> QED
      BY <2>1, <3>1, <1>f
  <2>4. ReadAccounted'
    <3> SUFFICES ASSUME NEW j \in Instances, NEW q \in assigned'[j], owner'[q] = j
                 PROVE  Accounted(j, q)'
      BY DEF ReadAccounted
    <3>1. q \in Partitions /\ q \in assigned[j] /\ owner[q] = j /\ committed[q] \in Nat
      BY <2>1, <1>c
    <3>2. CASE j = i /\ q = p
      <4>1. ASSUME NEW o \in (committed[p] + 1)..(pos[i][p] + 1)
            PROVE  o \in Dealt(p)' \/ <<p, o>> \in batch'[i]
        <5>1. CASE o = pos[i][p] + 1
          BY <5>1, <2>2
        <5>2. CASE o # pos[i][p] + 1
          <6>1. o \in (committed[p] + 1)..pos[i][p]
            BY <5>2, <1>c
          <6>2. o \in Dealt(p) \/ <<p, o>> \in batch[i]
            BY <6>1, <3>1, <3>2 DEF SinkInv, ReadAccounted, Accounted
          <6> QED
            BY <6>2, <2>2, <1>b
        <5> QED
          BY <5>1, <5>2
      <4> QED
        BY <3>2, <4>1, <2>1, <2>2 DEF Accounted
    <3>3. CASE ~(j = i /\ q = p)
      <4>1. pos'[j][q] = pos[j][q] /\ batch[j] \subseteq batch'[j]
        BY <3>1, <3>3, <2>1, <1>c
      <4> QED
        BY <4>1, <3>1, <2>1, <1>c, StillAccounted
    <3> QED
      BY <3>2, <3>3
  <2> QED
    BY <2>1, <2>3, <2>4, <1>a, <1>d, <1>e DEF SinkInv
<1>7. ASSUME NEW i \in Instances, NEW S, LetGo(i, S), UNCHANGED batch,
             \A j \in Instances : pc'[j] = "commit" => pc[j] = "commit"
      PROVE  SinkInv'
  <2>1. GiveUp(i, S) /\ committed' = committed
    BY <1>7 DEF LetGo
  <2>2. WrittenBeforeCommit'
    BY <1>7, <1>f DEF WrittenBeforeCommit
  <2> QED
    BY <2>1, <2>2, <1>7, <1>a, <1>d, <1>e, <1>i DEF SinkInv
<1>8. ASSUME NEW i \in Instances, NEW p \in Partitions, Revoke(i, p) PROVE SinkInv'
  BY <1>7, <1>8 DEF Revoke
<1>9. ASSUME NEW i \in Instances, Lost(i) PROVE SinkInv'
  BY <1>7, <1>9 DEF Lost
<1>10. ASSUME NEW i \in Instances, Close(i) PROVE SinkInv'
  <2>1. \A j \in Instances : pc'[j] = "commit" => pc[j] = "commit"
    BY <1>10, <1>c DEF Close
  <2> QED
    BY <2>1, <1>7, <1>10 DEF Close
<1>11. ASSUME NEW i \in Instances, BeginWrite(i) \/ WriteLost(i) PROVE SinkInv'
  <2>1. /\ UNCHANGED <<committed, owner, assigned, pos, batch>>
        /\ \A j \in Instances : pc'[j] = "commit" => pc[j] = "commit"
    BY <1>11, <1>c DEF BeginWrite, WriteLost
  <2> QED
    BY <2>1, <1>a, <1>d, <1>e, <1>f, <1>g DEF SinkInv, WrittenBeforeCommit
<1>12. ASSUME NEW i \in Instances, WriteRows(i) PROVE SinkInv'
  <2>1. /\ UNCHANGED <<committed, owner, assigned, pos, batch>>
        /\ table' = table \union Rows(i)
        /\ pc' = [pc EXCEPT ![i] = "commit"]
    BY <1>12 DEF WriteRows
  <2>2. \A m \in batch[i] : m[2] \in Dealt(m[1])'
    <3> SUFFICES ASSUME NEW m \in batch[i] PROVE m[2] \in Dealt(m[1])'
      OBVIOUS
    <3>1. m[1] \in Partitions /\ m[2] \in 1..Len(Log[m[1]])
      BY <1>a, <1>c DEF Typed, LocalTyped
    <3>2. Log[m[1]][m[2]] \in table' \union {Unreadable}
      BY <2>1 DEF Rows
    <3> QED
      BY <3>1, <3>2 DEF Dealt
  <2>3. WrittenBeforeCommit'
    <3> SUFFICES ASSUME NEW j \in Instances, pc'[j] = "commit"
                 PROVE  \A m \in batch'[j] : m[2] \in Dealt(m[1])'
      BY DEF WrittenBeforeCommit
    <3>1. CASE j = i
      BY <3>1, <2>1, <2>2
    <3>2. CASE j # i
      BY <3>2, <2>1, <1>c, <1>f
    <3> QED
      BY <3>1, <3>2
  <2> QED
    BY <2>1, <2>3, <1>a, <1>d, <1>e, <1>g DEF SinkInv
<1>13. ASSUME NEW i \in Instances, Commit(i) PROVE SinkInv'
  <2>1. /\ pc[i] = "commit" /\ Committable(i) /\ CommitTo(Stored(i))
        /\ batch' = [batch EXCEPT ![i] = {}]
        /\ pc' = [pc EXCEPT ![i] = "poll"]
        /\ UNCHANGED <<owner, assigned, pos>>
    BY <1>13 DEF Commit
  <2>2. \A p \in assigned[i] : owner[p] = i
    BY <2>1 DEF Committable, CommitAccepted, Stale
  <2>3. \A p \in Partitions :
            committed'[p] = IF p \in assigned[i] /\ pos[i][p] > committed[p]
                            THEN pos[i][p] ELSE committed[p]
    BY <2>1, <1>c DEF CommitTo, Stored
  <2>4. \A p \in Partitions : committed[p] =< committed'[p]
    BY <2>3, <1>c
  <2>5. ASSUME NEW p \in assigned[i], NEW o \in (committed[p] + 1)..pos[i][p]
        PROVE  o \in Dealt(p)
    <3>1. o \in Dealt(p) \/ <<p, o>> \in batch[i]
      BY <2>2 DEF SinkInv, ReadAccounted, Accounted
    <3>2. ASSUME <<p, o>> \in batch[i] PROVE o \in Dealt(p)
      BY <3>2, <2>1 DEF SinkInv, WrittenBeforeCommit
    <3> QED
      BY <3>1, <3>2
  <2>6. CommittedStored'
    <3> SUFFICES ASSUME NEW p \in Partitions, NEW o \in 1..committed'[p]
                 PROVE  o \in Dealt(p)
      BY <1>b DEF CommittedStored
    <3>1. CASE o \in 1..committed[p]
      BY <3>1 DEF SinkInv, CommittedStored
    <3>2. CASE o \notin 1..committed[p]
      <4>1. p \in assigned[i] /\ o \in (committed[p] + 1)..pos[i][p]
        BY <3>2, <2>3, <1>c
      <4> QED
        BY <4>1, <2>5
    <3> QED
      BY <3>1, <3>2
  <2>7. ReadAccounted'
    <3> SUFFICES ASSUME NEW j \in Instances, NEW q \in assigned'[j], owner'[q] = j
                 PROVE  Accounted(j, q)'
      BY DEF ReadAccounted
    <3>1. q \in Partitions /\ q \in assigned[j] /\ owner[q] = j
      BY <2>1, <1>c
    <3>2. CASE j = i
      <4>1. (committed'[q] + 1)..pos'[i][q] = {}
        BY <3>1, <3>2, <2>1, <2>3, <1>c
      <4> QED
        BY <3>2, <4>1 DEF Accounted
    <3>3. CASE j # i
      BY <3>1, <3>3, <2>1, <2>4, <1>c, StillAccounted
    <3> QED
      BY <3>2, <3>3
  <2>8. WrittenBeforeCommit'
    <3>1. \A j \in Instances : /\ pc'[j] = "commit" => pc[j] = "commit"
                               /\ batch'[j] \subseteq batch[j]
      BY <2>1, <1>c
    <3> QED
      BY <3>1, <1>f DEF WrittenBeforeCommit
  <2> QED
    BY <2>6, <2>7, <2>8, <1>a, <1>d DEF SinkInv
<1>14. ASSUME NEW i \in Instances, WriteRefused(i) \/ CommitRefused(i) \/ Crash(i)
       PROVE  SinkInv'
  <2>1. /\ UNCHANGED <<committed, owner>>
        /\ pc' = [pc EXCEPT ![i] = "down"]
        /\ assigned' = [assigned EXCEPT ![i] = {}]
        /\ pos' = [pos EXCEPT ![i] = [p \in Partitions |-> 0]]
        /\ batch' = [batch EXCEPT ![i] = {}]
    BY <1>14 DEF WriteRefused, CommitRefused, Crash, Exit, Die
  <2>2. ReadAccounted'
    <3>1. ASSUME NEW j \in Instances, NEW q \in Partitions,
                 q \in assigned'[j], owner'[q] = j
          PROVE  /\ q \in assigned[j] /\ owner[q] = j
                 /\ pos'[j][q] = pos[j][q] /\ batch'[j] = batch[j]
      BY <3>1, <2>1, <1>c
    <3> QED
      BY <3>1, <2>1, <1>h
  <2>3. WrittenBeforeCommit'
    <3>1. \A j \in Instances : /\ pc'[j] = "commit" => pc[j] = "commit"
                               /\ batch'[j] \subseteq batch[j]
      BY <2>1, <1>c
    <3> QED
      BY <3>1, <1>f DEF WrittenBeforeCommit
  <2> QED
    BY <2>1, <2>2, <2>3, <1>a, <1>d, <1>e DEF SinkInv
<1>15. ASSUME NEW i \in Instances, Expelled(i) PROVE SinkInv'
  <2>1. /\ UNCHANGED <<committed, pc, assigned, pos, batch>>
        /\ owner' = [p \in Partitions |-> IF owner[p] = i THEN NoInstance ELSE owner[p]]
    BY <1>15 DEF Expelled, Expel
  <2>2. ReadAccounted'
    <3>1. ASSUME NEW j \in Instances, NEW q \in Partitions, owner'[q] = j
          PROVE  owner[q] = j
      BY <3>1, <2>1, <1>c
    <3> QED
      BY <3>1, <2>1, <1>h
  <2> QED
    BY <2>1, <2>2, <1>a, <1>d, <1>e, <1>f DEF SinkInv, WrittenBeforeCommit
<1> QED
  BY <1>1, <1>2, <1>3, <1>4, <1>5, <1>6, <1>8, <1>9, <1>10, <1>11, <1>12, <1>13,
     <1>14, <1>15 DEF Next, Turn

\* The invariant holds throughout.
LEMMA SinkInvariant == Spec => []SinkInv
BY SinkInvInit, SinkInvStep, PTL DEF Spec

\* "Rows first, offsets second. The order is the whole guarantee.": the row of
\* every readable message before the committed offset is in the table, or its
\* loss was reported.
THEOREM RowsBeforeOffsets == Spec => []CommittedStored
<1>1. SinkInv => CommittedStored
  BY DEF SinkInv
<1> QED
  BY <1>1, SinkInvariant, PTL

\* The messages of p that are dealt with are positions of its log.
LEMMA DealtTyped == ASSUME Typed, NEW p \in Partitions PROVE Dealt(p) \in SUBSET Nat
BY GroupAssumption DEF Typed, RetentionTyped, RetentionTypeOK, Dealt, Excused

\* A committed offset never moves back: only the owner of a partition commits for
\* it, and a member commits what is past the committed offset.
LEMMA CommittedGrows ==
    ASSUME SinkInv, [Next]_vars, NEW p \in Partitions
    PROVE  committed[p] =< committed'[p]
<1>a. committed \in [Partitions -> Nat] /\ pos \in [Instances -> [Partitions -> Nat]]
  BY DEF SinkInv, Typed, GroupTyped
<1>1. CASE UNCHANGED committed
  BY <1>1, <1>a
<1>2. ASSUME NEW i \in Instances, Commit(i) PROVE committed[p] =< committed'[p]
  <2>1. committed'[p] = IF p \in assigned[i] /\ pos[i][p] > committed[p]
                        THEN pos[i][p] ELSE committed[p]
    BY <1>2, <1>a DEF Commit, CommitTo, Stored
  <2> QED
    BY <2>1, <1>a
<1>3. ASSUME NEW i \in Instances,
             \/ Start(i) \/ Watch(i) \/ Lost(i) \/ BeginWrite(i) \/ WriteRows(i)
             \/ WriteRefused(i) \/ CommitRefused(i) \/ Close(i) \/ WriteLost(i)
             \/ Crash(i) \/ Expelled(i)
      PROVE  UNCHANGED committed
  BY <1>3 DEF Start, Join, Watch, Check, CheckPasses, CheckStrikes, CheckRejoins,
     groupVars, Lost, LetGo, BeginWrite, WriteRows, WriteRefused, CommitRefused, Close, WriteLost,
     Crash, Exit, Die, Expelled, Expel
<1>4. ASSUME NEW i \in Instances, NEW q \in Partitions,
             Assign(i, q) \/ Collect(i, q) \/ Revoke(i, q)
      PROVE  UNCHANGED committed
  BY <1>4 DEF Assign, TakeReporting, TakeFrom, Collect, Advance, Revoke, LetGo
<1>5. ASSUME NEW q \in Partitions, Expires(q) PROVE UNCHANGED committed
  BY <1>5 DEF Expires, Expire
<1>6. CASE UNCHANGED vars
  BY <1>6, <1>1 DEF vars
<1> QED
  BY <1>1, <1>2, <1>3, <1>4, <1>5, <1>6 DEF Next, Turn

\* The sink implements AtLeastOnce: whatever its members, the group and the
\* database do, a message may be stored any number of times, and offsets only
\* pass messages that have been stored or reported.
THEOREM Implementation == Spec => ImplementsGuarantee
<1>1. Init => Guarantee!Init
  <2> SUFFICES ASSUME Init PROVE Guarantee!Init
    OBVIOUS
  <2>1. committed = [p \in Partitions |-> 0]
    BY DEF Init, GroupInit
  <2>2. [p \in Partitions |-> Dealt(p)] \in [Partitions -> SUBSET Nat]
    BY TypeInit, DealtTyped
  <2> QED
    BY <2>1, <2>2 DEF Guarantee!Init
<1>2. SinkInv /\ [Next]_vars
          => [Guarantee!Advance]_<<committed, [p \in Partitions |-> Dealt(p)]>>
  <2> SUFFICES ASSUME SinkInv, [Next]_vars PROVE Guarantee!Advance
    OBVIOUS
  <2>1. SinkInv' /\ Typed'
    BY SinkInvStep DEF SinkInv
  <2>2. [p \in Partitions |-> Dealt(p)]' \in [Partitions -> SUBSET Nat]
    <3>1. \A p \in Partitions : Dealt(p)' \in SUBSET Nat
      BY <2>1, GroupAssumption DEF Typed, RetentionTyped, RetentionTypeOK, Dealt, Excused
    <3> QED
      BY <3>1
  <2>3. committed' \in [Partitions -> Nat]
    BY <2>1 DEF Typed, GroupTyped
  <2>4. \A p \in Partitions : /\ Dealt(p) \subseteq Dealt(p)'
                              /\ committed[p] =< committed'[p]
                              /\ 1..committed'[p] \subseteq Dealt(p)'
    BY <2>1, DealtGrows, CommittedGrows DEF SinkInv, CommittedStored
  <2> QED
    BY <2>2, <2>3, <2>4 DEF Guarantee!Advance
<1> QED
  BY <1>1, <1>2, SinkInvariant, PTL DEF Spec, ImplementsGuarantee, Guarantee!Spec
=============================================================================

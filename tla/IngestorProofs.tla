--------------------------- MODULE IngestorProofs ---------------------------
(***************************************************************************)
(* Proofs about Ingestor, for every stream, queue size and number of       *)
(* faults.                                                                 *)
(***************************************************************************)
EXTENDS Ingestor, FiniteSetTheorems, TLAPS

(***************************************************************************)
(* The type invariant.                                                     *)
(***************************************************************************)

\* What confirm() releases is part of a finite deque, so it can be counted.
LEMMA ReleasedFinite ==
    ASSUME IsFiniteSet(pending), NEW conf
    PROVE  /\ IsFiniteSet(Released(conf))
           /\ Cardinality(Released(conf)) \in Nat
           /\ IsFiniteSet(pending \ Released(conf))
<1>1. IsFiniteSet(Released(conf))
  BY FS_Subset, Released(conf) \subseteq pending DEF Released
<1>2. IsFiniteSet(pending \ Released(conf))
  BY FS_Subset, pending \ Released(conf) \subseteq pending
<1> QED
  BY <1>1, <1>2, FS_CardinalityType

\* Every step of the ingestor and its environment keeps the types.
LEMMA TypeStep == TypeOK /\ [Next]_vars => TypeOK'
<1> SUFFICES ASSUME TypeOK, [Next]_vars PROVE TypeOK'
  OBVIOUS
<1> USE ConstantsAssumption DEF Positions, Phases, Topics, None
<1>1. CASE UNCHANGED vars
  BY <1>1 DEF vars, TypeOK
<1>2. CASE Publish
  BY <1>2 DEF Publish, tracker, queue, TypeOK
<1>3. ASSUME NEW m \in inflight, BrokerAck(m) PROVE TypeOK'
  <2>1. <<TopicOf(m.pos), m.pos>> \in Topics \X Positions
    BY DEF TopicOf, Message, TypeOK
  <2> QED
    BY <1>3, <2>1 DEF BrokerAck, tracker, TypeOK
<1>4. ASSUME NEW m \in inflight, NEW written \in BOOLEAN, BrokerFail(m, written)
      PROVE TypeOK'
  <2>1. <<TopicOf(m.pos), m.pos>> \in Topics \X Positions
    BY DEF TopicOf, Message, TypeOK
  <2> QED
    BY <1>4, <2>1 DEF BrokerFail, FaultBudget, tracker, TypeOK
<1>5. CASE Stop
  <2>1. running' \in BOOLEAN
    BY <1>5 DEF Stop
  <2>2. faults' \in Nat
    BY <1>5 DEF Stop, FaultBudget, TypeOK
  <2>3. UNCHANGED <<head, kafka, file, phase, mem, unsaved, failure, seq,
                    pending, confirmed, inflight, acked, failed, cursor, sid,
                    floor>>
    BY <1>5 DEF Stop, broker, tracker, queue
  <2> QED
    BY <2>1, <2>2, <2>3 DEF TypeOK
<1>6. CASE Crash
  <2>1. running' \in BOOLEAN
    BY <1>6 DEF Crash, Exit
  <2>2. faults' \in Nat /\ phase' \in Phases
    BY <1>6 DEF Crash, Exit, FaultBudget, TypeOK
  <2>3. UNCHANGED <<head, kafka, file, mem, unsaved, failure, seq, pending,
                    confirmed, cursor, sid, floor>>
    BY <1>6 DEF Crash, broker, tracker
  <2>4. inflight' = {} /\ acked' = {} /\ failed' = {}
    BY <1>6 DEF Crash, Exit
  <2> QED
    BY <2>1, <2>2, <2>3, <2>4 DEF TypeOK
<1>7. CASE Start
  <2>1. running' \in BOOLEAN /\ failure' \in BOOLEAN
    BY <1>7 DEF Start, LoadCheckpoint
  <2>2. phase' \in Phases /\ mem' = file /\ unsaved' = 0 /\ seq' = 0
    BY <1>7 DEF Start, LoadCheckpoint
  <2>3. pending' = {} /\ confirmed' = {} /\ cursor' = 0 /\ sid' = 0
    BY <1>7 DEF Start, LoadCheckpoint
  <2>4. UNCHANGED <<head, kafka, file, inflight, acked, failed, faults, floor>>
    BY <1>7 DEF Start, broker, queue
  <2> QED
    BY <2>1, <2>2, <2>3, <2>4, FS_EmptySet DEF TypeOK
<1>8. CASE Connect
  BY <1>8 DEF Connect, ResumeAfter, broker, tracker, queue, TypeOK
<1>9. CASE LeaveLoop \/ PollDone \/ WakeUp \/ SendBlocks
  BY <1>9 DEF LeaveLoop, Goto, PollDone, WakeUp, SendBlocks, broker, tracker, queue, TypeOK
<1>10. CASE LoseConnection
  <2>1. faults' \in Nat /\ phase' \in Phases
    BY <1>10 DEF LoseConnection, Goto, FaultBudget, TypeOK
  <2>2. UNCHANGED <<head, kafka, file, mem, unsaved, running, failure, seq,
                    pending, confirmed, inflight, acked, failed, cursor, sid,
                    floor>>
    BY <1>10 DEF LoseConnection, Goto, broker, tracker, queue
  <2> QED
    BY <2>1, <2>2 DEF TypeOK
<1>11. CASE StreamCloses
  BY <1>11, SMTT(40) DEF StreamCloses, Goto, FaultBudget, broker, tracker, queue, TypeOK
<1>12. CASE SendRefused
  BY <1>12 DEF SendRefused, Goto, FaultBudget, broker, tracker, queue, TypeOK
<1>13. CASE IdleTimeout
  BY <1>13 DEF IdleTimeout, Goto, FaultBudget, broker, tracker, queue, TypeOK
<1>14. CASE ReceiveIgnored
  BY <1>14 DEF ReceiveIgnored, Consume, StreamId, broker, tracker, queue, TypeOK
<1>15. CASE SendAccepted
  <2> DEFINE m == [seq |-> seq + 1, pos |-> cursor + 1, id |-> StreamId(cursor + 1)]
  <2>1. cursor + 1 \in Positions /\ StreamId(cursor + 1) \in 0..StreamLen
    BY <1>15 DEF SendAccepted, AtProduce, StreamId, TypeOK
  <2>2. m \in Message
    BY <2>1 DEF Message, TypeOK
  <2>3. /\ seq' = seq + 1
        /\ pending' = pending \union {m}
        /\ inflight' = inflight \union {m}
        /\ cursor' = cursor + 1
        /\ sid' = StreamId(cursor + 1)
        /\ phase' \in Phases
    BY <1>15 DEF SendAccepted, Consume
  <2>4. UNCHANGED <<head, kafka, file, mem, unsaved, running, failure, confirmed,
                    acked, failed, faults, floor>>
    BY <1>15 DEF SendAccepted, broker
  <2>5. IsFiniteSet(pending')
    BY <2>3, FS_AddElement DEF TypeOK
  <2> HIDE DEF m
  <2> QED
    BY <2>1, <2>2, <2>3, <2>4, <2>5 DEF TypeOK
<1>16. CASE GiveUp
  <2>1. running' \in BOOLEAN /\ failure' \in BOOLEAN
    BY <1>16 DEF GiveUp
  <2>2. faults' \in Nat
    BY <1>16 DEF GiveUp, FaultBudget, TypeOK
  <2>4. phase' \in Phases
    BY <1>16 DEF GiveUp
  <2>3. UNCHANGED <<head, kafka, file, mem, unsaved, seq, pending, confirmed,
                    inflight, acked, failed, cursor, sid, floor>>
    BY <1>16 DEF GiveUp, broker, tracker, queue
  <2> QED
    BY <2>1, <2>2, <2>3, <2>4 DEF TypeOK
<1>17. ASSUME NEW m \in acked, ServeAck(m) PROVE TypeOK'
  <2> DEFINE conf == confirmed \union {m.seq}
  <2>1. /\ acked' = acked \ {m}
        /\ pending' = pending \ Released(conf)
        /\ confirmed' = conf \ {n.seq : n \in Released(conf)}
        /\ AdvanceTo(Released(conf))
        /\ MaybeSave(unsaved + Cardinality(Released(conf)))
    BY <1>17 DEF ServeAck
  <2>2. m \in Message /\ Released(conf) \subseteq Message
    BY DEF TypeOK, Released
  <2>3. conf \subseteq Nat
    BY <2>2 DEF Message, TypeOK
  <2>4. mem' \in 0..StreamLen
    BY <2>1, <2>2 DEF AdvanceTo, Message, TypeOK
  <2>5. unsaved + Cardinality(Released(conf)) \in Nat /\ IsFiniteSet(pending')
    <3>1. Cardinality(Released(conf)) \in Nat /\ IsFiniteSet(pending \ Released(conf))
      <4> HIDE DEF conf
      <4> QED
        BY ReleasedFinite, Zenon DEF TypeOK
    <3> QED
      BY <2>1, <3>1 DEF TypeOK
  <2>6. file' \in 0..StreamLen /\ unsaved' \in Nat
    BY <2>1, <2>4, <2>5 DEF MaybeSave, TypeOK
  <2>7. UNCHANGED <<head, kafka, phase, running, failure, seq, inflight, failed,
                    cursor, sid, faults, floor>>
    BY <1>17 DEF ServeAck, broker
  <2> HIDE DEF conf
  <2> QED
    BY <2>1, <2>3, <2>4, <2>5, <2>6, <2>7 DEF TypeOK
<1>18. ASSUME NEW m \in failed, ServeFail(m) PROVE TypeOK'
  <2>1. running' \in BOOLEAN /\ failure' \in BOOLEAN
    BY <1>18 DEF ServeFail
  <2>2. failed' \subseteq Message
    BY <1>18 DEF ServeFail, TypeOK
  <2>3. UNCHANGED <<head, kafka, file, phase, mem, unsaved, seq, pending,
                    confirmed, inflight, acked, cursor, sid, faults, floor>>
    BY <1>18 DEF ServeFail, broker, tracker
  <2> QED
    BY <2>1, <2>2, <2>3 DEF TypeOK
<1>19. CASE Shutdown
  <2>1. running' \in BOOLEAN
    BY <1>19 DEF Shutdown, Exit
  <2>2. file' \in 0..StreamLen /\ phase' \in Phases
    BY <1>19 DEF Shutdown, Exit, TypeOK
  <2>3. inflight' = {} /\ acked' = {} /\ failed' = {}
    BY <1>19 DEF Shutdown, Exit
  <2>4. UNCHANGED <<head, kafka, mem, unsaved, failure, seq, pending, confirmed,
                    cursor, sid, faults, floor>>
    BY <1>19 DEF Shutdown, broker, tracker
  <2> QED
    BY <2>1, <2>2, <2>3, <2>4 DEF TypeOK
<1> QED
  BY <1>1, <1>2, <1>3, <1>4, <1>5, <1>6, <1>7, <1>8, <1>9, <1>10, <1>11, <1>12,
     <1>13, <1>14, <1>15, <1>16, <1>17, <1>18, <1>19 DEF Next, Environment, Loop

\* The initial state is type correct.
LEMMA TypeInit == Init => TypeOK
<1> SUFFICES ASSUME Init PROVE TypeOK
  OBVIOUS
<1>1. running \in BOOLEAN /\ failure \in BOOLEAN
  BY DEF Init
<1>2. IsFiniteSet(pending)
  BY FS_EmptySet DEF Init
<1> QED
  BY <1>1, <1>2, ConstantsAssumption DEF Init, TypeOK, Phases, None

\* Every reachable state is type correct.
THEOREM TypeCorrect == Spec => []TypeOK
BY TypeInit, TypeStep, PTL DEF Spec

-----------------------------------------------------------------------------
(***************************************************************************)
(* The checkpoint invariant. CheckpointCovered is not inductive: it says   *)
(* nothing of what the next confirmation will release. The strengthening   *)
(* follows an event through the queue, the tracker and the connection.     *)
(***************************************************************************)

\* A sequence number names one message of this process, and none is ahead of
\* seq: confirm(seq) cannot mark another message delivered.
SeqUnique ==
    LET known == pending \union inflight \union acked \union failed
    IN /\ \A m \in known : m.seq =< seq
       /\ \A m, n \in known : m.seq = n.seq => m = n
       /\ \A s \in confirmed : s =< seq

\* The queue of a process ends with it.
DownQueueEmpty == phase = "down" => inflight = {} /\ acked = {} /\ failed = {}

\* A message with a successful callback, served or not, is in Kafka.
ConfirmedLanded ==
    /\ \A m \in acked : Landed(m.pos)
    /\ \A m \in pending : m.seq \in confirmed => Landed(m.pos)

\* No id is from ahead of the live edge.
IdsPublished ==
    /\ cursor =< head
    /\ sid =< cursor
    /\ mem =< head
    /\ file =< head
    /\ \A m \in pending : m.id =< head

\* Of the events up to a tracked message's id, each is in Kafka or was
\* produced no later than that message and is still tracked.
TrackedCovered ==
    \A m \in pending : \A p \in Positions :
        floor < p /\ p =< m.id /\ Needed(p) =>
            Landed(p) \/ \E n \in pending : n.seq =< m.seq /\ n.pos = p

\* Of the events received on the open connection, each is in Kafka or tracked.
ReceivedCovered ==
    phase \in {"stream", "blocked", "poll"} =>
        \A p \in Positions :
            floor < p /\ p =< cursor /\ Needed(p) =>
                Landed(p) \/ \E n \in pending : n.pos = p

\* A process that has no checkpoint in memory has none on disk.
FileBehind == mem = None => file = None

IInv ==
    /\ TypeOK
    /\ SeqUnique
    /\ DownQueueEmpty
    /\ ConfirmedLanded
    /\ IdsPublished
    /\ TrackedCovered
    /\ ReceivedCovered
    /\ FileBehind
    /\ CheckpointCovered

\* A step that moves no event, id or message, and does not put the thread back
\* on a connection, keeps the invariant.
LEMMA FrameStep ==
    ASSUME IInv, TypeOK',
           UNCHANGED <<head, kafka, file, mem, seq, pending, confirmed,
                       inflight, acked, failed, cursor, sid, floor>>,
           phase' \in {"stream", "blocked", "poll"}
               => phase \in {"stream", "blocked", "poll"},
           phase' = "down" => phase = "down"
    PROVE  IInv'
<1>1. SeqUnique' /\ DownQueueEmpty' /\ FileBehind' /\ IdsPublished'
  BY DEF IInv, SeqUnique, DownQueueEmpty, FileBehind, IdsPublished
<1>2. ConfirmedLanded' /\ TrackedCovered' /\ CheckpointCovered'
  BY DEF IInv, ConfirmedLanded, TrackedCovered, CheckpointCovered, Landed
<1>3. ReceivedCovered'
  BY DEF IInv, ReceivedCovered, Landed
<1> QED
  BY <1>1, <1>2, <1>3 DEF IInv

\* The brokers answer a message: it leaves inflight for acked or failed, and
\* Kafka keeps what it has.
LEMMA AnswerStep ==
    ASSUME IInv, TypeOK', NEW m \in inflight,
           inflight' = inflight \ {m},
           \/ acked' = acked \union {m} /\ failed' = failed /\ Landed(m.pos)'
           \/ acked' = acked /\ failed' = failed \union {m},
           kafka \subseteq kafka',
           UNCHANGED <<head, file, phase, mem, seq, pending, confirmed, cursor,
                       sid, floor>>
    PROVE  IInv'
<1>1. \A p \in Positions : Landed(p) => Landed(p)'
  BY DEF Landed
<1>2. \A n \in pending \union acked : n.pos \in Positions
  BY DEF IInv, TypeOK, Message
<1>3. SeqUnique'
  <2>1. (pending \union inflight \union acked \union failed)'
            \subseteq pending \union inflight \union acked \union failed
    OBVIOUS
  <2> QED
    BY <2>1 DEF IInv, SeqUnique
<1>4. ConfirmedLanded'
  BY <1>1, <1>2 DEF IInv, ConfirmedLanded
<1>5. IdsPublished' /\ FileBehind' /\ DownQueueEmpty'
  BY DEF IInv, IdsPublished, FileBehind, DownQueueEmpty
<1>6. TrackedCovered'
  BY <1>1 DEF IInv, TrackedCovered
<1>7. ReceivedCovered'
  BY <1>1 DEF IInv, ReceivedCovered
<1>8. CheckpointCovered'
  BY <1>1 DEF IInv, CheckpointCovered
<1> QED
  BY <1>3, <1>4, <1>5, <1>6, <1>7, <1>8 DEF IInv

\* _send: the new message has the highest number, so every event received
\* before it is covered by an older message or by Kafka.
LEMMA SendAcceptedStep == ASSUME IInv, TypeOK', SendAccepted PROVE IInv'
<1> DEFINE m == [seq |-> seq + 1, pos |-> cursor + 1, id |-> StreamId(cursor + 1)]
<1>1. /\ seq' = seq + 1
      /\ pending' = pending \union {m}
      /\ inflight' = inflight \union {m}
      /\ cursor' = cursor + 1
      /\ sid' = m.id
      /\ phase' = "poll"
      /\ UNCHANGED <<head, kafka, file, mem, confirmed, acked, failed, floor>>
  BY DEF SendAccepted, Consume, broker
<1>2. cursor < head /\ phase \in {"stream", "blocked"}
  BY DEF SendAccepted, AtProduce
<1>3. m.seq = seq + 1 /\ m.pos = cursor + 1 /\ m.id =< cursor + 1
  BY DEF IInv, IdsPublished, StreamId, TypeOK
<1> HIDE DEF m
<1>4. /\ seq \in Nat /\ cursor \in Nat /\ head \in Nat /\ mem \in Nat
      /\ m.seq \in Nat /\ m.id \in Nat
      /\ \A n \in pending \union inflight \union acked \union failed :
             n.seq \in Nat /\ n.id \in Nat
      /\ \A p \in Positions : p \in Nat
      /\ confirmed \subseteq Nat
  <2>1. m \in Message
    BY <1>1 DEF TypeOK
  <2>2. \A n \in Message : n.seq \in Nat /\ n.id \in Nat
    BY ConstantsAssumption DEF Message
  <2>3. \A n \in pending \union inflight \union acked \union failed : n \in Message
    BY DEF IInv, TypeOK
  <2>4. seq \in Nat /\ cursor \in Nat /\ head \in Nat /\ mem \in Nat
    BY ConstantsAssumption DEF IInv, TypeOK
  <2>5. confirmed \subseteq Nat
    BY DEF IInv, TypeOK
  <2>6. \A p \in Positions : p \in Nat
    BY ConstantsAssumption DEF Positions
  <2> QED
    BY <2>1, <2>2, <2>3, <2>4, <2>5, <2>6
<1>5. SeqUnique'
  BY <1>1, <1>3, <1>4 DEF IInv, SeqUnique
<1>6. ConfirmedLanded'
  <2>1. m.seq \notin confirmed
    BY <1>3, <1>4 DEF IInv, SeqUnique
  <2> QED
    BY <1>1, <2>1 DEF IInv, ConfirmedLanded, Landed
<1>7. DownQueueEmpty' /\ FileBehind'
  BY <1>1 DEF IInv, DownQueueEmpty, FileBehind
<1>8. IdsPublished'
  BY <1>1, <1>2, <1>3, <1>4 DEF IInv, IdsPublished
<1>9. ReceivedCovered'
  <2> SUFFICES ASSUME NEW p \in Positions, floor < p, p =< cursor + 1, Needed(p)
               PROVE  Landed(p) \/ \E n \in pending \union {m} : n.pos = p
    BY <1>1 DEF ReceivedCovered, Landed
  <2>1. CASE p = cursor + 1
    BY <2>1, <1>3
  <2>2. CASE p =< cursor
    BY <2>2, <1>2 DEF IInv, ReceivedCovered
  <2> QED
    BY <2>1, <2>2, <1>4
<1>10. TrackedCovered'
  <2> SUFFICES ASSUME NEW k \in pending \union {m}, NEW p \in Positions,
                      floor < p, p =< k.id, Needed(p)
               PROVE  \/ Landed(p)
                      \/ \E n \in pending \union {m} : n.seq =< k.seq /\ n.pos = p
    BY <1>1 DEF TrackedCovered, Landed
  <2>1. CASE k \in pending
    BY <2>1 DEF IInv, TrackedCovered
  <2>2. CASE k = m /\ p = cursor + 1
    BY <2>2, <1>3, <1>4
  <2>3. CASE k = m /\ p =< cursor
    <3>1. Landed(p) \/ \E n \in pending : n.pos = p
      BY <2>3, <1>2 DEF IInv, ReceivedCovered
    <3>2. \A n \in pending : n.seq =< m.seq
      BY <1>3, <1>4 DEF IInv, SeqUnique
    <3> QED
      BY <2>3, <3>1, <3>2
  <2> QED
    BY <2>1, <2>2, <2>3, <1>3, <1>4
<1>11. CheckpointCovered'
  BY <1>1 DEF IInv, CheckpointCovered, Landed
<1> QED
  BY <1>5, <1>6, <1>7, <1>8, <1>9, <1>10, <1>11 DEF IInv

\* _on_delivery: whatever confirm() releases has only confirmed messages
\* before it, so the events up to the released id are in Kafka; a message that
\* stays tracked keeps its cover.
LEMMA ServeAckStep ==
    ASSUME IInv, TypeOK', NEW m \in acked, ServeAck(m) PROVE IInv'
<1> DEFINE conf == confirmed \union {m.seq}
           rel == Released(conf)
<1>1. /\ acked' = acked \ {m}
      /\ pending' = pending \ rel
      /\ confirmed' = conf \ {n.seq : n \in rel}
      /\ AdvanceTo(rel)
      /\ MaybeSave(unsaved + Cardinality(rel))
      /\ UNCHANGED <<head, kafka, phase, seq, inflight, failed, cursor, sid, floor>>
  BY DEF ServeAck, broker
<1>2. \A n \in pending : n.seq \in conf => Landed(n.pos)
  BY DEF IInv, ConfirmedLanded, SeqUnique
<1>3. rel \subseteq pending
  BY DEF Released
<1>4. \A n \in rel : \A k \in pending : k.seq =< n.seq => k.seq \in conf
  BY DEF Released
<1>5. \A n \in rel : n.seq \in conf
  <2>1. \A n \in pending : n.seq =< n.seq
    BY DEF IInv, TypeOK, Message
  <2> HIDE DEF rel, conf
  <2> QED
    BY <2>1, <1>3, <1>4
<1>6. SeqUnique'
  <2>1. m.seq =< seq
    BY DEF IInv, SeqUnique
  <2>2. (pending \union inflight \union acked \union failed)'
            \subseteq pending \union inflight \union acked \union failed
    BY <1>1
  <2>3. \A s \in confirmed' : s =< seq
    BY <1>1, <2>1 DEF IInv, SeqUnique
  <2> QED
    BY <1>1, <2>2, <2>3 DEF IInv, SeqUnique
<1> HIDE DEF rel, conf
<1>7. DownQueueEmpty'
  BY <1>1 DEF IInv, DownQueueEmpty
<1>8. ConfirmedLanded'
  BY <1>1, <1>2 DEF IInv, ConfirmedLanded, Landed
<1>9. mem' = mem \/ \E n \in rel : n.id # None /\ mem' = n.id
  BY <1>1 DEF AdvanceTo
<1>10. file' = file \/ file' = mem'
  BY <1>1 DEF MaybeSave
<1>11. FileBehind'
  BY <1>9, <1>10 DEF IInv, FileBehind, None
<1>12. IdsPublished'
  BY <1>1, <1>3, <1>9, <1>10 DEF IInv, IdsPublished
<1>13. TrackedCovered'
  <2> SUFFICES ASSUME NEW k \in pending, NEW p \in Positions,
                      floor < p, p =< k.id, Needed(p), k \notin rel, ~ Landed(p)
               PROVE  \E n \in pending \ rel : n.seq =< k.seq /\ n.pos = p
    BY <1>1 DEF TrackedCovered, Landed
  <2>1. PICK n \in pending : n.seq =< k.seq /\ n.pos = p
    BY DEF IInv, TrackedCovered
  <2>2. n \notin rel
    BY <2>1, <1>2, <1>5
  <2> QED
    BY <2>1, <2>2
<1>14. ReceivedCovered'
  <2> SUFFICES ASSUME phase \in {"stream", "blocked", "poll"}, NEW p \in Positions,
                      floor < p, p =< cursor, Needed(p), ~ Landed(p)
               PROVE  \E n \in pending \ rel : n.pos = p
    BY <1>1 DEF ReceivedCovered, Landed
  <2>1. PICK n \in pending : n.pos = p
    BY DEF IInv, ReceivedCovered
  <2>2. n \notin rel
    BY <2>1, <1>2, <1>5
  <2> QED
    BY <2>1, <2>2
<1>15. \A p \in Positions : floor < p /\ p =< mem' /\ Needed(p) => Landed(p)
  <2> SUFFICES ASSUME NEW p \in Positions, floor < p, p =< mem', Needed(p)
               PROVE  Landed(p)
    OBVIOUS
  <2>1. CASE mem' = mem
    BY <2>1 DEF IInv, CheckpointCovered
  <2>2. CASE \E n \in rel : mem' = n.id
    <3>1. PICK n \in rel : mem' = n.id
      BY <2>2
    <3>2. Landed(p) \/ \E k \in pending : k.seq =< n.seq /\ k.pos = p
      BY <3>1, <1>3 DEF IInv, TrackedCovered
    <3> QED
      BY <3>1, <3>2, <1>2, <1>4
  <2> QED
    BY <2>1, <2>2, <1>9
<1>16. CheckpointCovered'
  BY <1>1, <1>10, <1>15 DEF IInv, CheckpointCovered, Landed
<1> QED
  BY <1>6, <1>7, <1>8, <1>11, <1>12, <1>13, <1>14, <1>16 DEF IInv

\* Every step keeps the inductive invariant.
LEMMA InvStep == IInv /\ [Next]_vars => IInv'
<1> SUFFICES ASSUME IInv, [Next]_vars PROVE IInv'
  OBVIOUS
<1>0. TypeOK'
  BY TypeStep DEF IInv
<1>1. CASE UNCHANGED vars
  BY <1>0, <1>1, FrameStep DEF vars
<1>2. CASE Publish
  <2>1. SeqUnique' /\ DownQueueEmpty' /\ FileBehind'
    BY <1>2 DEF Publish, tracker, queue, IInv, SeqUnique, DownQueueEmpty, FileBehind
  <2>2. ConfirmedLanded' /\ TrackedCovered' /\ CheckpointCovered'
    BY <1>2 DEF Publish, tracker, queue, IInv, ConfirmedLanded, TrackedCovered,
                CheckpointCovered, Landed
  <2>3. ReceivedCovered'
    BY <1>2 DEF Publish, tracker, queue, IInv, ReceivedCovered, Landed
  <2>4. IdsPublished'
    <3>1. \A n \in pending : n.id \in Int
      BY ConstantsAssumption DEF IInv, TypeOK, Message
    <3> QED
      BY <1>2, <3>1 DEF Publish, tracker, IInv, TypeOK, IdsPublished
  <2> QED
    BY <1>0, <2>1, <2>2, <2>3, <2>4 DEF IInv
<1>3. ASSUME NEW m \in inflight, BrokerAck(m) PROVE IInv'
  BY <1>0, <1>3, AnswerStep DEF BrokerAck, tracker, Landed
<1>4. ASSUME NEW m \in inflight, NEW written \in BOOLEAN, BrokerFail(m, written)
      PROVE IInv'
  BY <1>0, <1>4, AnswerStep DEF BrokerFail, tracker
<1>5. CASE Stop
  BY <1>0, <1>5, FrameStep DEF Stop, broker, tracker, queue
<1>6. CASE Start
  <2>1. /\ mem' = file /\ file' = file /\ seq' = 0 /\ cursor' = 0 /\ sid' = 0
        /\ pending' = {} /\ confirmed' = {} /\ phase = "down" /\ phase' = "connect"
        /\ UNCHANGED <<head, kafka, inflight, acked, failed, floor>>
    BY <1>6 DEF Start, LoadCheckpoint, broker, queue, None
  <2>2. inflight' = {} /\ acked' = {} /\ failed' = {}
    BY <2>1 DEF IInv, DownQueueEmpty
  <2>3. SeqUnique' /\ DownQueueEmpty' /\ ConfirmedLanded' /\ TrackedCovered'
    BY <2>1, <2>2 DEF SeqUnique, DownQueueEmpty, ConfirmedLanded, TrackedCovered
  <2>4. ReceivedCovered' /\ FileBehind'
    BY <2>1 DEF ReceivedCovered, FileBehind
  <2>5. IdsPublished'
    BY <2>1 DEF IInv, IdsPublished, TypeOK
  <2>6. CheckpointCovered'
    BY <2>1 DEF IInv, CheckpointCovered, Landed
  <2> QED
    BY <1>0, <2>3, <2>4, <2>5, <2>6 DEF IInv
<1>7. CASE Connect
  <2>1. /\ cursor' = IF mem = None THEN head ELSE mem
        /\ floor' = IF mem = None THEN head ELSE floor
        /\ sid' = 0 /\ phase' = "stream"
        /\ UNCHANGED <<head, kafka, file, mem, seq, pending, confirmed, inflight,
                       acked, failed>>
    BY <1>7 DEF Connect, ResumeAfter, broker, tracker, queue, None
  <2>2. SeqUnique' /\ DownQueueEmpty' /\ FileBehind'
    BY <2>1 DEF IInv, SeqUnique, DownQueueEmpty, FileBehind
  <2>3. ConfirmedLanded'
    BY <2>1 DEF IInv, ConfirmedLanded, Landed
  <2>4. IdsPublished'
    BY <2>1 DEF IInv, IdsPublished, TypeOK
  <2>5. CASE mem = None
    <3>1. floor' = head /\ cursor' = head /\ file = None
      BY <2>1, <2>5 DEF IInv, FileBehind
    <3>2. \A p \in Positions : p \in Int /\ 0 < p
      BY ConstantsAssumption DEF Positions
    <3>3. head \in Int /\ \A n \in pending : n.id \in Int /\ n.id =< head
      BY ConstantsAssumption DEF IInv, TypeOK, Message, IdsPublished
    <3>4. TrackedCovered'
      BY <2>1, <3>1, <3>2, <3>3 DEF TrackedCovered
    <3>5. ReceivedCovered'
      BY <3>1, <3>2, <3>3, <2>1 DEF ReceivedCovered
    <3>6. CheckpointCovered'
      BY <2>1, <2>5, <3>1, <3>2, <3>3 DEF CheckpointCovered, None
    <3> QED
      BY <1>0, <2>2, <2>3, <2>4, <3>4, <3>5, <3>6 DEF IInv
  <2>6. CASE mem # None
    <3>1. floor' = floor /\ cursor' = mem
      BY <2>1, <2>6
    <3>2. TrackedCovered'
      BY <2>1, <3>1 DEF IInv, TrackedCovered, Landed
    <3>3. CheckpointCovered'
      BY <2>1, <3>1 DEF IInv, CheckpointCovered, Landed
    <3>4. ReceivedCovered'
      BY <2>1, <3>1 DEF IInv, CheckpointCovered, ReceivedCovered, Landed
    <3> QED
      BY <1>0, <2>2, <2>3, <2>4, <3>2, <3>3, <3>4 DEF IInv
  <2> QED
    BY <2>5, <2>6
<1>8. CASE LeaveLoop \/ PollDone \/ WakeUp \/ SendBlocks
  <2>1. UNCHANGED <<head, kafka, file, mem, seq, pending, confirmed, inflight,
                    acked, failed, cursor, sid, floor>>
    BY <1>8 DEF LeaveLoop, Goto, PollDone, WakeUp, SendBlocks, broker, tracker, queue
  <2>2. /\ phase' = "down" => phase = "down"
        /\ phase' \in {"stream", "blocked", "poll"}
               => phase \in {"stream", "blocked", "poll"}
    BY <1>8 DEF LeaveLoop, Goto, PollDone, WakeUp, SendBlocks
  <2> QED
    BY <1>0, <2>1, <2>2, FrameStep
<1>9. CASE LoseConnection \/ StreamCloses \/ IdleTimeout \/ SendRefused
  <2>1. UNCHANGED <<head, kafka, file, mem, seq, pending, confirmed, inflight,
                    acked, failed, cursor, sid, floor>>
    BY <1>9 DEF LoseConnection, Goto, StreamCloses, IdleTimeout, SendRefused, broker,
                tracker, queue
  <2>2. phase' \in {"backoff", "connect"}
    BY <1>9 DEF LoseConnection, Goto, StreamCloses, IdleTimeout, SendRefused
  <2> QED
    BY <1>0, <2>1, <2>2, FrameStep
<1>10. CASE ReceiveIgnored
  <2>1. /\ phase = "stream" /\ phase' # "down"
        /\ cursor < head /\ cursor' = cursor + 1 /\ ~ Needed(cursor + 1)
        /\ sid' = StreamId(cursor + 1)
        /\ UNCHANGED <<head, kafka, file, mem, seq, pending, confirmed, inflight,
                       acked, failed, floor>>
    BY <1>10 DEF ReceiveIgnored, Consume, broker, tracker, queue
  <2>2. SeqUnique' /\ DownQueueEmpty' /\ FileBehind'
    BY <2>1 DEF IInv, SeqUnique, DownQueueEmpty, FileBehind
  <2>3. ConfirmedLanded' /\ TrackedCovered' /\ CheckpointCovered'
    BY <2>1 DEF IInv, ConfirmedLanded, TrackedCovered, CheckpointCovered, Landed
  <2>4. IdsPublished'
    BY <2>1 DEF IInv, IdsPublished, TypeOK, StreamId
  <2>5. ReceivedCovered'
    <3> SUFFICES ASSUME NEW p \in Positions, floor < p, p =< cursor + 1, Needed(p)
                 PROVE  Landed(p) \/ \E n \in pending : n.pos = p
      BY <2>1 DEF ReceivedCovered, Landed
    <3>1. p =< cursor
      BY <2>1, ConstantsAssumption DEF Positions, IInv, TypeOK
    <3> QED
      BY <2>1, <3>1 DEF IInv, ReceivedCovered
  <2> QED
    BY <1>0, <2>2, <2>3, <2>4, <2>5 DEF IInv
<1>11. CASE SendAccepted
  BY <1>0, <1>11, SendAcceptedStep
<1>12. CASE GiveUp
  BY <1>0, <1>12, FrameStep DEF GiveUp, broker, tracker, queue
<1>13. ASSUME NEW m \in acked, ServeAck(m) PROVE IInv'
  BY <1>0, <1>13, ServeAckStep
<1>14. ASSUME NEW m \in failed, ServeFail(m) PROVE IInv'
  <2>1. /\ failed' = failed \ {m}
        /\ UNCHANGED <<head, kafka, file, phase, mem, seq, pending, confirmed,
                       inflight, acked, cursor, sid, floor>>
    BY <1>14 DEF ServeFail, broker, tracker
  <2>2. SeqUnique' /\ DownQueueEmpty' /\ FileBehind' /\ IdsPublished'
    BY <2>1 DEF IInv, SeqUnique, DownQueueEmpty, FileBehind, IdsPublished
  <2>3. ConfirmedLanded' /\ TrackedCovered' /\ CheckpointCovered' /\ ReceivedCovered'
    BY <2>1 DEF IInv, ConfirmedLanded, TrackedCovered, CheckpointCovered,
                ReceivedCovered, Landed
  <2> QED
    BY <1>0, <2>2, <2>3 DEF IInv
<1>15. CASE Crash \/ Shutdown
  <2>1. /\ phase' = "down" /\ inflight' = {} /\ acked' = {} /\ failed' = {}
        /\ file' = file \/ file' = mem
        /\ UNCHANGED <<head, kafka, mem, seq, pending, confirmed, cursor, sid, floor>>
    BY <1>15 DEF Crash, Shutdown, Exit, broker, tracker
  <2>2. SeqUnique' /\ DownQueueEmpty' /\ FileBehind' /\ IdsPublished'
    BY <2>1 DEF IInv, SeqUnique, DownQueueEmpty, FileBehind, IdsPublished
  <2>3. ConfirmedLanded' /\ TrackedCovered' /\ ReceivedCovered'
    BY <2>1 DEF IInv, ConfirmedLanded, TrackedCovered, ReceivedCovered, Landed
  <2>4. CheckpointCovered'
    BY <2>1 DEF IInv, CheckpointCovered, Landed
  <2> QED
    BY <1>0, <2>2, <2>3, <2>4 DEF IInv
<1> QED
  BY <1>1, <1>2, <1>3, <1>4, <1>5, <1>6, <1>7, <1>8, <1>9, <1>10, <1>11, <1>12,
     <1>13, <1>14, <1>15 DEF Next, Environment, Loop

\* The initial state satisfies the inductive invariant.
LEMMA InvInit == Init => IInv
<1> SUFFICES ASSUME Init PROVE IInv
  OBVIOUS
<1>1. TypeOK
  BY TypeInit
<1>2. \A p \in Positions : ~ (p =< 0)
  BY ConstantsAssumption DEF Positions
<1>3. SeqUnique /\ DownQueueEmpty /\ ConfirmedLanded /\ TrackedCovered
  BY DEF Init, SeqUnique, DownQueueEmpty, ConfirmedLanded, TrackedCovered
<1>4. IdsPublished /\ ReceivedCovered /\ FileBehind
  BY DEF Init, IdsPublished, ReceivedCovered, FileBehind, None
<1>5. CheckpointCovered
  BY <1>2 DEF Init, CheckpointCovered, None
<1> QED
  BY <1>1, <1>3, <1>4, <1>5 DEF IInv

\* In every reachable state, whatever the stream, the order of confirmations
\* and the faults: the checkpoint in memory and the one on disk are only past
\* events that Kafka has.
THEOREM CheckpointSafe == Spec => []CheckpointCovered
<1>1. IInv => CheckpointCovered
  BY DEF IInv
<1> QED
  BY <1>1, InvInit, InvStep, PTL DEF Spec

\* With a checkpoint on disk the ingestor never again starts from the live
\* edge.
THEOREM StartNeverMoves == Spec => StartFixed
<1>1. IInv /\ [Next]_vars => [file # None => floor' = floor]_vars
  <2> SUFFICES ASSUME IInv, Next, file # None PROVE floor' = floor
    OBVIOUS
  <2>1. CASE Connect
    BY <2>1 DEF Connect, IInv, FileBehind
  <2>2. CASE Environment
    BY <2>2 DEF Environment, Publish, BrokerAck, BrokerFail, Stop, Crash
  <2>3. CASE Loop /\ ~ Connect
    BY <2>3 DEF Loop, Goto, LeaveLoop, ReceiveIgnored, SendBlocks, SendAccepted, ServeAck,
                ServeFail, PollDone, WakeUp, Shutdown, IdleTimeout
  <2>4. CASE Start \/ LoseConnection \/ StreamCloses \/ SendRefused \/ GiveUp
    BY <2>4 DEF Start, Goto, LoseConnection, StreamCloses, SendRefused, GiveUp
  <2> QED
    BY <2>1, <2>2, <2>3, <2>4 DEF Next
<1> QED
  BY <1>1, InvInit, InvStep, PTL DEF Spec, StartFixed
=============================================================================

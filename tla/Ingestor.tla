------------------------------ MODULE Ingestor ------------------------------
(***************************************************************************)
(* The ingestor (ingestor/main.py, ingestor/checkpoint.py, ingestor/sse.py)*)
(* reads the Wikimedia recentchange stream and writes every event to       *)
(* wiki.raw, or to wiki.dlq when it cannot be parsed.                      *)
(*                                                                         *)
(* One thread runs the loop; delivery callbacks only run inside poll() and *)
(* flush(), so the phases below are the places where that thread can be    *)
(* when something else (a broker, a signal, the network) takes a step.     *)
(* The stream is the sequence of positions 1..StreamLen; an event id is    *)
(* the position it names and None stands for "no id".                      *)
(***************************************************************************)
EXTENDS Integers, FiniteSets

CONSTANTS
    StreamLen,   \* bound: how many SSE blocks the stream ever publishes
    Kind,        \* what each block is: see Kinds
    WithId,      \* the blocks that carry an id: field of their own
    QueueCap,    \* messages librdkafka's local queue holds
    SaveEvery,   \* SAVE_EVERY
    MaxFaults,   \* bound: how many faults (see FaultBudget) happen at all
    MaxSeq       \* bound: how many messages one process produces

Positions == 1..StreamLen

\* edit: parses and has meta.id; bad: raises ParseError; error: an SSE
\* "error" event; blank: a block without data lines, never yielded.
Kinds == {"edit", "bad", "error", "blank"}

ASSUME ConstantsAssumption ==
    /\ StreamLen \in Nat
    /\ Kind \in [Positions -> Kinds]
    /\ WithId \subseteq Positions
    /\ QueueCap \in Nat \ {0}
    /\ SaveEvery \in Nat \ {0}
    /\ MaxFaults \in Nat
    /\ MaxSeq \in Nat

None == 0

VARIABLES
    head,        \* live edge: the last position the stream has published
    kafka,       \* <<topic, position>> pairs the brokers hold
    file,        \* last_event_id in the checkpoint file
    phase,       \* where the ingestor's thread is; "down" when there is none
    mem,         \* checkpoint.last_event_id
    unsaved,     \* _unsaved
    running,     \* self.running
    failure,     \* self.failure is not None
    seq,         \* self.seq
    pending,     \* tracker._pending: a set, since its seq gives its order
    confirmed,   \* tracker._confirmed
    inflight,    \* accepted by produce(), no answer from the brokers yet
    acked,       \* delivered, callback not served yet
    failed,      \* delivery failed, callback not served yet
    cursor,      \* last position received on the current connection
    sid,         \* parser.event_id of the current connection
    faults,      \* how many faults have happened
    floor        \* history: live edge of the last connection without a header

broker  == <<head, kafka>>
tracker == <<pending, confirmed>>
queue   == <<inflight, acked, failed>>
vars == <<head, kafka, file, phase, mem, unsaved, running, failure, seq,
          pending, confirmed, inflight, acked, failed, cursor, sid, faults,
          floor>>

Phases == {"down", "connect", "stream", "blocked", "poll", "backoff", "draining"}
Topics == {"raw", "dlq"}
Message == [seq : Nat, pos : Positions, id : 0..StreamLen]

(***************************************************************************)
(* Which events end up in Kafka, and where: handle().                      *)
(***************************************************************************)
TopicOf(p) == IF Kind[p] = "edit" THEN "raw" ELSE "dlq"
Needed(p)  == Kind[p] \in {"edit", "bad"}
Landed(p)  == <<TopicOf(p), p>> \in kafka

Init ==
    /\ head = 0
    /\ kafka = {}
    /\ file = None
    /\ phase = "down"
    /\ mem = None
    /\ unsaved = 0
    /\ running = FALSE
    /\ failure = FALSE
    /\ seq = 0
    /\ pending = {}
    /\ confirmed = {}
    /\ inflight = {}
    /\ acked = {}
    /\ failed = {}
    /\ cursor = 0
    /\ sid = None
    /\ faults = 0
    /\ floor = 0

-----------------------------------------------------------------------------
(***************************************************************************)
(* The environment: the stream, the brokers, signals and crashes.          *)
(***************************************************************************)

\* Every lost connection, refused send, failed delivery, give-up, stop signal
\* and crash spends one unit, so that a behaviour has finitely many of them.
FaultBudget == faults < MaxFaults /\ faults' = faults + 1

Publish ==
    /\ head < StreamLen
    /\ head' = head + 1
    /\ UNCHANGED <<kafka, file, phase, mem, unsaved, running, failure, seq,
                   tracker, queue, cursor, sid, faults, floor>>

\* acks=all and idempotence: the message is on every in-sync replica, once.
BrokerAck(m) ==
    /\ m \in inflight
    /\ inflight' = inflight \ {m}
    /\ acked' = acked \union {m}
    /\ kafka' = kafka \union {<<TopicOf(m.pos), m.pos>>}
    /\ UNCHANGED <<head, file, phase, mem, unsaved, running, failure, seq,
                   tracker, failed, cursor, sid, faults, floor>>

\* The delivery timeout passed. The write may still have happened, with its
\* acknowledgement lost.
BrokerFail(m, written) ==
    /\ FaultBudget
    /\ m \in inflight
    /\ inflight' = inflight \ {m}
    /\ failed' = failed \union {m}
    /\ kafka' = IF written THEN kafka \union {<<TopicOf(m.pos), m.pos>>}
                           ELSE kafka
    /\ UNCHANGED <<head, file, phase, mem, unsaved, running, failure, seq,
                   tracker, acked, cursor, sid, floor>>

\* SIGINT or SIGTERM: stop() only sets the flag.
Stop ==
    /\ FaultBudget
    /\ phase # "down"
    /\ running
    /\ running' = FALSE
    /\ UNCHANGED <<broker, file, phase, mem, unsaved, failure, seq, tracker,
                   queue, cursor, sid, floor>>

\* What the process loses when it ends, whichever way it ends.
Exit ==
    /\ phase' = "down"
    /\ running' = FALSE
    /\ inflight' = {}
    /\ acked' = {}
    /\ failed' = {}

\* The process dies. The checkpoint file is replaced atomically, so it holds
\* either its old or its new content.
Crash ==
    /\ FaultBudget
    /\ phase # "down"
    /\ Exit
    /\ UNCHANGED <<broker, file, mem, unsaved, failure, seq, tracker, cursor,
                   sid, floor>>

-----------------------------------------------------------------------------
(***************************************************************************)
(* The ingestor.                                                           *)
(***************************************************************************)

\* Checkpoint.load. Mutant: the saved id is not read back.
MutantLoadCheckpoint == None
LoadCheckpoint == file

\* __init__ of Ingestor and DeliveryTracker.
Start ==
    /\ phase = "down"
    /\ phase' = "connect"
    /\ mem' = LoadCheckpoint
    /\ unsaved' = 0
    /\ running' = TRUE
    /\ failure' = FALSE
    /\ seq' = 0
    /\ pending' = {}
    /\ confirmed' = {}
    /\ cursor' = 0
    /\ sid' = None
    /\ UNCHANGED <<broker, file, queue, faults, floor>>

\* resume_header: the server goes on after Last-Event-ID; without one it starts
\* at the live edge. Mutant: it resumes one event too late.
MutantResumeAfter == IF mem \in {None, head} THEN head ELSE mem + 1
ResumeAfter == IF mem = None THEN head ELSE mem

\* run: open the stream. A new parser knows no id yet.
Connect ==
    /\ phase = "connect"
    /\ running
    /\ phase' = "stream"
    /\ cursor' = ResumeAfter
    /\ floor' = IF mem = None THEN head ELSE floor
    /\ sid' = None
    /\ UNCHANGED <<broker, file, mem, unsaved, running, failure, seq, tracker,
                   queue, faults>>

\* Only the place of the thread changes.
Goto(place) ==
    /\ phase' = place
    /\ UNCHANGED <<broker, file, mem, unsaved, running, failure, seq, tracker,
                   queue, cursor, sid, floor>>

\* run: the flag was cleared before the next connection was made.
LeaveLoop ==
    /\ phase = "connect"
    /\ ~running
    /\ Goto("draining")
    /\ UNCHANGED faults

\* The connection cannot be opened, or breaks between two events: a
\* RequestException, so the loop polls and sleeps before it tries again.
LoseConnection ==
    /\ FaultBudget
    /\ phase \in {"connect", "stream"}
    /\ Goto("backoff")

\* The server closed the stream: no exception, no poll, no sleep.
StreamCloses ==
    /\ FaultBudget
    /\ phase = "stream"
    /\ Goto("connect")

\* stream_events: no line within the read timeout of 60 s, also a
\* RequestException. The brokers answer sooner than that unless they are at
\* fault.
IdleTimeout ==
    /\ phase = "stream"
    /\ cursor = head
    /\ IF inflight = {} THEN UNCHANGED faults ELSE FaultBudget
    /\ Goto("backoff")

\* SSEParser: a block without an id: field keeps the id before it.
StreamId(p) == IF p \in WithId THEN p ELSE sid

\* The block at p is dealt with: the next one is read after it. Mutant: the
\* block after it is taken as read too.
MutantConsume(p) == cursor' = p + 1 /\ sid' = StreamId(p)
Consume(p) ==
    /\ cursor' = p
    /\ sid' = StreamId(p)

\* feed and _flush drop a block without data; handle ignores an "error" event
\* but the poll(0) after it still runs.
ReceiveIgnored ==
    /\ phase = "stream"
    /\ cursor < head
    /\ ~Needed(cursor + 1)
    /\ Consume(cursor + 1)
    /\ phase' = IF Kind[cursor + 1] = "blank" THEN "stream" ELSE "poll"
    /\ UNCHANGED <<broker, file, mem, unsaved, running, failure, seq, tracker,
                   queue, faults, floor>>

Queued == Cardinality(inflight) + Cardinality(acked) + Cardinality(failed)
QueueFull == Queued >= QueueCap

\* handle and _send: control is at the produce() call for the event at
\* cursor + 1, on its first attempt or after a poll inside _send's loop.
AtProduce ==
    /\ phase \in {"stream", "blocked"}
    /\ cursor < head
    /\ Needed(cursor + 1)

\* produce() raised BufferError for the first time.
SendBlocks ==
    /\ AtProduce
    /\ phase = "stream"
    /\ QueueFull
    /\ Goto("blocked")
    /\ UNCHANGED faults

\* produce() accepted the message and it joins the tracker. Neither step looks
\* at the running flag.
SendAccepted ==
    /\ AtProduce
    /\ ~QueueFull
    /\ seq < MaxSeq
    /\ LET m == [seq |-> seq + 1, pos |-> cursor + 1, id |-> StreamId(cursor + 1)]
       IN /\ seq' = m.seq
          /\ pending' = pending \union {m}
          /\ inflight' = inflight \union {m}
    /\ Consume(cursor + 1)
    /\ phase' = "poll"
    /\ UNCHANGED <<broker, file, mem, unsaved, running, failure, confirmed,
                   acked, failed, faults, floor>>

\* produce() raised a KafkaException, which run() treats as a lost connection.
SendRefused ==
    /\ FaultBudget
    /\ AtProduce
    /\ Goto("backoff")

\* The queue is still full and the flag is cleared or QUEUE_FULL_GIVE_UP_SEC
\* have passed: a failure, unless one was recorded before. The event is never
\* registered.
GiveUp ==
    /\ AtProduce
    /\ phase = "blocked"
    /\ QueueFull
    /\ IF running THEN FaultBudget ELSE UNCHANGED faults
    /\ failure' = TRUE
    /\ running' = FALSE
    /\ phase' = "poll"
    /\ UNCHANGED <<broker, file, mem, unsaved, seq, tracker, queue, cursor,
                   sid, floor>>

\* The thread is in poll() or flush(): after each event, in _send's wait, in
\* _sleep before another connection attempt, or in shutdown.
Polling == phase \in {"poll", "blocked", "backoff", "draining"}

\* DeliveryTracker.confirm: the longest confirmed prefix, in produce order.
\* Mutant: whatever is confirmed.
MutantReleased(conf) == {m \in pending : m.seq \in conf}
Released(conf) ==
    {m \in pending : \A n \in pending : n.seq =< m.seq => n.seq \in conf}

\* confirm and Checkpoint.advance: the newest id among the released messages.
AdvanceTo(released) ==
    LET named == {m \in released : m.id # None}
    IN IF named = {}
       THEN mem' = mem
       ELSE \E m \in named : /\ \A n \in named : n.seq =< m.seq
                             /\ mem' = m.id

\* _maybe_save: due by count, or by a timer that may have run out.
MaybeSave(total) ==
    \E timer \in BOOLEAN :
        IF total > 0 /\ (total >= SaveEvery \/ timer)
        THEN file' = mem' /\ unsaved' = 0
        ELSE file' = file /\ unsaved' = total

\* _on_delivery without an error.
ServeAck(m) ==
    /\ Polling
    /\ m \in acked
    /\ acked' = acked \ {m}
    /\ LET conf == confirmed \union {m.seq}
           released == Released(conf)
       IN /\ pending' = pending \ released
          /\ confirmed' = conf \ {n.seq : n \in released}
          /\ AdvanceTo(released)
          /\ MaybeSave(unsaved + Cardinality(released))
    /\ UNCHANGED <<broker, phase, running, failure, seq, inflight, failed,
                   cursor, sid, faults, floor>>

\* _on_delivery with an error: never confirmed, and the ingestor stops.
\* Mutant: it carries on.
MutantServeFail(m) ==
    /\ Polling
    /\ m \in failed
    /\ failed' = failed \ {m}
    /\ failure' = TRUE
    /\ UNCHANGED <<broker, file, phase, mem, unsaved, running, seq, tracker,
                   inflight, acked, cursor, sid, faults, floor>>

ServeFail(m) ==
    /\ Polling
    /\ m \in failed
    /\ failed' = failed \ {m}
    /\ failure' = TRUE
    /\ running' = FALSE
    /\ UNCHANGED <<broker, file, phase, mem, unsaved, seq, tracker, inflight,
                   acked, cursor, sid, faults, floor>>

\* poll(0) served every callback there was; then the loop looks at the flag.
PollDone ==
    /\ phase = "poll"
    /\ acked = {} /\ failed = {}
    /\ Goto(IF running THEN "stream" ELSE "draining")
    /\ UNCHANGED faults

\* _sleep polls until the time is up or the flag is cleared; run() looks at the
\* flag next, in Connect or LeaveLoop.
WakeUp ==
    /\ phase = "backoff"
    /\ acked = {} /\ failed = {}
    /\ Goto("connect")
    /\ UNCHANGED faults

\* shutdown: flush(30) returned, with the queue empty or the time up; then the
\* last save and the end of the process.
Shutdown ==
    /\ phase = "draining"
    /\ file' = IF unsaved > 0 THEN mem ELSE file
    /\ Exit
    /\ UNCHANGED <<broker, mem, unsaved, failure, seq, tracker, cursor, sid,
                   faults, floor>>

-----------------------------------------------------------------------------
Environment ==
    \/ Publish
    \/ \E m \in inflight : BrokerAck(m)
    \/ \E m \in inflight, written \in BOOLEAN : BrokerFail(m, written)
    \/ Stop
    \/ Crash

Loop ==
    \/ Connect
    \/ LeaveLoop
    \/ ReceiveIgnored
    \/ SendBlocks
    \/ SendAccepted
    \/ \E m \in acked : ServeAck(m)
    \/ \E m \in failed : ServeFail(m)
    \/ PollDone
    \/ WakeUp
    \/ Shutdown
    \/ IdleTimeout

Next ==
    \/ Environment
    \/ Start
    \/ Loop
    \/ LoseConnection
    \/ StreamCloses
    \/ SendRefused
    \/ GiveUp

Spec == Init /\ [][Next]_vars

\* The thread keeps running, the brokers answer what they were sent, and
\* whoever supervises the process starts it again when it has ended.
FairSpec ==
    /\ Spec
    /\ WF_vars(Loop)
    /\ WF_vars(\E m \in inflight : BrokerAck(m))
    /\ WF_vars(Start)

-----------------------------------------------------------------------------
(***************************************************************************)
(* Properties.                                                             *)
(***************************************************************************)

TypeOK ==
    /\ head \in 0..StreamLen
    /\ kafka \subseteq Topics \X Positions
    /\ file \in 0..StreamLen
    /\ phase \in Phases
    /\ mem \in 0..StreamLen
    /\ unsaved \in Nat
    /\ running \in BOOLEAN
    /\ failure \in BOOLEAN
    /\ seq \in Nat
    /\ pending \subseteq Message /\ IsFiniteSet(pending)
    /\ confirmed \subseteq Nat
    /\ inflight \subseteq Message
    /\ acked \subseteq Message
    /\ failed \subseteq Message
    /\ cursor \in 0..StreamLen
    /\ sid \in 0..StreamLen
    /\ faults \in Nat
    /\ floor \in 0..StreamLen

\* "The checkpoint may only move to an event whose predecessors are all
\* confirmed": every event between the last live-edge start and the checkpoint,
\* in memory (where a reconnect resumes) or in the file (where a restart
\* resumes), is in Kafka, whatever order the deliveries were confirmed in.
CheckpointCovered ==
    \A p \in Positions :
        floor < p /\ (p =< mem \/ p =< file) /\ Needed(p) => Landed(p)

\* Once a checkpoint is on disk, no restart and no reconnect goes back to the
\* live edge: the stretch CheckpointCovered speaks of keeps its lower end.
StartFixed == [][file # None => floor' = floor]_vars

\* Every event published after the live edge the ingestor started from is
\* eventually in Kafka, through any finite number of faults.
EventuallyLanded ==
    \A p \in Positions :
        p =< head /\ Needed(p) /\ floor < p ~> (Landed(p) \/ p =< floor)

\* A failed delivery stops the ingestor: the process always gets to its end,
\* even with deliveries stuck in the queue.
FailureStops == failure ~> phase = "down"
=============================================================================

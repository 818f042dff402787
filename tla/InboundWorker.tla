--------------------------- MODULE InboundWorker ---------------------------
(***************************************************************************)
(* The inbound half of the Gateway <-> Agent Core queue: the processes     *)
(* that read user messages from Redis Streams with one consumer group and  *)
(* answer each of them with an agent turn (queue/inbound_worker.py and     *)
(* queue/redis_stream.py of the backend).                                  *)
(*                                                                         *)
(* A worker is one process: a consume loop, a FIFO asyncio.Semaphore of    *)
(* MaxConcurrency permits, one FIFO asyncio.Lock per session and a task    *)
(* per message.  Every await of the code separates two actions; what lies  *)
(* between two awaits runs in one step of the event loop.                  *)
(***************************************************************************)
EXTENDS Integers, Sequences, FiniteSets

CONSTANTS
    Workers,        \* Agent Core processes, each a consumer of the group
    Messages,       \* user messages the Gateway may write
    Sessions,       \* chat sessions
    NumStreams,     \* how many stream keys are subscribed
    SessionOf,      \* SessionOf[m]: field sessionId
    StreamOf,       \* StreamOf[m]: the stream the Gateway writes m to
    Blank,          \* messages whose content is empty once stripped
    MaxConcurrency, \* INBOUND_MAX_CONCURRENCY
    ReadCount,      \* INBOUND_READ_COUNT
    MaxHalts,       \* bound: how many times a process stops or dies
    None            \* no owner

Streams == 1 .. NumStreams  \* the stream keys, in their sorted order

ASSUME InboundAssumption ==
    /\ NumStreams \in Nat
    /\ SessionOf \in [Messages -> Sessions]
    /\ StreamOf \in [Messages -> Streams]
    /\ MaxConcurrency \in Nat \ {0}
    /\ ReadCount \in Nat \ {0}
    /\ MaxHalts \in Nat
    /\ None \notin Messages \cup Workers
    /\ IsFiniteSet(Messages)

VARIABLES
    \* Redis: the streams, the consumer group, the answers, the sessions
    entry,      \* entry[m]: the position of m in its stream, 0 if not there
    length,     \* length[k]: how many entries stream k has had
    grouped,    \* streams on which the consumer group exists
    cursor,     \* cursor[k]: the last entry of k the group has passed
    reader,     \* reader[m]: the consumer m was delivered to
    out,        \* out[m]: what stream:agent:events carries in answer to m
    transcript, \* transcript[s]: the messages stored in session s
    \* the processes
    loop,       \* loop[w]: where the consume loop of w is
    permits,    \* permits[w]: the value of the semaphore
    permitQ,    \* permitQ[w]: tasks waiting for a permit, oldest first
    lockOwner,  \* lockOwner[w][s]: the task holding the lock of session s
    lockQ,      \* lockQ[w][s]: tasks waiting for it, oldest first
    stage,      \* stage[m]: how far m has come
    halts       \* how often a process has stopped

stream == <<entry, length, grouped, cursor, reader>>
locks == <<permits, permitQ, lockOwner, lockQ>>
vars == <<stream, out, transcript, loop, locks, stage, halts>>

-----------------------------------------------------------------------------
(* A message is unsent, sent (in a stream), fetched (in a reply the loop   *)
(* has not spawned yet), and then goes through the stages of its task.  A  *)
(* settled message is acked, or stranded: delivered, never acknowledged,   *)
(* and with no task left.  Reads ask for ">" only, so a stranded message   *)
(* stays in the pending entries list and nobody sees it again.             *)
(***************************************************************************)
Critical == {"begin", "recorded", "failing", "running", "drained", "reply", "ack"}
Permitted == Critical \cup {"lock"}
InFlight == Permitted \cup {"permit"}
Settled == {"acked", "stranded"}
Stages == {"unsent", "sent", "fetched"} \cup InFlight \cup Settled

Inflight(w) == {m \in Messages : reader[m] = w /\ stage[m] \in InFlight}
Holding(w) == {m \in Messages : reader[m] = w /\ stage[m] \in Permitted}
FetchedBy(w) == {m \in Messages : reader[m] = w /\ stage[m] = "fetched"}

Turn == [who : {"user", "assistant"}, msg : Messages]

TypeOK ==
    /\ entry \in [Messages -> Nat]
    /\ length \in [Streams -> Nat]
    /\ grouped \subseteq Streams
    /\ cursor \in [Streams -> Nat]
    /\ reader \in [Messages -> Workers \cup {None}]
    /\ out \in [Messages -> Seq({"text", "error", "done"})]
    /\ transcript \in [Sessions -> Seq(Turn)]
    /\ loop \in [Workers -> {"off", "gate", "reading", "spawning"}]
    /\ permits \in [Workers -> Nat]
    /\ permitQ \in [Workers -> Seq(Messages)]
    /\ lockOwner \in [Workers -> [Sessions -> Messages \cup {None}]]
    /\ lockQ \in [Workers -> [Sessions -> Seq(Messages)]]
    /\ stage \in [Messages -> Stages]
    /\ halts \in 0 .. MaxHalts

Init ==
    /\ entry = [m \in Messages |-> 0]
    /\ length = [k \in Streams |-> 0]
    /\ grouped = {}
    /\ cursor = [k \in Streams |-> 0]
    /\ reader = [m \in Messages |-> None]
    /\ out = [m \in Messages |-> <<>>]
    /\ transcript = [s \in Sessions |-> <<>>]
    /\ loop = [w \in Workers |-> "off"]
    /\ permits = [w \in Workers |-> MaxConcurrency]
    /\ permitQ = [w \in Workers |-> <<>>]
    /\ lockOwner = [w \in Workers |-> [s \in Sessions |-> None]]
    /\ lockQ = [w \in Workers |-> [s \in Sessions |-> <<>>]]
    /\ stage = [m \in Messages |-> "unsent"]
    /\ halts = 0

-----------------------------------------------------------------------------
(* The Gateway writes m with XADD.                                         *)
Publish(m) ==
    /\ stage[m] = "unsent"
    /\ stage' = [stage EXCEPT ![m] = "sent"]
    /\ length' = [length EXCEPT ![StreamOf[m]] = @ + 1]
    /\ entry' = [entry EXCEPT ![m] = length[StreamOf[m]] + 1]
    /\ UNCHANGED <<grouped, cursor, reader, out, transcript, loop, locks, halts>>

\* Mutant: every start moves the group behind what it has not read yet.
StartAtEnd(w) ==
    /\ loop[w] = "off"
    /\ loop' = [loop EXCEPT ![w] = "gate"]
    /\ grouped' = Streams
    /\ cursor' = [k \in Streams |-> length[k]]
    /\ UNCHANGED <<entry, length, reader, out, transcript, locks, stage, halts>>

\* Mutant: every start creates the group afresh, with id "0".
StartFromZero(w) ==
    /\ loop[w] = "off"
    /\ loop' = [loop EXCEPT ![w] = "gate"]
    /\ grouped' = Streams
    /\ cursor' = [k \in Streams |-> 0]
    /\ UNCHANGED <<entry, length, reader, out, transcript, locks, stage, halts>>

(* start(): XGROUP CREATE with id "$" puts a new group behind everything   *)
(* the stream already holds; where the group exists it answers BUSYGROUP.  *)
Start(w) ==
    /\ loop[w] = "off"
    /\ loop' = [loop EXCEPT ![w] = "gate"]
    /\ grouped' = Streams
    /\ cursor' = [k \in Streams |-> IF k \in grouped THEN cursor[k] ELSE length[k]]
    /\ UNCHANGED <<entry, length, reader, out, transcript, locks, stage, halts>>

\* Mutant: the loop reads without looking at the tasks in flight.
PassGateAlways(w) ==
    /\ loop[w] = "gate"
    /\ loop' = [loop EXCEPT ![w] = "reading"]
    /\ UNCHANGED <<stream, out, transcript, locks, stage, halts>>

(* Back-pressure: no read while MaxConcurrency tasks are in flight.        *)
PassGate(w) ==
    /\ loop[w] = "gate"
    /\ Cardinality(Inflight(w)) < MaxConcurrency
    /\ loop' = [loop EXCEPT ![w] = "reading"]
    /\ UNCHANGED <<stream, out, transcript, locks, stage, halts>>

(* XREADGROUP ">" COUNT ReadCount hands out up to ReadCount new entries of *)
(* every stream at once; a read that finds none blocks.  The reply is an   *)
(* await away from the tasks it becomes.                                   *)
ReadLimit(k) ==
    IF length[k] < cursor[k] + ReadCount THEN length[k] ELSE cursor[k] + ReadCount

NewEntries ==
    {m \in Messages : cursor[StreamOf[m]] < entry[m] /\ entry[m] <= ReadLimit(StreamOf[m])}

Deliver(w, to) ==
    /\ loop[w] = "reading"
    /\ NewEntries # {}
    /\ cursor' = [k \in Streams |-> ReadLimit(k)]
    /\ reader' = [m \in Messages |-> IF m \in NewEntries THEN w ELSE reader[m]]
    /\ stage' = [m \in Messages |-> IF m \in NewEntries THEN to ELSE stage[m]]
    /\ UNCHANGED <<entry, length, grouped, out, transcript, locks, halts>>

Read(w) ==
    /\ Deliver(w, "fetched")
    /\ loop' = [loop EXCEPT ![w] = "spawning"]

(* The reply is lost on the way: the connection breaks or the socket times *)
(* out.  The loop goes on, the group has passed the entries.               *)
LoseReply(w) ==
    /\ Deliver(w, "stranded")
    /\ loop' = [loop EXCEPT ![w] = "gate"]

(* The reply lists the streams in key order, each in entry order.          *)
NextInReply(w, m) ==
    /\ m \in FetchedBy(w)
    /\ \A n \in FetchedBy(w) \ {m} :
        \/ StreamOf[m] < StreamOf[n]
        \/ StreamOf[m] = StreamOf[n] /\ entry[m] < entry[n]

(* _spawn_handler: the task of m starts by queueing for a permit.          *)
Spawn(w, m) ==
    /\ loop[w] = "spawning"
    /\ NextInReply(w, m)
    /\ stage' = [stage EXCEPT ![m] = "permit"]
    /\ permitQ' = [permitQ EXCEPT ![w] = Append(@, m)]
    /\ loop' = [loop EXCEPT ![w] = IF FetchedBy(w) = {m} THEN "gate" ELSE "spawning"]
    /\ UNCHANGED <<stream, out, transcript, permits, lockOwner, lockQ, halts>>

(* parse_inbound_fields raises, at an entry whose metadata is no JSON: the  *)
(* loop goes on without that entry and without the rest of the reply.      *)
BreakReply(w) ==
    /\ loop[w] = "spawning"
    /\ loop' = [loop EXCEPT ![w] = "gate"]
    /\ stage' = [m \in Messages |-> IF m \in FetchedBy(w) THEN "stranded" ELSE stage[m]]
    /\ UNCHANGED <<stream, out, transcript, locks, halts>>

-----------------------------------------------------------------------------
(* async with self._semaphore, then async with the session lock: a free    *)
(* resource goes to the task that has waited longest.  A task keeps its    *)
(* permit while it waits for the lock.                                     *)
AcquirePermit(w) ==
    /\ permits[w] > 0
    /\ permitQ[w] # <<>>
    /\ LET m == Head(permitQ[w]) IN
        /\ stage' = [stage EXCEPT ![m] = "lock"]
        /\ lockQ' = [lockQ EXCEPT ![w][SessionOf[m]] = Append(@, m)]
    /\ permits' = [permits EXCEPT ![w] = @ - 1]
    /\ permitQ' = [permitQ EXCEPT ![w] = Tail(@)]
    /\ UNCHANGED <<stream, out, transcript, loop, lockOwner, halts>>

\* Mutant: the session lock is taken although another task holds it.
BargeIn(w, s) ==
    /\ lockQ[w][s] # <<>>
    /\ LET m == Head(lockQ[w][s]) IN
        /\ stage' = [stage EXCEPT ![m] = "begin"]
        /\ lockOwner' = [lockOwner EXCEPT ![w][s] = m]
    /\ lockQ' = [lockQ EXCEPT ![w][s] = Tail(@)]
    /\ UNCHANGED <<stream, out, transcript, loop, permits, permitQ, halts>>

\* Mutant: the lock goes to the task that asked for it last.
AcquireNewest(w, s) ==
    /\ lockOwner[w][s] = None
    /\ lockQ[w][s] # <<>>
    /\ LET m == lockQ[w][s][Len(lockQ[w][s])] IN
        /\ stage' = [stage EXCEPT ![m] = "begin"]
        /\ lockOwner' = [lockOwner EXCEPT ![w][s] = m]
    /\ lockQ' = [lockQ EXCEPT ![w][s] = SubSeq(@, 1, Len(@) - 1)]
    /\ UNCHANGED <<stream, out, transcript, loop, permits, permitQ, halts>>

AcquireSession(w, s) ==
    /\ lockOwner[w][s] = None
    /\ lockQ[w][s] # <<>>
    /\ LET m == Head(lockQ[w][s]) IN
        /\ stage' = [stage EXCEPT ![m] = "begin"]
        /\ lockOwner' = [lockOwner EXCEPT ![w][s] = m]
    /\ lockQ' = [lockQ EXCEPT ![w][s] = Tail(@)]
    /\ UNCHANGED <<stream, out, transcript, loop, permits, permitQ, halts>>

\* Mutant: only the session lock is given back.
ReleaseLockOnly(m) ==
    /\ lockOwner' = [lockOwner EXCEPT ![reader[m]][SessionOf[m]] = None]
    /\ UNCHANGED <<permits, permitQ, lockQ>>

\* Mutant: only the permit is given back.
ReleasePermitOnly(m) ==
    /\ permits' = [permits EXCEPT ![reader[m]] = @ + 1]
    /\ UNCHANGED <<permitQ, lockOwner, lockQ>>

(* Leaving both "async with" blocks.                                       *)
Release(m) ==
    /\ lockOwner' = [lockOwner EXCEPT ![reader[m]][SessionOf[m]] = None]
    /\ permits' = [permits EXCEPT ![reader[m]] = @ + 1]
    /\ UNCHANGED <<permitQ, lockQ>>

-----------------------------------------------------------------------------
(* _process_inbound, from one await that changes state to the next.        *)

Step(m, from, to) ==
    /\ stage[m] = from
    /\ stage' = [stage EXCEPT ![m] = to]

Emit(m, event) == out' = [out EXCEPT ![m] = Append(@, event)]
Store(m, who) ==
    transcript' = [transcript EXCEPT ![SessionOf[m]] = Append(@, [who |-> who, msg |-> m])]

SkipBlank(m) ==
    /\ m \in Blank
    /\ Step(m, "begin", "ack")
    /\ UNCHANGED <<stream, out, transcript, loop, locks, halts>>

(* Session found or created, then add_message(role = "user").              *)
RecordUser(m) ==
    /\ m \notin Blank
    /\ Step(m, "begin", "recorded")
    /\ Store(m, "user")
    /\ UNCHANGED <<stream, out, loop, locks, halts>>

(* ensure_agent_ready                                                      *)
AgentReady(m) ==
    /\ Step(m, "recorded", "running")
    /\ UNCHANGED <<stream, out, transcript, loop, locks, halts>>

(* _publish_error publishes "error" and then, an await later, "done".      *)
(* It answers a session without agent, AgentNotFoundError and, around the  *)
(* event stream, asyncio.timeout and any exception; these two can still    *)
(* strike while the last event of the stream, "done", is being published.  *)
Fail(m) ==
    /\ m \notin Blank
    /\ \E from \in {"begin", "recorded", "running", "drained"} : Step(m, from, "failing")
    /\ Emit(m, "error")
    /\ UNCHANGED <<stream, transcript, loop, locks, halts>>

\* Mutant: _publish_error stops after "error".
FinishQuietly(m) ==
    /\ Step(m, "failing", "ack")
    /\ UNCHANGED <<stream, out, transcript, loop, locks, halts>>

FinishFailure(m) ==
    /\ Step(m, "failing", "ack")
    /\ Emit(m, "done")
    /\ UNCHANGED <<stream, transcript, loop, locks, halts>>

(* Events of the turn.  Bound: the deltas are one "text".                  *)
StreamText(m) ==
    /\ stage[m] = "running" /\ out[m] = <<>>
    /\ Emit(m, "text")
    /\ UNCHANGED <<stream, transcript, loop, locks, stage, halts>>

StreamDone(m) ==
    /\ Step(m, "running", "drained")
    /\ Emit(m, "done")
    /\ UNCHANGED <<stream, transcript, loop, locks, halts>>

HasText(m) == \E i \in DOMAIN out[m] : out[m][i] = "text"

EndStream(m) ==
    /\ Step(m, "drained", IF HasText(m) THEN "reply" ELSE "ack")
    /\ UNCHANGED <<stream, out, transcript, loop, locks, halts>>

(* add_message(role = "assistant")                                         *)
RecordReply(m) ==
    /\ Step(m, "reply", "ack")
    /\ Store(m, "assistant")
    /\ UNCHANGED <<stream, out, loop, locks, halts>>

Ack(m) ==
    /\ Step(m, "ack", "acked")
    /\ Release(m)
    /\ UNCHANGED <<stream, out, transcript, loop, halts>>

(* Any other exception (of the session store, of ensure_agent_ready, of    *)
(* _publish_error itself, of XACK) is logged, and the message is left      *)
(* unacknowledged.                                                         *)
Abandon(m) ==
    /\ \E from \in Critical : Step(m, from, "stranded")
    /\ m \in Blank => stage[m] = "ack"
    /\ Release(m)
    /\ UNCHANGED <<stream, out, transcript, loop, halts>>

Handle(m) ==
    \/ SkipBlank(m) \/ RecordUser(m) \/ AgentReady(m)
    \/ StreamText(m) \/ StreamDone(m) \/ EndStream(m) \/ RecordReply(m)
    \/ Fail(m) \/ FinishFailure(m) \/ Ack(m) \/ Abandon(m)

(* stop() cancels the loop and every task; a crash loses them.  Either way *)
(* what was read and not acknowledged is stranded.                         *)
Halt(w) ==
    /\ loop[w] # "off"
    /\ halts < MaxHalts
    /\ halts' = halts + 1
    /\ loop' = [loop EXCEPT ![w] = "off"]
    /\ stage' = [m \in Messages |->
                    IF m \in Inflight(w) \cup FetchedBy(w) THEN "stranded" ELSE stage[m]]
    /\ permits' = [permits EXCEPT ![w] = MaxConcurrency]
    /\ permitQ' = [permitQ EXCEPT ![w] = <<>>]
    /\ lockOwner' = [lockOwner EXCEPT ![w] = [s \in Sessions |-> None]]
    /\ lockQ' = [lockQ EXCEPT ![w] = [s \in Sessions |-> <<>>]]
    /\ UNCHANGED <<stream, out, transcript>>

Consume(w) ==
    \/ Start(w) \/ PassGate(w) \/ Read(w) \/ LoseReply(w) \/ BreakReply(w)
    \/ \E m \in Messages : Spawn(w, m)

Next ==
    \/ \E m \in Messages : Publish(m) \/ Handle(m)
    \/ \E w \in Workers :
        \/ Consume(w) \/ AcquirePermit(w) \/ Halt(w)
        \/ \E s \in Sessions : AcquireSession(w, s)

Spec == Init /\ [][Next]_vars

(* The event loop runs every ready task; asyncio.timeout ends a turn and   *)
(* the socket timeouts end a call of Redis.  Users need not write, and     *)
(* nothing forces a process to stop.                                       *)
Fairness ==
    /\ \A w \in Workers :
        /\ WF_vars(Consume(w))
        /\ WF_vars(AcquirePermit(w))
        /\ \A s \in Sessions : WF_vars(AcquireSession(w, s))
    /\ \A m \in Messages : WF_vars(Handle(m))

FairSpec == Spec /\ Fairness

-----------------------------------------------------------------------------
(* "同一 session 严格串行": in one process no two tasks work on the same   *)
(* session at once, whatever the streams they came from.                   *)
SessionSerial ==
    \A m, n \in Messages :
        /\ stage[m] \in Critical /\ stage[n] \in Critical
        /\ reader[m] = reader[n] /\ SessionOf[m] = SessionOf[n]
        => m = n

(* INBOUND_MAX_CONCURRENCY bounds the tasks of a process that hold a       *)
(* permit, and no permit is ever lost: a task that fails, at whatever      *)
(* await, gives back exactly the one it took.                              *)
PermitsAccounted == \A w \in Workers : permits[w] + Cardinality(Holding(w)) = MaxConcurrency

(* "保证同会话消息串行处理", said of the lock without a word on processes,  *)
(* while the deployment starts four of them.                               *)
SerialAcrossProcesses ==
    \A m, n \in Messages :
        stage[m] \in Critical /\ stage[n] \in Critical /\ SessionOf[m] = SessionOf[n] => m = n

(* What the gate really bounds: one read can overshoot it, by up to        *)
(* ReadCount entries for every subscribed stream.                          *)
InflightBounded ==
    \A w \in Workers :
        Cardinality(Inflight(w)) <= MaxConcurrency - 1 + ReadCount * NumStreams

(* The browser waits for "done": no message is acknowledged, and so        *)
(* forgotten by Redis, before its answer was closed.                       *)
AckedIsAnswered ==
    \A m \in Messages : stage[m] = "acked" =>
        m \in Blank \/ \E i \in DOMAIN out[m] : out[m][i] = "done"

(* With one process the messages of a session that came on one stream are  *)
(* recorded in the order the user wrote them, and each at most once.       *)
ArrivalOrder ==
    \A s \in Sessions : \A i, j \in DOMAIN transcript[s] :
        LET a == transcript[s][i]
            b == transcript[s][j]
        IN  i < j /\ a.who = "user" /\ b.who = "user" /\ StreamOf[a.msg] = StreamOf[b.msg]
            => entry[a.msg] < entry[b.msg]

(* Redis hands an entry to one consumer and ">" never shows it again: over *)
(* all processes and restarts, a message opens at most one turn.           *)
RecordedOnce ==
    \A s \in Sessions : \A i, j \in DOMAIN transcript[s] :
        transcript[s][i] = transcript[s][j] => i = j

(* A message that a running group can still read is read and settled,      *)
(* whatever stops and restarts in between.                                 *)
EventuallySettled ==
    \A m \in Messages :
        (StreamOf[m] \in grouped /\ cursor[StreamOf[m]] < entry[m]) ~> (stage[m] \in Settled)

(* A task that has been spawned leaves the process: no cycle of permits    *)
(* and session locks keeps it for ever.                                    *)
TasksFinish == \A m \in Messages : (stage[m] \in InFlight) ~> (stage[m] \in Settled)
=============================================================================

------------------------ MODULE InboundWorkerProofs ------------------------
(***************************************************************************)
(* What holds of the inbound worker for any number of processes, messages, *)
(* sessions and streams and any bounds.  The inductive invariant says what *)
(* each queue and each lock knows of the stage of the tasks in it.         *)
(***************************************************************************)
EXTENDS InboundWorker, FiniteSetTheorems, TLAPS

(* The group never passes the end of a stream, and an entry it has not     *)
(* passed is still untouched: a read cannot hand out a running message.    *)
CursorSane == \A k \in Streams : cursor[k] <= length[k]

UnreadUntouched ==
    \A m \in Messages : cursor[StreamOf[m]] < entry[m] => stage[m] = "sent"

(* A message that was delivered has a process.                             *)
HasReader ==
    \A m \in Messages : stage[m] \in InFlight \cup {"fetched"} => reader[m] \in Workers

(* Who queues for a permit, or for a lock, is at that await and queues once*)
Distinct(q) == \A i, j \in DOMAIN q : q[i] = q[j] => i = j

PermitQueueSane ==
    \A w \in Workers :
        /\ Distinct(permitQ[w])
        /\ \A i \in DOMAIN permitQ[w] :
            reader[permitQ[w][i]] = w /\ stage[permitQ[w][i]] = "permit"

LockQueueSane ==
    \A w \in Workers, s \in Sessions :
        /\ Distinct(lockQ[w][s])
        /\ \A i \in DOMAIN lockQ[w][s] :
            /\ reader[lockQ[w][s][i]] = w /\ stage[lockQ[w][s][i]] = "lock"
            /\ SessionOf[lockQ[w][s][i]] = s

(* A task in its critical section owns the lock of its session.            *)
OwnsLock == \A m \in Messages : stage[m] \in Critical => lockOwner[reader[m]][SessionOf[m]] = m

IInv ==
    /\ TypeOK
    /\ CursorSane
    /\ UnreadUntouched
    /\ HasReader
    /\ PermitQueueSane
    /\ LockQueueSane
    /\ OwnsLock

-----------------------------------------------------------------------------
(* Taking the head off a queue without duplicates: the head is gone, the   *)
(* rest is as before and still without duplicates.                         *)
LEMMA QueuePop ==
    ASSUME NEW S, NEW q \in Seq(S), q # <<>>, Distinct(q)
    PROVE  /\ Head(q) \in S /\ \E i \in DOMAIN q : Head(q) = q[i]
           /\ Tail(q) \in Seq(S) /\ Distinct(Tail(q))
           /\ \A i \in DOMAIN Tail(q) :
                Tail(q)[i] # Head(q) /\ \E j \in DOMAIN q : Tail(q)[i] = q[j]
<1>1. /\ Head(q) = q[1] /\ 1 \in DOMAIN q /\ Tail(q) \in Seq(S) /\ Head(q) \in S
      /\ \A i \in DOMAIN Tail(q) :
            i \in Nat \ {0} /\ i + 1 \in DOMAIN q /\ Tail(q)[i] = q[i + 1]
  OBVIOUS
<1>2. \A i \in DOMAIN Tail(q) : Tail(q)[i] # Head(q)
  BY <1>1 DEF Distinct
<1>3. Distinct(Tail(q))
  BY <1>1 DEF Distinct
<1> QED
  BY <1>1, <1>2, <1>3

(* Adding a newcomer at the end.                                           *)
LEMMA QueuePush ==
    ASSUME NEW S, NEW q \in Seq(S), NEW x \in S, Distinct(q),
           \A i \in DOMAIN q : q[i] # x
    PROVE  /\ Append(q, x) \in Seq(S) /\ Distinct(Append(q, x))
           /\ \A i \in DOMAIN Append(q, x) :
                Append(q, x)[i] = x \/ \E j \in DOMAIN q : Append(q, x)[i] = q[j]
<1>1. \A i \in DOMAIN Append(q, x) :
        \/ i \in DOMAIN q /\ Append(q, x)[i] = q[i]
        \/ i = Len(q) + 1 /\ Append(q, x)[i] = x
  OBVIOUS
<1>2. Distinct(Append(q, x))
  BY <1>1 DEF Distinct
<1> QED
  BY <1>1, <1>2

LEMMA InitIInv == Init => IInv
  BY InboundAssumption
  DEF Init, IInv, TypeOK, CursorSane, UnreadUntouched, HasReader, PermitQueueSane,
      LockQueueSane, OwnsLock, Distinct, Stages, Critical, InFlight, Permitted, Settled

(* The queues do not mind a step that moves no waiting task.               *)
LEMMA QueuesFrame ==
    ASSUME TypeOK, PermitQueueSane, LockQueueSane,
           UNCHANGED <<permitQ, lockQ, reader>>,
           \A n \in Messages : stage[n] \in {"permit", "lock"} => stage'[n] = stage[n]
    PROVE  PermitQueueSane' /\ LockQueueSane'
<1>1. \A w \in Workers : \A i \in DOMAIN permitQ[w] : permitQ[w][i] \in Messages
  BY DEF TypeOK
<1>2. \A w \in Workers, s \in Sessions : \A i \in DOMAIN lockQ[w][s] : lockQ[w][s][i] \in Messages
  BY DEF TypeOK
<1>3. PermitQueueSane'
  BY <1>1 DEF PermitQueueSane
<1>4. LockQueueSane'
  BY <1>2 DEF LockQueueSane
<1> QED
  BY <1>3, <1>4

(* A step inside the critical section of one task.                         *)
LEMMA CriticalStep ==
    ASSUME IInv, NEW m \in Messages, stage[m] \in Critical, NEW to \in Critical,
           stage' = [stage EXCEPT ![m] = to], TypeOK',
           UNCHANGED <<stream, locks>>
    PROVE  IInv'
<1> USE InboundAssumption DEF Critical, InFlight, Permitted, stream, locks
<1>1. \A n \in Messages : n # m => stage'[n] = stage[n]
  BY DEF IInv, TypeOK
<1>2. stage'[m] = to
  BY DEF IInv, TypeOK
<1>3. CursorSane' /\ UnreadUntouched' /\ HasReader'
  BY <1>1, <1>2 DEF IInv, CursorSane, UnreadUntouched, HasReader
<1>4. PermitQueueSane' /\ LockQueueSane'
  BY <1>1, QueuesFrame DEF IInv
<1>5. OwnsLock'
  BY <1>1, <1>2 DEF IInv, OwnsLock
<1> QED
  BY <1>3, <1>4, <1>5 DEF IInv

(* A task leaves its critical section.                                     *)
LEMMA LeaveStep ==
    ASSUME IInv, NEW m \in Messages, stage[m] \in Critical, NEW to \in Settled,
           stage' = [stage EXCEPT ![m] = to], Release(m),
           UNCHANGED <<stream, out, transcript, loop, halts>>
    PROVE  IInv'
<1> USE InboundAssumption DEF Critical, InFlight, Permitted, Settled, stream
<1>1. reader[m] \in Workers /\ SessionOf[m] \in Sessions
  BY DEF IInv, HasReader
<1>2. TypeOK'
  BY <1>1 DEF IInv, TypeOK, Release, Stages
<1>3. CursorSane' /\ UnreadUntouched' /\ HasReader'
  BY DEF IInv, TypeOK, CursorSane, UnreadUntouched, HasReader
<1>4. PermitQueueSane' /\ LockQueueSane'
  <2>1. \A n \in Messages : stage[n] \in {"permit", "lock"} => stage'[n] = stage[n]
    BY DEF IInv, TypeOK
  <2> QED
    BY <2>1, QueuesFrame DEF IInv, Release
<1>5. OwnsLock'
  BY <1>1 DEF IInv, TypeOK, OwnsLock, HasReader, Release
<1> QED
  BY <1>2, <1>3, <1>4, <1>5 DEF IInv

(* Publishing an event and storing a message keep their types.             *)
LEMMA EmitType ==
    ASSUME TypeOK, NEW m \in Messages, NEW e \in {"text", "error", "done"}, Emit(m, e)
    PROVE  out' \in [Messages -> Seq({"text", "error", "done"})]
<1>1. Append(out[m], e) \in Seq({"text", "error", "done"})
  BY DEF TypeOK
<1> QED
  BY <1>1 DEF TypeOK, Emit

LEMMA StoreType ==
    ASSUME TypeOK, NEW m \in Messages, NEW who \in {"user", "assistant"}, Store(m, who)
    PROVE  transcript' \in [Sessions -> Seq(Turn)]
<1>1. SessionOf[m] \in Sessions /\ [who |-> who, msg |-> m] \in Turn
  BY InboundAssumption DEF Turn
<1>2. Append(transcript[SessionOf[m]], [who |-> who, msg |-> m]) \in Seq(Turn)
  BY <1>1 DEF TypeOK
<1> QED
  BY <1>1, <1>2 DEF TypeOK, Store

LEMMA HandleIInv ==
    ASSUME IInv, NEW m \in Messages, Handle(m)
    PROVE  IInv'
<1> USE DEF Critical, Step, Stages, InFlight, Permitted, stream, locks
<1>0. TypeOK
  BY DEF IInv
<1>1. CASE SkipBlank(m)
  <2>1. TypeOK'
    BY <1>0, <1>1 DEF SkipBlank, TypeOK
  <2> QED
    BY <1>1, <2>1, CriticalStep DEF SkipBlank
<1>2. CASE RecordUser(m)
  <2>1. transcript' \in [Sessions -> Seq(Turn)]
    BY <1>0, <1>2, StoreType DEF RecordUser
  <2>2. TypeOK'
    BY <1>0, <1>2, <2>1 DEF RecordUser, TypeOK
  <2> QED
    BY <1>2, <2>2, CriticalStep DEF RecordUser
<1>3. CASE AgentReady(m)
  <2>1. TypeOK'
    BY <1>0, <1>3 DEF AgentReady, TypeOK
  <2> QED
    BY <1>3, <2>1, CriticalStep DEF AgentReady
<1>4. CASE StreamText(m)
  <2>1. out' \in [Messages -> Seq({"text", "error", "done"})]
    BY <1>0, <1>4, EmitType DEF StreamText
  <2>2. TypeOK'
    BY <1>0, <1>4, <2>1 DEF StreamText, TypeOK
  <2>3. stage' = [stage EXCEPT ![m] = "running"] /\ stage[m] = "running"
    BY <1>0, <1>4 DEF StreamText, TypeOK
  <2> QED
    BY <1>4, <2>2, <2>3, CriticalStep DEF StreamText
<1>5. CASE StreamDone(m)
  <2>1. out' \in [Messages -> Seq({"text", "error", "done"})]
    BY <1>0, <1>5, EmitType DEF StreamDone
  <2>2. TypeOK'
    BY <1>0, <1>5, <2>1 DEF StreamDone, TypeOK
  <2> QED
    BY <1>5, <2>2, CriticalStep DEF StreamDone
<1>6. CASE EndStream(m)
  <2>1. TypeOK'
    BY <1>0, <1>6 DEF EndStream, TypeOK
  <2> QED
    BY <1>6, <2>1, CriticalStep DEF EndStream
<1>7. CASE RecordReply(m)
  <2>1. transcript' \in [Sessions -> Seq(Turn)]
    BY <1>0, <1>7, StoreType DEF RecordReply
  <2>2. TypeOK'
    BY <1>0, <1>7, <2>1 DEF RecordReply, TypeOK
  <2> QED
    BY <1>7, <2>2, CriticalStep DEF RecordReply
<1>8. CASE Fail(m)
  <2>1. out' \in [Messages -> Seq({"text", "error", "done"})]
    BY <1>0, <1>8, EmitType DEF Fail
  <2>2. TypeOK'
    BY <1>0, <1>8, <2>1 DEF Fail, TypeOK
  <2> QED
    BY <1>8, <2>2, CriticalStep DEF Fail
<1>9. CASE FinishFailure(m)
  <2>1. out' \in [Messages -> Seq({"text", "error", "done"})]
    BY <1>0, <1>9, EmitType DEF FinishFailure
  <2>2. TypeOK'
    BY <1>0, <1>9, <2>1 DEF FinishFailure, TypeOK
  <2> QED
    BY <1>9, <2>2, CriticalStep DEF FinishFailure
<1>10. CASE Ack(m)
  BY <1>10, LeaveStep DEF Ack, Settled
<1>11. CASE Abandon(m)
  BY <1>11, LeaveStep DEF Abandon, Settled
<1> QED
  BY <1>1, <1>2, <1>3, <1>4, <1>5, <1>6, <1>7, <1>8, <1>9, <1>10, <1>11 DEF Handle

-----------------------------------------------------------------------------
LEMMA PublishIInv ==
    ASSUME IInv, NEW m \in Messages, Publish(m)
    PROVE  IInv'
<1> USE InboundAssumption DEF Critical, InFlight, Permitted, Stages, locks
<1>0. TypeOK /\ StreamOf[m] \in Streams
  BY DEF IInv
<1>1. TypeOK'
  BY <1>0 DEF Publish, TypeOK
<1>2. CursorSane'
  BY <1>0 DEF Publish, TypeOK, CursorSane, IInv
<1>3. UnreadUntouched'
  BY <1>0 DEF Publish, TypeOK, UnreadUntouched, IInv
<1>4. HasReader' /\ OwnsLock'
  BY <1>0 DEF Publish, TypeOK, HasReader, OwnsLock, IInv
<1>5. PermitQueueSane' /\ LockQueueSane'
  BY <1>0, QueuesFrame DEF Publish, TypeOK, IInv
<1> QED
  BY <1>1, <1>2, <1>3, <1>4, <1>5 DEF IInv

LEMMA StartIInv ==
    ASSUME IInv, NEW w \in Workers, Start(w)
    PROVE  IInv'
<1> USE InboundAssumption DEF locks
<1>0. TypeOK
  BY DEF IInv
<1>1. TypeOK'
  BY <1>0 DEF Start, TypeOK
<1>2. CursorSane'
  BY <1>0 DEF Start, TypeOK, CursorSane, IInv
<1>3. UnreadUntouched'
  <2>1. \A k \in Streams : cursor[k] <= cursor'[k]
    BY <1>0 DEF Start, TypeOK, CursorSane, IInv
  <2>2. cursor' \in [Streams -> Nat]
    BY <1>1 DEF TypeOK
  <2> QED
    BY <1>0, <2>1, <2>2 DEF Start, TypeOK, UnreadUntouched, IInv
<1>4. HasReader' /\ OwnsLock'
  BY DEF Start, HasReader, OwnsLock, IInv
<1>5. PermitQueueSane' /\ LockQueueSane'
  BY <1>0, QueuesFrame DEF Start, IInv
<1> QED
  BY <1>1, <1>2, <1>3, <1>4, <1>5 DEF IInv

LEMMA PassGateIInv ==
    ASSUME IInv, NEW w \in Workers, PassGate(w)
    PROVE  IInv'
  BY DEF IInv, PassGate, TypeOK, CursorSane, UnreadUntouched, HasReader, PermitQueueSane,
      LockQueueSane, OwnsLock, stream, locks

LEMMA ReadLimitBounds ==
    ASSUME IInv, NEW k \in Streams
    PROVE  /\ ReadLimit(k) \in Nat
           /\ cursor[k] <= ReadLimit(k) /\ ReadLimit(k) <= length[k]
  BY InboundAssumption DEF IInv, TypeOK, CursorSane, ReadLimit

LEMMA DeliverIInv ==
    ASSUME IInv, NEW w \in Workers, Read(w) \/ LoseReply(w)
    PROVE  IInv'
<1> USE InboundAssumption DEF locks
<1>0. TypeOK
  BY DEF IInv
<1>1. \A m \in NewEntries : stage[m] = "sent"
  BY DEF NewEntries, UnreadUntouched, IInv
<1>2. \A m \in Messages : stage[m] # "sent" => stage'[m] = stage[m] /\ reader'[m] = reader[m]
  BY <1>1 DEF Read, LoseReply, Deliver
<1>3. TypeOK'
  <2>1. cursor' \in [Streams -> Nat]
    BY ReadLimitBounds DEF Read, LoseReply, Deliver
  <2>2. stage' \in [Messages -> Stages]
    BY <1>0 DEF Read, LoseReply, Deliver, TypeOK, Stages, Settled
  <2>3. reader' \in [Messages -> Workers \cup {None}]
    BY <1>0 DEF Read, LoseReply, Deliver, TypeOK
  <2> QED
    BY <1>0, <2>1, <2>2, <2>3 DEF Read, LoseReply, Deliver, TypeOK
<1>4. CursorSane'
  BY ReadLimitBounds DEF Read, LoseReply, Deliver, CursorSane
<1>5. UnreadUntouched'
  <2> SUFFICES ASSUME NEW m \in Messages, cursor'[StreamOf[m]] < entry'[m]
               PROVE  stage'[m] = "sent"
    BY DEF UnreadUntouched
  <2>1. StreamOf[m] \in Streams /\ entry'[m] = entry[m] /\ entry[m] \in Nat
    BY <1>0 DEF Read, LoseReply, Deliver, TypeOK
  <2>2. cursor'[StreamOf[m]] = ReadLimit(StreamOf[m])
    BY <2>1 DEF Read, LoseReply, Deliver
  <2>3. cursor[StreamOf[m]] < entry[m]
    BY <1>0, <2>1, <2>2, ReadLimitBounds DEF TypeOK
  <2>4. m \notin NewEntries
    BY <2>1, <2>2, ReadLimitBounds DEF NewEntries
  <2> QED
    BY <2>3, <2>4 DEF Read, LoseReply, Deliver, UnreadUntouched, IInv
<1>6. HasReader'
  BY <1>0 DEF Read, LoseReply, Deliver, HasReader, IInv
<1>7. OwnsLock'
  BY <1>0, <1>2 DEF Read, LoseReply, Deliver, OwnsLock, IInv, Critical
<1>8. PermitQueueSane'
  <2>1. \A v \in Workers : \A i \in DOMAIN permitQ[v] : permitQ[v][i] \in Messages
    BY <1>0 DEF TypeOK
  <2> QED
    BY <1>2, <2>1 DEF PermitQueueSane, IInv, Read, LoseReply, Deliver
<1>9. LockQueueSane'
  <2>1. \A v \in Workers, s \in Sessions : \A i \in DOMAIN lockQ[v][s] : lockQ[v][s][i] \in Messages
    BY <1>0 DEF TypeOK
  <2> QED
    BY <1>2, <2>1 DEF LockQueueSane, IInv, Read, LoseReply, Deliver
<1> QED
  BY <1>3, <1>4, <1>5, <1>6, <1>7, <1>8, <1>9 DEF IInv

(* The rest of a broken reply leaves no queue, no lock and no task.        *)
LEMMA BreakMoves ==
    ASSUME NEW w \in Workers, BreakReply(w)
    PROVE  /\ UNCHANGED <<entry, length, grouped, cursor, reader, out, transcript, halts>>
           /\ UNCHANGED <<permits, permitQ, lockOwner, lockQ>>
           /\ \A m \in Messages :
                \/ stage'[m] = stage[m] /\ (stage[m] = "fetched" => reader[m] # w)
                \/ stage[m] = "fetched" /\ reader[m] = w /\ stage'[m] = "stranded"
  BY DEF BreakReply, FetchedBy, stream, locks

LEMMA BreakIInv ==
    ASSUME IInv, NEW w \in Workers, BreakReply(w)
    PROVE  IInv'
<1> USE DEF Critical, InFlight, Permitted
<1>0. TypeOK
  BY DEF IInv
<1>1. TypeOK'
  <2>1. stage' \in [Messages -> Stages] /\ loop' \in [Workers -> {"off", "gate", "reading", "spawning"}]
    BY <1>0 DEF BreakReply, TypeOK, Stages, Settled
  <2> QED
    BY <1>0, <2>1, BreakMoves DEF TypeOK
<1>2. CursorSane' /\ UnreadUntouched' /\ HasReader' /\ OwnsLock'
  BY BreakMoves DEF CursorSane, UnreadUntouched, HasReader, OwnsLock, IInv
<1>3. PermitQueueSane' /\ LockQueueSane'
  BY <1>0, BreakMoves, QueuesFrame DEF IInv
<1> QED
  BY <1>1, <1>2, <1>3 DEF IInv

LEMMA SpawnIInv ==
    ASSUME IInv, NEW w \in Workers, NEW m \in Messages, Spawn(w, m)
    PROVE  IInv'
<1> USE InboundAssumption DEF Critical, InFlight, Permitted, Stages, stream
<1>0. TypeOK /\ stage[m] = "fetched" /\ reader[m] = w
  BY DEF IInv, Spawn, NextInReply, FetchedBy
<1>1. /\ \A n \in Messages : n # m => stage'[n] = stage[n]
      /\ stage'[m] = "permit"
  BY <1>0 DEF Spawn, TypeOK
<1>2. /\ permitQ'[w] = Append(permitQ[w], m) /\ permitQ[w] \in Seq(Messages)
      /\ \A v \in Workers : v # w => permitQ'[v] = permitQ[v]
  BY <1>0 DEF Spawn, TypeOK
<1>3. /\ \A v \in Workers : \A i \in DOMAIN permitQ[v] : permitQ[v][i] \in Messages
      /\ \A i \in DOMAIN permitQ[w] : permitQ[w][i] # m
  BY <1>0 DEF TypeOK, IInv, PermitQueueSane
<1>4. /\ Append(permitQ[w], m) \in Seq(Messages) /\ Distinct(Append(permitQ[w], m))
      /\ \A i \in DOMAIN Append(permitQ[w], m) :
            \/ Append(permitQ[w], m)[i] = m
            \/ \E j \in DOMAIN permitQ[w] : Append(permitQ[w], m)[i] = permitQ[w][j]
  BY <1>2, <1>3, QueuePush DEF IInv, PermitQueueSane
<1>5. TypeOK'
  <2>1. permitQ' \in [Workers -> Seq(Messages)]
    BY <1>0, <1>4 DEF Spawn, TypeOK
  <2> QED
    BY <1>0, <2>1 DEF Spawn, TypeOK
<1>7. CursorSane' /\ HasReader' /\ OwnsLock' /\ UnreadUntouched'
  BY <1>0, <1>1 DEF Spawn, CursorSane, HasReader, OwnsLock, UnreadUntouched, IInv
<1>8. PermitQueueSane'
  <2> SUFFICES ASSUME NEW v \in Workers
               PROVE  /\ Distinct(permitQ'[v])
                      /\ \A i \in DOMAIN permitQ'[v] :
                            reader[permitQ'[v][i]] = v /\ stage'[permitQ'[v][i]] = "permit"
    BY DEF PermitQueueSane, Spawn
  <2>1. CASE v # w
    BY <1>0, <1>1, <1>2, <1>3, <2>1 DEF PermitQueueSane, IInv
  <2>2. CASE v = w
    <3> DEFINE a == Append(permitQ[w], m)
    <3>1. \A j \in DOMAIN permitQ[w] : reader[permitQ[w][j]] = w /\ stage'[permitQ[w][j]] = "permit"
      BY <1>1, <1>3 DEF PermitQueueSane, IInv
    <3>2. permitQ'[v] = a
      BY <1>2, <2>2
    <3>3. Distinct(a) /\ \A i \in DOMAIN a : a[i] = m \/ \E j \in DOMAIN permitQ[w] : a[i] = permitQ[w][j]
      BY <1>4
    <3> HIDE DEF a
    <3>4. \A i \in DOMAIN a : reader[a[i]] = w /\ stage'[a[i]] = "permit"
      BY <1>0, <1>1, <3>1, <3>3
    <3> QED
      BY <2>2, <3>2, <3>3, <3>4
  <2> QED
    BY <2>1, <2>2
<1>6. LockQueueSane'
  <2>1. \A v \in Workers, s \in Sessions : \A i \in DOMAIN lockQ[v][s] : lockQ[v][s][i] \in Messages
    BY <1>0 DEF TypeOK
  <2> QED
    BY <1>0, <1>1, <2>1 DEF LockQueueSane, IInv, Spawn
<1> QED
  BY <1>5, <1>6, <1>7, <1>8 DEF IInv

LEMMA AcquirePermitIInv ==
    ASSUME IInv, NEW w \in Workers, AcquirePermit(w)
    PROVE  IInv'
<1> DEFINE q == permitQ[w]
           m == Head(q)
           s == SessionOf[m]
           l == lockQ[w][s]
<1> USE InboundAssumption DEF Critical, InFlight, Permitted, Stages, stream
<1>0. TypeOK /\ q \in Seq(Messages) /\ q # <<>> /\ Distinct(q)
  BY DEF IInv, AcquirePermit, TypeOK, PermitQueueSane
<1>1. /\ m \in Messages /\ \E i \in DOMAIN q : m = q[i]
      /\ Tail(q) \in Seq(Messages) /\ Distinct(Tail(q))
      /\ \A i \in DOMAIN Tail(q) : Tail(q)[i] # m /\ \E j \in DOMAIN q : Tail(q)[i] = q[j]
  BY <1>0, QueuePop
<1>2. reader[m] = w /\ stage[m] = "permit" /\ s \in Sessions
  BY <1>1 DEF IInv, PermitQueueSane
<1>3. \A v \in Workers : \A i \in DOMAIN permitQ[v] : permitQ[v][i] \in Messages
  BY <1>0 DEF TypeOK
<1>4. \A v \in Workers, t \in Sessions : \A i \in DOMAIN lockQ[v][t] :
        lockQ[v][t][i] \in Messages /\ lockQ[v][t][i] # m
  <2>1. \A v \in Workers, t \in Sessions : \A i \in DOMAIN lockQ[v][t] :
            lockQ[v][t][i] \in Messages
    BY <1>0 DEF TypeOK
  <2>2. \A v \in Workers, t \in Sessions : \A i \in DOMAIN lockQ[v][t] :
            stage[lockQ[v][t][i]] = "lock"
    BY DEF IInv, LockQueueSane
  <2> QED
    BY <1>2, <2>1, <2>2
<1>5. l \in Seq(Messages) /\ Distinct(l)
  BY <1>0, <1>2 DEF TypeOK, IInv, LockQueueSane
<1>6. /\ Append(l, m) \in Seq(Messages) /\ Distinct(Append(l, m))
      /\ \A i \in DOMAIN Append(l, m) :
            Append(l, m)[i] = m \/ \E j \in DOMAIN l : Append(l, m)[i] = l[j]
  <2>1. \A i \in DOMAIN l : l[i] # m
    BY <1>2, <1>4
  <2> HIDE DEF l, m
  <2> QED
    BY <1>1, <1>5, <2>1, QueuePush
<1>7. /\ reader' = reader /\ lockOwner' = lockOwner
      /\ \A n \in Messages : n # m => stage'[n] = stage[n]
      /\ stage'[m] = "lock"
  BY <1>0, <1>1 DEF AcquirePermit, TypeOK
<1>8. /\ permitQ'[w] = Tail(q) /\ \A v \in Workers : v # w => permitQ'[v] = permitQ[v]
      /\ lockQ'[w][s] = Append(l, m)
      /\ \A v \in Workers, t \in Sessions : v # w \/ t # s => lockQ'[v][t] = lockQ[v][t]
  BY <1>0, <1>2 DEF AcquirePermit, TypeOK
<1>9. TypeOK'
  <2>1. permitQ' \in [Workers -> Seq(Messages)]
    BY <1>0, <1>1 DEF AcquirePermit, TypeOK
  <2>2. lockQ' \in [Workers -> [Sessions -> Seq(Messages)]]
    BY <1>0, <1>2, <1>6 DEF AcquirePermit, TypeOK
  <2>3. permits[w] \in Nat /\ permits[w] > 0 /\ permits' = [permits EXCEPT ![w] = @ - 1]
    BY <1>0 DEF AcquirePermit, TypeOK
  <2>4. permits' \in [Workers -> Nat]
    <3>1. permits \in [Workers -> Nat]
      BY <1>0 DEF TypeOK
    <3>2. permits[w] - 1 \in Nat
      BY <2>3
    <3> QED
      BY <2>3, <3>1, <3>2
  <2>5. stage' \in [Messages -> Stages]
    <3>1. stage \in [Messages -> Stages] /\ stage' = [stage EXCEPT ![m] = "lock"]
      BY <1>0 DEF AcquirePermit, TypeOK
    <3> QED
      BY <3>1
  <2> QED
    BY <1>0, <2>1, <2>2, <2>4, <2>5 DEF AcquirePermit, TypeOK
<1>10. CursorSane' /\ HasReader' /\ OwnsLock' /\ UnreadUntouched'
  BY <1>0, <1>1, <1>2, <1>7
  DEF AcquirePermit, CursorSane, HasReader, OwnsLock, UnreadUntouched, IInv
<1> HIDE DEF q, m, s, l
<1>11. PermitQueueSane'
  <2> SUFFICES ASSUME NEW v \in Workers
               PROVE  /\ Distinct(permitQ'[v])
                      /\ \A i \in DOMAIN permitQ'[v] :
                            reader[permitQ'[v][i]] = v /\ stage'[permitQ'[v][i]] = "permit"
    BY <1>7 DEF PermitQueueSane
  <2>1. CASE v # w
    <3> DEFINE a == permitQ[v]
    <3>1. permitQ'[v] = a
      BY <1>8, <2>1
    <3>2. /\ Distinct(a)
          /\ \A i \in DOMAIN a : a[i] \in Messages /\ reader[a[i]] = v /\ stage[a[i]] = "permit"
      BY <1>3 DEF PermitQueueSane, IInv
    <3> HIDE DEF a
    <3>3. \A i \in DOMAIN a : a[i] # m
      BY <1>2, <2>1, <3>2
    <3>4. \A i \in DOMAIN a : stage'[a[i]] = "permit"
      BY <1>7, <3>2, <3>3
    <3> QED
      BY <3>1, <3>2, <3>4
  <2>2. CASE v = w
    <3>1. \A j \in DOMAIN q : q[j] \in Messages /\ reader[q[j]] = w /\ stage[q[j]] = "permit"
      BY <1>3 DEF PermitQueueSane, IInv, q
    <3> DEFINE a == Tail(q)
    <3>2. permitQ'[v] = a /\ Distinct(a)
      BY <1>1, <1>8, <2>2
    <3>3. \A i \in DOMAIN a : a[i] # m /\ \E j \in DOMAIN q : a[i] = q[j]
      BY <1>1
    <3> HIDE DEF a
    <3>4. \A i \in DOMAIN a : reader[a[i]] = w /\ stage'[a[i]] = "permit"
      BY <1>7, <3>1, <3>3
    <3> QED
      BY <2>2, <3>2, <3>4
  <2> QED
    BY <2>1, <2>2
<1>12. LockQueueSane'
  <2> SUFFICES ASSUME NEW v \in Workers, NEW t \in Sessions
               PROVE  /\ Distinct(lockQ'[v][t])
                      /\ \A i \in DOMAIN lockQ'[v][t] :
                            /\ reader[lockQ'[v][t][i]] = v /\ stage'[lockQ'[v][t][i]] = "lock"
                            /\ SessionOf[lockQ'[v][t][i]] = t
    BY <1>7 DEF LockQueueSane
  <2>0. \A u \in Workers, z \in Sessions :
            /\ Distinct(lockQ[u][z])
            /\ \A i \in DOMAIN lockQ[u][z] :
                  /\ reader[lockQ[u][z][i]] = u /\ stage'[lockQ[u][z][i]] = "lock"
                  /\ SessionOf[lockQ[u][z][i]] = z
    BY <1>4, <1>7 DEF LockQueueSane, IInv
  <2>1. CASE v # w \/ t # s
    <3> DEFINE a == lockQ[v][t]
    <3>1. lockQ'[v][t] = a
      BY <1>8, <2>1
    <3>2. /\ Distinct(a)
          /\ \A i \in DOMAIN a : reader[a[i]] = v /\ stage'[a[i]] = "lock" /\ SessionOf[a[i]] = t
      BY <2>0
    <3> HIDE DEF a
    <3> QED
      BY <3>1, <3>2
  <2>2. CASE v = w /\ t = s
    <3>1. \A j \in DOMAIN l : reader[l[j]] = w /\ stage'[l[j]] = "lock" /\ SessionOf[l[j]] = s
      BY <1>2, <2>0 DEF l
    <3> DEFINE a == Append(l, m)
    <3>2. lockQ'[v][t] = a /\ Distinct(a)
      BY <1>6, <1>8, <2>2
    <3>3. \A i \in DOMAIN a : a[i] = m \/ \E j \in DOMAIN l : a[i] = l[j]
      BY <1>6
    <3> HIDE DEF a
    <3>4. SessionOf[m] = s
      BY DEF s
    <3>5. \A i \in DOMAIN a : reader[a[i]] = w /\ stage'[a[i]] = "lock" /\ SessionOf[a[i]] = s
      BY <1>2, <1>7, <3>1, <3>3, <3>4
    <3> QED
      BY <2>2, <3>2, <3>5
  <2> QED
    BY <2>1, <2>2
<1> QED
  BY <1>9, <1>10, <1>11, <1>12 DEF IInv

LEMMA AcquireSessionIInv ==
    ASSUME IInv, NEW w \in Workers, NEW s \in Sessions, AcquireSession(w, s)
    PROVE  IInv'
<1> DEFINE q == lockQ[w][s]
           m == Head(q)
<1> USE InboundAssumption DEF Critical, InFlight, Permitted, Stages, stream
<1>0. TypeOK /\ q \in Seq(Messages) /\ q # <<>> /\ Distinct(q)
  <2>1. TypeOK
    BY DEF IInv
  <2>2. lockQ \in [Workers -> [Sessions -> Seq(Messages)]]
    BY <2>1 DEF TypeOK
  <2> QED
    BY <2>1, <2>2 DEF AcquireSession, IInv, LockQueueSane
<1>1. /\ m \in Messages /\ \E i \in DOMAIN q : m = q[i]
      /\ Tail(q) \in Seq(Messages) /\ Distinct(Tail(q))
      /\ \A i \in DOMAIN Tail(q) : Tail(q)[i] # m /\ \E j \in DOMAIN q : Tail(q)[i] = q[j]
  BY <1>0, QueuePop
<1>2. reader[m] = w /\ stage[m] = "lock" /\ SessionOf[m] = s
  BY <1>1 DEF IInv, LockQueueSane
<1>3. /\ reader' = reader /\ permitQ' = permitQ
      /\ \A n \in Messages : n # m => stage'[n] = stage[n]
      /\ stage'[m] = "begin"
  BY <1>0, <1>1 DEF AcquireSession, TypeOK
<1>4. /\ lockOwner[w][s] = None /\ lockOwner'[w][s] = m
      /\ \A v \in Workers, t \in Sessions : v # w \/ t # s => lockOwner'[v][t] = lockOwner[v][t]
  BY <1>0 DEF AcquireSession, TypeOK
<1>5. /\ lockQ'[w][s] = Tail(q)
      /\ \A v \in Workers, t \in Sessions : v # w \/ t # s => lockQ'[v][t] = lockQ[v][t]
  BY <1>0 DEF AcquireSession, TypeOK
<1>6. \A v \in Workers, t \in Sessions : \A i \in DOMAIN lockQ[v][t] : lockQ[v][t][i] \in Messages
  BY <1>0 DEF TypeOK
<1>7. TypeOK'
  <2>1. lockOwner' \in [Workers -> [Sessions -> Messages \cup {None}]]
    BY <1>0, <1>1 DEF AcquireSession, TypeOK
  <2>2. lockQ' \in [Workers -> [Sessions -> Seq(Messages)]]
    BY <1>0, <1>1 DEF AcquireSession, TypeOK
  <2>3. stage' \in [Messages -> Stages]
    BY <1>0 DEF AcquireSession, TypeOK
  <2> QED
    BY <1>0, <2>1, <2>2, <2>3 DEF AcquireSession, TypeOK
<1>8. CursorSane' /\ HasReader' /\ UnreadUntouched'
  BY <1>0, <1>1, <1>2, <1>3
  DEF AcquireSession, CursorSane, HasReader, UnreadUntouched, IInv
<1> HIDE DEF q, m
<1>9. OwnsLock'
  <2> SUFFICES ASSUME NEW n \in Messages, stage'[n] \in Critical
               PROVE  lockOwner'[reader[n]][SessionOf[n]] = n
    BY <1>3 DEF OwnsLock
  <2>1. CASE n = m
    BY <1>2, <1>4, <2>1
  <2>2. CASE n # m
    <3>1. stage[n] \in Critical /\ lockOwner[reader[n]][SessionOf[n]] = n
      BY <1>3, <2>2 DEF OwnsLock, IInv
    <3>2. reader[n] \in Workers /\ SessionOf[n] \in Sessions
      BY <3>1 DEF HasReader, IInv
    <3> QED
      BY <1>4, <3>1, <3>2
  <2> QED
    BY <2>1, <2>2
<1>10. PermitQueueSane'
  <2>1. \A v \in Workers : \A i \in DOMAIN permitQ[v] : permitQ[v][i] \in Messages
    BY <1>0 DEF TypeOK
  <2> QED
    BY <1>2, <1>3, <2>1 DEF PermitQueueSane, IInv
<1>11. LockQueueSane'
  <2> SUFFICES ASSUME NEW v \in Workers, NEW t \in Sessions
               PROVE  /\ Distinct(lockQ'[v][t])
                      /\ \A i \in DOMAIN lockQ'[v][t] :
                            /\ reader[lockQ'[v][t][i]] = v /\ stage'[lockQ'[v][t][i]] = "lock"
                            /\ SessionOf[lockQ'[v][t][i]] = t
    BY <1>3 DEF LockQueueSane
  <2>1. CASE v # w \/ t # s
    BY <1>2, <1>3, <1>5, <1>6, <2>1 DEF LockQueueSane, IInv
  <2>2. CASE v = w /\ t = s
    <3>1. \A j \in DOMAIN q :
            q[j] \in Messages /\ reader[q[j]] = w /\ stage[q[j]] = "lock" /\ SessionOf[q[j]] = s
      BY <1>6 DEF LockQueueSane, IInv, q
    <3> DEFINE a == Tail(q)
    <3>2. lockQ'[v][t] = a /\ Distinct(a)
      BY <1>1, <1>5, <2>2
    <3>3. \A i \in DOMAIN a : a[i] # m /\ \E j \in DOMAIN q : a[i] = q[j]
      BY <1>1
    <3> HIDE DEF a
    <3>4. \A i \in DOMAIN a : reader[a[i]] = w /\ stage'[a[i]] = "lock" /\ SessionOf[a[i]] = s
      BY <1>3, <3>1, <3>3
    <3> QED
      BY <2>2, <3>2, <3>4
  <2> QED
    BY <2>1, <2>2
<1> QED
  BY <1>7, <1>8, <1>9, <1>10, <1>11 DEF IInv

LEMMA HaltIInv ==
    ASSUME IInv, NEW w \in Workers, Halt(w)
    PROVE  IInv'
<1> USE InboundAssumption DEF Critical, InFlight, Permitted, Stages, Settled, stream
<1>0. TypeOK
  BY DEF IInv
<1>1. \A m \in Messages :
        \/ stage'[m] = "stranded"
        \/ stage'[m] = stage[m] /\ (stage[m] \in InFlight \cup {"fetched"} => reader[m] # w)
  BY <1>0 DEF Halt, Inflight, FetchedBy
<1>2. /\ permitQ'[w] = <<>> /\ \A s \in Sessions : lockQ'[w][s] = <<>>
      /\ \A v \in Workers : v # w =>
            permitQ'[v] = permitQ[v] /\ lockQ'[v] = lockQ[v] /\ lockOwner'[v] = lockOwner[v]
  BY <1>0 DEF Halt, TypeOK
<1>3. \A m \in Messages : reader[m] # w => stage'[m] = stage[m]
  BY <1>0 DEF Halt, Inflight, FetchedBy
<1>4. TypeOK'
  <2>1. permitQ' \in [Workers -> Seq(Messages)] /\ permits' \in [Workers -> Nat]
    BY <1>0 DEF Halt, TypeOK
  <2>2. lockQ' \in [Workers -> [Sessions -> Seq(Messages)]]
    BY <1>0 DEF Halt, TypeOK
  <2>3. lockOwner' \in [Workers -> [Sessions -> Messages \cup {None}]]
    BY <1>0 DEF Halt, TypeOK
  <2>4. stage' \in [Messages -> Stages] /\ halts' \in 0 .. MaxHalts
    BY <1>0 DEF Halt, TypeOK
  <2> QED
    BY <1>0, <2>1, <2>2, <2>3, <2>4 DEF Halt, TypeOK
<1>5. CursorSane' /\ HasReader' /\ UnreadUntouched'
  BY <1>0, <1>1 DEF Halt, Inflight, FetchedBy, CursorSane, HasReader, UnreadUntouched, IInv
<1>6. OwnsLock'
  <2> SUFFICES ASSUME NEW m \in Messages, stage'[m] \in Critical
               PROVE  lockOwner'[reader[m]][SessionOf[m]] = m
    BY DEF OwnsLock, Halt
  <2>1. stage[m] \in Critical /\ reader[m] # w /\ reader[m] \in Workers
    BY <1>1 DEF HasReader, IInv
  <2> QED
    BY <1>2, <2>1 DEF OwnsLock, IInv
<1>7. PermitQueueSane'
  <2>1. \A v \in Workers : \A i \in DOMAIN permitQ[v] : permitQ[v][i] \in Messages
    BY <1>0 DEF TypeOK
  <2> QED
    BY <1>2, <1>3, <2>1 DEF PermitQueueSane, Distinct, IInv, Halt
<1>8. LockQueueSane'
  <2>1. \A v \in Workers, s \in Sessions : \A i \in DOMAIN lockQ[v][s] : lockQ[v][s][i] \in Messages
    BY <1>0 DEF TypeOK
  <2> QED
    BY <1>2, <1>3, <2>1 DEF LockQueueSane, Distinct, IInv, Halt
<1> QED
  BY <1>4, <1>5, <1>6, <1>7, <1>8 DEF IInv

LEMMA NextIInv == IInv /\ [Next]_vars => IInv'
<1> SUFFICES ASSUME IInv, [Next]_vars PROVE IInv'
  OBVIOUS
<1>1. ASSUME NEW m \in Messages, Publish(m) \/ Handle(m) PROVE IInv'
  BY <1>1, PublishIInv, HandleIInv
<1>2. ASSUME NEW w \in Workers, Consume(w) PROVE IInv'
  BY <1>2, StartIInv, PassGateIInv, DeliverIInv, BreakIInv, SpawnIInv DEF Consume
<1>3. ASSUME NEW w \in Workers, AcquirePermit(w) \/ Halt(w) PROVE IInv'
  BY <1>3, AcquirePermitIInv, HaltIInv
<1>4. ASSUME NEW w \in Workers, NEW s \in Sessions, AcquireSession(w, s) PROVE IInv'
  BY <1>4, AcquireSessionIInv
<1>5. CASE UNCHANGED vars
  BY <1>5 DEF IInv, TypeOK, CursorSane, UnreadUntouched, HasReader, PermitQueueSane,
      LockQueueSane, OwnsLock, vars, stream, locks
<1> QED
  BY <1>1, <1>2, <1>3, <1>4, <1>5 DEF Next

-----------------------------------------------------------------------------
(* The inductive invariant: queues hold only tasks that wait there, and a  *)
(* task in its critical section owns the lock of its session.              *)
THEOREM Invariance == Spec => []IInv
  BY InitIInv, NextIInv, PTL DEF Spec

(* Every variable keeps its type, for any number of processes.             *)
THEOREM TypeCorrect == Spec => []TypeOK
<1>1. IInv => TypeOK
  BY DEF IInv
<1> QED
  BY <1>1, Invariance, PTL

(* The promise of inbound_worker.py, "同一 session 严格串行": two tasks of  *)
(* one process never work on the same session at once.                     *)
THEOREM Serial == Spec => []SessionSerial
<1>1. IInv => SessionSerial
  BY DEF IInv, OwnsLock, SessionSerial
<1> QED
  BY <1>1, Invariance, PTL

-----------------------------------------------------------------------------
(* Permits.  A step that neither gives nor takes one keeps the tasks that  *)
(* hold one; the others add or remove exactly the task that moves.         *)
LEMMA HoldingFinite == \A w \in Workers : IsFiniteSet(Holding(w)) /\ Cardinality(Holding(w)) \in Nat
<1>1. \A w \in Workers : Holding(w) \subseteq Messages
  BY DEF Holding
<1> QED
  BY <1>1, InboundAssumption, FS_Subset, FS_CardinalityType

LEMMA PermitsFrame ==
    ASSUME PermitsAccounted, UNCHANGED permits,
           \A m \in Messages :
                \/ reader'[m] = reader[m] /\ (stage'[m] \in Permitted <=> stage[m] \in Permitted)
                \/ stage[m] \notin Permitted /\ stage'[m] \notin Permitted
    PROVE  PermitsAccounted'
<1>1. \A w \in Workers : Holding(w)' = Holding(w)
  BY DEF Holding
<1> QED
  BY <1>1 DEF PermitsAccounted

LEMMA PermitTaken ==
    ASSUME IInv, PermitsAccounted, NEW w \in Workers, AcquirePermit(w)
    PROVE  PermitsAccounted'
<1> DEFINE m == Head(permitQ[w])
<1>0. TypeOK /\ permitQ[w] \in Seq(Messages) /\ permitQ[w] # <<>> /\ Distinct(permitQ[w])
  BY DEF IInv, AcquirePermit, TypeOK, PermitQueueSane
<1>1. m \in Messages /\ reader[m] = w /\ stage[m] = "permit"
  BY <1>0, QueuePop DEF IInv, PermitQueueSane
<1>2. /\ permits[w] \in Nat /\ permits' = [permits EXCEPT ![w] = @ - 1]
      /\ reader' = reader /\ stage' = [stage EXCEPT ![m] = "lock"]
  BY <1>0 DEF AcquirePermit, TypeOK, stream
<1> HIDE DEF m
<1>3. \A v \in Workers : v # w => Holding(v)' = Holding(v)
  BY <1>0, <1>1, <1>2 DEF Holding, TypeOK
<1>4. Holding(w)' = Holding(w) \cup {m} /\ m \notin Holding(w)
  BY <1>0, <1>1, <1>2 DEF Holding, TypeOK, Permitted, Critical
<1>5. Cardinality(Holding(w) \cup {m}) = Cardinality(Holding(w)) + 1
  BY <1>4, HoldingFinite, FS_AddElement
<1>6. permits'[w] = permits[w] - 1 /\ \A v \in Workers : v # w => permits'[v] = permits[v]
  BY <1>0, <1>2 DEF TypeOK
<1>7. \A v \in Workers :
        permits[v] + Cardinality(Holding(v)) = MaxConcurrency /\ Cardinality(Holding(v)) \in Nat
  BY HoldingFinite DEF PermitsAccounted
<1>8. permits'[w] + Cardinality(Holding(w)') = MaxConcurrency
  BY <1>2, <1>4, <1>5, <1>6, <1>7
<1>9. \A v \in Workers : v # w => permits'[v] + Cardinality(Holding(v)') = MaxConcurrency
  BY <1>3, <1>6, <1>7
<1> QED
  BY <1>8, <1>9 DEF PermitsAccounted

LEMMA PermitGiven ==
    ASSUME IInv, PermitsAccounted, NEW m \in Messages, stage[m] \in Critical,
           NEW w \in Workers, reader[m] = w, UNCHANGED reader, Release(m),
           NEW to \in Settled, stage' = [stage EXCEPT ![m] = to]
    PROVE  PermitsAccounted'
<1>0. TypeOK
  BY DEF IInv
<1>1. permits[w] \in Nat /\ permits' = [permits EXCEPT ![w] = @ + 1]
  BY <1>0 DEF Release, TypeOK
<1>2. to \notin Permitted /\ stage[m] \in Permitted
  BY DEF Settled, Permitted, Critical
<1>3. \A v \in Workers : v # w => Holding(v)' = Holding(v)
  BY <1>0, <1>2 DEF Holding, TypeOK
<1>4. Holding(w)' = Holding(w) \ {m} /\ m \in Holding(w)
  BY <1>0, <1>2 DEF Holding, TypeOK
<1>5. Cardinality(Holding(w) \ {m}) = Cardinality(Holding(w)) - 1
  BY <1>4, HoldingFinite, FS_RemoveElement
<1>6. permits'[w] = permits[w] + 1 /\ \A v \in Workers : v # w => permits'[v] = permits[v]
  BY <1>0, <1>1 DEF TypeOK
<1>7. \A v \in Workers :
        permits[v] + Cardinality(Holding(v)) = MaxConcurrency /\ Cardinality(Holding(v)) \in Nat
  BY HoldingFinite DEF PermitsAccounted
<1>8. permits'[w] + Cardinality(Holding(w)') = MaxConcurrency
  BY <1>1, <1>4, <1>5, <1>6, <1>7
<1>9. \A v \in Workers : v # w => permits'[v] + Cardinality(Holding(v)') = MaxConcurrency
  BY <1>3, <1>6, <1>7
<1> QED
  BY <1>8, <1>9 DEF PermitsAccounted

LEMMA WorkerOfTask == IInv => \A m \in Messages : stage[m] \in Critical => reader[m] \in Workers
  BY DEF IInv, HasReader, InFlight, Permitted

LEMMA PermitsHalt ==
    ASSUME IInv, PermitsAccounted, NEW w \in Workers, Halt(w)
    PROVE  PermitsAccounted'
<1>0. TypeOK
  BY DEF IInv
<1>1. Holding(w)' = {}
  BY DEF Halt, Holding, Inflight, InFlight, Permitted, Critical, stream
<1>2. \A v \in Workers : v # w => Holding(v)' = Holding(v)
  BY <1>0 DEF Halt, Holding, Inflight, FetchedBy, stream
<1>3. permits'[w] = MaxConcurrency /\ \A v \in Workers : v # w => permits'[v] = permits[v]
  BY <1>0 DEF Halt, TypeOK
<1> QED
  BY <1>1, <1>2, <1>3, FS_EmptySet, InboundAssumption DEF PermitsAccounted

LEMMA NextPermits == IInv /\ PermitsAccounted /\ [Next]_vars => PermitsAccounted'
<1> SUFFICES ASSUME IInv, PermitsAccounted, [Next]_vars PROVE PermitsAccounted'
  OBVIOUS
<1> USE DEF Permitted, Critical, stream, locks
<1>0. TypeOK
  BY DEF IInv
<1>1. ASSUME NEW m \in Messages, Publish(m) PROVE PermitsAccounted'
  BY <1>0, <1>1, PermitsFrame DEF Publish, TypeOK
<1>2. ASSUME NEW m \in Messages, Handle(m) PROVE PermitsAccounted'
  <2>1. CASE SkipBlank(m) \/ RecordUser(m) \/ AgentReady(m)
    BY <1>0, <2>1, PermitsFrame DEF SkipBlank, RecordUser, AgentReady, Step, TypeOK
  <2>2. CASE StreamText(m) \/ StreamDone(m) \/ EndStream(m)
    BY <1>0, <2>2, PermitsFrame DEF StreamText, StreamDone, EndStream, Step, TypeOK
  <2>3. CASE RecordReply(m) \/ Fail(m) \/ FinishFailure(m)
    BY <1>0, <2>3, PermitsFrame DEF RecordReply, Fail, FinishFailure, Step, TypeOK
  <2>4. CASE Ack(m)
    BY <2>4, PermitGiven, WorkerOfTask DEF Ack, Step, Settled
  <2>5. CASE Abandon(m)
    BY <2>5, PermitGiven, WorkerOfTask DEF Abandon, Step, Settled
  <2> QED
    BY <1>2, <2>1, <2>2, <2>3, <2>4, <2>5 DEF Handle
<1>3. ASSUME NEW w \in Workers, Start(w) \/ PassGate(w) PROVE PermitsAccounted'
  BY <1>3, PermitsFrame DEF Start, PassGate
<1>4. ASSUME NEW w \in Workers, Read(w) \/ LoseReply(w) PROVE PermitsAccounted'
  <2>1. \A m \in NewEntries : stage[m] = "sent"
    BY DEF NewEntries, UnreadUntouched, IInv
  <2> QED
    BY <1>4, <2>1, PermitsFrame DEF Read, LoseReply, Deliver
<1>4a. ASSUME NEW w \in Workers, BreakReply(w) PROVE PermitsAccounted'
  BY <1>4a, BreakMoves, PermitsFrame
<1>5. ASSUME NEW w \in Workers, NEW m \in Messages, Spawn(w, m) PROVE PermitsAccounted'
  <2>1. stage[m] = "fetched"
    BY <1>5 DEF Spawn, NextInReply, FetchedBy
  <2> QED
    BY <1>0, <1>5, <2>1, PermitsFrame DEF Spawn, TypeOK
<1>6. ASSUME NEW w \in Workers, AcquirePermit(w) \/ Halt(w) PROVE PermitsAccounted'
  BY <1>6, PermitTaken, PermitsHalt
<1>7. ASSUME NEW w \in Workers, NEW s \in Sessions, AcquireSession(w, s) PROVE PermitsAccounted'
  <2> DEFINE m == Head(lockQ[w][s])
  <2>1. lockQ \in [Workers -> [Sessions -> Seq(Messages)]]
    BY <1>0 DEF TypeOK
  <2>2. lockQ[w][s] \in Seq(Messages) /\ lockQ[w][s] # <<>> /\ Distinct(lockQ[w][s])
    BY <1>7, <2>1 DEF AcquireSession, IInv, LockQueueSane
  <2>3. m \in Messages /\ stage[m] = "lock"
    BY <2>2, QueuePop DEF IInv, LockQueueSane
  <2>4. stage' = [stage EXCEPT ![m] = "begin"] /\ permits' = permits /\ reader' = reader
    BY <1>7 DEF AcquireSession
  <2> QED
    BY <1>0, <2>3, <2>4, PermitsFrame DEF TypeOK
<1>8. CASE UNCHANGED vars
  BY <1>8, PermitsFrame DEF vars
<1> QED
  BY <1>1, <1>2, <1>3, <1>4, <1>4a, <1>5, <1>6, <1>7, <1>8 DEF Next, Consume

(* INBOUND_MAX_CONCURRENCY: whatever fails, no permit is lost or made up,  *)
(* so at most MaxConcurrency tasks of a process ever hold one.             *)
THEOREM Permits == Spec => []PermitsAccounted
<1>1. Init => PermitsAccounted
  <2> SUFFICES ASSUME Init PROVE PermitsAccounted
    OBVIOUS
  <2>1. \A w \in Workers : Holding(w) = {} /\ permits[w] = MaxConcurrency
    BY DEF Init, Holding, Permitted, Critical
  <2> QED
    BY <2>1, FS_EmptySet, InboundAssumption DEF PermitsAccounted
<1> QED
  BY <1>1, Invariance, NextPermits, PTL DEF Spec

-----------------------------------------------------------------------------
(* Answers.  "done" is published before the task comes to its XACK on      *)
(* every path but the one of a blank message.                              *)
HasDone(m) == \E i \in DOMAIN out[m] : out[m][i] = "done"

Answered ==
    \A m \in Messages :
        stage[m] \in {"drained", "reply", "ack", "acked"} => m \in Blank \/ HasDone(m)

LEMMA AppendHas ==
    ASSUME NEW S, NEW q \in Seq(S), NEW e \in S
    PROVE  /\ \E i \in DOMAIN Append(q, e) : Append(q, e)[i] = e
           /\ \A i \in DOMAIN q : i \in DOMAIN Append(q, e) /\ Append(q, e)[i] = q[i]
<1>1. /\ DOMAIN Append(q, e) = 1 .. Len(q) + 1 /\ Append(q, e)[Len(q) + 1] = e
      /\ DOMAIN q = 1 .. Len(q) /\ Len(q) \in Nat
      /\ \A i \in 1 .. Len(q) : Append(q, e)[i] = q[i]
  OBVIOUS
<1> QED
  BY <1>1

LEMMA EmitHas ==
    ASSUME TypeOK, NEW m \in Messages, NEW e \in {"text", "error", "done"}, Emit(m, e)
    PROVE  /\ e = "done" => HasDone(m)'
           /\ \A n \in Messages : HasDone(n) => HasDone(n)'
<1>1. out[m] \in Seq({"text", "error", "done"}) /\ out \in [Messages -> Seq({"text", "error", "done"})]
  BY DEF TypeOK
<1>2. out'[m] = Append(out[m], e) /\ \A n \in Messages : n # m => out'[n] = out[n]
  BY <1>1 DEF Emit
<1> DEFINE S == {"text", "error", "done"}
           q == out[m]
           a == Append(q, e)
<1> HIDE DEF S, q
<1>0. q \in Seq(S) /\ e \in S
  BY <1>1 DEF S, q
<1>3. /\ \E i \in DOMAIN a : a[i] = e
      /\ \A i \in DOMAIN q : i \in DOMAIN a /\ a[i] = q[i]
  BY <1>0, AppendHas
<1>4. /\ HasDone(m) <=> \E i \in DOMAIN q : q[i] = "done"
      /\ HasDone(m)' <=> \E i \in DOMAIN a : a[i] = "done"
  BY <1>2 DEF HasDone, q
<1> HIDE DEF a
<1>5. (e = "done" => HasDone(m)') /\ (HasDone(m) => HasDone(m)')
  BY <1>3, <1>4
<1>6. \A n \in Messages : n # m /\ HasDone(n) => HasDone(n)'
  BY <1>2 DEF HasDone
<1> QED
  BY <1>5, <1>6

LEMMA AnsweredFrame ==
    ASSUME Answered, UNCHANGED out,
           \A m \in Messages :
                stage'[m] \in {"drained", "reply", "ack", "acked"} =>
                    m \in Blank \/ stage[m] \in {"drained", "reply", "ack", "acked"}
    PROVE  Answered'
BY DEF Answered, HasDone

LEMMA NextAnswered == TypeOK /\ Answered /\ [Next]_vars => Answered'
<1> SUFFICES ASSUME TypeOK, Answered, [Next]_vars PROVE Answered'
  OBVIOUS
<1>0. stage \in [Messages -> Stages]
  BY DEF TypeOK
<1>1. ASSUME NEW m \in Messages, Publish(m) PROVE Answered'
  BY <1>0, <1>1, AnsweredFrame DEF Publish
<1>2. ASSUME NEW m \in Messages, Handle(m) PROVE Answered'
  <2>1. CASE SkipBlank(m) \/ RecordUser(m) \/ AgentReady(m)
    BY <1>0, <2>1, AnsweredFrame DEF SkipBlank, RecordUser, AgentReady, Step
  <2>2. CASE EndStream(m)
    BY <1>0, <2>2, AnsweredFrame DEF EndStream, Step
  <2>3. CASE RecordReply(m) \/ Ack(m) \/ Abandon(m)
    BY <1>0, <2>3, AnsweredFrame DEF RecordReply, Ack, Abandon, Step
  <2>4. CASE StreamText(m)
    BY <2>4, EmitHas DEF StreamText, Answered
  <2>5. CASE Fail(m)
    <3>1. \A n \in Messages : HasDone(n) => HasDone(n)'
      BY <2>5, EmitHas DEF Fail
    <3> QED
      BY <1>0, <2>5, <3>1 DEF Fail, Step, Answered
  <2>6. CASE StreamDone(m) \/ FinishFailure(m)
    <3>1. HasDone(m)' /\ \A n \in Messages : HasDone(n) => HasDone(n)'
      BY <2>6, EmitHas DEF StreamDone, FinishFailure
    <3> QED
      BY <1>0, <2>6, <3>1 DEF StreamDone, FinishFailure, Step, Answered
  <2> QED
    BY <1>2, <2>1, <2>2, <2>3, <2>4, <2>5, <2>6 DEF Handle
<1>3. ASSUME NEW w \in Workers, Consume(w) PROVE Answered'
  <2>1. CASE Start(w) \/ PassGate(w)
    BY <1>0, <2>1, AnsweredFrame DEF Start, PassGate
  <2>2. ASSUME NEW m \in Messages, Spawn(w, m) PROVE Answered'
    BY <1>0, <2>2, AnsweredFrame DEF Spawn
  <2>3. CASE Read(w) \/ LoseReply(w)
    BY <1>0, <2>3, AnsweredFrame DEF Read, LoseReply, Deliver
  <2>4. CASE BreakReply(w)
    BY <2>4, BreakMoves, AnsweredFrame
  <2> QED
    BY <1>3, <2>1, <2>2, <2>3, <2>4 DEF Consume
<1>4. ASSUME NEW w \in Workers, AcquirePermit(w) PROVE Answered'
  <2> DEFINE m == Head(permitQ[w])
  <2>1. stage' = [stage EXCEPT ![m] = "lock"] /\ out' = out
    BY <1>4 DEF AcquirePermit
  <2> HIDE DEF m
  <2> QED
    BY <1>0, <2>1, AnsweredFrame
<1>5. ASSUME NEW w \in Workers, Halt(w) PROVE Answered'
  BY <1>0, <1>5, AnsweredFrame DEF Halt
<1>6. ASSUME NEW w \in Workers, NEW s \in Sessions, AcquireSession(w, s) PROVE Answered'
  <2> DEFINE m == Head(lockQ[w][s])
  <2>1. stage' = [stage EXCEPT ![m] = "begin"] /\ out' = out
    BY <1>6 DEF AcquireSession
  <2> HIDE DEF m
  <2> QED
    BY <1>0, <2>1, AnsweredFrame
<1>7. CASE UNCHANGED vars
  BY <1>7, AnsweredFrame DEF vars
<1> QED
  BY <1>1, <1>2, <1>3, <1>4, <1>5, <1>6, <1>7 DEF Next

(* The XACK of _handle_message comes after the answer was closed with      *)
(* "done", whichever way the turn went.                                    *)
THEOREM Acknowledged == Spec => []AckedIsAnswered
<1>1. Init => Answered
  BY DEF Init, Answered
<1>2. Answered => AckedIsAnswered
  BY DEF Answered, HasDone, AckedIsAnswered
<1> QED
  BY <1>1, <1>2, TypeCorrect, NextAnswered, PTL DEF Spec

-----------------------------------------------------------------------------
(* A message is stored once per speaker, over all processes: its stage     *)
(* tells whether it has been.                                              *)
(* What is appended to a transcript.                                       *)
LEMMA StoredIs ==
    ASSUME TypeOK, NEW m \in Messages, NEW who \in {"user", "assistant"}, Store(m, who)
    PROVE  /\ SessionOf[m] \in Sessions
           /\ Len(transcript[SessionOf[m]]) \in Nat
           /\ transcript'[SessionOf[m]] \in Seq(Turn)
           /\ Len(transcript'[SessionOf[m]]) = Len(transcript[SessionOf[m]]) + 1
           /\ transcript'[SessionOf[m]][Len(transcript[SessionOf[m]]) + 1] = [who |-> who, msg |-> m]
           /\ \A i \in DOMAIN transcript[SessionOf[m]] :
                 transcript'[SessionOf[m]][i] = transcript[SessionOf[m]][i]
           /\ \A s \in Sessions : s # SessionOf[m] => transcript'[s] = transcript[s]
<1> DEFINE q == transcript[SessionOf[m]]
<1> DEFINE e == [who |-> who, msg |-> m]
<1>1. SessionOf[m] \in Sessions /\ q \in Seq(Turn) /\ e \in Turn
  BY InboundAssumption DEF TypeOK, Turn
<1>2. transcript' = [transcript EXCEPT ![SessionOf[m]] = Append(q, e)] /\ transcript \in [Sessions -> Seq(Turn)]
  BY DEF Store, TypeOK
<1>3. transcript'[SessionOf[m]] = Append(q, e) /\ \A s \in Sessions : s # SessionOf[m] => transcript'[s] = transcript[s]
  BY <1>1, <1>2
<1> HIDE DEF q, e
<1>4. /\ Len(q) \in Nat /\ Append(q, e) \in Seq(Turn) /\ Len(Append(q, e)) = Len(q) + 1
      /\ Append(q, e)[Len(q) + 1] = e /\ \A i \in DOMAIN q : Append(q, e)[i] = q[i]
  BY <1>1
<1> QED
  BY <1>1, <1>3, <1>4 DEF q, e

(* A question is stored after "begin", an answer before "ack".             *)
Unasked == {"unsent", "sent", "fetched", "permit", "lock", "begin"}
Replied == {"ack", "acked", "stranded"}

StoredByStage ==
    \A s \in Sessions : \A i \in DOMAIN transcript[s] :
        /\ transcript[s][i].who = "user" => stage[transcript[s][i].msg] \notin Unasked
        /\ transcript[s][i].who = "assistant" => stage[transcript[s][i].msg] \in Replied

OnceIInv == StoredByStage /\ RecordedOnce

LEMMA OnceQuiet ==
    ASSUME TypeOK, OnceIInv, UNCHANGED transcript,
           \A n \in Messages : /\ stage'[n] \in Unasked => stage[n] \in Unasked
                               /\ stage[n] \in Replied => stage'[n] \in Replied
    PROVE  OnceIInv'
<1>1. ASSUME NEW s \in Sessions, NEW i \in DOMAIN transcript[s] PROVE transcript[s][i].msg \in Messages
  <2>1. transcript[s] \in Seq(Turn)
    BY DEF TypeOK
  <2>2. transcript[s][i] \in Turn
    BY <2>1
  <2> QED
    BY <2>2 DEF Turn
<1>2. StoredByStage'
  BY <1>1 DEF OnceIInv, StoredByStage
<1> QED
  BY <1>2 DEF OnceIInv, RecordedOnce

LEMMA OnceStored ==
    ASSUME TypeOK, OnceIInv, NEW m \in Messages, NEW who \in {"user", "assistant"}, Store(m, who),
           NEW to, stage' = [stage EXCEPT ![m] = to],
           IF who = "user" THEN stage[m] \in Unasked /\ to \notin Unasked /\ stage[m] \notin Replied
                           ELSE stage[m] \notin Replied /\ to \in Replied /\ to \notin Unasked
    PROVE  OnceIInv'
<1> DEFINE s == SessionOf[m]
<1> DEFINE a == transcript[s]
<1> DEFINE b == transcript'[s]
<1> DEFINE e == [who |-> who, msg |-> m]
<1>1. stage'[m] = to /\ \A n \in Messages : n # m => stage'[n] = stage[n]
  BY DEF TypeOK
<1>2. transcript \in [Sessions -> Seq(Turn)] /\ s \in Sessions /\ a \in Seq(Turn)
  BY InboundAssumption DEF TypeOK
<1>3. /\ b \in Seq(Turn) /\ Len(b) = Len(a) + 1 /\ Len(a) \in Nat /\ b[Len(a) + 1] = e
      /\ \A i \in DOMAIN a : b[i] = a[i]
      /\ \A r \in Sessions : r # s => transcript'[r] = transcript[r]
  BY StoredIs
<1>4. e.who = who /\ e.msg = m
  OBVIOUS
<1> HIDE DEF a, b, e
<1>5. \A i \in DOMAIN b : i \in DOMAIN a \/ i = Len(a) + 1
  BY <1>2, <1>3
<1>6. \A i \in DOMAIN a : a[i] # e
  <2> SUFFICES ASSUME NEW i \in DOMAIN a, a[i] = e PROVE FALSE
    OBVIOUS
  <2>1. /\ a[i].who = "user" => stage[a[i].msg] \notin Unasked
        /\ a[i].who = "assistant" => stage[a[i].msg] \in Replied
    BY <1>2 DEF a, OnceIInv, StoredByStage
  <2> QED
    BY <1>4, <2>1
<1>7. ASSUME NEW r \in Sessions, NEW i \in DOMAIN transcript[r]
      PROVE  LET x == transcript[r][i] IN
             /\ x.who = "user" => stage'[x.msg] \notin Unasked
             /\ x.who = "assistant" => stage'[x.msg] \in Replied
  <2> DEFINE x == transcript[r][i]
  <2>1. transcript[r] \in Seq(Turn)
    BY <1>2
  <2>2. x \in Turn
    BY <2>1
  <2>3. x.msg \in Messages
    BY <2>2 DEF Turn
  <2>4. /\ x.who = "user" => stage[x.msg] \notin Unasked
        /\ x.who = "assistant" => stage[x.msg] \in Replied
    BY DEF OnceIInv, StoredByStage
  <2> QED
    BY <1>1, <2>3, <2>4
<1>8. StoredByStage'
  <2> SUFFICES ASSUME NEW r \in Sessions, NEW i \in DOMAIN transcript'[r]
               PROVE  LET x == transcript'[r][i] IN
                      /\ x.who = "user" => stage'[x.msg] \notin Unasked
                      /\ x.who = "assistant" => stage'[x.msg] \in Replied
    BY DEF StoredByStage
  <2>1. CASE r # s
    BY <1>3, <1>7, <2>1
  <2>2. CASE r = s /\ i \in DOMAIN a
    BY <1>3, <1>7, <2>2 DEF a, b
  <2>3. CASE r = s /\ i = Len(a) + 1
    <3>1. transcript'[r][i] = e
      BY <1>3, <2>3 DEF b
    <3> QED
      BY <1>1, <1>4, <3>1
  <2> QED
    BY <1>5, <2>1, <2>2, <2>3 DEF b
<1>9. RecordedOnce'
  <2> SUFFICES ASSUME NEW r \in Sessions, NEW i \in DOMAIN transcript'[r], NEW j \in DOMAIN transcript'[r],
                      transcript'[r][i] = transcript'[r][j]
               PROVE  i = j
    BY DEF RecordedOnce
  <2>1. CASE r # s
    BY <1>3, <2>1 DEF OnceIInv, RecordedOnce
  <2>2. CASE r = s
    <3>1. /\ i \in DOMAIN b /\ j \in DOMAIN b /\ b[i] = b[j]
          /\ \A k, l \in DOMAIN a : a[k] = a[l] => k = l
      BY <1>2, <2>2 DEF a, b, OnceIInv, RecordedOnce
    <3> QED
      BY <1>3, <1>5, <1>6, <3>1
  <2> QED
    BY <2>1, <2>2
<1> QED
  BY <1>8, <1>9 DEF OnceIInv

LEMMA NextOnce == IInv /\ OnceIInv /\ [Next]_vars => OnceIInv'
<1> SUFFICES ASSUME IInv, OnceIInv, [Next]_vars PROVE OnceIInv'
  OBVIOUS
<1>0. TypeOK /\ UnreadUntouched
  BY DEF IInv
\* The task of one message moves on and stores nothing.
<1>a. ASSUME NEW m \in Messages, NEW to, stage' = [stage EXCEPT ![m] = to], UNCHANGED transcript,
             to \in Unasked => stage[m] \in Unasked, stage[m] \in Replied => to \in Replied
      PROVE  OnceIInv'
  BY <1>a, <1>0, OnceQuiet DEF TypeOK
<1> USE DEF Unasked, Replied
<1>1. ASSUME NEW m \in Messages, Publish(m) PROVE OnceIInv'
  BY <1>1, <1>a DEF Publish
<1>2. ASSUME NEW m \in Messages, Handle(m) PROVE OnceIInv'
  <2>1. CASE RecordUser(m)
    BY <2>1, <1>0, OnceStored DEF RecordUser, Step
  <2>2. CASE RecordReply(m)
    BY <2>2, <1>0, OnceStored DEF RecordReply, Step
  <2>3. CASE StreamText(m)
    BY <2>3, <1>0, OnceQuiet DEF StreamText
  <2>4. ASSUME NEW from \in Critical, NEW to \in (Critical \ {"begin"}) \union Settled,
               Step(m, from, to), UNCHANGED transcript, from = "ack" => to \in Settled
        PROVE  OnceIInv'
    BY <2>4, <1>a DEF Step, Critical, Settled
  <2>5. CASE SkipBlank(m) \/ AgentReady(m) \/ StreamDone(m) \/ FinishFailure(m) \/ Ack(m)
    BY <2>4, <2>5 DEF SkipBlank, AgentReady, StreamDone, FinishFailure, Ack, Critical, Settled
  <2>6. CASE EndStream(m)
    <3>1. PICK to \in {"reply", "ack"} : Step(m, "drained", to)
      BY <2>6 DEF EndStream
    <3> QED
      BY <2>4, <2>6, <3>1 DEF EndStream, Critical
  <2>7. CASE Fail(m)
    <3>1. PICK from \in {"begin", "recorded", "running", "drained"} : Step(m, from, "failing")
      BY <2>7 DEF Fail
    <3> QED
      BY <2>4, <2>7, <3>1 DEF Fail, Critical
  <2>8. CASE Abandon(m)
    <3>1. PICK from \in Critical : Step(m, from, "stranded")
      BY <2>8 DEF Abandon
    <3> QED
      BY <2>4, <2>8, <3>1 DEF Abandon, Settled
  <2> QED
    BY <1>2, <2>1, <2>2, <2>3, <2>5, <2>6, <2>7, <2>8 DEF Handle
<1>3. ASSUME NEW w \in Workers, Consume(w) PROVE OnceIInv'
  <2>1. CASE Start(w) \/ PassGate(w)
    BY <2>1, <1>0, OnceQuiet DEF Start, PassGate
  <2>2. ASSUME NEW to \in {"fetched", "stranded"}, Deliver(w, to) PROVE OnceIInv'
    <3>1. \A n \in NewEntries : stage[n] = "sent"
      BY <1>0 DEF NewEntries, UnreadUntouched
    <3> QED
      BY <2>2, <3>1, <1>0, OnceQuiet DEF Deliver
  <2>3. CASE Read(w) \/ LoseReply(w)
    BY <2>2, <2>3 DEF Read, LoseReply
  <2>4. ASSUME NEW m \in Messages, Spawn(w, m) PROVE OnceIInv'
    BY <2>4, <1>a DEF Spawn, NextInReply, FetchedBy
  <2>5. CASE BreakReply(w)
    BY <2>5, <1>0, BreakMoves, OnceQuiet
  <2> QED
    BY <1>3, <2>1, <2>3, <2>4, <2>5 DEF Consume
<1>4. ASSUME NEW w \in Workers, AcquirePermit(w) PROVE OnceIInv'
  <2> DEFINE m == Head(permitQ[w])
  <2>1. m \in Messages /\ stage[m] = "permit"
    <3>1. permitQ[w] \in Seq(Messages) /\ permitQ[w] # <<>> /\ PermitQueueSane
      BY <1>0, <1>4 DEF AcquirePermit, TypeOK, IInv
    <3>2. 1 \in DOMAIN permitQ[w] /\ m = permitQ[w][1] /\ m \in Messages
      BY <3>1
    <3> QED
      BY <3>1, <3>2 DEF PermitQueueSane
  <2> QED
    BY <1>4, <2>1, <1>a DEF AcquirePermit
<1>5. ASSUME NEW w \in Workers, NEW s \in Sessions, AcquireSession(w, s) PROVE OnceIInv'
  <2> DEFINE m == Head(lockQ[w][s])
  <2>1. m \in Messages /\ stage[m] = "lock"
    <3>1. lockQ[w][s] \in Seq(Messages) /\ lockQ[w][s] # <<>> /\ LockQueueSane
      BY <1>0, <1>5 DEF AcquireSession, TypeOK, IInv
    <3>2. 1 \in DOMAIN lockQ[w][s] /\ m = lockQ[w][s][1] /\ m \in Messages
      BY <3>1
    <3> QED
      BY <3>1, <3>2 DEF LockQueueSane
  <2> QED
    BY <1>5, <2>1, <1>a DEF AcquireSession
<1>6. ASSUME NEW w \in Workers, Halt(w) PROVE OnceIInv'
  <2> DEFINE lost == Inflight(w) \cup FetchedBy(w)
  <2>1. UNCHANGED transcript /\ stage' = [m \in Messages |-> IF m \in lost THEN "stranded" ELSE stage[m]]
    BY <1>6 DEF Halt
  <2> HIDE DEF lost
  <2> QED
    BY <2>1, <1>0, OnceQuiet
<1>7. CASE UNCHANGED vars
  BY <1>7, <1>0, OnceQuiet DEF vars
<1> QED
  BY <1>1, <1>2, <1>3, <1>4, <1>5, <1>6, <1>7 DEF Next

(* For any number of processes, messages, sessions and restarts: Redis hands *)
(* a message to one task only, and its turn stores each side of it once.     *)
THEOREM Once == Spec => []RecordedOnce
<1>1. Init => OnceIInv
  BY DEF Init, OnceIInv, StoredByStage, RecordedOnce
<1>2. OnceIInv => RecordedOnce
  BY DEF OnceIInv
<1> QED
  BY <1>1, <1>2, NextOnce, InitIInv, NextIInv, PTL DEF Spec

-----------------------------------------------------------------------------
(* The counter of the messages in work.                                    *)

(* What the actions of a process do to the stage of the task they move.     *)
LEMMA HandleMoves ==
    ASSUME IInv, NEW m \in Messages, Handle(m)
    PROVE  /\ UNCHANGED <<entry, length, grouped, cursor, reader, loop, permitQ, lockQ>>
           /\ stage[m] \in Critical /\ stage'[m] \in (Critical \ {"begin"}) \cup Settled
           /\ \A n \in Messages : n # m => stage'[n] = stage[n]
           /\ UNCHANGED transcript \/ RecordUser(m) \/ RecordReply(m)
<1> USE DEF Critical, Settled, Step, stream, locks
<1>0. stage \in [Messages -> Stages]
  BY DEF IInv, TypeOK
<1>1. CASE SkipBlank(m) \/ RecordUser(m) \/ AgentReady(m)
  BY <1>0, <1>1 DEF SkipBlank, RecordUser, AgentReady
<1>2. CASE StreamText(m) \/ StreamDone(m)
  BY <1>0, <1>2 DEF StreamText, StreamDone
<1>3. CASE EndStream(m) \/ RecordReply(m)
  BY <1>0, <1>3 DEF EndStream, RecordReply
<1>4. CASE Fail(m) \/ FinishFailure(m)
  BY <1>0, <1>4 DEF Fail, FinishFailure
<1>5. CASE Ack(m) \/ Abandon(m)
  BY <1>0, <1>5 DEF Ack, Abandon, Release
<1> QED
  BY <1>1, <1>2, <1>3, <1>4, <1>5 DEF Handle

LEMMA PermitMoves ==
    ASSUME IInv, NEW w \in Workers, AcquirePermit(w)
    PROVE  \E m \in Messages :
              /\ m = Head(permitQ[w]) /\ permitQ[w] \in Seq(Messages) /\ permitQ[w] # <<>>
              /\ reader[m] = w /\ stage[m] = "permit"
              /\ stage' = [stage EXCEPT ![m] = "lock"]
              /\ permitQ' = [permitQ EXCEPT ![w] = Tail(permitQ[w])]
              /\ lockQ' = [lockQ EXCEPT ![w][SessionOf[m]] = Append(lockQ[w][SessionOf[m]], m)]
              /\ UNCHANGED <<entry, length, grouped, cursor, reader, transcript, loop>>
<1> DEFINE m == Head(permitQ[w])
<1>0. permitQ[w] \in Seq(Messages) /\ permitQ[w] # <<>> /\ Distinct(permitQ[w])
  BY DEF IInv, AcquirePermit, TypeOK, PermitQueueSane
<1>1. m \in Messages /\ reader[m] = w /\ stage[m] = "permit"
  BY <1>0, QueuePop DEF IInv, PermitQueueSane
<1>2. SessionOf[m] \in Sessions /\ lockQ \in [Workers -> [Sessions -> Seq(Messages)]]
  BY <1>1, InboundAssumption DEF IInv, TypeOK
<1>3. /\ stage' = [stage EXCEPT ![m] = "lock"]
      /\ permitQ' = [permitQ EXCEPT ![w] = Tail(permitQ[w])]
      /\ lockQ' = [lockQ EXCEPT ![w][SessionOf[m]] = Append(lockQ[w][SessionOf[m]], m)]
      /\ UNCHANGED <<entry, length, grouped, cursor, reader, transcript, loop>>
  BY DEF AcquirePermit, stream
<1> HIDE DEF m
<1>4. m = Head(permitQ[w])
  BY DEF m
<1> QED
  BY <1>0, <1>1, <1>3, <1>4

LEMMA SessionMoves ==
    ASSUME IInv, NEW w \in Workers, NEW s \in Sessions, AcquireSession(w, s)
    PROVE  \E m \in Messages :
              /\ m = Head(lockQ[w][s]) /\ lockQ[w][s] \in Seq(Messages) /\ lockQ[w][s] # <<>>
              /\ reader[m] = w /\ stage[m] = "lock" /\ SessionOf[m] = s
              /\ stage' = [stage EXCEPT ![m] = "begin"]
              /\ lockQ' = [lockQ EXCEPT ![w][s] = Tail(lockQ[w][s])]
              /\ UNCHANGED <<entry, length, grouped, cursor, reader, transcript, loop, permitQ>>
<1> DEFINE m == Head(lockQ[w][s])
<1>0. lockQ[w][s] \in Seq(Messages) /\ lockQ[w][s] # <<>> /\ Distinct(lockQ[w][s])
  BY DEF IInv, AcquireSession, TypeOK, LockQueueSane
<1>1. m \in Messages /\ reader[m] = w /\ stage[m] = "lock" /\ SessionOf[m] = s
  BY <1>0, QueuePop DEF IInv, LockQueueSane
<1>2. /\ stage' = [stage EXCEPT ![m] = "begin"]
      /\ lockQ' = [lockQ EXCEPT ![w][s] = Tail(lockQ[w][s])]
      /\ UNCHANGED <<entry, length, grouped, cursor, reader, transcript, loop, permitQ>>
  BY DEF AcquireSession, stream
<1> HIDE DEF m
<1>3. m = Head(lockQ[w][s])
  BY DEF m
<1> QED
  BY <1>0, <1>1, <1>2, <1>3

(* A delivery touches messages nobody has read, and whoever delivers has    *)
(* nothing of them yet.                                                     *)
LEMMA DeliverMoves ==
    ASSUME IInv, NEW w \in Workers, NEW to \in {"fetched", "stranded"}, Deliver(w, to)
    PROVE  /\ \A m \in NewEntries : stage[m] = "sent" /\ reader'[m] = w /\ stage'[m] = to
           /\ \A m \in Messages \ NewEntries : reader'[m] = reader[m] /\ stage'[m] = stage[m]
           /\ UNCHANGED <<entry, length, grouped, transcript, permitQ, lockQ>>
<1>1. \A m \in NewEntries : m \in Messages /\ stage[m] = "sent"
  BY DEF NewEntries, UnreadUntouched, IInv
<1> QED
  BY <1>1 DEF Deliver, locks

-----------------------------------------------------------------------------
(* Entries.  A message that is sent has a place in its stream, and no other *)
(* message has it.                                                          *)
EntriesSane ==
    /\ \A m \in Messages : entry[m] <= length[StreamOf[m]]
    /\ \A m \in Messages : stage[m] = "unsent" <=> entry[m] = 0
    /\ \A m, n \in Messages :
          StreamOf[m] = StreamOf[n] /\ entry[m] = entry[n] /\ entry[m] # 0 => m = n

LEMMA EntriesQuiet ==
    ASSUME EntriesSane, UNCHANGED <<entry, length>>,
           \A m \in Messages : stage'[m] = "unsent" <=> stage[m] = "unsent"
    PROVE  EntriesSane'
  BY DEF EntriesSane

LEMMA NextEntries == IInv /\ EntriesSane /\ [Next]_vars => EntriesSane'
<1> SUFFICES ASSUME IInv, EntriesSane, [Next]_vars PROVE EntriesSane'
  OBVIOUS
<1>0. TypeOK
  BY DEF IInv
<1>1. ASSUME NEW m \in Messages, Publish(m) PROVE EntriesSane'
  <2> DEFINE k == StreamOf[m]
  <2>1. k \in Streams /\ length \in [Streams -> Nat] /\ entry \in [Messages -> Nat] /\ stage \in [Messages -> Stages]
    BY <1>0, InboundAssumption DEF TypeOK
  <2>2. /\ length'[k] = length[k] + 1 /\ entry'[m] = length[k] + 1 /\ stage'[m] = "sent" /\ length[k] \in Nat
        /\ \A n \in Messages : n # m => entry'[n] = entry[n] /\ stage'[n] = stage[n] /\ entry[n] \in Nat
        /\ \A j \in Streams : j # k => length'[j] = length[j]
    BY <1>1, <2>1 DEF Publish
  <2>3. \A n \in Messages : StreamOf[n] \in Streams
    BY InboundAssumption
  <2>4. \A n \in Messages : entry'[n] <= length'[StreamOf[n]]
    <3> TAKE n \in Messages
    <3>1. CASE n = m BY <2>2, <3>1
    <3>2. CASE n # m /\ StreamOf[n] = k BY <2>2, <3>2 DEF EntriesSane
    <3>3. CASE n # m /\ StreamOf[n] # k BY <2>2, <2>3, <3>3 DEF EntriesSane
    <3> QED BY <3>1, <3>2, <3>3
  <2>5. \A n \in Messages : n # m /\ StreamOf[n] = k => entry'[n] < entry'[m]
    BY <2>2 DEF EntriesSane
  <2>6. \A n \in Messages : stage'[n] = "unsent" <=> entry'[n] = 0
    BY <2>2 DEF EntriesSane
  <2>7. \A n, p \in Messages :
          StreamOf[n] = StreamOf[p] /\ entry'[n] = entry'[p] /\ entry'[n] # 0 => n = p
    <3> SUFFICES ASSUME NEW n \in Messages, NEW p \in Messages, n # p,
                        StreamOf[n] = StreamOf[p], entry'[n] = entry'[p], entry'[n] # 0
                 PROVE  FALSE
      OBVIOUS
    <3>1. CASE n = m BY <2>2, <2>5, <3>1
    <3>2. CASE p = m BY <2>2, <2>5, <3>2
    <3>3. CASE n # m /\ p # m BY <2>2, <3>3 DEF EntriesSane
    <3> QED BY <3>1, <3>2, <3>3
  <2> QED
    BY <2>4, <2>6, <2>7 DEF EntriesSane
<1>2. ASSUME NEW m \in Messages, Handle(m) PROVE EntriesSane'
  BY <1>2, HandleMoves, EntriesQuiet DEF Critical, Settled
<1>3. ASSUME NEW w \in Workers, Consume(w) PROVE EntriesSane'
  <2>1. CASE Start(w) \/ PassGate(w)
    BY <2>1, EntriesQuiet DEF Start, PassGate, stream
  <2>2. CASE Read(w) \/ LoseReply(w)
    BY <2>2, DeliverMoves, EntriesQuiet DEF Read, LoseReply
  <2>3. ASSUME NEW m \in Messages, Spawn(w, m) PROVE EntriesSane'
    BY <1>0, <2>3, EntriesQuiet DEF Spawn, NextInReply, FetchedBy, stream, TypeOK
  <2>4. CASE BreakReply(w)
    BY <2>4, BreakMoves, EntriesQuiet
  <2> QED
    BY <1>3, <2>1, <2>2, <2>3, <2>4 DEF Consume
<1>4. ASSUME NEW w \in Workers, AcquirePermit(w) PROVE EntriesSane'
  BY <1>0, <1>4, PermitMoves, EntriesQuiet DEF TypeOK
<1>5. ASSUME NEW w \in Workers, NEW s \in Sessions, AcquireSession(w, s) PROVE EntriesSane'
  BY <1>0, <1>5, SessionMoves, EntriesQuiet DEF TypeOK
<1>6. ASSUME NEW w \in Workers, Halt(w) PROVE EntriesSane'
  BY <1>0, <1>6, EntriesQuiet DEF Halt, Inflight, FetchedBy, InFlight, Permitted, Critical, stream, TypeOK
<1>7. CASE UNCHANGED vars
  BY <1>7, EntriesQuiet DEF vars, stream
<1> QED
  BY <1>1, <1>2, <1>3, <1>4, <1>5, <1>6, <1>7 DEF Next

-----------------------------------------------------------------------------
(* The gate.  A reply has at most ReadCount entries of each stream, and the *)
(* loop asks for one while fewer than MaxConcurrency tasks are in flight.   *)
MaxInflight == MaxConcurrency - 1 + ReadCount * NumStreams

GateFits(at, running, fetched) ==
    /\ Cardinality(running \cup fetched) <= MaxInflight
    /\ at # "spawning" => fetched = {}
    /\ at = "reading" => Cardinality(running) < MaxConcurrency

GateSane == \A w \in Workers : GateFits(loop[w], Inflight(w), FetchedBy(w))

LEMMA ReplyBounded ==
    ASSUME IInv, EntriesSane
    PROVE  IsFiniteSet(NewEntries) /\ Cardinality(NewEntries) <= ReadCount * NumStreams
<1> DEFINE Places == Streams \X (1 .. ReadCount)
           place == [m \in NewEntries |-> <<StreamOf[m], entry[m] - cursor[StreamOf[m]]>>]
<1>1. ReadCount \in Nat \ {0} /\ NumStreams \in Nat /\ IsFiniteSet(Streams) /\ Cardinality(Streams) = NumStreams
      /\ IsFiniteSet(1 .. ReadCount) /\ Cardinality(1 .. ReadCount) = ReadCount
  BY InboundAssumption, FS_Interval DEF Streams
<1>2. IsFiniteSet(Places) /\ Cardinality(Places) = NumStreams * ReadCount
  BY <1>1, FS_Product
<1>3. ASSUME NEW m \in NewEntries
      PROVE  /\ StreamOf[m] \in Streams /\ entry[m] - cursor[StreamOf[m]] \in 1 .. ReadCount
             /\ entry[m] \in Nat /\ cursor[StreamOf[m]] \in Nat /\ entry[m] # 0 /\ m \in Messages
  <2>1. m \in Messages /\ cursor[StreamOf[m]] < entry[m] /\ entry[m] <= ReadLimit(StreamOf[m])
    BY DEF NewEntries
  <2>2. StreamOf[m] \in Streams
    BY <2>1, InboundAssumption
  <2>3. entry[m] \in Nat /\ cursor[StreamOf[m]] \in Nat /\ length[StreamOf[m]] \in Nat
    BY <2>1, <2>2 DEF IInv, TypeOK
  <2>4. ReadLimit(StreamOf[m]) <= cursor[StreamOf[m]] + ReadCount
    BY <1>1, <2>3 DEF ReadLimit
  <2>5. ReadLimit(StreamOf[m]) \in Nat
    BY <2>2, ReadLimitBounds
  <2> QED
    BY <1>1, <2>1, <2>2, <2>3, <2>4, <2>5
<1>4. place \in [NewEntries -> Places]
  BY <1>3
<1>5. ASSUME NEW m \in NewEntries, NEW n \in NewEntries, place[m] = place[n] PROVE m = n
  <2>1. StreamOf[m] = StreamOf[n] /\ entry[m] - cursor[StreamOf[m]] = entry[n] - cursor[StreamOf[n]]
    BY <1>5
  <2>2. entry[m] = entry[n]
    BY <1>3, <2>1
  <2> QED
    BY <1>3, <2>1, <2>2 DEF EntriesSane
<1>6. place \in Injection(NewEntries, Places)
  BY <1>4, <1>5 DEF Injection, IsInjective
<1> HIDE DEF place, Places
<1>7. IsFiniteSet(NewEntries) /\ Cardinality(NewEntries) <= Cardinality(Places)
  BY <1>2, <1>6, FS_Injection
<1>8. NumStreams * ReadCount = ReadCount * NumStreams
  BY <1>1
<1> QED
  BY <1>2, <1>7, <1>8

LEMMA GateShrinks ==
    ASSUME NEW at, NEW running \in SUBSET Messages, NEW fetched \in SUBSET Messages,
           GateFits(at, running, fetched),
           NEW to, NEW less, NEW rest, less \cup rest \subseteq running \cup fetched,
           to = "reading" => less \subseteq running /\ at = "reading",
           to # "spawning" => rest = {}
    PROVE  GateFits(to, less, rest)
<1>1. IsFiniteSet(running) /\ IsFiniteSet(running \cup fetched)
  BY InboundAssumption, FS_Subset
<1>2. MaxInflight \in Int /\ MaxConcurrency \in Nat
  BY InboundAssumption DEF MaxInflight
<1>3. Cardinality(less \cup rest) \in Nat /\ Cardinality(running \cup fetched) \in Nat
      /\ Cardinality(less \cup rest) <= Cardinality(running \cup fetched)
  BY <1>1, FS_Subset, FS_CardinalityType
<1>4. ASSUME to = "reading" PROVE Cardinality(less) < MaxConcurrency
  <2>1. Cardinality(less) \in Nat /\ Cardinality(running) \in Nat /\ Cardinality(less) <= Cardinality(running)
    BY <1>1, <1>4, FS_Subset, FS_CardinalityType
  <2> QED
    BY <1>2, <1>4, <2>1 DEF GateFits
<1>5. Cardinality(less \cup rest) <= MaxInflight
  BY <1>2, <1>3 DEF GateFits
<1> QED
  BY <1>4, <1>5 DEF GateFits

LEMMA GateQuiet ==
    ASSUME GateSane,
           \A w \in Workers : /\ loop'[w] = loop[w] /\ Inflight(w)' \subseteq Inflight(w)
                              /\ FetchedBy(w)' = FetchedBy(w)
    PROVE  GateSane'
<1> SUFFICES ASSUME NEW w \in Workers PROVE GateFits(loop'[w], Inflight(w)', FetchedBy(w)')
  BY DEF GateSane
<1>1. Inflight(w) \in SUBSET Messages /\ FetchedBy(w) \in SUBSET Messages
  BY DEF Inflight, FetchedBy
<1>2. GateFits(loop[w], Inflight(w), FetchedBy(w))
  BY DEF GateSane
<1>3. loop'[w] # "spawning" => FetchedBy(w)' = {}
  BY <1>2 DEF GateFits
<1> QED
  BY <1>1, <1>2, <1>3, GateShrinks

(* A step of the process w, which no other process sees.                    *)
LEMMA GateOne ==
    ASSUME GateSane, NEW w \in Workers,
           \A v \in Workers : v # w => /\ loop'[v] = loop[v] /\ Inflight(v)' = Inflight(v)
                                       /\ FetchedBy(v)' = FetchedBy(v),
           GateFits(loop'[w], Inflight(w)', FetchedBy(w)')
    PROVE  GateSane'
<1> SUFFICES ASSUME NEW v \in Workers PROVE GateFits(loop'[v], Inflight(v)', FetchedBy(v)')
  BY DEF GateSane
<1>1. CASE v = w BY <1>1
<1>2. CASE v # w
  <2>1. GateFits(loop[v], Inflight(v), FetchedBy(v)) BY DEF GateSane
  <2>2. loop'[v] = loop[v] /\ Inflight(v)' = Inflight(v) /\ FetchedBy(v)' = FetchedBy(v) BY <1>2
  <2> QED BY <2>1, <2>2
<1> QED BY <1>1, <1>2

LEMMA SpawnGate ==
    ASSUME IInv, GateSane, NEW w \in Workers, NEW m \in Messages, Spawn(w, m)
    PROVE  GateSane'
<1>1. /\ stage \in [Messages -> Stages] /\ loop \in [Workers -> {"off", "gate", "reading", "spawning"}]
      /\ stage[m] = "fetched" /\ reader[m] = w /\ reader' = reader /\ loop[w] = "spawning"
      /\ stage' = [stage EXCEPT ![m] = "permit"]
      /\ loop' = [loop EXCEPT ![w] = IF FetchedBy(w) = {m} THEN "gate" ELSE "spawning"]
  BY DEF IInv, TypeOK, Spawn, NextInReply, FetchedBy, stream
<1>2. Inflight(w)' = Inflight(w) \cup {m} /\ FetchedBy(w)' = FetchedBy(w) \ {m} /\ m \in FetchedBy(w)
  BY <1>1 DEF Inflight, FetchedBy, InFlight, Permitted, Critical
<1>3. \A v \in Workers : v # w => /\ loop'[v] = loop[v] /\ Inflight(v)' = Inflight(v)
                                  /\ FetchedBy(v)' = FetchedBy(v)
  BY <1>1 DEF Inflight, FetchedBy
<1>4. GateFits(loop[w], Inflight(w), FetchedBy(w)) BY DEF GateSane
<1>5. /\ Inflight(w) \in SUBSET Messages /\ FetchedBy(w) \in SUBSET Messages
      /\ Inflight(w)' \cup FetchedBy(w)' \subseteq Inflight(w) \cup FetchedBy(w)
  BY <1>2 DEF Inflight, FetchedBy
<1>6. loop'[w] # "reading" /\ (loop'[w] # "spawning" => FetchedBy(w)' = {})
  BY <1>1, <1>2
<1>7. GateFits(loop'[w], Inflight(w)', FetchedBy(w)')
  BY <1>4, <1>5, <1>6, GateShrinks
<1> QED
  BY <1>3, <1>7, GateOne

LEMMA DeliverGate ==
    ASSUME IInv, EntriesSane, GateSane, NEW w \in Workers, Read(w) \/ LoseReply(w)
    PROVE  GateSane'
<1>1. PICK to \in {"fetched", "stranded"} :
        Deliver(w, to) /\ loop' = [loop EXCEPT ![w] = IF to = "fetched" THEN "spawning" ELSE "gate"]
  BY DEF Read, LoseReply
<1>2. /\ \A m \in NewEntries : stage[m] = "sent" /\ reader'[m] = w /\ stage'[m] = to
      /\ \A m \in Messages \ NewEntries : reader'[m] = reader[m] /\ stage'[m] = stage[m]
  BY <1>1, DeliverMoves
<1>3. loop[w] = "reading" /\ loop \in [Workers -> {"off", "gate", "reading", "spawning"}]
      /\ NewEntries \subseteq Messages
  BY <1>1 DEF IInv, TypeOK, Deliver, NewEntries
<1>4. \A v \in Workers : Inflight(v)' = Inflight(v)
  BY <1>1, <1>2, <1>3 DEF Inflight, InFlight, Permitted, Critical
<1>5. \A v \in Workers : v # w => FetchedBy(v)' = FetchedBy(v)
  BY <1>2, <1>3 DEF FetchedBy
<1>6. GateFits("reading", Inflight(w), FetchedBy(w))
  BY <1>3 DEF GateSane
<1>7. FetchedBy(w) = {} BY <1>6 DEF GateFits
<1>8. FetchedBy(w)' = IF to = "fetched" THEN NewEntries ELSE {}
  BY <1>1, <1>2, <1>3, <1>7 DEF FetchedBy
<1>9. loop'[w] = IF to = "fetched" THEN "spawning" ELSE "gate" BY <1>1, <1>3
<1>10. GateFits(loop'[w], Inflight(w)', FetchedBy(w)')
  <2>1. CASE to = "stranded"
    <3>1. loop'[w] = "gate" /\ FetchedBy(w)' = {} /\ Inflight(w)' = Inflight(w)
      BY <1>4, <1>8, <1>9, <2>1
    <3>2. Inflight(w) \in SUBSET Messages BY DEF Inflight
    <3> QED BY <1>6, <1>7, <3>1, <3>2, GateShrinks
  <2>2. CASE to = "fetched"
    <3> DEFINE running == Inflight(w)
    <3>1. IsFiniteSet(running) /\ IsFiniteSet(NewEntries) /\ running \in SUBSET Messages
      BY <1>3, InboundAssumption, FS_Subset DEF Inflight
    <3>2. Cardinality(NewEntries) <= ReadCount * NumStreams BY ReplyBounded
    <3>3. Cardinality(running) < MaxConcurrency BY <1>6 DEF GateFits
    <3> HIDE DEF running
    <3>4. /\ Cardinality(running \cup NewEntries) =
                Cardinality(running) + Cardinality(NewEntries) - Cardinality(running \cap NewEntries)
          /\ IsFiniteSet(running \cap NewEntries)
      BY <3>1, FS_Union, FS_Subset
    <3>5. /\ Cardinality(running) \in Nat /\ Cardinality(NewEntries) \in Nat
          /\ Cardinality(running \cap NewEntries) \in Nat
      BY <3>1, <3>4, FS_CardinalityType
    <3>6. Cardinality(running) <= MaxConcurrency - 1 BY <3>3, <3>5, InboundAssumption
    <3>7. ReadCount * NumStreams \in Nat /\ MaxConcurrency \in Nat BY InboundAssumption
    <3>8. Cardinality(running \cup NewEntries) <= MaxInflight
      <4> DEFINE reply == ReadCount * NumStreams
      <4>1. MaxInflight = MaxConcurrency - 1 + reply /\ reply \in Nat /\ Cardinality(NewEntries) <= reply
        BY <3>2, <3>7 DEF MaxInflight
      <4> HIDE DEF reply
      <4> QED BY <3>4, <3>5, <3>6, <3>7, <4>1
    <3>9. loop'[w] = "spawning" /\ FetchedBy(w)' = NewEntries /\ Inflight(w)' = running
      BY <1>4, <1>8, <1>9, <2>2 DEF running
    <3> QED BY <3>8, <3>9 DEF GateFits
  <2> QED BY <2>1, <2>2
<1>11. \A v \in Workers : v # w => loop'[v] = loop[v] BY <1>1, <1>3
<1> QED
  BY <1>4, <1>5, <1>10, <1>11, GateOne

LEMMA BreakGate ==
    ASSUME IInv, GateSane, NEW w \in Workers, BreakReply(w)
    PROVE  GateSane'
<1>1. loop \in [Workers -> {"off", "gate", "reading", "spawning"}] /\ loop' = [loop EXCEPT ![w] = "gate"]
  BY DEF IInv, TypeOK, BreakReply
<1>2. /\ \A v \in Workers : Inflight(v)' = Inflight(v)
      /\ \A v \in Workers : v # w => FetchedBy(v)' = FetchedBy(v) /\ loop'[v] = loop[v]
      /\ FetchedBy(w)' = {} /\ loop'[w] = "gate"
  BY <1>1, BreakMoves DEF Inflight, FetchedBy, InFlight, Permitted, Critical
<1>3. /\ GateFits(loop[w], Inflight(w), FetchedBy(w))
      /\ Inflight(w) \in SUBSET Messages /\ FetchedBy(w) \in SUBSET Messages
  BY DEF GateSane, Inflight, FetchedBy
<1>4. GateFits("gate", Inflight(w), {})
  BY <1>3, GateShrinks
<1> QED
  BY <1>2, <1>4, GateOne

LEMMA NextGate == IInv /\ EntriesSane /\ GateSane /\ [Next]_vars => GateSane'
<1> SUFFICES ASSUME IInv, EntriesSane, GateSane, [Next]_vars PROVE GateSane'
  OBVIOUS
<1> USE DEF InFlight, Permitted, Critical
<1>0. stage \in [Messages -> Stages] /\ loop \in [Workers -> {"off", "gate", "reading", "spawning"}]
  BY DEF IInv, TypeOK
<1>1. ASSUME NEW m \in Messages, Publish(m) PROVE GateSane'
  <2>1. \A w \in Workers : Inflight(w)' = Inflight(w) /\ FetchedBy(w)' = FetchedBy(w) /\ loop'[w] = loop[w]
    BY <1>0, <1>1 DEF Publish, Inflight, FetchedBy
  <2> QED BY <2>1, GateQuiet
<1>2. ASSUME NEW m \in Messages, Handle(m) PROVE GateSane'
  <2>1. \A w \in Workers : Inflight(w)' \subseteq Inflight(w) /\ FetchedBy(w)' = FetchedBy(w) /\ loop'[w] = loop[w]
    BY <1>2, HandleMoves DEF Inflight, FetchedBy, Settled
  <2> QED BY <2>1, GateQuiet
<1>3. ASSUME NEW w \in Workers, Start(w) \/ PassGate(w) PROVE GateSane'
  <2>1. \A v \in Workers : Inflight(v)' = Inflight(v) /\ FetchedBy(v)' = FetchedBy(v)
    BY <1>3 DEF Start, PassGate, stream, Inflight, FetchedBy
  <2>2. \A v \in Workers : v # w => loop'[v] = loop[v] BY <1>0, <1>3 DEF Start, PassGate
  <2>3. loop[w] \in {"off", "gate"} /\ loop'[w] \in {"gate", "reading"}
        /\ (loop'[w] = "reading" => Cardinality(Inflight(w)) < MaxConcurrency)
    BY <1>0, <1>3 DEF Start, PassGate
  <2>4. GateFits(loop[w], Inflight(w), FetchedBy(w)) BY DEF GateSane
  <2>5. GateFits(loop'[w], Inflight(w)', FetchedBy(w)') BY <2>1, <2>3, <2>4 DEF GateFits
  <2> QED BY <2>1, <2>2, <2>5, GateOne
<1>4. ASSUME NEW w \in Workers, Consume(w) PROVE GateSane'
  BY <1>3, <1>4, DeliverGate, BreakGate, SpawnGate DEF Consume
<1>5. ASSUME NEW w \in Workers, AcquirePermit(w) PROVE GateSane'
  <2>1. \A v \in Workers : Inflight(v)' = Inflight(v) /\ FetchedBy(v)' = FetchedBy(v) /\ loop'[v] = loop[v]
    BY <1>0, <1>5, PermitMoves DEF Inflight, FetchedBy
  <2> QED BY <2>1, GateQuiet
<1>6. ASSUME NEW w \in Workers, NEW s \in Sessions, AcquireSession(w, s) PROVE GateSane'
  <2>1. \A v \in Workers : Inflight(v)' = Inflight(v) /\ FetchedBy(v)' = FetchedBy(v) /\ loop'[v] = loop[v]
    BY <1>0, <1>6, SessionMoves DEF Inflight, FetchedBy
  <2> QED BY <2>1, GateQuiet
<1>7. ASSUME NEW w \in Workers, Halt(w) PROVE GateSane'
  <2>1. /\ Inflight(w)' = {} /\ FetchedBy(w)' = {} /\ loop'[w] = "off"
        /\ \A v \in Workers : v # w => /\ loop'[v] = loop[v] /\ Inflight(v)' = Inflight(v)
                                       /\ FetchedBy(v)' = FetchedBy(v)
    BY <1>0, <1>7 DEF Halt, Inflight, FetchedBy, stream
  <2>2. /\ GateFits(loop[w], Inflight(w), FetchedBy(w))
        /\ Inflight(w) \in SUBSET Messages /\ FetchedBy(w) \in SUBSET Messages
    BY DEF GateSane, Inflight, FetchedBy
  <2>3. GateFits("off", {}, {}) BY <2>2, GateShrinks
  <2>4. GateFits(loop'[w], Inflight(w)', FetchedBy(w)') BY <2>1, <2>3
  <2> QED BY <2>1, <2>4, GateOne
<1>8. CASE UNCHANGED vars
  <2>1. \A v \in Workers : Inflight(v)' = Inflight(v) /\ FetchedBy(v)' = FetchedBy(v) /\ loop'[v] = loop[v]
    BY <1>8 DEF vars, stream, Inflight, FetchedBy
  <2> QED BY <2>1, GateQuiet
<1> QED
  BY <1>1, <1>2, <1>4, <1>5, <1>6, <1>7, <1>8 DEF Next

(* The gate bounds the tasks of a process up to what one read can add, for *)
(* every limit and every number of streams (_consume_loop).                *)
THEOREM Bounded == Spec => []InflightBounded
<1>1. Init => EntriesSane
  BY InboundAssumption DEF Init, EntriesSane
<1>2. Init => GateSane
  <2> SUFFICES ASSUME Init, NEW w \in Workers PROVE GateFits(loop[w], Inflight(w), FetchedBy(w))
    BY DEF GateSane
  <2>1. Inflight(w) = {} /\ FetchedBy(w) = {} /\ loop[w] = "off"
    BY DEF Init, Inflight, FetchedBy, InFlight, Permitted, Critical
  <2>2. Cardinality({}) = 0 BY FS_EmptySet
  <2>3. MaxConcurrency \in Nat \ {0} /\ ReadCount * NumStreams \in Nat BY InboundAssumption
  <2>4. 0 <= MaxInflight
    <3> DEFINE reply == ReadCount * NumStreams
    <3>1. MaxInflight = MaxConcurrency - 1 + reply /\ reply \in Nat BY <2>3 DEF MaxInflight
    <3> HIDE DEF reply
    <3> QED BY <2>3, <3>1
  <2> QED BY <2>1, <2>2, <2>4 DEF GateFits
<1>3. GateSane => InflightBounded
  <2> SUFFICES ASSUME GateSane, NEW w \in Workers PROVE Cardinality(Inflight(w)) <= MaxInflight
    BY DEF InflightBounded, MaxInflight
  <2>1. GateFits(loop[w], Inflight(w), FetchedBy(w)) BY DEF GateSane
  <2>2. Inflight(w) \in SUBSET Messages /\ FetchedBy(w) \in SUBSET Messages BY DEF Inflight, FetchedBy
  <2>3. GateFits("gate", Inflight(w), {}) BY <2>1, <2>2, GateShrinks
  <2> QED BY <2>3 DEF GateFits
<1> QED
  BY <1>1, <1>2, <1>3, InitIInv, NextIInv, NextEntries, NextGate, PTL DEF Spec

=============================================================================

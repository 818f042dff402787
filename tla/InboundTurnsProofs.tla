------------------------- MODULE InboundTurnsProofs -------------------------
(***************************************************************************)
(* One process implements SessionTurns, for any number of messages,        *)
(* sessions and streams, any capacities and any number of halts; and the   *)
(* conversations it stores are well-formed.                                *)
(***************************************************************************)
EXTENDS InboundTurns, InboundWorkerProofs

(* The task that owns a lock is in its critical section, in that session.  *)
OwnerIsCritical ==
    \A s \in Sessions : lockOwner[Process][s] # None =>
        /\ lockOwner[Process][s] \in Messages
        /\ stage[lockOwner[Process][s]] \in Critical
        /\ SessionOf[lockOwner[Process][s]] = s

(* Before its turn has asked, a message is in no transcript.               *)
Early == {"unsent", "sent", "fetched", "permit", "lock", "begin"}
Unsaid == \A m \in Messages : stage[m] \in Early => ~ Turns!Said(m)

(* While a turn may still answer, its question is the last message.        *)
Talking == {"recorded", "running", "drained", "reply"}
LastIs(s, e) == transcript[s] # <<>> /\ transcript[s][Len(transcript[s])] = e
AskedLast ==
    \A m \in Messages : stage[m] \in Talking =>
        LastIs(SessionOf[m], [who |-> "user", msg |-> m])

TurnsIInv == IInv /\ OwnerIsCritical /\ Unsaid /\ AskedLast

LEMMA TurnsInitial == Init => TurnsIInv /\ Turns!Init
<1> SUFFICES ASSUME Init PROVE TurnsIInv /\ Turns!Init
  OBVIOUS
<1>1. IInv
  BY InitIInv
<1>2. OwnerIsCritical /\ Unsaid /\ AskedLast
  BY OneProcess DEF Init, OwnerIsCritical, Unsaid, AskedLast, Turns!Said, Talking
<1>3. Turns!Init
  BY OneProcess DEF Init, Turns!Init
<1> QED
  BY <1>1, <1>2, <1>3 DEF TurnsIInv

(* A step that neither stores a message nor moves a lock.                  *)
LEMMA QuietStep ==
    ASSUME TurnsIInv, UNCHANGED <<transcript, lockOwner>>,
           \A m \in Messages : /\ stage'[m] \in Early => stage[m] \in Early
                               /\ stage'[m] \in Talking => stage[m] \in Talking
                               /\ stage[m] \in Critical => stage'[m] \in Critical
    PROVE  OwnerIsCritical' /\ Unsaid' /\ AskedLast' /\ UNCHANGED <<lockOwner[Process], transcript>>
<1>1. OwnerIsCritical'
  BY DEF TurnsIInv, OwnerIsCritical
<1>2. Unsaid'
  BY DEF TurnsIInv, Unsaid, Turns!Said
<1>3. AskedLast'
  BY DEF TurnsIInv, AskedLast, LastIs
<1> QED
  BY <1>1, <1>2, <1>3

(* The turn of m ends.                                                     *)
LEMMA EndStep ==
    ASSUME TurnsIInv, NEW m \in Messages, stage[m] \in Critical, NEW to \in Settled,
           stage' = [stage EXCEPT ![m] = to], Release(m), UNCHANGED transcript
    PROVE  OwnerIsCritical' /\ Unsaid' /\ AskedLast' /\ Turns!Close({SessionOf[m]})
<1>1. /\ TypeOK /\ reader[m] = Process /\ SessionOf[m] \in Sessions
      /\ lockOwner[Process][SessionOf[m]] = m /\ m # None
  BY OneProcess, InboundAssumption
  DEF TurnsIInv, IInv, HasReader, OwnsLock, Critical, InFlight, Permitted
<1>2. /\ \A s \in Sessions : lockOwner'[Process][s] = IF s = SessionOf[m] THEN None ELSE lockOwner[Process][s]
      /\ lockOwner'[Process] \in [Sessions -> Messages \cup {None}]
  BY <1>1, OneProcess DEF Release, TypeOK
<1>3. /\ stage'[m] \notin Early /\ stage'[m] \notin Talking
      /\ \A n \in Messages : n # m => stage'[n] = stage[n]
  BY <1>1 DEF TypeOK, Early, Talking, Settled
<1>4. OwnerIsCritical'
  <2> SUFFICES ASSUME NEW s \in Sessions, lockOwner'[Process][s] # None
               PROVE  /\ lockOwner'[Process][s] \in Messages
                      /\ stage'[lockOwner'[Process][s]] \in Critical
                      /\ SessionOf[lockOwner'[Process][s]] = s
    BY DEF OwnerIsCritical
  <2>1. s # SessionOf[m] /\ lockOwner'[Process][s] = lockOwner[Process][s]
    BY <1>2
  <2>2. /\ lockOwner[Process][s] \in Messages /\ stage[lockOwner[Process][s]] \in Critical
        /\ SessionOf[lockOwner[Process][s]] = s
    BY <2>1 DEF TurnsIInv, OwnerIsCritical
  <2> QED
    BY <1>3, <2>1, <2>2
<1>5. Unsaid' /\ AskedLast'
  BY <1>3 DEF TurnsIInv, Unsaid, AskedLast, LastIs, Turns!Said
<1>6. Turns!Close({SessionOf[m]})
  <2>1. \A s \in {SessionOf[m]} : lockOwner[Process][s] # None
    BY <1>1
  <2>2. lockOwner'[Process] = [s \in Sessions |-> IF s \in {SessionOf[m]} THEN None ELSE lockOwner[Process][s]]
    BY <1>2
  <2> QED
    BY <2>1, <2>2 DEF Turns!Close
<1> QED
  BY <1>4, <1>5, <1>6

(* The turn of m stores a message: m owns the lock, so no other turn of    *)
(* the session is under way.                                               *)
LEMMA StoreStep ==
    ASSUME TurnsIInv, NEW m \in Messages, NEW who \in {"user", "assistant"}, Store(m, who),
           NEW from \in Critical, NEW to \in Critical, stage[m] = from,
           stage' = [stage EXCEPT ![m] = to], UNCHANGED lockOwner,
           to \notin Early, to \in Talking => who = "user"
    PROVE  OwnerIsCritical' /\ Unsaid' /\ AskedLast'
<1> DEFINE s == SessionOf[m]
<1>1. /\ TypeOK /\ reader[m] = Process /\ s \in Sessions /\ lockOwner[Process][s] = m
  BY OneProcess, InboundAssumption
  DEF TurnsIInv, IInv, HasReader, OwnsLock, Critical, InFlight, Permitted
<1>2. stage'[m] = to /\ \A n \in Messages : n # m => stage'[n] = stage[n]
  BY <1>1 DEF TypeOK
<1>3. OwnerIsCritical'
  BY <1>2 DEF TurnsIInv, OwnerIsCritical
<1>4. \A i \in DOMAIN transcript'[s] : i \in DOMAIN transcript[s] \/ i = Len(transcript[s]) + 1
  <2> DEFINE a == transcript[s]
  <2> DEFINE b == transcript'[s]
  <2>3. transcript \in [Sessions -> Seq(Turn)]
    BY <1>1 DEF TypeOK
  <2>4. b \in Seq(Turn) /\ Len(b) = Len(a) + 1
    BY <1>1, StoredIs
  <2>1. a \in Seq(Turn) /\ b \in Seq(Turn) /\ Len(b) = Len(a) + 1
    BY <1>1, <2>3, <2>4
  <2> HIDE DEF a, b
  <2>2. \A i \in DOMAIN b : i \in DOMAIN a \/ i = Len(a) + 1
    BY <2>1
  <2> QED
    BY <2>2 DEF a, b
<1>5. \A n \in Messages : n # m /\ Turns!Said(n)' => Turns!Said(n)
  <2> SUFFICES ASSUME NEW n \in Messages, n # m, NEW r \in Sessions, NEW i \in DOMAIN transcript'[r],
                      transcript'[r][i].msg = n
               PROVE  \E q \in Sessions : \E j \in DOMAIN transcript[q] : transcript[q][j].msg = n
    BY DEF Turns!Said
  <2>1. CASE r # s
    <3>1. transcript'[r] = transcript[r]
      BY <1>1, <2>1, StoredIs
    <3> QED
      BY <3>1
  <2>2. CASE r = s
    <3>1. i # Len(transcript[s]) + 1
      <4>1. transcript'[s][Len(transcript[s]) + 1] = [who |-> who, msg |-> m]
        BY <1>1, StoredIs
      <4>2. transcript'[s][Len(transcript[s]) + 1].msg = m
        BY <4>1
      <4> QED
        BY <2>2, <4>2
    <3>2. i \in DOMAIN transcript[s] /\ transcript'[s][i] = transcript[s][i]
      BY <1>1, <1>4, <2>2, <3>1, StoredIs
    <3> QED
      BY <1>1, <2>2, <3>2
  <2> QED
    BY <2>1, <2>2
<1>6. Unsaid'
  BY <1>2, <1>5 DEF TurnsIInv, Unsaid
<1>7. AskedLast'
  <2> SUFFICES ASSUME NEW n \in Messages, stage'[n] \in Talking
               PROVE  LastIs(SessionOf[n], [who |-> "user", msg |-> n])'
    BY DEF AskedLast
  <2>1. CASE n = m
    <3>1. who = "user" /\ transcript'[s] \in Seq(Turn) /\ Len(transcript'[s]) = Len(transcript[s]) + 1
          /\ transcript'[s][Len(transcript[s]) + 1] = [who |-> who, msg |-> m] /\ Len(transcript[s]) \in Nat
      BY <1>1, <1>2, <2>1, StoredIs
    <3>2. transcript'[s] # <<>>
      BY <3>1
    <3> QED
      BY <2>1, <3>1, <3>2 DEF LastIs
  <2>2. CASE n # m
    <3>1. stage[n] \in Talking /\ stage[n] \in Critical
      BY <1>2, <2>2 DEF Talking, Critical
    <3>2. reader[n] = Process /\ lockOwner[Process][SessionOf[n]] = n
      BY <3>1, OneProcess DEF TurnsIInv, IInv, HasReader, OwnsLock, Critical, InFlight, Permitted
    <3>3. SessionOf[n] # s /\ SessionOf[n] \in Sessions
      BY <1>1, <2>2, <3>2, InboundAssumption
    <3>4. transcript'[SessionOf[n]] = transcript[SessionOf[n]]
      BY <1>1, <3>3, StoredIs
    <3> QED
      BY <3>1, <3>4 DEF TurnsIInv, AskedLast, LastIs
  <2> QED
    BY <2>1, <2>2
<1> QED
  BY <1>3, <1>6, <1>7
(* A task that is answered, or fails, ends its critical section.           *)
LEMMA HandleTurns ==
    ASSUME TurnsIInv, NEW m \in Messages, Handle(m)
    PROVE  /\ OwnerIsCritical' /\ Unsaid' /\ AskedLast'
           /\ Turns!Next \/ UNCHANGED <<lockOwner[Process], transcript>>
<1>0. TypeOK /\ stage[m] \in Stages /\ \A n \in Messages : stage[n] \in Stages
  BY DEF TurnsIInv, IInv, TypeOK
\* The steps that touch neither the transcript nor the lock.
<1>a. ASSUME NEW from \in Critical, NEW to \in Critical, Step(m, from, to),
             to \in Early => from \in Early, to \in Talking => from \in Talking,
             UNCHANGED <<transcript, lockOwner>>
      PROVE  /\ OwnerIsCritical' /\ Unsaid' /\ AskedLast'
             /\ UNCHANGED <<lockOwner[Process], transcript>>
  <2>1. stage[m] = from /\ stage'[m] = to /\ \A n \in Messages : n # m => stage'[n] = stage[n]
    BY <1>0, <1>a DEF Step, TypeOK
  <2> QED
    BY <1>a, <2>1, QuietStep
<1> USE DEF Critical, Early, Talking
<1>1. CASE SkipBlank(m)
  BY <1>1, <1>a DEF SkipBlank, locks
<1>2. CASE AgentReady(m)
  BY <1>2, <1>a DEF AgentReady, locks
<1>3. CASE StreamText(m)
  <2>1. UNCHANGED <<transcript, lockOwner, stage>>
    BY <1>3 DEF StreamText, locks
  <2> QED
    BY <2>1, QuietStep
<1>4. CASE StreamDone(m)
  BY <1>4, <1>a DEF StreamDone, locks
<1>5. CASE EndStream(m)
  <2>1. PICK to \in {"reply", "ack"} : Step(m, "drained", to)
    BY <1>5 DEF EndStream
  <2> QED
    BY <1>5, <1>a, <2>1 DEF EndStream, locks
<1>6. CASE Fail(m)
  <2>1. PICK from \in {"begin", "recorded", "running", "drained"} : Step(m, from, "failing")
    BY <1>6 DEF Fail
  <2> QED
    BY <1>6, <1>a, <2>1 DEF Fail, locks
<1>7. CASE FinishFailure(m)
  BY <1>7, <1>a DEF FinishFailure, locks
<1>8. CASE RecordUser(m)
  <2>1. stage[m] = "begin" /\ stage' = [stage EXCEPT ![m] = "recorded"] /\ Store(m, "user")
        /\ lockOwner' = lockOwner
    BY <1>8 DEF RecordUser, Step, locks
  <2>2. OwnerIsCritical' /\ Unsaid' /\ AskedLast'
    BY <2>1, StoreStep
  <2>3. /\ SessionOf[m] \in Sessions /\ lockOwner[Process][SessionOf[m]] = m /\ m # None
    BY <2>1, OneProcess, InboundAssumption DEF TurnsIInv, IInv, HasReader, OwnsLock, InFlight, Permitted
  <2>4. ~ Turns!Said(m)
    BY <2>1 DEF TurnsIInv, Unsaid
  <2>5. Turns!Ask(SessionOf[m])
    BY <2>1, <2>3, <2>4 DEF Turns!Ask, Turns!Say, Turns!Entry, Store
  <2> QED
    BY <2>2, <2>3, <2>5 DEF Turns!Next
<1>9. CASE RecordReply(m)
  <2>1. stage[m] = "reply" /\ stage' = [stage EXCEPT ![m] = "ack"] /\ Store(m, "assistant")
        /\ lockOwner' = lockOwner
    BY <1>9 DEF RecordReply, Step, locks
  <2>2. OwnerIsCritical' /\ Unsaid' /\ AskedLast'
    BY <2>1, StoreStep
  <2>3. /\ SessionOf[m] \in Sessions /\ lockOwner[Process][SessionOf[m]] = m /\ m # None
    BY <2>1, OneProcess, InboundAssumption DEF TurnsIInv, IInv, HasReader, OwnsLock, InFlight, Permitted
  <2>4. LastIs(SessionOf[m], [who |-> "user", msg |-> m])
    BY <2>1 DEF TurnsIInv, AskedLast
  <2>5. Turns!Answer(SessionOf[m])
    BY <2>1, <2>3, <2>4 DEF Turns!Answer, Turns!Say, Turns!Entry, Store, LastIs
  <2> QED
    BY <2>2, <2>3, <2>5 DEF Turns!Next
<1>10. ASSUME stage[m] \in Critical, NEW to \in Settled, stage' = [stage EXCEPT ![m] = to], Release(m),
              UNCHANGED transcript
       PROVE  OwnerIsCritical' /\ Unsaid' /\ AskedLast' /\ Turns!Next
  <2>1. OwnerIsCritical' /\ Unsaid' /\ AskedLast' /\ Turns!Close({SessionOf[m]})
    BY <1>10, EndStep
  <2>2. {SessionOf[m]} \in SUBSET Sessions
    BY InboundAssumption
  <2> QED
    BY <2>1, <2>2 DEF Turns!Next
<1>11. CASE Ack(m)
  BY <1>10, <1>11 DEF Ack, Step, Settled
<1>12. CASE Abandon(m)
  BY <1>10, <1>12 DEF Abandon, Step, Settled
<1> QED
  BY <1>1, <1>2, <1>3, <1>4, <1>5, <1>6, <1>7, <1>8, <1>9, <1>11, <1>12 DEF Handle

LEMMA NextTurns ==
    ASSUME TurnsIInv, [Next]_vars
    PROVE  TurnsIInv' /\ [Turns!Next]_<<lockOwner[Process], transcript>>
<1>0. TypeOK /\ UnreadUntouched /\ \A n \in Messages : stage[n] \in Stages
  BY DEF TurnsIInv, IInv, TypeOK
<1>1. IInv'
  BY NextIInv DEF TurnsIInv
<1> DEFINE Done == /\ OwnerIsCritical' /\ Unsaid' /\ AskedLast'
                   /\ Turns!Next \/ UNCHANGED <<lockOwner[Process], transcript>>
\* Steps that keep transcripts and locks, and move tasks that are not critical.
<1>a. ASSUME UNCHANGED <<transcript, lockOwner>>,
             \A n \in Messages : stage'[n] # stage[n] =>
                 stage[n] \in Early /\ stage[n] # "begin" /\ stage'[n] \notin Talking
      PROVE  Done
  <2>1. \A n \in Messages : /\ stage'[n] \in Early => stage[n] \in Early
                            /\ stage'[n] \in Talking => stage[n] \in Talking
                            /\ stage[n] \in Critical => stage'[n] \in Critical
    BY <1>a DEF Early, Critical
  <2> QED
    BY <1>a, <2>1, QuietStep
<1>2. ASSUME NEW m \in Messages, Publish(m) PROVE Done
  BY <1>2, <1>0, <1>a DEF Publish, locks, Early, Talking, TypeOK
<1>3. ASSUME NEW m \in Messages, Handle(m) PROVE Done
  BY <1>3, HandleTurns
<1>4. ASSUME NEW w \in Workers, Consume(w) PROVE Done
  <2>1. CASE Start(w)
    BY <2>1, <1>a DEF Start, locks
  <2>2. CASE PassGate(w)
    BY <2>2, <1>a DEF PassGate, locks
  <2>3. ASSUME NEW to \in {"fetched", "stranded"}, Deliver(w, to) PROVE Done
    <3>1. \A n \in NewEntries : stage[n] = "sent"
      BY <1>0 DEF NewEntries, UnreadUntouched
    <3> QED
      BY <2>3, <3>1, <1>a DEF Deliver, locks, Early, Talking
  <2>4. CASE Read(w) \/ LoseReply(w)
    BY <2>3, <2>4 DEF Read, LoseReply
  <2>5. ASSUME NEW m \in Messages, Spawn(w, m) PROVE Done
    BY <2>5, <1>0, <1>a DEF Spawn, NextInReply, FetchedBy, TypeOK, Early, Talking
  <2>6. CASE BreakReply(w)
    BY <2>6, BreakMoves, <1>a DEF Early, Talking
  <2> QED
    BY <1>4, <2>1, <2>2, <2>4, <2>5, <2>6 DEF Consume
<1>5. ASSUME NEW w \in Workers, AcquirePermit(w) PROVE Done
  <2> DEFINE m == Head(permitQ[w])
  <2>1. m \in Messages /\ stage[m] = "permit"
    <3>1. permitQ[w] \in Seq(Messages) /\ permitQ[w] # <<>> /\ PermitQueueSane
      BY <1>0, <1>5 DEF AcquirePermit, TypeOK, TurnsIInv, IInv
    <3>2. 1 \in DOMAIN permitQ[w] /\ m = permitQ[w][1] /\ m \in Messages
      BY <3>1
    <3> QED
      BY <3>1, <3>2 DEF PermitQueueSane
  <2>2. stage' = [stage EXCEPT ![m] = "lock"] /\ UNCHANGED <<transcript, lockOwner>>
    BY <1>5 DEF AcquirePermit
  <2> QED
    BY <2>1, <2>2, <1>0, <1>a DEF TypeOK, Early, Talking
<1>6. ASSUME NEW w \in Workers, Halt(w) PROVE Done
  <2> DEFINE lost == Inflight(w) \cup FetchedBy(w)
  <2>1. /\ w = Process /\ transcript' = transcript
        /\ stage' = [m \in Messages |-> IF m \in lost THEN "stranded" ELSE stage[m]]
        /\ lockOwner' = [lockOwner EXCEPT ![Process] = [s \in Sessions |-> None]]
    BY <1>6, OneProcess DEF Halt
  <2>2. lockOwner'[Process] = [s \in Sessions |-> None]
    BY <2>1, <1>0, OneProcess DEF TypeOK
  <2>3. OwnerIsCritical'
    BY <2>2 DEF OwnerIsCritical
  <2> HIDE DEF lost
  <2>4. Unsaid' /\ AskedLast'
    BY <2>1 DEF TurnsIInv, Unsaid, AskedLast, LastIs, Turns!Said, Early, Talking
  <2>5. Turns!Close({s \in Sessions : lockOwner[Process][s] # None})
    <3>1. lockOwner'[Process] = [s \in Sessions |->
              IF s \in {r \in Sessions : lockOwner[Process][r] # None} THEN None ELSE lockOwner[Process][s]]
      BY <2>2
    <3> QED
      BY <2>1, <3>1 DEF Turns!Close
  <2>6. {s \in Sessions : lockOwner[Process][s] # None} \in SUBSET Sessions
    OBVIOUS
  <2> QED
    BY <2>3, <2>4, <2>5, <2>6 DEF Turns!Next
<1>7. ASSUME NEW w \in Workers, NEW s \in Sessions, AcquireSession(w, s) PROVE Done
  <2> DEFINE m == Head(lockQ[w][s])
  <2>1. m \in Messages /\ stage[m] = "lock" /\ SessionOf[m] = s /\ w = Process
    <3>1. lockQ[w][s] \in Seq(Messages) /\ lockQ[w][s] # <<>> /\ LockQueueSane /\ w = Process
      BY <1>0, <1>7, OneProcess DEF AcquireSession, TypeOK, TurnsIInv, IInv
    <3>2. 1 \in DOMAIN lockQ[w][s] /\ m = lockQ[w][s][1] /\ m \in Messages
      BY <3>1
    <3> QED
      BY <3>1, <3>2 DEF LockQueueSane
  <2>2. /\ lockOwner[Process][s] = None /\ stage' = [stage EXCEPT ![m] = "begin"]
        /\ lockOwner' = [lockOwner EXCEPT ![Process][s] = m] /\ UNCHANGED transcript
    BY <1>7, <2>1 DEF AcquireSession
  <2> HIDE DEF m
  <2>3. /\ stage'[m] = "begin" /\ \A n \in Messages : n # m => stage'[n] = stage[n]
        /\ lockOwner'[Process] = [lockOwner[Process] EXCEPT ![s] = m]
        /\ \A r \in Sessions : lockOwner'[Process][r] = IF r = s THEN m ELSE lockOwner[Process][r]
    BY <2>1, <2>2, <1>0, OneProcess DEF TypeOK
  <2>4. OwnerIsCritical'
    <3> SUFFICES ASSUME NEW r \in Sessions, lockOwner'[Process][r] # None
                 PROVE  /\ lockOwner'[Process][r] \in Messages
                        /\ stage'[lockOwner'[Process][r]] \in Critical
                        /\ SessionOf[lockOwner'[Process][r]] = r
      BY DEF OwnerIsCritical
    <3>1. CASE r = s
      BY <2>1, <2>3, <3>1 DEF Critical
    <3>2. CASE r # s
      BY <2>1, <2>3, <3>2 DEF TurnsIInv, OwnerIsCritical, Critical
    <3> QED
      BY <3>1, <3>2
  <2>5. Unsaid' /\ AskedLast'
    BY <2>1, <2>2, <2>3 DEF TurnsIInv, Unsaid, AskedLast, LastIs, Turns!Said, Early, Talking
  <2>6. Turns!Open(s, m)
    BY <2>1, <2>2, <2>3 DEF Turns!Open, TurnsIInv, Unsaid, Early
  <2> QED
    BY <2>1, <2>4, <2>5, <2>6 DEF Turns!Next
<1>8. ASSUME UNCHANGED vars PROVE Done
  <2>1. UNCHANGED <<transcript, lockOwner, stage>>
    BY <1>8 DEF vars, locks
  <2> QED
    BY <2>1, <1>a
<1> HIDE DEF Done
<1>9. Done
  BY <1>2, <1>3, <1>4, <1>5, <1>6, <1>7, <1>8 DEF Next
<1> QED
  BY <1>1, <1>9 DEF TurnsIInv, Done

(* For any number of messages, sessions and streams: a process that serves *)
(* them alone keeps what SessionTurns promises, across failures, timeouts  *)
(* and restarts.                                                           *)
THEOREM Refinement == Spec => ImplementsTurns
<1>1. TurnsIInv /\ [Next]_vars => TurnsIInv' /\ [Turns!Next]_<<lockOwner[Process], transcript>>
  BY NextTurns
<1> QED
  BY <1>1, TurnsInitial, PTL DEF Spec, ImplementsTurns, Turns!Spec
-----------------------------------------------------------------------------
(* What the promise is worth: the conversations are well-formed.           *)

Answered1(q, i) == q[i].who = "assistant" => i > 1 /\ q[i - 1] = [who |-> "user", msg |-> q[i].msg]
AskedOnce(q, i) == q[i].who = "user" => \A j \in DOMAIN q : q[j] = q[i] => i = j
Chat(q) == \A i \in DOMAIN q : Answered1(q, i) /\ AskedOnce(q, i)

LEMMA ChatIsConversation == WellFormedChat <=> \A s \in Sessions : Chat(transcript[s])
  BY DEF WellFormedChat, Turns!Conversation, Turns!Entry, Chat, Answered1, AskedOnce

LEMMA ChatAppend ==
    ASSUME NEW q \in Seq(Turn), Chat(q), NEW e \in Turn,
           e.who = "user" => \A i \in DOMAIN q : q[i] # e,
           e.who = "assistant" => q # <<>> /\ q[Len(q)] = [who |-> "user", msg |-> e.msg]
    PROVE  Chat(Append(q, e))
<1> DEFINE r == Append(q, e)
<1>1. /\ Len(q) \in Nat /\ r \in Seq(Turn) /\ Len(r) = Len(q) + 1 /\ r[Len(q) + 1] = e
      /\ \A i \in DOMAIN q : r[i] = q[i] /\ i \in 1..Len(q)
      /\ \A i \in DOMAIN r : i \in DOMAIN q \/ i = Len(q) + 1
  OBVIOUS
<1>2. e.who \in {"user", "assistant"}
  BY DEF Turn
<1> HIDE DEF r
<1>3. ASSUME NEW i \in DOMAIN r PROVE Answered1(r, i) /\ AskedOnce(r, i)
  <2>1. CASE i \in DOMAIN q
    <3>1. Answered1(r, i)
      <4>1. q[i].who = "assistant" /\ i > 1 => i - 1 \in DOMAIN q
        BY <1>1, <2>1
      <4> QED
        BY <1>1, <2>1, <4>1 DEF Chat, Answered1
    <3>2. AskedOnce(r, i)
      <4> SUFFICES ASSUME q[i].who = "user", NEW j \in DOMAIN r, r[j] = q[i] PROVE i = j
        BY <1>1, <2>1 DEF AskedOnce
      <4>1. CASE j \in DOMAIN q
        BY <1>1, <2>1, <4>1 DEF Chat, AskedOnce
      <4>2. CASE j = Len(q) + 1
        BY <1>1, <2>1, <4>2
      <4> QED
        BY <1>1, <4>1, <4>2
    <3> QED
      BY <3>1, <3>2
  <2>2. CASE i = Len(q) + 1
    <3>1. Answered1(r, i)
      <4> SUFFICES ASSUME e.who = "assistant" PROVE i > 1 /\ r[i - 1] = [who |-> "user", msg |-> e.msg]
        BY <1>1, <2>2 DEF Answered1
      <4>1. q # <<>> /\ q[Len(q)] = [who |-> "user", msg |-> e.msg]
        OBVIOUS
      <4>2. Len(q) > 0 /\ Len(q) \in DOMAIN q
        BY <4>1
      <4> QED
        BY <1>1, <2>2, <4>1, <4>2
    <3>2. AskedOnce(r, i)
      BY <1>1, <2>2 DEF AskedOnce
    <3> QED
      BY <3>1, <3>2
  <2> QED
    BY <1>1, <2>1, <2>2
<1> QED
  BY <1>3 DEF Chat, r

LEMMA ChatsKept ==
    ASSUME TypeOK, TypeOK', WellFormedChat, [Turns!Next]_<<lockOwner[Process], transcript>>
    PROVE  WellFormedChat'
<1>0. /\ transcript \in [Sessions -> Seq(Turn)] /\ \A s \in Sessions : Chat(transcript[s])
      /\ lockOwner[Process] \in [Sessions -> Messages \cup {None}]
  BY ChatIsConversation, OneProcess DEF TypeOK
<1>1. ASSUME NEW s \in Sessions, NEW e \in Turn, transcript' = [transcript EXCEPT ![s] = Append(transcript[s], e)],
             Chat(Append(transcript[s], e))
      PROVE  WellFormedChat'
  <2>1. \A r \in Sessions : transcript'[r] = IF r = s THEN Append(transcript[s], e) ELSE transcript[r]
    BY <1>0, <1>1
  <2>2. \A r \in Sessions : Chat(transcript'[r])
    BY <1>0, <1>1, <2>1
  <2> QED
    BY <2>2 DEF WellFormedChat, Turns!Conversation, Turns!Entry, Chat, Answered1, AskedOnce
<1>2. ASSUME NEW s \in Sessions, Turns!Ask(s) PROVE WellFormedChat'
  <2> DEFINE e == [who |-> "user", msg |-> lockOwner[Process][s]]
  <2>1. /\ transcript' = [transcript EXCEPT ![s] = Append(transcript[s], e)]
        /\ e \in Turn /\ e.who = "user" /\ e.msg = lockOwner[Process][s] /\ ~ Turns!Said(lockOwner[Process][s])
    BY <1>0, <1>2 DEF Turns!Ask, Turns!Say, Turns!Entry, Turn
  <2> HIDE DEF e
  <2>2. \A i \in DOMAIN transcript[s] : transcript[s][i] # e
    BY <2>1 DEF Turns!Said
  <2>3. Chat(Append(transcript[s], e))
    BY <1>0, <2>1, <2>2, ChatAppend
  <2> QED
    BY <1>1, <2>1, <2>3
<1>3. ASSUME NEW s \in Sessions, Turns!Answer(s) PROVE WellFormedChat'
  <2> DEFINE e == [who |-> "assistant", msg |-> lockOwner[Process][s]]
  <2>1. /\ transcript' = [transcript EXCEPT ![s] = Append(transcript[s], e)]
        /\ e \in Turn /\ e.who = "assistant" /\ transcript[s] # <<>>
        /\ transcript[s][Len(transcript[s])] = [who |-> "user", msg |-> e.msg]
    BY <1>0, <1>3 DEF Turns!Answer, Turns!Say, Turns!Entry, Turn
  <2> HIDE DEF e
  <2>3. Chat(Append(transcript[s], e))
    BY <1>0, <2>1, ChatAppend
  <2> QED
    BY <1>1, <2>1, <2>3
<1>4. CASE UNCHANGED transcript
  BY <1>4 DEF WellFormedChat, Turns!Conversation, Turns!Entry
<1> QED
  BY <1>2, <1>3, <1>4 DEF Turns!Next, Turns!Open, Turns!Close

(* Where one process serves the streams (OneProcess), for any number of     *)
(* messages, sessions and streams, failures and restarts: in what           *)
(* session.get_messages() hands to the model every answer follows its       *)
(* question, and no question is there twice.  The four processes of the     *)
(* deployment are outside of it: SerialAcrossProcesses shows two of them in *)
(* one session at once.                                                     *)
THEOREM WellFormedInOneProcess == Spec => []WellFormedChat
<1>1. TurnsIInv /\ WellFormedChat /\ [Next]_vars => (TurnsIInv /\ WellFormedChat)'
  <2> SUFFICES ASSUME TurnsIInv, WellFormedChat, [Next]_vars PROVE TurnsIInv' /\ WellFormedChat'
    OBVIOUS
  <2>1. TurnsIInv' /\ [Turns!Next]_<<lockOwner[Process], transcript>>
    BY NextTurns
  <2> QED
    BY <2>1, ChatsKept DEF TurnsIInv, IInv
<1>2. Init => TurnsIInv /\ WellFormedChat
  BY TurnsInitial DEF Init, WellFormedChat, Turns!Conversation
<1> QED
  BY <1>1, <1>2, PTL DEF Spec

-----------------------------------------------------------------------------
(* Order.  n follows m when the user wrote it later, in the same session and *)
(* to the same stream.                                                       *)
LEMMA SingleProcess == \A v, w \in Workers : v = w
  BY OneProcess

Follows(e, n, m) == SessionOf[m] = SessionOf[n] /\ StreamOf[m] = StreamOf[n] /\ e[m] < e[n]

QueueOrdered(e, q) == \A i, j \in DOMAIN q : Follows(e, q[i], q[j]) => j < i

QueuesOrdered ==
    /\ \A w \in Workers : QueueOrdered(entry, permitQ[w])
    /\ \A w \in Workers, s \in Sessions : QueueOrdered(entry, lockQ[w][s])

Within(q, m) == \E i \in DOMAIN q : q[i] = m

(* Who waits is in the queue it waits in.                                    *)
Queued ==
    /\ \A m \in Messages : stage[m] = "permit" => Within(permitQ[reader[m]], m)
    /\ \A m \in Messages : stage[m] = "lock" => Within(lockQ[reader[m]][SessionOf[m]], m)

(* A message never overtakes an earlier one on its way to the lock.          *)
NotBefore(later, earlier) ==
    /\ later = "permit" => earlier # "fetched"
    /\ later = "lock" => earlier \notin {"fetched", "permit"}
    /\ later \in Critical => earlier \notin {"fetched", "permit", "lock"}

StagesOrdered == \A m, n \in Messages : Follows(entry, n, m) => NotBefore(stage[n], stage[m])

Unspoken == {"fetched", "permit", "lock", "begin"}

AskedOrdered ==
    \A s \in Sessions : \A i \in DOMAIN transcript[s] :
        transcript[s][i].who = "user" =>
            \A m \in Messages : Follows(entry, transcript[s][i].msg, m) => stage[m] \notin Unspoken

OwnTranscript ==
    \A s \in Sessions : \A i \in DOMAIN transcript[s] : SessionOf[transcript[s][i].msg] = s

OrderIInv == QueuesOrdered /\ Queued /\ StagesOrdered /\ AskedOrdered /\ OwnTranscript /\ ArrivalOrder

-----------------------------------------------------------------------------
LEMMA TailOrdered ==
    ASSUME NEW S, NEW q \in Seq(S), q # <<>>, NEW e, QueueOrdered(e, q)
    PROVE  /\ QueueOrdered(e, Tail(q))
           /\ \A m : Within(q, m) => ~Follows(e, Head(q), m)
           /\ \A m : Within(q, m) /\ m # Head(q) => Within(Tail(q), m)
<1>1. /\ Head(q) = q[1] /\ 1 \in DOMAIN q /\ DOMAIN q \subseteq Nat \ {0}
      /\ \A i \in DOMAIN Tail(q) : i \in Nat /\ i + 1 \in DOMAIN q /\ Tail(q)[i] = q[i + 1]
      /\ \A i \in DOMAIN q : i # 1 => i - 1 \in DOMAIN Tail(q) /\ Tail(q)[i - 1] = q[i]
  OBVIOUS
<1>2. QueueOrdered(e, Tail(q))
  <2> SUFFICES ASSUME NEW i \in DOMAIN Tail(q), NEW j \in DOMAIN Tail(q), Follows(e, Tail(q)[i], Tail(q)[j])
               PROVE  j < i
    BY DEF QueueOrdered
  <2>1. Follows(e, q[i + 1], q[j + 1]) /\ i + 1 \in DOMAIN q /\ j + 1 \in DOMAIN q
    BY <1>1
  <2>2. j + 1 < i + 1 BY <2>1 DEF QueueOrdered
  <2> QED BY <1>1, <2>2
<1>3. ASSUME NEW m, Within(q, m), Follows(e, Head(q), m) PROVE FALSE
  <2>1. PICK i \in DOMAIN q : q[i] = m BY <1>3 DEF Within
  <2>2. i < 1 BY <1>1, <1>3, <2>1 DEF QueueOrdered
  <2> QED BY <1>1, <2>2
<1>4. ASSUME NEW m, Within(q, m), m # Head(q) PROVE Within(Tail(q), m)
  <2>1. PICK i \in DOMAIN q : q[i] = m BY <1>4 DEF Within
  <2>2. i # 1 BY <1>1, <1>4, <2>1
  <2>3. i - 1 \in DOMAIN Tail(q) /\ Tail(q)[i - 1] = m BY <1>1, <2>1, <2>2
  <2> QED BY <2>3 DEF Within
<1> QED BY <1>2, <1>3, <1>4

LEMMA AppendOrdered ==
    ASSUME NEW S, NEW q \in Seq(S), NEW x \in S, NEW e, QueueOrdered(e, q), ~Follows(e, x, x),
           \A m : Within(q, m) => ~Follows(e, m, x)
    PROVE  /\ QueueOrdered(e, Append(q, x))
           /\ Within(Append(q, x), x)
           /\ \A m : Within(q, m) => Within(Append(q, x), m)
<1> DEFINE a == Append(q, x)
<1>1. /\ Len(q) \in Nat /\ DOMAIN q = 1 .. Len(q) /\ Len(q) + 1 \in DOMAIN a /\ a[Len(q) + 1] = x
      /\ \A i \in DOMAIN a : i \in DOMAIN q \/ i = Len(q) + 1
      /\ \A i \in DOMAIN q : i \in DOMAIN a /\ a[i] = q[i]
  OBVIOUS
<1> HIDE DEF a
<1>2. QueueOrdered(e, a)
  <2> SUFFICES ASSUME NEW i \in DOMAIN a, NEW j \in DOMAIN a, Follows(e, a[i], a[j]) PROVE j < i
    BY DEF QueueOrdered
  <2>1. CASE i \in DOMAIN q /\ j \in DOMAIN q BY <1>1, <2>1 DEF QueueOrdered
  <2>2. CASE i \in DOMAIN q /\ j = Len(q) + 1
    <3>1. a[i] = q[i] /\ a[j] = x /\ Within(q, q[i]) BY <1>1, <2>2 DEF Within
    <3> QED BY <3>1
  <2>3. CASE i = Len(q) + 1 /\ j \in DOMAIN q BY <1>1, <2>3
  <2>4. CASE i = Len(q) + 1 /\ j = Len(q) + 1 BY <1>1, <2>4
  <2> QED BY <1>1, <2>1, <2>2, <2>3, <2>4
<1>3. Within(a, x) BY <1>1 DEF Within
<1>4. \A m : Within(q, m) => Within(a, m) BY <1>1 DEF Within
<1> QED BY <1>2, <1>3, <1>4 DEF a

LEMMA QueueEntries ==
    ASSUME IInv
    PROVE  /\ \A w \in Workers : \A m : Within(permitQ[w], m) =>
                 m \in Messages /\ stage[m] = "permit" /\ reader[m] = w
           /\ \A w \in Workers, s \in Sessions : \A m : Within(lockQ[w][s], m) =>
                 m \in Messages /\ stage[m] = "lock" /\ reader[m] = w /\ SessionOf[m] = s
<1>1. ASSUME NEW w \in Workers, NEW m, Within(permitQ[w], m)
      PROVE  m \in Messages /\ stage[m] = "permit" /\ reader[m] = w
  <2>1. permitQ[w] \in Seq(Messages) BY DEF IInv, TypeOK
  <2>2. PICK i \in DOMAIN permitQ[w] : permitQ[w][i] = m BY <1>1 DEF Within
  <2> QED BY <2>1, <2>2 DEF IInv, PermitQueueSane
<1>2. ASSUME NEW w \in Workers, NEW s \in Sessions, NEW m, Within(lockQ[w][s], m)
      PROVE  m \in Messages /\ stage[m] = "lock" /\ reader[m] = w /\ SessionOf[m] = s
  <2>1. lockQ[w][s] \in Seq(Messages) BY DEF IInv, TypeOK
  <2>2. PICK i \in DOMAIN lockQ[w][s] : lockQ[w][s][i] = m BY <1>2 DEF Within
  <2> QED BY <2>1, <2>2 DEF IInv, LockQueueSane
<1> QED BY <1>1, <1>2

LEMMA Irreflexive ==
    ASSUME TypeOK, NEW m \in Messages
    PROVE  ~Follows(entry, m, m)
  BY DEF TypeOK, Follows

(* What moves one message keeps the order of the stages.                     *)
LEMMA MovesOrdered ==
    ASSUME TypeOK, StagesOrdered, NEW m \in Messages, entry' = entry,
           \A n \in Messages : n # m => stage'[n] = stage[n],
           \A n \in Messages : Follows(entry, n, m) => NotBefore(stage[n], stage'[m]),
           \A n \in Messages : Follows(entry, m, n) => NotBefore(stage'[m], stage[n])
    PROVE  StagesOrdered'
<1> SUFFICES ASSUME NEW x \in Messages, NEW n \in Messages, Follows(entry, n, x)
             PROVE  NotBefore(stage'[n], stage'[x])
  BY DEF StagesOrdered
<1>1. x # n BY Irreflexive
<1>2. CASE x = m BY <1>1, <1>2
<1>3. CASE n = m BY <1>1, <1>3
<1>4. CASE x # m /\ n # m BY <1>4 DEF StagesOrdered
<1> QED BY <1>2, <1>3, <1>4

LEMMA AskedQuiet ==
    ASSUME AskedOrdered, OwnTranscript, ArrivalOrder, UNCHANGED <<transcript, entry>>,
           \A m \in Messages : stage'[m] \in Unspoken => stage[m] \in Unspoken
    PROVE  AskedOrdered' /\ OwnTranscript' /\ ArrivalOrder'
<1>1. AskedOrdered'
  <2> SUFFICES ASSUME NEW s \in Sessions, NEW i \in DOMAIN transcript[s], transcript[s][i].who = "user",
                      NEW m \in Messages, Follows(entry, transcript[s][i].msg, m), stage'[m] \in Unspoken
               PROVE  FALSE
    BY DEF AskedOrdered
  <2> QED BY DEF AskedOrdered
<1>2. OwnTranscript' BY DEF OwnTranscript
<1>3. ArrivalOrder' BY DEF ArrivalOrder
<1> QED BY <1>1, <1>2, <1>3

LEMMA QueuesSame ==
    ASSUME QueuesOrdered, Queued, UNCHANGED <<entry, permitQ, lockQ>>,
           \A m \in Messages : stage'[m] \in {"permit", "lock"} =>
              stage'[m] = stage[m] /\ reader'[m] = reader[m]
    PROVE  QueuesOrdered' /\ Queued'
<1>1. QueuesOrdered' BY DEF QueuesOrdered
<1>2. Queued' BY DEF Queued
<1> QED BY <1>1, <1>2

-----------------------------------------------------------------------------
LEMMA SpawnOrder ==
    ASSUME IInv, OrderIInv, NEW w \in Workers, NEW m \in Messages, Spawn(w, m)
    PROVE  OrderIInv'
<1> DEFINE q == permitQ[w]
<1>0. TypeOK BY DEF IInv
<1>1. /\ stage[m] = "fetched" /\ reader[m] = w /\ stage' = [stage EXCEPT ![m] = "permit"]
      /\ permitQ' = [permitQ EXCEPT ![w] = Append(q, m)]
      /\ UNCHANGED <<entry, reader, lockQ, transcript>>
  BY DEF Spawn, NextInReply, FetchedBy, stream
<1>2. q \in Seq(Messages) /\ permitQ'[w] = Append(q, m) /\ stage'[m] = "permit"
      /\ (\A v \in Workers : v # w => permitQ'[v] = permitQ[v])
      /\ \A n \in Messages : n # m => stage'[n] = stage[n]
  BY <1>0, <1>1 DEF TypeOK
<1> HIDE DEF q
<1>3. \A n \in Messages : Follows(entry, n, m) => stage[n] \notin {"permit", "lock"} \cup Critical
  BY <1>1 DEF OrderIInv, StagesOrdered, NotBefore
<1>4. \A n : Within(q, n) => ~Follows(entry, n, m)
  BY <1>3, QueueEntries DEF q
<1>5. QueueOrdered(entry, q) BY DEF q, OrderIInv, QueuesOrdered
<1>6. QueueOrdered(entry, Append(q, m)) /\ Within(Append(q, m), m)
      /\ \A n : Within(q, n) => Within(Append(q, m), n)
  BY <1>0, <1>2, <1>4, <1>5, Irreflexive, AppendOrdered
<1>7. QueuesOrdered'
  <2>1. \A v \in Workers : QueueOrdered(entry, permitQ'[v])
    BY <1>2, <1>6 DEF OrderIInv, QueuesOrdered
  <2> QED BY <1>1, <2>1 DEF OrderIInv, QueuesOrdered
<1>8. Queued'
  <2>1. ASSUME NEW n \in Messages, stage'[n] = "permit" PROVE Within(permitQ'[reader[n]], n)
    <3>1. CASE n = m BY <1>1, <1>2, <1>6, <3>1
    <3>2. CASE n # m
      <4>1. stage[n] = "permit" BY <1>2, <2>1, <3>2
      <4>2. reader[n] = w BY <4>1, SingleProcess DEF IInv, HasReader, InFlight
      <4>3. Within(q, n) BY <4>1, <4>2 DEF q, OrderIInv, Queued
      <4> QED BY <1>2, <1>6, <4>2, <4>3
    <3> QED BY <3>1, <3>2
  <2>2. ASSUME NEW n \in Messages, stage'[n] = "lock" PROVE Within(lockQ[reader[n]][SessionOf[n]], n)
    <3>1. stage[n] = "lock" BY <1>2, <2>2
    <3> QED BY <3>1 DEF OrderIInv, Queued
  <2> QED BY <1>1, <2>1, <2>2 DEF Queued
<1>9. StagesOrdered'
  <2>1. \A n \in Messages : Follows(entry, n, m) => NotBefore(stage[n], "permit")
    BY <1>3 DEF NotBefore
  <2>2. ASSUME NEW n \in Messages, Follows(entry, m, n), stage[n] = "fetched" PROVE FALSE
    <3>1. n \in FetchedBy(w) BY <2>2, SingleProcess DEF FetchedBy, IInv, HasReader
    <3>2. StreamOf[n] = StreamOf[m] /\ entry[n] < entry[m] /\ n # m
      BY <1>0, <2>2, Irreflexive DEF Follows
    <3>3. StreamOf[m] < StreamOf[n] \/ entry[m] < entry[n]
      BY <3>1, <3>2 DEF Spawn, NextInReply
    <3>4. StreamOf[m] \in Nat /\ entry[m] \in Nat /\ entry[n] \in Nat
      BY <1>0, InboundAssumption DEF TypeOK, Streams
    <3> QED BY <3>2, <3>3, <3>4
  <2>3. \A n \in Messages : Follows(entry, m, n) => NotBefore("permit", stage[n])
    BY <2>2 DEF NotBefore, Critical
  <2> QED BY <1>0, <1>1, <1>2, <2>1, <2>3, MovesOrdered DEF OrderIInv
<1>10. AskedOrdered' /\ OwnTranscript' /\ ArrivalOrder'
  <2>1. \A n \in Messages : stage'[n] \in Unspoken => stage[n] \in Unspoken
    BY <1>1, <1>2 DEF Unspoken
  <2> QED BY <1>1, <2>1, AskedQuiet DEF OrderIInv
<1> QED BY <1>7, <1>8, <1>9, <1>10 DEF OrderIInv

LEMMA PermitOrder ==
    ASSUME IInv, OrderIInv, NEW w \in Workers, AcquirePermit(w)
    PROVE  OrderIInv'
<1> DEFINE q == permitQ[w]
<1>0. TypeOK BY DEF IInv
<1>1. PICK m \in Messages :
        /\ m = Head(q) /\ q \in Seq(Messages) /\ q # <<>>
        /\ reader[m] = w /\ stage[m] = "permit"
        /\ stage' = [stage EXCEPT ![m] = "lock"]
        /\ permitQ' = [permitQ EXCEPT ![w] = Tail(q)]
        /\ lockQ' = [lockQ EXCEPT ![w][SessionOf[m]] = Append(lockQ[w][SessionOf[m]], m)]
        /\ UNCHANGED <<entry, reader, transcript>>
  BY PermitMoves
<1> DEFINE s == SessionOf[m]
           l == lockQ[w][s]
<1>2. /\ s \in Sessions /\ l \in Seq(Messages) /\ stage'[m] = "lock"
      /\ permitQ'[w] = Tail(q) /\ lockQ'[w][s] = Append(l, m)
      /\ \A v \in Workers : v # w => permitQ'[v] = permitQ[v]
      /\ \A v \in Workers, t \in Sessions : v # w \/ t # s => lockQ'[v][t] = lockQ[v][t]
      /\ \A n \in Messages : n # m => stage'[n] = stage[n]
  <2>1. s \in Sessions BY InboundAssumption
  <2>2. l \in Seq(Messages) BY <1>0, <2>1 DEF TypeOK
  <2>3. stage'[m] = "lock" /\ \A n \in Messages : n # m => stage'[n] = stage[n] BY <1>0, <1>1 DEF TypeOK
  <2>4. permitQ'[w] = Tail(q) /\ \A v \in Workers : v # w => permitQ'[v] = permitQ[v]
    BY <1>0, <1>1 DEF TypeOK
  <2>5. /\ lockQ'[w][s] = Append(l, m)
        /\ \A v \in Workers, t \in Sessions : v # w \/ t # s => lockQ'[v][t] = lockQ[v][t]
    BY <1>0, <1>1, <2>1 DEF TypeOK
  <2> QED BY <2>1, <2>2, <2>3, <2>4, <2>5
<1>3. QueueOrdered(entry, q) /\ QueueOrdered(entry, l)
  BY <1>2 DEF OrderIInv, QueuesOrdered
<1>4. \A n : Within(l, n) => n \in Messages /\ stage[n] = "lock"
  BY <1>2, QueueEntries
<1> HIDE DEF q, l
<1>5. /\ QueueOrdered(entry, Tail(q))
      /\ \A n : Within(q, n) => ~Follows(entry, m, n)
      /\ \A n : Within(q, n) /\ n # m => Within(Tail(q), n)
  BY <1>1, <1>3, TailOrdered
<1>6. \A n \in Messages : Follows(entry, n, m) => stage[n] \notin {"lock"} \cup Critical
  BY <1>1 DEF OrderIInv, StagesOrdered, NotBefore
<1>7. \A n : Within(l, n) => ~Follows(entry, n, m)
  BY <1>4, <1>6
<1>8. QueueOrdered(entry, Append(l, m)) /\ Within(Append(l, m), m)
      /\ \A n : Within(l, n) => Within(Append(l, m), n)
  BY <1>0, <1>2, <1>3, <1>7, Irreflexive, AppendOrdered
<1>9. QueuesOrdered'
  <2>1. \A v \in Workers : QueueOrdered(entry, permitQ'[v])
    BY <1>2, <1>5 DEF OrderIInv, QueuesOrdered
  <2>2. \A v \in Workers, t \in Sessions : QueueOrdered(entry, lockQ'[v][t])
    BY <1>2, <1>8 DEF OrderIInv, QueuesOrdered
  <2> QED BY <1>1, <2>1, <2>2 DEF QueuesOrdered
<1>10. Queued'
  <2>1. ASSUME NEW n \in Messages, stage'[n] = "permit" PROVE Within(permitQ'[reader[n]], n)
    <3>1. n # m /\ stage[n] = "permit" BY <1>2, <2>1
    <3>2. reader[n] = w BY <3>1, SingleProcess DEF IInv, HasReader, InFlight
    <3>3. Within(q, n) BY <3>1, <3>2 DEF q, OrderIInv, Queued
    <3> QED BY <1>2, <1>5, <3>1, <3>2, <3>3
  <2>2. ASSUME NEW n \in Messages, stage'[n] = "lock" PROVE Within(lockQ'[reader[n]][SessionOf[n]], n)
    <3>1. CASE n = m BY <1>1, <1>2, <1>8, <3>1
    <3>2. CASE n # m
      <4>1. stage[n] = "lock" BY <1>2, <2>2, <3>2
      <4>2. reader[n] = w /\ SessionOf[n] \in Sessions
        BY <4>1, InboundAssumption, SingleProcess DEF IInv, HasReader, InFlight, Permitted
      <4>3. Within(lockQ[w][SessionOf[n]], n) BY <4>1, <4>2 DEF OrderIInv, Queued
      <4> QED BY <1>2, <1>8, <4>2, <4>3 DEF l
    <3> QED BY <3>1, <3>2
  <2> QED BY <1>1, <2>1, <2>2 DEF Queued
<1>11. StagesOrdered'
  <2>1. \A n \in Messages : Follows(entry, n, m) => NotBefore(stage[n], "lock")
    BY <1>6, <1>1 DEF NotBefore
  <2>2. ASSUME NEW n \in Messages, Follows(entry, m, n), stage[n] = "permit" PROVE FALSE
    <3>1. reader[n] = w BY <2>2, SingleProcess DEF IInv, HasReader, InFlight
    <3>2. Within(q, n) BY <2>2, <3>1 DEF q, OrderIInv, Queued
    <3> QED BY <1>5, <2>2, <3>2
  <2>3. \A n \in Messages : Follows(entry, m, n) => stage[n] # "fetched"
    BY <1>1 DEF OrderIInv, StagesOrdered, NotBefore
  <2>4. \A n \in Messages : Follows(entry, m, n) => NotBefore("lock", stage[n])
    BY <2>2, <2>3 DEF NotBefore, Critical
  <2> QED BY <1>0, <1>1, <1>2, <2>1, <2>4, MovesOrdered DEF OrderIInv
<1>12. AskedOrdered' /\ OwnTranscript' /\ ArrivalOrder'
  <2>1. \A n \in Messages : stage'[n] \in Unspoken => stage[n] \in Unspoken
    BY <1>1, <1>2 DEF Unspoken
  <2> QED BY <1>1, <2>1, AskedQuiet DEF OrderIInv
<1> QED BY <1>9, <1>10, <1>11, <1>12 DEF OrderIInv

LEMMA SessionOrder ==
    ASSUME IInv, OrderIInv, NEW w \in Workers, NEW s \in Sessions, AcquireSession(w, s)
    PROVE  OrderIInv'
<1> DEFINE q == lockQ[w][s]
<1>0. TypeOK BY DEF IInv
<1>1. PICK m \in Messages :
        /\ m = Head(q) /\ q \in Seq(Messages) /\ q # <<>>
        /\ reader[m] = w /\ stage[m] = "lock" /\ SessionOf[m] = s
        /\ stage' = [stage EXCEPT ![m] = "begin"]
        /\ lockQ' = [lockQ EXCEPT ![w][s] = Tail(q)]
        /\ UNCHANGED <<entry, reader, transcript, permitQ>>
  BY SessionMoves
<1>2. /\ stage'[m] = "begin" /\ lockQ'[w][s] = Tail(q)
      /\ \A v \in Workers, t \in Sessions : v # w \/ t # s => lockQ'[v][t] = lockQ[v][t]
      /\ \A n \in Messages : n # m => stage'[n] = stage[n]
  BY <1>0, <1>1 DEF TypeOK
<1>3. QueueOrdered(entry, q)
  BY DEF OrderIInv, QueuesOrdered
<1> HIDE DEF q
<1>5. /\ QueueOrdered(entry, Tail(q))
      /\ \A n : Within(q, n) => ~Follows(entry, m, n)
      /\ \A n : Within(q, n) /\ n # m => Within(Tail(q), n)
  BY <1>1, <1>3, TailOrdered
<1>9. QueuesOrdered'
  <2>2. \A v \in Workers, t \in Sessions : QueueOrdered(entry, lockQ'[v][t])
    BY <1>2, <1>5 DEF OrderIInv, QueuesOrdered
  <2> QED BY <1>1, <2>2 DEF OrderIInv, QueuesOrdered
<1>10. Queued'
  <2>1. ASSUME NEW n \in Messages, stage'[n] = "permit" PROVE Within(permitQ[reader[n]], n)
    <3>1. stage[n] = "permit" BY <1>2, <2>1
    <3> QED BY <3>1 DEF OrderIInv, Queued
  <2>2. ASSUME NEW n \in Messages, stage'[n] = "lock" PROVE Within(lockQ'[reader[n]][SessionOf[n]], n)
    <3>1. n # m /\ stage[n] = "lock" BY <1>2, <2>2
    <3>2. reader[n] = w /\ SessionOf[n] \in Sessions
      BY <3>1, InboundAssumption, SingleProcess DEF IInv, HasReader, InFlight, Permitted
    <3>3. Within(lockQ[w][SessionOf[n]], n) BY <3>1, <3>2 DEF OrderIInv, Queued
    <3> QED BY <1>2, <1>5, <3>1, <3>2, <3>3 DEF q
  <2> QED BY <1>1, <2>1, <2>2 DEF Queued
<1>11. StagesOrdered'
  <2>1. \A n \in Messages : Follows(entry, n, m) => NotBefore(stage[n], "begin")
    BY DEF NotBefore
  <2>2. ASSUME NEW n \in Messages, Follows(entry, m, n), stage[n] = "lock" PROVE FALSE
    <3>1. reader[n] = w BY <2>2, SingleProcess DEF IInv, HasReader, InFlight, Permitted
    <3>2. Within(q, n) BY <1>1, <2>2, <3>1 DEF q, OrderIInv, Queued, Follows
    <3> QED BY <1>5, <2>2, <3>2
  <2>3. \A n \in Messages : Follows(entry, m, n) => stage[n] \notin {"fetched", "permit"}
    BY <1>1 DEF OrderIInv, StagesOrdered, NotBefore
  <2>4. \A n \in Messages : Follows(entry, m, n) => NotBefore("begin", stage[n])
    BY <2>2, <2>3 DEF NotBefore, Critical
  <2> QED BY <1>0, <1>1, <1>2, <2>1, <2>4, MovesOrdered DEF OrderIInv
<1>12. AskedOrdered' /\ OwnTranscript' /\ ArrivalOrder'
  <2>1. \A n \in Messages : stage'[n] \in Unspoken => stage[n] \in Unspoken
    BY <1>1, <1>2 DEF Unspoken
  <2> QED BY <1>1, <2>1, AskedQuiet DEF OrderIInv
<1> QED BY <1>9, <1>10, <1>11, <1>12 DEF OrderIInv

LEMMA StoredMessage ==
    ASSUME TypeOK, NEW s \in Sessions, NEW i \in DOMAIN transcript[s]
    PROVE  transcript[s][i].msg \in Messages
<1>1. transcript[s] \in Seq(Turn) BY DEF TypeOK
<1>2. transcript[s][i] \in Turn BY <1>1
<1> QED BY <1>2 DEF Turn

LEMMA DeliverOrder ==
    ASSUME IInv, OnceIInv, OrderIInv, NEW w \in Workers, NEW to \in {"fetched", "stranded"}, Deliver(w, to)
    PROVE  OrderIInv'
<1>0. TypeOK BY DEF IInv
<1>1. /\ \A m \in NewEntries : stage[m] = "sent" /\ stage'[m] = to
      /\ \A m \in Messages \ NewEntries : reader'[m] = reader[m] /\ stage'[m] = stage[m]
      /\ UNCHANGED <<entry, transcript, permitQ, lockQ>>
  BY DeliverMoves
\* What comes behind an entry that nobody has read has not been read either.
<1>2. ASSUME NEW m \in NewEntries, NEW n \in Messages, Follows(entry, n, m) PROVE stage[n] = "sent"
  <2>1. m \in Messages /\ StreamOf[n] \in Streams /\ cursor[StreamOf[n]] < entry[m] /\ entry[m] < entry[n]
    BY <1>2, InboundAssumption DEF NewEntries, Follows
  <2>2. cursor[StreamOf[n]] \in Nat /\ entry[m] \in Nat /\ entry[n] \in Nat BY <1>0, <2>1 DEF TypeOK
  <2>3. cursor[StreamOf[n]] < entry[n] BY <2>1, <2>2
  <2> QED BY <2>3 DEF IInv, UnreadUntouched
<1>3. QueuesOrdered' /\ Queued'
  <2>1. \A m \in Messages : stage'[m] \in {"permit", "lock"} => stage'[m] = stage[m] /\ reader'[m] = reader[m]
    BY <1>1
  <2> QED BY <1>1, <2>1, QueuesSame DEF OrderIInv
<1>4. StagesOrdered'
  <2> SUFFICES ASSUME NEW m \in Messages, NEW n \in Messages, Follows(entry, n, m)
               PROVE  NotBefore(stage'[n], stage'[m])
    BY <1>1 DEF StagesOrdered
  <2>1. CASE n \in NewEntries BY <1>1, <2>1 DEF NotBefore, Critical
  <2>2. CASE n \notin NewEntries /\ m \in NewEntries BY <1>1, <1>2, <2>2 DEF NotBefore, Critical
  <2>3. CASE n \notin NewEntries /\ m \notin NewEntries
    <3>1. stage'[n] = stage[n] /\ stage'[m] = stage[m] BY <1>1, <2>3
    <3> QED BY <3>1 DEF OrderIInv, StagesOrdered
  <2> QED BY <2>1, <2>2, <2>3
<1>5. AskedOrdered'
  <2> SUFFICES ASSUME NEW s \in Sessions, NEW i \in DOMAIN transcript[s], transcript[s][i].who = "user",
                      NEW m \in Messages, Follows(entry, transcript[s][i].msg, m), stage'[m] \in Unspoken
               PROVE  FALSE
    BY <1>1 DEF AskedOrdered
  <2> DEFINE n == transcript[s][i].msg
  <2>1. n \in Messages BY <1>0, StoredMessage
  <2>2. stage[n] # "sent" BY DEF OnceIInv, StoredByStage, Unasked
  <2>3. m \notin NewEntries BY <1>2, <2>1, <2>2
  <2>4. stage[m] \in Unspoken BY <1>1, <2>3
  <2> QED BY <2>4 DEF OrderIInv, AskedOrdered
<1>6. OwnTranscript' BY <1>1 DEF OrderIInv, OwnTranscript
<1>7. ArrivalOrder' BY <1>1 DEF OrderIInv, ArrivalOrder
<1> QED BY <1>3, <1>4, <1>5, <1>6, <1>7 DEF OrderIInv

LEMMA HaltOrder ==
    ASSUME IInv, OrderIInv, NEW w \in Workers, Halt(w)
    PROVE  OrderIInv'
<1>0. TypeOK BY DEF IInv
<1>1. UNCHANGED <<entry, transcript, reader>> BY DEF Halt, stream
<1>2. \A m \in Messages : stage'[m] = IF m \in Inflight(w) \cup FetchedBy(w) THEN "stranded" ELSE stage[m]
  BY DEF Halt
<1>3. ASSUME NEW m \in Messages PROVE stage'[m] \notin {"fetched"} \cup InFlight
  <2>1. CASE stage[m] \in {"fetched"} \cup InFlight
    <3>1. reader[m] = w BY <2>1, SingleProcess DEF IInv, HasReader
    <3>2. m \in Inflight(w) \cup FetchedBy(w) BY <2>1, <3>1 DEF Inflight, FetchedBy
    <3> QED BY <1>2, <3>2 DEF InFlight, Permitted, Critical
  <2>2. CASE stage[m] \notin {"fetched"} \cup InFlight
    BY <1>2, <2>2 DEF InFlight, Permitted, Critical
  <2> QED BY <2>1, <2>2
<1>4. /\ \A v \in Workers : permitQ'[v] = <<>>
      /\ \A v \in Workers, s \in Sessions : lockQ'[v][s] = <<>>
  BY <1>0, SingleProcess DEF Halt, TypeOK
<1>5. QueueOrdered(entry, <<>>) BY DEF QueueOrdered
<1>6. QueuesOrdered' BY <1>1, <1>4, <1>5 DEF QueuesOrdered
<1>7. Queued' BY <1>3 DEF Queued, InFlight, Permitted
<1>8. StagesOrdered' BY <1>3 DEF StagesOrdered, NotBefore, InFlight, Permitted
<1>9. AskedOrdered' /\ OwnTranscript' /\ ArrivalOrder'
  <2>1. \A m \in Messages : stage'[m] \in Unspoken => stage[m] \in Unspoken
    BY <1>3 DEF Unspoken, InFlight, Permitted, Critical
  <2> QED BY <1>1, <2>1, AskedQuiet DEF OrderIInv
<1> QED BY <1>6, <1>7, <1>8, <1>9 DEF OrderIInv

(* A new message is behind all others, and in no queue and no transcript.    *)
LEMMA PublishOrder ==
    ASSUME IInv, EntriesSane, OnceIInv, OrderIInv, NEW m \in Messages, Publish(m)
    PROVE  OrderIInv'
<1>0. TypeOK BY DEF IInv
<1>1. /\ stage[m] = "unsent" /\ stage'[m] = "sent" /\ entry'[m] = length[StreamOf[m]] + 1
      /\ \A n \in Messages : n # m => stage'[n] = stage[n] /\ entry'[n] = entry[n]
      /\ UNCHANGED <<reader, transcript, permitQ, lockQ>>
  BY <1>0 DEF Publish, TypeOK, locks
<1>2. ASSUME NEW n \in Messages PROVE ~Follows(entry', n, m)
  <2>1. CASE n = m BY <1>1, <2>1, <1>0, InboundAssumption DEF Follows, TypeOK
  <2>2. CASE n # m
    <3>1. StreamOf[n] = StreamOf[m] => entry[n] <= length[StreamOf[m]] BY DEF EntriesSane
    <3>2. entry'[n] = entry[n] /\ entry[n] \in Nat /\ length[StreamOf[m]] \in Nat
      BY <1>0, <1>1, <2>2, InboundAssumption DEF TypeOK
    <3> QED BY <1>1, <3>1, <3>2 DEF Follows
  <2> QED BY <2>1, <2>2
<1>3. \A n, x \in Messages : n # m /\ Follows(entry', n, x) => x # m /\ Follows(entry, n, x)
  BY <1>1, <1>2 DEF Follows
<1>4. ASSUME NEW q, \A i \in DOMAIN q : q[i] \in Messages /\ q[i] # m, QueueOrdered(entry, q)
      PROVE  QueueOrdered(entry', q)
  BY <1>3, <1>4 DEF QueueOrdered
<1>5. QueuesOrdered'
  <2>1. ASSUME NEW v \in Workers PROVE QueueOrdered(entry', permitQ[v])
    <3>1. \A i \in DOMAIN permitQ[v] : permitQ[v][i] \in Messages /\ permitQ[v][i] # m
      BY <1>1, QueueEntries DEF Within
    <3> QED BY <1>4, <3>1 DEF OrderIInv, QueuesOrdered
  <2>2. ASSUME NEW v \in Workers, NEW s \in Sessions PROVE QueueOrdered(entry', lockQ[v][s])
    <3>1. \A i \in DOMAIN lockQ[v][s] : lockQ[v][s][i] \in Messages /\ lockQ[v][s][i] # m
      BY <1>1, QueueEntries DEF Within
    <3> QED BY <1>4, <3>1 DEF OrderIInv, QueuesOrdered
  <2> QED BY <1>1, <2>1, <2>2 DEF QueuesOrdered
<1>6. Queued' BY <1>1 DEF OrderIInv, Queued
<1>7. StagesOrdered'
  <2> SUFFICES ASSUME NEW x \in Messages, NEW n \in Messages, Follows(entry', n, x)
               PROVE  NotBefore(stage'[n], stage'[x])
    BY DEF StagesOrdered
  <2>1. CASE n = m BY <1>1, <2>1 DEF NotBefore, Critical
  <2>2. CASE n # m
    <3>1. x # m /\ Follows(entry, n, x) BY <1>3, <2>2
    <3> QED BY <1>1, <2>2, <3>1 DEF OrderIInv, StagesOrdered
  <2> QED BY <2>1, <2>2
<1>8. ASSUME NEW s \in Sessions, NEW i \in DOMAIN transcript[s], transcript[s][i].who = "user"
      PROVE  transcript[s][i].msg \in Messages /\ transcript[s][i].msg # m
  <2>1. transcript[s][i].msg \in Messages BY <1>0, StoredMessage
  <2>2. stage[transcript[s][i].msg] # "unsent" BY <1>8 DEF OnceIInv, StoredByStage, Unasked
  <2> QED BY <1>1, <2>1, <2>2
<1>9. AskedOrdered'
  <2> SUFFICES ASSUME NEW s \in Sessions, NEW i \in DOMAIN transcript[s], transcript[s][i].who = "user",
                      NEW x \in Messages, Follows(entry', transcript[s][i].msg, x)
               PROVE  stage'[x] \notin Unspoken
    BY <1>1 DEF AskedOrdered
  <2>1. x # m /\ Follows(entry, transcript[s][i].msg, x) BY <1>3, <1>8
  <2>2. stage'[x] = stage[x] BY <1>1, <2>1
  <2> QED BY <2>1, <2>2 DEF OrderIInv, AskedOrdered
<1>10. OwnTranscript' BY <1>1 DEF OrderIInv, OwnTranscript
<1>11. ArrivalOrder'
  <2> SUFFICES ASSUME NEW s \in Sessions, NEW i \in DOMAIN transcript[s], NEW j \in DOMAIN transcript[s],
                      i < j, transcript[s][i].who = "user", transcript[s][j].who = "user",
                      StreamOf[transcript[s][i].msg] = StreamOf[transcript[s][j].msg]
               PROVE  entry'[transcript[s][i].msg] < entry'[transcript[s][j].msg]
    BY <1>1 DEF ArrivalOrder
  <2>1. entry[transcript[s][i].msg] < entry[transcript[s][j].msg] BY DEF OrderIInv, ArrivalOrder
  <2> QED BY <1>1, <1>8, <2>1
<1> QED BY <1>5, <1>6, <1>7, <1>9, <1>10, <1>11 DEF OrderIInv

(* A question is stored while its task holds the lock of the session.        *)
LEMMA StoreOrder ==
    ASSUME IInv, EntriesSane, OnceIInv, OrderIInv, NEW m \in Messages,
           NEW who \in {"user", "assistant"}, Store(m, who),
           who = "user" => stage[m] = "begin" /\ stage'[m] = "recorded",
           UNCHANGED <<entry, reader>>,
           \A n \in Messages : stage'[n] \in Unspoken => stage[n] \in Unspoken
    PROVE  AskedOrdered' /\ OwnTranscript' /\ ArrivalOrder'
<1> DEFINE s == SessionOf[m]
           last == Len(transcript[s]) + 1
           e == [who |-> who, msg |-> m]
<1>0. TypeOK BY DEF IInv
<1>1. /\ s \in Sessions /\ Len(transcript[s]) \in Nat
      /\ transcript'[s] \in Seq(Turn) /\ Len(transcript'[s]) = last
      /\ transcript'[s][last] = e
      /\ \A i \in DOMAIN transcript[s] : transcript'[s][i] = transcript[s][i]
      /\ \A r \in Sessions : r # s => transcript'[r] = transcript[r]
  BY <1>0, StoredIs
<1>2. transcript[s] \in Seq(Turn) BY <1>0, <1>1 DEF TypeOK
<1>3. DOMAIN transcript'[s] = 1 .. last /\ DOMAIN transcript[s] = 1 .. (last - 1) /\ last \in Nat
  BY <1>1, <1>2
<1> HIDE DEF last
<1>4. ASSUME NEW r \in Sessions, NEW i \in DOMAIN transcript'[r]
      PROVE  \/ i \in DOMAIN transcript[r] /\ transcript'[r][i] = transcript[r][i]
             \/ r = s /\ i = last /\ transcript'[r][i] = e
  BY <1>1, <1>3
<1>5. e.who = who /\ e.msg = m OBVIOUS
<1> HIDE DEF e
<1>6. ASSUME who = "user", NEW n \in Messages, Follows(entry, m, n) PROVE stage'[n] \notin Unspoken
  <2>1. stage[n] \notin {"fetched", "permit", "lock"}
    BY <1>6 DEF OrderIInv, StagesOrdered, NotBefore, Critical
  <2>2. ASSUME stage[n] = "begin" PROVE FALSE
    <3>1. reader[m] \in Workers /\ reader[n] \in Workers
      BY <1>6, <2>2 DEF IInv, HasReader, InFlight, Permitted, Critical
    <3>2. reader[m] = reader[n] /\ SessionOf[m] = SessionOf[n] BY <1>6, <3>1, SingleProcess DEF Follows
    <3>3. m = n BY <1>6, <2>2, <3>2 DEF IInv, OwnsLock, Critical
    <3> QED BY <1>0, <1>6, <3>3, Irreflexive
  <2> QED BY <2>1, <2>2 DEF Unspoken
<1>7. AskedOrdered'
  <2> SUFFICES ASSUME NEW r \in Sessions, NEW i \in DOMAIN transcript'[r], transcript'[r][i].who = "user",
                      NEW n \in Messages, Follows(entry, transcript'[r][i].msg, n)
               PROVE  stage'[n] \notin Unspoken
    BY DEF AskedOrdered
  <2>1. CASE i \in DOMAIN transcript[r] /\ transcript'[r][i] = transcript[r][i]
    BY <2>1 DEF OrderIInv, AskedOrdered
  <2>2. CASE transcript'[r][i] = e BY <1>5, <1>6, <2>2
  <2> QED BY <1>4, <2>1, <2>2
<1>8. OwnTranscript'
  <2> SUFFICES ASSUME NEW r \in Sessions, NEW i \in DOMAIN transcript'[r]
               PROVE  SessionOf[transcript'[r][i].msg] = r
    BY DEF OwnTranscript
  <2> QED BY <1>4, <1>5 DEF OrderIInv, OwnTranscript
<1>9. ArrivalOrder'
  <2> SUFFICES ASSUME NEW r \in Sessions, NEW i \in DOMAIN transcript'[r], NEW j \in DOMAIN transcript'[r],
                      i < j, transcript'[r][i].who = "user", transcript'[r][j].who = "user",
                      StreamOf[transcript'[r][i].msg] = StreamOf[transcript'[r][j].msg]
               PROVE  entry[transcript'[r][i].msg] < entry[transcript'[r][j].msg]
    BY DEF ArrivalOrder
  <2>1. CASE /\ i \in DOMAIN transcript[r] /\ transcript'[r][i] = transcript[r][i]
             /\ j \in DOMAIN transcript[r] /\ transcript'[r][j] = transcript[r][j]
    BY <2>1 DEF OrderIInv, ArrivalOrder
  <2>2. CASE r = s /\ i = last
    <3>1. j \in 1 .. last BY <1>3, <2>2
    <3> QED BY <1>3, <2>2, <3>1
  <2>3. CASE /\ i \in DOMAIN transcript[r] /\ transcript'[r][i] = transcript[r][i]
             /\ r = s /\ j = last /\ transcript'[r][j] = e
    <3> DEFINE x == transcript[s][i].msg
    <3>1. who = "user" /\ stage[m] = "begin" BY <1>5, <2>3
    <3>2. x \in Messages BY <1>0, <1>1, <2>3, StoredMessage
    <3>3. stage[x] \notin Unasked /\ SessionOf[x] = s /\ transcript[s][i].who = "user"
      BY <1>1, <2>3 DEF OnceIInv, StoredByStage, OrderIInv, OwnTranscript
    <3>4. x # m BY <3>1, <3>3 DEF Unasked
    <3>5. ~Follows(entry, x, m) BY <1>1, <2>3, <3>1, <3>3 DEF OrderIInv, AskedOrdered, Unspoken
    <3>6. StreamOf[x] = StreamOf[m] BY <1>5, <2>3
    <3>7. entry[x] \in Nat /\ entry[m] \in Nat BY <1>0, <3>2 DEF TypeOK
    <3>8. entry[x] # entry[m]
      BY <3>1, <3>2, <3>4, <3>6 DEF EntriesSane
    <3>9. entry[x] < entry[m] BY <3>3, <3>5, <3>6, <3>7, <3>8 DEF Follows
    <3> QED BY <1>5, <2>3, <3>9
  <2> QED BY <1>4, <2>1, <2>2, <2>3
<1> QED BY <1>7, <1>8, <1>9

LEMMA HandleOrder ==
    ASSUME IInv, EntriesSane, OnceIInv, OrderIInv, NEW m \in Messages, Handle(m)
    PROVE  OrderIInv'
<1>0. TypeOK BY DEF IInv
<1>1. /\ UNCHANGED <<entry, reader, permitQ, lockQ>>
      /\ stage[m] \in Critical /\ stage'[m] \in (Critical \ {"begin"}) \cup Settled
      /\ \A n \in Messages : n # m => stage'[n] = stage[n]
      /\ UNCHANGED transcript \/ RecordUser(m) \/ RecordReply(m)
  BY HandleMoves
<1>2. QueuesOrdered' /\ Queued'
  <2>1. \A n \in Messages : stage'[n] \in {"permit", "lock"} => stage'[n] = stage[n] /\ reader'[n] = reader[n]
    BY <1>1 DEF Critical, Settled
  <2> QED BY <1>1, <2>1, QueuesSame DEF OrderIInv
<1>3. StagesOrdered'
  <2>1. \A n \in Messages : NotBefore(stage[n], stage'[m])
    BY <1>1 DEF NotBefore, Critical, Settled
  <2>2. \A n \in Messages : Follows(entry, m, n) => NotBefore(stage'[m], stage[n])
    BY <1>1 DEF OrderIInv, StagesOrdered, NotBefore, Critical, Settled
  <2> QED BY <1>0, <1>1, <2>1, <2>2, MovesOrdered DEF OrderIInv
<1>4. \A n \in Messages : stage'[n] \in Unspoken => stage[n] \in Unspoken
  BY <1>1 DEF Unspoken, Critical, Settled
<1>5. AskedOrdered' /\ OwnTranscript' /\ ArrivalOrder'
  <2>1. CASE UNCHANGED transcript BY <1>1, <1>4, <2>1, AskedQuiet DEF OrderIInv
  <2>2. CASE RecordUser(m)
    <3>1. stage[m] = "begin" /\ stage'[m] = "recorded" /\ Store(m, "user")
      BY <1>0, <2>2 DEF RecordUser, Step, TypeOK
    <3> QED BY <1>1, <1>4, <3>1, StoreOrder
  <2>3. CASE RecordReply(m)
    <3>1. Store(m, "assistant") BY <2>3 DEF RecordReply
    <3> QED BY <1>1, <1>4, <3>1, StoreOrder
  <2> QED BY <1>1, <2>1, <2>2, <2>3
<1> QED BY <1>2, <1>3, <1>5 DEF OrderIInv

LEMMA BreakOrder ==
    ASSUME IInv, OrderIInv, NEW w \in Workers, BreakReply(w)
    PROVE  OrderIInv'
<1>1. QueuesOrdered' /\ Queued'
  <2>1. \A n \in Messages : stage'[n] \in {"permit", "lock"} => stage'[n] = stage[n] /\ reader'[n] = reader[n]
    BY BreakMoves
  <2>2. \A n \in Messages : stage[n] \in {"permit", "lock"} => stage'[n] = stage[n]
    BY BreakMoves
  <2> QED
    BY <2>1, <2>2, BreakMoves, QueuesSame DEF OrderIInv
<1>2. StagesOrdered'
  <2> SUFFICES ASSUME NEW m \in Messages, NEW n \in Messages, Follows(entry, n, m)
               PROVE  NotBefore(stage'[n], stage'[m])
    BY BreakMoves DEF StagesOrdered
  <2>1. NotBefore(stage[n], stage[m])
    BY DEF OrderIInv, StagesOrdered
  <2> QED
    BY <2>1, BreakMoves DEF NotBefore, Critical
<1>3. AskedOrdered' /\ OwnTranscript' /\ ArrivalOrder'
  <2>1. \A n \in Messages : stage'[n] \in Unspoken => stage[n] \in Unspoken
    BY BreakMoves DEF Unspoken
  <2> QED
    BY <2>1, BreakMoves, AskedQuiet DEF OrderIInv
<1> QED
  BY <1>1, <1>2, <1>3 DEF OrderIInv

LEMMA NextOrder ==
    ASSUME IInv, EntriesSane, OnceIInv, OrderIInv, [Next]_vars
    PROVE  OrderIInv'
\* A step of the loop alone.
<1>1. ASSUME UNCHANGED <<entry, reader, permitQ, lockQ, stage, transcript>> PROVE OrderIInv'
  BY <1>1, QueuesSame, AskedQuiet DEF OrderIInv, StagesOrdered
<1>2. ASSUME NEW m \in Messages, Publish(m) \/ Handle(m) PROVE OrderIInv'
  BY <1>2, PublishOrder, HandleOrder
<1>3. ASSUME NEW w \in Workers, Consume(w) PROVE OrderIInv'
  <2>1. CASE Start(w) \/ PassGate(w) BY <1>1, <2>1 DEF Start, PassGate, stream, locks
  <2>2. CASE Read(w) \/ LoseReply(w) BY <2>2, DeliverOrder DEF Read, LoseReply
  <2> QED BY <1>3, <2>1, <2>2, BreakOrder, SpawnOrder DEF Consume
<1>4. ASSUME NEW w \in Workers, AcquirePermit(w) \/ Halt(w) PROVE OrderIInv'
  BY <1>4, PermitOrder, HaltOrder
<1>5. ASSUME NEW w \in Workers, NEW s \in Sessions, AcquireSession(w, s) PROVE OrderIInv'
  BY <1>5, SessionOrder
<1>6. CASE UNCHANGED vars BY <1>1, <1>6 DEF vars, stream, locks
<1> QED BY <1>2, <1>3, <1>4, <1>5, <1>6 DEF Next

LEMMA InitOrder == Init => EntriesSane /\ OnceIInv /\ OrderIInv
<1> SUFFICES ASSUME Init PROVE EntriesSane /\ OnceIInv /\ OrderIInv
  OBVIOUS
<1>1. EntriesSane BY InboundAssumption DEF Init, EntriesSane
<1>2. OnceIInv BY DEF Init, OnceIInv, StoredByStage, RecordedOnce
<1>3. QueuesOrdered BY DEF Init, QueuesOrdered, QueueOrdered
<1>4. Queued /\ StagesOrdered BY DEF Init, Queued, StagesOrdered, NotBefore, Critical
<1>5. AskedOrdered /\ OwnTranscript /\ ArrivalOrder BY DEF Init, AskedOrdered, OwnTranscript, ArrivalOrder
<1> QED BY <1>1, <1>2, <1>3, <1>4, <1>5 DEF OrderIInv

(* In one process, the questions of a session that came over one stream    *)
(* enter the conversation in the order in which the user wrote them.       *)
THEOREM InOrder == Spec => []ArrivalOrder
<1>1. IInv /\ EntriesSane /\ OnceIInv /\ OrderIInv /\ [Next]_vars => OrderIInv'
  BY NextOrder
<1>2. OrderIInv => ArrivalOrder BY DEF OrderIInv
<1> QED
  BY <1>1, <1>2, InitIInv, NextIInv, NextEntries, NextOnce, InitOrder, PTL DEF Spec

=============================================================================

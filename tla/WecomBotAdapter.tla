-------------------------- MODULE WecomBotAdapter --------------------------
(***************************************************************************)
(* How the Gateway answers a WeCom bot message: it opens a stream message  *)
(* ("bubble") that says "thinking", routes the message to Agent Core, and  *)
(* fills and finishes the bubble from the events that come back            *)
(* (adapters/wecom/WecomBotAdapter.ts and the consumer of                  *)
(* stream:agent:events in index.ts).                                       *)
(*                                                                         *)
(* The adapter remembers one record per session, pendingBySession, not one *)
(* per message.  A frame is on the wire when respondStream is called; what *)
(* follows its await is another step.  With no connection, respondStream   *)
(* throws in the same step.                                                *)
(***************************************************************************)
EXTENDS Integers, Sequences

CONSTANTS
    Messages,    \* user messages, each with its req_id and its streamId
    Sessions,
    SessionOf,   \* SessionOf[m]: the chat m was written in
    MaxFaults,   \* bound: failed calls of Redis or of the bot connection
    MaxRestarts, \* bound: restarts of the Gateway
    None

ASSUME AdapterAssumption ==
    /\ SessionOf \in [Messages -> Sessions]
    /\ MaxFaults \in Nat /\ MaxRestarts \in Nat
    /\ None \notin Messages \cup Sessions

VARIABLES
    handler,  \* handler[m]: where handleInbound is
    pending,  \* pending[s]: the message whose record pendingBySession holds
    buffer,   \* buffer[m]: the turns whose text is in the record of m
    shown,    \* shown[m]: the turns whose text the bubble of m shows
    finishes, \* finishes[m]: finish frames sent for the bubble of m
    inbox,    \* inbox[s]: messages Agent Core has yet to answer, in order
    events,   \* stream:agent:events, as far as not consumed
    closing,  \* the session whose finish frame the consumer awaits
    faults, restarts,
    waited    \* history, waited[s]: nobody wrote in s while an answer was due

session == <<pending, buffer>>
bubble == <<shown, finishes>>
vars == <<handler, session, bubble, inbox, events, closing, faults, restarts, waited>>

\* out of InboundWorker: what Agent Core publishes for one message.
Answers == { <<"text", "done">>, <<"done">>, <<"error", "done">>,
             <<"text", "error", "done">>, <<"text", "done", "error", "done">> }

Event == [turn : Messages, kind : {"text", "error", "done"}]

TypeOK ==
    /\ handler \in [Messages -> {"unsent", "thinking", "routing", "failing", "over"}]
    /\ pending \in [Sessions -> Messages \cup {None}]
    /\ \A s \in Sessions : pending[s] # None => SessionOf[pending[s]] = s
    /\ buffer \in [Messages -> SUBSET Messages]
    /\ shown \in [Messages -> SUBSET Messages]
    /\ finishes \in [Messages -> Nat]
    /\ inbox \in [Sessions -> Seq(Messages)]
    /\ events \in Seq(Event)
    /\ closing \in Sessions \cup {None}
    /\ faults \in 0 .. MaxFaults
    /\ restarts \in 0 .. MaxRestarts
    /\ waited \in [Sessions -> BOOLEAN]

Init ==
    /\ handler = [m \in Messages |-> "unsent"]
    /\ pending = [s \in Sessions |-> None]
    /\ buffer = [m \in Messages |-> {}]
    /\ shown = [m \in Messages |-> {}]
    /\ finishes = [m \in Messages |-> 0]
    /\ inbox = [s \in Sessions |-> <<>>]
    /\ events = <<>>
    /\ closing = None
    /\ faults = 0 /\ restarts = 0
    /\ waited = [s \in Sessions |-> TRUE]

-----------------------------------------------------------------------------
(* Nothing of the session is under way, neither here nor in Agent Core.    *)
Quiet(s) ==
    /\ inbox[s] = <<>> /\ closing # s
    /\ \A i \in DOMAIN events : SessionOf[events[i].turn] # s
    /\ \A m \in Messages : SessionOf[m] = s => handler[m] \in {"unsent", "over"}

Fault == faults < MaxFaults /\ faults' = faults + 1

\* Mutant: the record stays after the finish frame.
DeleteNothing(s) == pending' = pending /\ s \in Sessions

Delete(s) == pending' = [pending EXCEPT ![s] = None]

(* A finish frame for the record the session has now.                      *)
SendFinish(s, text) ==
    LET p == pending[s] IN
    /\ finishes' = [finishes EXCEPT ![p] = @ + 1]
    /\ shown' = [shown EXCEPT ![p] = text]

-----------------------------------------------------------------------------
(* handleInbound: the record replaces the one the session had; then        *)
(* "thinking" is sent, or cannot be, and is awaited.                       *)
Receive(m) ==
    /\ handler[m] = "unsent"
    /\ waited' = [waited EXCEPT ![SessionOf[m]] = @ /\ Quiet(SessionOf[m])]
    /\ pending' = [pending EXCEPT ![SessionOf[m]] = m]
    /\ handler' = [handler EXCEPT ![m] = "thinking"]
    /\ UNCHANGED <<buffer, bubble, inbox, events, closing, faults, restarts>>

\* A failure to send "thinking" is logged.
ThinkingSent(m) ==
    /\ handler[m] = "thinking"
    /\ handler' = [handler EXCEPT ![m] = "routing"]
    /\ UNCHANGED <<session, bubble, inbox, events, closing, faults, restarts, waited>>

(* messageRouter.route: the message reaches Agent Core, which answers a    *)
(* session in order.                                                       *)
Routed(m) ==
    /\ handler[m] = "routing"
    /\ handler' = [handler EXCEPT ![m] = "over"]
    /\ inbox' = [inbox EXCEPT ![SessionOf[m]] = Append(@, m)]
    /\ UNCHANGED <<session, bubble, events, closing, faults, restarts, waited>>

(* It does not: finishWithError answers for the session, if it has a       *)
(* record and the bot connection takes the frame.                          *)
RouteFails(m) ==
    LET s == SessionOf[m] IN
    /\ handler[m] = "routing"
    /\ Fault
    /\ \/ /\ pending[s] # None
          /\ handler' = [handler EXCEPT ![m] = "failing"]
          /\ SendFinish(s, {})
          /\ UNCHANGED pending
       \/ /\ handler' = [handler EXCEPT ![m] = "over"]
          /\ Delete(s)
          /\ UNCHANGED bubble
    /\ UNCHANGED <<buffer, inbox, events, closing, restarts, waited>>

FailureShown(m) ==
    /\ handler[m] = "failing"
    /\ handler' = [handler EXCEPT ![m] = "over"]
    /\ Delete(SessionOf[m])
    /\ UNCHANGED <<buffer, bubble, inbox, events, closing, faults, restarts, waited>>

-----------------------------------------------------------------------------
(* Agent Core answers the messages of a session one after the other.       *)
Answer(s) ==
    /\ inbox[s] # <<>>
    /\ inbox' = [inbox EXCEPT ![s] = Tail(@)]
    /\ \E kinds \in Answers :
        events' = events \o [i \in DOMAIN kinds |-> [turn |-> Head(inbox[s]), kind |-> kinds[i]]]
    /\ UNCHANGED <<handler, session, bubble, closing, faults, restarts, waited>>

(* The consumer takes one event at a time.                                 *)
Take(kind) ==
    /\ closing = None
    /\ events # <<>> /\ Head(events).kind = kind
    /\ events' = Tail(events)

\* Mutant: an event goes to whatever bubble is open.
OpenChat ==
    LET open == {s \in Sessions : pending[s] # None} IN
    IF open = {} THEN SessionOf[Head(events).turn] ELSE CHOOSE s \in open : TRUE

\* The session of the event, by which the record is found.
Chat == SessionOf[Head(events).turn]

\* No record: the event is for nobody.
TakeStray ==
    /\ \E kind \in {"text", "error", "done"} : Take(kind)
    /\ pending[Chat] = None
    /\ UNCHANGED <<handler, session, bubble, inbox, closing, faults, restarts, waited>>

(* onAgentTextDelta: the text joins the record, and every 400 ms the       *)
(* bubble shows what the record has.                                       *)
TakeText ==
    /\ Take("text")
    /\ LET p == pending[Chat]
           text == buffer[p] \cup {Head(events).turn}
       IN  /\ p # None
           /\ buffer' = [buffer EXCEPT ![p] = text]
           /\ shown' \in {shown, [shown EXCEPT ![p] = text]}
    /\ UNCHANGED <<handler, pending, finishes, inbox, closing, faults, restarts, waited>>

\* Mutant: an empty answer is not worth a frame.
EndUnlessEmpty(kind) ==
    /\ Take(kind)
    /\ pending[Chat] # None
    /\ IF buffer[pending[Chat]] # {}
       THEN SendFinish(Chat, buffer[pending[Chat]]) /\ closing' = Chat
       ELSE UNCHANGED <<bubble, closing>>
    /\ UNCHANGED <<handler, session, inbox, faults, restarts, waited>>

(* onAgentDone, onAgentError                                               *)
TakeEnd(kind) ==
    /\ Take(kind)
    /\ pending[Chat] # None
    /\ SendFinish(Chat, IF kind = "done" THEN buffer[pending[Chat]] ELSE {})
    /\ closing' = Chat
    /\ UNCHANGED <<handler, session, inbox, faults, restarts, waited>>

Closed ==
    /\ closing # None
    /\ Delete(closing)
    /\ closing' = None
    /\ UNCHANGED <<handler, buffer, bubble, inbox, events, faults, restarts, waited>>

\* The bot connection is down: the "finally" clause still drops the record.
EndUnsent ==
    /\ Take("error") \/ Take("done")
    /\ pending[Chat] # None
    /\ Fault
    /\ Delete(Chat)
    /\ UNCHANGED <<handler, buffer, bubble, inbox, closing, restarts, waited>>

(* The Gateway stops and starts: records, handlers and the event in work   *)
(* are gone; Agent Core and the stream are not.                            *)
Restart ==
    /\ restarts < MaxRestarts
    /\ restarts' = restarts + 1
    /\ pending' = [s \in Sessions |-> None]
    /\ handler' = [m \in Messages |-> IF handler[m] = "unsent" THEN "unsent" ELSE "over"]
    /\ closing' = None
    /\ UNCHANGED <<buffer, bubble, inbox, events, faults, waited>>

Handler(m) == ThinkingSent(m) \/ Routed(m) \/ RouteFails(m) \/ FailureShown(m)
Consumer == TakeStray \/ TakeText \/ TakeEnd("done") \/ TakeEnd("error") \/ EndUnsent \/ Closed

Next ==
    \/ \E m \in Messages : Receive(m) \/ Handler(m)
    \/ \E s \in Sessions : Answer(s)
    \/ Consumer
    \/ Restart

Spec == Init /\ [][Next]_vars

(* Redis and the bot connection answer or fail, and Agent Core ends every  *)
(* turn (EventuallySettled of InboundWorker).                              *)
Fairness ==
    /\ \A m \in Messages : WF_vars(Handler(m))
    /\ \A s \in Sessions : WF_vars(Answer(s))
    /\ WF_vars(Consumer)

FairSpec == Spec /\ Fairness

-----------------------------------------------------------------------------
(* What a bubble shows is the answer to the message it was opened for, as  *)
(* long as the users of the chat wait for one answer before they write     *)
(* again.                                                                  *)
OwnAnswer == \A m \in Messages : waited[SessionOf[m]] => shown[m] \subseteq {m}

(* Then a bubble is also finished once: the bot service refuses frames for *)
(* a finished one.                                                         *)
FinishOnce == \A m \in Messages : waited[SessionOf[m]] => finishes[m] <= 1

(* Every bubble that says "thinking" is finished, unless a call fails, the *)
(* Gateway restarts or users do not wait.                                  *)
EventuallyFinished ==
    \A m \in Messages :
        handler[m] = "thinking" ~>
            finishes[m] > 0 \/ faults > 0 \/ restarts > 0 \/ ~ waited[SessionOf[m]]

(* "必须透传消息回调中的 req_id；同一条流式消息共用 streamId": the promise     *)
(* that a stream message carries one answer, without a word on waiting.    *)
StreamIsOwn == \A m \in Messages : shown[m] \subseteq {m}
=============================================================================

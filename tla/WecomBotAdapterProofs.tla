------------------------ MODULE WecomBotAdapterProofs ------------------------
(***************************************************************************)
(* What holds of the replies of the WeCom bot for any number of messages   *)
(* and chats: while the users of a chat wait for one answer before they    *)
(* write again, everything that is under way for the chat, in the Gateway  *)
(* and in Agent Core, belongs to one message.                              *)
(***************************************************************************)
EXTENDS WecomBotAdapter, TLAPS

NoneFor(evs, s) == \A i \in DOMAIN evs : SessionOf[evs[i].turn] # s
AllFor(evs, s, m) == \A i \in DOMAIN evs : SessionOf[evs[i].turn] = s => evs[i].turn = m
Active(m) == handler[m] \notin {"unsent", "over"}

(* Of a chat whose users wait.  The bubbles of its messages show their own *)
(* answers and were finished once at most.                                 *)
OwnTexts(s) ==
    \A m \in Messages : SessionOf[m] = s =>
        shown[m] \subseteq {m} /\ buffer[m] \subseteq {m} /\ finishes[m] <= 1

(* A message the Gateway works on has the record, and nothing else of the  *)
(* chat is under way.                                                      *)
WorkedOn(s) ==
    \A m \in Messages : SessionOf[m] = s /\ Active(m) =>
        inbox[s] = <<>> /\ NoneFor(events, s) /\ closing # s /\ pending[s] = m

(* The message Agent Core has to answer is the only one.                   *)
AskedOnce(s) ==
    inbox[s] # <<>> =>
        /\ NoneFor(events, s) /\ closing # s /\ Len(inbox[s]) = 1
        /\ pending[s] \in {None, Head(inbox[s])}

(* The events of the chat answer the message that has the record.          *)
AnswersRecord(s) == pending[s] # None => AllFor(events, s, pending[s])

(* Its bubble is finished as long as a finish frame is awaited, not before.*)
FinishAwaited(s) ==
    (pending[s] # None /\ closing # s /\ handler[pending[s]] # "failing") => finishes[pending[s]] = 0

Waiting(s) == OwnTexts(s) /\ WorkedOn(s) /\ AskedOnce(s) /\ AnswersRecord(s) /\ FinishAwaited(s)

UnsentUntouched == \A m \in Messages : handler[m] = "unsent" => finishes[m] = 0
RecordOfSent == \A s \in Sessions : pending[s] # None => handler[pending[s]] # "unsent"
InboxOfChat == \A s \in Sessions : \A i \in DOMAIN inbox[s] : SessionOf[inbox[s][i]] = s

AdapterIInv ==
    /\ TypeOK
    /\ UnsentUntouched /\ RecordOfSent /\ InboxOfChat
    /\ \A s \in Sessions : waited[s] => Waiting(s)

-----------------------------------------------------------------------------
LEMMA ChatOf == \A m \in Messages : SessionOf[m] \in Sessions /\ m # None /\ SessionOf[m] # None
  BY AdapterAssumption

LEMMA Taken ==
    ASSUME NEW S, NEW q \in Seq(S), q # <<>>
    PROVE  /\ Head(q) \in S /\ \E i \in DOMAIN q : q[i] = Head(q)
           /\ Tail(q) \in Seq(S)
           /\ \A i \in DOMAIN Tail(q) : \E j \in DOMAIN q : Tail(q)[i] = q[j]
<1>1. /\ Head(q) = q[1] /\ 1 \in DOMAIN q /\ Tail(q) \in Seq(S) /\ Head(q) \in S
      /\ \A i \in DOMAIN Tail(q) : i + 1 \in DOMAIN q /\ Tail(q)[i] = q[i + 1]
  OBVIOUS
<1> QED BY <1>1

LEMMA Joined ==
    ASSUME NEW S, NEW a \in Seq(S), NEW b \in Seq(S)
    PROVE  /\ a \o b \in Seq(S)
           /\ \A i \in DOMAIN (a \o b) :
                 (\E j \in DOMAIN a : (a \o b)[i] = a[j]) \/ (\E j \in DOMAIN b : (a \o b)[i] = b[j])
<1>1. /\ Len(a) \in Nat /\ Len(b) \in Nat /\ DOMAIN a = 1 .. Len(a) /\ DOMAIN b = 1 .. Len(b)
      /\ a \o b \in Seq(S) /\ DOMAIN (a \o b) = 1 .. (Len(a) + Len(b))
  OBVIOUS
<1>2. \A i \in DOMAIN a : (a \o b)[i] = a[i]
  OBVIOUS
<1>3. \A j \in DOMAIN b : (a \o b)[Len(a) + j] = b[j]
  OBVIOUS
<1>4. ASSUME NEW i \in DOMAIN (a \o b)
      PROVE  (\E j \in DOMAIN a : (a \o b)[i] = a[j]) \/ (\E j \in DOMAIN b : (a \o b)[i] = b[j])
  <2>1. CASE i \in DOMAIN a BY <1>2, <2>1
  <2>2. CASE i \notin DOMAIN a
    <3>1. i - Len(a) \in DOMAIN b /\ i = Len(a) + (i - Len(a)) BY <1>1, <2>2
    <3> QED BY <1>3, <3>1
  <2> QED BY <2>1, <2>2
<1> QED BY <1>1, <1>4

LEMMA ShortSeqs ==
    ASSUME NEW S, NEW a \in S, NEW b \in S, NEW c \in S, NEW d \in S
    PROVE  <<a>> \in Seq(S) /\ <<a, b>> \in Seq(S) /\ <<a, b, c>> \in Seq(S) /\ <<a, b, c, d>> \in Seq(S)
  OBVIOUS

Kinds == {"text", "error", "done"}

LEMMA KindsOfAnswers == \A kinds \in Answers : kinds \in Seq(Kinds)
<1>1. "text" \in Kinds /\ "error" \in Kinds /\ "done" \in Kinds
  BY DEF Kinds
<1>2. <<"text", "done">> \in Seq(Kinds) /\ <<"done">> \in Seq(Kinds) /\ <<"error", "done">> \in Seq(Kinds)
  BY <1>1, ShortSeqs
<1>3. <<"text", "error", "done">> \in Seq(Kinds) /\ <<"text", "done", "error", "done">> \in Seq(Kinds)
  BY <1>1, ShortSeqs
<1> QED BY <1>2, <1>3, Zenon DEF Answers

(* The events of an answer.                                                *)
LEMMA AnswerEvents ==
    ASSUME TypeOK, NEW s \in Sessions, Answer(s)
    PROVE  /\ events' \in Seq(Event)
           /\ Head(inbox[s]) \in Messages
           /\ \A i \in DOMAIN events' : \/ \E j \in DOMAIN events : events'[i] = events[j]
                                        \/ events'[i].turn = Head(inbox[s])
<1> DEFINE m == Head(inbox[s])
<1>1. inbox[s] \in Seq(Messages) /\ inbox[s] # <<>> /\ events \in Seq(Event)
  BY DEF TypeOK, Answer
<1>2. m \in Messages BY <1>1, Taken
<1> HIDE DEF m
<1>3. ASSUME NEW kinds \in Seq(Kinds),
             events' = events \o [i \in DOMAIN kinds |-> [turn |-> m, kind |-> kinds[i]]]
      PROVE  /\ events' \in Seq(Event)
             /\ \A i \in DOMAIN events' : (\E j \in DOMAIN events : events'[i] = events[j]) \/ events'[i].turn = m
  <2> DEFINE added == [i \in DOMAIN kinds |-> [turn |-> m, kind |-> kinds[i]]]
  <2>0. /\ DOMAIN kinds = 1 .. Len(kinds) /\ Len(kinds) \in Nat
        /\ \A i \in DOMAIN kinds : [turn |-> m, kind |-> kinds[i]] \in Event
    BY <1>2 DEF Event, Kinds
  <2>1. added \in Seq(Event) BY <2>0
  <2>2. \A j \in DOMAIN added : added[j].turn = m OBVIOUS
  <2>3. events' = events \o added BY <1>3
  <2> HIDE DEF added
  <2> DEFINE old == events
             joined == old \o added
  <2>4. old \in Seq(Event) BY <1>1
  <2> HIDE DEF old
  <2>5. /\ joined \in Seq(Event)
        /\ \A i \in DOMAIN joined :
              (\E j \in DOMAIN old : joined[i] = old[j]) \/ (\E j \in DOMAIN added : joined[i] = added[j])
    BY <2>1, <2>4, Joined
  <2> HIDE DEF joined
  <2>6. events' = joined /\ old = events BY <2>3 DEF joined, old
  <2>7. /\ events' \in Seq(Event)
        /\ \A i \in DOMAIN events' :
              (\E j \in DOMAIN events : events'[i] = events[j]) \/ (\E j \in DOMAIN added : events'[i] = added[j])
    BY <2>5, <2>6
  <2> QED BY <2>2, <2>7
<1>4. \E kinds \in Answers : events' = events \o [i \in DOMAIN kinds |-> [turn |-> m, kind |-> kinds[i]]]
  BY DEF Answer, m
<1>5. \E kinds \in Seq(Kinds) :
        events' = events \o [i \in DOMAIN kinds |-> [turn |-> m, kind |-> kinds[i]]]
  BY <1>4, KindsOfAnswers
<1>6. /\ events' \in Seq(Event)
      /\ \A i \in DOMAIN events' : (\E j \in DOMAIN events : events'[i] = events[j]) \/ events'[i].turn = m
  BY <1>3, <1>5
<1> QED BY <1>2, <1>6 DEF m

-----------------------------------------------------------------------------
(* What a step about the chat s must do; the other chats do not notice it. *)
ChatKeeps(s) ==
    /\ TypeOK'
    /\ \A m \in Messages : SessionOf[m] # s =>
          handler'[m] = handler[m] /\ shown'[m] = shown[m] /\ buffer'[m] = buffer[m] /\ finishes'[m] = finishes[m]
    /\ \A t \in Sessions : t # s =>
          /\ inbox'[t] = inbox[t] /\ pending'[t] = pending[t] /\ (closing' = t <=> closing = t)
          /\ (waited'[t] => waited[t])
    /\ \A i \in DOMAIN events' : \/ SessionOf[events'[i].turn] = s
                                 \/ \E j \in DOMAIN events : events'[i] = events[j]

LEMMA ChatStep ==
    ASSUME AdapterIInv, NEW s \in Sessions, ChatKeeps(s),
           \A m \in Messages : SessionOf[m] = s /\ handler'[m] = "unsent" => finishes'[m] = 0,
           pending'[s] # None => handler'[pending'[s]] # "unsent",
           \A i \in DOMAIN inbox'[s] : SessionOf[inbox'[s][i]] = s,
           waited'[s] => Waiting(s)'
    PROVE  AdapterIInv'
<1>1. TypeOK' BY DEF ChatKeeps
<1>2. UnsentUntouched' BY DEF ChatKeeps, AdapterIInv, UnsentUntouched
<1>3. RecordOfSent'
  <2> SUFFICES ASSUME NEW t \in Sessions, t # s, pending'[t] # None PROVE handler'[pending'[t]] # "unsent"
    BY DEF RecordOfSent
  <2>1. pending'[t] = pending[t] BY DEF ChatKeeps
  <2>2. pending[t] \in Messages /\ SessionOf[pending[t]] = t BY <2>1 DEF AdapterIInv, TypeOK
  <2>3. handler'[pending[t]] = handler[pending[t]] BY <2>2 DEF ChatKeeps
  <2> QED BY <2>1, <2>3 DEF AdapterIInv, RecordOfSent
<1>4. InboxOfChat' BY DEF ChatKeeps, AdapterIInv, InboxOfChat
<1>5. ASSUME NEW t \in Sessions, waited'[t], t # s PROVE Waiting(t)'
  <2>1. Waiting(t) BY <1>5 DEF ChatKeeps, AdapterIInv
  <2>2. inbox'[t] = inbox[t] /\ pending'[t] = pending[t] /\ (closing' = t <=> closing = t)
    BY <1>5 DEF ChatKeeps
  <2>3. \A m \in Messages : SessionOf[m] = t =>
          handler'[m] = handler[m] /\ shown'[m] = shown[m] /\ buffer'[m] = buffer[m] /\ finishes'[m] = finishes[m]
    BY <1>5 DEF ChatKeeps
  <2>4. NoneFor(events, t) => NoneFor(events', t) BY <1>5 DEF ChatKeeps, NoneFor
  <2>5. \A m : AllFor(events, t, m) => AllFor(events', t, m) BY <1>5 DEF ChatKeeps, AllFor
  <2>6. OwnTexts(t)' BY <2>1, <2>3 DEF Waiting, OwnTexts
  <2>7. WorkedOn(t)' BY <2>1, <2>2, <2>3, <2>4 DEF Waiting, WorkedOn, Active
  <2>8. AskedOnce(t)' BY <2>1, <2>2, <2>4 DEF Waiting, AskedOnce
  <2>9. AnswersRecord(t)' BY <2>1, <2>2, <2>5 DEF Waiting, AnswersRecord
  <2>10. FinishAwaited(t)'
    <3>1. pending[t] # None => pending[t] \in Messages /\ SessionOf[pending[t]] = t
      BY DEF AdapterIInv, TypeOK
    <3> QED BY <2>1, <2>2, <2>3, <3>1 DEF Waiting, FinishAwaited
  <2> QED BY <2>6, <2>7, <2>8, <2>9, <2>10 DEF Waiting
<1> QED BY <1>1, <1>2, <1>3, <1>4, <1>5 DEF AdapterIInv

LEMMA AdapterInitial == Init => AdapterIInv
<1> SUFFICES ASSUME Init PROVE AdapterIInv
  OBVIOUS
<1>1. TypeOK BY AdapterAssumption DEF Init, TypeOK
<1>2. UnsentUntouched /\ RecordOfSent /\ InboxOfChat BY DEF Init, UnsentUntouched, RecordOfSent, InboxOfChat
<1>3. ASSUME NEW s \in Sessions PROVE Waiting(s)
  BY DEF Init, Waiting, OwnTexts, WorkedOn, AskedOnce, AnswersRecord, FinishAwaited, Active
<1> QED BY <1>1, <1>2, <1>3 DEF AdapterIInv

-----------------------------------------------------------------------------
LEMMA ReceiveStep ==
    ASSUME AdapterIInv, NEW m \in Messages, Receive(m)
    PROVE  AdapterIInv'
<1> DEFINE s == SessionOf[m]
<1>1. TypeOK /\ s \in Sessions /\ m # None BY ChatOf DEF AdapterIInv
<1>2. /\ handler[m] = "unsent" /\ handler'[m] = "thinking" /\ pending'[s] = m
      /\ \A n \in Messages : n # m => handler'[n] = handler[n]
      /\ \A t \in Sessions : t # s => pending'[t] = pending[t] /\ waited'[t] = waited[t]
      /\ waited'[s] = (waited[s] /\ Quiet(s))
      /\ UNCHANGED <<buffer, shown, finishes, inbox, events, closing, faults, restarts>>
  BY <1>1 DEF Receive, TypeOK, bubble
<1>3. TypeOK'
  <2>1. handler' \in [Messages -> {"unsent", "thinking", "routing", "failing", "over"}]
    BY <1>1 DEF Receive, TypeOK
  <2>2. pending' \in [Sessions -> Messages \cup {None}] BY <1>1 DEF Receive, TypeOK
  <2>3. ASSUME NEW t \in Sessions, pending'[t] # None PROVE SessionOf[pending'[t]] = t
    <3>1. CASE t = s BY <1>2, <3>1
    <3>2. CASE t # s
      <4>1. pending'[t] = pending[t] BY <1>2, <3>2
      <4> QED BY <1>1, <2>3, <4>1 DEF TypeOK
    <3> QED BY <3>1, <3>2
  <2>4. waited' \in [Sessions -> BOOLEAN] BY <1>1 DEF Receive, TypeOK
  <2> QED BY <1>1, <1>2, <2>1, <2>2, <2>3, <2>4 DEF TypeOK
<1>4. ChatKeeps(s) BY <1>2, <1>3 DEF ChatKeeps
<1>5. \A n \in Messages : SessionOf[n] = s /\ handler'[n] = "unsent" => finishes'[n] = 0
  BY <1>2 DEF AdapterIInv, UnsentUntouched
<1>6. \A i \in DOMAIN inbox'[s] : SessionOf[inbox'[s][i]] = s
  BY <1>1, <1>2 DEF AdapterIInv, InboxOfChat
<1>7. ASSUME waited'[s] PROVE Waiting(s)'
  <2>1. waited[s] /\ Quiet(s) /\ Waiting(s) BY <1>1, <1>2, <1>7 DEF AdapterIInv
  <2>2. inbox[s] = <<>> /\ closing # s /\ NoneFor(events, s) BY <2>1 DEF Quiet, NoneFor
  <2>3. OwnTexts(s)' BY <1>2, <2>1 DEF Waiting, OwnTexts
  <2>4. \A n \in Messages : SessionOf[n] = s /\ n # m => handler'[n] \in {"unsent", "over"}
    BY <1>2, <2>1 DEF Quiet
  <2>5. WorkedOn(s)' BY <1>2, <2>2, <2>4 DEF WorkedOn, Active
  <2>6. AskedOnce(s)' BY <1>2, <2>2 DEF AskedOnce
  <2>7. AnswersRecord(s)' BY <1>2, <2>2 DEF AnswersRecord, AllFor, NoneFor
  <2>8. FinishAwaited(s)' BY <1>2 DEF FinishAwaited, AdapterIInv, UnsentUntouched
  <2> QED BY <2>3, <2>5, <2>6, <2>7, <2>8 DEF Waiting
<1> HIDE DEF s
<1>8. pending'[s] # None => handler'[pending'[s]] # "unsent" BY <1>2
<1> QED BY <1>1, <1>4, <1>5, <1>6, <1>7, <1>8, ChatStep

(* The steps of a handler that change neither bubbles nor records.         *)
LEMMA ThinkingStep ==
    ASSUME AdapterIInv, NEW m \in Messages, ThinkingSent(m)
    PROVE  AdapterIInv'
<1> DEFINE s == SessionOf[m]
<1>1. TypeOK /\ s \in Sessions /\ m # None BY ChatOf DEF AdapterIInv
<1>2. /\ handler[m] = "thinking" /\ handler'[m] = "routing"
      /\ \A n \in Messages : n # m => handler'[n] = handler[n]
      /\ UNCHANGED <<pending, buffer, shown, finishes, inbox, events, closing, faults, restarts, waited>>
  BY <1>1 DEF ThinkingSent, TypeOK, bubble, session
<1>3. TypeOK'
  <2>1. handler' \in [Messages -> {"unsent", "thinking", "routing", "failing", "over"}]
    BY <1>1 DEF ThinkingSent, TypeOK
  <2> QED BY <1>1, <1>2, <2>1 DEF TypeOK
<1>4. ChatKeeps(s) BY <1>2, <1>3 DEF ChatKeeps
<1>5. \A n \in Messages : SessionOf[n] = s /\ handler'[n] = "unsent" => finishes'[n] = 0
  BY <1>2 DEF AdapterIInv, UnsentUntouched
<1>6. \A i \in DOMAIN inbox'[s] : SessionOf[inbox'[s][i]] = s
  BY <1>1, <1>2 DEF AdapterIInv, InboxOfChat
<1>7. ASSUME waited'[s] PROVE Waiting(s)'
  <2>1. Waiting(s) BY <1>1, <1>2, <1>7 DEF AdapterIInv
  <2>2. OwnTexts(s)' BY <1>2, <2>1 DEF Waiting, OwnTexts
  <2>3. WorkedOn(s)' BY <1>2, <2>1 DEF Waiting, WorkedOn, Active
  <2>4. AskedOnce(s)' /\ AnswersRecord(s)' BY <1>2, <2>1 DEF Waiting, AskedOnce, AnswersRecord
  <2>5. pending[s] = m BY <1>2, <2>1 DEF Waiting, WorkedOn, Active
  <2>6. FinishAwaited(s)' BY <1>2, <2>1, <2>5 DEF Waiting, FinishAwaited
  <2> QED BY <2>2, <2>3, <2>4, <2>6 DEF Waiting
<1>8. pending'[s] # None => handler'[pending'[s]] # "unsent"
  BY <1>1, <1>2 DEF AdapterIInv, RecordOfSent, TypeOK
<1> HIDE DEF s
<1> QED BY <1>1, <1>4, <1>5, <1>6, <1>7, <1>8, ChatStep

LEMMA RoutedStep ==
    ASSUME AdapterIInv, NEW m \in Messages, Routed(m)
    PROVE  AdapterIInv'
<1> DEFINE s == SessionOf[m]
<1>1. TypeOK /\ s \in Sessions /\ m # None BY ChatOf DEF AdapterIInv
<1>2. /\ handler[m] = "routing" /\ handler'[m] = "over"
      /\ \A n \in Messages : n # m => handler'[n] = handler[n]
      /\ inbox'[s] = Append(inbox[s], m) /\ inbox[s] \in Seq(Messages)
      /\ \A t \in Sessions : t # s => inbox'[t] = inbox[t]
      /\ UNCHANGED <<pending, buffer, shown, finishes, events, closing, faults, restarts, waited>>
  BY <1>1 DEF Routed, TypeOK, bubble, session
<1>3. TypeOK'
  <2>1. handler' \in [Messages -> {"unsent", "thinking", "routing", "failing", "over"}]
    BY <1>1 DEF Routed, TypeOK
  <2>2. Append(inbox[s], m) \in Seq(Messages) BY <1>2
  <2>3. inbox' \in [Sessions -> Seq(Messages)] BY <1>1, <2>2 DEF Routed, TypeOK
  <2> QED BY <1>1, <1>2, <2>1, <2>3 DEF TypeOK
<1>4. ChatKeeps(s) BY <1>2, <1>3 DEF ChatKeeps
<1>5. \A n \in Messages : SessionOf[n] = s /\ handler'[n] = "unsent" => finishes'[n] = 0
  BY <1>2 DEF AdapterIInv, UnsentUntouched
<1>6. \A i \in DOMAIN inbox'[s] : SessionOf[inbox'[s][i]] = s
  <2>1. \A i \in DOMAIN inbox[s] : SessionOf[inbox[s][i]] = s BY <1>1 DEF AdapterIInv, InboxOfChat
  <2>2. \A i \in DOMAIN Append(inbox[s], m) :
          \/ i \in DOMAIN inbox[s] /\ Append(inbox[s], m)[i] = inbox[s][i]
          \/ Append(inbox[s], m)[i] = m
    BY <1>2
  <2> QED BY <1>2, <2>1, <2>2
<1>7. ASSUME waited'[s] PROVE Waiting(s)'
  <2>1. Waiting(s) BY <1>1, <1>2, <1>7 DEF AdapterIInv
  <2>2. OwnTexts(s)' BY <1>2, <2>1 DEF Waiting, OwnTexts
  <2>3. pending[s] = m /\ inbox[s] = <<>> /\ NoneFor(events, s) /\ closing # s
    BY <1>2, <2>1 DEF Waiting, WorkedOn, Active
  <2>4. inbox'[s] = <<m>> BY <1>2, <2>3
  <2>5. \A n \in Messages : SessionOf[n] = s => ~Active(n)'
    BY <1>2, <2>1, <2>3 DEF Waiting, WorkedOn, Active
  <2>6. WorkedOn(s)' BY <2>5 DEF WorkedOn
  <2>7. Len(<<m>>) = 1 /\ Head(<<m>>) = m OBVIOUS
  <2>8. AskedOnce(s)' BY <1>2, <2>3, <2>4, <2>7 DEF AskedOnce
  <2>9. AnswersRecord(s)' BY <1>2, <2>1 DEF Waiting, AnswersRecord
  <2>10. FinishAwaited(s)' BY <1>2, <2>1, <2>3 DEF Waiting, FinishAwaited
  <2> QED BY <2>2, <2>6, <2>8, <2>9, <2>10 DEF Waiting
<1>8. pending'[s] # None => handler'[pending'[s]] # "unsent"
  BY <1>1, <1>2 DEF AdapterIInv, RecordOfSent, TypeOK
<1> HIDE DEF s
<1> QED BY <1>1, <1>4, <1>5, <1>6, <1>7, <1>8, ChatStep

(* A call to Agent Core fails; the bubble, if there is a record, is        *)
(* finished with the error.                                                *)
LEMMA RouteFailsStep ==
    ASSUME AdapterIInv, NEW m \in Messages, RouteFails(m)
    PROVE  AdapterIInv'
<1> DEFINE s == SessionOf[m]
           p == pending[s]
<1>1. TypeOK /\ s \in Sessions /\ m # None BY ChatOf DEF AdapterIInv
<1>2. /\ handler[m] = "routing"
      /\ handler' \in [Messages -> {"unsent", "thinking", "routing", "failing", "over"}]
      /\ faults' \in 0 .. MaxFaults
      /\ UNCHANGED <<buffer, inbox, events, closing, restarts, waited>>
  <2>1. handler[m] = "routing" /\ UNCHANGED <<buffer, inbox, events, closing, restarts, waited>>
    BY DEF RouteFails
  <2>2. faults' \in 0 .. MaxFaults BY <1>1, AdapterAssumption DEF RouteFails, TypeOK, Fault
  <2>3. handler' \in [Messages -> {"unsent", "thinking", "routing", "failing", "over"}]
    <3>1. handler' = [handler EXCEPT ![m] = "failing"] \/ handler' = [handler EXCEPT ![m] = "over"]
      BY DEF RouteFails
    <3> QED BY <1>1, <3>1 DEF TypeOK
  <2> QED BY <2>1, <2>2, <2>3
<1>3. waited[s] => /\ Waiting(s) /\ p = m /\ inbox[s] = <<>> /\ NoneFor(events, s) /\ closing # s
                   /\ finishes[m] = 0
                   /\ \A n \in Messages : SessionOf[n] = s /\ n # m => ~Active(n)
  <2> SUFFICES ASSUME waited[s]
               PROVE  /\ Waiting(s) /\ p = m /\ inbox[s] = <<>> /\ NoneFor(events, s) /\ closing # s
                      /\ finishes[m] = 0
                      /\ \A n \in Messages : SessionOf[n] = s /\ n # m => ~Active(n)
    OBVIOUS
  <2>1. Waiting(s) BY <1>1 DEF AdapterIInv
  <2>2. p = m /\ inbox[s] = <<>> /\ NoneFor(events, s) /\ closing # s
    BY <1>2, <2>1 DEF Waiting, WorkedOn, Active
  <2>3. \A n \in Messages : SessionOf[n] = s /\ n # m => ~Active(n)
    BY <2>1, <2>2 DEF Waiting, WorkedOn
  <2>4. finishes[m] = 0 BY <1>1, <1>2, <2>1, <2>2 DEF Waiting, FinishAwaited
  <2> QED BY <2>1, <2>2, <2>3, <2>4
<1>4. \A i \in DOMAIN inbox'[s] : SessionOf[inbox'[s][i]] = s
  BY <1>1, <1>2 DEF AdapterIInv, InboxOfChat
<1>5. CASE /\ p # None /\ handler' = [handler EXCEPT ![m] = "failing"]
           /\ SendFinish(s, {}) /\ UNCHANGED pending
  <2>1. p \in Messages /\ SessionOf[p] = s /\ handler[p] # "unsent"
    BY <1>1, <1>5 DEF AdapterIInv, TypeOK, RecordOfSent
  <2>2. /\ finishes' = [finishes EXCEPT ![p] = @ + 1] /\ shown' = [shown EXCEPT ![p] = {}]
        /\ UNCHANGED pending
    BY <1>5 DEF SendFinish
  <2> HIDE DEF p
  <2>3. /\ finishes'[p] = finishes[p] + 1 /\ finishes[p] \in Nat
        /\ \A n \in Messages : n # p => finishes'[n] = finishes[n]
        /\ finishes' \in [Messages -> Nat]
    BY <1>1, <2>1, <2>2 DEF TypeOK
  <2>4. /\ shown'[p] = {} /\ \A n \in Messages : n # p => shown'[n] = shown[n]
        /\ shown' \in [Messages -> SUBSET Messages]
    BY <1>1, <2>1, <2>2 DEF TypeOK
  <2>5. handler'[m] = "failing" /\ \A n \in Messages : n # m => handler'[n] = handler[n]
    BY <1>1, <1>5 DEF TypeOK
  <2>6. TypeOK' BY <1>1, <1>2, <2>2, <2>3, <2>4 DEF TypeOK
  <2>7. ChatKeeps(s) BY <1>1, <1>2, <2>1, <2>2, <2>3, <2>4, <2>5, <2>6 DEF ChatKeeps
  <2>8. \A n \in Messages : SessionOf[n] = s /\ handler'[n] = "unsent" => finishes'[n] = 0
    BY <2>1, <2>3, <2>5 DEF AdapterIInv, UnsentUntouched
  <2>9. pending'[s] # None => handler'[pending'[s]] # "unsent"
    BY <2>1, <2>2, <2>5 DEF p
  <2>10. ASSUME waited'[s] PROVE Waiting(s)'
    <3>1. waited[s] BY <1>2, <2>10
    <3>2. OwnTexts(s)' BY <1>2, <1>3, <2>3, <2>4, <3>1 DEF Waiting, OwnTexts
    <3>3. pending'[s] = m BY <1>3, <2>2, <3>1 DEF p
    <3>4. \A n \in Messages : SessionOf[n] = s /\ n # m => ~Active(n)'
      BY <1>3, <2>5, <3>1 DEF Active
    <3>5. WorkedOn(s)' BY <1>2, <1>3, <3>1, <3>3, <3>4 DEF WorkedOn
    <3>6. AskedOnce(s)' BY <1>2, <1>3, <3>1 DEF AskedOnce
    <3>7. AnswersRecord(s)' BY <1>2, <1>3, <2>2, <3>1 DEF Waiting, AnswersRecord
    <3>8. FinishAwaited(s)' BY <2>5, <3>3 DEF FinishAwaited
    <3> QED BY <3>2, <3>5, <3>6, <3>7, <3>8 DEF Waiting
  <2> HIDE DEF s
  <2> QED BY <1>1, <1>4, <2>7, <2>8, <2>9, <2>10, ChatStep
<1>6. CASE handler' = [handler EXCEPT ![m] = "over"] /\ Delete(s) /\ UNCHANGED bubble
  <2>1. /\ pending'[s] = None /\ \A t \in Sessions : t # s => pending'[t] = pending[t]
        /\ pending' \in [Sessions -> Messages \cup {None}]
        /\ \A t \in Sessions : pending'[t] # None => SessionOf[pending'[t]] = t
    BY <1>1, <1>6 DEF Delete, TypeOK
  <2>2. handler'[m] = "over" /\ \A n \in Messages : n # m => handler'[n] = handler[n]
    BY <1>1, <1>6 DEF TypeOK
  <2>3. UNCHANGED <<shown, finishes>> BY <1>6 DEF bubble
  <2>4. TypeOK' BY <1>1, <1>2, <2>1, <2>3 DEF TypeOK
  <2>5. ChatKeeps(s) BY <1>2, <2>1, <2>2, <2>3, <2>4 DEF ChatKeeps
  <2>6. \A n \in Messages : SessionOf[n] = s /\ handler'[n] = "unsent" => finishes'[n] = 0
    BY <2>2, <2>3 DEF AdapterIInv, UnsentUntouched
  <2>7. ASSUME waited'[s] PROVE Waiting(s)'
    <3>1. waited[s] BY <1>2, <2>7
    <3>2. OwnTexts(s)' BY <1>2, <1>3, <2>3, <3>1 DEF Waiting, OwnTexts
    <3>3. \A n \in Messages : SessionOf[n] = s => ~Active(n)' BY <1>3, <2>2, <3>1 DEF Active
    <3>4. WorkedOn(s)' BY <3>3 DEF WorkedOn
    <3>5. AskedOnce(s)' BY <1>2, <1>3, <3>1 DEF AskedOnce
    <3>6. AnswersRecord(s)' /\ FinishAwaited(s)' BY <2>1 DEF AnswersRecord, FinishAwaited
    <3> QED BY <3>2, <3>4, <3>5, <3>6 DEF Waiting
  <2>8. pending'[s] # None => handler'[pending'[s]] # "unsent" BY <2>1
  <2> HIDE DEF s
  <2> QED BY <1>1, <1>4, <2>5, <2>6, <2>7, <2>8, ChatStep
<1> QED BY <1>5, <1>6 DEF RouteFails

LEMMA FailureShownStep ==
    ASSUME AdapterIInv, NEW m \in Messages, FailureShown(m)
    PROVE  AdapterIInv'
<1> DEFINE s == SessionOf[m]
<1>1. TypeOK /\ s \in Sessions /\ m # None BY ChatOf DEF AdapterIInv
<1>2. /\ handler[m] = "failing" /\ handler'[m] = "over"
      /\ \A n \in Messages : n # m => handler'[n] = handler[n]
      /\ handler' \in [Messages -> {"unsent", "thinking", "routing", "failing", "over"}]
      /\ UNCHANGED <<buffer, shown, finishes, inbox, events, closing, faults, restarts, waited>>
  BY <1>1 DEF FailureShown, TypeOK, bubble
<1>3. /\ pending'[s] = None /\ \A t \in Sessions : t # s => pending'[t] = pending[t]
      /\ pending' \in [Sessions -> Messages \cup {None}]
      /\ \A t \in Sessions : pending'[t] # None => SessionOf[pending'[t]] = t
  BY <1>1 DEF FailureShown, Delete, TypeOK
<1>4. TypeOK' BY <1>1, <1>2, <1>3 DEF TypeOK
<1>5. ChatKeeps(s) BY <1>2, <1>3, <1>4 DEF ChatKeeps
<1>6. \A n \in Messages : SessionOf[n] = s /\ handler'[n] = "unsent" => finishes'[n] = 0
  BY <1>2 DEF AdapterIInv, UnsentUntouched
<1>7. \A i \in DOMAIN inbox'[s] : SessionOf[inbox'[s][i]] = s
  BY <1>1, <1>2 DEF AdapterIInv, InboxOfChat
<1>8. ASSUME waited'[s] PROVE Waiting(s)'
  <2>1. Waiting(s) BY <1>1, <1>2, <1>8 DEF AdapterIInv
  <2>2. pending[s] = m /\ inbox[s] = <<>> BY <1>2, <2>1 DEF Waiting, WorkedOn, Active
  <2>3. OwnTexts(s)' BY <1>2, <2>1 DEF Waiting, OwnTexts
  <2>4. \A n \in Messages : SessionOf[n] = s => ~Active(n)'
    BY <1>2, <2>1, <2>2 DEF Waiting, WorkedOn, Active
  <2>5. WorkedOn(s)' BY <2>4 DEF WorkedOn
  <2>6. AskedOnce(s)' BY <1>2, <2>2 DEF AskedOnce
  <2>7. AnswersRecord(s)' /\ FinishAwaited(s)' BY <1>3 DEF AnswersRecord, FinishAwaited
  <2> QED BY <2>3, <2>5, <2>6, <2>7 DEF Waiting
<1>9. pending'[s] # None => handler'[pending'[s]] # "unsent" BY <1>3
<1> HIDE DEF s
<1> QED BY <1>1, <1>5, <1>6, <1>7, <1>8, <1>9, ChatStep

-----------------------------------------------------------------------------
(* Agent Core answers the oldest message of a chat.                        *)
LEMMA AnswerStep ==
    ASSUME AdapterIInv, NEW s \in Sessions, Answer(s)
    PROVE  AdapterIInv'
<1> DEFINE m == Head(inbox[s])
<1>1. TypeOK /\ inbox[s] \in Seq(Messages) /\ inbox[s] # <<>> BY DEF AdapterIInv, TypeOK, Answer
<1>2. /\ events' \in Seq(Event) /\ m \in Messages
      /\ \A i \in DOMAIN events' : (\E j \in DOMAIN events : events'[i] = events[j]) \/ events'[i].turn = m
  BY <1>1, AnswerEvents
<1>3. /\ Tail(inbox[s]) \in Seq(Messages) /\ \E i \in DOMAIN inbox[s] : inbox[s][i] = m
      /\ \A i \in DOMAIN Tail(inbox[s]) : \E j \in DOMAIN inbox[s] : Tail(inbox[s])[i] = inbox[s][j]
  BY <1>1, Taken
<1>4. SessionOf[m] = s BY <1>3 DEF AdapterIInv, InboxOfChat
<1> HIDE DEF m
<1>5. /\ inbox'[s] = Tail(inbox[s]) /\ \A t \in Sessions : t # s => inbox'[t] = inbox[t]
      /\ inbox' \in [Sessions -> Seq(Messages)]
      /\ UNCHANGED <<handler, pending, buffer, shown, finishes, closing, faults, restarts, waited>>
  BY <1>1, <1>3 DEF Answer, TypeOK, session, bubble
<1>6. TypeOK' BY <1>1, <1>2, <1>5 DEF TypeOK
<1>7. ChatKeeps(s)
  <2>1. \A i \in DOMAIN events' : \/ SessionOf[events'[i].turn] = s
                                  \/ \E j \in DOMAIN events : events'[i] = events[j]
    BY <1>2, <1>4
  <2> QED BY <1>5, <1>6, <2>1 DEF ChatKeeps
<1>8. \A n \in Messages : SessionOf[n] = s /\ handler'[n] = "unsent" => finishes'[n] = 0
  BY <1>5 DEF AdapterIInv, UnsentUntouched
<1>9. \A i \in DOMAIN inbox'[s] : SessionOf[inbox'[s][i]] = s
  BY <1>3, <1>5 DEF AdapterIInv, InboxOfChat
<1>10. ASSUME waited'[s] PROVE Waiting(s)'
  <2>1. Waiting(s) BY <1>5, <1>10 DEF AdapterIInv
  <2>2. NoneFor(events, s) /\ closing # s /\ Len(inbox[s]) = 1 /\ pending[s] \in {None, m}
    BY <1>1, <2>1 DEF Waiting, AskedOnce, m
  <2>3. inbox'[s] = <<>> BY <1>1, <1>5, <2>2
  <2>4. \A n \in Messages : SessionOf[n] = s => ~Active(n)
    BY <1>1, <2>1 DEF Waiting, WorkedOn
  <2>5. OwnTexts(s)' BY <1>5, <2>1 DEF Waiting, OwnTexts
  <2>6. WorkedOn(s)' BY <1>5, <2>4 DEF WorkedOn, Active
  <2>7. AskedOnce(s)' BY <2>3 DEF AskedOnce
  <2>8. AllFor(events', s, m) BY <1>2, <2>2 DEF NoneFor, AllFor
  <2>9. AnswersRecord(s)' BY <1>5, <2>2, <2>8 DEF AnswersRecord
  <2>10. FinishAwaited(s)' BY <1>5, <2>1 DEF Waiting, FinishAwaited
  <2> QED BY <2>5, <2>6, <2>7, <2>9, <2>10 DEF Waiting
<1>11. pending'[s] # None => handler'[pending'[s]] # "unsent"
  BY <1>5 DEF AdapterIInv, RecordOfSent
<1> QED BY <1>7, <1>8, <1>9, <1>10, <1>11, ChatStep

(* The event the consumer takes.                                           *)
LEMMA TakenEvent ==
    ASSUME TypeOK, NEW kind, Take(kind)
    PROVE  /\ Chat \in Sessions /\ Head(events).turn \in Messages
           /\ \E i \in DOMAIN events : events[i] = Head(events)
           /\ events' \in Seq(Event)
           /\ \A i \in DOMAIN events' : \E j \in DOMAIN events : events'[i] = events[j]
<1> DEFINE old == events
<1>1. old \in Seq(Event) /\ old # <<>> /\ events' = Tail(old) BY DEF TypeOK, Take
<1> HIDE DEF old
<1>2. /\ Head(old) \in Event /\ \E i \in DOMAIN old : old[i] = Head(old)
      /\ Tail(old) \in Seq(Event)
      /\ \A i \in DOMAIN Tail(old) : \E j \in DOMAIN old : Tail(old)[i] = old[j]
  BY <1>1, Taken
<1>3. Head(old).turn \in Messages BY <1>2 DEF Event
<1>4. SessionOf[Head(old).turn] \in Sessions BY <1>3, ChatOf
<1>5. old = events BY DEF old
<1> QED BY <1>1, <1>2, <1>3, <1>4, <1>5 DEF Chat

(* While its users wait, a chat with an event left has nothing else under  *)
(* way, and the event is of the message that has the record.               *)
LEMMA EventAlone ==
    ASSUME AdapterIInv, NEW kind, Take(kind), waited[Chat]
    PROVE  /\ Waiting(Chat) /\ inbox[Chat] = <<>> /\ closing # Chat
           /\ \A n \in Messages : SessionOf[n] = Chat => ~Active(n)
           /\ pending[Chat] # None => /\ Head(events).turn = pending[Chat] /\ finishes[pending[Chat]] = 0
                                      /\ AllFor(events', Chat, pending[Chat])
<1>1. /\ Chat \in Sessions
      /\ \E i \in DOMAIN events : events[i] = Head(events)
      /\ \A i \in DOMAIN events' : \E j \in DOMAIN events : events'[i] = events[j]
  BY TakenEvent DEF AdapterIInv
<1>2. Waiting(Chat) BY <1>1 DEF AdapterIInv
<1>3. ~ NoneFor(events, Chat) BY <1>1 DEF NoneFor, Chat
<1>4. inbox[Chat] = <<>> BY <1>2, <1>3 DEF Waiting, AskedOnce
<1>5. \A n \in Messages : SessionOf[n] = Chat => ~Active(n) BY <1>2, <1>3 DEF Waiting, WorkedOn
<1>6. closing # Chat BY <1>1, AdapterAssumption DEF Take
<1>7. ASSUME pending[Chat] # None
      PROVE  /\ Head(events).turn = pending[Chat] /\ finishes[pending[Chat]] = 0
             /\ AllFor(events', Chat, pending[Chat])
  <2>1. AllFor(events, Chat, pending[Chat]) BY <1>2, <1>7 DEF Waiting, AnswersRecord
  <2>2. Head(events).turn = pending[Chat] BY <1>1, <2>1 DEF AllFor, Chat
  <2>3. AllFor(events', Chat, pending[Chat]) BY <1>1, <2>1 DEF AllFor
  <2>4. pending[Chat] \in Messages /\ SessionOf[pending[Chat]] = Chat BY <1>1, <1>7 DEF AdapterIInv, TypeOK
  <2>5. handler[pending[Chat]] # "failing" BY <1>5, <2>4 DEF Active
  <2>6. finishes[pending[Chat]] = 0 BY <1>2, <1>6, <1>7, <2>5 DEF Waiting, FinishAwaited
  <2> QED BY <2>2, <2>3, <2>6
<1> QED BY <1>2, <1>4, <1>5, <1>6, <1>7

LEMMA TakeStrayStep ==
    ASSUME AdapterIInv, TakeStray
    PROVE  AdapterIInv'
<1>1. PICK kind \in {"text", "error", "done"} : Take(kind)
  BY DEF TakeStray
<1>0. PICK s \in Sessions : s = Chat
  BY <1>1, TakenEvent DEF AdapterIInv
<1>2. /\ TypeOK /\ s \in Sessions /\ events' \in Seq(Event)
      /\ \A i \in DOMAIN events' : \E j \in DOMAIN events : events'[i] = events[j]
  BY <1>1, TakenEvent DEF AdapterIInv
<1>3. waited[s] => /\ Waiting(s) /\ inbox[s] = <<>> /\ closing # s
                   /\ \A n \in Messages : SessionOf[n] = s => ~Active(n)
  BY <1>1, <1>0, EventAlone
<1>4. /\ pending[s] = None
      /\ UNCHANGED <<handler, pending, buffer, shown, finishes, inbox, closing, faults, restarts, waited>>
  BY <1>0 DEF TakeStray, session, bubble
<1>5. TypeOK' BY <1>2, <1>4 DEF TypeOK
<1>6. ChatKeeps(s) BY <1>2, <1>4, <1>5 DEF ChatKeeps
<1>7. \A n \in Messages : SessionOf[n] = s /\ handler'[n] = "unsent" => finishes'[n] = 0
  BY <1>4 DEF AdapterIInv, UnsentUntouched
<1>8. \A i \in DOMAIN inbox'[s] : SessionOf[inbox'[s][i]] = s
  BY <1>2, <1>4 DEF AdapterIInv, InboxOfChat
<1>9. ASSUME waited'[s] PROVE Waiting(s)'
  <2>1. OwnTexts(s)' BY <1>3, <1>4, <1>9 DEF Waiting, OwnTexts
  <2>2. WorkedOn(s)' BY <1>3, <1>4, <1>9 DEF WorkedOn, Active
  <2>3. AskedOnce(s)' BY <1>3, <1>4, <1>9 DEF AskedOnce
  <2>4. AnswersRecord(s)' /\ FinishAwaited(s)' BY <1>4 DEF AnswersRecord, FinishAwaited
  <2> QED BY <2>1, <2>2, <2>3, <2>4 DEF Waiting
<1>10. pending'[s] # None => handler'[pending'[s]] # "unsent" BY <1>4
<1> QED BY <1>2, <1>6, <1>7, <1>8, <1>9, <1>10, ChatStep

LEMMA TakeTextStep ==
    ASSUME AdapterIInv, TakeText
    PROVE  AdapterIInv'
<1>1. Take("text") BY DEF TakeText
<1>0. PICK s \in Sessions : s = Chat
  BY <1>1, TakenEvent DEF AdapterIInv
<1> DEFINE p == pending[s]
           n0 == Head(events).turn
           text == buffer[p] \cup {n0}
<1>2. /\ TypeOK /\ s \in Sessions /\ n0 \in Messages /\ events' \in Seq(Event)
      /\ \A i \in DOMAIN events' : \E j \in DOMAIN events : events'[i] = events[j]
  BY <1>1, TakenEvent DEF AdapterIInv
<1>3. waited[s] => /\ Waiting(s) /\ inbox[s] = <<>> /\ closing # s
                   /\ \A n \in Messages : SessionOf[n] = s => ~Active(n)
                   /\ p # None => n0 = p /\ finishes[p] = 0 /\ AllFor(events', s, p)
  BY <1>1, <1>0, EventAlone
<1>4. /\ p # None /\ buffer' = [buffer EXCEPT ![p] = text]
      /\ shown' = shown \/ shown' = [shown EXCEPT ![p] = text]
      /\ UNCHANGED <<handler, pending, finishes, inbox, closing, faults, restarts, waited>>
  BY <1>0 DEF TakeText
<1>5. p \in Messages /\ SessionOf[p] = s BY <1>2, <1>4 DEF TypeOK
<1>6. text \subseteq Messages /\ buffer[p] \subseteq Messages BY <1>2, <1>5 DEF TypeOK
<1>7. waited[s] => text \subseteq {p} BY <1>3, <1>4, <1>5 DEF Waiting, OwnTexts
<1>8. pending'[s] = p BY <1>4
<1> HIDE DEF text, p, n0
<1>9. /\ buffer'[p] = text /\ \A n \in Messages : n # p => buffer'[n] = buffer[n]
      /\ buffer' \in [Messages -> SUBSET Messages]
  BY <1>2, <1>4, <1>5, <1>6 DEF TypeOK
<1>10. /\ shown'[p] \in {shown[p], text} /\ \A n \in Messages : n # p => shown'[n] = shown[n]
       /\ shown' \in [Messages -> SUBSET Messages]
  BY <1>2, <1>4, <1>5, <1>6 DEF TypeOK
<1>11. TypeOK' BY <1>2, <1>4, <1>9, <1>10 DEF TypeOK
<1>12. ChatKeeps(s) BY <1>2, <1>4, <1>5, <1>9, <1>10, <1>11 DEF ChatKeeps
<1>13. \A n \in Messages : SessionOf[n] = s /\ handler'[n] = "unsent" => finishes'[n] = 0
  BY <1>4 DEF AdapterIInv, UnsentUntouched
<1>14. \A i \in DOMAIN inbox'[s] : SessionOf[inbox'[s][i]] = s
  BY <1>2, <1>4 DEF AdapterIInv, InboxOfChat
<1>15. ASSUME waited'[s] PROVE Waiting(s)'
  <2>0. waited[s] BY <1>4, <1>15
  <2>1. OwnTexts(s)'
    <3> SUFFICES ASSUME NEW n \in Messages, SessionOf[n] = s
                 PROVE  shown'[n] \subseteq {n} /\ buffer'[n] \subseteq {n} /\ finishes'[n] <= 1
      BY DEF OwnTexts
    <3>1. shown[n] \subseteq {n} /\ buffer[n] \subseteq {n} /\ finishes'[n] <= 1
      BY <1>3, <1>4, <2>0 DEF Waiting, OwnTexts
    <3>2. CASE n = p
      <4>1. shown'[p] = shown[p] \/ shown'[p] = text BY <1>10
      <4> QED BY <1>7, <1>9, <2>0, <3>1, <3>2, <4>1
    <3>3. CASE n # p BY <1>9, <1>10, <3>1, <3>3
    <3> QED BY <3>2, <3>3
  <2>2. WorkedOn(s)' BY <1>3, <1>4, <2>0 DEF WorkedOn, Active
  <2>3. AskedOnce(s)' BY <1>3, <1>4, <2>0 DEF AskedOnce
  <2>4. AnswersRecord(s)' BY <1>3, <1>4, <1>8, <2>0 DEF AnswersRecord
  <2>5. FinishAwaited(s)' BY <1>3, <1>4, <1>8, <2>0 DEF FinishAwaited
  <2> QED BY <2>1, <2>2, <2>3, <2>4, <2>5 DEF Waiting
<1>16. pending'[s] # None => handler'[pending'[s]] # "unsent"
  BY <1>2, <1>4 DEF AdapterIInv, RecordOfSent
<1> QED BY <1>2, <1>12, <1>13, <1>14, <1>15, <1>16, ChatStep

LEMMA TakeEndStep ==
    ASSUME AdapterIInv, NEW kind \in {"done", "error"}, TakeEnd(kind)
    PROVE  AdapterIInv'
<1>1. Take(kind) BY DEF TakeEnd
<1>0. PICK s \in Sessions : s = Chat
  BY <1>1, TakenEvent DEF AdapterIInv
<1> DEFINE p == pending[s]
           text == IF kind = "done" THEN buffer[p] ELSE {}
<1>2. /\ TypeOK /\ s \in Sessions /\ s # None /\ events' \in Seq(Event)
      /\ \A i \in DOMAIN events' : \E j \in DOMAIN events : events'[i] = events[j]
  BY <1>1, TakenEvent, AdapterAssumption DEF AdapterIInv
<1>3. waited[s] => /\ Waiting(s) /\ inbox[s] = <<>>
                   /\ \A n \in Messages : SessionOf[n] = s => ~Active(n)
                   /\ p # None => finishes[p] = 0 /\ AllFor(events', s, p)
  BY <1>1, <1>0, EventAlone
<1>4. /\ p # None /\ finishes' = [finishes EXCEPT ![p] = @ + 1] /\ shown' = [shown EXCEPT ![p] = text]
      /\ closing' = s /\ closing = None
      /\ UNCHANGED <<handler, pending, buffer, inbox, faults, restarts, waited>>
  BY <1>1, <1>0 DEF TakeEnd, SendFinish, session, Take
<1>5. p \in Messages /\ SessionOf[p] = s BY <1>2, <1>4 DEF TypeOK
<1>6. text \subseteq Messages BY <1>2, <1>5 DEF TypeOK
<1>7. waited[s] => text \subseteq {p} BY <1>3, <1>5 DEF Waiting, OwnTexts
<1>8. handler[p] # "unsent" /\ pending'[s] = p
  BY <1>2, <1>4 DEF AdapterIInv, RecordOfSent
<1> HIDE DEF text, p
<1>9. /\ finishes'[p] = finishes[p] + 1 /\ finishes[p] \in Nat
      /\ \A n \in Messages : n # p => finishes'[n] = finishes[n]
      /\ finishes' \in [Messages -> Nat]
  BY <1>2, <1>4, <1>5 DEF TypeOK
<1>10. /\ shown'[p] = text /\ \A n \in Messages : n # p => shown'[n] = shown[n]
       /\ shown' \in [Messages -> SUBSET Messages]
  BY <1>2, <1>4, <1>5, <1>6 DEF TypeOK
<1>11. TypeOK' BY <1>2, <1>4, <1>9, <1>10 DEF TypeOK
<1>12. ChatKeeps(s)
  <2>1. \A t \in Sessions : t # s => (closing' = t <=> closing = t) BY <1>4, AdapterAssumption
  <2> QED BY <1>2, <1>4, <1>5, <1>9, <1>10, <1>11, <2>1 DEF ChatKeeps
<1>13. \A n \in Messages : SessionOf[n] = s /\ handler'[n] = "unsent" => finishes'[n] = 0
  BY <1>4, <1>8, <1>9 DEF AdapterIInv, UnsentUntouched
<1>14. \A i \in DOMAIN inbox'[s] : SessionOf[inbox'[s][i]] = s
  BY <1>2, <1>4 DEF AdapterIInv, InboxOfChat
<1>15. ASSUME waited'[s] PROVE Waiting(s)'
  <2>0. waited[s] BY <1>4, <1>15
  <2>1. OwnTexts(s)' BY <1>3, <1>4, <1>7, <1>9, <1>10, <2>0 DEF Waiting, OwnTexts
  <2>2. WorkedOn(s)' BY <1>3, <1>4, <2>0 DEF WorkedOn, Active
  <2>3. AskedOnce(s)' BY <1>3, <1>4, <2>0 DEF AskedOnce
  <2>4. AnswersRecord(s)' BY <1>3, <1>4, <1>8, <2>0 DEF AnswersRecord
  <2>5. FinishAwaited(s)' BY <1>4 DEF FinishAwaited
  <2> QED BY <2>1, <2>2, <2>3, <2>4, <2>5 DEF Waiting
<1>16. pending'[s] # None => handler'[pending'[s]] # "unsent" BY <1>4, <1>8
<1> QED BY <1>2, <1>12, <1>13, <1>14, <1>15, <1>16, ChatStep

LEMMA EndUnsentStep ==
    ASSUME AdapterIInv, EndUnsent
    PROVE  AdapterIInv'
<1>1. PICK kind \in {"error", "done"} : Take(kind)
  BY DEF EndUnsent
<1>0. PICK s \in Sessions : s = Chat
  BY <1>1, TakenEvent DEF AdapterIInv
<1>2. /\ TypeOK /\ s \in Sessions /\ events' \in Seq(Event)
      /\ \A i \in DOMAIN events' : \E j \in DOMAIN events : events'[i] = events[j]
  BY <1>1, TakenEvent DEF AdapterIInv
<1>3. waited[s] => /\ Waiting(s) /\ inbox[s] = <<>> /\ closing # s
                   /\ \A n \in Messages : SessionOf[n] = s => ~Active(n)
  BY <1>1, <1>0, EventAlone
<1>4. /\ Delete(s) /\ Fault
      /\ UNCHANGED <<handler, buffer, shown, finishes, inbox, closing, restarts, waited>>
  BY <1>0 DEF EndUnsent, bubble
<1>5. /\ pending'[s] = None /\ \A t \in Sessions : t # s => pending'[t] = pending[t]
      /\ pending' \in [Sessions -> Messages \cup {None}]
      /\ \A t \in Sessions : pending'[t] # None => SessionOf[pending'[t]] = t
  BY <1>2, <1>4 DEF Delete, TypeOK
<1>6. faults' \in 0 .. MaxFaults BY <1>2, <1>4, AdapterAssumption DEF Fault, TypeOK
<1>7. TypeOK' BY <1>2, <1>4, <1>5, <1>6 DEF TypeOK
<1>8. ChatKeeps(s) BY <1>2, <1>4, <1>5, <1>7 DEF ChatKeeps
<1>9. \A n \in Messages : SessionOf[n] = s /\ handler'[n] = "unsent" => finishes'[n] = 0
  BY <1>4 DEF AdapterIInv, UnsentUntouched
<1>10. \A i \in DOMAIN inbox'[s] : SessionOf[inbox'[s][i]] = s
  BY <1>2, <1>4 DEF AdapterIInv, InboxOfChat
<1>11. ASSUME waited'[s] PROVE Waiting(s)'
  <2>1. OwnTexts(s)' BY <1>3, <1>4, <1>11 DEF Waiting, OwnTexts
  <2>2. WorkedOn(s)' BY <1>3, <1>4, <1>11 DEF WorkedOn, Active
  <2>3. AskedOnce(s)' BY <1>3, <1>4, <1>11 DEF AskedOnce
  <2>4. AnswersRecord(s)' /\ FinishAwaited(s)' BY <1>5 DEF AnswersRecord, FinishAwaited
  <2> QED BY <2>1, <2>2, <2>3, <2>4 DEF Waiting
<1>12. pending'[s] # None => handler'[pending'[s]] # "unsent" BY <1>5
<1> QED BY <1>2, <1>8, <1>9, <1>10, <1>11, <1>12, ChatStep

(* The finish frame is acknowledged and the record dropped.                *)
LEMMA ClosedStep ==
    ASSUME AdapterIInv, Closed
    PROVE  AdapterIInv'
<1>0. PICK s \in Sessions : s = closing
  BY DEF AdapterIInv, TypeOK, Closed
<1>1. TypeOK /\ s \in Sessions /\ s # None /\ closing = s BY <1>0, AdapterAssumption DEF AdapterIInv
<1>2. /\ Delete(s) /\ closing' = None
      /\ UNCHANGED <<handler, buffer, shown, finishes, inbox, events, faults, restarts, waited>>
  BY <1>0 DEF Closed, bubble
<1>3. /\ pending'[s] = None /\ \A t \in Sessions : t # s => pending'[t] = pending[t]
      /\ pending' \in [Sessions -> Messages \cup {None}]
      /\ \A t \in Sessions : pending'[t] # None => SessionOf[pending'[t]] = t
  BY <1>1, <1>2 DEF Delete, TypeOK
<1>4. TypeOK' BY <1>1, <1>2, <1>3 DEF TypeOK
<1>5. ChatKeeps(s)
  <2>1. \A t \in Sessions : t # s => (closing' = t <=> closing = t) BY <1>1, <1>2, AdapterAssumption
  <2> QED BY <1>2, <1>3, <1>4, <2>1 DEF ChatKeeps
<1>6. \A n \in Messages : SessionOf[n] = s /\ handler'[n] = "unsent" => finishes'[n] = 0
  BY <1>2 DEF AdapterIInv, UnsentUntouched
<1>7. \A i \in DOMAIN inbox'[s] : SessionOf[inbox'[s][i]] = s
  BY <1>1, <1>2 DEF AdapterIInv, InboxOfChat
<1>8. ASSUME waited'[s] PROVE Waiting(s)'
  <2>1. Waiting(s) BY <1>1, <1>2, <1>8 DEF AdapterIInv
  <2>2. OwnTexts(s)' BY <1>2, <2>1 DEF Waiting, OwnTexts
  <2>3. WorkedOn(s)' BY <1>1, <1>2, <2>1 DEF Waiting, WorkedOn, Active
  <2>4. AskedOnce(s)' BY <1>1, <1>2, <2>1 DEF Waiting, AskedOnce
  <2>5. AnswersRecord(s)' /\ FinishAwaited(s)' BY <1>3 DEF AnswersRecord, FinishAwaited
  <2> QED BY <2>2, <2>3, <2>4, <2>5 DEF Waiting
<1>9. pending'[s] # None => handler'[pending'[s]] # "unsent" BY <1>3
<1> QED BY <1>1, <1>5, <1>6, <1>7, <1>8, <1>9, ChatStep

(* A restart drops every record and every handler.                         *)
LEMMA RestartStep ==
    ASSUME AdapterIInv, Restart
    PROVE  AdapterIInv'
<1>1. /\ \A s \in Sessions : pending'[s] = None
      /\ closing' = None /\ restarts < MaxRestarts /\ restarts' = restarts + 1
      /\ UNCHANGED <<buffer, shown, finishes, inbox, events, faults, waited>>
      /\ pending' = [s \in Sessions |-> None]
  BY DEF Restart, bubble
<1>2. /\ \A m \in Messages : handler'[m] \in {"unsent", "over"} /\ (handler'[m] = "unsent" => handler[m] = "unsent")
      /\ handler' \in [Messages -> {"unsent", "thinking", "routing", "failing", "over"}]
  BY DEF Restart
<1>3. TypeOK' BY <1>1, <1>2, AdapterAssumption DEF AdapterIInv, TypeOK
<1>4. UnsentUntouched' BY <1>1, <1>2 DEF AdapterIInv, UnsentUntouched
<1>5. RecordOfSent' BY <1>1 DEF RecordOfSent
<1>6. InboxOfChat' BY <1>1 DEF AdapterIInv, InboxOfChat
<1>7. ASSUME NEW s \in Sessions, waited'[s] PROVE Waiting(s)'
  <2>1. Waiting(s) BY <1>1, <1>7 DEF AdapterIInv
  <2>2. OwnTexts(s)' BY <1>1, <2>1 DEF Waiting, OwnTexts
  <2>3. WorkedOn(s)' BY <1>2 DEF WorkedOn, Active
  <2>4. s # None BY AdapterAssumption
  <2>5. AskedOnce(s)' BY <1>1, <2>1, <2>4 DEF Waiting, AskedOnce
  <2>6. AnswersRecord(s)' /\ FinishAwaited(s)' BY <1>1 DEF AnswersRecord, FinishAwaited
  <2> QED BY <2>2, <2>3, <2>5, <2>6 DEF Waiting
<1> QED BY <1>3, <1>4, <1>5, <1>6, <1>7 DEF AdapterIInv

-----------------------------------------------------------------------------
LEMMA AdapterStep == AdapterIInv /\ [Next]_vars => AdapterIInv'
<1> SUFFICES ASSUME AdapterIInv, [Next]_vars PROVE AdapterIInv'
  OBVIOUS
<1>1. CASE UNCHANGED vars
  <2>1. UNCHANGED <<handler, pending, buffer, shown, finishes, inbox, events, closing, faults, restarts, waited>>
    BY <1>1 DEF vars, session, bubble
  <2>2. TypeOK' BY <2>1 DEF AdapterIInv, TypeOK
  <2>3. UnsentUntouched' /\ RecordOfSent' /\ InboxOfChat'
    BY <2>1 DEF AdapterIInv, UnsentUntouched, RecordOfSent, InboxOfChat
  <2>4. ASSUME NEW s \in Sessions, waited'[s] PROVE Waiting(s)'
    <3>1. Waiting(s) BY <2>1, <2>4 DEF AdapterIInv
    <3>2. OwnTexts(s)' BY <2>1, <3>1 DEF Waiting, OwnTexts
    <3>3. WorkedOn(s)' BY <2>1, <3>1 DEF Waiting, WorkedOn, Active
    <3>4. AskedOnce(s)' BY <2>1, <3>1 DEF Waiting, AskedOnce
    <3>5. AnswersRecord(s)' BY <2>1, <3>1 DEF Waiting, AnswersRecord
    <3>6. FinishAwaited(s)' BY <2>1, <3>1 DEF Waiting, FinishAwaited
    <3> QED BY <3>2, <3>3, <3>4, <3>5, <3>6 DEF Waiting
  <2> QED BY <2>2, <2>3, <2>4 DEF AdapterIInv
<1>2. CASE \E m \in Messages : Receive(m) \/ Handler(m)
  BY <1>2, ReceiveStep, ThinkingStep, RoutedStep, RouteFailsStep, FailureShownStep, Zenon DEF Handler
<1>3. CASE \E s \in Sessions : Answer(s) BY <1>3, AnswerStep
<1>4. CASE Consumer
  BY <1>4, TakeStrayStep, TakeTextStep, TakeEndStep, EndUnsentStep, ClosedStep DEF Consumer
<1>5. CASE Restart BY <1>5, RestartStep
<1> QED BY <1>1, <1>2, <1>3, <1>4, <1>5 DEF Next

THEOREM AdapterTypeCorrect == Spec => []TypeOK
<1>1. AdapterIInv => TypeOK BY DEF AdapterIInv
<1> QED BY <1>1, AdapterInitial, AdapterStep, PTL DEF Spec

(* As long as the users of a chat wait for one answer before they write    *)
(* again, no bubble shows text that answers another message: the record of *)
(* the session is the record of the message (pendingBySession).            *)
THEOREM AnswersOwn == Spec => []OwnAnswer
<1>1. ASSUME AdapterIInv PROVE OwnAnswer
  <2> SUFFICES ASSUME NEW m \in Messages, waited[SessionOf[m]] PROVE shown[m] \subseteq {m}
    BY DEF OwnAnswer
  <2>1. SessionOf[m] \in Sessions BY ChatOf
  <2>2. Waiting(SessionOf[m]) BY <1>1, <2>1 DEF AdapterIInv
  <2> QED BY <2>2 DEF Waiting, OwnTexts
<1> QED BY <1>1, AdapterInitial, AdapterStep, PTL DEF Spec

(* And every bubble is finished once at most, although an answer may bring *)
(* several terminal events and a failed route finishes the bubble too.     *)
THEOREM FinishedOnce == Spec => []FinishOnce
<1>1. ASSUME AdapterIInv PROVE FinishOnce
  <2> SUFFICES ASSUME NEW m \in Messages, waited[SessionOf[m]] PROVE finishes[m] <= 1
    BY DEF FinishOnce
  <2>1. SessionOf[m] \in Sessions BY ChatOf
  <2>2. Waiting(SessionOf[m]) BY <1>1, <2>1 DEF AdapterIInv
  <2> QED BY <2>2 DEF Waiting, OwnTexts
<1> QED BY <1>1, AdapterInitial, AdapterStep, PTL DEF Spec
==============================================================================

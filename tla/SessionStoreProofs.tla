------------------------- MODULE SessionStoreProofs -------------------------
(***************************************************************************)
(* What the session store keeps to for any number of turns, requests,      *)
(* processes and agents.                                                   *)
(***************************************************************************)
EXTENDS SessionStore, TLAPS

Entries == Tasks \X {"user", "assistant"}

\* A task that works on an object has it.
Equipped ==
    \A t \in Tasks :
        /\ at[t] \in {"creating", "binding", "correcting", "asking", "ask", "turn"}
              => session[t] \in Document
        /\ at[t] \in {"creating", "binding"} => session[t].log = <<>>
        /\ at[t] \in {"ask", "answer"} => buffer[t] \in Document

\* What is about to be written was stored since the document came into being.
Current ==
    ~straddled =>
        /\ record # None => Range(record.log) \subseteq Range(stored)
        /\ \A t \in Tasks :
              /\ at[t] = "correcting" => Range(session[t].log) \subseteq Range(stored)
              /\ at[t] \in {"ask", "answer"} => Range(buffer[t].log) \subseteq Range(stored)

\* What task t relies on while it is alone.
Alone(t) ==
    /\ at[t] \in {"routing", "ensuring", "creating"} => record = None
    /\ at[t] \in {"binding", "correcting", "asking", "ask", "turn", "answering", "answer"}
          => record # None
    /\ at[t] \in {"binding", "correcting", "asking", "ask"} => session[t].log = record.log
    /\ at[t] = "turn" => Append(session[t].log, Question(t)) = record.log
    /\ at[t] \in {"ask", "answer"} => buffer[t].log = record.log

\* One task at a time, and the document is the conversation.
InTurn ==
    ~overlap =>
        /\ \A t, u \in Active : t = u
        /\ IF record = None THEN stored = <<>> ELSE record.log = stored
        /\ \A t \in Tasks : Alone(t)

Typed == TypeOK /\ Equipped
IInv == Typed /\ Current /\ InTurn

-----------------------------------------------------------------------------
LEMMA RangeOfAppend ==
    ASSUME NEW S, NEW s \in Seq(S), NEW e \in S
    PROVE  Range(Append(s, e)) = Range(s) \cup {e}
<1>1. Append(s, e) \in Seq(S) /\ Len(Append(s, e)) = Len(s) + 1 /\ Len(s) \in Nat
  OBVIOUS
<1>2. \A i \in 1 .. Len(s) : Append(s, e)[i] = s[i]
  OBVIOUS
<1>3. Append(s, e)[Len(s) + 1] = e
  OBVIOUS
<1>4. DOMAIN s = 1 .. Len(s) /\ DOMAIN Append(s, e) = 1 .. (Len(s) + 1)
  BY <1>1
<1>5. 1 .. (Len(s) + 1) = (1 .. Len(s)) \cup {Len(s) + 1}
  BY <1>1
<1> QED BY <1>2, <1>3, <1>4, <1>5 DEF Range

LEMMA EntryOf ==
    ASSUME NEW t \in Tasks
    PROVE  Question(t) \in Entries /\ Answer(t) \in Entries
BY DEF Question, Answer, Entries

\* What settling does to the locals of a task, in one place.
LEMMA Settled ==
    ASSUME Typed, NEW t \in Tasks, NEW doc \in Document, Settle(t, doc)
    PROVE  /\ at' \in [Tasks -> Places]
           /\ asked' \in [Tasks -> Agents \cup {None}]
           /\ agent' \in [Tasks -> Agents \cup {None}]
           /\ session' \in [Tasks -> Document \cup {None}]
           /\ session'[t] \in Document /\ session'[t].log = doc.log
           /\ at'[t] \in {"asking", "correcting"}
           /\ \A u \in Tasks \ {t} : at'[u] = at[u] /\ session'[u] = session[u]
<1> DEFINE wanted == IF asked[t] = None THEN doc.agent ELSE asked[t]
<1>1. PICK a \in Agents :
        /\ asked' = [asked EXCEPT ![t] = None]
        /\ agent' = [agent EXCEPT ![t] = a]
        /\ session' = [session EXCEPT ![t] = [doc EXCEPT !.agent = IF a = wanted THEN @ ELSE a]]
        /\ at' = [at EXCEPT ![t] = IF a = wanted THEN "asking" ELSE "correcting"]
  BY DEF Settle, Go
<1> DEFINE new == [doc EXCEPT !.agent = IF a = wanted THEN @ ELSE a]
<1>2. new \in Document /\ new.log = doc.log
  BY DEF Document
<1>3. /\ at \in [Tasks -> Places] /\ asked \in [Tasks -> Agents \cup {None}]
      /\ agent \in [Tasks -> Agents \cup {None}] /\ session \in [Tasks -> Document \cup {None}]
  BY DEF Typed, TypeOK
<1>4. session' = [session EXCEPT ![t] = new]
  BY <1>1
<1> HIDE DEF new, wanted
<1> QED BY <1>1, <1>2, <1>3, <1>4 DEF Places

LEMMA Finished ==
    ASSUME Typed, NEW t \in Tasks, Finish(t)
    PROVE  /\ at' \in [Tasks -> Places]
           /\ asked' \in [Tasks -> Agents \cup {None}]
           /\ agent' \in [Tasks -> Agents \cup {None}]
           /\ session' \in [Tasks -> Document \cup {None}]
           /\ buffer' \in [Tasks -> Document \cup {None}]
           /\ at'[t] = "done"
           /\ \A u \in Tasks \ {t} : /\ at'[u] = at[u] /\ session'[u] = session[u]
                                    /\ buffer'[u] = buffer[u]
BY DEF Finish, Go, Typed, TypeOK, Places

LEMMA Written ==
    ASSUME Typed, NEW t \in Tasks, buffer[t] \in Document, NEW e \in Entries, WriteEntry(t, e)
    PROVE  /\ record' \in Document /\ record' # None
           /\ record'.log = Append(buffer[t].log, e)
           /\ stored' = Append(stored, e) /\ stored' \in Seq(Entries)
           /\ Range(record'.log) = Range(buffer[t].log) \cup {e}
           /\ Range(stored') = Range(stored) \cup {e}
<1>1. stored \in Seq(Entries) /\ buffer[t].log \in Seq(Entries)
  BY DEF Typed, TypeOK, Document, Entries
<1>2. record' = [buffer[t] EXCEPT !.log = Append(buffer[t].log, e)] /\ stored' = Append(stored, e)
  BY DEF WriteEntry
<1>3. Append(buffer[t].log, e) \in Seq(Entries) /\ stored' \in Seq(Entries)
  BY <1>1, <1>2
<1>4. record' \in Document /\ record'.log = Append(buffer[t].log, e)
  BY <1>2, <1>3 DEF Document, Entries
<1>5. record' # None
  BY <1>4, StoreAssumption
<1> QED BY <1>1, <1>2, <1>3, <1>4, <1>5, RangeOfAppend

-----------------------------------------------------------------------------
LEMMA TypedInit == Init => Typed
<1> SUFFICES ASSUME Init PROVE Typed
  OBVIOUS
<1>1. \A a \in Agents : [agent |-> a, log |-> <<>>] \in Document
  BY DEF Document
<1>2. record \in Document \cup {None} /\ binding \in Agents \cup {None}
  BY <1>1 DEF Init
<1>3. stored \in Seq(Tasks \X {"user", "assistant"}) /\ ends \in 0 .. MaxEnds
  BY StoreAssumption DEF Init
<1>4. at \in [Tasks -> Places]
  BY DEF Init, Places
<1>5. /\ asked \in [Tasks -> Agents \cup {None}] /\ agent \in [Tasks -> Agents \cup {None}]
      /\ session \in [Tasks -> Document \cup {None}] /\ buffer \in [Tasks -> Document \cup {None}]
  BY DEF Init
<1>6. TypeOK
  BY <1>2, <1>3, <1>4, <1>5 DEF Init, TypeOK
<1>7. Equipped
  BY DEF Init, Equipped
<1> QED BY <1>6, <1>7 DEF Typed

\* A read before a write, by whichever task.
LEMMA TypedRead ==
    ASSUME Typed, NEW t \in Tasks, NEW from, NEW to \in {"ask", "answer"}, ReadFor(t, from, to),
           to = "ask" => at[t] = "asking"
    PROVE  Typed'
<1>1. CASE record = None
  <2>1. Finish(t) /\ UNCHANGED <<keys, ends, closing, history>>
    BY <1>1 DEF ReadFor
  <2>2. TypeOK'
    BY <2>1, Finished DEF Typed, TypeOK, keys, history
  <2>3. Equipped'
    BY <2>1, Finished DEF Typed, Equipped
  <2> QED BY <2>2, <2>3 DEF Typed
<1>2. CASE record # None
  <2>1. /\ at' = [at EXCEPT ![t] = to] /\ buffer' = [buffer EXCEPT ![t] = record]
        /\ UNCHANGED <<keys, ends, closing, asked, agent, session, history>>
    BY <1>2 DEF ReadFor, Go
  <2>2. record \in Document
    BY <1>2 DEF Typed, TypeOK
  <2>3. TypeOK'
    BY <2>1, <2>2 DEF Typed, TypeOK, keys, history, Places
  <2>4. Equipped'
    BY <2>1, <2>2 DEF Typed, TypeOK, Equipped
  <2> QED BY <2>3, <2>4 DEF Typed
<1> QED BY <1>1, <1>2

LEMMA TypedStep == Typed /\ [Next]_vars => Typed'
<1> SUFFICES ASSUME Typed, [Next]_vars PROVE Typed'
  OBVIOUS
<1> USE DEF keys, locals, history
<1>1. ASSUME NEW t \in Tasks, Publish(t) PROVE Typed'
  BY <1>1 DEF Publish, Go, Typed, TypeOK, Equipped, Places
<1>2. ASSUME NEW t \in Tasks, Begin(t) PROVE Typed'
  <2>1. /\ UNCHANGED <<keys, ends, closing, buffer, stored, straddled, served>>
        /\ overlap' \in BOOLEAN
    BY <1>2 DEF Begin, Typed, TypeOK
  <2>2. CASE record = None
    <3>1. /\ \/ at' = [at EXCEPT ![t] = "routing"] \/ at' = [at EXCEPT ![t] = "ensuring"]
          /\ UNCHANGED <<asked, agent, session>>
      BY <1>2, <2>2 DEF Begin, Go
    <3> QED BY <2>1, <3>1 DEF Typed, TypeOK, Equipped, Places
  <2>3. CASE record # None
    <3>1. Settle(t, record) /\ record \in Document
      BY <1>2, <2>3 DEF Begin, Typed, TypeOK
    <3>2. TypeOK'
      BY <2>1, <3>1, Settled DEF Typed, TypeOK
    <3>3. Equipped'
      BY <2>1, <3>1, Settled DEF Typed, Equipped
    <3> QED BY <3>2, <3>3 DEF Typed
  <2> QED BY <2>2, <2>3
<1>3. ASSUME NEW t \in Tasks, Post(t) PROVE Typed'
  <2>1. UNCHANGED <<keys, ends, closing, stored, straddled, served>> /\ overlap' \in BOOLEAN
    BY <1>3 DEF Post, Typed, TypeOK
  <2>2. CASE record = None
    <3>1. Finish(t)
      BY <1>3, <2>2 DEF Post
    <3>2. TypeOK'
      BY <2>1, <3>1, Finished DEF Typed, TypeOK
    <3>3. Equipped'
      BY <3>1, Finished DEF Typed, Equipped
    <3> QED BY <3>2, <3>3 DEF Typed
  <2>3. CASE record # None
    <3>1. /\ at' = [at EXCEPT ![t] = "asking"] /\ session' = [session EXCEPT ![t] = record]
          /\ agent' = [agent EXCEPT ![t] = record.agent]
          /\ UNCHANGED <<asked, buffer>>
      BY <1>3, <2>3 DEF Post, Go
    <3>2. record \in Document /\ record.agent \in Agents
      BY <2>3 DEF Typed, TypeOK, Document
    <3> QED BY <2>1, <3>1, <3>2 DEF Typed, TypeOK, Equipped, Places
  <2> QED BY <2>2, <2>3
<1>4. ASSUME NEW t \in Tasks, Route(t) PROVE Typed'
  BY <1>4 DEF Route, Go, Typed, TypeOK, Equipped, Places
<1>5. ASSUME NEW t \in Tasks, Ensure(t) PROVE Typed'
  <2>1. UNCHANGED <<keys, ends, closing, buffer, history>>
    BY <1>5 DEF Ensure
  <2>2. CASE record # None
    <3>1. Settle(t, record) /\ record \in Document
      BY <1>5, <2>2 DEF Ensure, Typed, TypeOK
    <3>2. TypeOK'
      BY <2>1, <3>1, Settled DEF Typed, TypeOK
    <3>3. Equipped'
      BY <2>1, <3>1, Settled DEF Typed, Equipped
    <3> QED BY <3>2, <3>3 DEF Typed
  <2>3. CASE record = None
    <3>1. PICK a \in Agents :
            /\ session' = [session EXCEPT ![t] = [agent |-> a, log |-> <<>>]]
            /\ at' = [at EXCEPT ![t] = "creating"]
            /\ UNCHANGED <<asked, agent>>
      BY <1>5, <2>3 DEF Ensure, Go
    <3> DEFINE new == [agent |-> a, log |-> <<>>]
    <3>2. new \in Document /\ new.log = <<>> /\ session' = [session EXCEPT ![t] = new]
      BY <3>1 DEF Document
    <3> HIDE DEF new
    <3> QED BY <2>1, <3>1, <3>2 DEF Typed, TypeOK, Equipped, Places
  <2> QED BY <2>2, <2>3
<1>6. ASSUME NEW t \in Tasks, Create(t) PROVE Typed'
  BY <1>6 DEF Create, Go, Typed, TypeOK, Equipped, Places
<1>7. ASSUME NEW t \in Tasks, Bind(t) PROVE Typed'
  <2>1. /\ UNCHANGED <<record, ends, closing, buffer, history>>
        /\ binding' = session[t].agent /\ session[t] \in Document /\ Settle(t, session[t])
    BY <1>7 DEF Bind, Typed, Equipped
  <2>2. binding' \in Agents
    BY <2>1 DEF Document
  <2>3. TypeOK'
    BY <2>1, <2>2, Settled DEF Typed, TypeOK
  <2>4. Equipped'
    BY <2>1, Settled DEF Typed, Equipped
  <2> QED BY <2>3, <2>4 DEF Typed
<1>8. ASSUME NEW t \in Tasks, Correct(t) PROVE Typed'
  BY <1>8 DEF Correct, Go, Typed, TypeOK, Equipped, Places
<1>9. ASSUME NEW t \in Tasks, GetForQuestion(t) PROVE Typed'
  BY <1>9, TypedRead DEF GetForQuestion, ReadFor
<1>10. ASSUME NEW t \in Tasks, SaveQuestion(t) PROVE Typed'
  <2>1. /\ buffer[t] \in Document /\ WriteEntry(t, Question(t))
        /\ at[t] = "ask" /\ at' = [at EXCEPT ![t] = "turn"]
        /\ buffer' = [buffer EXCEPT ![t] = None]
        /\ UNCHANGED <<binding, ends, closing, asked, agent, session, overlap, straddled, served>>
    BY <1>10 DEF SaveQuestion, Go, Typed, Equipped
  <2>2. record' \in Document /\ stored' \in Seq(Entries)
    BY <2>1, EntryOf, Written
  <2>3. TypeOK'
    BY <2>1, <2>2 DEF Typed, TypeOK, Places, Entries
  <2>4. Equipped'
    BY <2>1 DEF Typed, TypeOK, Equipped
  <2> QED BY <2>3, <2>4 DEF Typed
<1>11. ASSUME NEW t \in Tasks, EndTurn(t) PROVE Typed'
  <2>1. UNCHANGED <<keys, ends, closing, stored, overlap, straddled>>
    BY <1>11 DEF EndTurn
  <2>2. CASE at' = [at EXCEPT ![t] = "answering"] /\ served' = agent[t] /\ UNCHANGED locals
    BY <2>1, <2>2 DEF Typed, TypeOK, Equipped, Places
  <2>3. CASE Finish(t) /\ UNCHANGED served
    <3>1. TypeOK'
      BY <2>1, <2>3, Finished DEF Typed, TypeOK
    <3>2. Equipped'
      BY <2>3, Finished DEF Typed, Equipped
    <3> QED BY <3>1, <3>2 DEF Typed
  <2> QED BY <1>11, <2>2, <2>3 DEF EndTurn, Go
<1>12. ASSUME NEW t \in Tasks, GetForAnswer(t) PROVE Typed'
  BY <1>12, TypedRead DEF GetForAnswer, ReadFor
<1>13. ASSUME NEW t \in Tasks, SaveAnswer(t) PROVE Typed'
  <2>1. /\ buffer[t] \in Document /\ WriteEntry(t, Answer(t)) /\ Finish(t)
        /\ UNCHANGED <<binding, ends, closing, overlap, straddled, served>>
    BY <1>13 DEF SaveAnswer, Typed, Equipped
  <2>2. record' \in Document /\ stored' \in Seq(Entries)
    BY <2>1, EntryOf, Written
  <2>3. TypeOK'
    BY <2>1, <2>2, Finished DEF Typed, TypeOK, Entries
  <2>4. Equipped'
    BY <2>1, Finished DEF Typed, Equipped
  <2> QED BY <2>3, <2>4 DEF Typed
<1>14. CASE CloseDocument
  BY <1>14, StoreAssumption DEF CloseDocument, Vanish, End, Typed, TypeOK, Equipped
<1>15. CASE CloseBinding
  BY <1>15 DEF CloseBinding, Typed, TypeOK, Equipped
<1>16. CASE ExpireDocument
  BY <1>16, StoreAssumption DEF ExpireDocument, Vanish, End, Typed, TypeOK, Equipped
<1>17. CASE ExpireBinding
  BY <1>17, StoreAssumption DEF ExpireBinding, End, Typed, TypeOK, Equipped
<1>18. CASE UNCHANGED vars
  BY <1>18 DEF vars, Typed, TypeOK, Equipped
<1> QED
  BY <1>1, <1>2, <1>3, <1>4, <1>5, <1>6, <1>7, <1>8, <1>9, <1>10, <1>11, <1>12, <1>13, <1>14,
     <1>15, <1>16, <1>17, <1>18 DEF Next, Step


-----------------------------------------------------------------------------
LEMMA CurrentInit == Init => Current
<1> SUFFICES ASSUME Init PROVE Current
  OBVIOUS
<1>1. record # None => record.log = <<>>
  BY DEF Init
<1>2. Range(<<>>) = {}
  BY DEF Range
<1>3. record # None => Range(record.log) \subseteq Range(stored)
  BY <1>1, <1>2
<1> QED BY <1>3 DEF Init, Current

\* A task that settles takes over what the document holds, or nothing.
LEMMA CurrentSettle ==
    ASSUME Typed, Current, NEW t \in Tasks, NEW doc \in Document, Settle(t, doc),
           UNCHANGED <<record, buffer, stored, straddled>>,
           ~straddled => Range(doc.log) \subseteq Range(stored)
    PROVE  Current'
<1> SUFFICES ASSUME ~straddled' PROVE
        /\ record # None => Range(record.log) \subseteq Range(stored)
        /\ \A u \in Tasks :
              /\ at'[u] = "correcting" => Range(session'[u].log) \subseteq Range(stored)
              /\ at'[u] \in {"ask", "answer"} => Range(buffer[u].log) \subseteq Range(stored)
  BY DEF Current
<1>1. ~straddled
  OBVIOUS
<1>2. ASSUME NEW u \in Tasks, u # t
      PROVE  /\ at'[u] = "correcting" => Range(session'[u].log) \subseteq Range(stored)
             /\ at'[u] \in {"ask", "answer"} => Range(buffer[u].log) \subseteq Range(stored)
  BY <1>1, <1>2, Settled DEF Current
<1>3. /\ at'[t] = "correcting" => Range(session'[t].log) \subseteq Range(stored)
      /\ at'[t] \notin {"ask", "answer"}
  BY <1>1, Settled
<1> QED BY <1>1, <1>2, <1>3 DEF Current

LEMMA CurrentRead ==
    ASSUME Typed, Current, NEW t \in Tasks, NEW from, NEW to \in {"ask", "answer"},
           ReadFor(t, from, to)
    PROVE  Current'
<1>1. UNCHANGED <<record, stored, straddled>>
  BY DEF ReadFor, keys, history
<1>2. CASE record = None
  <2>1. Finish(t)
    BY <1>2 DEF ReadFor
  <2> QED BY <1>1, <2>1, Finished DEF Current
<1>3. CASE record # None
  <2>1. /\ at' = [at EXCEPT ![t] = to] /\ buffer' = [buffer EXCEPT ![t] = record]
        /\ session' = session
    BY <1>3 DEF ReadFor, Go
  <2>2. /\ at'[t] = to /\ buffer'[t] = record
        /\ \A u \in Tasks \ {t} : at'[u] = at[u] /\ buffer'[u] = buffer[u]
    BY <2>1 DEF Typed, TypeOK
  <2> QED BY <1>1, <1>3, <2>1, <2>2 DEF Current
<1> QED BY <1>2, <1>3

LEMMA CurrentWrite ==
    ASSUME Typed, Current, NEW t \in Tasks, NEW e \in Entries, buffer[t] \in Document,
           at[t] \in {"ask", "answer"}, WriteEntry(t, e), straddled' = straddled,
           at'[t] \notin {"correcting", "ask", "answer"},
           \A u \in Tasks \ {t} : /\ at'[u] = at[u] /\ session'[u] = session[u]
                                  /\ buffer'[u] = buffer[u]
    PROVE  Current'
<1> SUFFICES ASSUME ~straddled PROVE
        /\ Range(record'.log) \subseteq Range(stored')
        /\ \A u \in Tasks :
              /\ at'[u] = "correcting" => Range(session'[u].log) \subseteq Range(stored')
              /\ at'[u] \in {"ask", "answer"} => Range(buffer'[u].log) \subseteq Range(stored')
  BY DEF Current
<1>1. Range(record'.log) = Range(buffer[t].log) \cup {e} /\ Range(stored') = Range(stored) \cup {e}
  BY Written
<1>2. Range(buffer[t].log) \subseteq Range(stored)
  BY DEF Current
<1>3. ASSUME NEW u \in Tasks
      PROVE  /\ at'[u] = "correcting" => Range(session'[u].log) \subseteq Range(stored')
             /\ at'[u] \in {"ask", "answer"} => Range(buffer'[u].log) \subseteq Range(stored')
  BY <1>1 DEF Current
<1> QED BY <1>1, <1>2, <1>3

LEMMA CurrentStep == Typed /\ Current /\ [Next]_vars => Current'
<1> SUFFICES ASSUME Typed, Current, [Next]_vars PROVE Current'
  OBVIOUS
<1> USE DEF keys, locals, history
<1>1. ASSUME NEW t \in Tasks, Publish(t) PROVE Current'
  <2>1. /\ UNCHANGED <<record, stored, straddled, session, buffer>>
        /\ at' = [at EXCEPT ![t] = "queued"]
    BY <1>1 DEF Publish, Go
  <2> QED BY <2>1 DEF Typed, TypeOK, Current
<1>2. ASSUME NEW t \in Tasks, Begin(t) PROVE Current'
  <2>1. UNCHANGED <<record, buffer, stored, straddled>>
    BY <1>2 DEF Begin
  <2>2. CASE record = None
    <3>1. /\ session' = session
          /\ \/ at' = [at EXCEPT ![t] = "routing"] \/ at' = [at EXCEPT ![t] = "ensuring"]
      BY <1>2, <2>2 DEF Begin, Go
    <3> QED BY <2>1, <3>1 DEF Typed, TypeOK, Current
  <2>3. CASE record # None
    <3>1. Settle(t, record) /\ record \in Document
      BY <1>2, <2>3 DEF Begin, Typed, TypeOK
    <3> QED BY <2>1, <2>3, <3>1, CurrentSettle DEF Current
  <2> QED BY <2>2, <2>3
<1>3. ASSUME NEW t \in Tasks, Post(t) PROVE Current'
  <2>1. UNCHANGED <<record, stored, straddled>>
    BY <1>3 DEF Post
  <2>2. CASE record = None
    <3>1. Finish(t)
      BY <1>3, <2>2 DEF Post
    <3> QED BY <2>1, <3>1, Finished DEF Current
  <2>3. CASE record # None
    <3>1. /\ at' = [at EXCEPT ![t] = "asking"] /\ session' = [session EXCEPT ![t] = record]
          /\ buffer' = buffer
      BY <1>3, <2>3 DEF Post, Go
    <3>2. /\ at'[t] = "asking"
          /\ \A u \in Tasks \ {t} : at'[u] = at[u] /\ session'[u] = session[u]
      BY <3>1 DEF Typed, TypeOK
    <3> QED BY <2>1, <3>1, <3>2 DEF Current
  <2> QED BY <2>2, <2>3
<1>4. ASSUME NEW t \in Tasks, Route(t) PROVE Current'
  <2>1. /\ UNCHANGED <<record, stored, straddled, session, buffer>>
        /\ at' = [at EXCEPT ![t] = "ensuring"]
    BY <1>4 DEF Route, Go
  <2> QED BY <2>1 DEF Typed, TypeOK, Current
<1>5. ASSUME NEW t \in Tasks, Ensure(t) PROVE Current'
  <2>1. UNCHANGED <<record, buffer, stored, straddled>>
    BY <1>5 DEF Ensure
  <2>2. CASE record # None
    <3>1. Settle(t, record) /\ record \in Document
      BY <1>5, <2>2 DEF Ensure, Typed, TypeOK
    <3> QED BY <2>1, <2>2, <3>1, CurrentSettle DEF Current
  <2>3. CASE record = None
    <3>1. PICK a \in Agents :
            /\ session' = [session EXCEPT ![t] = [agent |-> a, log |-> <<>>]]
            /\ at' = [at EXCEPT ![t] = "creating"]
      BY <1>5, <2>3 DEF Ensure, Go
    <3>2. /\ at'[t] = "creating"
          /\ \A u \in Tasks \ {t} : at'[u] = at[u] /\ session'[u] = session[u]
      BY <3>1 DEF Typed, TypeOK
    <3> QED BY <2>1, <3>2 DEF Current
  <2> QED BY <2>2, <2>3
<1>6. ASSUME NEW t \in Tasks, Create(t) PROVE Current'
  <2>1. /\ UNCHANGED <<stored, straddled, session, buffer>> /\ record' = session[t]
        /\ at' = [at EXCEPT ![t] = "binding"] /\ session[t].log = <<>>
    BY <1>6 DEF Create, Go, Typed, Equipped
  <2>2. Range(record'.log) = {}
    BY <2>1 DEF Range
  <2> QED BY <2>1, <2>2 DEF Typed, TypeOK, Current
<1>7. ASSUME NEW t \in Tasks, Bind(t) PROVE Current'
  <2>1. /\ UNCHANGED <<record, buffer, stored, straddled>>
        /\ session[t] \in Document /\ session[t].log = <<>> /\ Settle(t, session[t])
    BY <1>7 DEF Bind, Typed, Equipped
  <2>2. Range(session[t].log) = {}
    BY <2>1 DEF Range
  <2> QED BY <2>1, <2>2, CurrentSettle
<1>8. ASSUME NEW t \in Tasks, Correct(t) PROVE Current'
  <2>1. /\ UNCHANGED <<stored, straddled, session, buffer>> /\ record' = session[t]
        /\ at' = [at EXCEPT ![t] = "asking"] /\ at[t] = "correcting"
    BY <1>8 DEF Correct, Go
  <2> QED BY <2>1 DEF Typed, TypeOK, Current
<1>9. ASSUME NEW t \in Tasks, GetForQuestion(t) PROVE Current'
  BY <1>9, CurrentRead DEF GetForQuestion
<1>10. ASSUME NEW t \in Tasks, SaveQuestion(t) PROVE Current'
  <2>1. /\ buffer[t] \in Document /\ WriteEntry(t, Question(t)) /\ straddled' = straddled
        /\ at[t] = "ask" /\ at' = [at EXCEPT ![t] = "turn"] /\ session' = session
        /\ buffer' = [buffer EXCEPT ![t] = None]
    BY <1>10 DEF SaveQuestion, Go, Typed, Equipped
  <2>2. /\ at'[t] = "turn"
        /\ \A u \in Tasks \ {t} : at'[u] = at[u] /\ buffer'[u] = buffer[u]
    BY <2>1 DEF Typed, TypeOK
  <2> QED BY <2>1, <2>2, EntryOf, CurrentWrite
<1>11. ASSUME NEW t \in Tasks, EndTurn(t) PROVE Current'
  <2>1. UNCHANGED <<record, stored, straddled>>
    BY <1>11 DEF EndTurn
  <2>2. CASE at' = [at EXCEPT ![t] = "answering"] /\ UNCHANGED locals
    BY <2>1, <2>2 DEF Typed, TypeOK, Current
  <2>3. CASE Finish(t)
    BY <2>1, <2>3, Finished DEF Current
  <2> QED BY <1>11, <2>2, <2>3 DEF EndTurn, Go
<1>12. ASSUME NEW t \in Tasks, GetForAnswer(t) PROVE Current'
  BY <1>12, CurrentRead DEF GetForAnswer
<1>13. ASSUME NEW t \in Tasks, SaveAnswer(t) PROVE Current'
  <2>1. /\ buffer[t] \in Document /\ WriteEntry(t, Answer(t)) /\ Finish(t)
        /\ straddled' = straddled /\ at[t] = "answer"
    BY <1>13 DEF SaveAnswer, Typed, Equipped
  <2> QED BY <2>1, EntryOf, Finished, CurrentWrite
<1>14. ASSUME Vanish, UNCHANGED <<at, locals>> PROVE Current'
  <2>1. /\ record' = None /\ stored' = <<>>
        /\ ~straddled' => \A u \in Tasks : at[u] \notin {"correcting", "ask", "answer"}
    BY <1>14 DEF Vanish, Writing
  <2> QED BY <1>14, <2>1 DEF Current
<1>15. CASE CloseDocument \/ ExpireDocument
  BY <1>14, <1>15 DEF CloseDocument, ExpireDocument
<1>16. CASE CloseBinding \/ ExpireBinding \/ UNCHANGED vars
  <2>1. UNCHANGED <<record, stored, straddled, at, session, buffer>>
    BY <1>16 DEF CloseBinding, ExpireBinding, vars
  <2> QED BY <2>1 DEF Current
<1> QED
  BY <1>1, <1>2, <1>3, <1>4, <1>5, <1>6, <1>7, <1>8, <1>9, <1>10, <1>11, <1>12, <1>13, <1>15,
     <1>16 DEF Next, Step


-----------------------------------------------------------------------------
LEMMA InTurnInit == Init => InTurn
BY DEF Init, InTurn, Alone, Active

\* A step of t that leaves overlap FALSE leaves every other task where it is,
\* and that is outside.
LEMMA OthersOut ==
    ASSUME InTurn, ~overlap, NEW t \in Tasks, at[t] \notin {"idle", "queued", "done"}
    PROVE  \A u \in Tasks \ {t} : at[u] \in {"idle", "queued", "done"}
BY DEF InTurn, Active

\* The shape of all such steps: t goes on or ends, and keeps the invariant.
LEMMA InTurnOf ==
    ASSUME NEW t \in Tasks,
           \A u \in Tasks \ {t} : at'[u] \in {"idle", "queued", "done"},
           IF record' = None THEN stored' = <<>> ELSE record'.log = stored',
           Alone(t)'
    PROVE  InTurn'
<1>1. \A u \in Tasks \ {t} : Alone(u)'
  BY DEF Alone
<1>2. \A u, v \in Active' : u = v
  BY DEF Active
<1> QED BY <1>1, <1>2 DEF InTurn

LEMMA InTurnSettle ==
    ASSUME Typed, InTurn, ~overlap, NEW t \in Tasks, NEW doc \in Document, Settle(t, doc),
           record # None, doc.log = record.log, UNCHANGED <<record, stored>>,
           \A u \in Tasks \ {t} : at[u] \in {"idle", "queued", "done"}
    PROVE  InTurn'
<1>1. \A u \in Tasks \ {t} : at'[u] \in {"idle", "queued", "done"}
  BY Settled
<1>2. Alone(t)'
  BY Settled DEF Alone
<1>3. record'.log = stored'
  BY DEF InTurn
<1> QED BY <1>1, <1>2, <1>3, InTurnOf

LEMMA InTurnFinish ==
    ASSUME Typed, InTurn, ~overlap, NEW t \in Tasks, Finish(t), UNCHANGED <<record, stored>>,
           \A u \in Tasks \ {t} : at[u] \in {"idle", "queued", "done"}
    PROVE  InTurn'
<1>1. \A u \in Tasks \ {t} : at'[u] \in {"idle", "queued", "done"}
  BY Finished
<1>2. Alone(t)'
  BY Finished DEF Alone
<1> QED BY <1>1, <1>2, InTurnOf DEF InTurn

LEMMA InTurnStep == Typed /\ InTurn /\ [Next]_vars => InTurn'
<1> SUFFICES ASSUME Typed, InTurn, [Next]_vars, ~overlap' PROVE InTurn'
  BY DEF InTurn
<1> USE DEF keys, locals, history
<1>0. ~overlap
  <2>1. CASE UNCHANGED overlap
    BY <2>1
  <2>2. CASE \E t \in Tasks : Begin(t) \/ Post(t)
    BY <2>2 DEF Begin, Post
  <2>3. CASE CloseDocument \/ ExpireDocument
    BY <2>3 DEF CloseDocument, ExpireDocument, Vanish
  <2> QED
    BY <2>1, <2>2, <2>3 DEF Next, Step, vars, Publish, Route, Ensure, Create, Bind, Correct,
       GetForQuestion, SaveQuestion, EndTurn, GetForAnswer, SaveAnswer, ReadFor, CloseBinding,
       ExpireBinding
<1>a. IF record = None THEN stored = <<>> ELSE record.log = stored
  BY <1>0 DEF InTurn
<1>1. ASSUME NEW t \in Tasks, Publish(t) PROVE InTurn'
  <2>1. /\ UNCHANGED <<record, stored, session, buffer>>
        /\ at' = [at EXCEPT ![t] = "queued"] /\ at[t] = "idle"
    BY <1>1 DEF Publish, Go
  <2>2. at'[t] = "queued" /\ \A u \in Tasks \ {t} : at'[u] = at[u]
    BY <2>1 DEF Typed, TypeOK
  <2>3. \A u \in Tasks : Alone(u)'
    BY <1>0, <2>1, <2>2 DEF InTurn, Alone
  <2>4. \A u, v \in Active' : u = v
    BY <1>0, <2>2 DEF InTurn, Active
  <2> QED BY <1>a, <2>1, <2>3, <2>4 DEF InTurn
<1>2. ASSUME NEW t \in Tasks, Begin(t) PROVE InTurn'
  <2>1. /\ UNCHANGED <<record, buffer, stored>>
        /\ \A u \in Tasks : at[u] \in {"idle", "queued", "done"}
    BY <1>2 DEF Begin, Active
  <2>2. CASE record = None
    <3>1. \/ at' = [at EXCEPT ![t] = "routing"] \/ at' = [at EXCEPT ![t] = "ensuring"]
      BY <1>2, <2>2 DEF Begin, Go
    <3>2. /\ \A u \in Tasks \ {t} : at'[u] \in {"idle", "queued", "done"}
          /\ at'[t] \in {"routing", "ensuring"}
      BY <2>1, <3>1 DEF Typed, TypeOK
    <3>3. Alone(t)'
      BY <2>1, <2>2, <3>2 DEF Alone
    <3> QED BY <1>a, <2>1, <3>2, <3>3, InTurnOf
  <2>3. CASE record # None
    <3>1. Settle(t, record) /\ record \in Document
      BY <1>2, <2>3 DEF Begin, Typed, TypeOK
    <3> QED BY <1>0, <2>1, <2>3, <3>1, InTurnSettle
  <2> QED BY <2>2, <2>3
<1>3. ASSUME NEW t \in Tasks, Post(t) PROVE InTurn'
  <2>1. /\ UNCHANGED <<record, stored>>
        /\ \A u \in Tasks : at[u] \in {"idle", "queued", "done"}
    BY <1>3 DEF Post, Active
  <2>2. CASE record = None
    <3>1. Finish(t)
      BY <1>3, <2>2 DEF Post
    <3> QED BY <1>0, <2>1, <3>1, InTurnFinish
  <2>3. CASE record # None
    <3>1. at' = [at EXCEPT ![t] = "asking"] /\ session' = [session EXCEPT ![t] = record]
      BY <1>3, <2>3 DEF Post, Go
    <3>2. /\ \A u \in Tasks \ {t} : at'[u] \in {"idle", "queued", "done"}
          /\ at'[t] = "asking" /\ session'[t] = record
      BY <2>1, <3>1 DEF Typed, TypeOK
    <3>3. Alone(t)'
      BY <2>1, <2>3, <3>2 DEF Alone
    <3> QED BY <1>a, <2>1, <3>2, <3>3, InTurnOf
  <2> QED BY <2>2, <2>3
<1>4. ASSUME NEW t \in Tasks, Route(t) PROVE InTurn'
  <2>1. /\ UNCHANGED <<record, stored>> /\ at[t] = "routing"
        /\ at' = [at EXCEPT ![t] = "ensuring"]
    BY <1>4 DEF Route, Go
  <2>2. \A u \in Tasks \ {t} : at'[u] \in {"idle", "queued", "done"}
    BY <1>0, <2>1, OthersOut DEF Typed, TypeOK
  <2>3. Alone(t)'
    BY <1>0, <2>1 DEF InTurn, Alone, Typed, TypeOK
  <2> QED BY <1>a, <2>1, <2>2, <2>3, InTurnOf
<1>5. ASSUME NEW t \in Tasks, Ensure(t) PROVE InTurn'
  <2>1. UNCHANGED <<record, stored>> /\ at[t] = "ensuring"
    BY <1>5 DEF Ensure
  <2>2. record = None
    BY <1>0, <2>1 DEF InTurn, Alone
  <2>3. at' = [at EXCEPT ![t] = "creating"]
    BY <1>5, <2>2 DEF Ensure, Go
  <2>4. \A u \in Tasks \ {t} : at'[u] \in {"idle", "queued", "done"}
    BY <1>0, <2>1, <2>3, OthersOut DEF Typed, TypeOK
  <2>5. Alone(t)'
    BY <2>1, <2>2, <2>3 DEF Alone, Typed, TypeOK
  <2> QED BY <1>a, <2>1, <2>4, <2>5, InTurnOf
<1>6. ASSUME NEW t \in Tasks, Create(t) PROVE InTurn'
  <2>1. /\ UNCHANGED <<stored, session>> /\ record' = session[t] /\ at[t] = "creating"
        /\ at' = [at EXCEPT ![t] = "binding"]
    BY <1>6 DEF Create, Go
  <2>2. session[t] \in Document /\ session[t].log = <<>>
    BY <2>1 DEF Typed, Equipped
  <2>3. stored = <<>>
    BY <1>0, <2>1 DEF InTurn, Alone
  <2>4. \A u \in Tasks \ {t} : at'[u] \in {"idle", "queued", "done"}
    BY <1>0, <2>1, OthersOut DEF Typed, TypeOK
  <2>5. record' # None
    BY <2>1, <2>2, StoreAssumption
  <2>6. Alone(t)'
    BY <2>1, <2>5 DEF Alone, Typed, TypeOK
  <2> QED BY <2>1, <2>2, <2>3, <2>4, <2>5, <2>6, InTurnOf
<1>7. ASSUME NEW t \in Tasks, Bind(t) PROVE InTurn'
  <2>1. /\ UNCHANGED <<record, stored>> /\ at[t] = "binding"
        /\ session[t] \in Document /\ Settle(t, session[t])
    BY <1>7 DEF Bind, Typed, Equipped
  <2>2. record # None /\ session[t].log = record.log
    BY <1>0, <2>1 DEF InTurn, Alone
  <2>3. \A u \in Tasks \ {t} : at[u] \in {"idle", "queued", "done"}
    BY <1>0, <2>1, OthersOut
  <2> QED BY <1>0, <2>1, <2>2, <2>3, InTurnSettle
<1>8. ASSUME NEW t \in Tasks, Correct(t) PROVE InTurn'
  <2>1. /\ UNCHANGED <<stored, session>> /\ record' = session[t] /\ at[t] = "correcting"
        /\ at' = [at EXCEPT ![t] = "asking"]
    BY <1>8 DEF Correct, Go
  <2>2. session[t] \in Document /\ session[t].log = stored
    BY <1>0, <2>1 DEF Typed, Equipped, InTurn, Alone
  <2>3. \A u \in Tasks \ {t} : at'[u] \in {"idle", "queued", "done"}
    BY <1>0, <2>1, OthersOut DEF Typed, TypeOK
  <2>4. record' # None
    BY <2>1, <2>2, StoreAssumption
  <2>5. Alone(t)'
    BY <2>1, <2>4 DEF Alone, Typed, TypeOK
  <2> QED BY <2>1, <2>2, <2>3, <2>4, <2>5, InTurnOf
<1>9. ASSUME NEW t \in Tasks, GetForQuestion(t) PROVE InTurn'
  <2>1. /\ UNCHANGED <<record, stored>> /\ at[t] = "asking"
        /\ record # None /\ session[t].log = record.log
    BY <1>0, <1>9 DEF GetForQuestion, ReadFor, InTurn, Alone
  <2>2. /\ at' = [at EXCEPT ![t] = "ask"] /\ buffer' = [buffer EXCEPT ![t] = record]
        /\ session' = session
    BY <1>9, <2>1 DEF GetForQuestion, ReadFor, Go
  <2>3. \A u \in Tasks \ {t} : at'[u] \in {"idle", "queued", "done"}
    BY <1>0, <2>1, <2>2, OthersOut DEF Typed, TypeOK
  <2>4. Alone(t)'
    BY <2>1, <2>2 DEF Alone, Typed, TypeOK
  <2> QED BY <1>a, <2>1, <2>3, <2>4, InTurnOf
<1>10. ASSUME NEW t \in Tasks, SaveQuestion(t) PROVE InTurn'
  <2>1. /\ buffer[t] \in Document /\ WriteEntry(t, Question(t)) /\ session' = session
        /\ at[t] = "ask" /\ at' = [at EXCEPT ![t] = "turn"]
    BY <1>10 DEF SaveQuestion, Go, Typed, Equipped
  <2>2. buffer[t].log = stored /\ session[t].log = stored
    BY <1>0, <2>1 DEF InTurn, Alone
  <2>3. /\ record' # None /\ record'.log = Append(stored, Question(t))
        /\ stored' = Append(stored, Question(t))
    BY <2>1, <2>2, EntryOf, Written
  <2>4. \A u \in Tasks \ {t} : at'[u] \in {"idle", "queued", "done"}
    BY <1>0, <2>1, OthersOut DEF Typed, TypeOK
  <2>5. Alone(t)'
    BY <2>1, <2>2, <2>3 DEF Alone, Question, Typed, TypeOK
  <2> QED BY <2>3, <2>4, <2>5, InTurnOf
<1>11. ASSUME NEW t \in Tasks, EndTurn(t) PROVE InTurn'
  <2>1. UNCHANGED <<record, stored>> /\ at[t] = "turn" /\ record # None
    BY <1>0, <1>11 DEF EndTurn, InTurn, Alone
  <2>2. \A u \in Tasks \ {t} : at[u] \in {"idle", "queued", "done"}
    BY <1>0, <2>1, OthersOut
  <2>3. CASE at' = [at EXCEPT ![t] = "answering"]
    <3>1. /\ \A u \in Tasks \ {t} : at'[u] \in {"idle", "queued", "done"}
          /\ at'[t] = "answering"
      BY <2>2, <2>3 DEF Typed, TypeOK
    <3>2. Alone(t)'
      BY <2>1, <3>1 DEF Alone
    <3> QED BY <1>a, <2>1, <3>1, <3>2, InTurnOf
  <2>4. CASE Finish(t)
    BY <1>0, <2>1, <2>2, <2>4, InTurnFinish
  <2> QED BY <1>11, <2>3, <2>4 DEF EndTurn, Go
<1>12. ASSUME NEW t \in Tasks, GetForAnswer(t) PROVE InTurn'
  <2>1. UNCHANGED <<record, stored>> /\ at[t] = "answering" /\ record # None
    BY <1>0, <1>12 DEF GetForAnswer, ReadFor, InTurn, Alone
  <2>2. at' = [at EXCEPT ![t] = "answer"] /\ buffer' = [buffer EXCEPT ![t] = record]
    BY <1>12, <2>1 DEF GetForAnswer, ReadFor, Go
  <2>3. \A u \in Tasks \ {t} : at'[u] \in {"idle", "queued", "done"}
    BY <1>0, <2>1, <2>2, OthersOut DEF Typed, TypeOK
  <2>4. Alone(t)'
    BY <2>1, <2>2 DEF Alone, Typed, TypeOK
  <2> QED BY <1>a, <2>1, <2>3, <2>4, InTurnOf
<1>13. ASSUME NEW t \in Tasks, SaveAnswer(t) PROVE InTurn'
  <2>1. /\ buffer[t] \in Document /\ WriteEntry(t, Answer(t)) /\ Finish(t) /\ at[t] = "answer"
    BY <1>13 DEF SaveAnswer, Typed, Equipped
  <2>2. buffer[t].log = stored
    BY <1>0, <2>1 DEF InTurn, Alone
  <2>3. /\ record' # None /\ record'.log = Append(stored, Answer(t))
        /\ stored' = Append(stored, Answer(t))
    BY <2>1, <2>2, EntryOf, Written
  <2>4. \A u \in Tasks \ {t} : at'[u] \in {"idle", "queued", "done"}
    BY <1>0, <2>1, OthersOut, Finished
  <2>5. Alone(t)'
    BY <2>1, Finished DEF Alone
  <2> QED BY <2>3, <2>4, <2>5, InTurnOf
<1>14. CASE CloseDocument \/ ExpireDocument
  <2>1. /\ record' = None /\ stored' = <<>> /\ at' = at
        /\ \A u \in Tasks : at[u] \in {"idle", "queued", "done"}
    BY <1>14 DEF CloseDocument, ExpireDocument, Vanish, Active
  <2> QED BY <2>1 DEF InTurn, Alone, Active
<1>15. CASE CloseBinding \/ ExpireBinding \/ UNCHANGED vars
  <2>1. UNCHANGED <<record, stored, at, session, buffer, overlap>>
    BY <1>15 DEF CloseBinding, ExpireBinding, vars
  <2> QED BY <2>1 DEF InTurn, Alone, Active
<1> QED
  BY <1>1, <1>2, <1>3, <1>4, <1>5, <1>6, <1>7, <1>8, <1>9, <1>10, <1>11, <1>12, <1>13, <1>14,
     <1>15 DEF Next, Step

-----------------------------------------------------------------------------
\* The inductive invariant: a task has the objects it works on, they are no
\* older than the document, and a task that is alone has the current ones.
THEOREM Invariance == Spec => []IInv
<1>1. Init => IInv
  BY TypedInit, CurrentInit, InTurnInit DEF IInv
<1>2. IInv /\ [Next]_vars => IInv'
  BY TypedStep, CurrentStep, InTurnStep DEF IInv
<1> QED BY <1>1, <1>2, PTL DEF Spec

\* Type correctness of the keys and of the objects of SessionManager's callers.
THEOREM TypeCorrect == Spec => []TypeOK
<1>1. IInv => TypeOK
  BY DEF IInv, Typed
<1> QED BY <1>1, Invariance, PTL

\* add_message loses nothing as long as one task at a time uses the session.
THEOREM Lossless == Spec => []NothingLost
<1>1. IInv => NothingLost
  BY DEF IInv, InTurn, NothingLost
<1> QED BY <1>1, Invariance, PTL

\* What process_message hands to the runtime is the stored conversation.
THEOREM Heard == Spec => []HearsAll
<1>1. IInv => HearsAll
  BY DEF IInv, InTurn, Alone, HearsAll
<1> QED BY <1>1, Invariance, PTL

\* Entries of a closed or expired session stay gone, whatever tasks overlap.
THEOREM StaysGone == Spec => []NothingReturns
<1>1. IInv => NothingReturns
  BY DEF IInv, Current, NothingReturns
<1> QED BY <1>1, Invariance, PTL
=============================================================================

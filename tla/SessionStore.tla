---------------------------- MODULE SessionStore ----------------------------
(***************************************************************************)
(* One chat session in Redis: the JSON document session:{id} and the key   *)
(* session:{id}:agent_binding.  The document is read and written as a      *)
(* whole.  It has two kinds of writers, turns of the inbound worker and    *)
(* POST /sessions/{id}/messages, and every Redis call is an await.         *)
(* Sessions share nothing, so one is enough.                               *)
(***************************************************************************)
EXTENDS Naturals, Sequences, Functions

CONSTANTS
    Turns,      \* messages that come through the stream, a turn each
    Requests,   \* messages that are posted to the API, a turn each
    Procs,      \* processes of Agent Core
    Home,       \* the process that reads a message of the stream
    Agents,
    MaxEnds,    \* bound on closes and expiries
    None

Tasks == Turns \cup Requests
Document == [agent : Agents, log : Seq(Tasks \X {"user", "assistant"})]

ASSUME StoreAssumption ==
    /\ Turns \cap Requests = {}
    /\ Home \in [Turns -> Procs]
    /\ None \notin Agents
    /\ None \notin Document
    /\ MaxEnds \in Nat

Question(t) == <<t, "user">>
Answer(t) == <<t, "assistant">>
Places == {"idle", "queued", "routing", "ensuring", "creating", "binding", "correcting",
           "asking", "ask", "turn", "answering", "answer", "done"}

VARIABLES
    record,     \* session:{id}, or None
    binding,    \* session:{id}:agent_binding, or None
    ends,       \* closes and expiries so far
    closing,    \* a DELETE has removed the document and not yet the binding
    at,         \* at[t]: the await task t is at
    asked,      \* asked[t]: the agent_id of the message, while it matters
    agent,      \* agent[t]: the agent that serves task t
    session,    \* session[t]: the Session object the turn keeps
    buffer,     \* buffer[t]: the Session object inside add_message
    stored,     \* history: entries written since the document last came into being
    overlap,    \* history: another task, a close or an expiry came into a task
    straddled,  \* history: a close or an expiry came between a read and its write
    served      \* history: the agent that answered last, or None

keys == <<record, binding>>
locals == <<asked, agent, session, buffer>>
history == <<stored, overlap, straddled, served>>
vars == <<keys, ends, closing, at, locals, history>>

TypeOK ==
    /\ record \in Document \cup {None}
    /\ binding \in Agents \cup {None}
    /\ ends \in 0 .. MaxEnds
    /\ closing \in BOOLEAN
    /\ at \in [Tasks -> Places]
    /\ asked \in [Tasks -> Agents \cup {None}]
    /\ agent \in [Tasks -> Agents \cup {None}]
    /\ session \in [Tasks -> Document \cup {None}]
    /\ buffer \in [Tasks -> Document \cup {None}]
    /\ stored \in Seq(Tasks \X {"user", "assistant"})
    /\ overlap \in BOOLEAN
    /\ straddled \in BOOLEAN
    /\ served \in Agents \cup {None}

\* The session does not exist yet, or was made by POST /sessions.
Init ==
    /\ \/ record = None /\ binding = None
       \/ \E a \in Agents : record = [agent |-> a, log |-> <<>>] /\ binding = a
    /\ ends = 0
    /\ closing = FALSE
    /\ at = [t \in Tasks |-> "idle"]
    /\ asked = [t \in Tasks |-> None]
    /\ agent = [t \in Tasks |-> None]
    /\ session = [t \in Tasks |-> None]
    /\ buffer = [t \in Tasks |-> None]
    /\ stored = <<>>
    /\ overlap = FALSE
    /\ straddled = FALSE
    /\ served = None

-----------------------------------------------------------------------------
Active == {t \in Tasks : at[t] \notin {"idle", "queued", "done"}}
Writing == {t \in Tasks : at[t] \in {"correcting", "ask", "answer"}}

Go(t, place) == at' = [at EXCEPT ![t] = place]

\* The task ends, and its objects with it.
Finish(t) ==
    /\ Go(t, "done")
    /\ asked' = [asked EXCEPT ![t] = None]
    /\ agent' = [agent EXCEPT ![t] = None]
    /\ session' = [session EXCEPT ![t] = None]
    /\ buffer' = [buffer EXCEPT ![t] = None]

\* The session lock of a worker keeps the turns of a process apart.
Unlocked(t) == t \in Turns => \A u \in Turns \cap Active : Home[u] # Home[t]

\* The Gateway writes a message to the stream of the bound agent, if any.
Publish(t) ==
    /\ t \in Turns
    /\ at[t] = "idle"
    /\ asked' = [asked EXCEPT ![t] = binding]
    /\ Go(t, "queued")
    /\ UNCHANGED <<keys, ends, closing, agent, session, buffer, history>>

\* The turn has its session doc.  The agent of the message or else of the session
\* serves it, or a running one in its place, and then the object is saved.  Which
\* agents run is up to AgentManager.
Settle(t, doc) ==
    LET wanted == IF asked[t] = None THEN doc.agent ELSE asked[t]
    IN  /\ asked' = [asked EXCEPT ![t] = None]
        /\ \E a \in Agents :
              /\ agent' = [agent EXCEPT ![t] = a]
              /\ session' = [session EXCEPT ![t] = [doc EXCEPT !.agent = IF a = wanted THEN @ ELSE a]]
              /\ Go(t, IF a = wanted THEN "asking" ELSE "correcting")

\* A worker turn begins with get_session; without a session it looks for an
\* agent, which takes the router if the message names none.
Begin(t) ==
    /\ at[t] = "queued"
    /\ Unlocked(t)
    /\ overlap' = (overlap \/ Active # {})
    /\ IF record = None
       THEN /\ Go(t, IF asked[t] = None THEN "routing" ELSE "ensuring")
            /\ UNCHANGED <<asked, agent, session>>
       ELSE Settle(t, record)
    /\ UNCHANGED <<keys, ends, closing, buffer, stored, straddled, served>>

\* A request begins with get_session and ends if there is none.
Post(t) ==
    /\ t \in Requests
    /\ at[t] = "idle"
    /\ overlap' = (overlap \/ Active # {})
    /\ IF record = None
       THEN Finish(t)
       ELSE /\ agent' = [agent EXCEPT ![t] = record.agent]
            /\ session' = [session EXCEPT ![t] = record]
            /\ Go(t, "asking")
            /\ UNCHANGED <<asked, buffer>>
    /\ UNCHANGED <<keys, ends, closing, stored, straddled, served>>

\* AgentRouter.route: any agent may come out, and the session is bound to it
\* unless the strategy was the fallback.
Route(t) ==
    /\ at[t] = "routing"
    /\ binding' \in Agents \cup {binding}
    /\ Go(t, "ensuring")
    /\ UNCHANGED <<record, ends, closing, locals, history>>

\* ensure_session looks again.  The session is made for the agent asked for or
\* routed to if that runs, else for another.
Ensure(t) ==
    /\ at[t] = "ensuring"
    /\ IF record # None
       THEN Settle(t, record)
       ELSE \E a \in Agents :
               /\ session' = [session EXCEPT ![t] = [agent |-> a, log |-> <<>>]]
               /\ Go(t, "creating")
               /\ UNCHANGED <<asked, agent>>
    /\ UNCHANGED <<keys, ends, closing, buffer, history>>

Create(t) ==
    /\ at[t] = "creating"
    /\ record' = session[t]
    /\ Go(t, "binding")
    /\ UNCHANGED <<binding, ends, closing, locals, history>>

Bind(t) ==
    /\ at[t] = "binding"
    /\ binding' = session[t].agent
    /\ Settle(t, session[t])
    /\ UNCHANGED <<record, ends, closing, buffer, history>>

\* The whole object is saved, with the messages it was read with.
Correct(t) ==
    /\ at[t] = "correcting"
    /\ record' = session[t]
    /\ Go(t, "asking")
    /\ UNCHANGED <<binding, ends, closing, locals, history>>

\* add_message reads the document first; without one it fails, and the task ends.
ReadFor(t, from, to) ==
    /\ at[t] = from
    /\ IF record = None
       THEN Finish(t)
       ELSE /\ Go(t, to)
            /\ buffer' = [buffer EXCEPT ![t] = record]
            /\ UNCHANGED <<asked, agent, session>>
    /\ UNCHANGED <<keys, ends, closing, history>>

\* add_message writes back what it read, with the entry appended.
WriteEntry(t, entry) ==
    /\ record' = [buffer[t] EXCEPT !.log = Append(@, entry)]
    /\ stored' = Append(stored, entry)

GetForQuestion(t) == ReadFor(t, "asking", "ask")
\* Mutant: the answer goes to the object the turn has kept, and save_session
\* does not look whether there still is a session.
GetForAnswerFromTurn(t) ==
    /\ at[t] = "answering"
    /\ buffer' = [buffer EXCEPT ![t] = [session[t] EXCEPT !.log = Append(@, Question(t))]]
    /\ Go(t, "answer")
    /\ UNCHANGED <<keys, ends, closing, asked, agent, session, history>>

GetForAnswer(t) == ReadFor(t, "answering", "answer")

\* Mutant: the turn is given the session as it is after the question was stored.
SaveQuestionAndReload(t) ==
    /\ at[t] = "ask"
    /\ WriteEntry(t, Question(t))
    /\ session' = [session EXCEPT ![t] = record']
    /\ buffer' = [buffer EXCEPT ![t] = None]
    /\ Go(t, "turn")
    /\ UNCHANGED <<binding, ends, closing, asked, agent, overlap, straddled, served>>

SaveQuestion(t) ==
    /\ at[t] = "ask"
    /\ WriteEntry(t, Question(t))
    /\ buffer' = [buffer EXCEPT ![t] = None]
    /\ Go(t, "turn")
    /\ UNCHANGED <<binding, ends, closing, asked, agent, session, overlap, straddled, served>>

\* The turn ends with an answer to store, or with none (failure, blank text).
EndTurn(t) ==
    /\ at[t] = "turn"
    /\ \/ Go(t, "answering") /\ served' = agent[t] /\ UNCHANGED locals
       \/ Finish(t) /\ UNCHANGED served
    /\ UNCHANGED <<keys, ends, closing, stored, overlap, straddled>>

\* Mutant: the answer is appended to the object the turn has kept.
SaveAnswerFromTurn(t) ==
    /\ at[t] = "answer"
    /\ record' = [session[t] EXCEPT !.log = Append(@, Answer(t))]
    /\ stored' = Append(stored, Answer(t))
    /\ Finish(t)
    /\ UNCHANGED <<binding, ends, closing, overlap, straddled, served>>

SaveAnswer(t) ==
    /\ at[t] = "answer"
    /\ WriteEntry(t, Answer(t))
    /\ Finish(t)
    /\ UNCHANGED <<binding, ends, closing, overlap, straddled, served>>

-----------------------------------------------------------------------------
End ==
    /\ ends < MaxEnds
    /\ ends' = ends + 1

\* The document is gone: what was stored before is of a finished session.
Vanish ==
    /\ record' = None
    /\ stored' = <<>>
    /\ served' = None
    /\ overlap' = (overlap \/ Active # {})
    /\ straddled' = (straddled \/ Writing # {})

\* DELETE /sessions/{id}: one key, then the other.
CloseDocument ==
    /\ ~closing
    /\ End
    /\ closing' = TRUE
    /\ Vanish
    /\ UNCHANGED <<binding, at, locals>>

CloseBinding ==
    /\ closing
    /\ closing' = FALSE
    /\ binding' = None
    /\ UNCHANGED <<record, ends, at, locals, history>>

\* Every write renews the 24 hours of the document, and no turn takes as long.
ExpireDocument ==
    /\ record # None
    /\ End
    /\ \A t \in Tasks : at[t] \notin {"turn", "answering", "answer"}
    /\ Vanish
    /\ UNCHANGED <<binding, closing, at, locals>>

\* Messages do not renew the binding.
ExpireBinding ==
    /\ binding # None
    /\ End
    /\ binding' = None
    /\ UNCHANGED <<record, closing, at, locals, history>>

Step(t) ==
    \/ Publish(t) \/ Begin(t) \/ Post(t) \/ Route(t) \/ Ensure(t) \/ Create(t) \/ Bind(t)
    \/ Correct(t) \/ GetForQuestion(t) \/ SaveQuestion(t) \/ EndTurn(t)
    \/ GetForAnswer(t) \/ SaveAnswer(t)

Next ==
    \/ \E t \in Tasks : Step(t)
    \/ CloseDocument \/ CloseBinding \/ ExpireDocument \/ ExpireBinding

Spec == Init /\ [][Next]_vars

-----------------------------------------------------------------------------
\* Nothing is lost: while tasks come one after the other, the document holds
\* every question and answer stored since it came into being, in that order,
\* although a turn writes it up to four times from three different copies.
NothingLost ==
    ~overlap => IF record = None THEN stored = <<>> ELSE record.log = stored

\* The agent hears it all: while tasks come one after the other, the messages
\* process_message gives to the runtime, those of the object read first and the
\* question, are exactly the stored conversation.
HearsAll ==
    ~overlap => \A t \in Tasks :
        at[t] = "turn" => /\ record # None
                          /\ Append(session[t].log, Question(t)) = record.log

\* A closed session does not come back: whatever overlaps, an entry written
\* before a DELETE or an expiry is not in the document afterwards, unless that
\* fell between the read and the write of one call.
NothingReturns ==
    ~straddled /\ record # None => Range(record.log) \subseteq Range(stored)

\* Session affinity as the requirements state it (ai-platform-prd.md:387): a
\* message is routed to the agent that served the session last.
RoutedToLastServed ==
    [][\A t \in Turns :
          at[t] = "idle" /\ at'[t] = "queued" /\ asked'[t] # None /\ served # None
              => asked'[t] = served]_vars

=============================================================================

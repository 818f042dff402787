----------------------------- MODULE AgentRouter -----------------------------
(***************************************************************************)
(* The chain of strategies by which an Agent Core process routes the       *)
(* messages of one session: requests that overlap, the candidates that     *)
(* configuration changes give and take between their awaits, and the       *)
(* binding of the session in Redis, which expires and may be unreachable.  *)
(***************************************************************************)
EXTENDS Integers, Sequences, SequencesExt

CONSTANTS RouteRequests, \* requests that overlap: messages, POST /sessions/route
          AgentIds,
          DefaultAgent,  \* AGENT_ROUTER_DEFAULT_AGENT
          Priority,      \* routing.priority
          Texts,         \* [mentions: agents with a keyword in it, long: 2 characters or more]
          NoAgent

ASSUME RouterAssumption ==
    /\ DefaultAgent \in AgentIds /\ NoAgent \notin AgentIds
    /\ Priority \in [AgentIds -> Int]
    /\ Texts \subseteq [mentions : SUBSET AgentIds, long : BOOLEAN]

VARIABLES
    list,     \* AgentRouter._candidates
    binding,  \* session:{id}:agent_binding
    route,    \* what each request has come to
    offered,  \* history: agents enabled at some moment of a request
    steady    \* history: the agent bound and enabled ever since a request began

routerVars == <<list, binding, route, offered, steady>>

NoRoute == [pc |-> "idle", text |-> [mentions |-> {}, long |-> FALSE], enabled |-> {},
            agent |-> NoAgent, strategy |-> "none"]

Enabled(cs) == {c.agent : c \in {d \in ToSet(cs) : d.enabled}}

RouterInit ==
    /\ list = <<>> /\ binding = NoAgent
    /\ route = [r \in RouteRequests |-> NoRoute]
    /\ offered = [r \in RouteRequests |-> {}]
    /\ steady = [r \in RouteRequests |-> NoAgent]

-----------------------------------------------------------------------------
\* The histories after a step that leaves these candidates and this binding.
Witness(cs, b) ==
    /\ offered' = [r \in RouteRequests |->
           IF route[r].pc = "idle" THEN {} ELSE offered[r] \union Enabled(cs)]
    /\ steady' = [r \in RouteRequests |->
           IF steady[r] = b /\ b \in Enabled(cs) THEN b ELSE NoAgent]

\* remove_candidate, and add_candidate, which moves an agent to the end: it is in the
\* list once at most.
Without(a) ==
    IF \E i \in DOMAIN list : list[i].agent = a
    THEN RemoveAt(list, CHOOSE i \in DOMAIN list : list[i].agent = a)
    ELSE list

UpdateCandidates(a) ==
    /\ \/ list' = Without(a)
       \/ \E on \in BOOLEAN : list' = Append(Without(a), [agent |-> a, enabled |-> on])
    /\ Witness(list', binding)
    /\ UNCHANGED <<binding, route>>

\* The binding lives 24 hours; closing the session removes it.
LoseBinding ==
    /\ binding # NoAgent /\ binding' = NoAgent
    /\ Witness(list, NoAgent)
    /\ UNCHANGED <<list, route>>

-----------------------------------------------------------------------------
Goto(r, pc, enabled) == route' = [route EXCEPT ![r].pc = pc, ![r].enabled = enabled]

\* The strategy that matched: what it found is bound, with a confidence above 0 only.
Matched(r, a, strategy) ==
    route' = [route EXCEPT ![r] = [NoRoute EXCEPT
        !.pc = IF strategy = "default_fallback" THEN "log" ELSE "bind",
        !.agent = a, !.strategy = strategy]]

\* route(): it waits for the binding first.
BeginRoute(r, text) ==
    /\ route[r].pc = "idle"
    /\ route' = [route EXCEPT ![r].pc = "begin", ![r].text = text]
    /\ offered' = [offered EXCEPT ![r] = Enabled(list)]
    /\ steady' = [steady EXCEPT ![r] = IF binding \in Enabled(list) THEN binding ELSE NoAgent]
    /\ UNCHANGED <<list, binding>>

\* Only the session's context gets it; SessionAffinityStrategy reads it again, for the
\* candidates of this moment.
GotContext(r) ==
    /\ route[r].pc = "begin"
    /\ Goto(r, "affinity", Enabled(list))
    /\ UNCHANGED <<list, binding, offered, steady>>

\* KeywordMatchStrategy: the candidates that match, by their places in the list; the
\* first of the highest priority is taken.
KeywordMatches(text) == {i \in DOMAIN list : list[i].enabled /\ list[i].agent \in text.mentions}

BestOf(places) ==
    list[CHOOSE i \in places : \A j \in places :
        \/ Priority[list[i].agent] > Priority[list[j].agent]
        \/ Priority[list[i].agent] = Priority[list[j].agent] /\ i <= j].agent

\* The rest of the chain up to its next await: the candidates are those of now.
NextStrategies(r) ==
    LET text == route[r].text
        matches == KeywordMatches(text) IN
    IF matches # {} THEN Matched(r, BestOf(matches), "keyword_matching")
    ELSE IF text.long THEN Goto(r, "semantic", Enabled(list))
    ELSE Matched(r, DefaultAgent, "default_fallback")

\* Mutant: the binding is followed wherever it leads.
AnyBound(r) == binding # NoAgent

\* Mutant: what the text mentions goes before the binding.
KeywordsFirst(r) == binding \in route[r].enabled /\ KeywordMatches(route[r].text) = {}

Bound(r) == binding \in route[r].enabled

AffinityAnswers(r) ==
    /\ route[r].pc = "affinity"
    /\ IF Bound(r) THEN Matched(r, binding, "session_affinity") ELSE NextStrategies(r)
    /\ UNCHANGED <<list, binding, offered, steady>>

\* Redis fails: an error of the strategy is logged, the chain goes on.
AffinityFails(r) ==
    /\ route[r].pc = "affinity"
    /\ NextStrategies(r)
    /\ steady' = [steady EXCEPT ![r] = NoAgent]
    /\ UNCHANGED <<list, binding, offered>>

\* SemanticSearchStrategy: the agent of the highest score; NoAgent when the search fails,
\* finds nothing or stays below the threshold.
SemanticAnswers(r, top) ==
    /\ route[r].pc = "semantic"
    /\ IF top \in route[r].enabled THEN Matched(r, top, "semantic_retrieval")
       ELSE Matched(r, DefaultAgent, "default_fallback")
    /\ UNCHANGED <<list, binding, offered, steady>>

Bind(r) ==
    /\ route[r].pc = "bind"
    /\ binding' = route[r].agent
    /\ route' = [route EXCEPT ![r].pc = "log"]
    /\ Witness(list, binding')
    /\ UNCHANGED list

\* A request ends.  The worker that routes a message whose session is not there makes it:
\* ensure_session binds it to the agent if it runs, and to another one if not.
EndRoute(r) ==
    /\ binding' \in {binding} \union AgentIds
    /\ route' = [route EXCEPT ![r] = NoRoute]
    /\ offered' = [offered EXCEPT ![r] = {}]
    /\ steady' = [q \in RouteRequests |-> IF q # r /\ steady[q] = binding' THEN binding' ELSE NoAgent]
    /\ UNCHANGED list

\* log_route, whose errors are only logged.
LogRoute(r) == route[r].pc = "log" /\ EndRoute(r)

\* Neither the first read nor the binding is guarded against Redis: route() raises.
RouteRaises(r) == route[r].pc \in {"begin", "bind"} /\ EndRoute(r)

RouterNext ==
    \/ \E a \in AgentIds : UpdateCandidates(a)
    \/ LoseBinding
    \/ \E r \in RouteRequests : \/ \E text \in Texts : BeginRoute(r, text)
                           \/ GotContext(r) \/ AffinityAnswers(r) \/ AffinityFails(r)
                           \/ \E top \in AgentIds \union {NoAgent} : SemanticAnswers(r, top)
                           \/ Bind(r) \/ LogRoute(r) \/ RouteRaises(r)

RouterSpec == RouterInit /\ [][RouterNext]_routerVars

-----------------------------------------------------------------------------
RouterTypeOK ==
    /\ list \in Seq([agent : AgentIds, enabled : BOOLEAN])
    /\ binding \in AgentIds \union {NoAgent}
    /\ route \in [RouteRequests ->
          [pc : {"idle", "begin", "affinity", "semantic", "bind", "log"},
           text : [mentions : SUBSET AgentIds, long : BOOLEAN], enabled : SUBSET AgentIds,
           agent : AgentIds \union {NoAgent},
           strategy : {"none", "session_affinity", "keyword_matching", "semantic_retrieval",
                       "default_fallback"}]]
    /\ offered \in [RouteRequests -> SUBSET AgentIds]
    /\ steady \in [RouteRequests -> AgentIds \union {NoAgent}]

\* An agent that was enabled at no moment of a request is not given it, unless as the
\* default: neither a binding nor the index of the search, which know nothing of the
\* configuration, bring it back.
RoutedToCandidates ==
    \A r \in RouteRequests :
        route[r].strategy \notin {"none", "default_fallback"} => route[r].agent \in offered[r]

\* "Ensures the continuity of the conversation": as long as a session stays bound to an
\* agent that stays enabled, no request of it goes elsewhere, whatever its text mentions
\* and whatever other requests are under way (unless Redis does not answer).
ContinuityKept ==
    \A r \in RouteRequests :
        route[r].agent # NoAgent /\ steady[r] # NoAgent => route[r].agent = steady[r]
=============================================================================

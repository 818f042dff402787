---------------------------- MODULE AgentManager ----------------------------
(***************************************************************************)
(* The agents of one Agent Core process: the table _instances, the         *)
(* lifecycle of an instance and the requests that share both               *)
(* (agent/manager.py, agent/lifecycle.py, the routes of api/routes/agent.py *)
(* and api/routes/session.py, and the choice of an agent in                *)
(* queue/inbound_worker.py).                                               *)
(*                                                                         *)
(* A request is a task.  Only an await that really waits separates two     *)
(* actions: wiring the MCP connections of a new runtime, closing those of  *)
(* an old one, storing the user's message, and the turn itself.  With      *)
(* CONFIG_MODE = "file_system", the default, configurations are read and   *)
(* written without waiting.                                                *)
(***************************************************************************)
EXTENDS Integers, FiniteSets

CONSTANTS
    Agents,       \* agent ids
    Tasks,        \* requests under way at once
    MaxInstances, \* bound: instances made of one agent
    None

ASSUME ManagerAssumption ==
    /\ MaxInstances \in Nat
    /\ None \notin Agents
    /\ IsFiniteSet(Tasks)

Instances == 1 .. MaxInstances

VARIABLES
    table,  \* table[a]: the instance of a that _instances holds, 0 if none
    made,   \* made[a]: how many instances of a have been created
    state,  \* state[a][i]: InstanceState of the lifecycle
    active, \* active[a][i]: active_sessions
    config, \* agents the ConfigManager has a configuration of
    task    \* task[t]: where it is, and the agent and instance it works on

vars == <<table, made, state, active, config, task>>

Waits == {"idle", "asked", "turn", "provisioning", "creating", "deleting", "switching", "refused"}

Task == [at : Waits, agent : Agents \cup {None}, inst : 0 .. MaxInstances]
Idle == [at |-> "idle", agent |-> None, inst |-> 0]

TypeOK ==
    /\ table \in [Agents -> 0 .. MaxInstances]
    /\ made \in [Agents -> 0 .. MaxInstances]
    /\ state \in [Agents -> [Instances ->
            {"none", "created", "running", "paused", "draining", "stopped", "deleted"}]]
    /\ active \in [Agents -> [Instances -> Nat]]
    /\ config \subseteq Agents
    /\ task \in [Tasks -> Task]

(* sync_from_configs, run before any request, has started the agents whose *)
(* runtime could be made.                                                  *)
Init ==
    /\ config \in SUBSET Agents
    /\ made \in [Agents -> {0, 1} \cap (0 .. MaxInstances)]
    /\ \A a \in Agents : made[a] = 1 => a \in config
    /\ table = made
    /\ state = [a \in Agents |-> [i \in Instances |-> IF i <= made[a] THEN "running" ELSE "none"]]
    /\ active = [a \in Agents |-> [i \in Instances |-> 0]]
    /\ task = [t \in Tasks |-> Idle]

-----------------------------------------------------------------------------
(* TRANSITION_TABLE *)
Allowed ==
    { <<"created", "start", "running">>,  <<"created", "delete", "deleted">>,
      <<"running", "pause", "paused">>,   <<"running", "drain", "draining">>,
      <<"running", "stop", "stopped">>,   <<"paused", "resume", "running">>,
      <<"paused", "stop", "stopped">>,    <<"paused", "drain", "draining">>,
      <<"draining", "stop", "stopped">>,  <<"stopped", "start", "running">>,
      <<"stopped", "delete", "deleted">> }

Accepts(a, i, event) == \E new \in {"running", "paused", "draining", "stopped", "deleted"} :
                            <<state[a][i], event, new>> \in Allowed

Transition(a, i, event) ==
    \E new \in {"running", "paused", "draining", "stopped", "deleted"} :
        /\ <<state[a][i], event, new>> \in Allowed
        /\ state' = [state EXCEPT ![a][i] = new]

\* Mutant: a paused instance does not count as active.
IsAcceptingSessions(a, i) == state[a][i] = "running"

IsActive(a, i) == state[a][i] \in {"running", "paused"}

Goto(t, at, a, i) == task' = [task EXCEPT ![t] = [at |-> at, agent |-> a, inst |-> i]]
Leave(t) == task' = [task EXCEPT ![t] = Idle]

-----------------------------------------------------------------------------
(* POST /start, /pause, /resume, /stop.                                    *)
Command(a, event) ==
    /\ table[a] # 0
    /\ Transition(a, table[a], event)
    /\ UNCHANGED <<table, made, active, config, task>>

(* create_agent up to the wiring of the runtime.  The id is not taken: the *)
(* table changes only when the runtime is wired.                           *)
Provision(t, a, at) ==
    /\ made[a] < MaxInstances
    /\ made' = [made EXCEPT ![a] = @ + 1]
    /\ Goto(t, at, a, made[a] + 1)
    /\ UNCHANGED <<table, state, active>>

(* POST /agents saves the configuration first; then the agent turns out to *)
(* exist, or its runtime cannot be initialized, or it is being wired.      *)
CreateAgent(t, a) ==
    /\ task[t].at = "idle"
    /\ config' = config \cup {a}
    /\ \/ table[a] = 0 /\ Provision(t, a, "creating")
       \/ UNCHANGED <<table, made, state, active, task>>

Created(t) ==
    LET a == task[t].agent  i == task[t].inst IN
    /\ task[t].at = "creating"
    /\ table' = [table EXCEPT ![a] = i]
    /\ state' = [state EXCEPT ![a][i] = "created"]
    /\ Leave(t)
    /\ UNCHANGED <<made, active, config>>

\* PUT /agents and the file watcher add configurations, the watcher also
\* drops them; neither touches an instance's lifecycle.
ConfigChanges(a) ==
    /\ config' \in {config \cup {a}, config \ {a}}
    /\ UNCHANGED <<table, made, state, active, task>>

-----------------------------------------------------------------------------
Running == {a \in Agents : table[a] # 0 /\ state[a][table[a]] = "running"}

(* A message for a: the inbound worker takes a running agent instead, if a *)
(* does not run and any does, and then stores the message.                 *)
Ask(t, a) ==
    /\ task[t].at = "idle"
    /\ \E b \in IF a \in Running \/ Running = {} THEN {a} ELSE Running : Goto(t, "asked", b, 0)
    /\ UNCHANGED <<table, made, state, active, config>>

\* POST /sessions/{id}/messages asks for the agent of the session.
AskDirectly(t, a) ==
    /\ task[t].at = "idle"
    /\ Goto(t, "asked", a, 0)
    /\ UNCHANGED <<table, made, state, active, config>>

(* process_message: nothing waits between ensure_agent_ready and its first *)
(* statement.                                                              *)
BeginTurn(t, a, i) ==
    /\ active' = [active EXCEPT ![a][i] = @ + 1]
    /\ Goto(t, "turn", a, i)

(* ensure_agent_ready: an active instance serves, one that can be started  *)
(* is, and AgentStateError leaves the message without an answer.           *)
Ensure(t) ==
    LET a == task[t].agent  i == table[a] IN
    /\ task[t].at = "asked"
    /\ i # 0
    /\ \/ IsActive(a, i) /\ BeginTurn(t, a, i) /\ UNCHANGED state
       \/ ~ IsActive(a, i) /\ Transition(a, i, "start") /\ BeginTurn(t, a, i)
       \/ /\ ~ IsActive(a, i) /\ ~ Accepts(a, i, "start")
          /\ Goto(t, "refused", a, i)
          /\ UNCHANGED <<state, active>>
    /\ UNCHANGED <<table, made, config>>

(* No instance: the agent is made on demand, if it has a configuration     *)
(* that its runtime accepts.                                               *)
EnsureAbsent(t) ==
    LET a == task[t].agent IN
    /\ task[t].at = "asked"
    /\ table[a] = 0
    /\ \/ a \in config /\ Provision(t, a, "provisioning")
       \/ Leave(t) /\ UNCHANGED <<table, made, state, active>>
    /\ UNCHANGED config

Provisioned(t) ==
    LET a == task[t].agent  i == task[t].inst IN
    /\ task[t].at = "provisioning"
    /\ table' = [table EXCEPT ![a] = i]
    /\ state' = [state EXCEPT ![a][i] = "running"]
    /\ BeginTurn(t, a, i)
    /\ UNCHANGED <<made, config>>

\* Mutant: a turn that does not end well is not counted down.
EndTurnUncounted(t) ==
    /\ task[t].at = "turn"
    /\ Leave(t)
    /\ active' \in {active, [active EXCEPT ![task[t].agent][task[t].inst] = @ - 1]}
    /\ UNCHANGED <<table, made, state, config>>

\* The turn ends, fails or is cancelled; "finally" counts it down.
EndTurn(t) ==
    /\ task[t].at = "turn"
    /\ Leave(t)
    /\ active' = [active EXCEPT ![task[t].agent][task[t].inst] = @ - 1]
    /\ UNCHANGED <<table, made, state, config>>

Refused(t) ==
    /\ task[t].at = "refused"
    /\ Leave(t)
    /\ UNCHANGED <<table, made, state, active, config>>

-----------------------------------------------------------------------------
(* DELETE /agents/{id}: the runtime is shut down, which waits and may      *)
(* fail, before the transition, which may forbid the deletion.             *)
DeleteAgent(t, a) ==
    /\ task[t].at = "idle"
    /\ table[a] # 0
    /\ Goto(t, "deleting", a, table[a])
    /\ UNCHANGED <<table, made, state, active, config>>

\* Mutant: the entry of the table is left to a later clean-up.
DeletedLazily(t) ==
    LET a == task[t].agent  i == task[t].inst IN
    /\ task[t].at = "deleting"
    /\ Leave(t)
    /\ \/ Transition(a, i, "delete") /\ config' = config \ {a}
       \/ UNCHANGED <<state, config>>
    /\ UNCHANGED <<table, made, active>>

Deleted(t) ==
    LET a == task[t].agent  i == task[t].inst IN
    /\ task[t].at = "deleting"
    /\ Leave(t)
    /\ \/ /\ Transition(a, i, "delete")
          /\ table' = [table EXCEPT ![a] = 0]
          /\ config' = config \ {a}
       \/ UNCHANGED <<state, table, config>>
    /\ UNCHANGED <<made, active>>

(* POST /agents/{id}/runtime: the new runtime is wired; then DRAIN, and    *)
(* START, which no draining instance accepts.                              *)
SwitchRuntime(t, a) ==
    /\ task[t].at = "idle"
    /\ table[a] # 0
    /\ Goto(t, "switching", a, table[a])
    /\ UNCHANGED <<table, made, state, active, config>>

Switched(t) ==
    LET a == task[t].agent  i == task[t].inst IN
    /\ task[t].at = "switching"
    /\ Leave(t)
    /\ IF Accepts(a, i, "drain") THEN Transition(a, i, "drain") ELSE UNCHANGED state
    /\ UNCHANGED <<table, made, active, config>>

Next ==
    \/ \E a \in Agents : ConfigChanges(a)
    \/ \E a \in Agents, event \in {"start", "pause", "resume", "stop"} : Command(a, event)
    \/ \E t \in Tasks :
        \/ Created(t) \/ Ensure(t) \/ EnsureAbsent(t) \/ Provisioned(t)
        \/ EndTurn(t) \/ Refused(t) \/ Deleted(t) \/ Switched(t)
        \/ \E a \in Agents :
            \/ CreateAgent(t, a) \/ Ask(t, a) \/ AskDirectly(t, a)
            \/ DeleteAgent(t, a) \/ SwitchRuntime(t, a)

Spec == Init /\ [][Next]_vars

-----------------------------------------------------------------------------
Turns(a, i) == {t \in Tasks : task[t].at = "turn" /\ task[t].agent = a /\ task[t].inst = i}

(* active_sessions, which the health check and the agent list report,      *)
(* counts the turns of an instance, also of one that was replaced in the   *)
(* table or deleted under them.                                            *)
SessionsCounted == \A a \in Agents : \A i \in Instances : active[a][i] = Cardinality(Turns(a, i))

(* An entry of the table is an instance that can still be used: no order   *)
(* of creations and deletions leaves a deleted one there.                  *)
TableUsable ==
    \A a \in Agents : table[a] # 0 => state[a][table[a]] \notin {"none", "deleted"}

(* ensure_agent_ready finds a state it cannot serve from only after a      *)
(* switch of the runtime; no other order of requests makes a message fail. *)
OnlyDrainingRefuses ==
    [][\A t \in Tasks :
        task[t].at = "asked" /\ task'[t].at = "refused" =>
            state[task[t].agent][table[task[t].agent]] = "draining"]_vars

(* "旧运行时进入 DRAINING 状态，继续服务现有会话，新运行时处理新会话": when the *)
(* switch is over the agent serves new sessions; it does not drain.        *)
NewRuntimeServes ==
    \A a \in Agents : table[a] # 0 => state[a][table[a]] # "draining"
=============================================================================

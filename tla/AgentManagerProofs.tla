------------------------- MODULE AgentManagerProofs -------------------------
(***************************************************************************)
(* What the agent manager keeps to for any agents, any number of requests  *)
(* at once and any number of instances.                                    *)
(***************************************************************************)
EXTENDS AgentManager, FiniteSetTheorems, TLAPS

\* A request that works on an instance works on one that exists.
Working ==
    \A t \in Tasks :
        /\ task[t].at # "idle" => task[t].agent \in Agents
        /\ task[t].at \in {"turn", "provisioning", "creating", "deleting", "switching"}
            => task[t].inst \in Instances

Inv == TypeOK /\ Working /\ TableUsable /\ SessionsCounted

LifecycleStates == {"none", "created", "running", "paused", "draining", "stopped", "deleted"}

-----------------------------------------------------------------------------
\* A transition of one instance leaves all others alone, and only DELETE
\* makes an instance unusable.
LEMMA TransitionKeeps ==
    ASSUME TypeOK, NEW a \in Agents, NEW i \in Instances, NEW event, Transition(a, i, event)
    PROVE  /\ state' \in [Agents -> [Instances -> LifecycleStates]]
           /\ state'[a][i] # "none"
           /\ event # "delete" => state'[a][i] # "deleted"
           /\ \A b \in Agents, j \in Instances : b # a \/ j # i => state'[b][j] = state[b][j]
<1>1. PICK new \in {"running", "paused", "draining", "stopped", "deleted"} :
        /\ <<state[a][i], event, new>> \in Allowed
        /\ state' = [state EXCEPT ![a][i] = new]
  BY DEF Transition
<1>2. state \in [Agents -> [Instances -> LifecycleStates]]
  BY DEF TypeOK, LifecycleStates
<1>3. state'[a][i] = new
  BY <1>1, <1>2
<1>4. event # "delete" => new # "deleted"
  BY <1>1 DEF Allowed
<1> QED BY <1>1, <1>2, <1>3, <1>4 DEF LifecycleStates

LEMMA TurnsFinite ==
    ASSUME NEW a, NEW i
    PROVE  IsFiniteSet(Turns(a, i)) /\ Cardinality(Turns(a, i)) \in Nat
<1>1. Turns(a, i) \subseteq Tasks
  BY DEF Turns
<1> QED BY <1>1, ManagerAssumption, FS_Subset, FS_CardinalityType

\* A request that neither begins nor ends a turn does not disturb the count.
LEMMA CountFrame ==
    ASSUME SessionsCounted, UNCHANGED active,
           \A t \in Tasks : \/ task'[t] = task[t]
                            \/ task[t].at # "turn" /\ task'[t].at # "turn"
    PROVE  SessionsCounted'
<1>1. \A a \in Agents, i \in Instances : Turns(a, i)' = Turns(a, i)
  BY DEF Turns
<1> QED BY <1>1 DEF SessionsCounted

LEMMA GotoCount ==
    ASSUME TypeOK, SessionsCounted, UNCHANGED active, NEW t \in Tasks, NEW at, NEW a, NEW i,
           at # "turn", task[t].at # "turn", Goto(t, at, a, i)
    PROVE  SessionsCounted'
<1>1. task' = [task EXCEPT ![t] = [at |-> at, agent |-> a, inst |-> i]] /\ task \in [Tasks -> Task]
  BY DEF Goto, TypeOK
<1>2. \A u \in Tasks : u # t => task'[u] = task[u]
  BY <1>1
<1>3. task'[t] = [at |-> at, agent |-> a, inst |-> i]
  BY <1>1
<1>4. task'[t].at # "turn"
  BY <1>3
<1> QED BY <1>2, <1>4, CountFrame

LEMMA LeaveCount ==
    ASSUME TypeOK, SessionsCounted, UNCHANGED active, NEW t \in Tasks,
           task[t].at # "turn", Leave(t)
    PROVE  SessionsCounted'
<1>1. Goto(t, "idle", None, 0)
  BY DEF Leave, Goto, Idle
<1> QED BY <1>1, GotoCount

LEMMA TurnBegins ==
    ASSUME TypeOK, SessionsCounted, NEW t \in Tasks, NEW a \in Agents, NEW i \in Instances,
           task[t].at # "turn", BeginTurn(t, a, i)
    PROVE  SessionsCounted' /\ active' \in [Agents -> [Instances -> Nat]]
<1>1. task' = [task EXCEPT ![t] = [at |-> "turn", agent |-> a, inst |-> i]]
  BY DEF BeginTurn, Goto
<1>2. active' = [active EXCEPT ![a][i] = @ + 1] /\ active \in [Agents -> [Instances -> Nat]]
  BY DEF BeginTurn, TypeOK
<1>3. Turns(a, i)' = Turns(a, i) \cup {t} /\ t \notin Turns(a, i)
  BY <1>1 DEF Turns, TypeOK
<1>4. \A b \in Agents, j \in Instances : b # a \/ j # i => Turns(b, j)' = Turns(b, j)
  BY <1>1 DEF Turns, TypeOK
<1>5. Cardinality(Turns(a, i)') = Cardinality(Turns(a, i)) + 1
  BY <1>3, TurnsFinite, FS_AddElement
<1>6. active'[a][i] = Cardinality(Turns(a, i)')
  BY <1>2, <1>5 DEF SessionsCounted
<1>7. \A b \in Agents, j \in Instances : b # a \/ j # i => active'[b][j] = active[b][j]
  BY <1>2
<1>8. active' \in [Agents -> [Instances -> Nat]]
  BY <1>2
<1>9. SessionsCounted'
  <2> SUFFICES ASSUME NEW b \in Agents, NEW j \in Instances
               PROVE  active'[b][j] = Cardinality(Turns(b, j)')
    BY DEF SessionsCounted
  <2>1. CASE b = a /\ j = i
    BY <2>1, <1>6
  <2>2. CASE b # a \/ j # i
    BY <2>2, <1>4, <1>7 DEF SessionsCounted
  <2> QED BY <2>1, <2>2
<1> QED BY <1>8, <1>9

LEMMA TurnEnds ==
    ASSUME TypeOK, SessionsCounted, NEW t \in Tasks, NEW a \in Agents, NEW i \in Instances,
           task[t].at = "turn", task[t].agent = a, task[t].inst = i, EndTurn(t)
    PROVE  SessionsCounted' /\ active' \in [Agents -> [Instances -> Nat]]
<1>1. task' = [task EXCEPT ![t] = Idle]
  BY DEF EndTurn, Leave
<1>2. active' = [active EXCEPT ![a][i] = @ - 1] /\ active \in [Agents -> [Instances -> Nat]]
  BY DEF EndTurn, TypeOK
<1>3. Turns(a, i)' = Turns(a, i) \ {t} /\ t \in Turns(a, i)
  <2>1. task'[t].at = "idle" /\ \A u \in Tasks : u # t => task'[u] = task[u]
    BY <1>1 DEF TypeOK, Idle
  <2>2. \A u : u \in Turns(a, i)' <=> u \in Turns(a, i) /\ u # t
    BY <2>1 DEF Turns
  <2>3. t \in Turns(a, i)
    BY DEF Turns
  <2> QED BY <2>2, <2>3
<1>4. \A b \in Agents, j \in Instances : b # a \/ j # i => Turns(b, j)' = Turns(b, j)
  BY <1>1 DEF Turns, TypeOK, Idle
<1>5. Cardinality(Turns(a, i)') = Cardinality(Turns(a, i)) - 1
  <2>1. IsFiniteSet(Turns(a, i))
    BY TurnsFinite
  <2>2. Cardinality(Turns(a, i) \ {t}) = Cardinality(Turns(a, i)) - 1
    BY <1>3, <2>1, FS_RemoveElement
  <2> QED BY <1>3, <2>2
<1>6. Cardinality(Turns(a, i)') \in Nat
  <2>1. IsFiniteSet(Turns(a, i) \ {t})
    BY TurnsFinite, FS_RemoveElement
  <2> QED BY <1>3, <2>1, FS_CardinalityType
<1>7. active'[a][i] = Cardinality(Turns(a, i)')
  <2>1. active[a][i] = Cardinality(Turns(a, i))
    BY DEF SessionsCounted
  <2>2. active'[a][i] = active[a][i] - 1
    BY <1>2
  <2> QED BY <2>1, <2>2, <1>5
<1>8. \A b \in Agents, j \in Instances : b # a \/ j # i => active'[b][j] = active[b][j]
  BY <1>2
<1>9. active' \in [Agents -> [Instances -> Nat]]
  <2>1. active' = [active EXCEPT ![a][i] = Cardinality(Turns(a, i)')]
    BY <1>2, <1>7
  <2> QED BY <2>1, <1>2, <1>6
<1>10. SessionsCounted'
  <2> SUFFICES ASSUME NEW b \in Agents, NEW j \in Instances
               PROVE  active'[b][j] = Cardinality(Turns(b, j)')
    BY DEF SessionsCounted
  <2>1. CASE b = a /\ j = i
    BY <2>1, <1>7
  <2>2. CASE b # a \/ j # i
    BY <2>2, <1>4, <1>8 DEF SessionsCounted
  <2> QED BY <2>1, <2>2
<1> QED BY <1>9, <1>10

-----------------------------------------------------------------------------
LEMMA InitHolds == Init => Inv
<1> SUFFICES ASSUME Init PROVE Inv
  OBVIOUS
<1>1. TypeOK
  <2>1. task \in [Tasks -> Task]
    BY ManagerAssumption DEF Init, Idle, Task, Waits
  <2> QED BY <2>1, ManagerAssumption DEF Init, TypeOK, Instances
<1>2. Working
  BY DEF Init, Working, Idle
<1>3. TableUsable
  BY <1>1 DEF Init, TableUsable, TypeOK, Instances
<1>4. SessionsCounted
  <2>1. \A a \in Agents, i \in Instances : Turns(a, i) = {}
    BY DEF Init, Turns, Idle
  <2> QED BY <2>1, FS_EmptySet DEF Init, SessionsCounted
<1> QED BY <1>1, <1>2, <1>3, <1>4 DEF Inv

\* A request goes on waiting, for an agent and perhaps for an instance.
LEMMA GotoKeeps ==
    ASSUME TypeOK, Working, NEW t \in Tasks, NEW at \in Waits \ {"idle"},
           NEW a \in Agents, NEW i \in 0 .. MaxInstances,
           at \in {"asked", "refused"} \/ i \in Instances, Goto(t, at, a, i)
    PROVE  task' \in [Tasks -> Task] /\ Working'
<1>1. task' = [task EXCEPT ![t] = [at |-> at, agent |-> a, inst |-> i]]
  BY DEF Goto
<1>2. task' \in [Tasks -> Task]
  BY <1>1 DEF TypeOK, Task
<1>3. Working'
  BY <1>1 DEF TypeOK, Working, Waits
<1> QED BY <1>2, <1>3

LEMMA LeaveKeeps ==
    ASSUME TypeOK, Working, NEW t \in Tasks, Leave(t)
    PROVE  task' \in [Tasks -> Task] /\ Working'
<1>1. task' = [task EXCEPT ![t] = Idle]
  BY DEF Leave
<1>2. Idle \in Task
  BY ManagerAssumption DEF Idle, Task, Waits
<1>3. task' \in [Tasks -> Task]
  BY <1>1, <1>2 DEF TypeOK
<1>4. Working'
  BY <1>1 DEF TypeOK, Working, Idle
<1> QED BY <1>3, <1>4

\* The lifecycle event of an instance in the table, or of one that the
\* table no longer has.
LEMMA UsableKeeps ==
    ASSUME TypeOK, TableUsable, NEW a \in Agents, NEW i \in Instances, NEW event,
           Transition(a, i, event), event # "delete" /\ table' = table
    PROVE  TableUsable'
<1>1. /\ state'[a][i] \notin {"none", "deleted"}
      /\ \A b \in Agents, j \in Instances : b # a \/ j # i => state'[b][j] = state[b][j]
  BY TransitionKeeps
<1>2. \A b \in Agents : table[b] # 0 => table[b] \in Instances
  BY ManagerAssumption DEF TypeOK, Instances
<1> QED BY <1>1, <1>2 DEF TableUsable

-----------------------------------------------------------------------------
\* One step per action.
LEMMA RequestsKeep ==
    ASSUME Inv, NEW t \in Tasks, NEW a \in Agents,
           CreateAgent(t, a) \/ Ask(t, a) \/ AskDirectly(t, a) \/ DeleteAgent(t, a) \/ SwitchRuntime(t, a)
    PROVE  Inv'
<1> USE DEF Inv
<1>1. CASE CreateAgent(t, a)
  <2>1. config' \subseteq Agents /\ UNCHANGED <<table, state, active>>
    BY <1>1 DEF CreateAgent, Provision, TypeOK
  <2>2. CASE Provision(t, a, "creating")
    <3>1. made[a] \in 0 .. MaxInstances /\ made[a] < MaxInstances /\ made' = [made EXCEPT ![a] = @ + 1]
      BY <2>2 DEF Provision, TypeOK
    <3>2. made[a] + 1 \in Instances /\ made[a] + 1 \in 0 .. MaxInstances
      BY <3>1, ManagerAssumption DEF Instances
    <3>3. task' \in [Tasks -> Task] /\ Working'
      BY <2>2, <3>2, GotoKeeps DEF Provision, Waits
    <3>4. made' \in [Agents -> 0 .. MaxInstances]
      BY <3>1, <3>2 DEF TypeOK
    <3>5. SessionsCounted'
      BY <1>1, <2>1, <2>2, GotoCount DEF CreateAgent, Provision
    <3> QED BY <2>1, <3>3, <3>4, <3>5 DEF TypeOK, TableUsable
  <2>3. CASE UNCHANGED <<table, made, state, active, task>>
    <3>1. SessionsCounted'
      BY <2>3, CountFrame
    <3> QED BY <2>1, <2>3, <3>1 DEF TypeOK, TableUsable, Working
  <2> QED BY <1>1, <2>2, <2>3 DEF CreateAgent
<1>2. ASSUME NEW b \in Agents, NEW at \in {"asked", "deleting", "switching"}, NEW i \in 0 .. MaxInstances,
             at = "asked" \/ i \in Instances,
             task[t].at = "idle", Goto(t, at, b, i), UNCHANGED <<table, made, state, active, config>>
      PROVE  Inv'
  <2>1. task' \in [Tasks -> Task] /\ Working'
    BY <1>2, GotoKeeps DEF Waits
  <2>2. SessionsCounted'
    BY <1>2, GotoCount
  <2> QED BY <1>2, <2>1, <2>2 DEF TypeOK, TableUsable
<1>3. 0 \in 0 .. MaxInstances /\ Running \subseteq Agents
  BY ManagerAssumption DEF Running
<1>4. CASE Ask(t, a) \/ AskDirectly(t, a)
  <2>1. \E b \in Agents : Goto(t, "asked", b, 0)
    BY <1>3, <1>4 DEF Ask, AskDirectly
  <2> QED BY <1>2, <1>3, <1>4, <2>1 DEF Ask, AskDirectly
<1>5. CASE DeleteAgent(t, a) \/ SwitchRuntime(t, a)
  <2>1. table[a] \in Instances /\ table[a] \in 0 .. MaxInstances
    BY <1>5, ManagerAssumption DEF DeleteAgent, SwitchRuntime, TypeOK, Instances
  <2> QED BY <1>2, <1>5, <2>1 DEF DeleteAgent, SwitchRuntime
<1> QED BY <1>1, <1>4, <1>5

LEMMA CommandKeeps ==
    ASSUME Inv, NEW a \in Agents, NEW event \in {"start", "pause", "resume", "stop"}, Command(a, event)
    PROVE  Inv'
<1> USE DEF Inv
<1>1. table[a] \in Instances
  BY ManagerAssumption DEF Command, TypeOK, Instances
<1>2. UNCHANGED <<table, made, active, config, task>>
  BY DEF Command
<1>3. state' \in [Agents -> [Instances -> LifecycleStates]]
  BY <1>1, TransitionKeeps DEF Command
<1>4. TableUsable'
  BY <1>1, <1>2, UsableKeeps DEF Command
<1>5. SessionsCounted'
  BY <1>2, CountFrame
<1> QED BY <1>2, <1>3, <1>4, <1>5 DEF TypeOK, Working, LifecycleStates

LEMMA ServingKeeps ==
    ASSUME Inv, NEW t \in Tasks, Ensure(t) \/ EnsureAbsent(t) \/ EndTurn(t) \/ Refused(t)
    PROVE  Inv'
<1> USE DEF Inv
<1>1. PICK a : a = task[t].agent
  OBVIOUS
<1>2. CASE Ensure(t)
  <2>1. PICK i : i = table[a]
    OBVIOUS
  <2>2. a \in Agents /\ i \in Instances /\ i \in 0 .. MaxInstances /\ task[t].at = "asked"
    BY <1>1, <1>2, <2>1, ManagerAssumption DEF Ensure, Working, TypeOK, Instances
  <2>3. UNCHANGED <<table, made, config>>
    BY <1>2 DEF Ensure
  <2>4. ASSUME BeginTurn(t, a, i)
        PROVE  /\ task' \in [Tasks -> Task] /\ Working'
               /\ SessionsCounted' /\ active' \in [Agents -> [Instances -> Nat]]
    BY <2>2, <2>4, TurnBegins, GotoKeeps DEF BeginTurn, Waits
  <2>5. CASE BeginTurn(t, a, i) /\ UNCHANGED state
    BY <2>3, <2>4, <2>5 DEF TypeOK, TableUsable
  <2>6. CASE Transition(a, i, "start") /\ BeginTurn(t, a, i)
    <3>1. state' \in [Agents -> [Instances -> LifecycleStates]]
      BY <2>2, <2>6, TransitionKeeps
    <3>2. TableUsable'
      BY <2>2, <2>3, <2>6, UsableKeeps
    <3> QED BY <2>3, <2>4, <2>6, <3>1, <3>2 DEF TypeOK, LifecycleStates
  <2>7. CASE Goto(t, "refused", a, i) /\ UNCHANGED <<state, active>>
    <3>1. task' \in [Tasks -> Task] /\ Working'
      BY <2>2, <2>7, GotoKeeps DEF Waits
    <3>2. SessionsCounted'
      BY <2>2, <2>7, GotoCount
    <3> QED BY <2>3, <2>7, <3>1, <3>2 DEF TypeOK, TableUsable
  <2> QED BY <1>1, <1>2, <2>1, <2>5, <2>6, <2>7 DEF Ensure
<1>3. ASSUME task[t].at # "turn", Leave(t), UNCHANGED <<table, made, state, active, config>>
      PROVE  Inv'
  <2>1. task' \in [Tasks -> Task] /\ Working'
    BY <1>3, LeaveKeeps
  <2>2. SessionsCounted'
    BY <1>3, LeaveCount
  <2> QED BY <1>3, <2>1, <2>2 DEF TypeOK, TableUsable
<1>4. CASE EnsureAbsent(t)
  <2>1. a \in Agents /\ task[t].at = "asked" /\ UNCHANGED config
    BY <1>1, <1>4 DEF EnsureAbsent, Working
  <2>2. CASE Provision(t, a, "provisioning")
    <3>1. made[a] \in 0 .. MaxInstances /\ made[a] < MaxInstances /\ made' = [made EXCEPT ![a] = @ + 1]
      BY <2>1, <2>2 DEF Provision, TypeOK
    <3>2. made[a] + 1 \in Instances /\ made[a] + 1 \in 0 .. MaxInstances
      BY <3>1, ManagerAssumption DEF Instances
    <3>3. task' \in [Tasks -> Task] /\ Working'
      BY <2>1, <2>2, <3>2, GotoKeeps DEF Provision, Waits
    <3>4. made' \in [Agents -> 0 .. MaxInstances]
      BY <3>1, <3>2 DEF TypeOK
    <3>5. SessionsCounted' /\ UNCHANGED <<table, state, active>>
      BY <2>1, <2>2, GotoCount DEF Provision
    <3> QED BY <2>1, <3>3, <3>4, <3>5 DEF TypeOK, TableUsable
  <2>3. CASE Leave(t) /\ UNCHANGED <<table, made, state, active>>
    BY <2>1, <2>3, <1>3
  <2> QED BY <1>1, <1>4, <2>2, <2>3 DEF EnsureAbsent
<1>5. CASE EndTurn(t)
  <2>1. PICK i : i = task[t].inst
    OBVIOUS
  <2>2. task[t].at = "turn" /\ a \in Agents /\ i \in Instances
    BY <1>1, <1>5, <2>1 DEF EndTurn, Working
  <2>3. SessionsCounted' /\ active' \in [Agents -> [Instances -> Nat]]
    BY <1>1, <1>5, <2>1, <2>2, TurnEnds
  <2>4. task' \in [Tasks -> Task] /\ Working' /\ UNCHANGED <<table, made, state, config>>
    BY <1>5, LeaveKeeps DEF EndTurn
  <2> QED BY <2>3, <2>4 DEF TypeOK, TableUsable
<1>6. CASE Refused(t)
  BY <1>3, <1>6 DEF Refused
<1> QED BY <1>2, <1>4, <1>5, <1>6

LEMMA ProvidingKeeps ==
    ASSUME Inv, NEW t \in Tasks, Created(t) \/ Provisioned(t) \/ Deleted(t) \/ Switched(t)
    PROVE  Inv'
<1> USE DEF Inv
<1>1. PICK a, i : a = task[t].agent /\ i = task[t].inst
  OBVIOUS
<1>2. /\ a \in Agents /\ i \in Instances /\ i \in 0 .. MaxInstances
      /\ task[t].at # "turn"
  BY <1>1, ManagerAssumption DEF Created, Provisioned, Deleted, Switched, Working, Instances
<1>3. ASSUME Leave(t), UNCHANGED active PROVE task' \in [Tasks -> Task] /\ Working' /\ SessionsCounted'
  BY <1>2, <1>3, LeaveKeeps, LeaveCount
<1>4. ASSUME NEW s \in {"created", "running"},
             table' = [table EXCEPT ![a] = i], state' = [state EXCEPT ![a][i] = s]
      PROVE  /\ table' \in [Agents -> 0 .. MaxInstances]
             /\ state' \in [Agents -> [Instances -> LifecycleStates]]
             /\ TableUsable'
  <2>1. table' \in [Agents -> 0 .. MaxInstances] /\ state' \in [Agents -> [Instances -> LifecycleStates]]
    BY <1>2, <1>4 DEF TypeOK, LifecycleStates
  <2>2. table'[a] = i /\ state'[a][i] = s
    BY <1>2, <1>4 DEF TypeOK
  <2>3. \A b \in Agents : b # a => table'[b] = table[b] /\ state'[b] = state[b]
    BY <1>2, <1>4 DEF TypeOK
  <2>4. TableUsable'
    BY <2>2, <2>3 DEF TableUsable
  <2> QED BY <2>1, <2>4
<1>5. CASE Created(t)
  <2>1. /\ Leave(t) /\ UNCHANGED <<made, active, config>>
        /\ table' = [table EXCEPT ![a] = i] /\ state' = [state EXCEPT ![a][i] = "created"]
    BY <1>1, <1>5 DEF Created
  <2> QED BY <2>1, <1>3, <1>4 DEF TypeOK, LifecycleStates
<1>6. CASE Provisioned(t)
  <2>1. /\ BeginTurn(t, a, i) /\ UNCHANGED <<made, config>>
        /\ table' = [table EXCEPT ![a] = i] /\ state' = [state EXCEPT ![a][i] = "running"]
    BY <1>1, <1>6 DEF Provisioned
  <2>2. SessionsCounted' /\ active' \in [Agents -> [Instances -> Nat]]
    BY <1>2, <2>1, TurnBegins
  <2>3. task' \in [Tasks -> Task] /\ Working'
    BY <1>2, <2>1, GotoKeeps DEF BeginTurn, Waits
  <2> QED BY <2>1, <2>2, <2>3, <1>4 DEF TypeOK, LifecycleStates
<1>7. CASE Deleted(t)
  <2>1. Leave(t) /\ UNCHANGED <<made, active>>
    BY <1>7 DEF Deleted
  <2>2. CASE UNCHANGED <<state, table, config>>
    BY <2>1, <2>2, <1>3 DEF TypeOK, TableUsable
  <2>3. CASE Transition(a, i, "delete") /\ table' = [table EXCEPT ![a] = 0] /\ config' = config \ {a}
    <3>1. /\ state' \in [Agents -> [Instances -> LifecycleStates]]
          /\ \A b \in Agents, j \in Instances : b # a => state'[b][j] = state[b][j]
      <4>1. Transition(a, i, "delete")
        BY <2>3
      <4> QED BY <1>2, <4>1, TransitionKeeps
    <3>2. table' \in [Agents -> 0 .. MaxInstances] /\ config' \subseteq Agents
      <4>1. 0 \in 0 .. MaxInstances
        BY ManagerAssumption
      <4>2. table' \in [Agents -> 0 .. MaxInstances]
        BY <2>3, <4>1 DEF TypeOK
      <4>3. config' \subseteq Agents
        BY <2>3 DEF TypeOK
      <4> QED BY <4>2, <4>3
    <3>3. TableUsable'
      <4> SUFFICES ASSUME NEW b \in Agents, table'[b] # 0
                   PROVE  state'[b][table'[b]] \notin {"none", "deleted"}
        BY DEF TableUsable
      <4>1. b # a /\ table'[b] = table[b]
        BY <2>3 DEF TypeOK
      <4>2. table[b] \in Instances
        BY <4>1, ManagerAssumption DEF TypeOK, Instances
      <4> QED BY <4>1, <4>2, <3>1 DEF TableUsable
    <3> QED BY <2>1, <3>1, <3>2, <3>3, <1>3 DEF TypeOK, LifecycleStates
  <2> QED BY <1>1, <1>7, <2>2, <2>3 DEF Deleted
<1>8. CASE Switched(t)
  <2>1. Leave(t) /\ UNCHANGED <<table, made, active, config>>
    BY <1>8 DEF Switched
  <2>2. CASE UNCHANGED state
    BY <2>1, <2>2, <1>3 DEF TypeOK, TableUsable
  <2>3. CASE Transition(a, i, "drain")
    <3>1. state' \in [Agents -> [Instances -> LifecycleStates]]
      BY <1>2, <2>3, TransitionKeeps
    <3>2. TableUsable'
      BY <1>2, <2>1, <2>3, UsableKeeps
    <3> QED BY <2>1, <3>1, <3>2, <1>3 DEF TypeOK, LifecycleStates
  <2> QED BY <1>1, <1>8, <2>2, <2>3 DEF Switched
<1> QED BY <1>5, <1>6, <1>7, <1>8

LEMMA NextKeeps == Inv /\ [Next]_vars => Inv'
<1> SUFFICES ASSUME Inv, [Next]_vars PROVE Inv'
  OBVIOUS
<1>1. ASSUME NEW a \in Agents, ConfigChanges(a) PROVE Inv'
  <2>1. config' \subseteq Agents /\ UNCHANGED <<table, made, state, active, task>>
    BY <1>1 DEF ConfigChanges, Inv, TypeOK
  <2>2. SessionsCounted'
    BY <2>1, CountFrame DEF Inv
  <2> QED BY <2>1, <2>2 DEF Inv, TypeOK, Working, TableUsable
<1>2. CASE UNCHANGED vars
  <2>1. SessionsCounted'
    BY <1>2, CountFrame DEF Inv, vars
  <2> QED BY <1>2, <2>1 DEF Inv, TypeOK, Working, TableUsable, vars
<1> QED BY <1>1, <1>2, RequestsKeep, CommandKeeps, ServingKeeps, ProvidingKeeps DEF Next

(* The typing, the table and the counters are kept by every request in     *)
(* every interleaving.                                                     *)
THEOREM Invariance == Spec => []Inv
<1> QED BY InitHolds, NextKeeps, PTL DEF Spec

(* The type invariant.                                                     *)
THEOREM TypeCorrect == Spec => []TypeOK
<1>1. Inv => TypeOK
  BY DEF Inv
<1> QED BY <1>1, Invariance, PTL

(* active_sessions of an instance is the number of its turns, whatever     *)
(* requests delete, replace or drain it meanwhile (process_message).       *)
THEOREM Counts == Spec => []SessionsCounted
<1>1. Inv => SessionsCounted
  BY DEF Inv
<1> QED BY <1>1, Invariance, PTL

(* _instances never holds a deleted instance, although creation checks the *)
(* table before it waits and deletion removes an entry after it has.       *)
THEOREM Usable == Spec => []TableUsable
<1>1. Inv => TableUsable
  BY DEF Inv
<1> QED BY <1>1, Invariance, PTL

\* Only ensure_agent_ready refuses.
LEMMA OnlyEnsureRefuses ==
    ASSUME Inv, [Next]_vars, NEW t \in Tasks, task[t].at = "asked", task'[t].at = "refused"
    PROVE  Ensure(t)
<1>1. task \in [Tasks -> Task]
  BY DEF Inv, TypeOK
<1>2. task' # task
  OBVIOUS
<1>3. PICK u \in Tasks :
        \/ Created(u) \/ Ensure(u) \/ EnsureAbsent(u) \/ Provisioned(u)
        \/ EndTurn(u) \/ Refused(u) \/ Deleted(u) \/ Switched(u)
        \/ \E a \in Agents : \/ CreateAgent(u, a) \/ Ask(u, a) \/ AskDirectly(u, a)
                             \/ DeleteAgent(u, a) \/ SwitchRuntime(u, a)
  BY <1>2 DEF Next, vars, ConfigChanges, Command
<1>4. ASSUME NEW at, NEW a, NEW i, Goto(u, at, a, i)
      PROVE  u = t /\ at = "refused"
  <2>1. \A v \in Tasks : v # u => task'[v] = task[v]
    BY <1>1, <1>4 DEF Goto
  <2>2. task'[u] = [at |-> at, agent |-> a, inst |-> i]
    BY <1>1, <1>4 DEF Goto
  <2>3. task'[u].at = at
    BY <2>2
  <2> QED BY <2>1, <2>3
<1>5. ~ Leave(u)
  <2>1. Leave(u) => Goto(u, "idle", None, 0)
    BY DEF Leave, Goto, Idle
  <2> QED BY <2>1, <1>4
<1>6. ~ \E a, i : Goto(u, "turn", a, i) \/ Goto(u, "provisioning", a, i) \/ Goto(u, "creating", a, i)
                \/ Goto(u, "asked", a, i) \/ Goto(u, "deleting", a, i) \/ Goto(u, "switching", a, i)
  BY <1>4
<1>7. Ensure(u)
  <2>1. ~ Created(u) /\ ~ EndTurn(u) /\ ~ Refused(u) /\ ~ Deleted(u) /\ ~ Switched(u)
    BY <1>5 DEF Created, EndTurn, Refused, Deleted, Switched
  <2>2. ~ EnsureAbsent(u) /\ ~ Provisioned(u)
    BY <1>5, <1>6 DEF EnsureAbsent, Provisioned, Provision, BeginTurn
  <2>3. \A a \in Agents : ~ CreateAgent(u, a)
    BY <1>2, <1>6 DEF CreateAgent, Provision
  <2>4. \A a \in Agents : ~ Ask(u, a) /\ ~ AskDirectly(u, a) /\ ~ DeleteAgent(u, a) /\ ~ SwitchRuntime(u, a)
    BY <1>6 DEF Ask, AskDirectly, DeleteAgent, SwitchRuntime
  <2> QED BY <1>3, <2>1, <2>2, <2>3, <2>4
<1>8. PICK at, a, i : Goto(u, at, a, i)
  BY <1>7 DEF Ensure, BeginTurn
<1> QED BY <1>4, <1>7, <1>8

\* The states START is not accepted from, of an instance that can be used
\* and is not active.
LEMMA RefusedDraining ==
    ASSUME TypeOK, NEW a \in Agents, NEW i \in Instances,
           state[a][i] \notin {"none", "deleted"}, ~ IsActive(a, i), ~ Accepts(a, i, "start")
    PROVE  state[a][i] = "draining"
<1>1. state[a][i] \in {"created", "running", "paused", "draining", "stopped"}
  BY DEF TypeOK
<1>2. state[a][i] # "created" /\ state[a][i] # "stopped"
  BY DEF Accepts, Allowed
<1>3. state[a][i] # "running" /\ state[a][i] # "paused"
  BY DEF IsActive
<1> QED BY <1>1, <1>2, <1>3

(* A message that ensure_agent_ready refuses met an agent whose runtime is *)
(* being switched.                                                         *)
THEOREM RefusesOnlyDraining == Spec => OnlyDrainingRefuses
<1>1. ASSUME Inv, [Next]_vars, NEW t \in Tasks, task[t].at = "asked", task'[t].at = "refused"
      PROVE  state[task[t].agent][table[task[t].agent]] = "draining"
  <2> USE DEF Inv
  <2>1. PICK a : a = task[t].agent
    OBVIOUS
  <2>2. a \in Agents
    BY <1>1, <2>1 DEF Working
  <2>3. Ensure(t)
    BY <1>1, OnlyEnsureRefuses
  <2>4. table[a] \in Instances /\ state[a][table[a]] \notin {"none", "deleted"}
    BY <2>1, <2>2, <2>3, <1>1, ManagerAssumption DEF Ensure, TypeOK, TableUsable, Instances
  <2>5. ~ BeginTurn(t, a, table[a])
    BY <1>1 DEF BeginTurn, Goto, TypeOK
  <2>6. ~ IsActive(a, table[a]) /\ ~ Accepts(a, table[a], "start")
    BY <2>1, <2>3, <2>5 DEF Ensure
  <2> QED BY <1>1, <2>1, <2>2, <2>4, <2>6, RefusedDraining
<1>2. Inv /\ [Next]_vars =>
        [\A t \in Tasks : task[t].at = "asked" /\ task'[t].at = "refused" =>
            state[task[t].agent][table[task[t].agent]] = "draining"]_vars
  BY <1>1
<1> QED BY <1>2, Invariance, PTL DEF Spec, OnlyDrainingRefuses
=============================================================================

---------------------------- MODULE AgentRuntime ----------------------------
(***************************************************************************)
(* One OpenHarnessRuntime (runtime/openharness.py): the turns of an agent  *)
(* run in it concurrently and share its MCP manager, which a turn replaces *)
(* when it has no tools; an update or deletion of the agent shuts it down  *)
(* under them.                                                             *)
(***************************************************************************)
EXTENDS Naturals, FiniteSets

CONSTANTS Turns, MaxManagers

ASSUME RuntimeAssumption == IsFiniteSet(Turns) /\ MaxManagers \in Nat

VARIABLES
    gatewaySet, \* set_llm_gateway was called
    shutting,   \* the manager shutdown is closing; 0 outside of it
    mcp,        \* _native_mcp_manager; 0 for None
    managers,   \* every McpClientManager ever connected
    turnRuns    \* the runs under way: manager, and the events of the run so far

runtimeVars == <<gatewaySet, shutting, mcp, managers, turnRuns>>

ManagerIds == 1..MaxManagers
NoManager == [is |-> "none", tools |-> FALSE, outlived |-> FALSE]
NoRun == [pc |-> "idle", mcp |-> 0, error |-> FALSE, done |-> 0]
LastManager == Cardinality({m \in ManagerIds : managers[m].is # "none"})

RuntimeInit ==
    /\ gatewaySet \in BOOLEAN /\ shutting = 0 /\ mcp = 0
    /\ managers = [m \in ManagerIds |-> NoManager]
    /\ turnRuns = [t \in Turns |-> NoRun]

-----------------------------------------------------------------------------
At(t, pc) == turnRuns[t].pc = pc
Become(t, run) == turnRuns' = [turnRuns EXCEPT ![t] = run]

\* _mcp_manager_has_tools.
HasTools(m) == m # 0 /\ managers[m].tools

\* run: without a gateway an error and done; otherwise _ensure_native_mcp_manager looks at
\* the manager there is.
Run(t) ==
    /\ turnRuns[t].pc \in {"idle", "ended"}
    /\ Become(t, CASE ~gatewaySet -> [NoRun EXCEPT !.pc = "ended", !.error = TRUE, !.done = 1]
                   [] gatewaySet /\ HasTools(mcp) -> [NoRun EXCEPT !.pc = "streaming", !.mcp = mcp]
                   [] OTHER -> [NoRun EXCEPT !.pc = IF mcp = 0 THEN "connecting" ELSE "closing", !.mcp = mcp])
    /\ UNCHANGED <<gatewaySet, shutting, mcp, managers>>

\* initialize or resolve_extra_skill_dirs raises, before the try: the run is over without
\* an event.
RunRefused(t) ==
    /\ turnRuns[t].pc \in {"idle", "ended"} /\ Become(t, NoRun)
    /\ UNCHANGED <<gatewaySet, shutting, mcp, managers>>

\* Mutant: what is closed is the runtime's manager of now, not the one looked at.
NowCurrent(t) == mcp

\* The stale manager a turn closes before it connects.
StaleManager(t) == turnRuns[t].mcp

Close(m) == IF m = 0 THEN managers ELSE [managers EXCEPT ![m].is = "closed"]

CloseStale(t) ==
    /\ At(t, "closing")
    /\ managers' = Close(StaleManager(t))
    /\ Become(t, [turnRuns[t] EXCEPT !.pc = "connecting", !.mcp = 0])
    /\ UNCHANGED <<gatewaySet, shutting, mcp>>

\* connect_mcp_manager: a server that fails has no tools, it raises nothing.  The turn
\* builds its engine on the manager, which becomes the runtime's.
ConnectManager(t) ==
    /\ At(t, "connecting") /\ LastManager < MaxManagers
    /\ \E tools \in BOOLEAN :
          managers' = [managers EXCEPT ![LastManager + 1] = [is |-> "open", tools |-> tools, outlived |-> FALSE]]
    /\ mcp' = LastManager + 1
    /\ Become(t, [turnRuns[t] EXCEPT !.pc = "streaming", !.mcp = LastManager + 1])
    /\ UNCHANGED <<gatewaySet, shutting>>

\* wire_agent_runtime, when the agent starts and when its configuration is updated: a new
\* manager, set by set_native_mcp_manager; the old one is not closed.
WireManager ==
    /\ LastManager < MaxManagers
    /\ \E tools \in BOOLEAN :
          managers' = [managers EXCEPT ![LastManager + 1] = [is |-> "open", tools |-> tools, outlived |-> FALSE]]
    /\ mcp' = LastManager + 1
    /\ UNCHANGED <<gatewaySet, shutting, turnRuns>>

-----------------------------------------------------------------------------
\* An event of the engine is passed on; an ErrorEvent as an error, after which more come.
EngineEvent(t) ==
    /\ At(t, "streaming")
    /\ \E e \in BOOLEAN : Become(t, [turnRuns[t] EXCEPT !.error = @ \/ e])
    /\ UNCHANGED <<gatewaySet, shutting, mcp, managers>>

\* The stream of the engine ends: done with the usage.
EngineEnds(t) ==
    /\ At(t, "streaming")
    /\ Become(t, [turnRuns[t] EXCEPT !.pc = "ended", !.mcp = 0, !.done = @ + 1])
    /\ UNCHANGED <<gatewaySet, shutting, mcp, managers>>

\* An exception anywhere after the start: an error, and done without usage.
RunRaises(t) ==
    /\ turnRuns[t].pc \in {"connecting", "streaming"}
    /\ Become(t, [turnRuns[t] EXCEPT !.pc = "ended", !.mcp = 0, !.error = TRUE, !.done = @ + 1])
    /\ UNCHANGED <<gatewaySet, shutting, mcp, managers>>

\* The consumer drops the generator, or its task is cancelled: nothing more is passed on.
DropRun(t) ==
    /\ turnRuns[t].pc \notin {"idle", "ended"} /\ Become(t, NoRun)
    /\ UNCHANGED <<gatewaySet, shutting, mcp, managers>>

-----------------------------------------------------------------------------
\* shutdown closes the manager, which is awaited, and then forgets the current one.  The
\* turns that use the runtime are not asked.
Shutdown ==
    /\ shutting = 0 /\ mcp # 0 /\ shutting' = mcp
    /\ managers' = [managers EXCEPT ![mcp].outlived = TRUE]
    /\ UNCHANGED <<gatewaySet, mcp, turnRuns>>

ShutDown ==
    /\ shutting # 0 /\ shutting' = 0
    /\ managers' = Close(shutting) /\ mcp' = 0
    /\ UNCHANGED <<gatewaySet, turnRuns>>

RuntimeNext ==
    \/ WireManager \/ Shutdown \/ ShutDown
    \/ \E t \in Turns : \/ Run(t) \/ RunRefused(t) \/ CloseStale(t) \/ ConnectManager(t) \/ EngineEvent(t)
                        \/ EngineEnds(t) \/ RunRaises(t) \/ DropRun(t)

RuntimeSpec == RuntimeInit /\ [][RuntimeNext]_runtimeVars

-----------------------------------------------------------------------------
RuntimeTypeOK ==
    /\ gatewaySet \in BOOLEAN /\ shutting \in 0..MaxManagers /\ mcp \in 0..MaxManagers
    /\ managers \in [ManagerIds -> [is : {"none", "open", "closed"}, tools : BOOLEAN, outlived : BOOLEAN]]
    /\ turnRuns \in [Turns -> [pc : {"idle", "closing", "connecting", "streaming", "ended"},
                               mcp : 0..MaxManagers, error : BOOLEAN, done : 0..1]]

\* A turn that replaces the manager takes none away from another: the manager a running
\* turn got its tools from stays open until the turn ends, unless the runtime itself is
\* shut down; and every run that got as far as its engine, or failed on the way there or in
\* it, has ended with done, once.
ToolsStayOpen ==
    \A t \in Turns :
        /\ (At(t, "streaming") /\ HasTools(turnRuns[t].mcp)) =>
              LET m == managers[turnRuns[t].mcp] IN m.is = "open" \/ m.outlived
        /\ At(t, "ended") => turnRuns[t].done = 1

\* "Closes the native MCP manager" (runtime/openharness.py, shutdown): a manager that is
\* open is the runtime's, or in the hands of a turn.
ShutdownForgetsNone ==
    \A m \in ManagerIds : managers[m].is = "open" =>
        mcp = m \/ shutting = m \/ \E t \in Turns : turnRuns[t].mcp = m

=============================================================================

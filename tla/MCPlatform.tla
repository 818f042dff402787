----------------------------- MODULE MCPlatform -----------------------------
(***************************************************************************)
(* The components around the message path, in one run of TLC: a behaviour  *)
(* is one of the component named by part, and the variables of the others  *)
(* keep their initial values, so that the state spaces add up and do not   *)
(* multiply.  None of these modules shares a variable with another.        *)
(***************************************************************************)
EXTENDS H5Chat, Approvals, LLMGateway, PushScheduler, MemoryStore, MemoryInjector,
        AgentRouter, ConfigSync, SkillRegistry, McpManager, AgentRuntime, BrowserAuth, TLC

CONSTANTS tab, ann, \* of Approvals
          hr, crm   \* agents of AgentRouter

VARIABLE part

PlatformInit ==
    /\ part \in {"h5", "approvals", "llm", "push", "memory", "injector",
                 "router", "configs", "skills", "mcp", "runtime", "auth"}
    /\ H5Init /\ ApprovalsInit /\ LLMInit /\ PushInit /\ MemoryInit /\ InjectorInit
    /\ RouterInit /\ ConfigInit /\ SkillsInit /\ McpInit /\ RuntimeInit /\ AuthInit
    /\ part = "configs" \/ configMode = "file_system"  \* Init has a choice
    /\ part = "runtime" \/ gatewaySet

PlatformVars ==
    <<part, h5vars, approvalVars, llmVars, pushVars, memoryVars, injectorVars,
      routerVars, configVars, skillVars, mcpVars, runtimeVars, authVars>>

PlatformNext ==
    /\ UNCHANGED part
    /\ \/ /\ part = "h5"
          /\ UNCHANGED <<approvalVars, llmVars, pushVars, memoryVars, injectorVars, routerVars,
                         configVars, skillVars, mcpVars, runtimeVars, authVars>>
          /\ H5Next
       \/ /\ part = "approvals"
          /\ UNCHANGED <<h5vars, llmVars, pushVars, memoryVars, injectorVars, routerVars,
                         configVars, skillVars, mcpVars, runtimeVars, authVars>>
          /\ ApprovalsNext
       \/ /\ part = "llm"
          /\ UNCHANGED <<h5vars, approvalVars, pushVars, memoryVars, injectorVars, routerVars,
                         configVars, skillVars, mcpVars, runtimeVars, authVars>>
          /\ LLMNext
       \/ /\ part = "push"
          /\ UNCHANGED <<h5vars, approvalVars, llmVars, memoryVars, injectorVars, routerVars,
                         configVars, skillVars, mcpVars, runtimeVars, authVars>>
          /\ PushNext
       \/ /\ part = "memory"
          /\ UNCHANGED <<h5vars, approvalVars, llmVars, pushVars, injectorVars, routerVars,
                         configVars, skillVars, mcpVars, runtimeVars, authVars>>
          /\ MemoryNext
       \/ /\ part = "injector"
          /\ UNCHANGED <<h5vars, approvalVars, llmVars, pushVars, memoryVars, routerVars,
                         configVars, skillVars, mcpVars, runtimeVars, authVars>>
          /\ InjectorNext
       \/ /\ part = "router"
          /\ UNCHANGED <<h5vars, approvalVars, llmVars, pushVars, memoryVars, injectorVars,
                         configVars, skillVars, mcpVars, runtimeVars, authVars>>
          /\ RouterNext
       \/ /\ part = "configs"
          /\ UNCHANGED <<h5vars, approvalVars, llmVars, pushVars, memoryVars, injectorVars,
                         routerVars, skillVars, mcpVars, runtimeVars, authVars>>
          /\ ConfigNext
       \/ /\ part = "skills"
          /\ UNCHANGED <<h5vars, approvalVars, llmVars, pushVars, memoryVars, injectorVars,
                         routerVars, configVars, mcpVars, runtimeVars, authVars>>
          /\ SkillsNext
       \/ /\ part = "mcp"
          /\ UNCHANGED <<h5vars, approvalVars, llmVars, pushVars, memoryVars, injectorVars,
                         routerVars, configVars, skillVars, runtimeVars, authVars>>
          /\ McpNext
       \/ /\ part = "runtime"
          /\ UNCHANGED <<h5vars, approvalVars, llmVars, pushVars, memoryVars, injectorVars,
                         routerVars, configVars, skillVars, mcpVars, authVars>>
          /\ RuntimeNext
       \/ /\ part = "auth"
          /\ UNCHANGED <<h5vars, approvalVars, llmVars, pushVars, memoryVars, injectorVars,
                         routerVars, configVars, skillVars, mcpVars, runtimeVars>>
          /\ AuthNext

PlatformSpec == PlatformInit /\ [][PlatformNext]_PlatformVars

-----------------------------------------------------------------------------
MCCallers == {{}, Accounts}
MCTabUser == tab :> ann
MCLimit == [a \in Accounts |-> 1]
MCPriority == (hr :> 1) @@ (crm :> 1)
MCTexts == {[mentions |-> {hr, crm}, long |-> FALSE], [mentions |-> {crm}, long |-> TRUE]}

=============================================================================

----------------------------- MODULE LLMGateway -----------------------------
(***************************************************************************)
(* The LLM gateway of one Agent Core process (llm/gateway.py) with its     *)
(* failover manager, its keys and the daily token quota in Redis.  Calls   *)
(* run as tasks of one event loop: a step ends where the code awaits.      *)
(***************************************************************************)
EXTENDS Naturals, Sequences, FiniteSets

CONSTANTS CallTasks,         \* calls that may be under way at once
          Callers,           \* the accounts a call may name: its user's, and a department's
          AutoSwitch,        \* LLM_FAILOVER_AUTO_SWITCH
          FailureThreshold,  \* FailoverConfig.failure_threshold
          Limit,             \* daily limit of the user and of the department
          Estimate,          \* max_tokens of a request
          MaxCost            \* bound: tokens a provider reports for one answer

Primary == "deepseek"
Fallback == "qwen"
Providers == {Primary, Fallback}
Accounts == {"user", "dept"}
CostPerCall == 2 * MaxCost

ASSUME LLMAssumption ==
    /\ IsFiniteSet(CallTasks) /\ AutoSwitch \in BOOLEAN
    /\ Callers \subseteq {{}, {"user"}, Accounts}
    /\ FailureThreshold \in Nat \ {0} /\ MaxCost \in Nat \ {0}
    /\ Limit \in [Accounts -> Nat] /\ Estimate \in Nat
    /\ \A a \in Accounts : Estimate <= Limit[a]

VARIABLES
    initialized, \* the keys have been loaded
    healthy,     \* providers that have a key, and it is healthy
    active,      \* _active_provider
    failures,    \* _failure_counts, which matter up to the threshold
    used,        \* the counters of today
    calls        \* the calls under way

llmVars == <<initialized, healthy, active, failures, used, calls>>

Idle == [pc |-> "idle", accounts |-> {}, stream |-> FALSE, left |-> <<>>, tried |-> {}, cost |-> 0]

LLMInit ==
    /\ initialized = FALSE /\ healthy = {}
    /\ active = Primary /\ failures = [p \in Providers |-> 0]
    /\ used = [a \in Accounts |-> 0]
    /\ calls = [t \in CallTasks |-> Idle]

-----------------------------------------------------------------------------
\* initialize, by the lifespan or by the first call: the keys the settings contain.
Initialize ==
    /\ ~initialized /\ initialized' = TRUE
    /\ \E ps \in SUBSET Providers : healthy' = ps
    /\ UNCHANGED <<active, failures, used, calls>>

WithinLimit(a) == used[a] + Estimate <= Limit[a]

\* Mutant: a gateway that has failed over tries the fallback only.
ActiveOnly == IF active = Primary THEN <<Primary, Fallback>> ELSE <<Fallback>>

\* get_failover_providers.
FailoverProviders == IF active = Primary THEN <<Primary, Fallback>> ELSE <<Fallback, Primary>>

\* What check_quota has let pass begins.
Begun(c) == [c EXCEPT !.pc = "dial", !.left = FailoverProviders]

\* chat or chat_stream is called, for a user with or without a department, or without a
\* user_id, which check_quota passes at once: such a call is not charged either.
StartCall(t) ==
    /\ initialized /\ calls[t].pc = "idle"
    /\ \E s \in BOOLEAN, as \in Callers :
          LET c == [Idle EXCEPT !.accounts = as, !.stream = s] IN
          calls' = [calls EXCEPT ![t] = IF as = {} THEN Begun(c) ELSE [c EXCEPT !.pc = "checkUser"]]
    /\ UNCHANGED <<initialized, healthy, active, failures, used>>

\* check_quota reads the two counters one after the other, and the call begins.
CheckUser(t) ==
    /\ calls[t].pc = "checkUser"
    /\ calls' = [calls EXCEPT ![t] = IF ~WithinLimit("user") THEN Idle
                                     ELSE IF "dept" \in @.accounts THEN [@ EXCEPT !.pc = "checkDept"]
                                     ELSE Begun(@)]
    /\ UNCHANGED <<initialized, healthy, active, failures, used>>

CheckDept(t) ==
    /\ calls[t].pc = "checkDept"
    /\ calls' = [calls EXCEPT ![t] = IF WithinLimit("dept") THEN Begun(@) ELSE Idle]
    /\ UNCHANGED <<initialized, healthy, active, failures, used>>

-----------------------------------------------------------------------------
\* record_failure, and the next provider or FailoverExhaustedError.
Failed(t) ==
    LET p == Head(calls[t].left)
        n == IF failures[p] < FailureThreshold THEN failures[p] + 1 ELSE failures[p]
        rest == Tail(calls[t].left)
    IN  /\ failures' = [failures EXCEPT ![p] = n]
        /\ active' = IF p = Primary /\ active = Primary /\ n >= FailureThreshold /\ AutoSwitch
                     THEN Fallback ELSE active
        /\ calls' = [calls EXCEPT ![t] = [calls[t] EXCEPT
                         !.pc = IF rest = <<>> THEN "exhausted" ELSE "dial",
                         !.left = rest, !.tried = calls[t].tried \union {p}]]

\* _call_provider up to the request: without a healthy key it fails at once.
Dial(t) ==
    /\ calls[t].pc = "dial"
    /\ \/ /\ Head(calls[t].left) \in healthy
          /\ calls' = [calls EXCEPT ![t].pc = "asked"]
          /\ UNCHANGED <<active, failures>>
       \/ Head(calls[t].left) \notin healthy /\ Failed(t)
    /\ UNCHANGED <<initialized, healthy, used>>

\* mark_key_invalid, for the key of an authentication error.
KeyInvalidated(p) == healthy \ {p}

\* The provider fails, also in the middle of a stream whose usage it has reported;
\* chat asks whether it was its authentication, chat_stream does not.
ProviderFails(t) ==
    /\ calls[t].pc = "asked"
    /\ Failed(t)
    /\ healthy' \in {healthy} \union (IF calls[t].stream THEN {} ELSE {KeyInvalidated(Head(calls[t].left))})
    /\ UNCHANGED <<initialized, used>>

\* A chunk with the usage of the provider, which a stream adds up over the providers; what
\* nobody will be charged is not counted.
UsageChunk(t) ==
    /\ calls[t].pc = "asked" /\ calls[t].stream /\ calls[t].accounts # {}
    /\ \E n \in 1..MaxCost :
          /\ calls[t].cost + n <= CostPerCall - (Len(calls[t].left) - 1) * MaxCost
          /\ calls' = [calls EXCEPT ![t].cost = @ + n]
    /\ UNCHANGED <<initialized, healthy, active, failures, used>>

\* What is left of a call that has its answer.
Priced(c, cost) == [Idle EXCEPT !.pc = "record", !.accounts = c.accounts, !.cost = cost]

\* The answer, or the end of the stream: record_success.
ProviderAnswers(t) ==
    LET p == Head(calls[t].left) IN
    /\ calls[t].pc = "asked"
    /\ failures' = [failures EXCEPT ![p] = 0]
    /\ \E n \in 0..MaxCost :
          LET cost == IF calls[t].accounts = {} THEN 0 ELSE IF calls[t].stream THEN calls[t].cost ELSE n IN
          calls' = [calls EXCEPT ![t] = IF cost = 0 THEN Idle ELSE Priced(@, cost)]
    /\ UNCHANGED <<initialized, healthy, active, used>>

\* TokenTracker.record awaits the database, a failure of which it only logs; record_usage
\* then charges the user, if there is one.
RecordTokens(t) ==
    /\ calls[t].pc = "record"
    /\ calls' = [calls EXCEPT ![t].pc = "chargeUser"]
    /\ UNCHANGED <<initialized, healthy, active, failures, used>>

\* The call after the counter of its user: that of the department, if it has one, is next.
Charged(c) == IF "dept" \in c.accounts THEN [c EXCEPT !.pc = "chargeDept"] ELSE Idle

\* Mutant: a counter whose answer is late is raised again.
ChargeAgain(t) ==
    /\ calls[t].pc = "chargeUser"
    /\ used' = [used EXCEPT !["user"] = @ + calls[t].cost]
    /\ calls' \in {calls, [calls EXCEPT ![t] = Charged(@)]}
    /\ UNCHANGED <<initialized, healthy, active, failures>>

\* record_usage: the two counters are raised one after the other.
ChargeUser(t) ==
    /\ calls[t].pc = "chargeUser"
    /\ used' = [used EXCEPT !["user"] = @ + calls[t].cost]
    /\ calls' = [calls EXCEPT ![t] = Charged(@)]
    /\ UNCHANGED <<initialized, healthy, active, failures>>

ChargeDept(t) ==
    /\ calls[t].pc = "chargeDept"
    /\ used' = [used EXCEPT !["dept"] = @ + calls[t].cost]
    /\ calls' = [calls EXCEPT ![t] = Idle]
    /\ UNCHANGED <<initialized, healthy, active, failures>>

\* The error has been reported, or the call is cancelled or loses Redis at an await.
EndCall(t) ==
    /\ calls[t].pc # "idle"
    /\ calls' = [calls EXCEPT ![t] = Idle]
    /\ UNCHANGED <<initialized, healthy, active, failures, used>>

-----------------------------------------------------------------------------
\* The date in the keys of the counters changes.
NewDay ==
    /\ used' = [a \in Accounts |-> 0]
    /\ UNCHANGED <<initialized, healthy, active, failures, calls>>

\* Administration: POST /llm/quota/{user_id}/reset and /failover/reset.
ResetQuota ==
    /\ used' = [used EXCEPT !["user"] = 0]
    /\ UNCHANGED <<initialized, healthy, active, failures, calls>>

ResetFailover ==
    /\ active' = Primary /\ failures' = [p \in Providers |-> 0]
    /\ UNCHANGED <<initialized, healthy, used, calls>>

LLMNext ==
    \/ Initialize \/ NewDay \/ ResetQuota \/ ResetFailover
    \/ \E t \in CallTasks :
          \/ StartCall(t) \/ CheckUser(t) \/ CheckDept(t) \/ Dial(t) \/ ProviderFails(t)
          \/ UsageChunk(t) \/ ProviderAnswers(t) \/ RecordTokens(t)
          \/ ChargeUser(t) \/ ChargeDept(t) \/ EndCall(t)

LLMSpec == LLMInit /\ [][LLMNext]_llmVars

-----------------------------------------------------------------------------
Phases == {"idle", "checkUser", "checkDept", "dial", "asked", "record", "chargeUser", "chargeDept", "exhausted"}
Orders == {<<>>, <<Primary>>, <<Fallback>>, <<Primary, Fallback>>, <<Fallback, Primary>>}

LLMTypeOK ==
    /\ initialized \in BOOLEAN /\ healthy \subseteq Providers /\ active \in Providers
    /\ failures \in [Providers -> 0..FailureThreshold]
    /\ used \in [Accounts -> Nat]
    /\ calls \in [CallTasks -> [pc : Phases, accounts : SUBSET Accounts, stream : BOOLEAN, left : Orders,
                                tried : SUBSET Providers, cost : 0..CostPerCall]]

\* The quota of a call that names a user is checked before it and charged after it, with
\* awaits between the two counters: an account is overdrawn at most by what the calls under way at once can
\* cost, whatever they are refused, fail over, or last past midnight.
QuotaOverrunBounded ==
    \A a \in Accounts : used[a] + Estimate <= Limit[a] + Cardinality(CallTasks) * CostPerCall

\* A call fails for want of a provider only after it has tried both, also when the
\* failures of other calls change the active provider under it.
FallbackBeforeFailing ==
    \A t \in CallTasks : calls[t].pc = "exhausted" => calls[t].tried = Providers

=============================================================================

-------------------------- MODULE AgentCoreProofs --------------------------
(***************************************************************************)
(* Theorems about Agent Core around a turn: the LLM gateway, the router of *)
(* messages to agents, the configuration of the agents, the skills and the *)
(* MCP connections, for every value of their constants.                    *)
(***************************************************************************)
EXTENDS LLMGateway, AgentRouter, ConfigSync, SkillRegistry, McpManager, FiniteSetTheorems, TLAPS

-----------------------------------------------------------------------------
(* The LLM gateway.                                                        *)

Call == [pc : Phases, accounts : SUBSET Accounts, stream : BOOLEAN, left : Orders, tried : SUBSET Providers, cost : 0..CostPerCall]

\* The phases between the check of an account and the charge to it.
Owing(a) == IF a = "user" THEN {"checkDept", "dial", "asked", "record", "chargeUser"}
                          ELSE {"dial", "asked", "record", "chargeUser", "chargeDept"}
Owes(c, a) == a \in c.accounts /\ c.pc \in Owing(a)
Committed(a) == {t \in CallTasks : Owes(calls[t], a)}

\* What an account has used with what the calls committed to it may still cost.
Covered(a, u, C) == u + Estimate + Cardinality(C) * CostPerCall
                        <= Limit[a] + Cardinality(CallTasks) * CostPerCall
Budgeted == \A a \in Accounts : Covered(a, used[a], Committed(a))

\* A call that dials still has the providers it has not tried, the next one first.
RestUntried(c) == c.pc \in {"dial", "asked"} =>
    /\ c.left # <<>>
    /\ \A p \in Providers \ c.tried : \E i \in 1..Len(c.left) : c.left[i] = p
TriedAll(c) == c.pc = "exhausted" => c.tried = Providers

\* A call at a counter is one of that account.
Addressed(c) == /\ c.pc \in {"checkUser", "record", "chargeUser"} => "user" \in c.accounts
                /\ c.pc \in {"checkDept", "chargeDept"} => c.accounts = Accounts
Sound(c) == RestUntried(c) /\ TriedAll(c) /\ Addressed(c)

LLMIInv ==
    /\ LLMTypeOK /\ Budgeted
    /\ \A t \in CallTasks : Sound(calls[t])
    /\ \A t \in CallTasks : calls[t].accounts \in {{}, {"user"}, Accounts}

-----------------------------------------------------------------------------
(* Arithmetic of the budget.                                               *)

LEMMA ProductMonotone ==
    ASSUME NEW k \in Nat, NEW n \in Nat, NEW c \in Nat, k <= n
    PROVE  k * c <= n * c /\ k * c \in Nat /\ n * c \in Nat
<1>1. PICK d \in Nat : n = k + d
  <2>1. n - k \in Nat /\ n = k + (n - k)
    OBVIOUS
  <2> QED
    BY <2>1
<1>2. n * c = k * c + d * c /\ d * c \in Nat /\ k * c \in Nat
  BY <1>1
<1> QED
  BY <1>2

LEMMA CostIsNat == CostPerCall \in Nat /\ IsFiniteSet(CallTasks) /\ Estimate \in Nat
                   /\ \A a \in Accounts : Limit[a] \in Nat /\ Estimate <= Limit[a]
  BY LLMAssumption DEF CostPerCall

\* Within the limit every set of calls is covered.
LEMMA WithinIsCovered ==
    ASSUME NEW a \in Accounts, NEW u \in Nat, u + Estimate <= Limit[a], NEW C \in SUBSET CallTasks
    PROVE  Covered(a, u, C)
<1> DEFINE n == Cardinality(CallTasks)
<1> DEFINE k == Cardinality(C)
<1> DEFINE c == CostPerCall
<1>1. k \in Nat /\ n \in Nat /\ k <= n /\ c \in Nat
  BY CostIsNat, FS_Subset, FS_CardinalityType
<1>4. Limit[a] \in Nat /\ Estimate \in Nat
  BY CostIsNat
<1> HIDE DEF n, k, c
<1>2. k * c <= n * c /\ k * c \in Nat /\ n * c \in Nat
  BY <1>1, ProductMonotone
<1>3. u + Estimate + k * c <= Limit[a] + n * c
  BY <1>2, <1>4
<1> QED
  BY <1>3 DEF Covered, n, k, c

\* Fewer calls that have used no more stay covered.
LEMMA FewerAreCovered ==
    ASSUME NEW a \in Accounts, NEW u \in Nat, NEW C \in SUBSET CallTasks, Covered(a, u, C),
           NEW v \in Nat, v <= u, NEW D \in SUBSET C
    PROVE  Covered(a, v, D)
<1> DEFINE n == Cardinality(CallTasks) * CostPerCall
<1> DEFINE k == Cardinality(C)
<1> DEFINE j == Cardinality(D)
<1> DEFINE c == CostPerCall
<1>1. k \in Nat /\ j \in Nat /\ j <= k /\ c \in Nat
  <2>1. IsFiniteSet(C)
    BY CostIsNat, FS_Subset
  <2> QED
    BY <2>1, CostIsNat, FS_Subset, FS_CardinalityType
<1>2. Cardinality(CallTasks) \in Nat
  BY CostIsNat, FS_CardinalityType
<1>3. n \in Nat /\ Limit[a] \in Nat /\ Estimate \in Nat
  BY <1>2, CostIsNat
<1>4. u + Estimate + k * c <= Limit[a] + n
  BY DEF Covered
<1> HIDE DEF n, k, j, c
<1>5. j * c <= k * c /\ j * c \in Nat /\ k * c \in Nat
  BY <1>1, ProductMonotone
<1>6. v + Estimate + j * c <= Limit[a] + n
  BY <1>3, <1>4, <1>5
<1> QED
  BY <1>6 DEF Covered, n, j, c

\* A call that is charged at most its share and is committed no more leaves the others covered.
LEMMA ChargedIsCovered ==
    ASSUME NEW a \in Accounts, NEW u \in Nat, NEW C \in SUBSET CallTasks, Covered(a, u, C),
           NEW t \in C, NEW cost \in 0..CostPerCall
    PROVE  Covered(a, u + cost, C \ {t})
<1> DEFINE n == Cardinality(CallTasks) * CostPerCall
<1> DEFINE k == Cardinality(C)
<1> DEFINE c == CostPerCall
<1>1. IsFiniteSet(C)
  BY CostIsNat, FS_Subset
<1>2. k \in Nat /\ Cardinality(C \ {t}) = k - 1 /\ c \in Nat /\ Cardinality(CallTasks) \in Nat
  BY <1>1, CostIsNat, FS_CardinalityType, FS_RemoveElement
<1>3. n \in Nat /\ Limit[a] \in Nat /\ Estimate \in Nat /\ cost \in 0..c
  BY <1>2, CostIsNat
<1>4. u + Estimate + k * c <= Limit[a] + n
  BY DEF Covered
<1> HIDE DEF n, k, c
<1>5. (k - 1) * c = k * c - c /\ k * c \in Int
  BY <1>2
<1>6. u + cost + Estimate + (k - 1) * c <= Limit[a] + n
  BY <1>3, <1>4, <1>5, <1>2
<1> QED
  BY <1>2, <1>6 DEF Covered, n, k, c
-----------------------------------------------------------------------------
(* Records of calls.                                                       *)

LEMMA CallFields ==
    ASSUME NEW c \in Call
    PROVE  /\ \A x \in Phases : [c EXCEPT !.pc = x] \in Call
           /\ \A x \in Orders : [c EXCEPT !.left = x] \in Call
           /\ \A x \in SUBSET Providers : [c EXCEPT !.tried = x] \in Call
           /\ \A x \in 0..CostPerCall : [c EXCEPT !.cost = x] \in Call
           /\ \A x \in BOOLEAN : [c EXCEPT !.stream = x] \in Call
           /\ \A x \in SUBSET Accounts : [c EXCEPT !.accounts = x] \in Call
  BY DEF Call

LEMMA IdleIsCall == Idle \in Call /\ Idle.pc = "idle" /\ Idle.accounts = {}
  BY CostIsNat DEF Call, Idle, Phases, Orders

LEMMA CallPhase ==
    ASSUME NEW c \in Call, NEW x \in Phases
    PROVE  LET d == [c EXCEPT !.pc = x] IN
           /\ d \in Call /\ d.pc = x /\ d.left = c.left /\ d.tried = c.tried /\ d.cost = c.cost
           /\ d.accounts = c.accounts
  BY CallFields DEF Call

\* A call that goes on with the providers that are left.
GoesOn(c, x, o) == [c EXCEPT !.pc = x, !.left = o]
GoesOnTried(c, x, o, ps) == [c EXCEPT !.pc = x, !.left = o, !.tried = ps]

LEMMA CallPhaseLeft ==
    ASSUME NEW c \in Call, NEW x \in Phases, NEW o \in Orders
    PROVE  /\ GoesOn(c, x, o) \in Call /\ GoesOn(c, x, o).pc = x
           /\ GoesOn(c, x, o).left = o /\ GoesOn(c, x, o).tried = c.tried
           /\ GoesOn(c, x, o).accounts = c.accounts
<1> DEFINE b == [c EXCEPT !.pc = x]
<1>1. b \in Call /\ b.pc = x /\ b.tried = c.tried /\ b.accounts = c.accounts
  BY CallPhase
<1> HIDE DEF b
<1>2. [b EXCEPT !.left = o] \in Call
  BY <1>1, CallFields
<1> DEFINE d == [b EXCEPT !.left = o]
<1>3. d.pc = x /\ d.left = o /\ d.tried = c.tried /\ d.accounts = c.accounts
  BY <1>1 DEF Call
<1> QED
  BY <1>2, <1>3 DEF b, GoesOn

LEMMA CallPhaseLeftTried ==
    ASSUME NEW c \in Call, NEW x \in Phases, NEW o \in Orders, NEW ps \in SUBSET Providers
    PROVE  /\ GoesOnTried(c, x, o, ps) \in Call /\ GoesOnTried(c, x, o, ps).pc = x
           /\ GoesOnTried(c, x, o, ps).left = o /\ GoesOnTried(c, x, o, ps).tried = ps
           /\ GoesOnTried(c, x, o, ps).accounts = c.accounts
<1> DEFINE b == GoesOn(c, x, o)
<1>1. b \in Call /\ b.pc = x /\ b.left = o /\ b.accounts = c.accounts
  BY CallPhaseLeft
<1> HIDE DEF b
<1>2. [b EXCEPT !.tried = ps] \in Call
  BY <1>1, CallFields
<1> DEFINE d == [b EXCEPT !.tried = ps]
<1>3. d.pc = x /\ d.left = o /\ d.tried = ps /\ d.accounts = c.accounts
  BY <1>1 DEF Call
<1> QED
  BY <1>2, <1>3 DEF b, GoesOn, GoesOnTried

\* A call that has its cost.
LEMMA PricedCall ==
    ASSUME NEW c \in Call, NEW n \in 0..CostPerCall
    PROVE  /\ Priced(c, n) \in Call /\ Priced(c, n).pc = "record"
           /\ Priced(c, n).accounts = c.accounts
<1>1. c.accounts \in SUBSET Accounts /\ "record" \in Phases
  BY DEF Call, Phases
<1> DEFINE a == [Idle EXCEPT !.pc = "record"]
<1>2. a \in Call /\ a.pc = "record"
  BY <1>1, IdleIsCall, CallPhase
<1> HIDE DEF a
<1> DEFINE b == [a EXCEPT !.accounts = c.accounts]
<1>3. b \in Call /\ b.pc = "record" /\ b.accounts = c.accounts
  BY <1>1, <1>2, CallFields DEF Call
<1> HIDE DEF b
<1> DEFINE d == [b EXCEPT !.cost = n]
<1>4. d \in Call /\ d.pc = "record" /\ d.accounts = c.accounts
  BY <1>3, CallFields DEF Call
<1> QED
  BY <1>4 DEF a, b, Priced

\* A call as it starts.
LEMMA CallStarts ==
    ASSUME NEW as \in SUBSET Accounts, NEW b \in BOOLEAN
    PROVE  LET c == [Idle EXCEPT !.accounts = as, !.stream = b] IN
           c \in Call /\ c.accounts = as /\ c.pc = "idle"
<1> DEFINE d == [Idle EXCEPT !.accounts = as]
<1>1. d \in Call /\ d.accounts = as /\ d.pc = "idle"
  BY IdleIsCall, CallFields DEF Call, Idle
<1> HIDE DEF d
<1>2. [d EXCEPT !.stream = b] \in Call
  BY <1>1, CallFields
<1> DEFINE e == [d EXCEPT !.stream = b]
<1>3. e.accounts = as /\ e.pc = "idle"
  BY <1>1 DEF Call
<1> QED
  BY <1>2, <1>3 DEF d

\* The providers of a call that begins.
LEMMA BegunCall ==
    ASSUME NEW c \in Call
    PROVE  /\ Begun(c) \in Call /\ Begun(c).pc = "dial" /\ Begun(c).accounts = c.accounts
           /\ Sound(Begun(c))
<1>1. /\ FailoverProviders \in Orders /\ "dial" \in Phases /\ FailoverProviders # <<>>
      /\ \A p \in Providers : \E i \in 1..Len(FailoverProviders) : FailoverProviders[i] = p
  <2>1. FailoverProviders = <<Primary, Fallback>> \/ FailoverProviders = <<Fallback, Primary>>
    BY DEF FailoverProviders
  <2>2. 1 \in 1..2 /\ 2 \in 1..2
    OBVIOUS
  <2> QED
    BY <2>1, <2>2 DEF Orders, Phases, Providers
<1> DEFINE d == GoesOn(c, "dial", FailoverProviders)
<1>2. d = Begun(c)
  BY DEF GoesOn, Begun
<1> HIDE DEF FailoverProviders
<1>3. d \in Call /\ d.pc = "dial" /\ d.left = FailoverProviders /\ d.accounts = c.accounts
  BY <1>1, CallPhaseLeft
<1> HIDE DEF d
<1> QED
  BY <1>1, <1>2, <1>3 DEF Sound, RestUntried, TriedAll, Addressed

\* What is left after the next provider has failed.
LEMMA RestOfOrder ==
    ASSUME NEW o \in Orders, o # <<>>
    PROVE  /\ Tail(o) \in Orders /\ Head(o) \in Providers
           /\ \A p : (\E i \in 1..Len(o) : o[i] = p)
                        => p = Head(o) \/ (Tail(o) # <<>> /\ \E i \in 1..Len(Tail(o)) : Tail(o)[i] = p)
<1>1. ASSUME NEW q, o = <<q>> PROVE Tail(o) = <<>> /\ Head(o) = q /\ Len(o) = 1 /\ o[1] = q
  BY <1>1
<1>2. ASSUME NEW q, NEW r, o = <<q, r>>
      PROVE  Tail(o) = <<r>> /\ Head(o) = q /\ Len(o) = 2 /\ o[1] = q /\ o[2] = r
  BY <1>2
<1>3. \E q \in Providers : o = <<q>> \/ \E r \in Providers : o = <<q, r>> /\ q # r
  BY DEF Orders, Providers, Primary, Fallback
<1>4. PICK q \in Providers : o = <<q>> \/ \E r \in Providers : o = <<q, r>> /\ q # r
  BY <1>3
<1>5. CASE o = <<q>>
  BY <1>1, <1>4, <1>5 DEF Orders
<1>6. ASSUME NEW r \in Providers, o = <<q, r>>, q # r
      PROVE  /\ Tail(o) \in Orders /\ Head(o) \in Providers
             /\ \A p : (\E i \in 1..Len(o) : o[i] = p)
                        => p = Head(o) \/ (Tail(o) # <<>> /\ \E i \in 1..Len(Tail(o)) : Tail(o)[i] = p)
  <2>1. Tail(o) = <<r>> /\ Head(o) = q /\ Len(o) = 2 /\ o[1] = q /\ o[2] = r
    BY <1>2, <1>6
  <2>2. <<r>> \in Orders /\ Len(<<r>>) = 1 /\ <<r>>[1] = r /\ <<r>> # <<>>
    BY DEF Orders, Providers
  <2>3. Tail(o) \in Orders /\ Head(o) \in Providers /\ Tail(o) # <<>>
    BY <2>1, <2>2
  <2>4. ASSUME NEW p, NEW i \in 1..Len(o), o[i] = p
        PROVE  p = Head(o) \/ \E j \in 1..Len(Tail(o)) : Tail(o)[j] = p
    <3>1. i = 1 \/ i = 2
      BY <2>1, <2>4
    <3>2. 1 \in 1..Len(Tail(o)) /\ Tail(o)[1] = r
      BY <2>1, <2>2
    <3> QED
      BY <2>1, <2>4, <3>1, <3>2
  <2> QED
    BY <2>3, <2>4
<1> QED
  BY <1>4, <1>5, <1>6

-----------------------------------------------------------------------------
(* The steps.                                                              *)

LEMMA LLMInitial == LLMInit => LLMIInv
<1> SUFFICES ASSUME LLMInit PROVE LLMIInv
  OBVIOUS
<1>1. LLMTypeOK /\ \A a \in Accounts : used[a] = 0
  <2>1. initialized \in BOOLEAN /\ healthy \subseteq Providers /\ active \in Providers
    BY DEF LLMInit, Providers
  <2>2. failures \in [Providers -> 0..FailureThreshold]
    BY LLMAssumption DEF LLMInit
  <2>3. used \in [Accounts -> Nat] /\ \A a \in Accounts : used[a] = 0
    BY DEF LLMInit
  <2>4. calls \in [CallTasks -> Call]
    BY IdleIsCall DEF LLMInit
  <2> QED
    BY <2>1, <2>2, <2>3, <2>4 DEF LLMTypeOK, Call
<1>2. \A t \in CallTasks : calls[t].pc = "idle" /\ calls[t].accounts = {}
  BY IdleIsCall DEF LLMInit
<1>3. Budgeted
  <2>1. ASSUME NEW a \in Accounts PROVE Covered(a, used[a], Committed(a))
    <3>1. used[a] \in Nat /\ used[a] + Estimate <= Limit[a] /\ Committed(a) \subseteq CallTasks
      BY <1>1, CostIsNat DEF Committed
    <3> QED
      BY <3>1, WithinIsCovered
  <2> QED
    BY <2>1 DEF Budgeted
<1> QED
  BY <1>1, <1>2, <1>3 DEF LLMIInv, Sound, RestUntried, TriedAll, Addressed

\* A step of one call that charges nothing: it may become committed to an account only
\* within its limit.
LEMMA CallMoves ==
    ASSUME LLMIInv, NEW t \in CallTasks, NEW c \in Call, calls' = [calls EXCEPT ![t] = c], used' = used,
           \A a \in Accounts : Owes(c, a) => Owes(calls[t], a) \/ WithinLimit(a),
           Sound(c), c.accounts \in {{}, {"user"}, Accounts},
           initialized' \in BOOLEAN, healthy' \subseteq Providers, active' \in Providers,
           failures' \in [Providers -> 0..FailureThreshold]
    PROVE  LLMIInv'
<1>1. calls \in [CallTasks -> Call] /\ used \in [Accounts -> Nat]
  BY DEF LLMIInv, LLMTypeOK, Call
<1>2. /\ calls' \in [CallTasks -> Call] /\ calls'[t] = c
      /\ \A u \in CallTasks : u # t => calls'[u] = calls[u]
  BY <1>1
<1>3. LLMTypeOK'
  BY <1>1, <1>2 DEF LLMTypeOK, Call
<1>4. \A u \in CallTasks : Sound(calls'[u]) /\ calls'[u].accounts \in {{}, {"user"}, Accounts}
  BY <1>2 DEF LLMIInv
<1>5. ASSUME NEW a \in Accounts PROVE Covered(a, used'[a], Committed(a)')
  <2>1. Committed(a) \in SUBSET CallTasks /\ Committed(a)' \in SUBSET CallTasks /\ used[a] \in Nat
    BY <1>1 DEF Committed
  <2>2. CASE WithinLimit(a)
    BY <2>1, <2>2, WithinIsCovered DEF WithinLimit
  <2>3. CASE ~WithinLimit(a)
    <3>1. Committed(a)' \subseteq Committed(a)
      BY <1>2, <2>3 DEF Committed
    <3>2. Covered(a, used[a], Committed(a))
      BY DEF LLMIInv, Budgeted
    <3> QED
      BY <2>1, <3>1, <3>2, CostIsNat, FewerAreCovered
  <2> QED
    BY <2>2, <2>3
<1>6. Budgeted'
  BY <1>5 DEF Budgeted, Covered
<1> QED
  BY <1>3, <1>4, <1>6 DEF LLMIInv, Sound, RestUntried, TriedAll, Addressed

\* A call that has been answered and is no longer committed is charged.
LEMMA CallCharged ==
    ASSUME LLMIInv, NEW t \in CallTasks, NEW c \in Call, calls' = [calls EXCEPT ![t] = c],
           NEW a \in Accounts, used' = [used EXCEPT ![a] = used[a] + calls[t].cost],
           Owes(calls[t], a), ~Owes(c, a), Sound(c), c.accounts \in {{}, {"user"}, Accounts},
           \A b \in Accounts : Owes(c, b) => Owes(calls[t], b),
           UNCHANGED <<initialized, healthy, active, failures>>
    PROVE  LLMIInv'
<1>1. calls \in [CallTasks -> Call] /\ used \in [Accounts -> Nat] /\ calls[t].cost \in 0..CostPerCall
  BY DEF LLMIInv, LLMTypeOK, Call
<1>2. /\ calls' \in [CallTasks -> Call] /\ calls'[t] = c
      /\ \A u \in CallTasks : u # t => calls'[u] = calls[u]
  BY <1>1
<1>3. used' \in [Accounts -> Nat] /\ used'[a] = used[a] + calls[t].cost
      /\ \A b \in Accounts : b # a => used'[b] = used[b]
  BY <1>1, CostIsNat
<1>4. LLMTypeOK'
  BY <1>1, <1>2, <1>3 DEF LLMIInv, LLMTypeOK, Call
<1>5. \A u \in CallTasks : Sound(calls'[u]) /\ calls'[u].accounts \in {{}, {"user"}, Accounts}
  BY <1>2 DEF LLMIInv
<1>6. ASSUME NEW b \in Accounts PROVE Covered(b, used'[b], Committed(b)')
  <2>1. Committed(b) \in SUBSET CallTasks /\ Committed(b)' \in SUBSET Committed(b) /\ used[b] \in Nat
    BY <1>1, <1>2 DEF Committed
  <2>2. Covered(b, used[b], Committed(b))
    BY DEF LLMIInv, Budgeted
  <2>3. CASE b # a
    BY <1>3, <2>1, <2>2, <2>3, FewerAreCovered
  <2>4. CASE b = a
    <3>1. t \in Committed(a) /\ Committed(a)' \in SUBSET (Committed(a) \ {t})
      BY <1>1, <1>2 DEF Committed
    <3>2. Covered(a, used'[a], Committed(a) \ {t})
      BY <1>1, <1>3, <2>1, <2>2, <2>4, <3>1, ChargedIsCovered
    <3>3. used'[a] \in Nat /\ used'[a] <= used'[a] /\ Committed(a) \ {t} \in SUBSET CallTasks
      BY <1>3, <2>1, <2>4
    <3> QED
      BY <2>4, <3>1, <3>2, <3>3, FewerAreCovered
  <2> QED
    BY <2>3, <2>4
<1>7. Budgeted'
  BY <1>6 DEF Budgeted, Covered
<1> QED
  BY <1>4, <1>5, <1>7 DEF LLMIInv, Sound, RestUntried, TriedAll, Addressed

LEMMA LLMStep == LLMIInv /\ [LLMNext]_llmVars => LLMIInv'
<1> SUFFICES ASSUME LLMIInv, [LLMNext]_llmVars PROVE LLMIInv'
  OBVIOUS
<1>0. /\ initialized \in BOOLEAN /\ healthy \subseteq Providers /\ active \in Providers
      /\ failures \in [Providers -> 0..FailureThreshold] /\ used \in [Accounts -> Nat]
      /\ calls \in [CallTasks -> Call] /\ Budgeted
      /\ \A t \in CallTasks : Sound(calls[t]) /\ calls[t].accounts \in {{}, {"user"}, Accounts}
      /\ CostPerCall \in Nat /\ FailureThreshold \in Nat \ {0}
  BY CostIsNat, LLMAssumption DEF LLMIInv, LLMTypeOK, Call
\* A call may always be given up.
<1>a. ASSUME NEW t \in CallTasks, calls' = [calls EXCEPT ![t] = Idle],
             UNCHANGED <<initialized, healthy, active, used>>,
             failures' \in [Providers -> 0..FailureThreshold]
      PROVE  LLMIInv'
  <2>1. \A a \in Accounts : ~Owes(Idle, a)
    BY IdleIsCall DEF Owes
  <2>2. Sound(Idle)
    BY IdleIsCall DEF Sound, RestUntried, TriedAll, Addressed
  <2> QED
    BY <1>a, <1>0, <2>1, <2>2, IdleIsCall, CallMoves
\* A phase is passed, with nothing else than the phase changed in the call.
<1>b. ASSUME NEW t \in CallTasks, NEW x \in Phases \ {"exhausted"},
             calls' = [calls EXCEPT ![t] = [calls[t] EXCEPT !.pc = x]],
             UNCHANGED <<initialized, healthy, active, used, failures>>,
             x \in {"dial", "asked"} => calls[t].pc \in {"dial", "asked"},
             x \in {"checkUser", "record", "chargeUser"} => "user" \in calls[t].accounts,
             x \in {"checkDept", "chargeDept"} => calls[t].accounts = Accounts,
             \A a \in calls[t].accounts : x \in Owing(a) => calls[t].pc \in Owing(a) \/ WithinLimit(a)
      PROVE  LLMIInv'
  <2> DEFINE c == [calls[t] EXCEPT !.pc = x]
  <2>1. /\ c \in Call /\ c.pc = x /\ c.left = calls[t].left /\ c.tried = calls[t].tried
        /\ c.accounts = calls[t].accounts /\ c.accounts \in {{}, {"user"}, Accounts}
    BY <1>b, <1>0, CallPhase
  <2>2. Sound(c)
    BY <1>b, <1>0, <2>1 DEF Sound, RestUntried, TriedAll, Addressed
  <2>3. calls' = [calls EXCEPT ![t] = c] /\ used' = used
    BY <1>b
  <2>4. \A a \in Accounts : Owes(c, a) => Owes(calls[t], a) \/ WithinLimit(a)
    BY <1>b, <2>1 DEF Owes
  <2>5. /\ initialized' \in BOOLEAN /\ healthy' \subseteq Providers /\ active' \in Providers
        /\ failures' \in [Providers -> 0..FailureThreshold]
    BY <1>b, <1>0
  <2> HIDE DEF c
  <2> QED
    BY <2>1, <2>2, <2>3, <2>4, <2>5, CallMoves
\* A provider fails.
<1>c. ASSUME NEW t \in CallTasks, Failed(t), calls[t].pc \in {"dial", "asked"},
             healthy' \subseteq Providers, UNCHANGED <<initialized, used>>
      PROVE  LLMIInv'
  <2> DEFINE p == Head(calls[t].left)
  <2> DEFINE rest == Tail(calls[t].left)
  <2> DEFINE x == IF rest = <<>> THEN "exhausted" ELSE "dial"
  <2> DEFINE c == GoesOnTried(calls[t], x, rest, calls[t].tried \union {p})
  <2>1. calls[t] \in Call /\ calls[t].left \in Orders /\ calls[t].left # <<>> /\ calls[t].tried \subseteq Providers
    BY <1>c, <1>0 DEF Sound, RestUntried, Call
  <2>2. /\ rest \in Orders /\ p \in Providers
        /\ \A q \in Providers \ (calls[t].tried \union {p}) :
              rest # <<>> /\ \E i \in 1..Len(rest) : rest[i] = q
    BY <1>c, <1>0, <2>1, RestOfOrder DEF Sound, RestUntried
  <2>3. calls' = [calls EXCEPT ![t] = c]
    BY <1>c, Zenon DEF Failed, GoesOnTried
  <2>4. /\ active' \in Providers
        /\ failures' \in [Providers -> 0..FailureThreshold]
    BY <1>c, <1>0, <2>2 DEF Failed, Providers
  <2>5. x \in Phases /\ calls[t].tried \union {p} \in SUBSET Providers
    BY <2>1, <2>2 DEF Phases
  <2> HIDE DEF p, rest, x
  <2>6. c \in Call /\ c.pc = x /\ c.left = rest /\ c.tried = calls[t].tried \union {p}
        /\ c.accounts = calls[t].accounts
    BY <2>1, <2>2, <2>5, CallPhaseLeftTried
  <2>7. Sound(c)
    BY <2>2, <2>5, <2>6 DEF Sound, RestUntried, TriedAll, Addressed, x
  <2>8. \A a \in Accounts : Owes(c, a) => Owes(calls[t], a)
    BY <1>c, <2>6 DEF Owes, Owing, x
  <2> HIDE DEF c
  <2> QED
    BY <1>c, <1>0, <2>3, <2>4, <2>6, <2>7, <2>8, CallMoves
<1>1. CASE Initialize
  BY <1>1, <1>0 DEF Initialize, LLMIInv, LLMTypeOK, Budgeted, Covered, Committed, Call
<1>2. CASE NewDay \/ ResetQuota
  <2>1. used' \in [Accounts -> Nat] /\ \A a \in Accounts : used'[a] <= used[a]
    BY <1>2, <1>0 DEF NewDay, ResetQuota, Accounts
  <2>2. UNCHANGED <<initialized, healthy, active, failures, calls>>
    BY <1>2 DEF NewDay, ResetQuota
  <2>3. ASSUME NEW a \in Accounts PROVE Covered(a, used'[a], Committed(a)')
    <3>1. Committed(a)' = Committed(a) /\ Committed(a) \in SUBSET CallTasks /\ Committed(a) \in SUBSET Committed(a)
      BY <2>2 DEF Committed
    <3>2. used[a] \in Nat /\ used'[a] \in Nat /\ used'[a] <= used[a] /\ Covered(a, used[a], Committed(a))
      BY <1>0, <2>1 DEF Budgeted
    <3> QED
      BY <3>1, <3>2, FewerAreCovered
  <2> QED
    BY <1>0, <2>1, <2>2, <2>3 DEF LLMIInv, LLMTypeOK, Budgeted, Covered, Call
<1>3. CASE ResetFailover
  <2>1. active' \in Providers /\ failures' \in [Providers -> 0..FailureThreshold]
    BY <1>3, <1>0 DEF ResetFailover, Providers
  <2> QED
    BY <1>3, <1>0, <2>1 DEF ResetFailover, LLMIInv, LLMTypeOK, Budgeted, Covered, Committed, Call
<1>4. ASSUME NEW t \in CallTasks, StartCall(t) PROVE LLMIInv'
  <2>1. PICK b \in BOOLEAN, as \in Callers :
           LET c == [Idle EXCEPT !.accounts = as, !.stream = b] IN
           calls' = [calls EXCEPT ![t] = IF as = {} THEN Begun(c) ELSE [c EXCEPT !.pc = "checkUser"]]
    BY <1>4 DEF StartCall
  <2> DEFINE c == [Idle EXCEPT !.accounts = as, !.stream = b]
  <2> DEFINE d == IF as = {} THEN Begun(c) ELSE [c EXCEPT !.pc = "checkUser"]
  <2>5. as \in {{}, {"user"}, Accounts}
    BY <2>1, LLMAssumption
  <2>2. c \in Call /\ c.accounts = as
    <3>1. as \in SUBSET Accounts
      BY LLMAssumption DEF Accounts
    <3> QED
      BY <3>1, CallStarts
  <2>3. calls' = [calls EXCEPT ![t] = d]
    BY <2>1
  <2> HIDE DEF c
  <2>4. d \in Call /\ d.accounts = as /\ Sound(d) /\ \A a \in Accounts : ~Owes(d, a)
    <3>1. CASE as = {}
      BY <2>2, <3>1, BegunCall DEF Owes
    <3>2. CASE as # {}
      <4>1. "checkUser" \in Phases /\ "user" \in as
        BY <2>5, <3>2 DEF Phases, Accounts
      <4>2. d \in Call /\ d.pc = "checkUser" /\ d.accounts = as
        BY <2>2, <3>2, <4>1, CallPhase
      <4> HIDE DEF d
      <4> QED
        BY <4>1, <4>2 DEF Sound, RestUntried, TriedAll, Addressed, Owes, Owing
    <3> QED
      BY <3>1, <3>2
  <2> HIDE DEF d
  <2> QED
    BY <1>4, <1>0, <2>3, <2>4, <2>5, CallMoves DEF StartCall
\* A call passes the last check that is made of it.
<1>d. ASSUME NEW t \in CallTasks, calls' = [calls EXCEPT ![t] = Begun(calls[t])],
             UNCHANGED <<initialized, healthy, active, used, failures>>,
             \A a \in calls[t].accounts : calls[t].pc \in Owing(a) \/ WithinLimit(a)
      PROVE  LLMIInv'
  <2>1. /\ Begun(calls[t]) \in Call /\ Begun(calls[t]).accounts = calls[t].accounts
        /\ Sound(Begun(calls[t]))
    BY <1>0, BegunCall
  <2>2. \A a \in Accounts : Owes(Begun(calls[t]), a) => Owes(calls[t], a) \/ WithinLimit(a)
    BY <1>d, <2>1 DEF Owes
  <2> QED
    BY <1>d, <1>0, <2>1, <2>2, CallMoves
<1>5. ASSUME NEW t \in CallTasks, CheckUser(t) PROVE LLMIInv'
  <2>0. calls[t].pc = "checkUser" /\ UNCHANGED <<initialized, healthy, active, used, failures>>
        /\ calls[t].accounts \in {{}, {"user"}, Accounts}
    BY <1>5, <1>0 DEF CheckUser
  <2>1. CASE WithinLimit("user") /\ "dept" \in calls[t].accounts
    <3>1. calls' = [calls EXCEPT ![t] = [calls[t] EXCEPT !.pc = "checkDept"]]
      BY <1>5, <2>1 DEF CheckUser
    <3>2. "checkDept" \in Phases \ {"exhausted"} /\ calls[t].accounts = Accounts
          /\ \A a \in Accounts : "checkDept" \in Owing(a) => WithinLimit(a)
      BY <2>0, <2>1 DEF Phases, Owing, Accounts
    <3> QED
      BY <2>0, <1>b, <3>1, <3>2
  <2>2. CASE WithinLimit("user") /\ "dept" \notin calls[t].accounts
    <3>1. calls' = [calls EXCEPT ![t] = Begun(calls[t])]
      BY <1>5, <2>2 DEF CheckUser
    <3>2. \A a \in calls[t].accounts : WithinLimit(a)
      BY <2>0, <2>2 DEF Accounts
    <3> QED
      BY <2>0, <1>d, <3>1, <3>2
  <2>3. CASE ~WithinLimit("user")
    BY <1>5, <1>a, <1>0, <2>3 DEF CheckUser
  <2> QED
    BY <2>1, <2>2, <2>3
<1>6. ASSUME NEW t \in CallTasks, CheckDept(t) PROVE LLMIInv'
  <2>0. calls[t].pc = "checkDept" /\ UNCHANGED <<initialized, healthy, active, used, failures>>
    BY <1>6 DEF CheckDept
  <2>1. CASE WithinLimit("dept")
    <3>1. calls' = [calls EXCEPT ![t] = Begun(calls[t])]
      BY <1>6, <2>1 DEF CheckDept
    <3>2. \A a \in Accounts : calls[t].pc \in Owing(a) \/ WithinLimit(a)
      BY <2>0, <2>1 DEF Owing, Accounts
    <3>3. calls[t].accounts \subseteq Accounts
      BY <1>0 DEF Call
    <3> QED
      BY <2>0, <1>d, <3>1, <3>2, <3>3
  <2>2. CASE ~WithinLimit("dept")
    BY <1>6, <1>a, <1>0, <2>2 DEF CheckDept
  <2> QED
    BY <2>1, <2>2
<1>7. ASSUME NEW t \in CallTasks, Dial(t) PROVE LLMIInv'
  <2>1. CASE Failed(t)
    BY <1>7, <1>0, <1>c, <2>1 DEF Dial
  <2>2. CASE calls' = [calls EXCEPT ![t].pc = "asked"] /\ UNCHANGED <<active, failures>>
    <3>1. calls' = [calls EXCEPT ![t] = [calls[t] EXCEPT !.pc = "asked"]] /\ "asked" \in Phases \ {"exhausted"}
      BY <2>2 DEF Phases
    <3> QED
      BY <1>7, <1>b, <2>2, <3>1 DEF Dial, Owing
  <2> QED
    BY <1>7, <2>1, <2>2 DEF Dial
<1>8. ASSUME NEW t \in CallTasks, ProviderFails(t) PROVE LLMIInv'
  <2>1. healthy' \subseteq Providers
    BY <1>8, <1>0 DEF ProviderFails, KeyInvalidated
  <2> QED
    BY <1>8, <1>c, <2>1 DEF ProviderFails
<1>9. ASSUME NEW t \in CallTasks, UsageChunk(t) PROVE LLMIInv'
  <2>1. PICK n \in 1..MaxCost : /\ calls[t].cost + n <= CostPerCall - (Len(calls[t].left) - 1) * MaxCost
                                /\ calls' = [calls EXCEPT ![t].cost = calls[t].cost + n]
    BY <1>9 DEF UsageChunk
  <2>2. calls[t].cost + n \in 0..CostPerCall
    <3>1. calls[t] \in Call /\ calls[t].left \in Orders /\ calls[t].left # <<>> /\ calls[t].cost \in Nat
      BY <1>9, <1>0 DEF UsageChunk, Sound, RestUntried, Call
    <3>2. Len(calls[t].left) - 1 \in {0, 1}
      BY <3>1 DEF Orders
    <3>3. (Len(calls[t].left) - 1) * MaxCost \in Nat
      <4>1. MaxCost \in Nat
        BY LLMAssumption
      <4>2. \A k \in {0, 1} : k * MaxCost \in Nat
        BY <4>1
      <4> QED
        BY <3>2, <4>2
    <3> DEFINE rest == (Len(calls[t].left) - 1) * MaxCost
    <3>4. rest \in Nat /\ calls[t].cost + n <= CostPerCall - rest /\ n \in Nat
      BY <2>1, <3>3, LLMAssumption
    <3> HIDE DEF rest
    <3> QED
      BY <1>0, <3>1, <3>4
  <2> DEFINE c == [calls[t] EXCEPT !.cost = calls[t].cost + n]
  <2>3. c \in Call /\ c.pc = calls[t].pc /\ c.left = calls[t].left /\ c.tried = calls[t].tried
        /\ c.accounts = calls[t].accounts
    <3>1. c \in Call
      BY <1>0, <2>2, CallFields
    <3> QED
      BY <1>0, <3>1 DEF Call
  <2>4. calls' = [calls EXCEPT ![t] = c]
    BY <2>1
  <2>5. Sound(c) /\ \A a \in Accounts : Owes(c, a) => Owes(calls[t], a)
    BY <1>0, <2>3 DEF Sound, RestUntried, TriedAll, Addressed, Owes
  <2> HIDE DEF c
  <2> QED
    BY <1>9, <1>0, <2>3, <2>4, <2>5, CallMoves DEF UsageChunk
<1>10. ASSUME NEW t \in CallTasks, ProviderAnswers(t) PROVE LLMIInv'
  <2>1. PICK n \in 0..MaxCost :
           LET cost == IF calls[t].accounts = {} THEN 0 ELSE IF calls[t].stream THEN calls[t].cost ELSE n IN
           calls' = [calls EXCEPT ![t] = IF cost = 0 THEN Idle ELSE Priced(calls[t], cost)]
    BY <1>10 DEF ProviderAnswers
  <2> DEFINE cost == IF calls[t].accounts = {} THEN 0 ELSE IF calls[t].stream THEN calls[t].cost ELSE n
  <2>2. cost \in 0..CostPerCall
    <3>1. calls[t].cost \in 0..CostPerCall
      BY <1>0 DEF Call
    <3>2. n \in 0..CostPerCall /\ 0 \in 0..CostPerCall
      BY <2>1, LLMAssumption DEF CostPerCall
    <3> QED
      BY <3>1, <3>2
  <2>3. failures' \in [Providers -> 0..FailureThreshold] /\ UNCHANGED <<initialized, healthy, active, used>>
    <3>1. 0 \in 0..FailureThreshold
      BY <1>0
    <3>2. failures' = [failures EXCEPT ![Head(calls[t].left)] = 0]
      BY <1>10 DEF ProviderAnswers
    <3> QED
      BY <1>10, <1>0, <3>1, <3>2 DEF ProviderAnswers
  <2>4. CASE cost = 0
    BY <1>a, <2>1, <2>3, <2>4
  <2>5. CASE cost # 0
    <3> DEFINE c == Priced(calls[t], cost)
    <3>1. calls' = [calls EXCEPT ![t] = c]
      BY <2>1, <2>5
    <3>2. calls[t] \in Call /\ "user" \in calls[t].accounts
      BY <1>0, <2>5 DEF Accounts
    <3> HIDE DEF cost
    <3>3. c \in Call /\ c.pc = "record" /\ c.accounts = calls[t].accounts
      <4>1. cost \in 0..CostPerCall
        BY <2>2
      <4> QED
        BY <3>2, <4>1, PricedCall
    <3>4. Sound(c)
      BY <1>0, <3>2, <3>3 DEF Sound, RestUntried, TriedAll, Addressed
    <3>5. \A a \in Accounts : Owes(c, a) => Owes(calls[t], a)
      BY <1>10, <3>3 DEF ProviderAnswers, Owes, Owing
    <3> HIDE DEF c
    <3> QED
      BY <1>0, <2>3, <3>1, <3>3, <3>4, <3>5, CallMoves
  <2> QED
    BY <2>4, <2>5
<1>11. ASSUME NEW t \in CallTasks, RecordTokens(t) PROVE LLMIInv'
  <2>0. calls[t].pc = "record" /\ UNCHANGED <<initialized, healthy, active, used, failures>>
        /\ calls[t].accounts \in {{}, {"user"}, Accounts}
    BY <1>11, <1>0 DEF RecordTokens
  <2>1. /\ calls' = [calls EXCEPT ![t] = [calls[t] EXCEPT !.pc = "chargeUser"]]
        /\ "chargeUser" \in Phases \ {"exhausted"} /\ "user" \in calls[t].accounts
    BY <1>11, <1>0, <2>0 DEF RecordTokens, Phases, Accounts, Sound, Addressed
  <2> QED
    BY <1>b, <2>0, <2>1 DEF Owing
<1>12. ASSUME NEW t \in CallTasks, ChargeUser(t) PROVE LLMIInv'
  <2> DEFINE c == Charged(calls[t])
  <2>0. /\ calls[t].pc = "chargeUser" /\ "user" \in calls[t].accounts /\ calls[t] \in Call
        /\ calls[t].accounts \in {{}, {"user"}, Accounts}
    BY <1>12, <1>0 DEF ChargeUser, Sound, Addressed
  <2>1. /\ c \in Call /\ c.pc \in {"chargeDept", "idle"} /\ c.accounts \in {{}, calls[t].accounts}
        /\ c.pc = "chargeDept" => c.accounts = Accounts
    <3>1. CASE "dept" \in calls[t].accounts
      <4>1. "chargeDept" \in Phases /\ calls[t].accounts = Accounts
        BY <2>0, <3>1 DEF Phases
      <4> QED
        BY <2>0, <3>1, <4>1, CallPhase DEF Charged
    <3>2. CASE "dept" \notin calls[t].accounts
      BY <3>2, IdleIsCall DEF Charged
    <3> QED
      BY <3>1, <3>2
  <2>2. calls' = [calls EXCEPT ![t] = c] /\ used' = [used EXCEPT !["user"] = used["user"] + calls[t].cost]
    BY <1>12 DEF ChargeUser
  <2> HIDE DEF c
  <2>3. /\ "user" \in Accounts /\ Owes(calls[t], "user") /\ ~Owes(c, "user")
        /\ \A b \in Accounts : Owes(c, b) => Owes(calls[t], b)
        /\ Sound(c) /\ c.accounts \in {{}, {"user"}, Accounts}
    BY <2>0, <2>1 DEF Owes, Owing, Accounts, Sound, RestUntried, TriedAll, Addressed
  <2> QED
    BY <1>12, <2>1, <2>2, <2>3, CallCharged DEF ChargeUser
<1>13. ASSUME NEW t \in CallTasks, ChargeDept(t) PROVE LLMIInv'
  <2>1. /\ calls' = [calls EXCEPT ![t] = Idle] /\ used' = [used EXCEPT !["dept"] = used["dept"] + calls[t].cost]
        /\ UNCHANGED <<initialized, healthy, active, failures>>
    BY <1>13 DEF ChargeDept
  <2>2. /\ "dept" \in Accounts /\ Owes(calls[t], "dept")
        /\ \A b \in Accounts : ~Owes(Idle, b)
    BY <1>13, <1>0, IdleIsCall DEF ChargeDept, Owes, Owing, Accounts, Sound, Addressed
  <2>3. Sound(Idle) /\ Idle.accounts \in {{}, {"user"}, Accounts}
    BY IdleIsCall DEF Sound, RestUntried, TriedAll, Addressed
  <2> QED
    BY <2>1, <2>2, <2>3, IdleIsCall, CallCharged
<1>14. ASSUME NEW t \in CallTasks, EndCall(t) PROVE LLMIInv'
  BY <1>14, <1>a, <1>0 DEF EndCall
<1>15. CASE UNCHANGED llmVars
  BY <1>15, <1>0 DEF llmVars, LLMIInv, LLMTypeOK, Budgeted, Covered, Committed, Call
<1> QED
  BY <1>1, <1>2, <1>3, <1>4, <1>5, <1>6, <1>7, <1>8, <1>9, <1>10, <1>11, <1>12, <1>13, <1>14, <1>15
  DEF LLMNext

\* For any number of calls and any limits: the day's counters pass a limit by at most
\* what the calls that may be under way at once can cost (check_quota, record_usage).
THEOREM QuotaKept == LLMSpec => []QuotaOverrunBounded
<1>1. LLMIInv => QuotaOverrunBounded
  <2> SUFFICES ASSUME LLMIInv, NEW a \in Accounts
               PROVE  used[a] + Estimate <= Limit[a] + Cardinality(CallTasks) * CostPerCall
    BY DEF QuotaOverrunBounded
  <2> DEFINE n == Cardinality(CallTasks) * CostPerCall
  <2>1. Covered(a, used[a], Committed(a)) /\ used[a] \in Nat
    BY DEF LLMIInv, LLMTypeOK, Budgeted
  <2>2. Committed(a) \in SUBSET CallTasks /\ {} \in SUBSET Committed(a)
    BY DEF Committed
  <2>3. Covered(a, used[a], {})
    BY <2>1, <2>2, FewerAreCovered
  <2>4. Cardinality({}) * CostPerCall = 0
    BY CostIsNat, FS_EmptySet
  <2>5. Limit[a] \in Nat /\ Estimate \in Nat
    BY CostIsNat
  <2> QED
    BY <2>1, <2>3, <2>4, <2>5 DEF Covered
<1> QED
  BY <1>1, LLMInitial, LLMStep, PTL DEF LLMSpec

\* No call fails for want of a provider that it has not tried (get_failover_providers).
THEOREM BothTried == LLMSpec => []FallbackBeforeFailing
<1>1. LLMIInv => FallbackBeforeFailing
  BY DEF LLMIInv, Sound, TriedAll, FallbackBeforeFailing
<1> QED
  BY <1>1, LLMInitial, LLMStep, PTL DEF LLMSpec

-----------------------------------------------------------------------------
(* The agent router.                                                       *)

Candidate == [agent : AgentIds, enabled : BOOLEAN]

Routes == [pc : {"idle", "begin", "affinity", "semantic", "bind", "log"},
           text : [mentions : SUBSET AgentIds, long : BOOLEAN], enabled : SUBSET AgentIds,
           agent : AgentIds \union {NoAgent},
           strategy : {"none", "session_affinity", "keyword_matching", "semantic_retrieval",
                       "default_fallback"}]

(* Place i of the list goes before place j.                                            *)
Before(i, j) == \/ Priority[list[i].agent] > Priority[list[j].agent]
                \/ Priority[list[i].agent] = Priority[list[j].agent] /\ i <= j

LEMMA BeforeIsTotal ==
    ASSUME list \in Seq(Candidate)
    PROVE  \A i, j, k \in 1..Len(list) : /\ Before(i, j) \/ Before(j, i)
                                         /\ Before(i, j) /\ Before(j, k) => Before(i, k)
<1> TAKE i, j, k \in 1..Len(list)
<1>1. /\ Priority[list[i].agent] \in Int /\ Priority[list[j].agent] \in Int
      /\ Priority[list[k].agent] \in Int
  <2>1. list[i] \in Candidate /\ list[j] \in Candidate /\ list[k] \in Candidate OBVIOUS
  <2> QED BY <2>1, RouterAssumption DEF Candidate
<1>2. i \in Int /\ j \in Int /\ k \in Int OBVIOUS
<1> QED BY <1>1, <1>2 DEF Before

(* Some place goes before all the others.                                              *)
LEMMA SomeIsBest ==
    ASSUME list \in Seq(Candidate), NEW S \in SUBSET (1..Len(list)), S # {}
    PROVE  \E i \in S : \A j \in S : Before(i, j)
<1> DEFINE Bad == {U \in FiniteSubsetsOf(S) : U # {} /\ ~ \E i \in U : \A j \in U : Before(i, j)}
<1>1. IsFiniteSet(S) /\ Len(list) \in Nat
  <2>1. Len(list) \in Nat OBVIOUS
  <2>2. IsFiniteSet(1..Len(list)) BY <2>1, FS_Interval
  <2> QED BY <2>1, <2>2, FS_Subset
<1>2. S \in FiniteSubsetsOf(S) BY <1>1 DEF FiniteSubsetsOf
<1>3. ASSUME Bad # {} PROVE FALSE
  <2>1. IsWellFoundedOn(StrictSubsetOrdering(S), FiniteSubsetsOf(S))
    BY <1>1, FS_StrictSubsetOrderingWellFounded
  <2>2. PICK U \in Bad : \A V \in Bad : ~ (<<V, U>> \in StrictSubsetOrdering(S))
    <3> HIDE DEF Bad
    <3>1. Bad \subseteq FiniteSubsetsOf(S) BY DEF Bad
    <3> QED BY <1>3, <2>1, <3>1, WFMin
  <2>3. U \in SUBSET S /\ IsFiniteSet(U) /\ U # {} BY DEF FiniteSubsetsOf
  <2>4. PICK i \in U : TRUE BY <2>3
  <2> DEFINE V == U \ {i}
  <2>5. V \in FiniteSubsetsOf(S) /\ <<V, U>> \in StrictSubsetOrdering(S)
    BY <2>3, <2>4, FS_RemoveElement DEF FiniteSubsetsOf, StrictSubsetOrdering
  <2>6. V = {} \/ \E k \in V : \A j \in V : Before(k, j) BY <2>2, <2>5
  <2>7. \A j, k \in U : Before(j, k) \/ Before(k, j) BY <2>3, BeforeIsTotal
  <2>8. \E k \in U : \A j \in U : Before(k, j)
    <3>1. CASE V = {} BY <2>3, <2>4, <2>7, <3>1
    <3>2. ASSUME NEW k \in V, \A j \in V : Before(k, j) PROVE \E m \in U : \A j \in U : Before(m, j)
      <4>1. CASE Before(k, i) BY <2>4, <3>2, <4>1
      <4>2. CASE Before(i, k)
        <5>1. \A j \in V : Before(i, j) BY <2>3, <2>4, <3>2, <4>2, BeforeIsTotal
        <5> QED BY <2>4, <2>7, <5>1
      <4> QED BY <2>4, <2>7, <4>1, <4>2
    <3> QED BY <2>6, <3>1, <3>2
  <2> QED BY <2>2, <2>8
<1> QED BY <1>2, <1>3

LEMMA EnabledAre ==
    ASSUME NEW cs
    PROVE  \A a : a \in Enabled(cs) <=> \E i \in DOMAIN cs : cs[i].enabled /\ cs[i].agent = a
BY DEF Enabled, ToSet

LEMMA EnabledTypes ==
    ASSUME NEW cs \in Seq(Candidate)
    PROVE  Enabled(cs) \subseteq AgentIds
<1> SUFFICES ASSUME NEW a \in Enabled(cs) PROVE a \in AgentIds OBVIOUS
<1>1. PICK i \in DOMAIN cs : cs[i].agent = a BY EnabledAre
<1>2. cs[i] \in Candidate BY <1>1
<1> QED BY <1>1, <1>2 DEF Candidate

(* What the keywords choose is a candidate, and enabled.                               *)
LEMMA BestIsEnabled ==
    ASSUME list \in Seq(Candidate), NEW text, KeywordMatches(text) # {}
    PROVE  BestOf(KeywordMatches(text)) \in Enabled(list)
<1> DEFINE S == KeywordMatches(text)
           b == CHOOSE i \in S : \A j \in S : Before(i, j)
<1>1. S \in SUBSET (1..Len(list)) /\ S # {} BY DEF KeywordMatches
<1>2. b \in S
  <2> HIDE DEF S
  <2>1. \E i \in S : \A j \in S : Before(i, j) BY <1>1, SomeIsBest
  <2> QED BY <2>1
<1>3. BestOf(S) = list[b].agent BY DEF BestOf, Before
<1> HIDE DEF b
<1> QED BY <1>2, <1>3, EnabledAre DEF KeywordMatches

LEMMA WithoutIsList ==
    ASSUME list \in Seq(Candidate), NEW a
    PROVE  Without(a) \in Seq(Candidate)
<1>1. CASE \E i \in DOMAIN list : list[i].agent = a
  <2> DEFINE k == CHOOSE i \in DOMAIN list : list[i].agent = a
  <2>1. k \in 1..Len(list) BY <1>1
  <2>2. Without(a) = RemoveAt(list, k) BY <1>1 DEF Without
  <2> HIDE DEF k
  <2>3. SubSeq(list, 1, k - 1) \in Seq(Candidate) /\ SubSeq(list, k + 1, Len(list)) \in Seq(Candidate)
    BY <2>1
  <2> QED BY <2>2, <2>3 DEF RemoveAt
<1>2. CASE ~ \E i \in DOMAIN list : list[i].agent = a BY <1>2 DEF Without
<1> QED BY <1>1, <1>2

-----------------------------------------------------------------------------
(* A request x, with the agents offered to it and the agent st that was bound and enabled
   ever since it began, while the agents of on are enabled and b is bound.              *)
RouteFits(x, off, st, on, b) ==
    /\ x.pc \in {"idle", "begin", "affinity", "semantic"} => x.agent = NoAgent /\ x.strategy = "none"
    /\ x.pc # "idle" => on \subseteq off
    /\ x.pc \in {"affinity", "semantic"} => x.enabled \subseteq off
    /\ x.strategy \notin {"none", "default_fallback"} => x.agent \in off
    /\ st # NoAgent => st = b /\ b \in on
    /\ x.pc = "affinity" /\ st # NoAgent => st \in x.enabled
    /\ x.pc = "semantic" => st = NoAgent
    /\ x.agent # NoAgent /\ st # NoAgent => x.agent = st

RouterIInv ==
    /\ RouterTypeOK
    /\ \A r \in RouteRequests : RouteFits(route[r], offered[r], steady[r], Enabled(list), binding)

LEMMA RouterTypes ==
    ASSUME RouterIInv
    PROVE  /\ list \in Seq(Candidate) /\ binding \in AgentIds \union {NoAgent}
           /\ route \in [RouteRequests -> Routes]
           /\ offered \in [RouteRequests -> SUBSET AgentIds]
           /\ steady \in [RouteRequests -> AgentIds \union {NoAgent}]
           /\ NoAgent \notin AgentIds /\ DefaultAgent \in AgentIds
           /\ Enabled(list) \subseteq AgentIds
<1>1. list \in Seq(Candidate) BY DEF RouterIInv, RouterTypeOK, Candidate
<1> QED BY <1>1, EnabledTypes, RouterAssumption DEF RouterIInv, RouterTypeOK, Routes

LEMMA RouterInitial ==
    ASSUME RouterInit PROVE RouterIInv
<1>1. NoRoute \in Routes BY DEF NoRoute, Routes
<1>2. RouterTypeOK BY <1>1 DEF RouterInit, RouterTypeOK, Routes
<1>3. \A r \in RouteRequests : RouteFits(route[r], offered[r], steady[r], Enabled(list), binding)
  BY DEF RouterInit, RouteFits, NoRoute
<1> QED BY <1>2, <1>3 DEF RouterIInv

(* What is noted when candidates or the binding change.                                *)
LEMMA Witnessed ==
    ASSUME RouterIInv, NEW cs \in Seq(Candidate), NEW b \in AgentIds \union {NoAgent}, Witness(cs, b)
    PROVE  /\ offered' \in [RouteRequests -> SUBSET AgentIds]
           /\ steady' \in [RouteRequests -> AgentIds \union {NoAgent}]
           /\ \A r \in RouteRequests : RouteFits(route[r], offered'[r], steady'[r], Enabled(cs), b)
<1>1. Enabled(cs) \subseteq AgentIds BY EnabledTypes
<1>2. offered' \in [RouteRequests -> SUBSET AgentIds] /\ steady' \in [RouteRequests -> AgentIds \union {NoAgent}]
  BY <1>1, RouterTypes DEF Witness
<1>3. ASSUME NEW r \in RouteRequests
      PROVE  RouteFits(route[r], offered'[r], steady'[r], Enabled(cs), b)
  <2>1. RouteFits(route[r], offered[r], steady[r], Enabled(list), binding) BY DEF RouterIInv
  <2>2. /\ offered'[r] = IF route[r].pc = "idle" THEN {} ELSE offered[r] \union Enabled(cs)
        /\ steady'[r] = IF steady[r] = b /\ b \in Enabled(cs) THEN b ELSE NoAgent
    BY DEF Witness
  <2>3. steady'[r] # NoAgent => steady'[r] = steady[r] /\ steady'[r] = b /\ b \in Enabled(cs) BY <2>2
  <2>4. route[r].pc # "idle" => offered[r] \subseteq offered'[r] /\ Enabled(cs) \subseteq offered'[r] BY <2>2
  <2>5. NoAgent \notin AgentIds BY RouterAssumption
  <2>6. route[r].pc = "semantic" => steady'[r] = NoAgent BY <2>1, <2>3, <2>5, <1>1 DEF RouteFits
  <2> QED BY <2>1, <2>3, <2>4, <2>6 DEF RouteFits
<1> QED BY <1>2, <1>3

(* A step of one request, that leaves candidates and binding alone.                    *)
LEMMA RequestMoves ==
    ASSUME RouterIInv, NEW r \in RouteRequests, NEW x \in Routes, NEW off \in SUBSET AgentIds,
           NEW st \in AgentIds \union {NoAgent}, UNCHANGED <<list, binding>>,
           route' = [route EXCEPT ![r] = x], offered' = [offered EXCEPT ![r] = off],
           steady' = [steady EXCEPT ![r] = st],
           RouteFits(x, off, st, Enabled(list), binding)
    PROVE  RouterIInv'
<1>1. RouterTypeOK' BY RouterTypes DEF RouterIInv, RouterTypeOK, Routes
<1>2. \A q \in RouteRequests : RouteFits(route'[q], offered'[q], steady'[q], Enabled(list'), binding')
  <2> TAKE q \in RouteRequests
  <2>1. CASE q = r BY <2>1, RouterTypes
  <2>2. CASE q # r
    <3>1. route'[q] = route[q] /\ offered'[q] = offered[q] /\ steady'[q] = steady[q] BY <2>2, RouterTypes
    <3> QED BY <3>1 DEF RouterIInv
  <2> QED BY <2>1, <2>2
<1> QED BY <1>1, <1>2 DEF RouterIInv

LEMMA MatchedMoves ==
    ASSUME RouterIInv, NEW r \in RouteRequests, route[r].pc # "idle",
           NEW a \in AgentIds, NEW strategy \in {"session_affinity", "keyword_matching",
                                              "semantic_retrieval", "default_fallback"},
           Matched(r, a, strategy), NEW st \in {steady[r], NoAgent},
           strategy # "default_fallback" => a \in offered[r], st # NoAgent => a = st,
           steady' = [steady EXCEPT ![r] = st], UNCHANGED <<list, binding, offered>>
    PROVE  RouterIInv'
<1> DEFINE pc == IF strategy = "default_fallback" THEN "log" ELSE "bind"
           x == [NoRoute EXCEPT !.pc = pc, !.agent = a, !.strategy = strategy]
<1>1. route' = [route EXCEPT ![r] = x] BY Zenon DEF Matched
<1>2. x \in Routes /\ x.pc = pc /\ x.agent = a /\ x.strategy = strategy
  BY DEF Routes, NoRoute
<1> HIDE DEF x
<1>3. RouteFits(x, offered[r], st, Enabled(list), binding)
  <2>1. RouteFits(route[r], offered[r], steady[r], Enabled(list), binding) BY DEF RouterIInv
  <2> QED BY <1>2, <2>1 DEF RouteFits
<1>4. offered' = [offered EXCEPT ![r] = offered[r]] /\ offered[r] \in SUBSET AgentIds
      /\ st \in AgentIds \union {NoAgent}
  BY RouterTypes
<1> QED BY <1>1, <1>2, <1>3, <1>4, RequestMoves

LEMMA ChainMoves ==
    ASSUME RouterIInv, NEW r \in RouteRequests, route[r].pc = "affinity", NextStrategies(r),
           steady' = [steady EXCEPT ![r] = NoAgent], UNCHANGED <<list, binding, offered>>
    PROVE  RouterIInv'
<1>0. RouteFits(route[r], offered[r], steady[r], Enabled(list), binding) BY DEF RouterIInv
<1> DEFINE matches == KeywordMatches(route[r].text)
<1>1. CASE matches # {}
  <2>1. BestOf(matches) \in Enabled(list) BY <1>1, RouterTypes, BestIsEnabled
  <2>2. BestOf(matches) \in AgentIds /\ BestOf(matches) \in offered[r]
    BY <2>1, <1>0, RouterTypes DEF RouteFits
  <2>3. Matched(r, BestOf(matches), "keyword_matching") BY <1>1 DEF NextStrategies
  <2> HIDE DEF matches
  <2> QED BY <2>2, <2>3, MatchedMoves
<1>2. CASE matches = {} /\ route[r].text.long
  <2> DEFINE x == [route[r] EXCEPT !.pc = "semantic", !.enabled = Enabled(list)]
  <2>1. route' = [route EXCEPT ![r].pc = "semantic", ![r].enabled = Enabled(list)]
    BY <1>2 DEF NextStrategies, Goto
  <2>2. route' = [route EXCEPT ![r] = x] BY <2>1
  <2>3. route[r] \in Routes /\ Enabled(list) \subseteq AgentIds BY RouterTypes
  <2>4. /\ x \in Routes /\ x.pc = "semantic" /\ x.enabled = Enabled(list)
        /\ x.agent = route[r].agent /\ x.strategy = route[r].strategy
    BY <2>3 DEF Routes
  <2> HIDE DEF x
  <2>5. RouteFits(x, offered[r], NoAgent, Enabled(list), binding) BY <1>0, <2>4 DEF RouteFits
  <2>6. offered' = [offered EXCEPT ![r] = offered[r]] /\ offered[r] \in SUBSET AgentIds BY RouterTypes
  <2> QED BY <2>2, <2>4, <2>5, <2>6, RequestMoves
<1>3. CASE matches = {} /\ ~route[r].text.long
  <2>1. Matched(r, DefaultAgent, "default_fallback") BY <1>3 DEF NextStrategies
  <2> QED BY <2>1, RouterTypes, MatchedMoves
<1> QED BY <1>1, <1>2, <1>3

LEMMA EndMoves ==
    ASSUME RouterIInv, NEW r \in RouteRequests, EndRoute(r)
    PROVE  RouterIInv'
<1>1. RouterTypeOK'
  <2>1. NoRoute \in Routes BY DEF NoRoute, Routes
  <2> QED BY <2>1, RouterTypes DEF EndRoute, RouterIInv, RouterTypeOK, Routes
<1>2. ASSUME NEW q \in RouteRequests
      PROVE  RouteFits(route'[q], offered'[q], steady'[q], Enabled(list'), binding')
  <2>1. RouteFits(route[q], offered[q], steady[q], Enabled(list), binding) BY DEF RouterIInv
  <2>2. steady'[q] = IF q # r /\ steady[q] = binding' THEN binding' ELSE NoAgent BY DEF EndRoute
  <2>3. CASE q = r
    <3>1. route'[q] = NoRoute /\ steady'[q] = NoAgent BY <2>2, <2>3, RouterTypes DEF EndRoute
    <3> QED BY <3>1 DEF RouteFits, NoRoute
  <2>4. CASE q # r
    <3>1. route'[q] = route[q] /\ offered'[q] = offered[q] /\ list' = list
      BY <2>4, RouterTypes DEF EndRoute
    <3>2. steady'[q] # NoAgent => steady'[q] = steady[q] /\ steady'[q] = binding' BY <2>2
    <3>3. steady'[q] # NoAgent => binding' \in Enabled(list) BY <2>1, <3>2 DEF RouteFits
    <3>4. route[q].pc = "semantic" => steady'[q] = NoAgent BY <2>1, <3>2 DEF RouteFits
    <3> QED BY <2>1, <3>1, <3>2, <3>3, <3>4 DEF RouteFits
  <2> QED BY <2>3, <2>4
<1> QED BY <1>1, <1>2 DEF RouterIInv

LEMMA RouterStep ==
    ASSUME RouterIInv, [RouterNext]_routerVars
    PROVE  RouterIInv'
<1> USE RouterTypes
<1>1. ASSUME NEW a \in AgentIds, UpdateCandidates(a) PROVE RouterIInv'
  <2>1. list' \in Seq(Candidate)
    <3>1. Without(a) \in Seq(Candidate) BY WithoutIsList
    <3>2. ASSUME NEW on \in BOOLEAN PROVE [agent |-> a, enabled |-> on] \in Candidate BY DEF Candidate
    <3>3. ASSUME NEW on \in BOOLEAN PROVE Append(Without(a), [agent |-> a, enabled |-> on]) \in Seq(Candidate)
      BY <3>1, <3>2
    <3> QED BY <1>1, <3>1, <3>3 DEF UpdateCandidates
  <2>2. Witness(list', binding) /\ UNCHANGED <<binding, route>> BY <1>1 DEF UpdateCandidates
  <2>3. /\ offered' \in [RouteRequests -> SUBSET AgentIds]
        /\ steady' \in [RouteRequests -> AgentIds \union {NoAgent}]
        /\ \A r \in RouteRequests : RouteFits(route[r], offered'[r], steady'[r], Enabled(list'), binding)
    BY <2>1, <2>2, Witnessed
  <2> QED BY <2>1, <2>2, <2>3 DEF RouterIInv, RouterTypeOK, Candidate
<1>2. CASE LoseBinding
  <2>1. Witness(list, NoAgent) /\ binding' = NoAgent /\ UNCHANGED <<list, route>> BY <1>2 DEF LoseBinding
  <2>2. /\ offered' \in [RouteRequests -> SUBSET AgentIds]
        /\ steady' \in [RouteRequests -> AgentIds \union {NoAgent}]
        /\ \A r \in RouteRequests : RouteFits(route[r], offered'[r], steady'[r], Enabled(list), NoAgent)
    BY <2>1, Witnessed
  <2> QED BY <2>1, <2>2 DEF RouterIInv, RouterTypeOK
<1>3. ASSUME NEW r \in RouteRequests, NEW text \in Texts, BeginRoute(r, text) PROVE RouterIInv'
  <2> DEFINE x == [route[r] EXCEPT !.pc = "begin", !.text = text]
             st == IF binding \in Enabled(list) THEN binding ELSE NoAgent
  <2>1. /\ route' = [route EXCEPT ![r] = x] /\ offered' = [offered EXCEPT ![r] = Enabled(list)]
        /\ steady' = [steady EXCEPT ![r] = st] /\ UNCHANGED <<list, binding>> /\ route[r].pc = "idle"
    BY <1>3 DEF BeginRoute
  <2>2. text \in [mentions : SUBSET AgentIds, long : BOOLEAN] BY RouterAssumption
  <2>3. /\ x \in Routes /\ x.pc = "begin" /\ x.agent = route[r].agent /\ x.strategy = route[r].strategy
    <3>1. route[r] \in Routes OBVIOUS
    <3> QED BY <3>1, <2>2 DEF Routes
  <2> HIDE DEF x
  <2>4. RouteFits(route[r], offered[r], steady[r], Enabled(list), binding) BY DEF RouterIInv
  <2>5. RouteFits(x, Enabled(list), st, Enabled(list), binding) BY <2>1, <2>3, <2>4 DEF RouteFits
  <2>6. st \in AgentIds \union {NoAgent} OBVIOUS
  <2> HIDE DEF st
  <2> QED BY <2>1, <2>3, <2>5, <2>6, RequestMoves
<1>4. ASSUME NEW r \in RouteRequests, GotContext(r) PROVE RouterIInv'
  <2> DEFINE x == [route[r] EXCEPT !.pc = "affinity", !.enabled = Enabled(list)]
  <2>1. /\ route' = [route EXCEPT ![r] = x] /\ offered' = [offered EXCEPT ![r] = offered[r]]
        /\ steady' = [steady EXCEPT ![r] = steady[r]] /\ UNCHANGED <<list, binding>>
        /\ route[r].pc = "begin"
    BY <1>4 DEF GotContext, Goto
  <2>3. /\ x \in Routes /\ x.pc = "affinity" /\ x.agent = route[r].agent /\ x.strategy = route[r].strategy
        /\ x.enabled = Enabled(list)
    BY DEF Routes
  <2> HIDE DEF x
  <2>4. RouteFits(route[r], offered[r], steady[r], Enabled(list), binding) BY DEF RouterIInv
  <2>5. RouteFits(x, offered[r], steady[r], Enabled(list), binding) BY <2>1, <2>3, <2>4 DEF RouteFits
  <2>6. offered[r] \in SUBSET AgentIds /\ steady[r] \in AgentIds \union {NoAgent} OBVIOUS
  <2> QED BY <2>1, <2>3, <2>5, <2>6, RequestMoves
<1>5. ASSUME NEW r \in RouteRequests, AffinityAnswers(r) PROVE RouterIInv'
  <2>1. RouteFits(route[r], offered[r], steady[r], Enabled(list), binding) BY DEF RouterIInv
  <2>2. route[r].pc = "affinity" /\ UNCHANGED <<list, binding, offered, steady>> BY <1>5 DEF AffinityAnswers
  <2>3. steady' = [steady EXCEPT ![r] = steady[r]] BY <2>2
  <2>4. CASE Bound(r)
    <3>1. binding \in AgentIds /\ binding \in offered[r]
      <4>1. route[r] \in Routes OBVIOUS
      <4>2. binding \in route[r].enabled BY <2>4 DEF Bound
      <4> QED BY <4>1, <4>2, <2>1, <2>2 DEF RouteFits, Routes
    <3>2. Matched(r, binding, "session_affinity") BY <1>5, <2>4 DEF AffinityAnswers
    <3>3. steady[r] # NoAgent => binding = steady[r] BY <2>1 DEF RouteFits
    <3> QED BY <2>2, <2>3, <3>1, <3>2, <3>3, MatchedMoves
  <2>5. CASE ~Bound(r)
    <3>1. steady[r] = NoAgent BY <2>1, <2>2, <2>5 DEF RouteFits, Bound
    <3>2. NextStrategies(r) BY <1>5, <2>5 DEF AffinityAnswers
    <3> QED BY <2>2, <2>3, <3>1, <3>2, ChainMoves
  <2> QED BY <2>4, <2>5
<1>6. ASSUME NEW r \in RouteRequests, AffinityFails(r) PROVE RouterIInv'
  BY <1>6, ChainMoves DEF AffinityFails
<1>7. ASSUME NEW r \in RouteRequests, NEW top \in AgentIds \union {NoAgent}, SemanticAnswers(r, top)
      PROVE  RouterIInv'
  <2>1. RouteFits(route[r], offered[r], steady[r], Enabled(list), binding) BY DEF RouterIInv
  <2>2. route[r].pc = "semantic" /\ UNCHANGED <<list, binding, offered, steady>> BY <1>7 DEF SemanticAnswers
  <2>3. steady' = [steady EXCEPT ![r] = steady[r]] /\ steady[r] = NoAgent BY <2>1, <2>2 DEF RouteFits
  <2>4. CASE top \in route[r].enabled
    <3>1. top \in AgentIds /\ top \in offered[r]
      <4>1. route[r] \in Routes OBVIOUS
      <4> QED BY <4>1, <2>1, <2>2, <2>4 DEF RouteFits, Routes
    <3>2. Matched(r, top, "semantic_retrieval") BY <1>7, <2>4 DEF SemanticAnswers
    <3> QED BY <2>2, <2>3, <3>1, <3>2, MatchedMoves
  <2>5. CASE top \notin route[r].enabled
    <3>1. Matched(r, DefaultAgent, "default_fallback") BY <1>7, <2>5 DEF SemanticAnswers
    <3> QED BY <2>2, <2>3, <3>1, MatchedMoves
  <2> QED BY <2>4, <2>5
<1>8. ASSUME NEW r \in RouteRequests, Bind(r) PROVE RouterIInv'
  <2> DEFINE x == [route[r] EXCEPT !.pc = "log"]
  <2>1. /\ route[r].pc = "bind" /\ binding' = route[r].agent /\ route' = [route EXCEPT ![r] = x]
        /\ Witness(list, binding') /\ list' = list
    BY <1>8 DEF Bind
  <2>2. route[r] \in Routes OBVIOUS
  <2>3. /\ x \in Routes /\ x.pc = "log" /\ x.agent = route[r].agent /\ x.strategy = route[r].strategy
    BY <2>2 DEF Routes
  <2>4. binding' \in AgentIds \union {NoAgent} BY <2>1, <2>2 DEF Routes
  <2> HIDE DEF x
  <2>5. /\ offered' \in [RouteRequests -> SUBSET AgentIds]
        /\ steady' \in [RouteRequests -> AgentIds \union {NoAgent}]
        /\ \A q \in RouteRequests : RouteFits(route[q], offered'[q], steady'[q], Enabled(list), binding')
    BY <2>1, <2>4, Witnessed
  <2>6. RouteFits(x, offered'[r], steady'[r], Enabled(list), binding')
    <3>1. RouteFits(route[r], offered'[r], steady'[r], Enabled(list), binding') BY <2>5
    <3> QED BY <3>1, <2>1, <2>3 DEF RouteFits
  <2>7. route' \in [RouteRequests -> Routes] /\ route'[r] = x
        /\ \A q \in RouteRequests \ {r} : route'[q] = route[q]
    BY <2>1, <2>3
  <2>8. \A q \in RouteRequests : RouteFits(route'[q], offered'[q], steady'[q], Enabled(list'), binding')
    BY <2>1, <2>5, <2>6, <2>7
  <2> QED BY <2>1, <2>4, <2>5, <2>7, <2>8 DEF RouterIInv, RouterTypeOK, Routes
<1>9. ASSUME NEW r \in RouteRequests, LogRoute(r) \/ RouteRaises(r) PROVE RouterIInv'
  BY <1>9, EndMoves DEF LogRoute, RouteRaises
<1>10. CASE UNCHANGED routerVars BY <1>10 DEF routerVars, RouterIInv, RouterTypeOK
<1> QED BY <1>1, <1>2, <1>3, <1>4, <1>5, <1>6, <1>7, <1>8, <1>9, <1>10 DEF RouterNext

(* An agent that was enabled at no moment of a request is not given it,    *)
(* unless as the default (router/agent_router.py).                         *)
THEOREM CandidatesRouted == RouterSpec => []RoutedToCandidates
<1>1. RouterInit => RouterIInv BY RouterInitial
<1>2. RouterIInv /\ [RouterNext]_routerVars => RouterIInv' BY RouterStep
<1>3. RouterIInv => RoutedToCandidates BY DEF RouterIInv, RouteFits, RoutedToCandidates
<1> QED BY <1>1, <1>2, <1>3, PTL DEF RouterSpec

(* As long as a session stays bound to an agent that stays enabled, no     *)
(* request of it goes elsewhere.                                           *)
THEOREM Continuity == RouterSpec => []ContinuityKept
<1>1. RouterInit => RouterIInv BY RouterInitial
<1>2. RouterIInv /\ [RouterNext]_routerVars => RouterIInv' BY RouterStep
<1>3. RouterIInv => ContinuityKept BY DEF RouterIInv, RouteFits, ContinuityKept
<1> QED BY <1>1, <1>2, <1>3, PTL DEF RouterSpec

-----------------------------------------------------------------------------
(* The configuration.                                                      *)

AgentDir == [is : {"none", "dir", "yaml"}, ver : Nat, mtime : Nat, content : Contents]

ConfigTypes ==
    /\ configMode \in {"file_system", "dual"} /\ edits \in Nat
    /\ files \in [ConfigIds -> AgentDir]
    /\ phase \in {"down", "syncing", "up"} /\ watching \in BOOLEAN
    /\ mtimes \in [ConfigIds -> Nat] /\ configs \in [ConfigIds -> Nat]
    /\ candidates \in [ConfigIds -> Nat]
    /\ \A h \in handlers : h \in [agent : ConfigIds, change : {"created", "updated", "deleted"},
                                  pc : {"start", "file_to_db"}, ver : Nat]
    /\ \A s \in saves : s \in [agent : ConfigIds, ver : Nat]

(* No version and no time is newer than the last edit, and a file that is there has both. *)
VersionsFit(f, m, e) ==
    /\ f.is = "yaml" => 1 <= f.ver /\ f.ver <= e /\ 1 <= f.mtime /\ f.mtime <= e
    /\ f.is # "yaml" => f.ver = 0 /\ f.mtime = 0
    /\ m <= e

(* A poll of a watcher whose time in the snapshot is m leaves nothing of f unnoticed.     *)
InSight(f, m) == f.mtime = m \/ f.mtime > m \/ f.mtime = 0

(* What cache c and candidate k of an agent are, whose directory is f and whose time in the
   snapshot is m: without a snapshot, what was loaded; with one, a file of another time
   will be noticed, and what was noticed and handled has been followed.                  *)
Followed(f, m, c, k, polled, pending) ==
    /\ ~polled => c = k /\ c = IF f.is = "yaml" /\ f.content # "unparsable" THEN f.ver ELSE 0
    /\ polled => InSight(f, m)
    /\ polled /\ ~pending =>
          /\ m = f.mtime /\ f.is = "yaml" /\ f.content = "ok" => c = f.ver /\ k = f.ver
          /\ m = f.mtime /\ f.is = "none" => c = 0 /\ k = 0
          /\ m = 0 => k = 0

Pending(hs, a) == \E h \in hs : h.agent = a

(* What Followed says of every agent, in the next state too.                            *)
AllFollowed == \A a \in ConfigIds \ unseen :
    Followed(files[a], mtimes[a], configs[a], candidates[a], watching, Pending(handlers, a))

FilesFollowed ==
    /\ phase \in {"down", "up"} /\ saves = {}
    /\ phase = "down" => ~watching
    /\ \A h \in handlers : /\ h.pc = "start" /\ phase = "up" /\ watching
                           /\ h.change = "deleted" <=> mtimes[h.agent] = 0
    /\ phase = "up" => AllFollowed

ConfigIInv ==
    /\ ConfigTypes
    /\ \A a \in ConfigIds : VersionsFit(files[a], mtimes[a], edits)
    /\ configMode = "file_system" => FilesFollowed

LEMMA ConfigInitial ==
    ASSUME ConfigInit PROVE ConfigIInv
<1>1. ConfigTypes BY DEF ConfigInit, ConfigTypes, AgentDir, NoDirectory, NoConfigs, Contents
<1>2. \A a \in ConfigIds : VersionsFit(files[a], mtimes[a], edits)
  BY DEF ConfigInit, VersionsFit, NoDirectory, NoConfigs
<1>3. FilesFollowed BY DEF ConfigInit, FilesFollowed
<1> QED BY <1>1, <1>2, <1>3 DEF ConfigIInv

(* The steps of the process as a whole.                                                *)
LEMMA ProcessSteps ==
    ASSUME ConfigIInv, InitializeConfigs \/ SyncAll \/ TakeSnapshot \/ StopConfigs
    PROVE  ConfigIInv'
<1>1. \A a \in ConfigIds : files[a] \in AgentDir BY DEF ConfigIInv, ConfigTypes
<1>2. CASE InitializeConfigs
  <2>1. configs' \in [ConfigIds -> Nat] BY <1>1, <1>2 DEF InitializeConfigs, AgentDir
  <2>2. ConfigTypes' BY <1>2, <2>1 DEF InitializeConfigs, ConfigIInv, ConfigTypes
  <2>3. \A a \in ConfigIds : VersionsFit(files'[a], mtimes'[a], edits')
    BY <1>2 DEF InitializeConfigs, ConfigIInv, VersionsFit
  <2>4. ASSUME configMode' = "file_system" PROVE FilesFollowed'
    <3>1. FilesFollowed /\ phase' = "up" /\ candidates' = configs' /\ phase = "down" /\ handlers' = handlers
          /\ files' = files /\ watching' = watching /\ saves' = saves
      BY <1>2, <2>4 DEF InitializeConfigs, ConfigIInv
    <3>2. handlers = {} BY <3>1 DEF FilesFollowed
    <3>3. \A a \in ConfigIds : configs'[a] = IF Loads(a) THEN files[a].ver ELSE 0
      BY <1>2 DEF InitializeConfigs
    <3>4. \A a \in ConfigIds : configs'[a] = candidates'[a] BY <3>1
    <3>5. ASSUME NEW a \in ConfigIds
          PROVE  Followed(files'[a], mtimes'[a], configs'[a], candidates'[a], watching', Pending(handlers', a))
      <4>1. ~watching' /\ files'[a] = files[a] BY <3>1 DEF FilesFollowed
      <4> QED BY <3>3, <3>4, <4>1 DEF Followed, InSight, Loads
    <3>6. AllFollowed' BY <3>5 DEF AllFollowed
    <3> QED BY <3>1, <3>2, <3>6 DEF FilesFollowed
  <2> QED BY <2>2, <2>3, <2>4 DEF ConfigIInv
<1>3. CASE SyncAll
  <2>1. configMode # "file_system" /\ configMode' = configMode
    BY <1>3 DEF SyncAll, ConfigIInv, FilesFollowed
  <2>2. ConfigTypes' BY <1>3 DEF SyncAll, ConfigIInv, ConfigTypes
  <2>3. \A a \in ConfigIds : VersionsFit(files'[a], mtimes'[a], edits')
    BY <1>3 DEF SyncAll, ConfigIInv, VersionsFit
  <2> QED BY <2>1, <2>2, <2>3 DEF ConfigIInv
<1>4. CASE TakeSnapshot
  <2>1. mtimes' \in [ConfigIds -> Nat] /\ \A a \in ConfigIds : mtimes'[a] = files[a].mtime
    BY <1>1, <1>4 DEF TakeSnapshot, YamlTimes, AgentDir
  <2>2. ConfigTypes' BY <1>4, <2>1 DEF TakeSnapshot, ConfigIInv, ConfigTypes
  <2>3. \A a \in ConfigIds : VersionsFit(files'[a], mtimes'[a], edits')
    BY <1>1, <1>4, <2>1 DEF TakeSnapshot, ConfigIInv, VersionsFit, AgentDir, ConfigTypes
  <2>4. ASSUME configMode' = "file_system" PROVE FilesFollowed'
    <3>1. FilesFollowed /\ phase' = phase /\ handlers' = handlers /\ saves' = saves /\ ~watching
          /\ watching' = TRUE /\ unseen' = unseen /\ phase # "down"
      BY <1>4, <2>4 DEF TakeSnapshot, ConfigIInv
    <3>2. handlers = {} BY <3>1 DEF FilesFollowed
    <3>3. ASSUME phase = "up", NEW a \in ConfigIds \ unseen
          PROVE  Followed(files'[a], mtimes'[a], configs'[a], candidates'[a], watching', Pending(handlers', a))
      <4>1. /\ configs[a] = candidates[a]
            /\ configs[a] = IF files[a].is = "yaml" /\ files[a].content # "unparsable" THEN files[a].ver ELSE 0
        BY <3>1, <3>3 DEF FilesFollowed, AllFollowed, Followed
      <4>2. mtimes'[a] = files[a].mtime /\ files'[a] = files[a] /\ configs'[a] = configs[a]
            /\ candidates'[a] = candidates[a]
        BY <1>4, <2>1 DEF TakeSnapshot
      <4>3. /\ files[a].is \in {"none", "dir", "yaml"} /\ files[a].mtime \in Nat /\ files[a].ver \in Nat
            /\ files[a].is = "yaml" => files[a].mtime # 0
            /\ files[a].is # "yaml" => files[a].ver = 0
        BY <1>1 DEF ConfigIInv, VersionsFit, AgentDir
      <4>4. /\ files[a].is = "yaml" /\ files[a].content = "ok" =>
                  configs[a] = files[a].ver /\ candidates[a] = files[a].ver
            /\ files[a].is # "yaml" => configs[a] = 0 /\ candidates[a] = 0
        BY <4>1, <4>3
      <4> QED BY <3>1, <4>2, <4>3, <4>4 DEF Followed, InSight
    <3>4. phase = "up" => AllFollowed' BY <3>1, <3>3 DEF AllFollowed
    <3> QED BY <3>1, <3>2, <3>4 DEF FilesFollowed
  <2> QED BY <2>2, <2>3, <2>4 DEF ConfigIInv
<1>5. CASE StopConfigs
  <2>1. NoConfigs \in [ConfigIds -> Nat] /\ \A a \in ConfigIds : NoConfigs[a] = 0 BY DEF NoConfigs
  <2>2. ConfigTypes' BY <1>5, <2>1 DEF StopConfigs, ConfigIInv, ConfigTypes
  <2>3. \A a \in ConfigIds : VersionsFit(files'[a], mtimes'[a], edits')
    BY <1>1, <1>5, <2>1 DEF StopConfigs, ConfigIInv, VersionsFit, AgentDir, ConfigTypes
  <2>4. FilesFollowed' BY <1>5 DEF StopConfigs, FilesFollowed
  <2> QED BY <2>2, <2>3, <2>4 DEF ConfigIInv
<1> QED BY <1>2, <1>3, <1>4, <1>5

LEMMA PollStep ==
    ASSUME ConfigIInv, Poll
    PROVE  ConfigIInv'
<1> DEFINE changed == {a \in ConfigIds : ChangeOf(a) # "same"}
           started == {[agent |-> a, change |-> ChangeOf(a), pc |-> "start", ver |-> 0] : a \in changed}
<1>1. /\ phase # "down" /\ watching /\ \A h \in handlers : h.pc # "start"
      /\ mtimes' = YamlTimes /\ handlers' = handlers \union started
      /\ unseen' = (unseen \ changed) \union {a \in ConfigIds : files[a].is = "dir" /\ mtimes[a] # 0}
      /\ UNCHANGED <<configMode, edits, files, phase, watching, configs, candidates, dbRows, saves>>
  BY DEF Poll
<1>2. \A a \in ConfigIds : files[a] \in AgentDir BY DEF ConfigIInv, ConfigTypes
<1>3. mtimes' \in [ConfigIds -> Nat] /\ \A a \in ConfigIds : mtimes'[a] = files[a].mtime
  BY <1>1, <1>2 DEF YamlTimes, AgentDir
<1>4. \A a \in changed : /\ ChangeOf(a) \in {"created", "updated", "deleted"}
                         /\ ChangeOf(a) = "deleted" <=> files[a].mtime = 0
  <2> TAKE a \in changed
  <2>1. files[a] \in AgentDir /\ mtimes[a] \in Nat /\ VersionsFit(files[a], mtimes[a], edits) /\ edits \in Nat
    BY DEF ConfigIInv, ConfigTypes
  <2> QED BY <2>1 DEF ChangeOf, VersionsFit, AgentDir
<1>5. \A h \in started : /\ h \in [agent : ConfigIds, change : {"created", "updated", "deleted"},
                                   pc : {"start", "file_to_db"}, ver : Nat]
                         /\ h.pc = "start" /\ (h.change = "deleted" <=> mtimes'[h.agent] = 0)
  BY <1>3, <1>4
<1>6. \A a \in changed : Pending(started, a)
  <2> TAKE a \in changed
  <2> DEFINE h == [agent |-> a, change |-> ChangeOf(a), pc |-> "start", ver |-> 0]
  <2>1. h \in started /\ h.agent = a OBVIOUS
  <2> HIDE DEF h, started
  <2> QED BY <2>1 DEF Pending
<1>7. \A a \in ConfigIds \ changed :
          \/ files[a].mtime = mtimes[a] \/ (files[a].is = "dir" /\ mtimes[a] # 0)
          \/ files[a].mtime # 0 /\ files[a].mtime < mtimes[a]
  <2> TAKE a \in ConfigIds \ changed
  <2>1. files[a] \in AgentDir /\ mtimes[a] \in Nat /\ VersionsFit(files[a], mtimes[a], edits) /\ edits \in Nat
    BY DEF ConfigIInv, ConfigTypes
  <2> QED BY <2>1 DEF ChangeOf, VersionsFit, AgentDir
<1> HIDE DEF changed, started
<1>8. ConfigTypes' BY <1>1, <1>3, <1>5 DEF ConfigIInv, ConfigTypes
<1>9. \A a \in ConfigIds : VersionsFit(files'[a], mtimes'[a], edits')
  BY <1>1, <1>2, <1>3 DEF ConfigIInv, VersionsFit, AgentDir, ConfigTypes
<1>10. ASSUME configMode' = "file_system" PROVE FilesFollowed'
  <2>1. FilesFollowed /\ phase = "up" BY <1>1, <1>10 DEF ConfigIInv, FilesFollowed
  <2>2. handlers = {} /\ handlers' = started BY <1>1, <2>1 DEF FilesFollowed
  <2>3. ASSUME NEW a \in ConfigIds \ unseen'
        PROVE  Followed(files'[a], mtimes'[a], configs'[a], candidates'[a], watching', Pending(handlers', a))
    <3>1. CASE a \in changed BY <1>1, <1>3, <1>6, <2>2, <3>1 DEF Followed, InSight
    <3>2. CASE a \notin changed
      <4>1. a \notin unseen /\ ~(files[a].is = "dir" /\ mtimes[a] # 0) BY <1>1, <3>2
      <4>2. Followed(files[a], mtimes[a], configs[a], candidates[a], watching, Pending(handlers, a))
        BY <2>1, <4>1 DEF FilesFollowed, AllFollowed
      <4>5. files[a].mtime = mtimes[a]
        <5>1. files[a].mtime \in Nat /\ mtimes[a] \in Nat BY <1>2 DEF AgentDir, ConfigIInv, ConfigTypes
        <5> QED BY <1>1, <1>7, <3>2, <4>1, <4>2, <5>1 DEF Followed, InSight
      <4>3. ~Pending(handlers, a) BY <2>2 DEF Pending
      <4>4. mtimes'[a] = mtimes[a] BY <1>3, <4>5
      <4> QED BY <1>1, <4>2, <4>3, <4>4 DEF Followed, InSight
    <3> QED BY <3>1, <3>2
  <2>4. AllFollowed' BY <2>3 DEF AllFollowed
  <2> QED BY <1>1, <1>5, <2>1, <2>2, <2>4 DEF FilesFollowed
<1> QED BY <1>8, <1>9, <1>10 DEF ConfigIInv

(* A step that changes the directory, the cache or the candidate of one agent.          *)
LEMMA AgentStep ==
    ASSUME ConfigIInv, NEW a \in ConfigIds, NEW f \in AgentDir, NEW c \in Nat, NEW k \in Nat,
           UNCHANGED <<configMode, phase, watching, mtimes, handlers>>,
           edits' \in Nat, edits <= edits', VersionsFit(f, mtimes[a], edits'),
           files' = [files EXCEPT ![a] = f], configs' = [configs EXCEPT ![a] = c],
           candidates' = [candidates EXCEPT ![a] = k],
           \A s \in saves' : s \in [agent : ConfigIds, ver : Nat],
           configMode = "file_system" => saves' = {},
           unseen \subseteq unseen', unseen' \subseteq unseen \union {a},
           configMode = "file_system" /\ phase = "up" /\ a \notin unseen' =>
               Followed(f, mtimes[a], c, k, watching, Pending(handlers, a))
    PROVE  ConfigIInv'
<1>1. ConfigTypes' BY DEF ConfigIInv, ConfigTypes
<1>2. ASSUME NEW b \in ConfigIds
      PROVE  /\ files'[b] = IF b = a THEN f ELSE files[b]
             /\ configs'[b] = IF b = a THEN c ELSE configs[b]
             /\ candidates'[b] = IF b = a THEN k ELSE candidates[b]
  BY DEF ConfigIInv, ConfigTypes
<1>3. ASSUME NEW b \in ConfigIds PROVE VersionsFit(files'[b], mtimes'[b], edits')
  <2>1. VersionsFit(files[b], mtimes[b], edits) BY DEF ConfigIInv
  <2>2. files[b] \in AgentDir /\ mtimes[b] \in Nat /\ edits \in Nat BY DEF ConfigIInv, ConfigTypes
  <2> QED BY <1>2, <2>1, <2>2 DEF VersionsFit, AgentDir
<1>4. ASSUME configMode' = "file_system" PROVE FilesFollowed'
  <2>1. FilesFollowed BY <1>4 DEF ConfigIInv
  <2>2. ASSUME phase = "up", NEW b \in ConfigIds \ unseen'
        PROVE  Followed(files'[b], mtimes'[b], configs'[b], candidates'[b], watching', Pending(handlers', b))
    <3>1. CASE b = a BY <1>2, <1>4, <2>2, <3>1
    <3>2. CASE b # a BY <1>2, <2>1, <2>2, <3>2 DEF FilesFollowed, AllFollowed
    <3> QED BY <3>1, <3>2
  <2>3. phase = "up" => AllFollowed' BY <2>2 DEF AllFollowed
  <2> QED BY <1>4, <2>1, <2>3 DEF FilesFollowed
<1> QED BY <1>1, <1>3, <1>4 DEF ConfigIInv

(* An edit of the files of one agent; the poll that follows will see it.                *)
LEMMA EditFilesStep ==
    ASSUME ConfigIInv, NEW a \in ConfigIds, EditFiles(a)
    PROVE  ConfigIInv'
<1>1. /\ files[a] \in AgentDir /\ mtimes[a] \in Nat /\ edits \in Nat /\ VersionsFit(files[a], mtimes[a], edits)
      /\ configs[a] \in Nat /\ candidates[a] \in Nat /\ unseen' \subseteq unseen \union {a}
      /\ unseen \subseteq unseen' /\ configs = [configs EXCEPT ![a] = configs[a]]
      /\ candidates = [candidates EXCEPT ![a] = candidates[a]]
      /\ \A s \in saves : s \in [agent : ConfigIds, ver : Nat]
      /\ UNCHANGED <<configMode, phase, watching, mtimes, handlers, configs, candidates, saves>>
      /\ configMode = "file_system" => saves = {}
  BY DEF ConfigIInv, ConfigTypes, EditFiles, FilesFollowed
<1>2. PICK f \in AgentDir : /\ files' = [files EXCEPT ![a] = f] /\ edits' \in Nat /\ edits <= edits'
                            /\ VersionsFit(f, mtimes[a], edits')
  <2>1. CASE edits' = edits + 1 /\ \E c \in Contents, t \in 1..(edits + 1) :
                                      files' = [files EXCEPT ![a] = Yaml(edits + 1, t, c)]
    <3>1. PICK c \in Contents, t \in 1..(edits + 1) : files' = [files EXCEPT ![a] = Yaml(edits + 1, t, c)]
      BY <2>1
    <3> DEFINE y == Yaml(edits + 1, t, c)
    <3>2. y \in AgentDir /\ VersionsFit(y, mtimes[a], edits + 1)
      BY <1>1 DEF Yaml, AgentDir, VersionsFit
    <3>3. files' = [files EXCEPT ![a] = y] /\ edits' = edits + 1 BY <2>1, <3>1
    <3>4. edits' \in Nat /\ edits <= edits' BY <1>1, <3>3
    <3>5. VersionsFit(y, mtimes[a], edits') BY <3>2, <3>3
    <3> HIDE DEF y
    <3> QED BY <3>2, <3>3, <3>4, <3>5
  <2>2. CASE edits' = edits /\ \E g \in {NoDirectory, NoYaml} : files' = [files EXCEPT ![a] = g]
    <3>1. PICK g \in {NoDirectory, NoYaml} : files' = [files EXCEPT ![a] = g] BY <2>2
    <3>2. g \in AgentDir /\ VersionsFit(g, mtimes[a], edits) /\ g.is # "yaml"
      BY <1>1, <3>1 DEF NoDirectory, NoYaml, AgentDir, VersionsFit, Contents
    <3>3. edits' \in Nat /\ edits <= edits' /\ VersionsFit(g, mtimes[a], edits') BY <1>1, <2>2, <3>2
    <3> QED BY <3>1, <3>2, <3>3
  <2> QED BY <2>1, <2>2 DEF EditFiles
<1>3. files'[a] = f BY <1>2 DEF ConfigIInv, ConfigTypes
<1>4. ASSUME configMode = "file_system", phase = "up", a \notin unseen'
      PROVE  Followed(f, mtimes[a], configs[a], candidates[a], watching, Pending(handlers, a))
  <2>1. a \notin unseen /\ watching /\ Noticed(a, f)
    BY <1>3, <1>4 DEF EditFiles, Noticed
  <2>2. Followed(files[a], mtimes[a], configs[a], candidates[a], watching, Pending(handlers, a))
    BY <1>4, <2>1 DEF ConfigIInv, FilesFollowed, AllFollowed
  <2>3. mtimes[a] # f.mtime /\ (f.mtime > mtimes[a] \/ f.mtime = 0)
    BY <1>1, <1>2, <2>1 DEF Noticed, VersionsFit, AgentDir
  <2>4. mtimes[a] = 0 /\ ~Pending(handlers, a) => candidates[a] = 0 BY <2>1, <2>2 DEF Followed, InSight
  <2> QED BY <2>1, <2>3, <2>4 DEF Followed, InSight
<1> QED BY <1>1, <1>2, <1>4, AgentStep

LEMMA GetConfigStep ==
    ASSUME ConfigIInv, NEW a \in ConfigIds, GetConfig(a)
    PROVE  ConfigIInv'
<1>1. /\ files[a] \in AgentDir /\ mtimes[a] \in Nat /\ edits \in Nat /\ VersionsFit(files[a], mtimes[a], edits)
      /\ configs[a] = 0 /\ candidates[a] \in Nat /\ files[a].ver \in Nat /\ Loads(a)
      /\ unseen \subseteq unseen' /\ unseen' \subseteq unseen \union {a}
      /\ edits' \in Nat /\ edits <= edits' /\ VersionsFit(files[a], mtimes[a], edits')
      /\ candidates' = [candidates EXCEPT ![a] = candidates[a]]
      /\ files' = [files EXCEPT ![a] = files[a]]
      /\ configs' = [configs EXCEPT ![a] = files[a].ver]
      /\ \A s \in saves' : s \in [agent : ConfigIds, ver : Nat]
      /\ UNCHANGED <<configMode, phase, watching, mtimes, handlers>>
      /\ configMode = "file_system" => saves' = {}
  BY DEF ConfigIInv, ConfigTypes, GetConfig, FilesFollowed, AgentDir
<1>2. ASSUME configMode = "file_system", phase = "up", a \notin unseen'
      PROVE  Followed(files[a], mtimes[a], files[a].ver, candidates[a], watching, Pending(handlers, a))
  <2>1. Followed(files[a], mtimes[a], 0, candidates[a], watching, Pending(handlers, a))
    BY <1>1, <1>2 DEF ConfigIInv, FilesFollowed, AllFollowed
  <2>2. files[a].is = "yaml" /\ files[a].content # "unparsable" /\ files[a].ver # 0
    BY <1>1 DEF Loads, VersionsFit
  <2> QED BY <2>1, <2>2 DEF Followed, InSight
<1> QED BY <1>1, <1>2, AgentStep

(* What a change in place leaves of the cache or of the candidates.                    *)
LEMMA ChangedInPlace ==
    ASSUME NEW held \in [ConfigIds -> Nat], NEW a \in ConfigIds, NEW v \in Nat
    PROVE  \A next \in InPlace(held, a, v) :
              \E k \in Nat : next = [held EXCEPT ![a] = k] /\ (held[a] = 0 => k = 0)
<1> TAKE next \in InPlace(held, a, v)
<1>1. CASE next = held
  <2>1. next = [held EXCEPT ![a] = held[a]] /\ held[a] \in Nat BY <1>1
  <2> QED BY <2>1
<1>2. CASE next = [held EXCEPT ![a] = v] /\ held[a] # 0 BY <1>2
<1> QED BY <1>1, <1>2 DEF InPlace

(* save_config and delete_config, after which the directory is f, in the cache c, and the
   candidate k.                                                                          *)
LEMMA SavedStep ==
    ASSUME ConfigIInv, NEW a \in ConfigIds, NEW f \in AgentDir, NEW c \in Nat, NEW k \in Nat,
           phase = "up", edits' \in Nat, edits <= edits', VersionsFit(f, mtimes[a], edits'),
           f.is = "yaml" => f.mtime > mtimes[a], f.is \in {"yaml", "none"},
           files' = [files EXCEPT ![a] = f],
           unseen' = IF watching THEN unseen ELSE unseen \union {a},
           configs' = [configs EXCEPT ![a] = c], candidates' = [candidates EXCEPT ![a] = k],
           candidates[a] = 0 => k = 0, configMode = "file_system" => c = f.ver,
           UNCHANGED <<configMode, phase, watching, mtimes, handlers>>,
           \A s \in saves' : s \in [agent : ConfigIds, ver : Nat],
           configMode = "file_system" => saves' = {},
           f.is = "none" => k = candidates[a]
    PROVE  ConfigIInv'
<1>1. f.ver \in Nat /\ mtimes[a] \in Nat /\ f.mtime \in Nat
  BY DEF ConfigIInv, ConfigTypes, AgentDir
<1>3. ASSUME configMode = "file_system", a \notin unseen'
      PROVE  Followed(f, mtimes[a], c, k, watching, Pending(handlers, a))
  <2>1. a \notin unseen /\ watching /\ c = f.ver BY <1>3
  <2>2. Followed(files[a], mtimes[a], configs[a], candidates[a], watching, Pending(handlers, a))
    BY <1>3, <2>1 DEF ConfigIInv, FilesFollowed, AllFollowed
  <2>3. mtimes[a] = 0 /\ ~Pending(handlers, a) => k = 0 BY <2>1, <2>2 DEF Followed, InSight
  <2>4. f.is # "yaml" => f.ver = 0 /\ f.mtime = 0 BY DEF VersionsFit
  <2>5. f.is = "yaml" => mtimes[a] # f.mtime BY <1>1
  <2> QED BY <1>1, <2>1, <2>3, <2>4, <2>5 DEF Followed, InSight
<1>4. unseen \subseteq unseen' /\ unseen' \subseteq unseen \union {a} OBVIOUS
<1> QED BY <1>1, <1>3, <1>4, AgentStep

LEMMA SaveSteps ==
    ASSUME ConfigIInv, NEW a \in ConfigIds, SaveConfig(a) \/ DeleteConfig(a)
    PROVE  ConfigIInv'
<1>1. /\ edits \in Nat /\ mtimes[a] \in Nat /\ VersionsFit(files[a], mtimes[a], edits)
      /\ configs \in [ConfigIds -> Nat] /\ candidates \in [ConfigIds -> Nat]
      /\ \A s \in saves : s \in [agent : ConfigIds, ver : Nat]
      /\ configMode = "file_system" => saves = {}
      /\ configMode \in {"file_system", "dual"}
  BY DEF ConfigIInv, ConfigTypes, FilesFollowed
<1>2. CASE SaveConfig(a)
  <2> DEFINE f == Yaml(edits + 1, edits + 1, "ok")
  <2>1. /\ f \in AgentDir /\ edits' = edits + 1 /\ edits' \in Nat /\ edits <= edits'
        /\ VersionsFit(f, mtimes[a], edits') /\ f.mtime > mtimes[a] /\ f.is = "yaml"
        /\ f.ver = edits + 1 /\ edits + 1 \in Nat
    BY <1>1, <1>2 DEF SaveConfig, Yaml, AgentDir, VersionsFit, Contents
  <2>2. /\ phase = "up" /\ files' = [files EXCEPT ![a] = f]
        /\ unseen' = IF watching THEN unseen ELSE unseen \union {a}
        /\ candidates' \in InPlace(candidates, a, edits + 1)
        /\ UNCHANGED <<configMode, phase, watching, mtimes, handlers>>
        /\ IF configMode = "dual"
           THEN /\ saves' = saves \union {[agent |-> a, ver |-> edits + 1]}
                /\ configs' \in InPlace(configs, a, edits + 1)
           ELSE configs' = Cached(a, edits + 1) /\ UNCHANGED saves
    BY <1>2 DEF SaveConfig
  <2> HIDE DEF f
  <2>6. /\ \A next \in InPlace(candidates, a, edits + 1) :
               \E k \in Nat : next = [candidates EXCEPT ![a] = k] /\ (candidates[a] = 0 => k = 0)
        /\ \A next \in InPlace(configs, a, edits + 1) :
               \E k \in Nat : next = [configs EXCEPT ![a] = k] /\ (configs[a] = 0 => k = 0)
    BY <1>1, <2>1, ChangedInPlace
  <2>3. PICK k \in Nat : candidates' = [candidates EXCEPT ![a] = k] /\ (candidates[a] = 0 => k = 0)
    BY <2>2, <2>6
  <2>4. PICK c \in Nat : configs' = [configs EXCEPT ![a] = c] /\ (configMode = "file_system" => c = f.ver)
    <3>1. CASE configMode = "dual"
      <4>1. PICK c \in Nat : configs' = [configs EXCEPT ![a] = c] BY <2>2, <2>6, <3>1
      <4> QED BY <3>1, <4>1
    <3>2. CASE configMode # "dual" BY <2>1, <2>2, <3>2 DEF Cached
    <3> QED BY <3>1, <3>2
  <2>5. /\ \A s \in saves' : s \in [agent : ConfigIds, ver : Nat]
        /\ configMode = "file_system" => saves' = {}
    BY <1>1, <2>1, <2>2
  <2> QED BY <2>1, <2>2, <2>3, <2>4, <2>5, SavedStep
<1>3. CASE DeleteConfig(a)
  <2> DEFINE f == NoDirectory
  <2>1. /\ f \in AgentDir /\ edits' = edits /\ edits' \in Nat /\ edits <= edits'
        /\ VersionsFit(f, mtimes[a], edits') /\ f.is = "none" /\ f.ver = 0
    BY <1>1, <1>3 DEF DeleteConfig, NoDirectory, AgentDir, VersionsFit, Contents
  <2>2. /\ phase = "up" /\ files' = [files EXCEPT ![a] = f]
        /\ unseen' = IF watching THEN unseen ELSE unseen \union {a}
        /\ UNCHANGED <<configMode, phase, watching, mtimes, candidates, handlers>>
        /\ IF configMode = "dual"
           THEN saves' = saves \union {[agent |-> a, ver |-> 0]} /\ UNCHANGED configs
           ELSE configs' = Cached(a, 0) /\ UNCHANGED saves
    BY <1>3 DEF DeleteConfig
  <2> HIDE DEF f
  <2> DEFINE c == IF configMode = "dual" THEN configs[a] ELSE 0
  <2>3. c \in Nat /\ configs' = [configs EXCEPT ![a] = c] /\ (configMode = "file_system" => c = f.ver)
    BY <1>1, <2>1, <2>2 DEF Cached
  <2>4. candidates[a] \in Nat /\ candidates' = [candidates EXCEPT ![a] = candidates[a]]
    BY <1>1, <2>2
  <2>5. /\ \A s \in saves' : s \in [agent : ConfigIds, ver : Nat]
        /\ configMode = "file_system" => saves' = {}
    BY <1>1, <2>2
  <2> HIDE DEF c
  <2> QED BY <2>1, <2>2, <2>3, <2>4, <2>5, SavedStep
<1> QED BY <1>2, <1>3

(* A refused PUT.                                                                      *)
LEMMA RefuseStep ==
    ASSUME ConfigIInv, NEW a \in ConfigIds, RefuseUpdate(a)
    PROVE  ConfigIInv'
<1>1. /\ files[a] \in AgentDir /\ edits \in Nat /\ VersionsFit(files[a], mtimes[a], edits)
      /\ configs \in [ConfigIds -> Nat] /\ candidates \in [ConfigIds -> Nat]
      /\ \A s \in saves : s \in [agent : ConfigIds, ver : Nat]
      /\ configMode = "file_system" => saves = {}
      /\ files = [files EXCEPT ![a] = files[a]]
  BY DEF ConfigIInv, ConfigTypes, FilesFollowed
<1>2. /\ edits' = edits + 1 /\ edits' \in Nat /\ edits <= edits' /\ edits + 1 \in Nat
      /\ VersionsFit(files[a], mtimes[a], edits') /\ unseen' = unseen \union {a}
      /\ configs' \in InPlace(configs, a, edits + 1)
      /\ candidates' \in InPlace(candidates, a, edits + 1)
      /\ UNCHANGED <<configMode, files, phase, watching, mtimes, handlers, saves>>
  <2>1. mtimes[a] \in Nat BY DEF ConfigIInv, ConfigTypes
  <2> QED BY <1>1, <2>1 DEF RefuseUpdate, VersionsFit, AgentDir
<1>5. /\ \A next \in InPlace(candidates, a, edits + 1) : \E k \in Nat : next = [candidates EXCEPT ![a] = k]
      /\ \A next \in InPlace(configs, a, edits + 1) : \E k \in Nat : next = [configs EXCEPT ![a] = k]
  <2>1. edits + 1 \in Nat BY <1>2
  <2> QED BY <1>1, <2>1, ChangedInPlace
<1>3. PICK c \in Nat : configs' = [configs EXCEPT ![a] = c] BY <1>2, <1>5
<1>4. PICK k \in Nat : candidates' = [candidates EXCEPT ![a] = k] BY <1>2, <1>5
<1> QED BY <1>1, <1>2, <1>3, <1>4, AgentStep

LEMMA SaveSyncedStep ==
    ASSUME ConfigIInv, NEW s \in saves, SaveSynced(s)
    PROVE  ConfigIInv'
<1>1. configMode # "file_system" /\ configMode' = configMode
  BY DEF SaveSynced, ConfigIInv, FilesFollowed
<1>2. s \in [agent : ConfigIds, ver : Nat] BY DEF ConfigIInv, ConfigTypes
<1>3. configs' \in [ConfigIds -> Nat] BY <1>2 DEF SaveSynced, ConfigIInv, ConfigTypes, Cached
<1>4. ConfigTypes' BY <1>3 DEF SaveSynced, ConfigIInv, ConfigTypes
<1>5. \A a \in ConfigIds : VersionsFit(files'[a], mtimes'[a], edits')
  BY DEF SaveSynced, ConfigIInv
<1> QED BY <1>1, <1>4, <1>5 DEF ConfigIInv

LEMMA HandlerSteps ==
    ASSUME ConfigIInv, NEW h \in handlers, HandleDeleted(h) \/ HandleChanged(h) \/ HandlerSynced(h)
    PROVE  ConfigIInv'
<1> DEFINE b == h.agent
<1>1. /\ h \in [agent : ConfigIds, change : {"created", "updated", "deleted"},
                pc : {"start", "file_to_db"}, ver : Nat]
      /\ b \in ConfigIds /\ h.ver \in Nat /\ files[b] \in AgentDir /\ files[b].ver \in Nat
      /\ VersionsFit(files[b], mtimes[b], edits)
  BY DEF ConfigIInv, ConfigTypes, AgentDir
<1>2. UNCHANGED <<configMode, edits, files, phase, watching, mtimes, saves, unseen>>
  BY DEF HandleDeleted, HandleChanged, HandlerSynced
<1>3. configs' \in [ConfigIds -> Nat] /\ candidates' \in [ConfigIds -> Nat]
      /\ \A a \in ConfigIds : a # b => configs'[a] = configs[a] /\ candidates'[a] = candidates[a]
  BY <1>1 DEF HandleDeleted, HandleChanged, HandlerSynced, TellRouter, ConfigIInv, ConfigTypes
<1>4. \A g \in handlers' : g \in [agent : ConfigIds, change : {"created", "updated", "deleted"},
                                  pc : {"start", "file_to_db"}, ver : Nat]
  <2>1. CASE handlers' = handlers \ {h} BY <2>1 DEF ConfigIInv, ConfigTypes
  <2>2. CASE handlers' = (handlers \ {h}) \union {[h EXCEPT !.pc = "file_to_db", !.ver = files[b].ver]}
    <3>1. [h EXCEPT !.pc = "file_to_db", !.ver = files[b].ver]
             \in [agent : ConfigIds, change : {"created", "updated", "deleted"},
                  pc : {"start", "file_to_db"}, ver : Nat]
      BY <1>1
    <3> QED BY <2>2, <3>1 DEF ConfigIInv, ConfigTypes
  <2> QED BY <2>1, <2>2 DEF HandleDeleted, HandleChanged, HandlerSynced
<1>5. ConfigTypes' BY <1>2, <1>3, <1>4 DEF ConfigIInv, ConfigTypes
<1>6. \A a \in ConfigIds : VersionsFit(files'[a], mtimes'[a], edits') BY <1>2 DEF ConfigIInv
<1>7. ASSUME configMode' = "file_system" PROVE FilesFollowed'
  <2>1. FilesFollowed /\ configMode = "file_system" BY <1>2, <1>7 DEF ConfigIInv
  <2>2. h.pc = "start" /\ phase = "up" /\ watching /\ (h.change = "deleted" <=> mtimes[b] = 0)
    BY <2>1 DEF FilesFollowed
  <2>3. handlers' = handlers \ {h}
    BY <2>1, <2>2 DEF HandleDeleted, HandleChanged, HandlerSynced
  <2>4. ASSUME ~Pending(handlers', b), NEW f, f = files[b], InSight(f, mtimes[b])
        PROVE  Followed(f, mtimes[b], configs'[b], candidates'[b], TRUE, FALSE)
    <3>1. CASE mtimes[b] = 0
      <4>1. configs'[b] = 0 /\ candidates'[b] = 0
        BY <1>1, <2>2, <3>1 DEF HandleDeleted, HandleChanged, HandlerSynced, TellRouter, ConfigIInv, ConfigTypes
      <4>2. f.is = "yaml" => f.mtime # 0 BY <1>1, <2>4 DEF VersionsFit, AgentDir
      <4> QED BY <2>4, <3>1, <4>1, <4>2 DEF Followed
    <3>2. CASE mtimes[b] # 0
      <4>1. HandleChanged(h) BY <2>2, <3>2 DEF HandleDeleted, HandlerSynced
      <4>2. f.is = "yaml" /\ f.content = "ok" => configs'[b] = f.ver /\ candidates'[b] = f.ver
        BY <1>1, <2>1, <2>2, <2>4, <4>1 DEF HandleChanged, TellRouter, ConfigIInv, ConfigTypes
      <4>3. f.is = "none" => f.mtime = 0 BY <1>1, <2>4 DEF VersionsFit
      <4> QED BY <2>4, <3>2, <4>2, <4>3 DEF Followed
    <3> QED BY <3>1, <3>2
  <2>5. ASSUME NEW a \in ConfigIds \ unseen
        PROVE  Followed(files[a], mtimes[a], configs'[a], candidates'[a], TRUE, Pending(handlers', a))
    <3>4. InSight(files[a], mtimes[a]) BY <2>1, <2>2 DEF FilesFollowed, AllFollowed, Followed
    <3>1. CASE Pending(handlers', a) BY <3>1, <3>4 DEF Followed
    <3>2. CASE ~Pending(handlers', a) /\ a = b
      <4>1. Followed(files[a], mtimes[a], configs'[a], candidates'[a], TRUE, FALSE) BY <2>4, <3>2, <3>4
      <4> QED BY <3>2, <4>1 DEF Followed
    <3>3. CASE ~Pending(handlers', a) /\ a # b
      <4>1. ~Pending(handlers, a) BY <2>3, <3>3 DEF Pending
      <4>2. Followed(files[a], mtimes[a], configs[a], candidates[a], watching, Pending(handlers, a))
        BY <2>1, <2>2 DEF FilesFollowed, AllFollowed
      <4>3. configs'[a] = configs[a] /\ candidates'[a] = candidates[a] BY <1>3, <3>3
      <4> QED BY <2>2, <3>3, <4>1, <4>2, <4>3 DEF Followed, InSight
    <3> QED BY <3>1, <3>2, <3>3
  <2>6. AllFollowed'
    <3>1. watching' = TRUE /\ files' = files /\ mtimes' = mtimes /\ unseen' = unseen BY <1>2, <2>2 DEF ConfigIInv, ConfigTypes
    <3> QED BY <2>5, <3>1 DEF AllFollowed
  <2>7. \A g \in handlers' : /\ g.pc = "start" /\ phase' = "up" /\ watching'
                             /\ g.change = "deleted" <=> mtimes'[g.agent] = 0
    BY <1>2, <2>1, <2>3 DEF FilesFollowed
  <2> QED BY <1>2, <2>1, <2>6, <2>7 DEF FilesFollowed
<1> QED BY <1>5, <1>6, <1>7 DEF ConfigIInv

LEMMA ConfigStep ==
    ASSUME ConfigIInv, [ConfigNext]_configVars
    PROVE  ConfigIInv'
<1>1. CASE UNCHANGED configVars
  <2>1. ConfigTypes' /\ (FilesFollowed => FilesFollowed') /\ configMode' = configMode
    BY <1>1 DEF configVars, ConfigIInv, ConfigTypes, FilesFollowed, AllFollowed
  <2>2. \A a \in ConfigIds : VersionsFit(files'[a], mtimes'[a], edits')
    BY <1>1 DEF configVars, ConfigIInv
  <2> QED BY <2>1, <2>2 DEF ConfigIInv
<1>2. CASE InitializeConfigs \/ SyncAll \/ TakeSnapshot \/ StopConfigs BY <1>2, ProcessSteps
<1>3. CASE Poll BY <1>3, PollStep
<1>4. ASSUME NEW a \in ConfigIds, EditFiles(a) \/ GetConfig(a) \/ SaveConfig(a) \/ DeleteConfig(a)
                                 \/ RefuseUpdate(a)
      PROVE  ConfigIInv'
  BY <1>4, EditFilesStep, GetConfigStep, SaveSteps, RefuseStep
<1>5. ASSUME NEW h \in handlers, HandleDeleted(h) \/ HandleChanged(h) \/ HandlerSynced(h)
      PROVE  ConfigIInv'
  BY <1>5, HandlerSteps
<1>6. ASSUME NEW s \in saves, SaveSynced(s) PROVE ConfigIInv' BY <1>6, SaveSyncedStep
<1> QED BY <1>1, <1>2, <1>3, <1>4, <1>5, <1>6 DEF ConfigNext

(* In file_system mode, when the watcher has nothing left to do, cache and *)
(* router have what is on disk, but for the agents whose last changes the  *)
(* watcher cannot notice: before its snapshot, without a newer agent.yaml, *)
(* or a refused PUT (config_manager/watcher.py).                           *)
THEOREM RouterFollowed == ConfigSpec => []RouterFollowsFiles
<1>1. ASSUME ConfigIInv PROVE RouterFollowsFiles
  <2> SUFFICES ASSUME configMode = "file_system", ConfigSettled, NEW a \in ConfigIds \ unseen
               PROVE  /\ (files[a].is = "yaml" /\ files[a].content = "ok") =>
                            configs[a] = files[a].ver /\ candidates[a] = files[a].ver
                      /\ files[a].is = "none" => configs[a] = 0 /\ candidates[a] = 0
    BY DEF RouterFollowsFiles
  <2>1. Followed(files[a], mtimes[a], configs[a], candidates[a], watching, Pending(handlers, a))
    BY <1>1 DEF ConfigIInv, FilesFollowed, AllFollowed, ConfigSettled
  <2>2. watching /\ ~Pending(handlers, a) BY DEF ConfigSettled, Pending
  <2>3. mtimes[a] = files[a].mtime BY DEF ConfigSettled, YamlTimes
  <2> QED BY <2>1, <2>2, <2>3 DEF Followed, InSight
<1> QED BY <1>1, ConfigInitial, ConfigStep, PTL DEF ConfigSpec

-----------------------------------------------------------------------------
(* The skills.                                                             *)

SkillOp == [pc : {"idle", "embed", "upsert", "setMeta", "deletePoint", "invalidate", "keepMeta", "gotMeta"},
            at : SkillWorkers \union {"none"}, skill : SkillIds \union {"none"},
            value : MaybeSkill, then : {"done", "setMeta"}]

\* An operation under way, by its place, and the skill its process has, what the last
\* change left of it, the point and the metadata: what the operation is about to write is
\* what the last change left, made by process ow.
Fits(o, sk, here, pt, mt, ow) ==
    /\ o.pc \in {"embed", "upsert", "setMeta", "keepMeta"} => o.value = sk /\ sk # "none"
    /\ o.pc = "embed" => here = sk
    /\ o.pc \in {"setMeta", "invalidate", "keepMeta", "gotMeta"} => pt = sk
    /\ o.pc = "deletePoint" => sk = "none"
    /\ o.pc = "gotMeta" => (sk = "none" => mt = "none") /\ (o.at = ow => sk = "none" /\ o.value = "none")

WorksOn(t, s) == skillOps[t].pc # "idle" /\ skillOps[t].skill = s

SkillAgrees(s) == points[s] = Latest(s) /\ (Latest(s) = "none" => meta[s] = "none")

\* A skill that is not marred has one operation at most; with one, what it is about to do
\* fits the stores, and without one the stores agree.
Unmarred(s) ==
    /\ \A t, u \in SkillTasks : WorksOn(t, s) /\ WorksOn(u, s) => t = u
    /\ \A t \in SkillTasks : WorksOn(t, s) =>
          Fits(skillOps[t], Latest(s), skills[skillOps[t].at][s], points[s], meta[s], owner[s])
    /\ (\A t \in SkillTasks : ~WorksOn(t, s)) => SkillAgrees(s)

SkillsIInv ==
    /\ SkillsTypeOK /\ skillOps \in [SkillTasks -> SkillOp]
    /\ \A t \in SkillTasks : skillOps[t].pc # "idle" =>
          skillOps[t].skill \in SkillIds /\ skillOps[t].at \in SkillWorkers
    /\ \A t \in SkillTasks : skillOps[t].pc = "idle" => skillOps[t] = NoOp
    /\ \A s \in SkillIds \ marred : Unmarred(s)

LEMMA NoOpIdle == NoOp \in SkillOp /\ NoOp.pc = "idle"
  BY DEF NoOp, SkillOp, MaybeSkill, SkillStatus

LEMMA SkillsInitial == SkillsInit => SkillsIInv
<1> SUFFICES ASSUME SkillsInit PROVE SkillsIInv
  OBVIOUS
<1>1. skillOps \in [SkillTasks -> SkillOp] /\ \A t \in SkillTasks : skillOps[t] = NoOp
  BY NoOpIdle DEF SkillsInit
<1>2. /\ meta \in [SkillIds -> MaybeSkill] /\ points = meta /\ marred = {}
      /\ skills \in [SkillWorkers -> [SkillIds -> MaybeSkill]] /\ owner \in [SkillIds -> SkillWorkers]
      /\ \A s \in SkillIds : meta[s] = "none" /\ \A w \in SkillWorkers : skills[w][s] = "none"
  BY SkillAssumption DEF SkillsInit, MaybeSkill
<1>3. SkillsTypeOK
  BY <1>1, <1>2 DEF SkillsTypeOK, SkillOp
<1>4. \A s \in SkillIds : Latest(s) = "none"
  BY <1>2 DEF Latest
<1> QED
  BY <1>1, <1>2, <1>3, <1>4, NoOpIdle DEF SkillsIInv, Unmarred, WorksOn, SkillAgrees

\* A step of one operation on one skill keeps the invariant, if it leaves that skill well
\* or marred.
LEMMA SkillStepOfOne ==
    ASSUME SkillsIInv, NEW t \in SkillTasks, NEW s \in SkillIds, NEW n \in SkillOp,
           skillOps' = [skillOps EXCEPT ![t] = n],
           n.pc # "idle" => n.skill = s /\ n.at \in SkillWorkers, n.pc = "idle" => n = NoOp,
           skillOps[t].pc # "idle" => skillOps[t].skill = s,
           skills' \in [SkillWorkers -> [SkillIds -> MaybeSkill]],
           points' \in [SkillIds -> MaybeSkill], meta' \in [SkillIds -> MaybeSkill],
           owner' \in [SkillIds -> SkillWorkers],
           \A q \in SkillIds \ {s} :
              /\ points'[q] = points[q] /\ meta'[q] = meta[q] /\ owner'[q] = owner[q]
              /\ \A w \in SkillWorkers : skills'[w][q] = skills[w][q],
           marred' \subseteq SkillIds, marred' \ {s} = marred \ {s},
           s \notin marred' =>
               /\ \A u \in SkillTasks \ {t} : ~WorksOn(u, s)
               /\ n.pc # "idle" => Fits(n, skills'[owner'[s]][s], skills'[n.at][s], points'[s], meta'[s], owner'[s])
               /\ n.pc = "idle" => /\ points'[s] = skills'[owner'[s]][s]
                                   /\ skills'[owner'[s]][s] = "none" => meta'[s] = "none"
    PROVE  SkillsIInv'
<1>1. skillOps \in [SkillTasks -> SkillOp] /\ owner \in [SkillIds -> SkillWorkers]
      /\ \A q \in SkillIds \ marred : Unmarred(q)
  BY DEF SkillsIInv, SkillsTypeOK
<1>2. \A u \in SkillTasks : skillOps'[u] = IF u = t THEN n ELSE skillOps[u]
  BY <1>1
<1>3. skillOps' \in [SkillTasks -> SkillOp]
  BY <1>1
<1>4. SkillsTypeOK'
  BY <1>3 DEF SkillsTypeOK, SkillOp
<1>5. /\ \A u \in SkillTasks : skillOps'[u].pc # "idle" =>
             skillOps'[u].skill \in SkillIds /\ skillOps'[u].at \in SkillWorkers
      /\ \A u \in SkillTasks : skillOps'[u].pc = "idle" => skillOps'[u] = NoOp
  BY <1>2 DEF SkillsIInv
<1>6. ASSUME NEW q \in SkillIds \ marred' PROVE Unmarred(q)'
  <2>1. CASE q = s
    <3>1. \A u \in SkillTasks : WorksOn(u, s)' => u = t /\ n.pc # "idle"
      BY <1>6, <2>1, <1>2 DEF WorksOn
    <3>2. n.pc # "idle" => WorksOn(t, s)'
      BY <1>2 DEF WorksOn
    <3> QED
      BY <1>6, <1>2, <2>1, <3>1, <3>2 DEF Unmarred, SkillAgrees, Latest
  <2>2. CASE q # s
    <3>1. q \notin marred /\ Unmarred(q)
      BY <1>1, <1>6, <2>2
    <3>2. ASSUME NEW u \in SkillTasks PROVE WorksOn(u, q)' <=> WorksOn(u, q)
      BY <1>2, <2>2 DEF WorksOn
    <3>3. \A u \in SkillTasks : WorksOn(u, q) => skillOps'[u] = skillOps[u] /\ skillOps[u].at \in SkillWorkers
      BY <1>2, <2>2 DEF WorksOn, SkillsIInv
    <3>4. /\ owner'[q] = owner[q] /\ owner[q] \in SkillWorkers
          /\ points'[q] = points[q] /\ meta'[q] = meta[q]
          /\ \A w \in SkillWorkers : skills'[w][q] = skills[w][q]
      BY <1>1, <2>2
    <3>5. Latest(q)' = Latest(q)
      BY <3>4 DEF Latest
    <3>6. ASSUME NEW u \in SkillTasks, WorksOn(u, q)
          PROVE  Fits(skillOps'[u], Latest(q)', skills'[skillOps'[u].at][q], points'[q], meta'[q], owner'[q])
      <4>1. Fits(skillOps[u], Latest(q), skills[skillOps[u].at][q], points[q], meta[q], owner[q])
        BY <3>1, <3>6 DEF Unmarred
      <4> QED
        BY <3>3, <3>4, <3>5, <3>6, <4>1
    <3> QED
      BY <3>1, <3>2, <3>4, <3>5, <3>6 DEF Unmarred, SkillAgrees
  <2> QED
    BY <2>1, <2>2
<1> QED
  BY <1>3, <1>4, <1>5, <1>6 DEF SkillsIInv

\* What the skill of an operation under way is like, unless it is marred.
LEMMA OpUnderWay ==
    ASSUME SkillsIInv, NEW t \in SkillTasks, skillOps[t].pc # "idle"
    PROVE  LET o == skillOps[t]
               s == o.skill
           IN  /\ o \in SkillOp /\ s \in SkillIds /\ o.at \in SkillWorkers
               /\ s \notin marred =>
                     /\ \A u \in SkillTasks \ {t} : ~WorksOn(u, s)
                     /\ Fits(o, Latest(s), skills[o.at][s], points[s], meta[s], owner[s])
<1>1. /\ skillOps[t] \in SkillOp /\ skillOps[t].skill \in SkillIds /\ skillOps[t].at \in SkillWorkers
      /\ WorksOn(t, skillOps[t].skill)
  BY DEF SkillsIInv, WorksOn
<1> QED
  BY <1>1 DEF SkillsIInv, Unmarred

\* The next place of an operation, or its end.
LEMMA OpMoved ==
    ASSUME NEW o \in SkillOp,
           NEW pc \in {"embed", "upsert", "setMeta", "deletePoint", "invalidate", "keepMeta", "gotMeta", "done"},
           NEW n, n = IF pc = "done" THEN NoOp ELSE [o EXCEPT !.pc = pc]
    PROVE  n \in SkillOp /\ (n.pc = "idle" <=> pc = "done") /\ (pc # "done" => n.skill = o.skill /\ n.at = o.at)
           /\ (pc = "done" => n = NoOp)
<1>1. CASE pc = "done"
  BY <1>1, NoOpIdle
<1>2. CASE pc # "done"
  <2>1. n = [o EXCEPT !.pc = pc]
    BY <1>2
  <2>2. n.pc = pc /\ n.skill = o.skill /\ n.at = o.at
    BY <2>1 DEF SkillOp
  <2>3. n \in SkillOp
    BY <2>1, <1>2 DEF SkillOp
  <2> QED
    BY <1>2, <2>2, <2>3
<1> QED
  BY <1>1, <1>2

LEMMA SkillsStep == SkillsIInv /\ [SkillsNext]_skillVars => SkillsIInv'
<1> SUFFICES ASSUME SkillsIInv, [SkillsNext]_skillVars PROVE SkillsIInv'
  OBVIOUS
<1>0. /\ skillOps \in [SkillTasks -> SkillOp] /\ marred \subseteq SkillIds
      /\ skills \in [SkillWorkers -> [SkillIds -> MaybeSkill]] /\ points \in [SkillIds -> MaybeSkill]
      /\ meta \in [SkillIds -> MaybeSkill] /\ owner \in [SkillIds -> SkillWorkers]
      /\ \A s \in SkillIds \ marred : Unmarred(s)
      /\ \A s \in SkillIds, w \in SkillWorkers : skills[w][s] \in MaybeSkill
  BY DEF SkillsIInv, SkillsTypeOK
<1>v. "none" \in MaybeSkill /\ "active" \in SkillStatus /\ SkillStatus \subseteq MaybeSkill
  BY DEF MaybeSkill, SkillStatus
\* What SetSkill makes of the registries.
<1>s. ASSUME NEW w \in SkillWorkers, NEW s \in SkillIds, NEW v \in MaybeSkill, SetSkill(w, s, v)
      PROVE  /\ skills' \in [SkillWorkers -> [SkillIds -> MaybeSkill]] /\ skills'[w][s] = v
             /\ \A x \in SkillWorkers \ {w} : skills'[x] = skills[x]
             /\ \A q \in SkillIds \ {s}, x \in SkillWorkers : skills'[x][q] = skills[x][q]
  <2>1. skills' = [skills EXCEPT ![w] = [skills[w] EXCEPT ![s] = v]]
    BY <1>s DEF SetSkill
  <2>2. [skills[w] EXCEPT ![s] = v] \in [SkillIds -> MaybeSkill]
    BY <1>0
  <2> QED
    BY <1>0, <2>1, <2>2
\* The start of an operation.
<1>a. ASSUME NEW t \in SkillTasks, NEW w \in SkillWorkers, NEW s \in SkillIds, NEW v \in MaybeSkill,
             NEW pc \in {"embed", "deletePoint", "keepMeta", "gotMeta"}, NEW th \in {"done", "setMeta"},
             StartOp(t, w, s, pc, v, th), UNCHANGED <<meta, points>>,
             skills' \in [SkillWorkers -> [SkillIds -> MaybeSkill]],
             \A q \in SkillIds \ {s}, x \in SkillWorkers : skills'[x][q] = skills[x][q],
             NEW change \in BOOLEAN, change => Changes(w, s),
             ~change => Rewrites(s, FALSE) \/ Rewrites(s, TRUE),
             s \notin marred' /\ (change \/ SkillAgrees(s)) =>
                Fits([pc |-> pc, at |-> w, skill |-> s, value |-> v, then |-> th],
                     skills'[owner'[s]][s], skills'[w][s], points[s], meta[s], owner'[s])
      PROVE  SkillsIInv'
  <2> DEFINE n == [pc |-> pc, at |-> w, skill |-> s, value |-> v, then |-> th]
  <2>1. n \in SkillOp /\ n.pc # "idle" /\ n.skill = s /\ n.at = w
    BY DEF SkillOp
  <2>2. skillOps[t].pc = "idle" /\ skillOps' = [skillOps EXCEPT ![t] = n]
    BY <1>a DEF StartOp
  <2>3. /\ marred' \subseteq SkillIds /\ marred' \ {s} = marred \ {s}
        /\ owner' \in [SkillIds -> SkillWorkers] /\ \A q \in SkillIds \ {s} : owner'[q] = owner[q]
    BY <1>0, <1>a DEF Changes, Rewrites
  <2>4. ASSUME s \notin marred'
        PROVE  (\A u \in SkillTasks : ~WorksOn(u, s)) /\ (change \/ SkillAgrees(s))
    <3>1. ~Busy(s) /\ (change \/ s \notin marred)
      BY <1>a, <2>4 DEF Changes, Rewrites
    <3>2. \A u \in SkillTasks : ~WorksOn(u, s)
      BY <3>1 DEF Busy, WorksOn
    <3> QED
      BY <1>0, <3>1, <3>2 DEF Unmarred
  <2> HIDE DEF n
  <2>5. s \notin marred' => Fits(n, skills'[owner'[s]][s], skills'[n.at][s], points'[s], meta'[s], owner'[s])
    BY <1>a, <2>1, <2>4 DEF n
  <2> QED
    BY <1>0, <1>a, <2>1, <2>2, <2>3, <2>4, <2>5, SkillStepOfOne
<1>1. ASSUME NEW t \in SkillTasks, NEW w \in SkillWorkers, NEW s \in SkillIds, Register(t, w, s)
      PROVE  SkillsIInv'
  <2>1. PICK v \in SkillStatus : SetSkill(w, s, v) /\ StartOp(t, w, s, "embed", v, "setMeta")
    BY <1>1 DEF Register
  <2>2. v # "none" /\ v \in MaybeSkill
    BY <1>v DEF SkillStatus
  <2>3. /\ skills' \in [SkillWorkers -> [SkillIds -> MaybeSkill]] /\ skills'[w][s] = v
        /\ \A q \in SkillIds \ {s}, x \in SkillWorkers : skills'[x][q] = skills[x][q]
    BY <2>1, <2>2, <1>s
  <2>4. Changes(w, s) /\ owner'[s] = w /\ UNCHANGED <<meta, points>>
    BY <1>0, <1>1 DEF Register, Changes
  <2>5. Fits([pc |-> "embed", at |-> w, skill |-> s, value |-> v, then |-> "setMeta"],
             skills'[owner'[s]][s], skills'[w][s], points[s], meta[s], owner'[s])
    BY <2>2, <2>3, <2>4 DEF Fits
  <2> QED
    BY <2>1, <2>2, <2>3, <2>4, <2>5, <1>a
<1>2. ASSUME NEW t \in SkillTasks, NEW w \in SkillWorkers, NEW s \in SkillIds, Unregister(t, w, s)
      PROVE  SkillsIInv'
  <2>1. SetSkill(w, s, "none") /\ StartOp(t, w, s, "deletePoint", "none", "done")
    BY <1>2 DEF Unregister
  <2>3. /\ skills' \in [SkillWorkers -> [SkillIds -> MaybeSkill]] /\ skills'[w][s] = "none"
        /\ \A q \in SkillIds \ {s}, x \in SkillWorkers : skills'[x][q] = skills[x][q]
    BY <2>1, <1>v, <1>s
  <2>4. Changes(w, s) /\ owner'[s] = w /\ UNCHANGED <<meta, points>>
    BY <1>0, <1>2 DEF Unregister, Changes
  <2>5. Fits([pc |-> "deletePoint", at |-> w, skill |-> s, value |-> "none", then |-> "done"],
             skills'[owner'[s]][s], skills'[w][s], points[s], meta[s], owner'[s])
    BY <2>3, <2>4 DEF Fits
  <2> QED
    BY <1>v, <2>1, <2>3, <2>4, <2>5, <1>a
<1>3. ASSUME NEW t \in SkillTasks, NEW w \in SkillWorkers, NEW s \in SkillIds, Reindex(t, w, s)
      PROVE  SkillsIInv'
  <2>1. /\ skills[w][s] = "active" /\ StartOp(t, w, s, "embed", "active", "done")
        /\ UNCHANGED <<skills, meta, points, owner>>
    BY <1>3 DEF Reindex, Rewrites
  <2>2. ASSUME s \notin marred'
        PROVE  Fits([pc |-> "embed", at |-> w, skill |-> s, value |-> "active", then |-> "done"],
                    skills'[owner'[s]][s], skills'[w][s], points[s], meta[s], owner'[s])
    <3>1. skills[w][s] = Latest(s)
      BY <1>3, <2>2 DEF Reindex, Rewrites
    <3> QED
      BY <2>1, <3>1 DEF Fits, Latest
  <2>3. Rewrites(s, FALSE) \/ Rewrites(s, TRUE)
    BY <1>3 DEF Reindex, Rewrites
  <2> QED
    BY <1>0, <1>v, <2>1, <2>2, <2>3, <1>a
<1>4. ASSUME NEW t \in SkillTasks, NEW w \in SkillWorkers, NEW s \in SkillIds, LoadFull(t, w, s)
      PROVE  SkillsIInv'
  <2>1. /\ StartOp(t, w, s, IF skills[w][s] = "none" THEN "gotMeta" ELSE "keepMeta",
                   IF skills[w][s] = "none" THEN meta[s] ELSE skills[w][s], "done")
        /\ UNCHANGED <<skills, meta, points, owner>>
    BY <1>4 DEF LoadFull, Rewrites
  <2>2. Rewrites(s, FALSE) \/ Rewrites(s, TRUE)
    BY <1>4 DEF LoadFull, Rewrites
  <2>3. ASSUME s \notin marred' PROVE skills[w][s] \in {"none", Latest(s)}
    BY <1>4, <2>3 DEF LoadFull, Rewrites
  <2>4. CASE skills[w][s] = "none"
    <3>1. ASSUME s \notin marred', SkillAgrees(s)
          PROVE  Fits([pc |-> "gotMeta", at |-> w, skill |-> s, value |-> meta[s], then |-> "done"],
                      skills'[owner'[s]][s], skills'[w][s], points[s], meta[s], owner'[s])
      <4>1. w = owner[s] => Latest(s) = "none" BY <2>4 DEF Latest
      <4> QED
        BY <2>1, <3>1, <4>1 DEF SkillAgrees, Fits, Latest
    <3> QED
      BY <1>0, <2>1, <2>2, <2>4, <3>1, <1>a
  <2>5. CASE skills[w][s] # "none"
    <3>1. ASSUME s \notin marred', SkillAgrees(s)
          PROVE  Fits([pc |-> "keepMeta", at |-> w, skill |-> s, value |-> skills[w][s], then |-> "done"],
                      skills'[owner'[s]][s], skills'[w][s], points[s], meta[s], owner'[s])
      BY <2>1, <2>3, <2>5, <3>1 DEF SkillAgrees, Fits, Latest
    <3> QED
      BY <1>0, <2>1, <2>2, <2>5, <3>1, <1>a
  <2> QED
    BY <2>4, <2>5
\* A further step of an operation, which goes on at a place, or ends.
<1> DEFINE Moved(o, pc) == IF pc = "done" THEN NoOp ELSE [o EXCEPT !.pc = pc]
<1>b. ASSUME NEW t \in SkillTasks, skillOps[t].pc # "idle",
             NEW pc \in {"embed", "upsert", "setMeta", "deletePoint", "invalidate", "keepMeta", "gotMeta", "done"},
             StepOp(t, pc), UNCHANGED <<skills, owner>>,
             points' \in [SkillIds -> MaybeSkill], meta' \in [SkillIds -> MaybeSkill],
             \A q \in SkillIds \ {skillOps[t].skill} : points'[q] = points[q] /\ meta'[q] = meta[q],
             \/ marred' = marred \union {skillOps[t].skill}
             \/ /\ marred' = marred
                /\ LET o == skillOps[t]
                       s == o.skill
                   IN  Fits(o, Latest(s), skills[o.at][s], points[s], meta[s], owner[s]) =>
                         IF pc = "done" THEN points'[s] = Latest(s) /\ (Latest(s) = "none" => meta'[s] = "none")
                         ELSE Fits([o EXCEPT !.pc = pc], Latest(s), skills[o.at][s], points'[s], meta'[s], owner[s])
      PROVE  SkillsIInv'
  <2> DEFINE s == skillOps[t].skill
  <2> DEFINE n == Moved(skillOps[t], pc)
  <2>1. skillOps[t] \in SkillOp /\ s \in SkillIds /\ skillOps[t].at \in SkillWorkers
    BY <1>b, OpUnderWay
  <2>2. /\ n \in SkillOp /\ (n.pc = "idle" <=> pc = "done")
        /\ pc # "done" => n.skill = s /\ n.at = skillOps[t].at
        /\ pc = "done" => n = NoOp
    <3>1. n = IF pc = "done" THEN NoOp ELSE [skillOps[t] EXCEPT !.pc = pc]
      OBVIOUS
    <3> HIDE DEF n
    <3> QED
      BY <2>1, <3>1, OpMoved
  <2>3. skillOps' = [skillOps EXCEPT ![t] = n]
    BY <1>b DEF StepOp
  <2>8. skills' = skills /\ owner' = owner
    BY <1>b
  <2>4. ASSUME s \notin marred'
        PROVE  /\ \A u \in SkillTasks \ {t} : ~WorksOn(u, s)
               /\ n.pc # "idle" => Fits(n, skills'[owner'[s]][s], skills'[n.at][s], points'[s], meta'[s], owner'[s])
               /\ n.pc = "idle" => /\ points'[s] = skills'[owner'[s]][s]
                                   /\ skills'[owner'[s]][s] = "none" => meta'[s] = "none"
    <3>1. s \notin marred /\ marred' = marred
      BY <1>b, <2>4
    <3>2. /\ \A u \in SkillTasks \ {t} : ~WorksOn(u, s)
          /\ Fits(skillOps[t], Latest(s), skills[skillOps[t].at][s], points[s], meta[s], owner[s])
      BY <1>b, <3>1, OpUnderWay
    <3>3. IF pc = "done" THEN points'[s] = Latest(s) /\ (Latest(s) = "none" => meta'[s] = "none")
          ELSE Fits([skillOps[t] EXCEPT !.pc = pc], Latest(s), skills[skillOps[t].at][s], points'[s], meta'[s], owner[s])
      BY <1>b, <2>4, <3>1, <3>2
    <3>4. pc # "done" => n = [skillOps[t] EXCEPT !.pc = pc]
      OBVIOUS
    <3> HIDE DEF n
    <3> QED
      BY <2>2, <2>8, <3>2, <3>3, <3>4 DEF Latest
  <2>5. marred' \subseteq SkillIds /\ marred' \ {s} = marred \ {s}
    BY <1>0, <1>b, <2>1
  <2>6. /\ skills' \in [SkillWorkers -> [SkillIds -> MaybeSkill]] /\ points' \in [SkillIds -> MaybeSkill]
        /\ meta' \in [SkillIds -> MaybeSkill] /\ owner' \in [SkillIds -> SkillWorkers]
        /\ \A q \in SkillIds \ {s} :
              /\ points'[q] = points[q] /\ meta'[q] = meta[q] /\ owner'[q] = owner[q]
              /\ \A w \in SkillWorkers : skills'[w][q] = skills[w][q]
    BY <1>0, <1>b, <2>8
  <2>7. /\ n.pc # "idle" => n.skill = s /\ n.at \in SkillWorkers
        /\ n.pc = "idle" => n = NoOp
    BY <2>1, <2>2
  <2> HIDE DEF n
  <2> QED
    BY <2>1, <2>2, <2>3, <2>4, <2>5, <2>6, <2>7, SkillStepOfOne
<1> HIDE DEF Moved
<1>5. ASSUME NEW t \in SkillTasks, Embed(t) PROVE SkillsIInv'
  <2> DEFINE o == skillOps[t]
  <2> DEFINE s == o.skill
  <2>1. o.pc = "embed" /\ o \in SkillOp /\ s \in SkillIds /\ o.then \in {"done", "setMeta"}
    BY <1>5, OpUnderWay DEF Embed, SkillOp
  <2>2. CASE StepOp(t, o.then) /\ marred' = marred \union {s}
    BY <1>0, <1>5, <2>1, <2>2, <1>b DEF Embed
  <2>3. ASSUME NEW v \in {o.value, skills[o.at][s]} \ {"none"},
               skillOps' = [skillOps EXCEPT ![t].pc = "upsert", ![t].value = v], UNCHANGED marred
        PROVE  SkillsIInv'
    <3> DEFINE n == [o EXCEPT !.pc = "upsert", !.value = v]
    <3>1. v \in MaybeSkill /\ v # "none"
      BY <1>0, <2>1, <2>3 DEF SkillOp
    <3>2. n \in SkillOp /\ n.pc = "upsert" /\ n.skill = s /\ n.value = v /\ n.at = o.at
      BY <2>1, <3>1 DEF SkillOp
    <3>3. skillOps' = [skillOps EXCEPT ![t] = n]
      BY <1>0, <2>3
    <3>4. s \notin marred =>
             /\ \A u \in SkillTasks \ {t} : ~WorksOn(u, s)
             /\ Fits(o, Latest(s), skills[o.at][s], points[s], meta[s], owner[s])
      BY <2>1, OpUnderWay
    <3> HIDE DEF n
    <3>5. Fits(o, Latest(s), skills[o.at][s], points[s], meta[s], owner[s]) =>
             Fits(n, skills[owner[s]][s], skills[n.at][s], points[s], meta[s], owner[s])
      BY <2>1, <2>3, <3>2 DEF Fits, Latest
    <3>6. UNCHANGED <<skills, meta, points, owner>>
      BY <1>5 DEF Embed
    <3>7. marred' = marred /\ o.at \in SkillWorkers
      BY <2>1, <2>3, OpUnderWay
    <3>8. skills' = skills /\ points' = points /\ meta' = meta /\ owner' = owner
      BY <3>6
    <3> QED
      BY <1>0, <2>1, <3>2, <3>3, <3>4, <3>5, <3>7, <3>8, SkillStepOfOne
  <2> QED
    BY <1>5, <2>2, <2>3 DEF Embed
<1>6. ASSUME NEW t \in SkillTasks, UpsertSkill(t) PROVE SkillsIInv'
  <2> DEFINE o == skillOps[t]
  <2> DEFINE s == o.skill
  <2>1. /\ o.pc = "upsert" /\ o \in SkillOp /\ s \in SkillIds /\ o.then \in {"done", "setMeta"} /\ o.value \in MaybeSkill
        /\ StepOp(t, o.then) /\ UNCHANGED <<skills, owner, meta>>
    BY <1>6, OpUnderWay DEF UpsertSkill, StoreStep, SkillOp
  <2>2. CASE points' = points /\ marred' = marred \union {s}
    BY <1>0, <2>1, <2>2, <1>b
  <2>3. CASE points' = [points EXCEPT ![s] = o.value] /\ marred' = marred
    <3>1. points' \in [SkillIds -> MaybeSkill] /\ points'[s] = o.value /\ \A q \in SkillIds \ {s} : points'[q] = points[q]
      BY <1>0, <2>1, <2>3
    <3>2. ASSUME Fits(o, Latest(s), skills[o.at][s], points[s], meta[s], owner[s])
          PROVE  IF o.then = "done" THEN points'[s] = Latest(s) /\ (Latest(s) = "none" => meta'[s] = "none")
                 ELSE Fits([o EXCEPT !.pc = o.then], Latest(s), skills[o.at][s], points'[s], meta'[s], owner[s])
      <4>1. Latest(s) = o.value /\ o.value # "none"
        BY <2>1, <3>2 DEF Fits
      <4>2. [o EXCEPT !.pc = "setMeta"].pc = "setMeta" /\ [o EXCEPT !.pc = "setMeta"].value = o.value
        BY <2>1 DEF SkillOp
      <4>3. Fits([o EXCEPT !.pc = "setMeta"], Latest(s), skills[o.at][s], points'[s], meta'[s], owner[s])
        BY <3>1, <4>1, <4>2 DEF Fits
      <4> QED
        BY <2>1, <3>1, <4>1, <4>3
    <3> QED
      BY <1>0, <2>1, <2>3, <3>1, <3>2, <1>b
  <2> QED
    BY <1>6, <2>2, <2>3 DEF UpsertSkill
<1>7. ASSUME NEW t \in SkillTasks, SetMeta(t) PROVE SkillsIInv'
  <2> DEFINE o == skillOps[t]
  <2> DEFINE s == o.skill
  <2>1. o.pc = "setMeta" /\ o \in SkillOp /\ s \in SkillIds /\ o.value \in MaybeSkill /\ UNCHANGED <<skills, owner, points>>
    BY <1>7, OpUnderWay DEF SetMeta, StoreStep, SkillOp
  <2>2. CASE StepOp(t, "done") /\ meta' = meta /\ marred' = marred \union {s}
    BY <1>0, <2>1, <2>2, <1>b
  <2>3. CASE StepOp(t, "invalidate") /\ meta' = [meta EXCEPT ![s] = o.value] /\ marred' = marred
    <3>1. meta' \in [SkillIds -> MaybeSkill] /\ \A q \in SkillIds \ {s} : meta'[q] = meta[q]
      BY <1>0, <2>1, <2>3
    <3>2. [o EXCEPT !.pc = "invalidate"].pc = "invalidate"
      BY <2>1 DEF SkillOp
    <3>3. Fits(o, Latest(s), skills[o.at][s], points[s], meta[s], owner[s]) => Fits([o EXCEPT !.pc = "invalidate"], Latest(s), skills[o.at][s], points'[s], meta'[s], owner[s])
      BY <2>1, <3>2 DEF Fits
    <3> QED
      BY <1>0, <2>1, <2>3, <3>1, <3>3, <1>b
  <2> QED
    BY <1>7, <2>2, <2>3 DEF SetMeta, StoreStep
<1>8. ASSUME NEW t \in SkillTasks, DeletePoint(t) PROVE SkillsIInv'
  <2> DEFINE o == skillOps[t]
  <2> DEFINE s == o.skill
  <2>1. /\ o.pc = "deletePoint" /\ o \in SkillOp /\ s \in SkillIds
        /\ StepOp(t, "invalidate") /\ UNCHANGED <<skills, owner, meta>>
    BY <1>8, OpUnderWay DEF DeletePoint, StoreStep
  <2>2. CASE points' = points /\ marred' = marred \union {s}
    BY <1>0, <2>1, <2>2, <1>b
  <2>3. CASE points' = [points EXCEPT ![s] = "none"] /\ marred' = marred
    <3>1. points' \in [SkillIds -> MaybeSkill] /\ points'[s] = "none" /\ \A q \in SkillIds \ {s} : points'[q] = points[q]
      BY <1>0, <1>v, <2>1, <2>3
    <3>2. [o EXCEPT !.pc = "invalidate"].pc = "invalidate"
      BY <2>1 DEF SkillOp
    <3>3. Fits(o, Latest(s), skills[o.at][s], points[s], meta[s], owner[s]) => Fits([o EXCEPT !.pc = "invalidate"], Latest(s), skills[o.at][s], points'[s], meta'[s], owner[s])
      BY <2>1, <3>1, <3>2 DEF Fits
    <3> QED
      BY <1>0, <2>1, <2>3, <3>1, <3>3, <1>b
  <2> QED
    BY <1>8, <2>2, <2>3 DEF DeletePoint
<1>9. ASSUME NEW t \in SkillTasks, Invalidate(t) PROVE SkillsIInv'
  <2> DEFINE o == skillOps[t]
  <2> DEFINE s == o.skill
  <2>1. /\ o.pc = "invalidate" /\ o \in SkillOp /\ s \in SkillIds
        /\ StepOp(t, "done") /\ UNCHANGED <<skills, owner, points>>
    BY <1>9, OpUnderWay DEF Invalidate, StoreStep
  <2>2. CASE meta' = meta /\ marred' = marred \union {s}
    BY <1>0, <2>1, <2>2, <1>b
  <2>3. CASE meta' = InvalidateSkill(s) /\ marred' = marred
    <3>1. meta' \in [SkillIds -> MaybeSkill] /\ meta'[s] = "none" /\ \A q \in SkillIds \ {s} : meta'[q] = meta[q]
      BY <1>0, <1>v, <2>1, <2>3 DEF InvalidateSkill
    <3>2. Fits(o, Latest(s), skills[o.at][s], points[s], meta[s], owner[s]) => points'[s] = Latest(s)
      BY <2>1 DEF Fits
    <3> QED
      BY <1>0, <2>1, <2>3, <3>1, <3>2, <1>b
  <2> QED
    BY <1>9, <2>2, <2>3 DEF Invalidate
<1>10. ASSUME NEW t \in SkillTasks, KeepMeta(t) PROVE SkillsIInv'
  <2> DEFINE o == skillOps[t]
  <2> DEFINE s == o.skill
  <2>1. /\ o.pc = "keepMeta" /\ o \in SkillOp /\ s \in SkillIds /\ o.value \in MaybeSkill
        /\ StepOp(t, "done") /\ UNCHANGED <<skills, owner, points, marred>>
        /\ meta' \in {meta, [meta EXCEPT ![s] = o.value]}
    BY <1>10, OpUnderWay DEF KeepMeta, StoreStep, SkillOp
  <2>2. meta' \in [SkillIds -> MaybeSkill] /\ \A q \in SkillIds \ {s} : meta'[q] = meta[q]
    BY <1>0, <2>1
  <2>3. Fits(o, Latest(s), skills[o.at][s], points[s], meta[s], owner[s]) => points[s] = Latest(s) /\ Latest(s) # "none"
    BY <2>1 DEF Fits
  <2> QED
    BY <1>0, <2>1, <2>2, <2>3, <1>b
<1>11. ASSUME NEW t \in SkillTasks, GotMeta(t) PROVE SkillsIInv'
  <2> DEFINE o == skillOps[t]
  <2> DEFINE s == o.skill
  <2>1. /\ o.pc = "gotMeta" /\ o \in SkillOp /\ s \in SkillIds /\ o.value \in MaybeSkill
        /\ o.at \in SkillWorkers
        /\ skillOps' = [skillOps EXCEPT ![t] = NoOp] /\ UNCHANGED <<points, meta, owner, marred>>
        /\ o.value = "none" => skills' = skills
        /\ o.value # "none" => SetSkill(o.at, s, o.value)
    BY <1>11, OpUnderWay DEF GotMeta, StepOp, SkillOp
  <2>2. /\ skills' \in [SkillWorkers -> [SkillIds -> MaybeSkill]]
        /\ \A q \in SkillIds \ {s}, x \in SkillWorkers : skills'[x][q] = skills[x][q]
        /\ o.value = "none" \/ o.at # owner[s] => skills'[owner[s]] = skills[owner[s]]
    <3>1. CASE o.value = "none" BY <1>0, <2>1, <3>1
    <3>2. CASE o.value # "none"
      <4>1. owner[s] \in SkillWorkers
        BY <1>0, <2>1
      <4>2. SetSkill(o.at, s, o.value)
        BY <2>1, <3>2
      <4> HIDE DEF o, s
      <4> QED
        BY <2>1, <3>2, <4>1, <4>2, <1>s
    <3> QED BY <3>1, <3>2
  <2>3. s \notin marred =>
           /\ \A u \in SkillTasks \ {t} : ~WorksOn(u, s)
           /\ Fits(o, Latest(s), skills[o.at][s], points[s], meta[s], owner[s])
    BY <2>1, OpUnderWay
  <2>4. Fits(o, Latest(s), skills[o.at][s], points[s], meta[s], owner[s]) =>
           points'[s] = skills'[owner'[s]][s] /\ (skills'[owner'[s]][s] = "none" => meta'[s] = "none")
    <3>1. owner' = owner /\ points' = points /\ meta' = meta
      BY <2>1
    <3> QED
      BY <2>1, <2>2, <3>1 DEF Fits, Latest
  <2>5. /\ points' \in [SkillIds -> MaybeSkill] /\ meta' \in [SkillIds -> MaybeSkill]
        /\ owner' \in [SkillIds -> SkillWorkers] /\ marred' = marred /\ marred \subseteq SkillIds
        /\ points' = points /\ meta' = meta /\ owner' = owner
        /\ NoOp \in SkillOp /\ NoOp.pc = "idle"
    BY <1>0, <2>1, NoOpIdle
  <2>6. skillOps' = [skillOps EXCEPT ![t] = NoOp] /\ s \in SkillIds /\ skillOps[t].skill = s
    BY <2>1
  <2>7. \A q \in SkillIds \ {s} :
           /\ points'[q] = points[q] /\ meta'[q] = meta[q] /\ owner'[q] = owner[q]
           /\ \A x \in SkillWorkers : skills'[x][q] = skills[x][q]
    BY <2>2, <2>5
  <2>8. skills' \in [SkillWorkers -> [SkillIds -> MaybeSkill]]
    BY <2>2
  <2>9. s \notin marred' =>
           /\ \A u \in SkillTasks \ {t} : ~WorksOn(u, s)
           /\ NoOp.pc # "idle" => Fits(NoOp, skills'[owner'[s]][s], skills'[NoOp.at][s], points'[s], meta'[s], owner'[s])
           /\ NoOp.pc = "idle" => /\ points'[s] = skills'[owner'[s]][s]
                                  /\ skills'[owner'[s]][s] = "none" => meta'[s] = "none"
    BY <2>3, <2>4, <2>5
  <2> HIDE DEF o, s
  <2> QED
    BY <2>5, <2>6, <2>7, <2>8, <2>9, SkillStepOfOne
<1>12. ASSUME NEW s \in SkillIds, ExpireMeta(s) PROVE SkillsIInv'
  <2>1. meta' \in [SkillIds -> MaybeSkill] /\ \A q \in SkillIds : meta'[q] \in {meta[q], "none"}
    BY <1>0, <1>v, <1>12 DEF ExpireMeta
  <2>2. UNCHANGED <<skills, points, skillOps, owner, marred>>
    BY <1>12 DEF ExpireMeta
  <2>3. ASSUME NEW q \in SkillIds \ marred PROVE Unmarred(q)'
    <3>1. (\A t \in SkillTasks : WorksOn(t, q)' <=> WorksOn(t, q)) /\ Latest(q)' = Latest(q)
      BY <2>2 DEF WorksOn, Latest
    <3>2. \A o, sk, here, ow : Fits(o, sk, here, points[q], meta[q], ow)
                                   => Fits(o, sk, here, points[q], meta'[q], ow)
      BY <2>1, <2>3 DEF Fits
    <3> QED
      BY <1>0, <2>1, <2>2, <2>3, <3>1, <3>2 DEF Unmarred, SkillAgrees
  <2> QED
    BY <1>0, <2>1, <2>2, <2>3 DEF SkillsIInv, SkillsTypeOK
<1>13. ASSUME NEW w \in SkillWorkers, RestartSkills(w) PROVE SkillsIInv'
  <2>1. /\ skills' \in [SkillWorkers -> [SkillIds -> MaybeSkill]]
        /\ \A x \in SkillWorkers \ {w} : skills'[x] = skills[x]
        /\ \A t \in SkillTasks : skillOps'[t] = IF skillOps[t].at = w THEN NoOp ELSE skillOps[t]
        /\ marred \subseteq marred' /\ marred' \subseteq SkillIds /\ UNCHANGED <<points, meta, owner>>
    BY <1>0, <1>v, <1>13 DEF RestartSkills
  <2>2. skillOps' \in [SkillTasks -> SkillOp]
    BY <1>0, <1>13, NoOpIdle DEF RestartSkills
  <2>3. /\ SkillsTypeOK'
        /\ \A t \in SkillTasks : skillOps'[t].pc # "idle" =>
              skillOps'[t].skill \in SkillIds /\ skillOps'[t].at \in SkillWorkers
        /\ \A t \in SkillTasks : skillOps'[t].pc = "idle" => skillOps'[t] = NoOp
    BY <1>0, <2>1, <2>2, NoOpIdle DEF SkillsIInv, SkillsTypeOK, SkillOp
  <2>4. ASSUME NEW q \in SkillIds \ marred' PROVE Unmarred(q)'
    <3>1. /\ q \notin marred /\ Unmarred(q) /\ owner[q] \in SkillWorkers \ {w}
          /\ \A t \in SkillTasks : skillOps[t].at = w => skillOps[t].skill # q
      BY <1>0, <1>13, <2>1, <2>4 DEF RestartSkills
    <3>2. Latest(q)' = Latest(q) /\ points' = points /\ meta' = meta /\ owner' = owner
      BY <2>1, <3>1 DEF Latest
    <3>3. ASSUME NEW t \in SkillTasks
          PROVE  /\ WorksOn(t, q)' <=> WorksOn(t, q)
                 /\ WorksOn(t, q) => skillOps'[t] = skillOps[t] /\ skillOps[t].at \in SkillWorkers \ {w}
      BY <2>1, <3>1, NoOpIdle DEF WorksOn, SkillsIInv
    <3>4. ASSUME NEW t \in SkillTasks, WorksOn(t, q)
          PROVE  Fits(skillOps'[t], Latest(q)', skills'[skillOps'[t].at][q], points'[q], meta'[q], owner'[q])
      <4>1. Fits(skillOps[t], Latest(q), skills[skillOps[t].at][q], points[q], meta[q], owner[q])
        BY <3>1, <3>4 DEF Unmarred
      <4>2. skillOps'[t] = skillOps[t] /\ skills'[skillOps[t].at] = skills[skillOps[t].at]
        BY <2>1, <3>3, <3>4
      <4> QED
        BY <3>2, <4>1, <4>2
    <3> QED
      BY <3>1, <3>2, <3>3, <3>4 DEF Unmarred, SkillAgrees
  <2> QED
    BY <2>2, <2>3, <2>4 DEF SkillsIInv
<1>14. CASE UNCHANGED skillVars
  BY <1>14 DEF skillVars, SkillsIInv, SkillsTypeOK, Unmarred, WorksOn, SkillAgrees, Latest
<1> QED
  BY <1>1, <1>2, <1>3, <1>4, <1>5, <1>6, <1>7, <1>8, <1>9, <1>10, <1>11, <1>12, <1>13, <1>14 DEF SkillsNext

\* When nothing is under way for a skill, the index and the metadata all processes share
\* have what its last register or unregister left in the process that made it, but for
\* the skills marred since then: operations that overlapped, a store that failed, a
\* restart of that process or in the middle of an operation, a reindex or load_full in a
\* process with another version (skills/registry.py).
THEOREM StoresAgreed == SkillsSpec => []StoresAgree
<1>1. SkillsIInv => StoresAgree
  BY DEF SkillsIInv, StoresAgree, Unmarred, SkillAgrees, Busy, WorksOn
<1> QED
  BY SkillsInitial, SkillsStep, <1>1, PTL DEF SkillsSpec

-----------------------------------------------------------------------------
(* The MCP connections.                                                    *)

McpConn == [server : Servers \union {"none"}, is : {"none", "open", "closed"}]
McpRequest == [pc : {"idle", "opening", "using", "closing"},
               server : Servers \union {"none"}, conn : 0..MaxConnections, uses : BOOLEAN]

\* Connections are numbered in the order they were begun.
InOrder(k) == \A c \in ConnIds : conns[c].is # "none" <=> c <= k

Holds(q, c) == requests[q].pc \in {"opening", "closing"} /\ requests[q].conn = c

\* What a request opens or closes, and what a client has, is open ...
HeldIsOpen ==
    /\ \A q \in Requests : requests[q].pc \in {"opening", "closing"} =>
          /\ requests[q].conn \in ConnIds /\ conns[requests[q].conn].is = "open"
          /\ requests[q].server \in Servers
    /\ \A n \in Servers : clients[n] # 0 => clients[n] \in ConnIds /\ conns[clients[n]].is = "open"

\* ... and nobody else's.
HeldOnce ==
    \A q \in Requests, c \in ConnIds : Holds(q, c) =>
        /\ \A p \in Requests \ {q} : ~Holds(p, c)
        /\ \A n \in Servers : clients[n] # c

\* One client per connection.
ClientsDiffer == \A m, n \in Servers : clients[m] = clients[n] /\ m # n => clients[m] = 0

McpIInv ==
    /\ McpTypeOK /\ OpenIsReachable /\ HeldIsOpen /\ HeldOnce /\ ClientsDiffer
    /\ \E k \in 0..MaxConnections : InOrder(k)

LEMMA McpInitial == McpInit => McpIInv
<1> SUFFICES ASSUME McpInit PROVE McpIInv
  OBVIOUS
<1> USE McpAssumption DEF McpInit
<1>1. \A c \in ConnIds : conns[c] = NoConn
  OBVIOUS
<1>2. McpTypeOK
  BY DEF McpTypeOK, NoConn, NoRequest
<1>3. OpenIsReachable
  BY <1>1 DEF OpenIsReachable, NoConn
<1>4. InOrder(0) /\ 0 \in 0..MaxConnections
  BY <1>1 DEF InOrder, ConnIds, NoConn
<1>5. \A q \in Requests : requests[q].pc = "idle"
  BY DEF NoRequest
<1>6. HeldIsOpen /\ HeldOnce /\ ClientsDiffer
  BY <1>5 DEF HeldIsOpen, HeldOnce, ClientsDiffer, Holds
<1> QED
  BY <1>2, <1>3, <1>4, <1>6 DEF McpIInv

LEMMA LastIsCounted ==
    ASSUME NEW k \in 0..MaxConnections, InOrder(k)
    PROVE  LastConn = k
<1>1. {c \in ConnIds : conns[c].is # "none"} = 1..k
  BY McpAssumption DEF InOrder, ConnIds
<1>2. Cardinality(1..k) = k
  <2>1. k \in Nat /\ 1 \in Int /\ k \in Int
    BY McpAssumption
  <2> QED
    BY <2>1, FS_Interval
<1> QED
  BY <1>1, <1>2 DEF LastConn

LEMMA McpStep == McpIInv /\ [McpNext]_mcpVars => McpIInv'
<1> SUFFICES ASSUME McpIInv, [McpNext]_mcpVars PROVE McpIInv'
  OBVIOUS
<1>0. /\ mcpUp \in {"down", "up", "closed"} /\ registered \subseteq Servers /\ lost \subseteq ConnIds
      /\ clients \in [Servers -> 0..MaxConnections] /\ conns \in [ConnIds -> McpConn]
      /\ requests \in [Requests -> McpRequest]
      /\ OpenIsReachable /\ HeldIsOpen /\ HeldOnce /\ ClientsDiffer
  BY DEF McpIInv, McpTypeOK, McpConn, McpRequest
<1>k. PICK k \in 0..MaxConnections : InOrder(k)
  BY DEF McpIInv
<1>n. NoRequest \in McpRequest /\ NoRequest.pc = "idle" /\ 0 \in 0..MaxConnections /\ 0 \notin ConnIds
      /\ ConnIds \subseteq 0..MaxConnections
  BY McpAssumption DEF NoRequest, McpRequest, ConnIds
\* The steps, by the request they change, if any, and the connection they open or close.
<1>a. ASSUME mcpUp' \in {"down", "up", "closed"}, registered' \subseteq Servers, lost' \subseteq ConnIds,
             clients' \in [Servers -> 0..MaxConnections], conns' \in [ConnIds -> McpConn],
             requests' \in [Requests -> McpRequest],
             \A c \in ConnIds : conns[c].is = "none" <=> conns'[c].is = "none",
             OpenIsReachable', HeldIsOpen', HeldOnce', ClientsDiffer'
      PROVE  McpIInv'
  <2>1. InOrder(k)'
    BY <1>k, <1>a DEF InOrder
  <2>2. McpTypeOK'
    BY <1>a DEF McpTypeOK, McpConn, McpRequest
  <2> QED
    BY <1>a, <2>1, <2>2 DEF McpIInv
\* A step of one request which leaves the connections alone.
<1>b. ASSUME NEW q \in Requests, NEW r \in McpRequest, requests' = [requests EXCEPT ![q] = r],
             r.pc \in {"idle", "using"}, requests[q].pc \in {"idle", "using"},
             UNCHANGED <<mcpUp, registered, clients, conns, lost>>
      PROVE  McpIInv'
  <2>1. requests' \in [Requests -> McpRequest] /\ \A p \in Requests : requests'[p] = IF p = q THEN r ELSE requests[p]
    BY <1>0, <1>b
  <2>2. \A p \in Requests, c \in ConnIds : Holds(p, c)' <=> Holds(p, c)
    BY <1>b, <2>1 DEF Holds
  <2>3. OpenIsReachable'
    <3>1. \A p \in Requests : requests[p].pc \in {"opening", "closing"} => requests'[p] = requests[p]
      BY <1>b, <2>1
    <3> QED
      BY <1>0, <1>b, <3>1 DEF OpenIsReachable
  <2>4. HeldIsOpen'
    BY <1>0, <1>b, <2>1 DEF HeldIsOpen
  <2>5. HeldOnce' /\ ClientsDiffer'
    BY <1>0, <1>b, <2>2 DEF HeldOnce, ClientsDiffer
  <2> QED
    BY <1>0, <1>a, <1>b, <2>1, <2>3, <2>4, <2>5
<1>1. CASE LoadServers
  <2>1. registered' \subseteq Servers
    BY <1>1 DEF LoadServers, Declarations
  <2> QED
    BY <1>0, <1>1, <1>a, <2>1 DEF LoadServers, OpenIsReachable, HeldIsOpen, HeldOnce, Holds, ClientsDiffer
<1>2. ASSUME NEW n \in Servers, RegisterServer(n) PROVE McpIInv'
  BY <1>0, <1>2, <1>a DEF RegisterServer, OpenIsReachable, HeldIsOpen, HeldOnce, Holds, ClientsDiffer
<1>3. ASSUME NEW q \in Requests, NEW n \in Servers, BeginMcpRequest(q, n) PROVE McpIInv'
  <2>1. CASE clients[n] # 0
    <3> DEFINE r == [pc |-> "using", server |-> n, conn |-> clients[n], uses |-> TRUE]
    <3>1. r \in McpRequest
      BY <1>0 DEF McpRequest
    <3> QED
      BY <1>3, <2>1, <3>1, <1>b DEF BeginMcpRequest
  <2>2. CASE clients[n] = 0
    <3>0. LastConn = k
      BY <1>k, LastIsCounted
    <3>1. PICK uses \in BOOLEAN :
             /\ k < MaxConnections
             /\ conns' = [conns EXCEPT ![k + 1] = [server |-> n, is |-> "open"]]
             /\ requests' = [requests EXCEPT ![q] = [pc |-> "opening", server |-> n, conn |-> k + 1, uses |-> uses]]
      BY <1>3, <2>2, <3>0 DEF BeginMcpRequest
    <3> DEFINE new == k + 1
    <3> DEFINE r == [pc |-> "opening", server |-> n, conn |-> new, uses |-> uses]
    <3>2. new \in ConnIds /\ k \in Nat /\ new \in 1..MaxConnections
      BY <1>k, <3>1, McpAssumption DEF ConnIds
    <3>3. r \in McpRequest /\ r.pc = "opening" /\ r.conn = new /\ r.server = n
      BY <3>2 DEF McpRequest
    <3>4. conns[new].is = "none"
      BY <1>k, <3>2 DEF InOrder, ConnIds
    <3> HIDE DEF r
    <3>5. /\ conns' \in [ConnIds -> McpConn] /\ conns'[new].is = "open"
          /\ \A c \in ConnIds \ {new} : conns'[c] = conns[c]
      BY <1>0, <3>1, <3>2 DEF McpConn
    <3>6. /\ requests' \in [Requests -> McpRequest] /\ requests'[q] = r
          /\ \A p \in Requests \ {q} : requests'[p] = requests[p]
      BY <1>0, <3>1, <3>3 DEF r
    <3>7. UNCHANGED <<mcpUp, registered, clients, lost>> /\ requests[q].pc = "idle"
      BY <1>3 DEF BeginMcpRequest
    <3>8. McpTypeOK'
      BY <1>0, <3>5, <3>6, <3>7 DEF McpTypeOK, McpConn, McpRequest
    <3>9. InOrder(new)' /\ new \in 0..MaxConnections
      BY <1>k, <3>2, <3>5 DEF InOrder, ConnIds
    <3>10. /\ \A p \in Requests : ~Holds(p, new)
           /\ \A m \in Servers : clients[m] # new
      BY <1>0, <3>2, <3>4 DEF HeldIsOpen, Holds
    <3>11. HeldIsOpen'
      BY <1>0, <3>2, <3>3, <3>5, <3>6, <3>7, <3>10 DEF HeldIsOpen
    <3>12. /\ \A p \in Requests \ {q}, c \in ConnIds : Holds(p, c)' <=> Holds(p, c)
           /\ \A c \in ConnIds : Holds(q, c)' <=> c = new
      BY <3>3, <3>6 DEF Holds
    <3>13. HeldOnce' /\ ClientsDiffer'
      BY <1>0, <3>7, <3>10, <3>12 DEF HeldOnce, ClientsDiffer
    <3>14. ASSUME NEW c \in ConnIds \ lost, conns'[c].is = "open"
           PROVE  \/ \E m \in Servers : clients'[m] = c
                  \/ \E p \in Requests : requests'[p].pc \in {"opening", "closing"} /\ requests'[p].conn = c
      <4>1. CASE c = new
        BY <4>1, <3>3, <3>6
      <4>2. CASE c # new
        BY <1>0, <3>5, <3>6, <3>7, <3>14, <4>2 DEF OpenIsReachable
      <4> QED
        BY <4>1, <4>2
    <3>15. OpenIsReachable'
      BY <3>7, <3>11, <3>14 DEF OpenIsReachable, HeldIsOpen
    <3> QED
      BY <3>8, <3>9, <3>11, <3>13, <3>15 DEF McpIInv
  <2> QED
    BY <2>1, <2>2
<1>4. ASSUME NEW q \in Requests, Connected(q) PROVE McpIInv'
  <2> DEFINE r == requests[q]
  <2> DEFINE n == IF r.uses THEN [r EXCEPT !.pc = "using"] ELSE NoRequest
  <2>1. /\ r.pc = "opening" /\ r \in McpRequest /\ r.conn \in ConnIds /\ conns[r.conn].is = "open" /\ r.server \in Servers
        /\ clients' = [clients EXCEPT ![r.server] = r.conn]
        /\ lost' = lost \union ({clients[r.server]} \ {0})
        /\ requests' = [requests EXCEPT ![q] = n]
        /\ UNCHANGED <<mcpUp, registered, conns>>
    BY <1>0, <1>4 DEF Connected, HeldIsOpen
  <2>2. n \in McpRequest /\ n.pc \in {"idle", "using"}
    BY <2>1, <1>n DEF McpRequest
  <2> HIDE DEF n
  <2>3. /\ requests' \in [Requests -> McpRequest] /\ requests'[q] = n
        /\ \A p \in Requests \ {q} : requests'[p] = requests[p]
    BY <1>0, <2>1, <2>2
  <2>4. /\ clients' \in [Servers -> 0..MaxConnections]
        /\ \A s \in Servers : clients'[s] = IF s = r.server THEN r.conn ELSE clients[s]
    BY <1>0, <1>n, <2>1
  <2>5. Holds(q, r.conn)
    BY <2>1 DEF Holds
  <2>6. /\ \A c \in ConnIds : ~Holds(q, c)'
        /\ \A p \in Requests \ {q}, c \in ConnIds : Holds(p, c)' <=> Holds(p, c)
    BY <2>2, <2>3 DEF Holds
  <2>7. /\ \A p \in Requests \ {q} : ~Holds(p, r.conn)
        /\ \A s \in Servers : clients[s] # r.conn
    BY <1>0, <2>1, <2>5 DEF HeldOnce
  <2>8. HeldIsOpen'
    BY <1>0, <2>1, <2>2, <2>3, <2>4 DEF HeldIsOpen
  <2>9. HeldOnce' /\ ClientsDiffer'
    BY <1>0, <2>1, <2>4, <2>6, <2>7 DEF HeldOnce, ClientsDiffer
  <2>10. lost' \subseteq ConnIds
    BY <1>0, <2>1 DEF HeldIsOpen
  <2>11. ASSUME NEW c \in ConnIds \ lost', conns[c].is = "open"
         PROVE  \/ \E m \in Servers : clients'[m] = c
                \/ \E p \in Requests : requests'[p].pc \in {"opening", "closing"} /\ requests'[p].conn = c
    <3>1. CASE c = r.conn
      BY <2>1, <2>4, <3>1
    <3>2. ASSUME NEW m \in Servers, clients[m] = c PROVE \E s \in Servers : clients'[s] = c
      <4>1. m # r.server
        BY <1>n, <2>1, <2>11, <3>2
      <4> QED
        BY <2>4, <3>2, <4>1
    <3>3. ASSUME NEW p \in Requests, requests[p].pc \in {"opening", "closing"}, requests[p].conn = c, c # r.conn
          PROVE  \E t \in Requests : requests'[t].pc \in {"opening", "closing"} /\ requests'[t].conn = c
      BY <2>3, <3>3
    <3> QED
      BY <1>0, <2>1, <2>11, <3>1, <3>2, <3>3 DEF OpenIsReachable
  <2>12. OpenIsReachable'
    BY <2>1, <2>8, <2>11 DEF OpenIsReachable, HeldIsOpen
  <2> QED
    BY <1>0, <1>a, <2>1, <2>3, <2>4, <2>8, <2>9, <2>10, <2>12
\* A request lets go of its connection, which is closed or lost.
<1>5. ASSUME NEW q \in Requests, ConnectFails(q) \/ Disconnected(q) \/ CloseFails(q) PROVE McpIInv'
  <2> DEFINE x == requests[q].conn
  <2>1. /\ requests[q].pc \in {"opening", "closing"} /\ x \in ConnIds /\ conns[x].is = "open"
        /\ \/ conns' = [conns EXCEPT ![x].is = "closed"] /\ UNCHANGED lost
           \/ UNCHANGED conns /\ lost' = lost \union {x}
        /\ requests' = [requests EXCEPT ![q] = NoRequest]
        /\ UNCHANGED <<mcpUp, registered, clients>>
    BY <1>0, <1>5 DEF ConnectFails, Disconnected, CloseFails, AfterFailure, HeldIsOpen
  <2> HIDE DEF x
  <2>2. /\ requests' \in [Requests -> McpRequest] /\ requests'[q] = NoRequest
        /\ \A p \in Requests \ {q} : requests'[p] = requests[p]
    BY <1>0, <1>n, <2>1
  <2>3. /\ conns' \in [ConnIds -> McpConn] /\ (x \in lost' \/ conns'[x].is = "closed")
        /\ conns'[x].is # "none" /\ \A c \in ConnIds \ {x} : conns'[c] = conns[c]
    <3>1. [conns[x] EXCEPT !.is = "closed"] \in McpConn /\ [conns[x] EXCEPT !.is = "closed"].is = "closed"
      BY <1>0, <2>1 DEF McpConn
    <3> QED
      BY <1>0, <2>1, <3>1
  <2>4. Holds(q, x)
    BY <2>1 DEF Holds, x
  <2>5. /\ \A p \in Requests \ {q} : ~Holds(p, x)
        /\ \A s \in Servers : clients[s] # x
    BY <1>0, <2>1, <2>4 DEF HeldOnce
  <2>6. /\ \A c \in ConnIds : ~Holds(q, c)'
        /\ \A p \in Requests \ {q}, c \in ConnIds : Holds(p, c)' <=> Holds(p, c)
    BY <1>n, <2>2 DEF Holds
  <2>7. HeldIsOpen'
    BY <1>0, <1>n, <2>1, <2>2, <2>3, <2>5 DEF HeldIsOpen, Holds
  <2>8. HeldOnce' /\ ClientsDiffer'
    BY <1>0, <2>1, <2>6 DEF HeldOnce, ClientsDiffer
  <2>9. lost \subseteq lost' /\ lost' \subseteq ConnIds
    BY <1>0, <2>1
  <2>10. ASSUME NEW c \in ConnIds \ lost', conns'[c].is = "open"
         PROVE  \/ \E m \in Servers : clients'[m] = c
                \/ \E p \in Requests : requests'[p].pc \in {"opening", "closing"} /\ requests'[p].conn = c
    <3>1. c # x /\ conns'[c] = conns[c] /\ c \notin lost
      BY <2>3, <2>9, <2>10
    <3>2. requests[q].conn # c
      BY <3>1 DEF x
    <3> QED
      BY <1>0, <2>1, <2>2, <2>10, <3>1, <3>2 DEF OpenIsReachable
  <2>11. OpenIsReachable'
    BY <2>7, <2>10 DEF OpenIsReachable, HeldIsOpen
  <2>12. \A c \in ConnIds : conns[c].is = "none" <=> conns'[c].is = "none"
    BY <2>1, <2>3
  <2> QED
    BY <1>0, <1>a, <2>1, <2>2, <2>3, <2>7, <2>8, <2>9, <2>11, <2>12
<1>6. ASSUME NEW q \in Requests, EndMcpRequest(q) PROVE McpIInv'
  BY <1>6, <1>n, <1>b DEF EndMcpRequest
<1>7. ASSUME NEW q \in Requests, NEW n \in Servers, Disconnect(q, n) PROVE McpIInv'
  <2> DEFINE r == [pc |-> "closing", server |-> n, conn |-> clients[n], uses |-> FALSE]
  <2>1. /\ clients[n] # 0 /\ requests[q].pc = "idle" /\ clients' = [clients EXCEPT ![n] = 0]
        /\ requests' = [requests EXCEPT ![q] = r]
        /\ UNCHANGED <<mcpUp, registered, conns, lost>>
    BY <1>7 DEF Disconnect
  <2>2. r \in McpRequest /\ r.pc = "closing" /\ r.conn = clients[n] /\ r.server = n
    BY <1>0 DEF McpRequest
  <2> HIDE DEF r
  <2>3. /\ requests' \in [Requests -> McpRequest] /\ requests'[q] = r
        /\ \A p \in Requests \ {q} : requests'[p] = requests[p]
    BY <1>0, <2>1, <2>2
  <2>4. /\ clients' \in [Servers -> 0..MaxConnections]
        /\ \A s \in Servers : clients'[s] = IF s = n THEN 0 ELSE clients[s]
    BY <1>0, <1>n, <2>1
  <2>5. clients[n] \in ConnIds /\ conns[clients[n]].is = "open"
    BY <1>0, <2>1 DEF HeldIsOpen
  <2>6. /\ \A c \in ConnIds : Holds(q, c)' <=> c = clients[n]
        /\ \A p \in Requests \ {q}, c \in ConnIds : Holds(p, c)' <=> Holds(p, c)
    BY <2>2, <2>3 DEF Holds
  <2>7. HeldIsOpen'
    BY <1>0, <2>1, <2>2, <2>3, <2>4, <2>5 DEF HeldIsOpen
  <2>8. HeldOnce' /\ ClientsDiffer'
    <3>1. \A p \in Requests : ~Holds(p, clients[n])
      BY <1>0, <2>5 DEF HeldOnce
    <3>2. \A s \in Servers : clients'[s] # clients[n]
      BY <1>0, <1>n, <2>1, <2>4, <2>5 DEF ClientsDiffer
    <3>3. \A s \in Servers, c \in ConnIds : clients[s] # c => clients'[s] # c
      BY <1>n, <2>4
    <3>4. HeldOnce'
      BY <1>0, <2>6, <3>1, <3>2, <3>3 DEF HeldOnce
    <3>5. ClientsDiffer'
      BY <1>0, <2>4 DEF ClientsDiffer
    <3> QED
      BY <3>4, <3>5
  <2>9. ASSUME NEW c \in ConnIds \ lost, conns[c].is = "open"
        PROVE  \/ \E m \in Servers : clients'[m] = c
               \/ \E p \in Requests : requests'[p].pc \in {"opening", "closing"} /\ requests'[p].conn = c
    <3>1. CASE c = clients[n]
      BY <2>2, <2>3, <3>1
    <3>2. ASSUME NEW m \in Servers, clients[m] = c, c # clients[n] PROVE \E s \in Servers : clients'[s] = c
      BY <2>4, <3>2
    <3>3. ASSUME NEW p \in Requests, requests[p].pc \in {"opening", "closing"}, requests[p].conn = c
          PROVE  \E t \in Requests : requests'[t].pc \in {"opening", "closing"} /\ requests'[t].conn = c
      BY <2>1, <2>3, <3>3
    <3> QED
      BY <1>0, <2>9, <3>1, <3>2, <3>3 DEF OpenIsReachable
  <2>10. OpenIsReachable'
    BY <2>1, <2>7, <2>9 DEF OpenIsReachable, HeldIsOpen
  <2> QED
    BY <1>0, <1>a, <2>1, <2>3, <2>4, <2>7, <2>8, <2>10
<1>8. CASE ShutdownMcp
  <2> DEFINE held == {clients[n] : n \in Servers}
  <2>0. /\ mcpUp' = "closed" /\ \A q \in Requests : requests[q].pc = "idle"
        /\ clients' = [n \in Servers |-> 0] /\ UNCHANGED <<registered, requests>>
    BY <1>8 DEF ShutdownMcp
  <2>1. PICK notClosed \in SUBSET held :
           /\ conns' = [c \in ConnIds |-> IF c \in held \ notClosed THEN [conns[c] EXCEPT !.is = "closed"] ELSE conns[c]]
           /\ lost' = lost \union (notClosed \ {0})
    BY <1>8 DEF ShutdownMcp
  <2>2. \A c \in held \ {0} : c \in ConnIds /\ conns[c].is = "open"
    BY <1>0 DEF HeldIsOpen
  <2>3. ASSUME NEW c \in ConnIds
        PROVE  /\ conns'[c] \in McpConn
               /\ conns'[c].is = IF c \in held \ notClosed THEN "closed" ELSE conns[c].is
    <3>1. [conns[c] EXCEPT !.is = "closed"] \in McpConn /\ [conns[c] EXCEPT !.is = "closed"].is = "closed"
      BY <1>0 DEF McpConn
    <3>2. conns'[c] = IF c \in held \ notClosed THEN [conns[c] EXCEPT !.is = "closed"] ELSE conns[c]
      BY <2>1
    <3> QED
      BY <1>0, <3>1, <3>2
  <2>4. conns' \in [ConnIds -> McpConn] /\ \A c \in ConnIds : conns[c].is = "none" <=> conns'[c].is = "none"
    BY <1>n, <2>1, <2>2, <2>3
  <2>5. clients' \in [Servers -> 0..MaxConnections] /\ \A n \in Servers : clients'[n] = 0
    BY <2>0, <1>n
  <2>6. lost' \subseteq ConnIds
    BY <1>0, <2>1, <2>2
  <2>7. HeldIsOpen' /\ HeldOnce' /\ ClientsDiffer'
    BY <2>0, <2>5 DEF HeldIsOpen, HeldOnce, Holds, ClientsDiffer
  <2>8. ASSUME NEW c \in ConnIds \ lost', conns'[c].is = "open" PROVE FALSE
    <3>1. c \notin lost /\ conns[c].is = "open" /\ c \notin held \ notClosed
      BY <2>1, <2>3, <2>8
    <3>2. c \in held
      BY <1>0, <2>0, <3>1 DEF OpenIsReachable
    <3> QED
      BY <1>n, <2>1, <2>8, <3>1, <3>2
  <2>9. OpenIsReachable'
    BY <2>5, <2>8 DEF OpenIsReachable
  <2> QED
    BY <1>0, <1>a, <2>0, <2>4, <2>5, <2>6, <2>7, <2>9
<1>9. CASE UNCHANGED mcpVars
  BY <1>0, <1>9, <1>a DEF mcpVars, OpenIsReachable, HeldIsOpen, HeldOnce, Holds, ClientsDiffer
<1> QED
  BY <1>1, <1>2, <1>3, <1>4, <1>5, <1>6, <1>7, <1>8, <1>9 DEF McpNext

\* The clients of the manager are open, and no open connection is forgotten but one whose
\* client another replaced, whose opening was cancelled, or whose closing was cut short by
\* an exception, also of another one in disconnect_all (mcp/manager.py, mcp/client.py).
THEOREM OpenReachable == McpSpec => []OpenIsReachable
<1>1. McpIInv => OpenIsReachable
  BY DEF McpIInv
<1> QED
  BY McpInitial, McpStep, <1>1, PTL DEF McpSpec

=============================================================================

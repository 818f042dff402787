--------------------------- MODULE GatewayProofs ---------------------------
(***************************************************************************)
(* Theorems about the Gateway and the pages in the browser: the bot client, *)
(* for every budget of attempts and every heartbeat limit, the approvals, the *)
(* chat of a page and its sign-in, for any number of processes, tabs, hooks, *)
(* sessions and requests.                                                  *)
(***************************************************************************)
EXTENDS WecomBotClient, Approvals, H5Chat, BrowserAuth, TLAPS

-----------------------------------------------------------------------------
(* The connection of the bot.                                              *)

\* What a phase of the connection says about socket, frames and heartbeat.
Phases ==
    /\ socket = "opening" => state = "connecting" /\ ~ timer
    /\ request # "none" => socket = "open" /\ state = "subscribing" /\ ~ timer
    /\ ping # "none" => beating
    /\ adapter = "idle" => state = "disconnected" /\ ~ timer /\ socket = "none" /\ left = 0

\* A heartbeat that still beats has not reached its limit.
Beating == beating => missed < HeartbeatTimeoutCount

\* Every reconnection was counted when its timer was armed.
Counted == dials + (IF timer THEN 1 ELSE 0) <= attempts

\* A socket that was let go of has cost an attempt; only the last one of a
\* client that has given up or was stopped has not.
LeftPaid == left <= attempts + 1 /\ (socket # "none" \/ timer => left <= attempts)

Inv == TypeOK /\ Phases /\ Beating /\ OneListenedTo /\ NeverIdle /\ Counted /\ LeftPaid

\* Every way to schedule a reconnection arms the timer or gives up, and
\* stays within the budget.
LEMMA ScheduleBounded ==
    ASSUME NEW n \in Nat \ {0}, TypeOK, Counted, ScheduleReconnect(n), UNCHANGED dials
    PROVE  /\ attempts' \in 0 .. MaxReconnectAttempts
           /\ timer' \in BOOLEAN
           /\ state' \in {"disconnected", "reconnecting"}
           /\ timer' \/ (state' = "disconnected" /\ attempts' = MaxReconnectAttempts)
           /\ attempts' >= attempts /\ (timer' => attempts' >= attempts + 1)
           /\ Counted'
<1>1. attempts \in Nat /\ attempts <= MaxReconnectAttempts /\ dials \in Nat
  BY BotAssumption DEF TypeOK
<1>2. dials <= attempts
  BY <1>1 DEF Counted
<1>3. dials' = dials
  OBVIOUS
<1>4. CASE attempts + n <= MaxReconnectAttempts
  <2>1. attempts' = attempts + n /\ timer' = TRUE /\ state' = "reconnecting"
    BY <1>4 DEF ScheduleReconnect
  <2> QED BY <2>1, <1>1, <1>2, <1>3, <1>4, BotAssumption DEF Counted
<1>5. CASE ~ (attempts + n <= MaxReconnectAttempts)
  <2>1. attempts' = MaxReconnectAttempts /\ timer' = FALSE /\ state' = "disconnected"
    BY <1>5 DEF ScheduleReconnect
  <2>2. (IF timer' THEN 1 ELSE 0) = 0
    BY <2>1
  <2>3. Counted'
    BY <2>1, <2>2, <1>1, <1>2, <1>3, BotAssumption DEF Counted
  <2>4. attempts' \in 0 .. MaxReconnectAttempts
    BY <2>1, BotAssumption
  <2> QED BY <2>1, <2>3, <2>4, <1>1
<1> QED BY <1>4, <1>5

\* A socket let go of by a step that schedules a reconnection is paid for.
LEMMA PaidBySchedule ==
    ASSUME LeftPaid, left \in Nat, attempts \in Nat, attempts' \in Nat, timer' \in BOOLEAN,
           left' = left \/ (left' = left + 1 /\ left <= attempts),
           attempts <= attempts', timer' => attempts + 1 <= attempts', socket' = "none"
    PROVE  LeftPaid'
<1>1. left <= attempts + 1
  BY DEF LeftPaid
<1>2. left' <= attempts' + 1
  BY <1>1
<1>3. timer' => left' <= attempts'
  BY <1>1
<1> QED
  BY <1>2, <1>3 DEF LeftPaid

LEMMA DisconnectKeeps ==
    ASSUME NEW times \in Nat \ {0}, Inv, adapter # "idle", HandleDisconnect(times),
           left' = left \/ (left' = left + 1 /\ socket # "none")
    PROVE  Inv'
<1>1. times + Retries \in Nat \ {0}
  BY DEF Retries
<1>2. ScheduleReconnect(times + Retries) /\ UNCHANGED dials
  BY DEF HandleDisconnect
<1>3. /\ attempts' \in 0 .. MaxReconnectAttempts
      /\ timer' \in BOOLEAN
      /\ state' \in {"disconnected", "reconnecting"}
      /\ timer' \/ (state' = "disconnected" /\ attempts' = MaxReconnectAttempts)
      /\ attempts' >= attempts /\ (timer' => attempts' >= attempts + 1)
      /\ Counted'
  BY <1>1, <1>2, ScheduleBounded DEF Inv
<1>4. adapter' # "idle"
  BY DEF HandleDisconnect, FailStart
<1>5. TypeOK'
  <2>1. left' \in Nat
    BY DEF Inv, TypeOK
  <2> QED
    BY <1>3, <2>1, BotAssumption DEF Inv, TypeOK, HandleDisconnect, FailStart, Frame
<1> QED
  <2>1. Phases'
    BY <1>3, <1>4 DEF Phases, HandleDisconnect
  <2>2. Beating'
    BY DEF Beating, HandleDisconnect
  <2>3. OneListenedTo'
    BY <1>3 DEF OneListenedTo, HandleDisconnect
  <2>4. NeverIdle'
    BY <1>3 DEF NeverIdle, GaveUp
  <2>5. LeftPaid'
    <3>1. socket' = "none"
      BY DEF HandleDisconnect
    <3>2. attempts \in Nat /\ attempts' \in Nat /\ left \in Nat
      BY <1>5 DEF Inv, TypeOK
    <3> QED BY <1>3, <3>1, <3>2 DEF Inv, LeftPaid
  <2> QED BY <1>3, <1>5, <2>1, <2>2, <2>3, <2>4, <2>5 DEF Inv

LEMMA InitHolds == Init => Inv
<1> SUFFICES ASSUME Init PROVE Inv
  OBVIOUS
<1>1. TypeOK
  <2>1. timer \in BOOLEAN /\ shouldRun \in BOOLEAN /\ beating \in BOOLEAN /\ stopped \in BOOLEAN
    BY DEF Init
  <2> QED BY <2>1, BotAssumption DEF Init, TypeOK, Frame
<1>2. Phases
  BY DEF Init, Phases
<1>3. Beating
  BY DEF Init, Beating
<1>4. OneListenedTo
  BY DEF Init, OneListenedTo
<1>5. NeverIdle
  BY DEF Init, NeverIdle
<1>6. Counted
  BY DEF Init, Counted
<1>7. LeftPaid
  BY DEF Init, LeftPaid
<1> QED BY <1>1, <1>2, <1>3, <1>4, <1>5, <1>6, <1>7 DEF Inv

LEMMA StepKeeps ==
    ASSUME Inv, [Next]_vars
    PROVE  Inv'
<1> USE BotAssumption DEF Inv, TypeOK, Frame, Phases, Beating, OneListenedTo, NeverIdle, GaveUp, Counted, LeftPaid
<1>1. CASE Start
  <2>1. /\ adapter = "idle" /\ adapter' = "starting" /\ shouldRun' = TRUE
        /\ state' = "connecting" /\ socket' = "opening" /\ caller' = "start"
        /\ UNCHANGED <<request, ping, attempts, missed, timer, beating, gateway, stopped, dials, left>>
    BY <1>1 DEF Start, Dial
  <2>2. left <= attempts
    BY <2>1
  <2>3. Phases' /\ Beating' /\ OneListenedTo' /\ NeverIdle' /\ Counted' /\ LeftPaid'
    BY <2>1, <2>2
  <2> QED BY <2>1, <2>3
<1>2. CASE Opened
  BY <1>2 DEF Opened
<1>3. CASE HandshakeFails
  BY <1>3, DisconnectKeeps DEF HandshakeFails
<1>4. CASE SendDone
  BY <1>4 DEF SendDone, FrameWritten
<1>5. CASE BreaksWhileSending
  BY <1>5 DEF BreaksWhileSending
<1>6. CASE Subscribed
  BY <1>6 DEF Subscribed
<1>7. CASE SubscribeRefused
  BY <1>7, DisconnectKeeps DEF SubscribeRefused
<1>8. CASE LostWhileSubscribing
  BY <1>8, DisconnectKeeps DEF LostWhileSubscribing
<1>9. CASE Lost
  BY <1>9, DisconnectKeeps DEF Lost
<1>10. CASE Beat
  BY <1>10 DEF Beat, CanBeat
<1>11. CASE HeartbeatTimeout
  <2>1. ScheduleReconnect(1) /\ UNCHANGED dials
    BY <1>11 DEF HeartbeatTimeout
  <2>2. /\ attempts' \in 0 .. MaxReconnectAttempts
        /\ timer' \in BOOLEAN
        /\ state' \in {"disconnected", "reconnecting"}
        /\ timer' \/ (state' = "disconnected" /\ attempts' = MaxReconnectAttempts)
        /\ attempts' >= attempts /\ (timer' => attempts' >= attempts + 1)
        /\ Counted'
    BY <2>1, ScheduleBounded
  <2>3. missed + 1 \in 0 .. HeartbeatTimeoutCount
    BY <1>11 DEF HeartbeatTimeout, CanBeat
  <2>4. /\ socket' = "none" /\ beating' = FALSE /\ request' = "none" /\ ping' = "none"
        /\ adapter' # "idle" /\ missed' = missed + 1 /\ socket = "open" /\ left' = left + 1
        /\ UNCHANGED <<caller, shouldRun, adapter, gateway, stopped, dials>>
    BY <1>11 DEF HeartbeatTimeout, CanBeat
  <2>5. TypeOK'
    <3>1. left' \in Nat
      BY <2>4
    <3> QED BY <2>2, <2>3, <2>4, <3>1
  <2>6. Phases' /\ Beating' /\ OneListenedTo'
    BY <2>2, <2>4
  <2>7. NeverIdle'
    BY <2>2
  <2>8. LeftPaid'
    <3>1. left <= attempts /\ left \in Nat /\ attempts \in Nat /\ attempts' \in Nat
      BY <2>2, <2>4
    <3>2. left' = left + 1 /\ socket' = "none" /\ timer' \in BOOLEAN
      BY <2>2, <2>4
    <3>3. attempts <= attempts' /\ (timer' => attempts + 1 <= attempts')
      BY <2>2, <3>1
    <3>4. LeftPaid
      OBVIOUS
    <3> HIDE DEF LeftPaid
    <3> QED BY <3>1, <3>2, <3>3, <3>4, PaidBySchedule
  <2> QED BY <2>2, <2>5, <2>6, <2>7, <2>8
<1>12. CASE PingAnswered
  BY <1>12 DEF PingAnswered
<1>13. CASE PingFails
  BY <1>13 DEF PingFails
<1>14. CASE TimerFires
  <2>1. /\ timer /\ timer' = FALSE /\ dials' = dials + 1 /\ shouldRun' = TRUE
        /\ state' = "connecting" /\ socket' = "opening" /\ caller' = "timer"
        /\ UNCHANGED <<request, ping, attempts, missed, beating, adapter, gateway, stopped, left>>
    BY <1>14 DEF TimerFires, Dial
  <2>2. dials + 1 <= attempts
    BY <2>1
  <2>3. TypeOK'
    <3>1. timer' \in BOOLEAN /\ shouldRun' \in BOOLEAN
      BY <2>1
    <3> QED BY <2>1, <3>1
  <2>4. Phases' /\ Beating' /\ OneListenedTo' /\ NeverIdle'
    BY <2>1
  <2>5. Counted' /\ LeftPaid'
    BY <2>1, <2>2
  <2> QED BY <2>3, <2>4, <2>5
<1>15. CASE Stop
  <2>1. /\ adapter # "idle" /\ adapter' \in {adapter, "failed"}
        /\ stopped' = TRUE /\ shouldRun' = FALSE /\ beating' = FALSE
        /\ socket' = "none" /\ request' = "none" /\ ping' = "none" /\ caller' = "none"
        /\ left' = (IF socket = "opening" THEN left + 1 ELSE left)
        /\ UNCHANGED <<missed, gateway, dials>>
    BY <1>15 DEF Stop
  <2>2. /\ attempts' \in 0 .. MaxReconnectAttempts
        /\ timer' \in BOOLEAN
        /\ state' \in {"disconnected", "reconnecting"}
        /\ attempts' >= attempts /\ (timer' => attempts' >= attempts + 1)
        /\ Counted'
    <3>1. CASE request = "waiting" /\ caller = "timer"
      <4>1. ScheduleReconnect(1) /\ UNCHANGED dials
        BY <3>1, <1>15 DEF Stop
      <4> QED BY <4>1, ScheduleBounded
    <3>2. CASE ~ (request = "waiting" /\ caller = "timer")
      <4>1. state' = "disconnected" /\ timer' = FALSE /\ attempts' = attempts /\ dials' = dials
        BY <3>2, <1>15 DEF Stop
      <4>2. dials <= attempts
        OBVIOUS
      <4>3. (IF timer' THEN 1 ELSE 0) = 0
        BY <4>1
      <4>4. Counted'
        BY <4>1, <4>2, <4>3
      <4>5. timer' \in BOOLEAN
        BY <4>1
      <4> QED BY <4>1, <4>4, <4>5
    <3> QED BY <3>1, <3>2
  <2>3. TypeOK'
    <3>1. left' \in Nat
      BY <2>1
    <3> QED BY <2>1, <2>2, <3>1
  <2>4. Phases' /\ Beating' /\ OneListenedTo' /\ NeverIdle'
    BY <2>1, <2>2
  <2>5. LeftPaid'
    <3>1. left \in Nat /\ attempts \in Nat /\ attempts' \in Nat /\ LeftPaid
      BY <2>2
    <3>2. left' = left \/ (left' = left + 1 /\ left <= attempts)
      BY <2>1
    <3>3. attempts <= attempts' /\ (timer' => attempts + 1 <= attempts')
      BY <2>2, <3>1
    <3>4. socket' = "none" /\ timer' \in BOOLEAN
      BY <2>1, <2>2
    <3> HIDE DEF LeftPaid
    <3> QED BY <3>1, <3>2, <3>3, <3>4, PaidBySchedule
  <2> QED BY <2>2, <2>3, <2>4, <2>5
<1>16. CASE LatePong
  BY <1>16 DEF LatePong
<1>17. CASE UNCHANGED vars
  BY <1>17 DEF vars
<1> QED
  BY <1>1, <1>2, <1>3, <1>4, <1>5, <1>6, <1>7, <1>8, <1>9, <1>10, <1>11, <1>12,
     <1>13, <1>14, <1>15, <1>16, <1>17 DEF Next

\* The inductive invariant of the client.
THEOREM Invariance == Spec => []Inv
BY InitHolds, StepKeeps, PTL DEF Spec

(* While a reconnection is scheduled the client listens to no socket, awaits *)
(* no answer and sends no heartbeat, although listeners and catch clauses  *)
(* call scheduleReconnect for one and the same failure.  The WebSockets it *)
(* has let go of are the subject of LeftoverBounded.                         *)
THEOREM OneDriven == Spec => []OneListenedTo
<1>1. Inv => OneListenedTo
  BY DEF Inv
<1> QED BY <1>1, Invariance, PTL

(* A client that should run has a socket, an armed timer or no attempts    *)
(* left (scheduleReconnect and its callers).                               *)
THEOREM AlwaysBusy == Spec => []NeverIdle
<1>1. Inv => NeverIdle
  BY DEF Inv
<1> QED BY <1>1, Invariance, PTL

(* Between two subscriptions the client leaves at most one WebSocket more  *)
(* open than it has attempts: handleDisconnect does not close them.        *)
THEOREM LeftoverBounded == Spec => []LeftBounded
<1>1. Inv => LeftBounded
  BY BotAssumption DEF Inv, TypeOK, LeftPaid, LeftBounded
<1> QED BY <1>1, Invariance, PTL

(* config.maxReconnectAttempts bounds the reconnections between two        *)
(* subscriptions.                                                          *)
THEOREM Budget == Spec => []WithinBudget
<1>1. Inv => WithinBudget
  BY BotAssumption DEF Inv, Counted, TypeOK, WithinBudget
<1> QED BY <1>1, Invariance, PTL

-----------------------------------------------------------------------------
(* Approvals.                                                              *)

\* What an approval is decided as, it stays.
StatusKept ==
    \A a \in 1..Len(approvals) :
        /\ a <= Len(approvals')
        /\ approvals[a].status # "pending" => approvals'[a].status = approvals[a].status

\* A view of the approvals holds known ones, and as decided only what is.
Settled(v) ==
    \A a \in Ids : v[a] # "absent" =>
        /\ a <= Len(approvals)
        /\ v[a] # "pending" => approvals[a].status # "pending"

\* The cards of a tab are of known approvals, finished ones were answered there.
CardsFit(t, v) ==
    \A a \in Ids : /\ v[a] # "none" => a <= Len(approvals)
                   /\ v[a] = "finished" => AnsweredIn(t, a)

\* A response stays the tab's and the approval's it was sent for.
ResponsesKept ==
    \A r \in 1..Len(responses) :
        /\ r <= Len(responses')
        /\ responses'[r].tab = responses[r].tab /\ responses'[r].id = responses[r].id

ResponsesKnown ==
    \A r \in 1..Len(responses) :
        /\ responses[r].id <= Len(approvals)
        /\ responses[r].at = "ok" => approvals[responses[r].id].status # "pending"

ApprovalsIInv ==
    /\ ApprovalsTypeOK /\ ResponsesKnown
    /\ \A t \in Tabs : Settled(shown[t]) /\ Settled(fetched[t].list) /\ CardsFit(t, cards[t])

LEMMA NothingIsView ==
    /\ Nothing \in View /\ \A a \in Ids : Nothing[a] = "absent"
    /\ NoCards \in CardView /\ \A a \in Ids : NoCards[a] = "none"
  BY DEF Nothing, View, NoCards, CardView

LEMMA IdsOfApprovals ==
    ASSUME ApprovalsTypeOK
    PROVE  /\ Len(approvals) \in Nat /\ MaxApprovals \in Nat /\ 1..Len(approvals) \subseteq Ids
           /\ \A a \in Ids : a <= Len(approvals) => a \in 1..Len(approvals)
  BY ApprovalsAssumption DEF ApprovalsTypeOK, Ids

LEMMA ApprovalsInitial == ApprovalsInit => ApprovalsIInv
<1> SUFFICES ASSUME ApprovalsInit PROVE ApprovalsIInv
  OBVIOUS
<1>1. [at |-> "idle", list |-> Nothing] \in [at : {"idle", "answered"}, list : View]
  BY NothingIsView
<1>2. ApprovalsTypeOK
  BY <1>1, NothingIsView, ApprovalsAssumption DEF ApprovalsInit, ApprovalsTypeOK
<1>3. \A t \in Tabs : shown[t] = Nothing /\ fetched[t].list = Nothing /\ cards[t] = NoCards
  BY DEF ApprovalsInit
<1>4. Settled(Nothing) /\ \A t \in Tabs : CardsFit(t, NoCards)
  BY NothingIsView DEF Settled, CardsFit
<1> QED
  BY <1>2, <1>3, <1>4 DEF ApprovalsInit, ApprovalsIInv, ResponsesKnown

\* A view that is settled stays so while statuses are kept.
LEMMA SettledStays ==
    ASSUME ApprovalsTypeOK, StatusKept, NEW v, Settled(v)
    PROVE  \A a \in Ids : v[a] # "absent" => /\ a <= Len(approvals')
                                             /\ v[a] # "pending" => approvals'[a].status # "pending"
  BY IdsOfApprovals DEF Settled, StatusKept

\* A step that keeps the statuses, and adds to the views only what is settled.
LEMMA SettledStep ==
    ASSUME ApprovalsIInv, StatusKept, ResponsesKept, ApprovalsTypeOK',
           \A t \in Tabs : Settled(shown[t])' \/ shown'[t] = shown[t],
           \A t \in Tabs : Settled(fetched[t].list)' \/ fetched'[t] = fetched[t],
           \A t \in Tabs : cards'[t] = cards[t] \/ CardsFit(t, cards[t])',
           \A r \in 1..Len(responses') :
               \/ r <= Len(responses) /\ responses'[r] = responses[r]
               \/ /\ responses'[r].id <= Len(approvals')
                  /\ responses'[r].at = "ok" => approvals'[responses'[r].id].status # "pending"
    PROVE  ApprovalsIInv'
<1>1. ApprovalsTypeOK /\ Len(approvals') \in Nat /\ Len(responses) \in Nat /\ Len(responses') \in Nat
  BY DEF ApprovalsIInv, ApprovalsTypeOK
<1>2. ASSUME NEW t \in Tabs PROVE Settled(shown[t])'
  <2>1. CASE shown'[t] = shown[t]
    <3>1. Settled(shown[t])
      BY DEF ApprovalsIInv
    <3> QED
      BY <1>1, <2>1, <3>1, SettledStays DEF Settled
  <2> QED
    BY <2>1
<1>3. ASSUME NEW t \in Tabs PROVE Settled(fetched[t].list)'
  <2>1. CASE fetched'[t] = fetched[t]
    <3>1. Settled(fetched[t].list)
      BY DEF ApprovalsIInv
    <3> QED
      BY <1>1, <2>1, <3>1, SettledStays DEF Settled
  <2> QED
    BY <2>1
<1>4. ASSUME NEW t \in Tabs PROVE CardsFit(t, cards[t])'
  <2>1. CASE cards'[t] = cards[t]
    <3>1. CardsFit(t, cards[t])
      BY DEF ApprovalsIInv
    <3>2. ASSUME NEW a \in Ids, a <= Len(approvals) PROVE a <= Len(approvals')
      BY <1>1, <3>2, IdsOfApprovals DEF StatusKept
    <3>3. ASSUME NEW a \in Ids, AnsweredIn(t, a) PROVE AnsweredIn(t, a)'
      <4>1. PICK r \in 1..Len(responses) : responses[r].tab = t /\ responses[r].id = a
        BY <3>3 DEF AnsweredIn
      <4>2. r \in 1..Len(responses') /\ responses'[r].tab = t /\ responses'[r].id = a
        BY <1>1, <4>1 DEF ResponsesKept
      <4> QED
        BY <4>2 DEF AnsweredIn
    <3> QED
      BY <2>1, <3>1, <3>2, <3>3 DEF CardsFit
  <2> QED
    BY <2>1
<1>5. ResponsesKnown'
  <2>1. ASSUME NEW r \in 1..Len(responses'), r <= Len(responses), responses'[r] = responses[r]
        PROVE  /\ responses'[r].id <= Len(approvals')
               /\ responses'[r].at = "ok" => approvals'[responses'[r].id].status # "pending"
    <3>1. r \in 1..Len(responses)
      BY <1>1, <2>1
    <3>2. responses[r].id \in Ids /\ responses[r].id <= Len(approvals)
          /\ (responses[r].at = "ok" => approvals[responses[r].id].status # "pending")
      <4>1. responses[r] \in Response
        BY <3>1 DEF ApprovalsIInv, ApprovalsTypeOK
      <4>2. responses[r].id \in Ids
        BY <4>1 DEF Response
      <4> QED
        BY <3>1, <4>2 DEF ApprovalsIInv, ResponsesKnown
    <3> QED
      BY <1>1, <2>1, <3>2, IdsOfApprovals DEF StatusKept
  <2> QED
    BY <2>1 DEF ResponsesKnown
<1> QED
  BY <1>2, <1>3, <1>4, <1>5 DEF ApprovalsIInv

LEMMA ApprovalsStep ==
    ASSUME ApprovalsIInv, [ApprovalsNext]_approvalVars
    PROVE  ApprovalsIInv' /\ StatusKept
<1>0. /\ ApprovalsTypeOK /\ ResponsesKnown
      /\ approvals \in Seq(ApprovalRecord) /\ responses \in Seq(Response)
      /\ shown \in [Tabs -> View] /\ cards \in [Tabs -> CardView]
      /\ fetched \in [Tabs -> [at : {"idle", "answered"}, list : View]]
      /\ Len(approvals) \in Nat /\ Len(approvals) <= MaxApprovals /\ Len(responses) \in Nat
      /\ \A t \in Tabs : Settled(shown[t]) /\ Settled(fetched[t].list) /\ CardsFit(t, cards[t])
  BY DEF ApprovalsIInv, ApprovalsTypeOK
<1> USE IdsOfApprovals
<1>1. ASSUME NEW w \in Workers, NEW u \in Approvers, CreateApproval(w, u)
      PROVE  ApprovalsIInv' /\ StatusKept
  <2> DEFINE n == Len(approvals) + 1
  <2> DEFINE new == [worker |-> w, user |-> u, status |-> "pending", alive |-> TRUE]
  <2>1. /\ approvals' = Append(approvals, new) /\ n <= MaxApprovals /\ n \in Ids
        /\ UNCHANGED <<responses, fetched>>
    BY <1>0, <1>1 DEF CreateApproval, Ids
  <2>2. PICK ts \in SUBSET Tabs :
           /\ shown' = [t \in Tabs |-> IF t \in ts THEN [shown[t] EXCEPT ![n] = "pending"] ELSE shown[t]]
           /\ cards' = [t \in Tabs |-> IF t \in ts THEN [cards[t] EXCEPT ![n] = "pending"] ELSE cards[t]]
    BY <1>1 DEF CreateApproval
  <2>3. new \in ApprovalRecord
    BY DEF ApprovalRecord, Status, Decisions
  <2>4. /\ approvals' \in Seq(ApprovalRecord) /\ Len(approvals') = n
        /\ \A a \in 1..Len(approvals) : approvals'[a] = approvals[a]
    BY <1>0, <2>1, <2>3
  <2>5. StatusKept
    BY <1>0, <2>4 DEF StatusKept
  <2>6. \A t \in Tabs : /\ [shown[t] EXCEPT ![n] = "pending"] \in View
                         /\ [cards[t] EXCEPT ![n] = "pending"] \in CardView
    BY <1>0, <2>1 DEF View, Status, CardView
  <2>7. shown' \in [Tabs -> View] /\ cards' \in [Tabs -> CardView]
    BY <1>0, <2>1, <2>2, <2>6
  <2>8. ApprovalsTypeOK'
    BY <1>0, <2>1, <2>4, <2>7 DEF ApprovalsTypeOK
  <2>9. ASSUME NEW t \in Tabs PROVE Settled(shown[t])' \/ shown'[t] = shown[t]
    <3>1. CASE t \notin ts
      BY <2>2, <3>1
    <3>2. CASE t \in ts
      <4>1. /\ shown'[t][n] = "pending"
            /\ \A a \in Ids \ {n} : shown'[t][a] = shown[t][a]
        BY <1>0, <2>1, <2>2, <3>2 DEF View
      <4>2. \A a \in Ids : shown[t][a] # "absent" =>
               /\ a <= Len(approvals')
               /\ shown[t][a] # "pending" => approvals'[a].status # "pending"
        BY <1>0, <2>5, SettledStays
      <4> QED
        BY <2>4, <4>1, <4>2 DEF Settled
    <3> QED
      BY <3>1, <3>2
  <2>10. ASSUME NEW t \in Tabs PROVE cards'[t] = cards[t] \/ CardsFit(t, cards[t])'
    <3>1. CASE t \notin ts
      BY <2>2, <3>1
    <3>2. CASE t \in ts
      <4>1. cards'[t][n] = "pending" /\ \A a \in Ids \ {n} : cards'[t][a] = cards[t][a]
        BY <1>0, <2>1, <2>2, <3>2 DEF CardView
      <4>2. \A a \in Ids : AnsweredIn(t, a)' <=> AnsweredIn(t, a)
        BY <2>1 DEF AnsweredIn
      <4>3. CardsFit(t, cards[t]) /\ \A a \in Ids : a <= Len(approvals) => a <= Len(approvals')
        BY <1>0, <2>4 DEF Ids
      <4> QED
        BY <2>4, <4>1, <4>2, <4>3 DEF CardsFit
    <3> QED
      BY <3>1, <3>2
  <2>11. ResponsesKept
    BY <1>0, <2>1 DEF ResponsesKept
  <2> HIDE DEF new
  <2> QED
    BY <1>0, <2>1, <2>5, <2>8, <2>9, <2>10, <2>11, SettledStep
<1>2. ASSUME NEW w \in Workers, WorkerRestart(w) PROVE ApprovalsIInv' /\ StatusKept
  <2> DEFINE ended == [a \in 1..Len(approvals) |->
                          [approvals[a] EXCEPT !.alive = approvals[a].alive /\ approvals[a].worker # w]]
  <2>1. approvals' = CleanupExpired(w, ended, Ids) /\ UNCHANGED <<shown, cards, responses, fetched>>
    BY <1>2 DEF WorkerRestart
  <2>2. /\ Len(ended) = Len(approvals)
        /\ \A a \in 1..Len(approvals) : ended[a] \in ApprovalRecord /\ ended[a].status = approvals[a].status
    <3>1. ASSUME NEW a \in 1..Len(approvals)
          PROVE  ended[a] \in ApprovalRecord /\ ended[a].status = approvals[a].status
      <4>1. approvals[a] \in ApprovalRecord
        BY <1>0
      <4>2. ended[a] = [approvals[a] EXCEPT !.alive = approvals[a].alive /\ approvals[a].worker # w]
        OBVIOUS
      <4>3. (approvals[a].alive /\ approvals[a].worker # w) \in BOOLEAN
        OBVIOUS
      <4> QED
        BY <4>1, <4>2, <4>3 DEF ApprovalRecord
    <3>2. Len(ended) = Len(approvals)
      BY <1>0
    <3> QED
      BY <3>1, <3>2
  <2> HIDE DEF ended
  <2>3. \A a \in 1..Len(approvals) : [ended[a] EXCEPT !.status = "timeout"] \in ApprovalRecord
    BY <2>2 DEF ApprovalRecord, Status
  <2>4. /\ approvals' \in Seq(ApprovalRecord) /\ Len(approvals') = Len(approvals)
        /\ \A a \in 1..Len(approvals) :
              approvals'[a] = ended[a]
              \/ (ended[a].status = "pending" /\ approvals'[a] = [ended[a] EXCEPT !.status = "timeout"])
    BY <1>0, <2>1, <2>2, <2>3 DEF CleanupExpired
  <2>5. StatusKept
    <3> SUFFICES ASSUME NEW a \in 1..Len(approvals)
                 PROVE  /\ a <= Len(approvals')
                        /\ approvals[a].status # "pending" => approvals'[a].status = approvals[a].status
      BY DEF StatusKept
    <3>1. ended[a].status = approvals[a].status
      BY <2>2
    <3>2. approvals'[a] = ended[a] \/ ended[a].status = "pending"
      BY <2>4
    <3> QED
      BY <1>0, <2>4, <3>1, <3>2
  <2>6. ApprovalsTypeOK'
    BY <1>0, <2>1, <2>4 DEF ApprovalsTypeOK
  <2>7. ResponsesKept
    BY <1>0, <2>1 DEF ResponsesKept
  <2> QED
    BY <1>0, <2>1, <2>5, <2>6, <2>7, SettledStep
<1>3. ASSUME NEW a \in Ids, NEW t \in Tabs, NEW d \in Decisions, Decide(t, a, d)
      PROVE  ApprovalsIInv' /\ StatusKept
  <2> DEFINE new == [tab |-> t, id |-> a, decision |-> d, at |-> "sent"]
  <2>1. /\ responses' = Append(responses, new) /\ UNCHANGED <<approvals, shown, fetched>>
        /\ cards' = [cards EXCEPT ![t] = [cards[t] EXCEPT ![a] = "finished"]] \/ cards' = cards
        /\ cards[t][a] = "pending" \/ shown[t][a] = "pending"
    BY <1>3 DEF Decide
  <2>2. new \in Response /\ new.id = a /\ new.at = "sent" /\ new.tab = t
    BY DEF Response
  <2>3. a <= Len(approvals)
    BY <1>0, <2>1 DEF Settled, CardsFit
  <2> HIDE DEF new
  <2>4. responses' \in Seq(Response) /\ Len(responses') = Len(responses) + 1
        /\ responses'[Len(responses) + 1] = new
        /\ \A r \in 1..Len(responses) : responses'[r] = responses[r]
    BY <1>0, <2>1, <2>2
  <2>5. StatusKept
    BY <1>0, <2>1 DEF StatusKept
  <2>6. /\ cards' \in [Tabs -> CardView]
        /\ \A s \in Tabs : \/ cards'[s] = cards[s]
                           \/ s = t /\ cards'[s] = [cards[s] EXCEPT ![a] = "finished"]
    <3>1. [cards[t] EXCEPT ![a] = "finished"] \in CardView
      BY <1>0 DEF CardView
    <3> QED
      BY <1>0, <2>1, <3>1
  <2>7. ApprovalsTypeOK'
    BY <1>0, <2>1, <2>4, <2>6 DEF ApprovalsTypeOK
  <2>8. \A r \in 1..Len(responses') :
            \/ r <= Len(responses) /\ responses'[r] = responses[r]
            \/ /\ responses'[r].id <= Len(approvals')
               /\ responses'[r].at = "ok" => approvals'[responses'[r].id].status # "pending"
    BY <1>0, <2>1, <2>2, <2>3, <2>4
  <2>9. ResponsesKept
    BY <1>0, <2>4 DEF ResponsesKept
  <2>10. ASSUME NEW s \in Tabs PROVE cards'[s] = cards[s] \/ CardsFit(s, cards[s])'
    <3>1. CASE cards'[s] # cards[s]
      <4>1. s = t /\ cards'[s] = [cards[s] EXCEPT ![a] = "finished"]
        BY <2>6, <3>1
      <4>2. Len(responses) + 1 \in 1..Len(responses')
        BY <1>0, <2>4
      <4>3. AnsweredIn(t, a)'
        BY <2>2, <2>4, <4>2 DEF AnsweredIn
      <4>4. \A b \in Ids : AnsweredIn(t, b) => AnsweredIn(t, b)'
        BY <1>0, <2>4 DEF AnsweredIn
      <4>5. \A b \in Ids \ {a} : cards'[s][b] = cards[s][b]
        BY <1>0, <4>1 DEF CardView
      <4>6. CardsFit(t, cards[t])
        BY <1>0
      <4> QED
        BY <2>1, <2>3, <4>1, <4>3, <4>4, <4>5, <4>6 DEF CardsFit
    <3> QED
      BY <3>1
  <2> QED
    BY <1>0, <2>1, <2>5, <2>6, <2>7, <2>8, <2>9, <2>10, SettledStep
<1>4. ASSUME NEW r \in 1..Len(responses), RespondAnswered(r) PROVE ApprovalsIInv' /\ StatusKept
  <2> DEFINE q == responses[r]
  <2>1. /\ q \in Response /\ q.id \in Ids /\ q.tab \in Tabs
        /\ q.id <= Len(approvals) /\ (q.at = "ok" => approvals[q.id].status # "pending")
    <3>1. q \in Response
      BY <1>0
    <3>2. q.id \in Ids /\ q.tab \in Tabs
      BY <3>1 DEF Response
    <3> QED
      BY <1>0, <3>1, <3>2 DEF ResponsesKnown
  <2>2. /\ responses' = [responses EXCEPT ![r] = [q EXCEPT !.at = "done"]]
        /\ UNCHANGED <<approvals, cards, fetched>> /\ shown' \in {shown, UpdateShown(q)}
    BY <1>4 DEF RespondAnswered
  <2>3. [q EXCEPT !.at = "done"] \in Response /\ [q EXCEPT !.at = "done"].id = q.id
        /\ [q EXCEPT !.at = "done"].tab = q.tab
        /\ [q EXCEPT !.at = "done"].at = "done"
    BY <2>1 DEF Response
  <2> DEFINE v == [shown[q.tab] EXCEPT ![q.id] =
                      IF shown[q.tab][q.id] = "absent" \/ q.at # "ok" THEN shown[q.tab][q.id] ELSE q.decision]
  <2>4. UpdateShown(q) = [shown EXCEPT ![q.tab] = v]
    BY DEF UpdateShown
  <2>5. v \in View /\ Settled(v)
    <3>1. v \in View
      BY <1>0, <2>1 DEF View, Status, Response
    <3>2. Settled(shown[q.tab])
      BY <1>0, <2>1
    <3>3. shown[q.tab] \in View
      BY <1>0, <2>1
    <3>4. \A a \in Ids : v[a] = shown[q.tab][a] \/ (a = q.id /\ q.at = "ok")
      BY <2>1, <3>3 DEF View
    <3> QED
      BY <2>1, <3>1, <3>2, <3>4 DEF Settled
  <2> HIDE DEF v
  <2>6. /\ shown' \in [Tabs -> View]
        /\ \A t \in Tabs : shown'[t] = shown[t] \/ shown'[t] = v
    BY <1>0, <2>1, <2>2, <2>4, <2>5
  <2>7. /\ responses' \in Seq(Response) /\ Len(responses') = Len(responses)
        /\ responses'[r].id = q.id /\ responses'[r].at = "done" /\ responses'[r].tab = q.tab
        /\ \A s \in 1..Len(responses) : s # r => responses'[s] = responses[s]
    BY <1>0, <2>2, <2>3
  <2>8. ApprovalsTypeOK'
    BY <1>0, <2>2, <2>6, <2>7 DEF ApprovalsTypeOK
  <2>9. StatusKept
    BY <1>0, <2>2 DEF StatusKept
  <2>10. \A t \in Tabs : Settled(shown[t])' \/ shown'[t] = shown[t]
    BY <2>2, <2>5, <2>6 DEF Settled
  <2>11. \A s \in 1..Len(responses') :
            \/ s <= Len(responses) /\ responses'[s] = responses[s]
            \/ /\ responses'[s].id <= Len(approvals')
               /\ responses'[s].at = "ok" => approvals'[responses'[s].id].status # "pending"
    BY <1>0, <2>1, <2>2, <2>7
  <2>12. ResponsesKept
    <3>1. ASSUME NEW s \in 1..Len(responses)
          PROVE  s <= Len(responses') /\ responses'[s].tab = responses[s].tab
                                      /\ responses'[s].id = responses[s].id
      <4>1. CASE s = r
        BY <1>0, <2>7, <4>1
      <4>2. CASE s # r
        BY <1>0, <2>7, <4>2
      <4> QED
        BY <4>1, <4>2
    <3> QED
      BY <3>1 DEF ResponsesKept
  <2> QED
    BY <1>0, <2>2, <2>8, <2>9, <2>10, <2>11, <2>12, SettledStep
<1>5. ASSUME NEW r \in 1..Len(responses), NEW w \in Workers, Respond(r, w)
      PROVE  ApprovalsIInv' /\ StatusKept
  <2> DEFINE q == responses[r]
  <2> DEFINE allowed == approvals[q.id].alive /\ approvals[q.id].worker = w
                        /\ approvals[q.id].user = TabUser[q.tab]
  <2> DEFINE x == IF allowed THEN "ok" ELSE "failed"
  <2> DEFINE d == IF approvals[q.id].status = "pending" THEN q.decision ELSE approvals[q.id].status
  <2>1. /\ q \in Response /\ q.id \in 1..Len(approvals) /\ approvals[q.id] \in ApprovalRecord
        /\ d \in Status
    <3>1. q \in Response
      BY <1>0
    <3>2. q.id \in Ids /\ q.decision \in Decisions
      BY <3>1 DEF Response
    <3>3. q.id \in 1..Len(approvals)
      BY <1>0, <3>2 DEF ResponsesKnown
    <3>4. approvals[q.id] \in ApprovalRecord
      BY <1>0, <3>3
    <3>5. approvals[q.id].status \in Status
      BY <3>4 DEF ApprovalRecord
    <3> QED
      BY <3>1, <3>2, <3>3, <3>4, <3>5 DEF Status
  <2>2. /\ responses' = [responses EXCEPT ![r] = [q EXCEPT !.at = x]]
        /\ approvals' = IF allowed THEN [approvals EXCEPT ![q.id] = [approvals[q.id] EXCEPT !.status = d]]
                        ELSE approvals
        /\ UNCHANGED <<shown, cards, fetched>>
    BY <1>5 DEF Respond, UpdateStatus
  <2> DEFINE a1 == [approvals[q.id] EXCEPT !.status = d]
  <2>3. a1 \in ApprovalRecord /\ a1.status = d /\ d # "pending"
    BY <2>1 DEF ApprovalRecord, Response, Decisions
  <2>4. [q EXCEPT !.at = x] \in Response /\ [q EXCEPT !.at = x].id = q.id /\ [q EXCEPT !.at = x].at = x
        /\ [q EXCEPT !.at = x].tab = q.tab
    BY <2>1 DEF Response
  <2> HIDE DEF a1, d
  <2>5. /\ approvals' \in Seq(ApprovalRecord) /\ Len(approvals') = Len(approvals)
        /\ \A a \in 1..Len(approvals) : a # q.id => approvals'[a] = approvals[a]
        /\ allowed => approvals'[q.id] = a1
        /\ ~allowed => approvals' = approvals
    <3>1. CASE allowed
      <4>1. approvals' = [approvals EXCEPT ![q.id] = a1]
        BY <2>2, <3>1 DEF a1
      <4> HIDE DEF q
      <4>2. approvals' \in Seq(ApprovalRecord) /\ Len(approvals') = Len(approvals)
        BY <1>0, <2>1, <2>3, <4>1
      <4> QED
        BY <1>0, <2>1, <3>1, <4>1, <4>2
    <3>2. CASE ~allowed
      BY <1>0, <2>2, <3>2
    <3> QED
      BY <3>1, <3>2
  <2>6. /\ responses' \in Seq(Response) /\ Len(responses') = Len(responses)
        /\ responses'[r].id = q.id /\ responses'[r].at = x /\ responses'[r].tab = q.tab
        /\ \A s \in 1..Len(responses) : s # r => responses'[s] = responses[s]
    BY <1>0, <2>2, <2>4
  <2>7. approvals[q.id].status # "pending" => d = approvals[q.id].status
    BY DEF d
  <2>8. StatusKept
    BY <1>0, <2>3, <2>5, <2>7 DEF StatusKept
  <2>9. ApprovalsTypeOK'
    BY <1>0, <2>2, <2>5, <2>6 DEF ApprovalsTypeOK
  <2>10. \A s \in 1..Len(responses') :
            \/ s <= Len(responses) /\ responses'[s] = responses[s]
            \/ /\ responses'[s].id <= Len(approvals')
               /\ responses'[s].at = "ok" => approvals'[responses'[s].id].status # "pending"
    BY <1>0, <2>1, <2>3, <2>5, <2>6
  <2>11. ResponsesKept
    <3>1. ASSUME NEW s \in 1..Len(responses)
          PROVE  s <= Len(responses') /\ responses'[s].tab = responses[s].tab
                                      /\ responses'[s].id = responses[s].id
      <4>1. CASE s = r
        BY <1>0, <2>6, <4>1
      <4>2. CASE s # r
        BY <1>0, <2>6, <4>2
      <4> QED
        BY <4>1, <4>2
    <3> QED
      BY <3>1 DEF ResponsesKept
  <2> QED
    BY <1>0, <2>2, <2>8, <2>9, <2>10, <2>11, SettledStep
<1>6. ASSUME NEW t \in Tabs, NEW w \in Workers, Fetch(t, w) PROVE ApprovalsIInv' /\ StatusKept
  <2> DEFINE list == [a \in Ids |-> IF a \in ListByUser(w, TabUser[t], Status)
                                    THEN approvals[a].status ELSE "absent"]
  <2>1. /\ fetched' = [fetched EXCEPT ![t] = [at |-> "answered", list |-> list]]
        /\ UNCHANGED <<approvals, shown, cards, responses>>
    BY <1>6 DEF Fetch
  <2>2. list \in View /\ Settled(list)
    <3>1. \A a \in ListByUser(w, TabUser[t], Status) : a \in 1..Len(approvals) /\ approvals[a].status \in Status
      BY DEF ListByUser
    <3> QED
      BY <1>0, <3>1 DEF View, Settled
  <2> HIDE DEF list
  <2>3. [at |-> "answered", list |-> list] \in [at : {"idle", "answered"}, list : View]
    BY <2>2
  <2>4. /\ fetched' \in [Tabs -> [at : {"idle", "answered"}, list : View]]
        /\ \A s \in Tabs : fetched'[s] = fetched[s] \/ fetched'[s].list = list
    BY <1>0, <2>1, <2>3
  <2>5. StatusKept /\ ApprovalsTypeOK'
    BY <1>0, <2>1, <2>4 DEF StatusKept, ApprovalsTypeOK
  <2>6. \A s \in Tabs : Settled(fetched[s].list)' \/ fetched'[s] = fetched[s]
    BY <2>1, <2>2, <2>4 DEF Settled
  <2>7. ResponsesKept
    BY <1>0, <2>1 DEF ResponsesKept
  <2> QED
    BY <1>0, <2>1, <2>5, <2>6, <2>7, SettledStep
<1>7. ASSUME NEW t \in Tabs, FetchAnswered(t) PROVE ApprovalsIInv' /\ StatusKept
  <2>1. /\ fetched' = [fetched EXCEPT ![t] = [at |-> "idle", list |-> Nothing]]
        /\ shown' = shown \/ shown' = [shown EXCEPT ![t] = fetched[t].list]
        /\ UNCHANGED <<approvals, cards, responses>>
    BY <1>7 DEF FetchAnswered
  <2>2. [at |-> "idle", list |-> Nothing] \in [at : {"idle", "answered"}, list : View]
    BY NothingIsView
  <2>3. Settled(Nothing)
    BY NothingIsView DEF Settled
  <2>4. /\ fetched' \in [Tabs -> [at : {"idle", "answered"}, list : View]]
        /\ \A s \in Tabs : fetched'[s] = fetched[s] \/ fetched'[s].list = Nothing
    BY <1>0, <2>1, <2>2
  <2>5. /\ shown' \in [Tabs -> View]
        /\ \A s \in Tabs : shown'[s] = shown[s] \/ shown'[s] = fetched[s].list
    BY <1>0, <2>1
  <2>6. StatusKept /\ ApprovalsTypeOK'
    BY <1>0, <2>1, <2>4, <2>5 DEF StatusKept, ApprovalsTypeOK
  <2>7. \A s \in Tabs : Settled(fetched[s].list)' \/ fetched'[s] = fetched[s]
    BY <2>1, <2>3, <2>4 DEF Settled, Nothing
  <2>8. \A s \in Tabs : Settled(shown[s])' \/ shown'[s] = shown[s]
    BY <1>0, <2>1, <2>5 DEF Settled
  <2>9. ResponsesKept
    BY <1>0, <2>1 DEF ResponsesKept
  <2> QED
    BY <1>0, <2>1, <2>6, <2>7, <2>8, <2>9, SettledStep
<1>9. ASSUME NEW t \in Tabs, LeaveSession(t) PROVE ApprovalsIInv' /\ StatusKept
  <2>1. cards' = [cards EXCEPT ![t] = NoCards] /\ UNCHANGED <<approvals, shown, responses, fetched>>
    BY <1>9 DEF LeaveSession
  <2>2. cards' \in [Tabs -> CardView] /\ \A s \in Tabs : cards'[s] = cards[s] \/ cards'[s] = NoCards
    BY <1>0, <2>1, NothingIsView
  <2>3. StatusKept /\ ResponsesKept /\ ApprovalsTypeOK'
    BY <1>0, <2>1, <2>2 DEF StatusKept, ResponsesKept, ApprovalsTypeOK
  <2>4. \A s \in Tabs : cards'[s] = cards[s] \/ CardsFit(s, cards[s])'
    BY <2>2, NothingIsView DEF CardsFit
  <2> QED
    BY <1>0, <2>1, <2>3, <2>4, SettledStep
<1>8. CASE UNCHANGED approvalVars
  <2>1. StatusKept /\ ResponsesKept /\ ApprovalsTypeOK'
    BY <1>0, <1>8 DEF StatusKept, ResponsesKept, ApprovalsTypeOK, approvalVars
  <2> QED
    BY <1>0, <1>8, <2>1, SettledStep DEF approvalVars
<1> QED
  BY <1>1, <1>2, <1>3, <1>4, <1>5, <1>6, <1>7, <1>8, <1>9 DEF ApprovalsNext

\* For any number of processes, tabs, approvals and responses: the approval store of a
\* tab shows no decision that no process has taken (respondApproval, fetchApprovals), and
\* a card in its chat is finished only where its user has answered (respondToApproval).
THEOREM ShownResolved == ApprovalsSpec => []ShownIsResolved
<1>1. ApprovalsIInv => ShownIsResolved
  BY IdsOfApprovals DEF ApprovalsIInv, Settled, CardsFit, ShownIsResolved
<1>2. ApprovalsIInv /\ [ApprovalsNext]_approvalVars => ApprovalsIInv'
  BY ApprovalsStep
<1> QED
  BY <1>1, <1>2, ApprovalsInitial, PTL DEF ApprovalsSpec

\* What has been decided stays decided (update_status, cleanup_expired).
THEOREM DecisionKept == ApprovalsSpec => DecidedOnce
<1>1. ApprovalsIInv /\ [ApprovalsNext]_approvalVars => ApprovalsIInv'
  BY ApprovalsStep
<1>2. ApprovalsIInv /\ [ApprovalsNext]_approvalVars
        => [\A a \in 1..Len(approvals) :
               approvals[a].status # "pending" => approvals'[a].status = approvals[a].status]_approvalVars
  BY ApprovalsStep DEF StatusKept
<1> QED
  BY <1>1, <1>2, ApprovalsInitial, PTL DEF ApprovalsSpec, DecidedOnce

-----------------------------------------------------------------------------
(* The chat of a page.                                                     *)

(* The page of a hook h that shows session c: it listens to the socket it refers to and
   to no other, or waits for its timer.                                                *)
HookFits(hs, ss, h, c) ==
    /\ \A n \in 1..Len(ss) : ss[n].owner = h => hs[h].ws = n /\ ss[n].chat = c
    /\ hs[h].timer # NoChat => hs[h].ws = 0

SilentHook(hs, ss, h) ==
    /\ hs[h].ws = 0 /\ hs[h].timer = NoChat
    /\ \A n \in 1..Len(ss) : ss[n].owner # h

Pages == {p \in [hook : [Hooks -> HookRefs], sockets : Seq(Socket), inbox : Seq(Seq(ChatFrame))] :
              Len(p.inbox) = Len(p.sockets)}

(* From page p to page q, frames on their way got lost or stayed.                      *)
KeepsFrames(p, q) ==
    /\ Len(p.sockets) <= Len(q.sockets)
    /\ \A n \in 1..Len(p.sockets) : /\ q.sockets[n].chat = p.sockets[n].chat
                                    /\ q.inbox[n] = p.inbox[n] \/ q.inbox[n] = <<>>
    /\ \A n \in 1..Len(q.sockets) : n > Len(p.sockets) => q.inbox[n] = <<>>

(* Only hook h was worked on.                                                          *)
OnlyHook(p, q, h) ==
    /\ q \in Pages /\ KeepsFrames(p, q)
    /\ q.hook[h].streaming = p.hook[h].streaming
    /\ \A g \in Hooks \ {h} : /\ q.hook[g] = p.hook[g]
                              /\ \A c : HookFits(p.hook, p.sockets, g, c) =>
                                           HookFits(q.hook, q.sockets, g, c)

LEMMA OnlyHookTwice ==
    ASSUME NEW p, NEW q, NEW r, NEW h \in Hooks, p \in Pages,
           OnlyHook(p, q, h), OnlyHook(q, r, h)
    PROVE  OnlyHook(p, r, h)
<1>1. Len(p.sockets) \in Nat /\ Len(q.sockets) \in Nat /\ Len(r.sockets) \in Nat BY DEF OnlyHook, Pages
<1>2. ASSUME NEW n \in 1..Len(p.sockets)
      PROVE  /\ r.sockets[n].chat = p.sockets[n].chat
             /\ r.inbox[n] = p.inbox[n] \/ r.inbox[n] = <<>>
  <2>1. n \in 1..Len(q.sockets) BY <1>1 DEF OnlyHook, KeepsFrames
  <2> QED BY <2>1 DEF OnlyHook, KeepsFrames
<1>3. ASSUME NEW n \in 1..Len(r.sockets), n > Len(p.sockets)
      PROVE  r.inbox[n] = <<>>
  <2>1. CASE n <= Len(q.sockets)
    <3>1. n \in 1..Len(q.sockets) BY <1>1, <2>1
    <3>2. q.inbox[n] = <<>> BY <3>1, <1>3 DEF OnlyHook, KeepsFrames
    <3> QED BY <3>1, <3>2 DEF OnlyHook, KeepsFrames
  <2>2. CASE n > Len(q.sockets) BY <2>2 DEF OnlyHook, KeepsFrames
  <2> QED BY <1>1, <2>1, <2>2
<1>4. Len(p.sockets) <= Len(r.sockets) BY <1>1 DEF OnlyHook, KeepsFrames
<1>5. KeepsFrames(p, r) BY <1>2, <1>3, <1>4 DEF KeepsFrames
<1> QED BY <1>5 DEF OnlyHook

LEMMA ReplacedInSeq ==
    ASSUME NEW S, NEW s \in Seq(S), NEW n, NEW x, n \in 1..Len(s) => x \in S
    PROVE  /\ [s EXCEPT ![n] = x] \in Seq(S) /\ Len([s EXCEPT ![n] = x]) = Len(s)
           /\ \A m \in 1..Len(s) : [s EXCEPT ![n] = x][m] = IF m = n THEN x ELSE s[m]
<1>1. s \in [1..Len(s) -> S] /\ Len(s) \in Nat OBVIOUS
<1>2. [s EXCEPT ![n] = x] \in [1..Len(s) -> S] BY <1>1
<1>3. \A m \in 1..Len(s) : [s EXCEPT ![n] = x][m] = IF m = n THEN x ELSE s[m] BY <1>1
<1> QED BY <1>1, <1>2, <1>3

LEMMA SocketsReplaced ==
    \A s \in Seq(Socket) : \A n, x : (n \in 1..Len(s) => x \in Socket) =>
        [s EXCEPT ![n] = x] \in Seq(Socket) /\ Len([s EXCEPT ![n] = x]) = Len(s)
  BY ReplacedInSeq

LEMMA EmptiedInbox ==
    ASSUME NEW s \in Seq(Seq(ChatFrame)), NEW n
    PROVE  /\ [s EXCEPT ![n] = <<>>] \in Seq(Seq(ChatFrame)) /\ Len([s EXCEPT ![n] = <<>>]) = Len(s)
           /\ \A m \in 1..Len(s) : [s EXCEPT ![n] = <<>>][m] = IF m = n THEN <<>> ELSE s[m]
<1>1. s \in [1..Len(s) -> Seq(ChatFrame)] /\ Len(s) \in Nat OBVIOUS
<1>2. <<>> \in Seq(ChatFrame) OBVIOUS
<1>3. [s EXCEPT ![n] = <<>>] \in [1..Len(s) -> Seq(ChatFrame)] BY <1>1, <1>2
<1>4. \A m \in 1..Len(s) : [s EXCEPT ![n] = <<>>][m] = IF m = n THEN <<>> ELSE s[m] BY <1>1
<1> QED BY <1>1, <1>3, <1>4

LEMMA CloseFits ==
    ASSUME NEW p \in Pages, NEW h \in Hooks, NEW c, HookFits(p.hook, p.sockets, h, c)
    PROVE  /\ OnlyHook(p, CloseIntentionally(p, h), h)
           /\ SilentHook(CloseIntentionally(p, h).hook, CloseIntentionally(p, h).sockets, h)
<1> DEFINE n == p.hook[h].ws
           q == CloseIntentionally(p, h)
<1>1. /\ q.hook = [p.hook EXCEPT ![h] = [p.hook[h] EXCEPT !.intentional = TRUE, !.timer = NoChat,
                                                          !.attempts = 0, !.ws = 0]]
      /\ q.sockets = IF n = 0 THEN p.sockets
                     ELSE [p.sockets EXCEPT ![n] = [p.sockets[n] EXCEPT !.owner = "none",
                                                                       !.browser = "closed"]]
      /\ q.inbox = IF n = 0 THEN p.inbox ELSE [p.inbox EXCEPT ![n] = <<>>]
      /\ q = [hook |-> q.hook, sockets |-> q.sockets, inbox |-> q.inbox]
  BY Zenon DEF CloseIntentionally
<1>2. p.hook \in [Hooks -> HookRefs] /\ p.sockets \in Seq(Socket) /\ p.inbox \in Seq(Seq(ChatFrame))
      /\ Len(p.inbox) = Len(p.sockets)
  BY DEF Pages
<1> HIDE DEF q
<1>3. q.hook \in [Hooks -> HookRefs]
  
  <2>1. p.hook[h] \in HookRefs BY <1>2
  <2>2. [p.hook[h] EXCEPT !.intentional = TRUE, !.timer = NoChat, !.attempts = 0, !.ws = 0] \in HookRefs
    <3> DEFINE x == [p.hook[h] EXCEPT !.intentional = TRUE, !.timer = NoChat]
    <3>1. x \in HookRefs BY <2>1 DEF HookRefs
    <3> HIDE DEF x
    <3> DEFINE y == [x EXCEPT !.attempts = 0]
    <3>4. y \in HookRefs BY <3>1 DEF HookRefs, MAX_RECONNECT_ATTEMPTS
    <3> HIDE DEF y
    <3>5. [y EXCEPT !.ws = 0] \in HookRefs BY <3>4 DEF HookRefs
    <3>2. [x EXCEPT !.attempts = 0, !.ws = 0] \in HookRefs BY Zenon, <3>5 DEF y
    <3>3. [p.hook[h] EXCEPT !.intentional = TRUE, !.timer = NoChat, !.attempts = 0, !.ws = 0]
            = [x EXCEPT !.attempts = 0, !.ws = 0]
      BY Zenon DEF x
    <3> QED BY <3>2, <3>3
  <2> QED BY <1>1, <1>2, <2>2

<1>4. q.hook[h].ws = 0 /\ q.hook[h].timer = NoChat /\ q.hook[h].streaming = p.hook[h].streaming
  BY <1>1, <1>2 DEF HookRefs
<1>5. \A g \in Hooks \ {h} : q.hook[g] = p.hook[g]
  BY <1>1, <1>2
<1>6. q.sockets \in Seq(Socket) /\ Len(q.sockets) = Len(p.sockets)
  <2>1. CASE n = 0 BY <1>1, <1>2, <2>1
  <2>2. CASE n # 0
    <3> DEFINE x == [p.sockets[n] EXCEPT !.owner = "none", !.browser = "closed"]
    <3>1. ASSUME n \in 1..Len(p.sockets)
          PROVE  x \in Socket
      <4>1. p.sockets[n] \in Socket BY <1>2, <3>1
      <4> QED BY <4>1 DEF Socket
    <3>2. q.sockets = [p.sockets EXCEPT ![n] = x] BY <1>1, <2>2
    <3> HIDE DEF x
    <3> DEFINE old == p.sockets
               new == q.sockets
    <3>4. old \in Seq(Socket) /\ new = [old EXCEPT ![n] = x] /\ (n \in 1..Len(old) => x \in Socket)
      BY <1>2, <3>1, <3>2
    <3> HIDE DEF old, new
    <3>5. new \in Seq(Socket) /\ Len(new) = Len(old) BY <3>4, SocketsReplaced
    <3> QED BY <3>5 DEF old, new
  <2> QED BY <2>1, <2>2
<1>7. \A m \in 1..Len(p.sockets) : /\ q.sockets[m].chat = p.sockets[m].chat
                                   /\ q.sockets[m].owner = IF m = n THEN "none" ELSE p.sockets[m].owner
  <2> TAKE m \in 1..Len(p.sockets)
  <2>1. p.sockets[m] \in Socket /\ n \in Nat BY <1>2 DEF HookRefs
  <2>2. CASE n = 0 BY <2>1, <2>2, <1>1
  <2>3. CASE n # 0 BY <2>1, <2>3, <1>1, <1>2 DEF Socket
  <2> QED BY <2>2, <2>3
<1>8. q.inbox \in Seq(Seq(ChatFrame)) /\ Len(q.inbox) = Len(p.inbox)
      /\ \A m \in 1..Len(p.sockets) : q.inbox[m] = p.inbox[m] \/ q.inbox[m] = <<>>
  <2>1. <<>> \in Seq(ChatFrame) OBVIOUS
  <2>2. CASE n = 0 BY <1>1, <1>2, <2>2
  <2>3. CASE n # 0
    <3>1. q.inbox = [p.inbox EXCEPT ![n] = <<>>] BY <1>1, <2>3
    <3> QED BY <1>2, <3>1, EmptiedInbox
  <2> QED BY <2>2, <2>3
<1>9. q \in Pages BY <1>1, <1>2, <1>3, <1>6, <1>8 DEF Pages
<1>10. KeepsFrames(p, q) BY <1>2, <1>6, <1>7, <1>8 DEF KeepsFrames
<1>11. SilentHook(q.hook, q.sockets, h)
  BY <1>4, <1>6, <1>7 DEF SilentHook, HookFits, Hooks
<1>12. ASSUME NEW g \in Hooks \ {h}, NEW d, HookFits(p.hook, p.sockets, g, d)
       PROVE  HookFits(q.hook, q.sockets, g, d)
  BY <1>5, <1>6, <1>7, <1>12 DEF HookFits, Hooks
<1> QED BY <1>4, <1>5, <1>9, <1>10, <1>11, <1>12 DEF OnlyHook, q

LEMMA SilentFits ==
    ASSUME NEW hs, NEW ss, NEW h, SilentHook(hs, ss, h)
    PROVE  \A c : HookFits(hs, ss, h, c)
BY DEF SilentHook, HookFits

LEMMA ConnectFits ==
    ASSUME NEW p \in Pages, NEW h \in Hooks, NEW d, HookFits(p.hook, p.sockets, h, d),
           NEW c \in Chats
    PROVE  /\ OnlyHook(p, Connect(p, h, c), h)
           /\ HookFits(Connect(p, h, c).hook, Connect(p, h, c).sockets, h, c)
<1> DEFINE q == CloseIntentionally(p, h)
           r == Connect(p, h, c)
           s == [chat |-> c, owner |-> h, browser |-> "connecting", server |-> "none"]
<1>1. OnlyHook(p, q, h) /\ SilentHook(q.hook, q.sockets, h) BY CloseFits
<1>2. r = [hook |-> [q.hook EXCEPT ![h] = [q.hook[h] EXCEPT !.intentional = FALSE, !.ws = Len(q.sockets) + 1]],
           sockets |-> Append(q.sockets, s), inbox |-> Append(q.inbox, <<>>)]
  BY Zenon DEF Connect
<1> HIDE DEF q, r
<1>3. q.hook \in [Hooks -> HookRefs] /\ q.sockets \in Seq(Socket) /\ q.inbox \in Seq(Seq(ChatFrame))
      /\ Len(q.inbox) = Len(q.sockets)
  BY <1>1 DEF OnlyHook, Pages
<1>4. r.hook \in [Hooks -> HookRefs]
  <2>1. q.hook[h] \in HookRefs /\ Len(q.sockets) + 1 \in Nat BY <1>3
  <2>2. [q.hook[h] EXCEPT !.intentional = FALSE, !.ws = Len(q.sockets) + 1] \in HookRefs
    BY <2>1 DEF HookRefs
  <2> QED BY <1>2, <1>3, <2>2
<1>5. r.hook[h].ws = Len(q.sockets) + 1 /\ r.hook[h].timer = NoChat
      /\ r.hook[h].streaming = q.hook[h].streaming
  BY <1>1, <1>2, <1>3 DEF HookRefs, SilentHook
<1>6. \A g \in Hooks \ {h} : r.hook[g] = q.hook[g] BY <1>2, <1>3
<1>7. s \in Socket BY DEF Socket
<1>8. r.sockets \in Seq(Socket) /\ Len(r.sockets) = Len(q.sockets) + 1
      /\ \A m \in 1..Len(q.sockets) : r.sockets[m] = q.sockets[m]
  BY <1>2, <1>3, <1>7
<1>9. r.sockets[Len(q.sockets) + 1] = s BY <1>2, <1>3
<1>10. r.inbox \in Seq(Seq(ChatFrame)) /\ Len(r.inbox) = Len(q.inbox) + 1
       /\ r.inbox[Len(q.inbox) + 1] = <<>>
       /\ \A m \in 1..Len(q.inbox) : r.inbox[m] = q.inbox[m]
  <2>1. <<>> \in Seq(ChatFrame) OBVIOUS
  <2> QED BY <1>2, <1>3, <2>1
<1>11. r \in Pages BY <1>2, <1>3, <1>4, <1>8, <1>10 DEF Pages
<1>12. KeepsFrames(q, r)
  <2>1. \A m \in 1..Len(r.sockets) : m > Len(q.sockets) => m = Len(q.sockets) + 1 BY <1>3, <1>8
  <2>2. Len(q.sockets) <= Len(r.sockets) BY <1>3, <1>8
  <2> QED BY <1>3, <1>8, <1>10, <2>1, <2>2 DEF KeepsFrames
<1>13. HookFits(r.hook, r.sockets, h, c)
  <2> SUFFICES ASSUME NEW m \in 1..Len(r.sockets), r.sockets[m].owner = h
               PROVE  r.hook[h].ws = m /\ r.sockets[m].chat = c
    BY <1>5 DEF HookFits
  <2>1. CASE m \in 1..Len(q.sockets) BY <1>1, <1>8, <2>1 DEF SilentHook
  <2>2. CASE m = Len(q.sockets) + 1 BY <1>5, <1>9, <2>2
  <2> QED BY <1>3, <1>8, <2>1, <2>2
<1>14. ASSUME NEW g \in Hooks \ {h}, NEW e, HookFits(q.hook, q.sockets, g, e)
       PROVE  HookFits(r.hook, r.sockets, g, e)
  <2> SUFFICES ASSUME NEW m \in 1..Len(r.sockets), r.sockets[m].owner = g
               PROVE  r.hook[g].ws = m /\ r.sockets[m].chat = e
    BY <1>6, <1>14 DEF HookFits
  <2>1. CASE m \in 1..Len(q.sockets) BY <1>6, <1>8, <1>14, <2>1 DEF HookFits
  <2>2. CASE m = Len(q.sockets) + 1 BY <1>9, <2>2
  <2> QED BY <1>3, <1>8, <2>1, <2>2
<1>15. OnlyHook(q, r, h) BY <1>5, <1>6, <1>11, <1>12, <1>14 DEF OnlyHook
<1>16. OnlyHook(p, r, h) BY <1>1, <1>15, OnlyHookTwice
<1> QED BY <1>13, <1>16 DEF r

LEMMA CleanupFits ==
    ASSUME NEW p \in Pages, NEW h \in Hooks, NEW c, HookFits(p.hook, p.sockets, h, c)
    PROVE  /\ OnlyHook(p, Cleanup(p, h), h)
           /\ SilentHook(Cleanup(p, h).hook, Cleanup(p, h).sockets, h)
<1> DEFINE q == CloseIntentionally(p, h)
           r == Cleanup(p, h)
<1>1. OnlyHook(p, q, h) /\ SilentHook(q.hook, q.sockets, h) BY CloseFits
<1>2. r = [q EXCEPT !.hook[h].watch = FALSE] BY Zenon DEF Cleanup
<1> HIDE DEF q, r
<1>3. q.hook \in [Hooks -> HookRefs] /\ q.sockets \in Seq(Socket) /\ q.inbox \in Seq(Seq(ChatFrame))
      /\ Len(q.inbox) = Len(q.sockets) /\ q \in Pages
  BY <1>1 DEF OnlyHook, Pages
<1>4. r.hook = [q.hook EXCEPT ![h] = [q.hook[h] EXCEPT !.watch = FALSE]]
      /\ r.sockets = q.sockets /\ r.inbox = q.inbox /\ r \in Pages
  <2>1. [q.hook[h] EXCEPT !.watch = FALSE] \in HookRefs BY <1>3 DEF HookRefs
  <2>2. q = [hook |-> q.hook, sockets |-> q.sockets, inbox |-> q.inbox] BY <1>3 DEF Pages
  <2> QED BY <1>3, <1>2, <2>1, <2>2 DEF Pages
<1>5. r.hook[h].ws = 0 /\ r.hook[h].timer = NoChat /\ r.hook[h].streaming = q.hook[h].streaming
  BY <1>1, <1>3, <1>4 DEF HookRefs, SilentHook
<1>6. \A g \in Hooks \ {h} : r.hook[g] = q.hook[g] BY <1>3, <1>4
<1>7. SilentHook(r.hook, r.sockets, h) BY <1>1, <1>4, <1>5 DEF SilentHook
<1>8. KeepsFrames(q, r) BY <1>3, <1>4 DEF KeepsFrames
<1>9. OnlyHook(q, r, h) BY <1>4, <1>5, <1>6, <1>8 DEF OnlyHook, HookFits
<1>10. OnlyHook(p, r, h) BY <1>1, <1>9, OnlyHookTwice
<1> QED BY <1>7, <1>10 DEF r

LEMMA EffectFits ==
    ASSUME NEW p \in Pages, NEW h \in Hooks, NEW d, HookFits(p.hook, p.sockets, h, d),
           NEW c \in Chats \union {NoChat}
    PROVE  /\ OnlyHook(p, Effect(p, h, c), h)
           /\ HookFits(Effect(p, h, c).hook, Effect(p, h, c).sockets, h, c)
<1> DEFINE q == Cleanup(p, h)
<1>1. OnlyHook(p, q, h) /\ SilentHook(q.hook, q.sockets, h) BY CleanupFits
<1>2. q \in Pages /\ HookFits(q.hook, q.sockets, h, d) BY <1>1, SilentFits DEF OnlyHook
<1> HIDE DEF q
<1>3. CASE c = NoChat
  <2>1. Effect(p, h, c) = CloseIntentionally(q, h) BY <1>3 DEF Effect, q
  <2>2. OnlyHook(q, CloseIntentionally(q, h), h)
        /\ SilentHook(CloseIntentionally(q, h).hook, CloseIntentionally(q, h).sockets, h)
    BY <1>2, CloseFits
  <2> QED BY <2>1, <2>2, <1>1, OnlyHookTwice, SilentFits
<1>4. CASE c # NoChat
  <2>1. Effect(p, h, c) = Connect(q, h, c) BY <1>4 DEF Effect, q
  <2>2. c \in Chats BY <1>4
  <2>3. OnlyHook(q, Connect(q, h, c), h)
        /\ HookFits(Connect(q, h, c).hook, Connect(q, h, c).sockets, h, c)
    BY <1>2, <2>2, ConnectFits
  <2> QED BY <2>1, <2>3, <1>1, OnlyHookTwice
<1> QED BY <1>3, <1>4

-----------------------------------------------------------------------------
(* A frame answers a question asked in session c.                                      *)
Answers(e, c, bs) == e.asked \in 1..Len(bs) /\ bs[e.asked].chat = c

FramesKnown(ss, ib, bs) ==
    \A n \in 1..Len(ss) : \A i \in 1..Len(ib[n]) : Answers(ib[n][i], ss[n].chat, bs)

TurnsKnown(ts, bs) == \A c \in Chats : \A i \in 1..Len(ts[c]) : Answers(ts[c][i], c, bs)

Registered(wc, ss) ==
    \A c \in Chats : wc[c] # 0 => wc[c] \in 1..Len(ss) /\ ss[wc[c]].chat = c

(* Only the panel streams, into a bubble of the session on display that still waits for
   the end of its answer, or was cleared away.                                         *)
StreamsFit(hs, bs, c) ==
    /\ hs["card"].streaming = 0
    /\ hs["panel"].streaming # 0 =>
          /\ hs["panel"].streaming \in 1..Len(bs)
          /\ \/ bs[hs["panel"].streaming].state = "cleared"
             \/ bs[hs["panel"].streaming].state = "streaming" /\ bs[hs["panel"].streaming].chat = c

ShownFits(bs) ==
    \A i \in 1..Len(bs) : \A q \in bs[i].shows : q \in 1..Len(bs) /\ bs[q].chat = bs[i].chat

H5IInv ==
    /\ H5TypeOK
    /\ \A h \in Hooks : HookFits(hook, sockets, h, chat)
    /\ ~card => SilentHook(hook, sockets, "card")
    /\ StreamsFit(hook, bubbles, chat)
    /\ FramesKnown(sockets, inbox, bubbles)
    /\ TurnsKnown(turns, bubbles)
    /\ Registered(wsConnections, sockets)
    /\ ShownFits(bubbles)

(* Bubbles are added, and keep their session.                                          *)
SameChats(bs, bt) ==
    /\ Len(bs) <= Len(bt)
    /\ \A i \in 1..Len(bs) : bt[i].chat = bs[i].chat

LEMMA FramesStayKnown ==
    ASSUME NEW p \in Pages, NEW q \in Pages, NEW bs \in Seq(Bubble), NEW bt \in Seq(Bubble),
           KeepsFrames(p, q), SameChats(bs, bt), FramesKnown(p.sockets, p.inbox, bs)
    PROVE  FramesKnown(q.sockets, q.inbox, bt)
<1> SUFFICES ASSUME NEW n \in 1..Len(q.sockets), NEW i \in 1..Len(q.inbox[n])
             PROVE  Answers(q.inbox[n][i], q.sockets[n].chat, bt)
  BY DEF FramesKnown
<1>1. Len(p.sockets) \in Nat /\ Len(q.sockets) \in Nat BY DEF Pages
<1>2. q.inbox[n] # <<>> OBVIOUS
<1>3. n \in 1..Len(p.sockets) /\ q.inbox[n] = p.inbox[n] /\ q.sockets[n].chat = p.sockets[n].chat
  BY <1>1, <1>2 DEF KeepsFrames
<1>4. Answers(q.inbox[n][i], p.sockets[n].chat, bs) BY <1>3 DEF FramesKnown
<1> QED BY <1>3, <1>4 DEF Answers, SameChats

LEMMA TurnsStayKnown ==
    ASSUME NEW ts, NEW bs \in Seq(Bubble), NEW bt \in Seq(Bubble),
           SameChats(bs, bt), TurnsKnown(ts, bs)
    PROVE  TurnsKnown(ts, bt)
<1> SUFFICES ASSUME NEW c \in Chats, NEW i \in 1..Len(ts[c]) PROVE Answers(ts[c][i], c, bt)
  BY DEF TurnsKnown
<1>1. Answers(ts[c][i], c, bs) BY DEF TurnsKnown
<1>2. Len(bs) \in Nat /\ Len(bt) \in Nat OBVIOUS
<1> QED BY <1>1, <1>2 DEF Answers, SameChats

LEMMA StaysRegistered ==
    ASSUME NEW p \in Pages, NEW q \in Pages, NEW wc, KeepsFrames(p, q), Registered(wc, p.sockets)
    PROVE  Registered(wc, q.sockets)
BY DEF Registered, KeepsFrames, Pages

LEMMA PageFits ==
    ASSUME H5IInv
    PROVE  Page \in Pages /\ Page.hook = hook /\ Page.sockets = sockets /\ Page.inbox = inbox
BY DEF H5IInv, H5TypeOK, Page, Pages

LEMMA H5Initial ==
    ASSUME H5Init PROVE H5IInv
<1>1. IdleHook \in HookRefs
  BY DEF HookRefs, IdleHook, NoChat, MAX_RECONNECT_ATTEMPTS
<1>2. H5TypeOK
  <2>1. [h \in Hooks |-> IdleHook] \in [Hooks -> HookRefs] BY <1>1
  <2>2. [c \in Chats |-> 0] \in [Chats -> Nat] OBVIOUS
  <2>3. [c \in Chats |-> <<>>] \in [Chats -> Seq(ChatFrame)] OBVIOUS
  <2>4. <<>> \in Seq(Bubble) /\ <<>> \in Seq(Socket) /\ <<>> \in Seq(Seq(ChatFrame)) OBVIOUS
  <2> QED BY <2>1, <2>2, <2>3, <2>4 DEF H5Init, H5TypeOK
<1>3. \A h \in Hooks : HookFits(hook, sockets, h, chat) BY DEF H5Init, HookFits, IdleHook
<1>4. SilentHook(hook, sockets, "card") BY DEF H5Init, SilentHook, IdleHook, Hooks
<1>5. StreamsFit(hook, bubbles, chat) BY DEF H5Init, StreamsFit, IdleHook, Hooks
<1>6. FramesKnown(sockets, inbox, bubbles) /\ ShownFits(bubbles) BY DEF H5Init, FramesKnown, ShownFits
<1>7. TurnsKnown(turns, bubbles) /\ Registered(wsConnections, sockets)
  BY DEF H5Init, TurnsKnown, Registered
<1> QED BY <1>2, <1>3, <1>4, <1>5, <1>6, <1>7 DEF H5IInv

LEMMA SwitchFits ==
    ASSUME H5IInv, NEW c \in Chats \union {NoChat}, SwitchTo(c),
           creating' \in Chats \union {NoChat}, UNCHANGED <<wsConnections, turns>>
    PROVE  H5IInv'
<1> DEFINE p == IF card THEN [Cleanup(Page, "card") EXCEPT !.hook["card"] = IdleHook] ELSE Page
           q == Effect(p, "panel", c)
<1>1. /\ hook' = q.hook /\ sockets' = q.sockets /\ inbox' = q.inbox
      /\ chat' = c /\ card' = FALSE /\ generating' = FALSE
      /\ bubbles' = [i \in 1..Len(bubbles) |-> [bubbles[i] EXCEPT !.state = "cleared"]]
  BY DEF SwitchTo, SetPage
<1>2. Page \in Pages /\ Page.hook = hook /\ Page.sockets = sockets /\ Page.inbox = inbox BY PageFits
<1>3. \A h \in Hooks : HookFits(Page.hook, Page.sockets, h, chat) BY <1>2 DEF H5IInv
<1>4. "card" \in Hooks /\ "panel" \in Hooks BY DEF Hooks
<1>5. /\ OnlyHook(Page, p, "card") /\ SilentHook(p.hook, p.sockets, "card")
  <2>1. CASE card
    <3> DEFINE k == Cleanup(Page, "card")
    <3>1. OnlyHook(Page, k, "card") /\ SilentHook(k.hook, k.sockets, "card")
      BY <1>2, <1>3, <1>4, CleanupFits
    <3>2. p = [k EXCEPT !.hook["card"] = IdleHook] BY <2>1
    <3> HIDE DEF k, p
    <3>3. k.hook \in [Hooks -> HookRefs] /\ k.sockets \in Seq(Socket) /\ k.inbox \in Seq(Seq(ChatFrame))
          /\ Len(k.inbox) = Len(k.sockets)
          /\ k = [hook |-> k.hook, sockets |-> k.sockets, inbox |-> k.inbox]
      BY <3>1 DEF OnlyHook, Pages
    <3>4. IdleHook \in HookRefs BY DEF IdleHook, HookRefs, NoChat, MAX_RECONNECT_ATTEMPTS
    <3>5. p.hook = [k.hook EXCEPT !["card"] = IdleHook] /\ p.sockets = k.sockets /\ p.inbox = k.inbox
          /\ p \in Pages
      BY <3>2, <3>3, <3>4 DEF Pages
    <3>6. k.hook["card"].streaming = 0
      <4>1. hook["card"].streaming = 0 BY DEF H5IInv, StreamsFit
      <4> QED BY <4>1, <3>1, <1>2 DEF OnlyHook
    <3>7. p.hook["card"] = IdleHook /\ p.hook["panel"] = k.hook["panel"] BY <3>3, <3>5, <1>4
    <3>8. SilentHook(p.hook, p.sockets, "card") BY <3>1, <3>5, <3>7 DEF SilentHook, IdleHook, NoChat
    <3>9. KeepsFrames(k, p) BY <3>3, <3>5 DEF KeepsFrames
    <3>10. OnlyHook(k, p, "card") BY <3>5, <3>6, <3>7, <3>9 DEF OnlyHook, HookFits, IdleHook, Hooks
    <3> QED BY <3>1, <3>8, <3>10, <1>2, <1>4, OnlyHookTwice
  <2>2. CASE ~card
    <3>1. p = Page BY <2>2
    <3>2. SilentHook(p.hook, p.sockets, "card") BY <3>1, <2>2, <1>2 DEF H5IInv
    <3>3. KeepsFrames(Page, Page) BY <1>2 DEF KeepsFrames, Pages
    <3> QED BY <3>1, <3>2, <3>3, <1>2 DEF OnlyHook
  <2> QED BY <2>1, <2>2
<1> HIDE DEF p
<1>6. p \in Pages /\ HookFits(p.hook, p.sockets, "panel", chat)
  BY <1>3, <1>4, <1>5 DEF OnlyHook, Hooks
<1>7. OnlyHook(p, q, "panel") /\ HookFits(q.hook, q.sockets, "panel", c)
  BY <1>4, <1>6, EffectFits
<1> HIDE DEF q
<1>8. HookFits(q.hook, q.sockets, "card", c) /\ SilentHook(q.hook, q.sockets, "card")
  <2>1. HookFits(p.hook, p.sockets, "card", c) BY <1>5, SilentFits
  <2>2. HookFits(q.hook, q.sockets, "card", c) /\ q.hook["card"] = p.hook["card"]
    BY <2>1, <1>4, <1>7 DEF OnlyHook, Hooks
  <2>3. \A n \in 1..Len(q.sockets) : q.sockets[n].owner = "card" => q.hook["card"].ws = n
    BY <2>2 DEF HookFits
  <2>4. q.hook["card"].ws = 0 /\ q.hook["card"].timer = NoChat BY <2>2, <1>5 DEF SilentHook
  <2> QED BY <2>2, <2>3, <2>4 DEF SilentHook
<1>9. q \in Pages BY <1>7 DEF OnlyHook
<1>10. bubbles \in Seq(Bubble) BY DEF H5IInv, H5TypeOK
<1>11. bubbles' \in Seq(Bubble) /\ Len(bubbles') = Len(bubbles)
       /\ \A i \in 1..Len(bubbles) : /\ bubbles'[i].state = "cleared" /\ bubbles'[i].chat = bubbles[i].chat
                                     /\ bubbles'[i].shows = bubbles[i].shows
  <2>1. ASSUME NEW i \in 1..Len(bubbles)
        PROVE  /\ [bubbles[i] EXCEPT !.state = "cleared"] \in Bubble
               /\ [bubbles[i] EXCEPT !.state = "cleared"].state = "cleared"
               /\ [bubbles[i] EXCEPT !.state = "cleared"].chat = bubbles[i].chat
               /\ [bubbles[i] EXCEPT !.state = "cleared"].shows = bubbles[i].shows
    <3>1. bubbles[i] \in Bubble BY <1>10
    <3> QED BY <3>1 DEF Bubble
  <2>2. Len(bubbles) \in Nat BY <1>10
  <2> DEFINE B(i) == [bubbles[i] EXCEPT !.state = "cleared"]
  <2>3. bubbles' = [i \in 1..Len(bubbles) |-> B(i)] BY <1>1
  <2> HIDE DEF B
  <2>4. bubbles' \in Seq(Bubble) /\ Len(bubbles') = Len(bubbles)
        /\ \A i \in 1..Len(bubbles) : bubbles'[i] = B(i)
    <3>1. \A i \in 1..Len(bubbles) : B(i) \in Bubble BY <2>1 DEF B
    <3> QED BY <3>1, <2>2, <2>3
  <2> QED BY <2>1, <2>4 DEF B
<1>12. SameChats(bubbles, bubbles') BY <1>10, <1>11 DEF SameChats
<1>13. q.hook["panel"].streaming = hook["panel"].streaming /\ q.hook["card"].streaming = hook["card"].streaming
  BY <1>2, <1>4, <1>5, <1>7 DEF OnlyHook, Hooks
<1>14. H5TypeOK'
  BY <1>1, <1>9, <1>11 DEF H5IInv, H5TypeOK, Pages
<1>15. StreamsFit(hook', bubbles', chat') BY <1>1, <1>11, <1>13 DEF H5IInv, StreamsFit
<1>16. ShownFits(bubbles') BY <1>11 DEF H5IInv, ShownFits
<1>17. FramesKnown(sockets', inbox', bubbles') /\ Registered(wsConnections', sockets')
  <2>1. FramesKnown(p.sockets, p.inbox, bubbles') /\ Registered(wsConnections, p.sockets)
    BY <1>2, <1>5, <1>10, <1>11, <1>12, FramesStayKnown, StaysRegistered DEF OnlyHook, H5IInv
  <2>2. SameChats(bubbles', bubbles') BY <1>11 DEF SameChats
  <2> QED BY <2>1, <2>2, <1>1, <1>6, <1>7, <1>9, <1>11, FramesStayKnown, StaysRegistered DEF OnlyHook
<1>18. TurnsKnown(turns', bubbles') BY <1>10, <1>11, <1>12, TurnsStayKnown DEF H5IInv
<1>19. \A h \in Hooks : HookFits(hook', sockets', h, chat') BY <1>1, <1>7, <1>8 DEF Hooks
<1> QED BY <1>1, <1>8, <1>14, <1>15, <1>16, <1>17, <1>18, <1>19 DEF H5IInv

-----------------------------------------------------------------------------
FinalStep ==
    \A i \in 1..Len(bubbles) : bubbles[i].state \in {"delivered", "error"} =>
        bubbles'[i].state \in {bubbles[i].state, "cleared"} /\ bubbles'[i].shows = bubbles[i].shows

LEMMA QuietStep ==
    ASSUME H5IInv, hook' \in [Hooks -> HookRefs], sockets' \in Seq(Socket),
           Len(sockets') = Len(sockets),
           \A n \in 1..Len(sockets) : sockets'[n].owner = sockets[n].owner /\ sockets'[n].chat = sockets[n].chat,
           \A h \in Hooks : hook'[h].ws = hook[h].ws /\ hook'[h].timer = hook[h].timer,
           UNCHANGED <<chat, card, inbox>>,
           bubbles' \in Seq(Bubble), SameChats(bubbles, bubbles')
    PROVE  /\ \A h \in Hooks : HookFits(hook', sockets', h, chat')
           /\ ~card' => SilentHook(hook', sockets', "card")
           /\ FramesKnown(sockets', inbox', bubbles')
           /\ Registered(wsConnections, sockets')
<1>1. \A h \in Hooks : HookFits(hook', sockets', h, chat') BY DEF H5IInv, HookFits
<1>2. ~card' => SilentHook(hook', sockets', "card") BY DEF H5IInv, SilentHook, Hooks
<1>3. FramesKnown(sockets', inbox', bubbles')
  <2> SUFFICES ASSUME NEW n \in 1..Len(sockets), NEW i \in 1..Len(inbox[n])
               PROVE  Answers(inbox[n][i], sockets[n].chat, bubbles')
    BY DEF FramesKnown
  <2>1. Answers(inbox[n][i], sockets[n].chat, bubbles) BY DEF H5IInv, FramesKnown
  <2>2. bubbles \in Seq(Bubble) BY DEF H5IInv, H5TypeOK
  <2> QED BY <2>1, <2>2 DEF Answers, SameChats
<1>4. Registered(wsConnections, sockets') BY DEF H5IInv, H5TypeOK, Registered
<1> QED BY <1>1, <1>2, <1>3, <1>4

LEMMA SameBubbles ==
    ASSUME H5IInv
    PROVE  bubbles \in Seq(Bubble) /\ SameChats(bubbles, bubbles)
BY DEF H5IInv, H5TypeOK, SameChats

LEMMA CreateStep ==
    ASSUME H5IInv, NEW c \in Chats, CreateSession(c)
    PROVE  H5IInv' /\ FinalStep
<1>1. /\ creating' = c /\ hook' = [hook EXCEPT !["panel"].streaming = 0, !["panel"].watch = FALSE]
      /\ generating' = FALSE
      /\ UNCHANGED <<chat, card, bubbles, sockets, inbox, wsConnections, turns>>
  BY DEF CreateSession
<1>2. hook \in [Hooks -> HookRefs] /\ sockets \in Seq(Socket) BY DEF H5IInv, H5TypeOK
<1>3. hook' \in [Hooks -> HookRefs]
      /\ \A h \in Hooks : hook'[h].ws = hook[h].ws /\ hook'[h].timer = hook[h].timer
  BY <1>1, <1>2 DEF HookRefs, Hooks
<1>4. hook'["panel"].streaming = 0 /\ hook'["card"].streaming = hook["card"].streaming
  BY <1>1, <1>2 DEF HookRefs, Hooks
<1>5. StreamsFit(hook', bubbles', chat') BY <1>1, <1>4 DEF H5IInv, StreamsFit
<1>6. H5TypeOK' BY <1>1, <1>3 DEF H5IInv, H5TypeOK
<1> QED BY <1>1, <1>2, <1>3, <1>5, <1>6, SameBubbles, QuietStep DEF H5IInv, FinalStep

LEMMA OpenedStep ==
    ASSUME H5IInv, NEW n \in 1..Len(sockets), SocketOpened(n)
    PROVE  H5IInv' /\ FinalStep
<1> DEFINE x == [sockets[n] EXCEPT !.browser = "open"]
<1>1. /\ sockets' = [sockets EXCEPT ![n] = x]
      /\ hook' = [hook EXCEPT ![sockets[n].owner] = [hook[sockets[n].owner] EXCEPT !.attempts = 0]]
      /\ UNCHANGED <<chat, creating, card, bubbles, generating, inbox, wsConnections, turns>>
  BY Zenon DEF SocketOpened
<1>2. hook \in [Hooks -> HookRefs] /\ sockets \in Seq(Socket) /\ sockets[n] \in Socket
  BY DEF H5IInv, H5TypeOK
<1>3. hook' \in [Hooks -> HookRefs]
      /\ \A h \in Hooks : /\ hook'[h].ws = hook[h].ws /\ hook'[h].timer = hook[h].timer
                          /\ hook'[h].streaming = hook[h].streaming
  <2>1. CASE sockets[n].owner \in Hooks
    <3> DEFINE g == sockets[n].owner
               y == [hook[g] EXCEPT !.attempts = 0]
    <3>1. /\ y \in HookRefs /\ y.ws = hook[g].ws /\ y.timer = hook[g].timer
          /\ y.streaming = hook[g].streaming
      <4>1. hook[g] \in HookRefs BY <1>2, <2>1
      <4> QED BY <4>1 DEF HookRefs, MAX_RECONNECT_ATTEMPTS
    <3>2. hook' = [hook EXCEPT ![g] = y] BY <1>1
    <3> HIDE DEF g, y
    <3> QED BY <1>2, <3>1, <3>2
  <2>2. CASE sockets[n].owner \notin Hooks BY <1>1, <1>2, <2>2
  <2> QED BY <2>1, <2>2
<1>4. x \in Socket /\ x.owner = sockets[n].owner /\ x.chat = sockets[n].chat BY <1>2 DEF Socket
<1> HIDE DEF x
<1>5. sockets' \in Seq(Socket) /\ Len(sockets') = Len(sockets)
      /\ \A m \in 1..Len(sockets) : sockets'[m].owner = sockets[m].owner /\ sockets'[m].chat = sockets[m].chat
  BY <1>1, <1>2, <1>4, ReplacedInSeq
<1>6. StreamsFit(hook', bubbles', chat') BY <1>1, <1>3 DEF H5IInv, StreamsFit, Hooks
<1>7. H5TypeOK' BY <1>1, <1>3, <1>5 DEF H5IInv, H5TypeOK
<1> QED BY <1>1, <1>3, <1>5, <1>6, <1>7, SameBubbles, QuietStep DEF H5IInv, FinalStep

LEMMA AcceptStep ==
    ASSUME H5IInv, NEW n \in 1..Len(sockets), Accept(n) \/ ServerClosed(n)
    PROVE  H5IInv' /\ FinalStep
<1> DEFINE c == sockets[n].chat
<1>1. PICK s \in {"open", "closed"}, k \in {0, n} :
         /\ sockets' = [sockets EXCEPT ![n] = [sockets[n] EXCEPT !.server = s]]
         /\ wsConnections' = [wsConnections EXCEPT ![c] = k]
         /\ UNCHANGED <<chat, creating, card, hook, bubbles, generating, inbox, turns>>
  BY Zenon DEF Accept, ServerClosed, UnregisterWs
<1> DEFINE x == [sockets[n] EXCEPT !.server = s]
<1>2. sockets \in Seq(Socket) /\ sockets[n] \in Socket /\ n \in Nat /\ c \in Chats
      /\ wsConnections \in [Chats -> Nat]
  <2>1. sockets \in Seq(Socket) /\ wsConnections \in [Chats -> Nat] BY DEF H5IInv, H5TypeOK
  <2>2. sockets[n] \in Socket /\ n \in Nat BY <2>1
  <2> QED BY <2>1, <2>2 DEF Socket
<1>3. x \in Socket /\ x.owner = sockets[n].owner /\ x.chat = sockets[n].chat BY <1>2 DEF Socket
<1>4. sockets' = [sockets EXCEPT ![n] = x] BY <1>1
<1> HIDE DEF x, c
<1>5. sockets' \in Seq(Socket) /\ Len(sockets') = Len(sockets)
      /\ \A m \in 1..Len(sockets) : sockets'[m].owner = sockets[m].owner /\ sockets'[m].chat = sockets[m].chat
  BY <1>2, <1>3, <1>4, ReplacedInSeq
<1>6. H5TypeOK' BY <1>1, <1>2, <1>5 DEF H5IInv, H5TypeOK
<1>7. \A h \in Hooks : hook'[h] = hook[h] BY <1>1
<1>8. /\ \A h \in Hooks : HookFits(hook', sockets', h, chat')
      /\ ~card' => SilentHook(hook', sockets', "card")
      /\ FramesKnown(sockets', inbox', bubbles')
      /\ Registered(wsConnections, sockets')
  BY <1>1, <1>5, <1>6, <1>7, SameBubbles, QuietStep DEF H5TypeOK
<1>9. Registered(wsConnections', sockets')
  BY <1>1, <1>2, <1>5, <1>8 DEF Registered, c
<1> QED BY <1>1, <1>6, <1>8, <1>9 DEF H5IInv, FinalStep

LEMMA RestartStep ==
    ASSUME H5IInv, GatewayRestart
    PROVE  H5IInv' /\ FinalStep
<1> DEFINE X(n) == [sockets[n] EXCEPT !.server = IF sockets[n].server = "open" THEN "closed" ELSE sockets[n].server]
<1>1. /\ sockets' = [n \in 1..Len(sockets) |-> X(n)]
      /\ wsConnections' = [c \in Chats |-> 0]
      /\ UNCHANGED <<chat, creating, card, hook, bubbles, generating, inbox, turns>>
  BY DEF GatewayRestart
<1>2. sockets \in Seq(Socket) /\ Len(sockets) \in Nat BY DEF H5IInv, H5TypeOK
<1>3. ASSUME NEW n \in 1..Len(sockets)
      PROVE  X(n) \in Socket /\ X(n).owner = sockets[n].owner /\ X(n).chat = sockets[n].chat
  <2>1. sockets[n] \in Socket BY <1>2
  <2> QED BY <2>1 DEF Socket
<1> HIDE DEF X
<1>4. sockets' \in Seq(Socket) /\ Len(sockets') = Len(sockets)
      /\ \A n \in 1..Len(sockets) : sockets'[n] = X(n)
  BY <1>1, <1>2, <1>3
<1>5. H5TypeOK' BY <1>1, <1>4 DEF H5IInv, H5TypeOK
<1>6. /\ \A h \in Hooks : HookFits(hook', sockets', h, chat')
      /\ ~card' => SilentHook(hook', sockets', "card")
      /\ FramesKnown(sockets', inbox', bubbles')
  BY <1>1, <1>3, <1>4, <1>5, SameBubbles, QuietStep DEF H5TypeOK
<1>7. Registered(wsConnections', sockets') BY <1>1 DEF Registered
<1> QED BY <1>1, <1>5, <1>6, <1>7 DEF H5IInv, FinalStep

LEMMA Concatenated ==
    ASSUME NEW S, NEW s \in Seq(S), NEW t \in Seq(S)
    PROVE  /\ s \o t \in Seq(S) /\ Len(s \o t) = Len(s) + Len(t)
           /\ \A i \in 1..Len(s) : (s \o t)[i] = s[i]
           /\ \A i \in 1..Len(t) : (s \o t)[Len(s) + i] = t[i]
           /\ \A i \in 1..Len(s \o t) : i \in 1..Len(s) \/ \E j \in 1..Len(t) : i = Len(s) + j
<1>1. Len(s) \in Nat /\ Len(t) \in Nat OBVIOUS
<1>2. s \o t \in Seq(S) /\ Len(s \o t) = Len(s) + Len(t) OBVIOUS
<1>3. \A i \in 1..Len(s) : (s \o t)[i] = s[i] OBVIOUS
<1>4. \A i \in 1..Len(t) : (s \o t)[Len(s) + i] = t[i] OBVIOUS
<1>5. ASSUME NEW i \in 1..Len(s) + Len(t), i \notin 1..Len(s)
      PROVE  \E j \in 1..Len(t) : i = Len(s) + j
  <2>1. i - Len(s) \in 1..Len(t) /\ i = Len(s) + (i - Len(s)) BY <1>1, <1>5
  <2> QED BY <2>1
<1> QED BY <1>2, <1>3, <1>4, <1>5

LEMMA FramesJoined ==
    \A a, b \in Seq(ChatFrame) :
        /\ a \o b \in Seq(ChatFrame) /\ Len(a \o b) = Len(a) + Len(b)
        /\ \A i \in 1..Len(a) : (a \o b)[i] = a[i]
        /\ \A i \in 1..Len(b) : (a \o b)[Len(a) + i] = b[i]
  BY Concatenated

LEMMA SentStep ==
    ASSUME H5IInv, SendMessage
    PROVE  H5IInv' /\ FinalStep
<1> DEFINE q == Len(bubbles) + 1
           n == hook["panel"].ws
           sent == n # 0 /\ sockets[n].browser = "open"
           b == [chat |-> chat, shows |-> {}, state |-> IF sent THEN "streaming" ELSE "error"]
           k == IF sent THEN q ELSE 0
           y == [hook["panel"] EXCEPT !.streaming = k, !.watch = sent]
<1>1. /\ bubbles' = Append(bubbles, b) /\ generating' = sent
      /\ hook' = [hook EXCEPT !["panel"] = y]
      /\ UNCHANGED <<chat, creating, card, sockets, inbox, wsConnections>>
  BY Zenon DEF SendMessage
<1>3. /\ bubbles \in Seq(Bubble) /\ hook \in [Hooks -> HookRefs] /\ sockets \in Seq(Socket)
      /\ chat \in Chats \union {NoChat} /\ Len(bubbles) \in Nat /\ turns \in [Chats -> Seq(ChatFrame)]
  BY DEF H5IInv, H5TypeOK
<1>2. turns' = turns \/ \E fs \in Seq(ChatFrame) :
        /\ Len(fs) = 2 /\ \A i \in 1..2 : fs[i].asked = q
        /\ turns' = [turns EXCEPT ![chat] = turns[chat] \o fs]
  <2>1. turns' = turns \/ \E tail \in {<<"delta", "done">>, <<"approval", "error">>, <<"error", "done">>} :
          turns' = [turns EXCEPT ![chat] =
                       turns[chat] \o [i \in 1..2 |-> [asked |-> q, kind |-> tail[i]]]]
    BY Zenon DEF SendMessage
  <2> SUFFICES ASSUME NEW tail \in {<<"delta", "done">>, <<"approval", "error">>, <<"error", "done">>},
                      turns' = [turns EXCEPT ![chat] =
                                  turns[chat] \o [i \in 1..2 |-> [asked |-> q, kind |-> tail[i]]]]
               PROVE  \E fs \in Seq(ChatFrame) :
                          /\ Len(fs) = 2 /\ \A i \in 1..2 : fs[i].asked = q
                          /\ turns' = [turns EXCEPT ![chat] = turns[chat] \o fs]
    BY Zenon, <2>1
  <2> DEFINE fs == [i \in 1..2 |-> [asked |-> q, kind |-> tail[i]]]
  <2>2. fs \in Seq(ChatFrame) /\ Len(fs) = 2 /\ \A i \in 1..2 : fs[i].asked = q
    <3>1. \A i \in 1..2 : [asked |-> q, kind |-> tail[i]] \in ChatFrame BY <1>3 DEF ChatFrame
    <3>2. fs \in [1..2 -> ChatFrame] BY <3>1
    <3> QED BY <3>2
  <2>3. turns' = [turns EXCEPT ![chat] = turns[chat] \o fs] OBVIOUS
  <2> HIDE DEF fs
  <2> QED BY <2>2, <2>3
<1>4. b \in Bubble /\ b.chat = chat /\ b.shows = {} /\ (sent => b.state = "streaming") BY <1>3 DEF Bubble
<1>5. sent \in BOOLEAN OBVIOUS
<1> HIDE DEF sent, b
<1>6. /\ bubbles' \in Seq(Bubble) /\ Len(bubbles') = q /\ bubbles'[q] = b
      /\ \A i \in 1..Len(bubbles) : bubbles'[i] = bubbles[i]
  BY <1>1, <1>3, <1>4
<1>7. SameChats(bubbles, bubbles') BY <1>3, <1>6 DEF SameChats
<1>8. y \in HookRefs /\ y.ws = hook["panel"].ws /\ y.timer = hook["panel"].timer /\ y.streaming = k
  <2>1. hook["panel"] \in HookRefs /\ k \in Nat BY <1>3 DEF Hooks
  <2> HIDE DEF k
  <2> QED BY <1>5, <2>1 DEF HookRefs
<1> HIDE DEF y
<1>9. /\ hook' \in [Hooks -> HookRefs]
      /\ \A h \in Hooks : hook'[h].ws = hook[h].ws /\ hook'[h].timer = hook[h].timer
      /\ hook'["panel"].streaming = k /\ hook'["card"].streaming = hook["card"].streaming
  BY <1>1, <1>3, <1>8 DEF Hooks
<1>10. StreamsFit(hook', bubbles', chat')
  BY <1>1, <1>3, <1>4, <1>6, <1>9 DEF H5IInv, StreamsFit
<1>11. ShownFits(bubbles')
  <2> SUFFICES ASSUME NEW i \in 1..Len(bubbles'), NEW j \in bubbles'[i].shows
               PROVE  j \in 1..Len(bubbles') /\ bubbles'[j].chat = bubbles'[i].chat
    BY DEF ShownFits
  <2>1. i \in 1..Len(bubbles) /\ bubbles'[i] = bubbles[i] BY <1>3, <1>4, <1>6
  <2>2. j \in 1..Len(bubbles) /\ bubbles[j].chat = bubbles[i].chat BY <2>1 DEF H5IInv, ShownFits
  <2> QED BY <1>3, <1>6, <2>1, <2>2
<1>12. turns' \in [Chats -> Seq(ChatFrame)] /\ TurnsKnown(turns', bubbles')
  <2>1. TurnsKnown(turns, bubbles') BY <1>3, <1>6, <1>7, TurnsStayKnown DEF H5IInv
  <2>2. CASE turns' = turns BY <1>3, <2>1, <2>2
  <2>3. CASE turns' # turns
    <3>1. PICK fs \in Seq(ChatFrame) :
            /\ Len(fs) = 2 /\ \A i \in 1..2 : fs[i].asked = q
            /\ turns' = [turns EXCEPT ![chat] = turns[chat] \o fs]
      BY <1>2, <2>3
    <3>2. fs \in Seq(ChatFrame) /\ Len(fs) = 2 /\ \A i \in 1..2 : fs[i].asked = q BY <3>1
    <3>3. turns' = [turns EXCEPT ![chat] = turns[chat] \o fs] BY <3>1
    <3>4. CASE chat \in Chats
      <4>1. turns[chat] \in Seq(ChatFrame) BY <1>3, <3>4
      <4>2. /\ turns[chat] \o fs \in Seq(ChatFrame) /\ Len(turns[chat] \o fs) = Len(turns[chat]) + 2
            /\ \A i \in 1..Len(turns[chat]) : (turns[chat] \o fs)[i] = turns[chat][i]
            /\ \A i \in 1..2 : (turns[chat] \o fs)[Len(turns[chat]) + i] = fs[i]
        <5> DEFINE ts == turns[chat]
        <5>1. ts \in Seq(ChatFrame) BY <4>1
        <5> HIDE DEF ts
        <5>2. fs \in Seq(ChatFrame) /\ Len(fs) = 2 BY <3>2
        <5>3. /\ ts \o fs \in Seq(ChatFrame) /\ Len(ts \o fs) = Len(ts) + Len(fs)
              /\ \A i \in 1..Len(ts) : (ts \o fs)[i] = ts[i]
              /\ \A i \in 1..Len(fs) : (ts \o fs)[Len(ts) + i] = fs[i]
          BY <5>1, <5>2, FramesJoined
        <5> QED BY <5>2, <5>3 DEF ts
      <4>3. turns' \in [Chats -> Seq(ChatFrame)] BY <1>3, <3>3, <4>2
      <4>4. ASSUME NEW c \in Chats, NEW i \in 1..Len(turns'[c])
            PROVE  Answers(turns'[c][i], c, bubbles')
        <5>1. CASE c # chat
          <6>1. turns'[c] = turns[c] BY <1>3, <3>3, <5>1
          <6> QED BY <2>1, <6>1 DEF TurnsKnown
        <5>2. CASE c = chat
          <6>1. turns'[c] = turns[chat] \o fs BY <1>3, <3>3, <3>4, <5>2
          <6>2. CASE i \in 1..Len(turns[chat])
            BY <2>1, <4>2, <5>2, <6>1, <6>2 DEF TurnsKnown
          <6>3. CASE i \notin 1..Len(turns[chat])
            <7>1. Len(turns[chat]) \in Nat BY <4>1
            <7>2. PICK j \in 1..2 : i = Len(turns[chat]) + j 
            <8>1. Len(turns'[c]) = Len(turns[chat]) + 2 BY <4>2, <6>1
            <8>2. i - Len(turns[chat]) \in 1..2 /\ i = Len(turns[chat]) + (i - Len(turns[chat]))
              BY <6>3, <7>1, <8>1
            <8> QED BY <8>2
            <7>3. turns'[c][i].asked = q BY <3>2, <4>2, <6>1, <7>2
            <7> QED BY <1>3, <1>4, <1>6, <5>2, <7>3 DEF Answers
          <6> QED BY <6>2, <6>3
        <5> QED BY <5>1, <5>2
      <4> QED BY <4>3, <4>4 DEF TurnsKnown
    <3>5. CASE chat \notin Chats
      <4>1. turns' = turns BY <1>3, <3>3, <3>5
      <4> QED BY <2>3, <4>1
    <3> QED BY <3>4, <3>5
  <2> QED BY <2>2, <2>3
<1>13. FinalStep BY <1>3, <1>6 DEF FinalStep
<1>14. H5TypeOK' BY <1>1, <1>5, <1>6, <1>9, <1>12 DEF H5IInv, H5TypeOK
<1>15. /\ \A h \in Hooks : HookFits(hook', sockets', h, chat')
       /\ ~card' => SilentHook(hook', sockets', "card")
       /\ FramesKnown(sockets', inbox', bubbles')
       /\ Registered(wsConnections, sockets')
  BY <1>1, <1>3, <1>6, <1>7, <1>9, QuietStep
<1> QED BY <1>1, <1>10, <1>11, <1>12, <1>13, <1>14, <1>15 DEF H5IInv

LEMMA WatchdogStep ==
    ASSUME H5IInv, NEW h \in Hooks, Watchdog(h)
    PROVE  H5IInv' /\ FinalStep
<1> DEFINE q == hook[h].streaming
           k == IF generating THEN 0 ELSE q
           y == [hook[h] EXCEPT !.watch = FALSE, !.streaming = k]
           x == [bubbles[q] EXCEPT !.state = IF bubbles[q].state = "cleared" THEN bubbles[q].state ELSE "error"]
<1>1. /\ bubbles' = IF generating /\ q # 0 THEN [bubbles EXCEPT ![q] = x] ELSE bubbles
      /\ generating' = FALSE
      /\ hook' = [hook EXCEPT ![h] = y]
      /\ UNCHANGED <<chat, creating, card, sockets, inbox, wsConnections, turns>>
  BY Zenon DEF Watchdog
<1>2. /\ bubbles \in Seq(Bubble) /\ hook \in [Hooks -> HookRefs] /\ sockets \in Seq(Socket)
      /\ Len(bubbles) \in Nat
  BY DEF H5IInv, H5TypeOK
<1>3. q # 0 => /\ q \in 1..Len(bubbles) /\ h = "panel"
               /\ bubbles[q].state = "cleared" \/ (bubbles[q].state = "streaming" /\ bubbles[q].chat = chat)
  BY DEF H5IInv, StreamsFit, Hooks
<1>4. q # 0 => /\ x \in Bubble /\ x.chat = bubbles[q].chat /\ x.shows = bubbles[q].shows
  <2> SUFFICES ASSUME q # 0 PROVE /\ x \in Bubble /\ x.chat = bubbles[q].chat /\ x.shows = bubbles[q].shows
    OBVIOUS
  <2>1. bubbles[q] \in Bubble BY <1>2, <1>3
  <2> QED BY <2>1 DEF Bubble
<1>5. y \in HookRefs /\ y.ws = hook[h].ws /\ y.timer = hook[h].timer /\ y.streaming = k
  <2>1. hook[h] \in HookRefs BY <1>2
  <2>2. k \in Nat BY <2>1 DEF HookRefs
  <2> HIDE DEF k
  <2> QED BY <2>1, <2>2 DEF HookRefs
<1> HIDE DEF x, y
<1>6. /\ hook' \in [Hooks -> HookRefs]
      /\ \A g \in Hooks : hook'[g].ws = hook[g].ws /\ hook'[g].timer = hook[g].timer
      /\ \A g \in Hooks : hook'[g].streaming = IF g = h THEN k ELSE hook[g].streaming
  BY <1>1, <1>2, <1>5
<1>16. /\ bubbles' \in Seq(Bubble) /\ Len(bubbles') = Len(bubbles)
       /\ \A i \in 1..Len(bubbles) : i # q => bubbles'[i] = bubbles[i]
       /\ q \in 1..Len(bubbles) => bubbles'[q] = bubbles[q] \/ (q # 0 /\ bubbles'[q] = x)
  <2>1. CASE generating /\ q # 0
    <3>1. bubbles' = [bubbles EXCEPT ![q] = x] BY <1>1, <2>1
    <3> HIDE DEF q
    <3>2. bubbles' \in Seq(Bubble) /\ Len(bubbles') = Len(bubbles)
          /\ \A i \in 1..Len(bubbles) : bubbles'[i] = IF i = q THEN x ELSE bubbles[i]
      BY <3>1, <1>2, <1>4, <2>1, ReplacedInSeq
    <3> QED BY <3>2, <1>4, <2>1
  <2>2. CASE ~(generating /\ q # 0) BY <1>1, <1>2, <2>2
  <2> QED BY <2>1, <2>2
<1>7. /\ bubbles' \in Seq(Bubble) /\ Len(bubbles') = Len(bubbles)
      /\ \A i \in 1..Len(bubbles) : /\ bubbles'[i].chat = bubbles[i].chat
                                    /\ bubbles'[i].shows = bubbles[i].shows
  <2> HIDE DEF q
  <2> QED BY <1>4, <1>16
<1>15. ~generating => bubbles' = bubbles BY <1>1
<1> HIDE DEF q, k
<1>8. SameChats(bubbles, bubbles') BY <1>2, <1>7 DEF SameChats
<1>9. StreamsFit(hook', bubbles', chat')
  <2> USE DEF q, k
  <2>1. CASE h = "panel" /\ generating BY <2>1, <1>6 DEF H5IInv, StreamsFit, Hooks
  <2>2. CASE h = "card" \/ ~generating
    <3>1. \A g \in Hooks : hook'[g].streaming = hook[g].streaming
      BY <1>6, <2>2 DEF H5IInv, StreamsFit
    <3>2. \A i \in 1..Len(bubbles) : bubbles'[i] = bubbles[i]
      BY <1>15, <1>3, <1>16, <2>2
    <3> QED BY <1>1, <1>7, <3>1, <3>2 DEF H5IInv, StreamsFit, Hooks
  <2> QED BY <2>1, <2>2 DEF Hooks
<1>10. ShownFits(bubbles') BY <1>7 DEF H5IInv, ShownFits
<1>11. TurnsKnown(turns', bubbles') BY <1>1, <1>2, <1>7, <1>8, TurnsStayKnown DEF H5IInv
<1>12. FinalStep
  <2> SUFFICES ASSUME NEW i \in 1..Len(bubbles), bubbles[i].state \in {"delivered", "error"}
               PROVE  bubbles'[i] = bubbles[i]
    BY DEF FinalStep
  <2>1. i # q BY <1>2, <1>3
  <2> QED BY <2>1, <1>16
<1>13. H5TypeOK' BY <1>1, <1>6, <1>7 DEF H5IInv, H5TypeOK
<1>14. /\ \A g \in Hooks : HookFits(hook', sockets', g, chat')
       /\ ~card' => SilentHook(hook', sockets', "card")
       /\ FramesKnown(sockets', inbox', bubbles')
       /\ Registered(wsConnections, sockets')
  BY <1>1, <1>2, <1>6, <1>7, <1>8, QuietStep
<1> QED BY <1>1, <1>9, <1>10, <1>11, <1>12, <1>13, <1>14 DEF H5IInv

LEMMA ClosedStep ==
    ASSUME H5IInv, NEW n \in 1..Len(sockets), Closed(n)
    PROVE  H5IInv' /\ FinalStep
<1> DEFINE h == sockets[n].owner
           again == ~hook[h].intentional /\ chat = sockets[n].chat
           retry == again /\ hook[h].attempts < MAX_RECONNECT_ATTEMPTS
           x == [sockets[n] EXCEPT !.owner = "none", !.browser = "closed"]
           w == IF hook[h].ws = n THEN 0 ELSE hook[h].ws
           k == IF retry THEN hook[h].attempts + 1 ELSE hook[h].attempts
           m == IF retry THEN chat ELSE hook[h].timer
           y == [hook[h] EXCEPT !.ws = w, !.watch = FALSE, !.intentional = again /\ hook[h].intentional,
                                !.attempts = k, !.timer = m]
<1>1. /\ h # "none"
      /\ sockets' = [sockets EXCEPT ![n] = x]
      /\ inbox' = [inbox EXCEPT ![n] = <<>>]
      /\ hook' = [hook EXCEPT ![h] = y]
      /\ UNCHANGED <<chat, creating, card, bubbles, generating, wsConnections, turns>>
  <2>1. h # "none" BY DEF Closed
  <2>2. sockets' = [sockets EXCEPT ![n] = x] BY Zenon DEF Closed
  <2>3. inbox' = [inbox EXCEPT ![n] = <<>>] BY Zenon DEF Closed
  <2>4. hook' = [hook EXCEPT ![h] = y] BY Zenon DEF Closed
  <2>5. UNCHANGED <<chat, creating, card, bubbles, generating, wsConnections, turns>> BY Zenon DEF Closed
  <2> QED BY Zenon, <2>1, <2>2, <2>3, <2>4, <2>5
<1>2. /\ hook \in [Hooks -> HookRefs] /\ sockets \in Seq(Socket) /\ inbox \in Seq(Seq(ChatFrame))
      /\ Len(inbox) = Len(sockets) /\ chat \in Chats \union {NoChat} /\ sockets[n] \in Socket
  BY DEF H5IInv, H5TypeOK
<1>3. h \in Hooks BY <1>1, <1>2 DEF Socket
<1>4. hook[h] \in HookRefs BY <1>2, <1>3
<1>5. hook[h].ws = n /\ sockets[n].chat = chat BY <1>3 DEF H5IInv, HookFits
<1>6. w = 0 /\ k \in 0..MAX_RECONNECT_ATTEMPTS /\ m \in Chats \union {NoChat}
  BY <1>2, <1>4, <1>5 DEF HookRefs, MAX_RECONNECT_ATTEMPTS
<1>7. x \in Socket /\ x.owner = "none" /\ x.chat = sockets[n].chat BY <1>2 DEF Socket
<1> HIDE DEF w, k, m, x, again
<1>8. y \in HookRefs /\ y.ws = 0 /\ y.streaming = hook[h].streaming
  <2> DEFINE i == again /\ hook[h].intentional
             y1 == [hook[h] EXCEPT !.ws = w, !.watch = FALSE]
             y2 == [y1 EXCEPT !.intentional = i]
             y3 == [y2 EXCEPT !.attempts = k]
             y4 == [y3 EXCEPT !.timer = m]
  <2>1. y = y4 BY Zenon
  <2>2. i \in BOOLEAN OBVIOUS
  <2> HIDE DEF y, y1, y2, y3, y4, i
  <2>3. y1 \in HookRefs /\ y1.ws = 0 /\ y1.streaming = hook[h].streaming BY <1>4, <1>6 DEF y1, HookRefs
  <2>4. y2 \in HookRefs /\ y2.ws = 0 /\ y2.streaming = hook[h].streaming BY <2>2, <2>3 DEF y2, HookRefs
  <2>5. y3 \in HookRefs /\ y3.ws = 0 /\ y3.streaming = hook[h].streaming BY <1>6, <2>4 DEF y3, HookRefs
  <2>6. y4 \in HookRefs /\ y4.ws = 0 /\ y4.streaming = hook[h].streaming BY <1>6, <2>5 DEF y4, HookRefs
  <2> QED BY <2>1, <2>6
<1> HIDE DEF y
<1>9. sockets' \in Seq(Socket) /\ Len(sockets') = Len(sockets)
      /\ \A i \in 1..Len(sockets) : sockets'[i] = IF i = n THEN x ELSE sockets[i]
  BY <1>1, <1>2, <1>7, ReplacedInSeq
<1>10. inbox' \in Seq(Seq(ChatFrame)) /\ Len(inbox') = Len(inbox)
       /\ \A i \in 1..Len(inbox) : inbox'[i] = IF i = n THEN <<>> ELSE inbox[i]
  BY <1>1, <1>2, EmptiedInbox
<1>11. hook' \in [Hooks -> HookRefs] /\ hook'[h] = y /\ \A g \in Hooks \ {h} : hook'[g] = hook[g]
  BY <1>1, <1>2, <1>3, <1>8
<1>12. \A g \in Hooks : HookFits(hook', sockets', g, chat')
  <2> TAKE g \in Hooks
  <2>1. CASE g = h
    <3>1. \A i \in 1..Len(sockets') : sockets'[i].owner # h
      BY <1>1, <1>2, <1>5, <1>7, <1>9, <1>3 DEF H5IInv, HookFits
    <3> QED BY <2>1, <3>1, <1>8, <1>11 DEF HookFits
  <2>2. CASE g # h
    <3>1. HookFits(hook, sockets, g, chat) BY DEF H5IInv
    <3>2. \A i \in 1..Len(sockets') : sockets'[i].owner = g => sockets'[i] = sockets[i]
      BY <1>7, <1>9 DEF Hooks
    <3>3. hook'[g] = hook[g] BY <1>11, <2>2
    <3> QED BY <3>1, <3>2, <3>3, <1>1, <1>9 DEF HookFits
  <2> QED BY <2>1, <2>2
<1>13. ~card' => SilentHook(hook', sockets', "card")
  <2> SUFFICES ASSUME ~card PROVE SilentHook(hook', sockets', "card") BY <1>1
  <2>1. SilentHook(hook, sockets, "card") BY DEF H5IInv
  <2>2. h # "card" BY <2>1 DEF SilentHook
  <2>3. hook'["card"] = hook["card"] BY <1>11, <2>2 DEF Hooks
  <2>4. \A i \in 1..Len(sockets') : sockets'[i].owner # "card"
    BY <2>1, <1>7, <1>9 DEF SilentHook
  <2> QED BY <2>1, <2>3, <2>4 DEF SilentHook
<1>14. StreamsFit(hook', bubbles', chat')
  <2>1. \A g \in Hooks : hook'[g].streaming = hook[g].streaming BY <1>8, <1>11
  <2> QED BY <2>1, <1>1 DEF H5IInv, StreamsFit, Hooks
<1>15. FramesKnown(sockets', inbox', bubbles')
  <2> SUFFICES ASSUME NEW j \in 1..Len(sockets'), NEW i \in 1..Len(inbox'[j])
               PROVE  Answers(inbox'[j][i], sockets'[j].chat, bubbles)
    BY <1>1 DEF FramesKnown
  <2>1. j # n BY <1>2, <1>9, <1>10
  <2>2. inbox'[j] = inbox[j] /\ sockets'[j] = sockets[j] /\ j \in 1..Len(sockets) BY <1>2, <1>9, <1>10, <2>1
  <2> QED BY <2>2 DEF H5IInv, FramesKnown
<1>16. Registered(wsConnections', sockets') BY <1>1, <1>7, <1>9 DEF H5IInv, Registered
<1>17. H5TypeOK' BY <1>1, <1>2, <1>9, <1>10, <1>11 DEF H5IInv, H5TypeOK
<1> QED BY <1>1, <1>12, <1>13, <1>14, <1>15, <1>16, <1>17 DEF H5IInv, FinalStep

LEMMA EmitStep ==
    ASSUME H5IInv, NEW c \in Chats, Emit(c)
    PROVE  H5IInv' /\ FinalStep
<1> DEFINE n == wsConnections[c]
           e == Head(turns[c])
<1>1. /\ turns[c] # <<>> /\ turns' = [turns EXCEPT ![c] = Tail(turns[c])]
      /\ inbox' = inbox \/ (n # 0 /\ inbox' = [inbox EXCEPT ![n] = Append(inbox[n], e)])
      /\ UNCHANGED <<chat, creating, card, hook, bubbles, generating, sockets, wsConnections>>
  BY Zenon DEF Emit
<1>2. /\ turns \in [Chats -> Seq(ChatFrame)] /\ inbox \in Seq(Seq(ChatFrame)) /\ Len(inbox) = Len(sockets)
      /\ sockets \in Seq(Socket)
  BY DEF H5IInv, H5TypeOK
<1>3. turns[c] \in Seq(ChatFrame) BY <1>2
<1>4. e \in ChatFrame /\ Answers(e, c, bubbles)
  <2>1. Len(turns[c]) \in Nat /\ Len(turns[c]) # 0 BY <1>1, <1>3
  <2>2. e = turns[c][1] /\ 1 \in 1..Len(turns[c]) BY <1>1, <1>3, <2>1
  <2>3. e \in ChatFrame BY <1>3, <2>2
  <2> QED BY <2>2, <2>3 DEF H5IInv, TurnsKnown
<1>5. turns' \in [Chats -> Seq(ChatFrame)] /\ TurnsKnown(turns', bubbles')
  <2> DEFINE ts == turns[c]
             rest == Tail(ts)
  <2>1. /\ rest \in Seq(ChatFrame) /\ Len(rest) = Len(ts) - 1 /\ Len(ts) \in Nat
        /\ \A i \in 1..Len(rest) : rest[i] = ts[i + 1]
    BY <1>1, <1>3
  <2> HIDE DEF rest
  <2>2. turns' = [turns EXCEPT ![c] = rest] BY <1>1 DEF rest
  <2>3. turns' \in [Chats -> Seq(ChatFrame)] BY <1>2, <2>1, <2>2
  <2>4. ASSUME NEW d \in Chats, NEW i \in 1..Len(turns'[d]) PROVE Answers(turns'[d][i], d, bubbles)
    <3>1. CASE d = c
      <4>1. turns'[d] = rest BY <1>2, <2>2, <3>1
      <4>2. i + 1 \in 1..Len(ts) /\ turns'[d][i] = ts[i + 1] BY <2>1, <4>1
      <4> QED BY <4>2, <3>1 DEF H5IInv, TurnsKnown
    <3>2. CASE d # c
      <4>1. turns'[d] = turns[d] BY <1>2, <2>2, <3>2
      <4> QED BY <4>1 DEF H5IInv, TurnsKnown
    <3> QED BY <3>1, <3>2
  <2> QED BY <1>1, <2>3, <2>4 DEF TurnsKnown
<1> HIDE DEF e
<1>6. inbox' \in Seq(Seq(ChatFrame)) /\ Len(inbox') = Len(inbox) /\ FramesKnown(sockets', inbox', bubbles')
  <2>1. CASE inbox' = inbox BY <2>1, <1>1, <1>2 DEF H5IInv
  <2>2. CASE n # 0 /\ inbox' = [inbox EXCEPT ![n] = Append(inbox[n], e)]
    <3>1. n \in 1..Len(sockets) /\ sockets[n].chat = c BY <2>2 DEF H5IInv, Registered
    <3> DEFINE ib == inbox[n]
               more == Append(ib, e)
    <3>2. ib \in Seq(ChatFrame) BY <1>2, <3>1
    <3> HIDE DEF ib, n
    <3>3. /\ more \in Seq(ChatFrame) /\ Len(more) = Len(ib) + 1 /\ Len(ib) \in Nat
          /\ more[Len(ib) + 1] = e /\ \A i \in 1..Len(ib) : more[i] = ib[i]
      BY <1>4, <3>2
    <3> HIDE DEF more
    <3>4. inbox' = [inbox EXCEPT ![n] = more] BY <2>2 DEF more, ib
    <3>5. /\ inbox' \in Seq(Seq(ChatFrame)) /\ Len(inbox') = Len(inbox)
          /\ \A j \in 1..Len(inbox) : inbox'[j] = IF j = n THEN more ELSE inbox[j]
      BY <1>2, <3>3, <3>4, <3>1
    <3>6. ASSUME NEW j \in 1..Len(sockets), NEW i \in 1..Len(inbox'[j])
          PROVE  Answers(inbox'[j][i], sockets[j].chat, bubbles)
      <4>1. CASE j # n
        <5>1. inbox'[j] = inbox[j] BY <1>2, <3>5, <4>1
        <5> QED BY <5>1 DEF H5IInv, FramesKnown
      <4>2. CASE j = n
        <5>1. inbox'[j] = more BY <1>2, <3>5, <4>2
        <5>2. CASE i \in 1..Len(ib)
          <6>1. Answers(inbox[j][i], sockets[j].chat, bubbles) BY <5>2, <4>2 DEF H5IInv, FramesKnown, ib
          <6> QED BY <5>1, <5>2, <3>3, <4>2, <6>1 DEF ib
        <5>3. CASE i = Len(ib) + 1 BY <5>1, <5>3, <3>1, <3>3, <4>2, <1>4
        <5> QED BY <5>1, <5>2, <5>3, <3>3
      <4> QED BY <4>1, <4>2
    <3> QED BY <1>1, <3>5, <3>6 DEF FramesKnown
  <2> QED BY <1>1, <2>1, <2>2
<1>7. H5TypeOK' BY <1>1, <1>2, <1>5, <1>6 DEF H5IInv, H5TypeOK
<1> QED BY <1>1, <1>5, <1>6, <1>7 DEF H5IInv, FinalStep

LEMMA SilentKept ==
    ASSUME NEW p, NEW q, NEW h \in Hooks, NEW g \in Hooks \ {h}, OnlyHook(p, q, h),
           SilentHook(p.hook, p.sockets, g)
    PROVE  SilentHook(q.hook, q.sockets, g)
<1>1. HookFits(p.hook, p.sockets, g, NoChat) /\ HookFits(p.hook, p.sockets, g, 1) BY SilentFits
<1>2. HookFits(q.hook, q.sockets, g, NoChat) /\ HookFits(q.hook, q.sockets, g, 1) BY <1>1 DEF OnlyHook
<1>3. q.hook[g].ws = 0 /\ q.hook[g].timer = NoChat BY DEF OnlyHook, SilentHook
<1> QED BY <1>2, <1>3 DEF SilentHook, HookFits, NoChat

LEMMA PageMoves ==
    ASSUME NEW p \in Pages, NEW q, NEW h \in Hooks, NEW c, NEW wc,
           NEW bs \in Seq(Bubble), NEW bt \in Seq(Bubble), SameChats(bs, bt),
           OnlyHook(p, q, h), HookFits(q.hook, q.sockets, h, c),
           \A g \in Hooks : HookFits(p.hook, p.sockets, g, c),
           FramesKnown(p.sockets, p.inbox, bs), Registered(wc, p.sockets)
    PROVE  /\ \A g \in Hooks : HookFits(q.hook, q.sockets, g, c)
           /\ FramesKnown(q.sockets, q.inbox, bt)
           /\ Registered(wc, q.sockets)
<1>1. q \in Pages /\ KeepsFrames(p, q) BY DEF OnlyHook
<1>2. FramesKnown(q.sockets, q.inbox, bt) BY <1>1, FramesStayKnown
<1>3. Registered(wc, q.sockets) BY <1>1, StaysRegistered
<1>4. \A g \in Hooks : HookFits(q.hook, q.sockets, g, c)
  <2> TAKE g \in Hooks
  <2>1. CASE g = h BY <2>1
  <2>2. CASE g # h
    <3>1. HookFits(p.hook, p.sockets, g, c) OBVIOUS
    <3> QED BY <2>2, <3>1 DEF OnlyHook
  <2> QED BY <2>1, <2>2
<1> QED BY <1>2, <1>3, <1>4

LEMMA ReconnectStep ==
    ASSUME H5IInv, NEW h \in Hooks, Reconnect(h)
    PROVE  H5IInv' /\ FinalStep
<1> DEFINE p == [Page EXCEPT !.hook[h].timer = NoChat]
           q == IF chat = hook[h].timer THEN Connect(p, h, chat) ELSE p
           y == [hook[h] EXCEPT !.timer = NoChat]
<1>1. /\ hook[h].timer # NoChat
      /\ hook' = q.hook /\ sockets' = q.sockets /\ inbox' = q.inbox
      /\ UNCHANGED <<chat, creating, card, bubbles, generating, wsConnections, turns>>
  BY DEF Reconnect, SetPage
<1>2. Page \in Pages /\ Page.hook = hook /\ Page.sockets = sockets /\ Page.inbox = inbox BY PageFits
<1>3. /\ hook \in [Hooks -> HookRefs] /\ sockets \in Seq(Socket) /\ inbox \in Seq(Seq(ChatFrame))
      /\ Len(inbox) = Len(sockets) /\ chat \in Chats \union {NoChat}
  BY DEF H5IInv, H5TypeOK
<1>4. p = [hook |-> [hook EXCEPT ![h] = y], sockets |-> sockets, inbox |-> inbox]
  BY DEF Page
<1>5. y \in HookRefs /\ y.ws = hook[h].ws /\ y.timer = NoChat /\ y.streaming = hook[h].streaming
  <2>1. hook[h] \in HookRefs BY <1>3
  <2> QED BY <2>1 DEF HookRefs
<1> HIDE DEF y, p
<1>6. /\ p \in Pages /\ p.sockets = sockets /\ p.inbox = inbox
      /\ p.hook[h] = y /\ \A g \in Hooks \ {h} : p.hook[g] = hook[g]
  BY <1>3, <1>4, <1>5 DEF Pages
<1>7. KeepsFrames(Page, p) BY <1>2, <1>3, <1>6 DEF KeepsFrames
<1>8. HookFits(p.hook, p.sockets, h, chat) BY <1>5, <1>6 DEF HookFits, H5IInv
<1>9. OnlyHook(Page, p, h) BY <1>2, <1>5, <1>6, <1>7 DEF OnlyHook, HookFits
<1>10. OnlyHook(Page, q, h) /\ HookFits(q.hook, q.sockets, h, chat)
  <2>1. CASE chat = hook[h].timer
    <3>1. chat \in Chats BY <1>1, <1>3, <2>1
    <3>2. q = Connect(p, h, chat) BY <2>1
    <3>3. OnlyHook(p, q, h) /\ HookFits(q.hook, q.sockets, h, chat) BY <1>6, <1>8, <3>1, <3>2, ConnectFits
    <3> QED BY <1>2, <1>9, <3>3, OnlyHookTwice
  <2>2. CASE chat # hook[h].timer BY <1>8, <1>9, <2>2
  <2> QED BY <2>1, <2>2
<1> HIDE DEF q
<1>11. /\ \A g \in Hooks : HookFits(q.hook, q.sockets, g, chat)
       /\ FramesKnown(q.sockets, q.inbox, bubbles)
       /\ Registered(wsConnections, q.sockets)
  <2>1. /\ \A g \in Hooks : HookFits(Page.hook, Page.sockets, g, chat)
        /\ FramesKnown(Page.sockets, Page.inbox, bubbles) /\ Registered(wsConnections, Page.sockets)
    BY <1>2 DEF H5IInv
  <2> QED BY <1>2, <1>10, <2>1, SameBubbles, PageMoves
<1>12. ~card' => SilentHook(hook', sockets', "card")
  <2> SUFFICES ASSUME ~card PROVE SilentHook(hook', sockets', "card") BY <1>1
  <2>1. SilentHook(hook, sockets, "card") BY DEF H5IInv
  <2>2. h # "card" BY <1>1, <2>1 DEF SilentHook
  <2>3. "card" \in Hooks \ {h} BY <2>2 DEF Hooks
  <2> QED BY <1>1, <1>2, <1>10, <2>1, <2>3, SilentKept
<1>13. \A g \in Hooks : q.hook[g].streaming = hook[g].streaming BY <1>2, <1>10 DEF OnlyHook
<1>14. StreamsFit(hook', bubbles', chat') BY <1>1, <1>13 DEF H5IInv, StreamsFit, Hooks
<1>15. H5TypeOK' BY <1>1, <1>10 DEF H5IInv, H5TypeOK, OnlyHook, Pages
<1> QED BY <1>1, <1>11, <1>12, <1>14, <1>15 DEF H5IInv, FinalStep

LEMMA HeadAndTail ==
    ASSUME NEW S, NEW s \in Seq(S), s # <<>>
    PROVE  /\ Head(s) = s[1] /\ 1 \in 1..Len(s) /\ Head(s) \in S
           /\ Tail(s) \in Seq(S) /\ Len(Tail(s)) = Len(s) - 1 /\ Len(s) \in Nat
           /\ \A i \in 1..Len(Tail(s)) : Tail(s)[i] = s[i + 1]
OBVIOUS

LEMMA HandleStep ==
    ASSUME H5IInv, NEW n \in 1..Len(sockets), HandleEvent(n)
    PROVE  H5IInv' /\ FinalStep
<1> DEFINE e == Head(inbox[n])
           h == sockets[n].owner
           q == hook[h].streaming
           p == [Page EXCEPT !.inbox[n] = Tail(inbox[n])]
           r == [p EXCEPT !.hook = AfterEvent(p, h, e)]
           known == q # 0 /\ bubbles[q].state # "cleared"
           mounts == e.kind = "approval" /\ ~card
           m == IF mounts /\ chat # NoChat THEN Connect(r, "card", chat) ELSE r
           last == e.kind \in {"done", "error"}
           rest == Tail(inbox[n])
           k == IF last THEN 0 ELSE q
           w == IF last THEN FALSE ELSE hook[h].watch \/ generating
           y == [hook[h] EXCEPT !.watch = w, !.streaming = k]
<1>1. /\ h # "none" /\ inbox[n] # <<>>
      /\ bubbles' = CASE known /\ e.kind = "delta" ->
                             [bubbles EXCEPT ![q].state = "streaming", ![q].shows = @ \union {e.asked}]
                        [] known /\ e.kind = "error" -> [bubbles EXCEPT ![q].state = "error"]
                        [] known /\ e.kind = "done" -> [bubbles EXCEPT ![q].state = "delivered"]
                        [] OTHER -> bubbles
      /\ generating' = (generating /\ ~last)
      /\ card' = (card \/ mounts)
      /\ hook' = m.hook /\ sockets' = m.sockets /\ inbox' = m.inbox
      /\ UNCHANGED <<chat, creating, wsConnections, turns>>
  BY DEF HandleEvent, SetPage
<1>2. /\ hook \in [Hooks -> HookRefs] /\ sockets \in Seq(Socket) /\ inbox \in Seq(Seq(ChatFrame))
      /\ Len(inbox) = Len(sockets) /\ chat \in Chats \union {NoChat} /\ bubbles \in Seq(Bubble)
      /\ sockets[n] \in Socket /\ inbox[n] \in Seq(ChatFrame) /\ n \in 1..Len(inbox)
  BY DEF H5IInv, H5TypeOK
<1>3. h \in Hooks /\ hook[h] \in HookRefs
  <2>1. h \in Hooks BY <1>1, <1>2 DEF Socket
  <2> QED BY <1>2, <2>1
<1>4. sockets[n].chat = chat BY <1>3 DEF H5IInv, HookFits
<1>5. e \in ChatFrame /\ Answers(e, chat, bubbles)
  <2>1. e = inbox[n][1] /\ 1 \in 1..Len(inbox[n]) /\ e \in ChatFrame BY <1>1, <1>2, HeadAndTail
  <2> QED BY <1>4, <2>1 DEF H5IInv, FramesKnown
<1>6. /\ rest \in Seq(ChatFrame) /\ Len(rest) = Len(inbox[n]) - 1 /\ Len(inbox[n]) \in Nat
      /\ \A i \in 1..Len(rest) : rest[i] = inbox[n][i + 1]
  BY <1>1, <1>2, HeadAndTail
<1>7. r = [hook |-> [hook EXCEPT ![h] = y], sockets |-> sockets, inbox |-> [inbox EXCEPT ![n] = rest]]
  <2>1. p = [hook |-> hook, sockets |-> sockets, inbox |-> [inbox EXCEPT ![n] = rest]]
    <3> HIDE DEF rest
    <3>1. p = [Page EXCEPT !.inbox[n] = rest] BY DEF rest
    <3> HIDE DEF p
    <3> QED BY <3>1 DEF Page
  <2> HIDE DEF p
  <2>2. AfterEvent(p, h, e) = [hook EXCEPT ![h] = y]
    <3>1. p.hook = hook BY <2>1
    <3> QED BY Zenon, <3>1 DEF AfterEvent
  <2> HIDE DEF y, rest
  <2> QED BY <2>1, <2>2
<1>8. y \in HookRefs /\ y.ws = hook[h].ws /\ y.timer = hook[h].timer /\ y.streaming = k
  <2>1. w \in BOOLEAN
    <3>1. hook[h].watch \in BOOLEAN BY <1>3 DEF HookRefs
    <3> QED BY <3>1
  <2>2. k \in Nat BY <1>3 DEF HookRefs
  <2> HIDE DEF w, k
  <2> QED BY <1>3, <2>1, <2>2 DEF HookRefs
<1> HIDE DEF y, r, rest
<1>9. /\ r \in Pages /\ r.sockets = sockets
      /\ r.hook[h] = y /\ \A g \in Hooks \ {h} : r.hook[g] = hook[g]
      /\ Len(r.inbox) = Len(inbox)
      /\ \A j \in 1..Len(inbox) : r.inbox[j] = IF j = n THEN rest ELSE inbox[j]
  <2>1. /\ [inbox EXCEPT ![n] = rest] \in Seq(Seq(ChatFrame)) /\ Len([inbox EXCEPT ![n] = rest]) = Len(inbox)
        /\ \A j \in 1..Len(inbox) : [inbox EXCEPT ![n] = rest][j] = IF j = n THEN rest ELSE inbox[j]
    BY <1>2, <1>6
  <2>2. [hook EXCEPT ![h] = y] \in [Hooks -> HookRefs] BY <1>2, <1>8
  <2>3. [hook EXCEPT ![h] = y][h] = y /\ \A g \in Hooks \ {h} : [hook EXCEPT ![h] = y][g] = hook[g]
    BY <1>2, <1>3
  <2> QED BY <1>2, <1>7, <2>1, <2>2, <2>3 DEF Pages
<1>10. \A g \in Hooks : /\ r.hook[g].ws = hook[g].ws /\ r.hook[g].timer = hook[g].timer
                        /\ r.hook[g].streaming = IF g = h THEN k ELSE hook[g].streaming
  BY <1>8, <1>9
<1>11. \A g \in Hooks : HookFits(r.hook, r.sockets, g, chat)
  BY <1>9, <1>10 DEF H5IInv, HookFits
<1>12. FramesKnown(r.sockets, r.inbox, bubbles)
  <2> SUFFICES ASSUME NEW j \in 1..Len(sockets), NEW i \in 1..Len(r.inbox[j])
               PROVE  Answers(r.inbox[j][i], sockets[j].chat, bubbles)
    BY <1>9 DEF FramesKnown
  <2>1. CASE j = n
    <3>1. r.inbox[j] = rest BY <1>2, <1>9, <2>1
    <3>2. i + 1 \in 1..Len(inbox[n]) /\ r.inbox[j][i] = inbox[n][i + 1] BY <1>6, <3>1
    <3> QED BY <3>2, <2>1 DEF H5IInv, FramesKnown
  <2>2. CASE j # n
    <3>1. r.inbox[j] = inbox[j] BY <1>2, <1>9, <2>2
    <3> QED BY <3>1 DEF H5IInv, FramesKnown
  <2> QED BY <2>1, <2>2
<1>13. /\ bubbles' \in Seq(Bubble) /\ Len(bubbles') = Len(bubbles)
       /\ \A i \in 1..Len(bubbles) : /\ bubbles'[i].chat = bubbles[i].chat
                                     /\ bubbles'[i].shows \subseteq bubbles[i].shows \union {e.asked}
       /\ \A i \in 1..Len(bubbles) :
              bubbles'[i] = bubbles[i] \/ (known /\ i = q /\ (last \/ bubbles'[i].state = "streaming"))
  <2>1. known => q \in 1..Len(bubbles) BY <1>3 DEF H5IInv, StreamsFit, Hooks
  <2>2. known => bubbles[q] \in Bubble BY <1>2, <2>1
  <2>7. ASSUME NEW x \in Bubble, known, x.chat = bubbles[q].chat,
               x.shows \subseteq bubbles[q].shows \union {e.asked}, last \/ x.state = "streaming",
               bubbles' = [bubbles EXCEPT ![q] = x]
        PROVE  /\ bubbles' \in Seq(Bubble) /\ Len(bubbles') = Len(bubbles)
               /\ \A i \in 1..Len(bubbles) : /\ bubbles'[i].chat = bubbles[i].chat
                                             /\ bubbles'[i].shows \subseteq bubbles[i].shows \union {e.asked}
               /\ \A i \in 1..Len(bubbles) :
                    bubbles'[i] = bubbles[i] \/ (known /\ i = q /\ (last \/ bubbles'[i].state = "streaming"))
    <3> HIDE DEF q, e, last, known
    <3>1. bubbles' \in Seq(Bubble) /\ Len(bubbles') = Len(bubbles)
          /\ \A i \in 1..Len(bubbles) : bubbles'[i] = IF i = q THEN x ELSE bubbles[i]
      BY <2>7, <1>2, <2>1, ReplacedInSeq
    <3>2. \A i \in 1..Len(bubbles) : /\ bubbles'[i].chat = bubbles[i].chat
                                     /\ bubbles'[i].shows \subseteq bubbles[i].shows \union {e.asked}
      BY <2>7, <3>1
    <3>3. ASSUME NEW i \in 1..Len(bubbles)
          PROVE  bubbles'[i] = bubbles[i] \/ (known /\ i = q /\ (last \/ bubbles'[i].state = "streaming"))
      <4>1. CASE i = q BY <2>7, <3>1, <4>1
      <4>2. CASE i # q BY <3>1, <4>2
      <4> QED BY <4>1, <4>2
    <3> QED BY <3>1, <3>2, <3>3
  <2>3. CASE known /\ e.kind = "delta"
    <3> DEFINE x == [bubbles[q] EXCEPT !.state = "streaming", !.shows = bubbles[q].shows \union {e.asked}]
    <3>1. x \in Bubble /\ x.chat = bubbles[q].chat /\ x.state = "streaming"
          /\ x.shows = bubbles[q].shows \union {e.asked}
      BY <2>2, <2>3, <1>5 DEF Bubble, ChatFrame
    <3>2. bubbles' = [bubbles EXCEPT ![q] = x] BY <1>1, <2>3
    <3> HIDE DEF x
    <3> QED BY <2>3, <2>7, <3>1, <3>2
  <2>4. CASE known /\ e.kind = "error"
    <3> DEFINE x == [bubbles[q] EXCEPT !.state = "error"]
    <3>1. x \in Bubble /\ x.chat = bubbles[q].chat /\ x.shows = bubbles[q].shows
      BY <2>2, <2>4 DEF Bubble
    <3>2. bubbles' = [bubbles EXCEPT ![q] = x] BY <1>1, <2>4
    <3> HIDE DEF x
    <3> QED BY <2>4, <2>7, <3>1, <3>2
  <2>5. CASE known /\ e.kind = "done"
    <3> DEFINE x == [bubbles[q] EXCEPT !.state = "delivered"]
    <3>1. x \in Bubble /\ x.chat = bubbles[q].chat /\ x.shows = bubbles[q].shows
      BY <2>2, <2>5 DEF Bubble
    <3>2. bubbles' = [bubbles EXCEPT ![q] = x] BY <1>1, <2>5
    <3> HIDE DEF x
    <3> QED BY <2>5, <2>7, <3>1, <3>2
  <2>6. CASE ~(known /\ e.kind \in {"delta", "error", "done"})
    <3>1. bubbles' = bubbles BY <1>1, <2>6
    <3> QED BY <3>1, <1>2
  <2> QED BY <2>3, <2>4, <2>5, <2>6
<1>14. known => /\ h = "panel" /\ q \in 1..Len(bubbles)
                /\ bubbles[q].state = "streaming" /\ bubbles[q].chat = chat
  BY <1>3 DEF H5IInv, StreamsFit, Hooks
<1> HIDE DEF e, q, known, last
<1>15. /\ bubbles' \in Seq(Bubble) /\ Len(bubbles') = Len(bubbles)
       /\ \A i \in 1..Len(bubbles) : bubbles'[i].chat = bubbles[i].chat
  BY <1>13
<1>16. SameChats(bubbles, bubbles') BY <1>2, <1>15 DEF SameChats
<1>17. ShownFits(bubbles')
  <2> SUFFICES ASSUME NEW i \in 1..Len(bubbles), NEW j \in bubbles'[i].shows
               PROVE  j \in 1..Len(bubbles) /\ bubbles[j].chat = bubbles[i].chat
    BY <1>15, <1>2 DEF ShownFits
  <2>1. CASE j \in bubbles[i].shows BY <2>1 DEF H5IInv, ShownFits
  <2>2. CASE j \notin bubbles[i].shows
    <3>1. bubbles'[i] # bubbles[i] BY <2>2
    <3>2. known /\ i = q BY <1>13, <3>1
    <3>3. j = e.asked
      <4>1. j \in bubbles[i].shows \union {e.asked} BY <1>13
      <4> QED BY <2>2, <4>1
    <3> QED BY <3>2, <3>3, <1>5, <1>14 DEF Answers
  <2> QED BY <2>1, <2>2
<1>18. FinalStep
  <2> SUFFICES ASSUME NEW i \in 1..Len(bubbles), bubbles[i].state \in {"delivered", "error"}
               PROVE  bubbles'[i] = bubbles[i]
    BY DEF FinalStep
  <2>1. CASE known /\ i = q BY <1>14, <2>1
  <2>2. CASE ~(known /\ i = q) BY <1>13, <2>2
  <2> QED BY <2>1, <2>2
<1>19. TurnsKnown(turns', bubbles') BY <1>1, <1>2, <1>15, <1>16, TurnsStayKnown DEF H5IInv
<1>20. StreamsFit(r.hook, bubbles', chat)
  <2>1. r.hook["card"].streaming = 0
    BY <1>10 DEF H5IInv, StreamsFit, Hooks, q
  <2>2. ASSUME r.hook["panel"].streaming # 0
        PROVE  /\ r.hook["panel"].streaming \in 1..Len(bubbles')
               /\ \/ bubbles'[r.hook["panel"].streaming].state = "cleared"
                  \/ /\ bubbles'[r.hook["panel"].streaming].state = "streaming"
                     /\ bubbles'[r.hook["panel"].streaming].chat = chat
    <3> DEFINE s == hook["panel"].streaming
    <3>1. r.hook["panel"].streaming = s /\ (h = "panel" => ~last) BY <1>10, <2>2 DEF Hooks, q
    <3>2. /\ s \in 1..Len(bubbles)
          /\ bubbles[s].state = "cleared" \/ (bubbles[s].state = "streaming" /\ bubbles[s].chat = chat)
      BY <2>2, <3>1 DEF H5IInv, StreamsFit
    <3> HIDE DEF s
    <3>3. CASE bubbles'[s] = bubbles[s] BY <3>1, <3>2, <3>3, <1>15
    <3>4. CASE bubbles'[s] # bubbles[s]
      <4>1. known /\ s = q /\ h = "panel" BY <3>2, <3>4, <1>14, <1>13
      <4>2. last \/ bubbles'[q].state = "streaming" BY <1>13, <3>2, <3>4, <4>1
      <4>4. bubbles'[s].state = "streaming" BY <3>1, <4>1, <4>2
      <4> QED BY <3>1, <3>2, <4>4, <1>14, <1>15, <4>1
    <3> QED BY <3>3, <3>4
  <2> QED BY <2>1, <2>2 DEF StreamsFit
<1>21. /\ m \in Pages /\ \A g \in Hooks : HookFits(m.hook, m.sockets, g, chat)
       /\ FramesKnown(m.sockets, m.inbox, bubbles') /\ Registered(wsConnections, m.sockets)
       /\ \A g \in Hooks : m.hook[g].streaming = r.hook[g].streaming
       /\ ~card' => SilentHook(m.hook, m.sockets, "card")
  <2>1. KeepsFrames(r, r) BY <1>9 DEF KeepsFrames, Pages
  <2>2. Registered(wsConnections, r.sockets) BY <1>9 DEF H5IInv
  <2>3. "card" \in Hooks BY DEF Hooks
  <2>4. OnlyHook(r, r, "card") BY <2>1, <1>9 DEF OnlyHook
  <2>5. CASE mounts /\ chat # NoChat
    <3>1. m = Connect(r, "card", chat) /\ chat \in Chats /\ card' BY <2>5, <1>1, <1>2
    <3>2. OnlyHook(r, m, "card") /\ HookFits(m.hook, m.sockets, "card", chat)
      BY <1>9, <1>11, <2>3, <3>1, ConnectFits
    <3> HIDE DEF m
    <3>3. /\ \A g \in Hooks : HookFits(m.hook, m.sockets, g, chat)
          /\ FramesKnown(m.sockets, m.inbox, bubbles') /\ Registered(wsConnections, m.sockets)
      BY <1>2, <1>9, <1>11, <1>12, <1>15, <1>16, <2>2, <2>3, <3>2, PageMoves
    <3> QED BY <3>1, <3>2, <3>3 DEF OnlyHook
  <2>6. CASE ~(mounts /\ chat # NoChat)
    <3>1. m = r BY <2>6
    <3> HIDE DEF m
    <3>2. /\ FramesKnown(m.sockets, m.inbox, bubbles') /\ Registered(wsConnections, m.sockets)
      BY <1>2, <1>9, <1>11, <1>12, <1>15, <1>16, <2>2, <2>3, <2>4, <3>1, PageMoves
    <3>3. ~card' => SilentHook(m.hook, m.sockets, "card")
      <4>1. ~card' => SilentHook(hook, sockets, "card") BY <1>1 DEF H5IInv
      <4> QED BY <4>1, <3>1, <1>9, <1>10, <2>3 DEF SilentHook
    <3> QED BY <3>1, <3>2, <3>3, <1>9, <1>11
  <2> QED BY <2>5, <2>6
<1> HIDE DEF m
<1>22. StreamsFit(hook', bubbles', chat') BY <1>1, <1>20, <1>21 DEF StreamsFit, Hooks
<1>23. card' \in BOOLEAN /\ generating' \in BOOLEAN BY <1>1 DEF H5IInv, H5TypeOK
<1>24. H5TypeOK' BY <1>1, <1>15, <1>21, <1>23 DEF H5IInv, H5TypeOK, Pages
<1> QED BY <1>1, <1>17, <1>18, <1>19, <1>21, <1>22, <1>24 DEF H5IInv

LEMMA H5Step ==
    ASSUME H5IInv, [H5Next]_h5vars
    PROVE  H5IInv' /\ FinalStep
<1>1. ASSUME NEW c \in Chats, CreateSession(c) PROVE H5IInv' /\ FinalStep BY <1>1, CreateStep
<1>2. ASSUME NEW c \in Chats, Emit(c) PROVE H5IInv' /\ FinalStep BY <1>2, EmitStep
<1>3. ASSUME NEW c \in Chats \union {NoChat}, SwitchTo(c), creating' \in Chats \union {NoChat},
             UNCHANGED <<wsConnections, turns>>
      PROVE  H5IInv' /\ FinalStep
  <2>1. bubbles \in Seq(Bubble) BY SameBubbles
  <2>2. \A i \in 1..Len(bubbles) : bubbles'[i] = [bubbles[i] EXCEPT !.state = "cleared"]
    BY <1>3, <2>1 DEF SwitchTo
  <2>3. \A i \in 1..Len(bubbles) : bubbles[i] \in Bubble BY <2>1
  <2>4. FinalStep BY <2>2, <2>3 DEF FinalStep, Bubble
  <2> QED BY <1>3, <2>4, SwitchFits
<1>4. CASE SessionCreated
  <2>1. creating \in Chats \union {NoChat} /\ creating' = NoChat BY <1>4 DEF SessionCreated, H5IInv, H5TypeOK
  <2>2. CASE SwitchTo(creating) BY <1>3, <1>4, <2>1, <2>2 DEF SessionCreated
  <2>3. CASE ~SwitchTo(creating)
    <3>1. UNCHANGED <<chat, card, hook, bubbles, generating, sockets, inbox, wsConnections, turns>>
      BY <1>4, <2>3 DEF SessionCreated
    <3> QED BY <2>1, <3>1 DEF H5IInv, H5TypeOK, FinalStep
  <2> QED BY <2>2, <2>3
<1>5. CASE CloseSession
  <2>1. /\ SwitchTo(NoChat) /\ creating' \in Chats \union {NoChat}
        /\ NoChat \in Chats \union {NoChat} /\ UNCHANGED <<wsConnections, turns>>
    BY <1>5 DEF CloseSession, H5IInv, H5TypeOK
  <2> QED BY <2>1, <1>3
<1>6. CASE SendMessage BY <1>6, SentStep
<1>7. ASSUME NEW n \in 1..Len(sockets), SocketOpened(n) \/ Closed(n) \/ HandleEvent(n) \/ Accept(n) \/ ServerClosed(n)
      PROVE  H5IInv' /\ FinalStep
  BY <1>7, OpenedStep, ClosedStep, HandleStep, AcceptStep
<1>8. ASSUME NEW h \in Hooks, Reconnect(h) \/ Watchdog(h) PROVE H5IInv' /\ FinalStep
  BY <1>8, ReconnectStep, WatchdogStep
<1>9. CASE GatewayRestart BY <1>9, RestartStep
<1>10. CASE UNCHANGED h5vars BY <1>10 DEF h5vars, H5IInv, H5TypeOK, FinalStep
<1> QED BY <1>1, <1>2, <1>4, <1>5, <1>6, <1>7, <1>8, <1>9, <1>10 DEF H5Next

(* A socket the page still hears is the one its hook refers to and belongs *)
(* to the session on display, and no reconnection is pending beside it     *)
(* (hooks/useChat.ts).                                                     *)
THEOREM OneSocket == H5Spec => []OneSocketPerHook
<1>1. H5Init => H5IInv BY H5Initial
<1>2. H5IInv /\ [H5Next]_h5vars => H5IInv' BY H5Step
<1>3. H5IInv => OneSocketPerHook
  <2> SUFFICES ASSUME H5IInv PROVE OneSocketPerHook OBVIOUS
  <2>1. \A h \in Hooks : HookFits(hook, sockets, h, chat) BY DEF H5IInv
  <2>2. \A n \in 1..Len(sockets) : sockets[n].owner # "none" => sockets[n].owner \in Hooks
    <3> TAKE n \in 1..Len(sockets)
    <3>1. sockets[n] \in Socket BY DEF H5IInv, H5TypeOK
    <3> QED BY <3>1 DEF Socket
  <2> QED BY <2>1, <2>2 DEF OneSocketPerHook, HookFits
<1> QED BY <1>1, <1>2, <1>3, PTL DEF H5Spec

(* A bubble shows answers to questions of its own session only, although   *)
(* frames of the sessions the page has left are still on their way.        *)
THEOREM OwnSessionShown == H5Spec => []ShowsOwnSession
<1>1. H5Init => H5IInv BY H5Initial
<1>2. H5IInv /\ [H5Next]_h5vars => H5IInv' BY H5Step
<1>3. H5IInv => ShowsOwnSession BY DEF H5IInv, ShownFits, ShowsOwnSession
<1> QED BY <1>1, <1>2, <1>3, PTL DEF H5Spec

(* A bubble that was delivered or has failed is never changed again, by no *)
(* late event, watchdog or switch of sessions.                             *)
THEOREM FinalKept == H5Spec => FinalStays
<1>1. H5Init => H5IInv BY H5Initial
<1>2. H5IInv /\ [H5Next]_h5vars => H5IInv' BY H5Step
<1>3. H5IInv /\ [H5Next]_h5vars => [FinalStep]_h5vars BY H5Step
<1>4. H5Spec => [][FinalStep]_h5vars BY <1>1, <1>2, <1>3, PTL DEF H5Spec
<1>5. [FinalStep]_h5vars => [\A i \in 1..Len(bubbles) : bubbles[i].state \in {"delivered", "error"} =>
          bubbles'[i].state \in {bubbles[i].state, "cleared"} /\ bubbles'[i].shows = bubbles[i].shows]_h5vars
  BY DEF FinalStep
<1> QED BY <1>4, <1>5, PTL DEF FinalStays

-----------------------------------------------------------------------------
(* Sign-in.                                                                *)

FetchRecord == [pc : {"idle", "sent", "waiting"}, token : Tokens, retry : BOOLEAN, sends : 0..2]

\* A request is marked as retried before it is sent again, and only one that was sent once
\* waits: what the flag says and how often it was sent go together.
SentAsMarked(n) ==
    /\ n.pc = "waiting" => n.retry /\ n.sends = 1
    /\ n.pc = "sent" => n.sends = IF n.retry THEN 2 ELSE 1

AuthIInv == AuthTypeOK /\ RetriesAreBounded /\ \A f \in Fetches : SentAsMarked(fetches[f])

LEMMA TokenTypes ==
    /\ NoToken \in Tokens /\ NoToken.is = "none" /\ NoFetch \in FetchRecord /\ NoFetch.pc = "idle" /\ SentAsMarked(NoFetch)
    /\ \A r \in BOOLEAN : Token(r) \in Tokens /\ Token(r).is = "fresh"
  BY DEF NoToken, Token, Tokens, NoFetch, FetchRecord, SentAsMarked

\* A request that waited is sent again with the new token.
LEMMA SentAgain ==
    ASSUME NEW n \in FetchRecord, SentAsMarked(n), n.pc = "waiting"
    PROVE  LET m == [n EXCEPT !.pc = "sent", !.token = Token(FALSE), !.sends = @ + 1]
           IN  m \in FetchRecord /\ SentAsMarked(m) /\ m.pc = "sent"
<1>1. Token(FALSE) \in Tokens /\ n.retry /\ n.sends = 1
  BY TokenTypes DEF SentAsMarked
<1> DEFINE t == Token(FALSE)
<1> DEFINE a == [n EXCEPT !.pc = "sent", !.token = t]
<1> HIDE DEF t
<1>2. a \in FetchRecord /\ a.pc = "sent" /\ a.retry = n.retry /\ a.sends = 1
  BY <1>1 DEF FetchRecord, t
<1> HIDE DEF a
<1> DEFINE m == [a EXCEPT !.sends = 2]
<1>3. m \in FetchRecord /\ m.pc = "sent" /\ m.retry = n.retry /\ m.sends = 2
  BY <1>2 DEF FetchRecord
<1>4. m = [n EXCEPT !.pc = "sent", !.token = Token(FALSE), !.sends = @ + 1]
  <2>1. n.sends + 1 = 2
    BY <1>1
  <2> QED
    BY <2>1, Zenon DEF m, a, t
<1> HIDE DEF m
<1>5. SentAsMarked(m)
  BY <1>1, <1>3 DEF SentAsMarked
<1> QED
  BY <1>3, <1>4, <1>5

LEMMA NoFetchesKept ==
    ASSUME fetches' = NoFetches
    PROVE  /\ fetches' \in [Fetches -> FetchRecord]
           /\ \A f \in Fetches : SentAsMarked(fetches'[f]) /\ fetches'[f].sends <= 2 /\ fetches'[f].pc # "waiting"
  BY TokenTypes DEF NoFetches, SentAsMarked, NoFetch

LEMMA AuthInitial == AuthInit => AuthIInv
<1> SUFFICES ASSUME AuthInit PROVE AuthIInv
  OBVIOUS
<1>1. fetches \in [Fetches -> FetchRecord] /\ \A f \in Fetches : fetches[f] = NoFetch
  BY TokenTypes DEF AuthInit, NoFetches
<1>2. AuthTypeOK
  BY <1>1, TokenTypes DEF AuthInit, AuthTypeOK, SignedOut, FetchRecord
<1> QED
  BY <1>1, <1>2 DEF AuthInit, AuthIInv, RetriesAreBounded, SentAsMarked, NoFetch, SignedOut

\* A new document has no request and no refresh, and a user only with a token.
LEMMA LoadKeeps ==
    ASSUME AuthIInv, NEW a \in Tokens, NEW r \in {"none", "fresh", "expired"}, Load(a, r)
    PROVE  AuthIInv'
<1> DEFINE known == a.is = "fresh" \/ (a.is = "expired" /\ r # "none")
<1>1. /\ fetches' = NoFetches /\ refreshing' = "no" /\ signingIn' = FALSE
      /\ page' = IF known THEN [authed |-> TRUE, roles |-> a.roles] ELSE SignedOut
      /\ IF known \/ a.is = "none" THEN access' = a /\ refresh' = r ELSE ClearTokens
  BY DEF Load
<1>2. /\ page' \in [authed : BOOLEAN, roles : BOOLEAN] /\ access' \in Tokens
      /\ refresh' \in {"none", "fresh", "expired"} /\ (page'.authed => access'.is # "none")
  BY <1>1, TokenTypes DEF Tokens, SignedOut, ClearTokens
<1> QED
  BY <1>1, <1>2, NoFetchesKept DEF AuthIInv, AuthTypeOK, RetriesAreBounded, FetchRecord

LEMMA AuthStep == AuthIInv /\ [AuthNext]_authVars => AuthIInv'
<1> SUFFICES ASSUME AuthIInv, [AuthNext]_authVars PROVE AuthIInv'
  OBVIOUS
<1>0. /\ access \in Tokens /\ refresh \in {"none", "fresh", "expired"} /\ signingIn \in BOOLEAN
      /\ page \in [authed : BOOLEAN, roles : BOOLEAN] /\ refreshing \in {"no", "fresh", "expired"}
      /\ fetches \in [Fetches -> FetchRecord] /\ (page.authed => access.is # "none")
      /\ \A f \in Fetches : SentAsMarked(fetches[f]) /\ (fetches[f].pc = "waiting" => refreshing # "no")
  BY DEF AuthIInv, AuthTypeOK, RetriesAreBounded, FetchRecord
\* A step of one request, which may wait only for a refresh under way.
<1>a. ASSUME NEW f \in Fetches, NEW n \in FetchRecord, fetches' = [fetches EXCEPT ![f] = n],
             UNCHANGED <<access, refresh, page, signingIn>>,
             refreshing' \in {"no", "fresh", "expired"}, refreshing # "no" => refreshing' # "no",
             SentAsMarked(n),
             n.pc = "waiting" => refreshing' # "no"
      PROVE  AuthIInv'
  <2>1. fetches' \in [Fetches -> FetchRecord] /\ \A g \in Fetches : fetches'[g] = IF g = f THEN n ELSE fetches[g]
    BY <1>0, <1>a
  <2>2. \A g \in Fetches : SentAsMarked(fetches'[g])
    BY <1>0, <1>a, <2>1 DEF SentAsMarked
  <2>3. \A g \in Fetches : fetches'[g].sends <= 2 /\ (fetches'[g].pc = "waiting" => refreshing' # "no")
    BY <1>0, <1>a, <2>1 DEF FetchRecord
  <2> QED
    BY <1>0, <1>a, <2>1, <2>2, <2>3 DEF AuthIInv, AuthTypeOK, RetriesAreBounded, FetchRecord
\* A step that leaves the requests and the refresh alone.
<1>b. ASSUME UNCHANGED <<refreshing, fetches>>, access' \in Tokens, refresh' \in {"none", "fresh", "expired"},
             signingIn' \in BOOLEAN, page' \in [authed : BOOLEAN, roles : BOOLEAN],
             page'.authed => access'.is # "none"
      PROVE  AuthIInv'
  BY <1>0, <1>b DEF AuthIInv, AuthTypeOK, RetriesAreBounded, SentAsMarked, FetchRecord
<1>1. CASE Reload
  BY <1>0, <1>1, LoadKeeps DEF Reload
<1>2. CASE SignIn
  BY <1>0, <1>2, <1>b DEF SignIn
<1>3. CASE SignedIn
  <2>1. page' \in [authed : BOOLEAN, roles : BOOLEAN] /\ access' \in Tokens
        /\ (page'.authed => access'.is # "none")
    <3>1. CASE access' = Issued /\ page' = [authed |-> TRUE, roles |-> TRUE]
      BY <3>1, TokenTypes DEF Issued
    <3>2. CASE access' = access /\ page' = [page EXCEPT !.authed = FALSE]
      <4>1. page' = [authed |-> FALSE, roles |-> page.roles]
        BY <1>0, <3>2
      <4> QED
        BY <1>0, <3>2, <4>1
    <3> QED
      BY <1>3, <3>1, <3>2 DEF SignedIn
  <2> QED
    BY <1>0, <1>3, <2>1, <1>b DEF SignedIn
<1>4. CASE Logout
  BY <1>0, <1>4, <1>b, TokenTypes DEF Logout, SignedOut, ClearTokens
<1>5. CASE Expire
  <2>1. access' \in Tokens /\ (access.is # "none" => access'.is # "none")
    BY <1>0, <1>5 DEF Expire, Tokens
  <2> QED
    BY <1>0, <1>5, <2>1, <1>b DEF Expire
<1>6. CASE Refreshed
  <2>1. ASSUME NEW f \in Fetches
        PROVE  fetches'[f] \in FetchRecord /\ SentAsMarked(fetches'[f]) /\ fetches'[f].pc # "waiting"
    <3>1. fetches'[f] = IF fetches[f].pc = "waiting"
                        THEN [fetches[f] EXCEPT !.pc = "sent", !.token = Token(FALSE), !.sends = @ + 1]
                        ELSE fetches[f]
      BY <1>6 DEF Refreshed
    <3>2. SentAsMarked(fetches[f]) /\ fetches[f] \in FetchRecord
      BY <1>0
    <3>3. CASE fetches[f].pc = "waiting"
      BY <3>1, <3>2, <3>3, SentAgain
    <3>4. CASE fetches[f].pc # "waiting"
      BY <3>1, <3>2, <3>4 DEF FetchRecord, SentAsMarked
    <3> QED
      BY <3>3, <3>4
  <2>2. fetches' \in [Fetches -> FetchRecord]
    BY <2>1, <1>6 DEF Refreshed
  <2>3. access' \in Tokens /\ access'.is # "none" /\ refreshing' = "no" /\ UNCHANGED <<refresh, page, signingIn>>
    BY <1>6, TokenTypes DEF Refreshed
  <2>4. \A f \in Fetches : fetches'[f].sends <= 2
    BY <2>2 DEF FetchRecord
  <2> QED
    BY <1>0, <2>1, <2>2, <2>3, <2>4 DEF AuthIInv, AuthTypeOK, RetriesAreBounded, FetchRecord
<1>7. CASE RefreshFails
  BY <1>0, <1>7, LoadKeeps, TokenTypes DEF RefreshFails, Redirected
<1>8. ASSUME NEW f \in Fetches, Send(f) PROVE AuthIInv'
  <2> DEFINE n == [pc |-> "sent", token |-> access, retry |-> FALSE, sends |-> 1]
  <2>1. n \in FetchRecord /\ SentAsMarked(n)
    BY <1>0 DEF FetchRecord, SentAsMarked
  <2>2. n.pc # "waiting"
    OBVIOUS
  <2> QED
    BY <1>0, <1>8, <2>1, <2>2, <1>a DEF Send
<1>9. ASSUME NEW f \in Fetches, Answered(f) PROVE AuthIInv'
  BY <1>0, <1>9, <1>a, TokenTypes DEF Answered
<1>9a. ASSUME NEW f \in Fetches, NoResponse(f) PROVE AuthIInv'
  BY <1>0, <1>9a, <1>a, TokenTypes DEF NoResponse
<1>10. ASSUME NEW f \in Fetches, Unauthorized(f) PROVE AuthIInv'
  <2>1. CASE fetches[f].retry
    BY <1>0, <1>10, <2>1, <1>a, TokenTypes DEF Unauthorized, Refreshes
  <2>2. CASE ~fetches[f].retry /\ refreshing = "no" /\ refresh = "none"
    <3>1. Redirected
      BY <1>10, <2>2 DEF Unauthorized, Refreshes
    <3> QED
      BY <3>1, LoadKeeps, TokenTypes DEF Redirected
  <2>3. CASE ~fetches[f].retry /\ ~(refreshing = "no" /\ refresh = "none")
    <3> DEFINE n == [fetches[f] EXCEPT !.pc = "waiting", !.retry = TRUE]
    <3>1. fetches[f].pc = "sent" /\ fetches[f] \in FetchRecord /\ SentAsMarked(fetches[f])
      BY <1>0, <1>10 DEF Unauthorized
    <3>2. n \in FetchRecord /\ n.pc = "waiting" /\ SentAsMarked(n)
      BY <2>3, <3>1 DEF FetchRecord, SentAsMarked
    <3>3. /\ fetches' = [fetches EXCEPT ![f] = n]
          /\ refreshing' = IF refreshing = "no" THEN refresh ELSE refreshing
          /\ UNCHANGED <<access, refresh, page, signingIn>>
      BY <1>10, <2>3 DEF Unauthorized, Refreshes
    <3>4. refreshing' # "no" /\ refreshing' \in {"no", "fresh", "expired"}
      BY <1>0, <2>3, <3>3
    <3> QED
      BY <3>2, <3>3, <3>4, <1>a
  <2> QED
    BY <1>0, <2>1, <2>2, <2>3 DEF FetchRecord
<1>11. CASE UNCHANGED authVars
  BY <1>0, <1>11, <1>b DEF authVars
<1> QED
  BY <1>1, <1>2, <1>3, <1>4, <1>5, <1>6, <1>7, <1>8, <1>9, <1>9a, <1>10, <1>11 DEF AuthNext

\* Requests of a page are sent at most twice, wait only for a refresh under way, and a
\* page that shows somebody as signed in has a token (utils/api.ts).
THEOREM RetriesBounded == AuthSpec => []RetriesAreBounded
<1>1. AuthIInv => RetriesAreBounded
  BY DEF AuthIInv
<1> QED
  BY AuthInitial, AuthStep, <1>1, PTL DEF AuthSpec

=============================================================================

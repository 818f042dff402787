--------------------------- MODULE WecomBotClient ---------------------------
(***************************************************************************)
(* The Gateway's long connection to the WeCom bot service: dialling,       *)
(* aibot_subscribe, heartbeats, and reconnection with a budget of          *)
(* attempts (adapters/wecom/WecomBotClient.ts, started by WecomBotAdapter  *)
(* from index.ts).                                                         *)
(*                                                                         *)
(* An action is one event of the Node.js event loop together with the      *)
(* promise reactions it triggers, which all run before the next event.  A  *)
(* promise that is rejected before anything awaits it is an unhandled      *)
(* rejection, on which index.ts shuts the Gateway down.                    *)
(***************************************************************************)
EXTENDS Integers

CONSTANTS
    MaxReconnectAttempts, \* config.maxReconnectAttempts
    HeartbeatTimeoutCount \* config.heartbeatTimeoutCount

ASSUME BotAssumption ==
    /\ MaxReconnectAttempts \in Nat
    /\ HeartbeatTimeoutCount \in Nat \ {0}

VARIABLES
    state,     \* the client's ConnectionState
    socket,    \* this.ws, the one it listens to: "none", "opening" or "open"
    request,   \* the subscribe frame: "none", "sending" or "waiting"
    ping,      \* the ping frame, likewise
    caller,    \* who awaits connect(): "none", "start" or "timer"
    shouldRun,
    attempts,  \* reconnectAttempts
    missed,    \* missedHeartbeats
    timer,     \* the reconnect timer is armed
    beating,   \* the heartbeat interval is set
    adapter,   \* WecomBotAdapter.start: "idle", "starting", "started", "failed"
    gateway,   \* the process is "up" or "down"
    stopped,   \* disconnect() has been called
    dials,     \* history: reconnections tried since the last subscription
    left       \* history: sockets it has let go of since then without closing
               \* them; they may be open, and none of their events is heard

vars == <<state, socket, request, ping, caller, shouldRun, attempts, missed,
          timer, beating, adapter, gateway, stopped, dials, left>>

Frame == {"none", "sending", "waiting"}

TypeOK ==
    /\ state \in {"disconnected", "connecting", "subscribing", "heartbeating", "reconnecting"}
    /\ socket \in {"none", "opening", "open"}
    /\ request \in Frame /\ ping \in Frame
    /\ caller \in {"none", "start", "timer"}
    /\ shouldRun \in BOOLEAN /\ timer \in BOOLEAN /\ beating \in BOOLEAN /\ stopped \in BOOLEAN
    /\ attempts \in 0 .. MaxReconnectAttempts
    /\ missed \in 0 .. HeartbeatTimeoutCount
    /\ adapter \in {"idle", "starting", "started", "failed"}
    /\ gateway \in {"up", "down"}
    /\ dials \in Nat /\ left \in Nat

Init ==
    /\ state = "disconnected" /\ socket = "none"
    /\ request = "none" /\ ping = "none" /\ caller = "none"
    /\ shouldRun = FALSE /\ attempts = 0 /\ missed = 0
    /\ timer = FALSE /\ beating = FALSE
    /\ adapter = "idle" /\ gateway = "up" /\ stopped = FALSE
    /\ dials = 0 /\ left = 0

-----------------------------------------------------------------------------
\* Mutant: the attempts are not counted.
ScheduleReconnectUncounted(n) ==
    timer' = TRUE /\ state' = "reconnecting" /\ attempts' = attempts

(* scheduleReconnect, n times in a row: every call counts as an attempt    *)
(* and replaces the timer of the one before; a call with no attempt left   *)
(* cancels it and gives up.                                                *)
ScheduleReconnect(n) ==
    LET last == attempts + n IN
    IF last <= MaxReconnectAttempts
    THEN attempts' = last /\ timer' = TRUE /\ state' = "reconnecting"
    ELSE attempts' = MaxReconnectAttempts /\ timer' = FALSE /\ state' = "disconnected"

\* How a failed connect() ends: connect() of the timer has a catch clause
\* that schedules once more, the adapter's start() gives up.
Retries == IF caller = "timer" THEN 1 ELSE 0
FailStart == adapter' = IF caller = "start" THEN "failed" ELSE adapter

\* Mutant: handleDisconnect forgets to schedule a reconnection.
HandleDisconnectSilently(times) ==
    /\ socket' = "none" /\ request' = "none" /\ ping' = "none"
    /\ beating' = FALSE
    /\ caller' = "none"
    /\ FailStart
    /\ state' = "reconnecting"
    /\ UNCHANGED <<attempts, timer, shouldRun, missed, gateway, stopped, dials>>

\* Mutant: the socket keeps its listeners and goes on.
HandleDisconnectLeaky(times) ==
    /\ request' = "none" /\ ping' = "none"
    /\ beating' = FALSE
    /\ caller' = "none"
    /\ FailStart
    /\ ScheduleReconnect(times + Retries)
    /\ UNCHANGED <<socket, shouldRun, missed, gateway, stopped, dials>>

(* handleDisconnect, run "times" times by the same event while shouldRun:  *)
(* the listeners of the socket are removed and it is forgotten, not closed. *)
HandleDisconnect(times) ==
    /\ socket' = "none" /\ request' = "none" /\ ping' = "none"
    /\ beating' = FALSE
    /\ caller' = "none"
    /\ FailStart
    /\ ScheduleReconnect(times + Retries)
    /\ UNCHANGED <<shouldRun, missed, gateway, stopped, dials>>

Dial(who) ==
    /\ shouldRun' = TRUE
    /\ state' = "connecting"
    /\ socket' = "opening"
    /\ caller' = who

-----------------------------------------------------------------------------
(* main() of index.ts starts the bot adapter once.                         *)
Start ==
    /\ adapter = "idle"
    /\ adapter' = "starting"
    /\ Dial("start")
    /\ UNCHANGED <<request, ping, attempts, missed, timer, beating, gateway, stopped, dials, left>>

(* 'open': subscribe() registers its request and writes the frame.         *)
Opened ==
    /\ socket = "opening"
    /\ socket' = "open" /\ state' = "subscribing" /\ request' = "sending"
    /\ UNCHANGED <<ping, caller, shouldRun, attempts, missed, timer, beating,
                   adapter, gateway, stopped, dials, left>>

(* 'error', 'close' or 'unexpected-response' before the handshake is done. *)
HandshakeFails ==
    /\ socket = "opening"
    /\ HandleDisconnect(1) /\ UNCHANGED left

FrameWritten ==
    \/ /\ request = "sending" /\ request' = "waiting"
       /\ UNCHANGED ping
    \/ /\ ping = "sending" /\ ping' = "waiting"
       /\ UNCHANGED request

SendDone ==
    /\ FrameWritten
    /\ UNCHANGED <<state, socket, caller, shouldRun, attempts, missed, timer, beating,
                   adapter, gateway, stopped, dials, left>>

(* The connection breaks, or a write fails, while send() is awaited: the   *)
(* promise of the response is rejected and nobody awaits it yet.           *)
BreaksWhileSending ==
    /\ request = "sending" \/ ping = "sending"
    /\ gateway' = "down"
    /\ UNCHANGED <<state, socket, request, ping, caller, shouldRun, attempts, missed, timer,
                   beating, adapter, stopped, dials, left>>

(* errcode 0.  start() goes on to register the message callback before any *)
(* other event.                                                            *)
Subscribed ==
    /\ request = "waiting"
    /\ request' = "none" /\ caller' = "none"
    /\ state' = "heartbeating" /\ beating' = TRUE
    /\ attempts' = 0 /\ missed' = 0 /\ dials' = 0 /\ left' = 0
    /\ adapter' = IF caller = "start" THEN "started" ELSE adapter
    /\ UNCHANGED <<socket, ping, shouldRun, timer, gateway, stopped>>

(* Another errcode, or no answer within subscribeTimeoutMs.  The WebSocket *)
(* stays open.                                                             *)
SubscribeRefused ==
    /\ request = "waiting"
    /\ HandleDisconnect(1) /\ left' = left + 1

(* 'close' or 'error' while subscribing: the listener disconnects, and so  *)
(* does the catch clause of subscribe(), whose request was just rejected.  *)
LostWhileSubscribing ==
    /\ request = "waiting"
    /\ HandleDisconnect(2) /\ UNCHANGED left

Lost ==
    /\ state = "heartbeating" /\ ping # "sending"
    /\ HandleDisconnect(1) /\ UNCHANGED left

-----------------------------------------------------------------------------
(* sendHeartbeat.  A ping times out before the next one is due.  The limit *)
(* leaves the WebSocket open, as handleDisconnect does.                    *)
CanBeat == beating /\ socket = "open" /\ ping = "none"

Beat ==
    /\ CanBeat
    /\ missed + 1 < HeartbeatTimeoutCount
    /\ missed' = missed + 1
    /\ ping' = "sending"
    /\ UNCHANGED <<state, socket, request, caller, shouldRun, attempts, timer, beating,
                   adapter, gateway, stopped, dials, left>>

HeartbeatTimeout ==
    /\ CanBeat
    /\ missed + 1 >= HeartbeatTimeoutCount
    /\ missed' = missed + 1
    /\ socket' = "none" /\ beating' = FALSE /\ left' = left + 1
    /\ ScheduleReconnect(1)
    /\ UNCHANGED <<request, ping, caller, shouldRun, adapter, gateway, stopped, dials>>

PingAnswered ==
    /\ ping = "waiting"
    /\ ping' = "none" /\ missed' = 0
    /\ UNCHANGED <<state, socket, request, caller, shouldRun, attempts, timer, beating,
                   adapter, gateway, stopped, dials, left>>

(* No answer in time, or one with another errcode.                         *)
PingFails ==
    /\ ping = "waiting"
    /\ ping' = "none"
    /\ UNCHANGED <<state, socket, request, caller, shouldRun, attempts, missed, timer,
                   beating, adapter, gateway, stopped, dials, left>>

(* A frame with cmd "pong": an answer without errcode, or to a ping that   *)
(* has timed out.                                                          *)
LatePong ==
    /\ socket = "open"
    /\ missed' = 0
    /\ UNCHANGED <<state, socket, request, ping, caller, shouldRun, attempts, timer, beating,
                   adapter, gateway, stopped, dials, left>>

TimerFires ==
    /\ timer
    /\ timer' = FALSE
    /\ dials' = dials + 1
    /\ Dial("timer")
    /\ UNCHANGED <<request, ping, attempts, missed, beating, adapter, gateway, stopped, left>>

-----------------------------------------------------------------------------
(* disconnect(), from stop() of the adapter.  A subscription it interrupts *)
(* rejects the connect() that awaits it, and the catch clause of the timer *)
(* schedules without looking at shouldRun.  (Where it finds a frame being  *)
(* sent it ends like BreaksWhileSending.)  An open socket is closed, one   *)
(* that is being opened is let go of.                                      *)
Stop ==
    /\ adapter # "idle" /\ ~ stopped
    /\ request # "sending" /\ ping # "sending"
    /\ stopped' = TRUE /\ shouldRun' = FALSE
    /\ socket' = "none" /\ request' = "none" /\ ping' = "none" /\ beating' = FALSE
    /\ caller' = "none"
    /\ IF request = "waiting" /\ caller = "timer"
       THEN ScheduleReconnect(1)
       ELSE state' = "disconnected" /\ timer' = FALSE /\ UNCHANGED attempts
    /\ adapter' = IF request = "waiting" /\ caller = "start" THEN "failed" ELSE adapter
    /\ left' = IF socket = "opening" THEN left + 1 ELSE left
    /\ UNCHANGED <<missed, gateway, dials>>

Next ==
    /\ gateway = "up"
    /\ \/ Start \/ Opened \/ HandshakeFails \/ SendDone \/ BreaksWhileSending
       \/ Subscribed \/ SubscribeRefused \/ LostWhileSubscribing \/ Lost
       \/ Beat \/ HeartbeatTimeout \/ PingAnswered \/ PingFails \/ LatePong
       \/ TimerFires
       \/ Stop

Spec == Init /\ [][Next]_vars

(* Handshake, subscription and ping all end by a timeout of the client,    *)
(* and the event loop runs an expired timer.                               *)
Fairness ==
    /\ WF_vars(gateway = "up" /\ (Opened \/ HandshakeFails))
    /\ WF_vars(gateway = "up" /\ (SendDone \/ BreaksWhileSending))
    /\ WF_vars(gateway = "up" /\ (Subscribed \/ SubscribeRefused \/ LostWhileSubscribing))
    /\ WF_vars(gateway = "up" /\ TimerFires)

FairSpec == Spec /\ Fairness

-----------------------------------------------------------------------------
(* The client is driven by one socket: while the reconnect timer is armed  *)
(* it listens to none, waits for no answer and sends no heartbeat, although *)
(* several catch clauses and listeners schedule for the same failure.  (It *)
(* says nothing of the WebSockets the client has let go of, which may      *)
(* still be open beside the next one: handleDisconnect does not close.)    *)
OneListenedTo ==
    /\ timer => socket = "none" /\ request = "none" /\ ping = "none" /\ ~ beating
    /\ beating <=> state = "heartbeating"
    /\ beating => socket = "open" /\ request = "none"

(* However often the service refuses the subscription, does not answer or  *)
(* misses heartbeats, the client leaves no more WebSockets open between two *)
(* subscriptions than it has attempts, and one: each is paid for.          *)
LeftBounded == left <= MaxReconnectAttempts + 1

GaveUp == state = "disconnected" /\ attempts = MaxReconnectAttempts

(* A client that should run never sits still: it has a socket, or a timer  *)
(* that will open one, or has used up its attempts.                        *)
NeverIdle == shouldRun => socket # "none" \/ timer \/ GaveUp

(* The budget is never exceeded, whatever connections fail and how.        *)
WithinBudget == dials <= MaxReconnectAttempts

(* While nobody stops it, the client gets its subscription back or gives   *)
(* up; no failure leaves it half-way.                                      *)
Recovers ==
    shouldRun ~> (state = "heartbeating" \/ GaveUp \/ stopped \/ gateway = "down")

-----------------------------------------------------------------------------
(* "最大重连次数：10 次": the client gives up only once it has tried to     *)
(* reconnect that often.                                                   *)
FullBudget == shouldRun /\ GaveUp /\ socket = "none" => dials = MaxReconnectAttempts
=============================================================================

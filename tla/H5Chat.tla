------------------------------- MODULE H5Chat -------------------------------
(***************************************************************************)
(* The chat page of the browser (frontend useChat.ts, chatStore.ts) and    *)
(* the Gateway's WebSocket endpoint it talks to (server.ts, H5Adapter.ts). *)
(* The page runs the useChat hook twice: in ChatPanel, and in the          *)
(* ApprovalCard of an approval request, each with its own socket, timers   *)
(* and reference to the bubble being streamed; both share the chat store.  *)
(* A change of the store, the rendering and the effects it causes are one  *)
(* step, as React flushes them before the next event.                      *)
(***************************************************************************)
EXTENDS Naturals, Sequences

CONSTANTS MaxChats,       \* bound: sessions the backend hands out, in order
          MaxSockets,     \* bound: sockets opened in a behaviour
          MaxQuestions    \* bound: messages sent in a behaviour

ASSUME H5Assumption == MaxChats \in Nat /\ MaxSockets \in Nat /\ MaxQuestions \in Nat

Chats == 1..MaxChats
NoChat == 0

MAX_RECONNECT_ATTEMPTS == 5
Hooks == {"panel", "card"}

VARIABLES
    chat,        \* sessionId of the store, and what the hooks rendered with
    creating,    \* the session a pending createSession waits for, or NoChat
    card,        \* an approval message is in the list: its card is mounted
    hook,        \* the refs of each hook
    bubbles,     \* the assistant messages, in the order they were asked for
    generating,  \* isGenerating of the store
    sockets,     \* every WebSocket so far, as its two ends see it
    inbox,       \* inbox[n]: frames under way to the browser on socket n
    wsConnections, \* H5Adapter: the socket registered for a session, 0 if none
    turns        \* the events the backend will still emit for a session

h5vars == <<chat, creating, card, hook, bubbles, generating, sockets, inbox, wsConnections, turns>>

IdleHook == [ws |-> 0, intentional |-> FALSE, attempts |-> 0, timer |-> NoChat,
             watch |-> FALSE, streaming |-> 0]

H5Init ==
    /\ chat = NoChat /\ creating = NoChat /\ card = FALSE /\ generating = FALSE
    /\ hook = [h \in Hooks |-> IdleHook]
    /\ bubbles = <<>> /\ sockets = <<>> /\ inbox = <<>>
    /\ wsConnections = [c \in Chats |-> 0]
    /\ turns = [c \in Chats |-> <<>>]

-----------------------------------------------------------------------------
(* The page: its hooks and sockets, as a value the helpers transform.      *)
Page == [hook |-> hook, sockets |-> sockets, inbox |-> inbox]

SetPage(p) == hook' = p.hook /\ sockets' = p.sockets /\ inbox' = p.inbox

\* Mutant: the handlers of the abandoned socket stay attached.
KeepsHandlers(p, h) ==
    [p EXCEPT !.hook[h].intentional = TRUE, !.hook[h].timer = NoChat,
              !.hook[h].attempts = 0, !.hook[h].ws = 0]

\* Mutant: the pending reconnection is forgotten rather than cancelled.
KeepsTimer(p, h) ==
    LET n == p.hook[h].ws IN
    [p EXCEPT !.hook[h].intentional = TRUE, !.hook[h].attempts = 0, !.hook[h].ws = 0,
              !.sockets = IF n = 0 THEN @ ELSE [@ EXCEPT ![n].owner = "none", ![n].browser = "closed"],
              !.inbox = IF n = 0 THEN @ ELSE [@ EXCEPT ![n] = <<>>]]

\* closeSocketIntentionally: timers cancelled, handlers removed, socket closed.
CloseIntentionally(p, h) ==
    LET n == p.hook[h].ws IN
    [hook |-> [p.hook EXCEPT ![h].intentional = TRUE, ![h].timer = NoChat,
                             ![h].attempts = 0, ![h].ws = 0],
     sockets |-> IF n = 0 THEN p.sockets
                 ELSE [p.sockets EXCEPT ![n].owner = "none", ![n].browser = "closed"],
     inbox |-> IF n = 0 THEN p.inbox ELSE [p.inbox EXCEPT ![n] = <<>>]]

\* connect: the old socket goes, with the count of attempts, and a new one is opened.
Connect(p, h, c) ==
    LET q == CloseIntentionally(p, h) IN
    [hook |-> [q.hook EXCEPT ![h].intentional = FALSE, ![h].ws = Len(q.sockets) + 1],
     sockets |-> Append(q.sockets, [chat |-> c, owner |-> h, browser |-> "connecting", server |-> "none"]),
     inbox |-> Append(q.inbox, <<>>)]

\* The clean-up of the effect on sessionId, which also runs when a hook is unmounted.
Cleanup(p, h) == [CloseIntentionally(p, h) EXCEPT !.hook[h].watch = FALSE]

\* The effect itself.
Effect(p, h, c) ==
    IF c = NoChat THEN CloseIntentionally(Cleanup(p, h), h) ELSE Connect(Cleanup(p, h), h, c)

\* A session change after clearMessages: the card is gone, the panel follows the session.
SwitchTo(c) ==
    LET p == IF card THEN [Cleanup(Page, "card") EXCEPT !.hook["card"] = IdleHook] ELSE Page
        q == Effect(p, "panel", c)
    IN  /\ Len(q.sockets) <= MaxSockets
        /\ SetPage(q)
        /\ chat' = c /\ card' = FALSE /\ generating' = FALSE
        /\ bubbles' = [i \in 1..Len(bubbles) |-> [bubbles[i] EXCEPT !.state = "cleared"]]

-----------------------------------------------------------------------------
(* What the user does.                                                     *)

\* createSession up to its request.
CreateSession(c) ==
    /\ creating = NoChat
    /\ \A d \in Chats : d < c <=> \E n \in 1..Len(sockets) : sockets[n].chat = d
    /\ creating' = c
    /\ hook' = [hook EXCEPT !["panel"].streaming = 0, !["panel"].watch = FALSE]
    /\ generating' = FALSE
    /\ UNCHANGED <<chat, card, bubbles, sockets, inbox, wsConnections, turns>>

\* Its answer, or its failure, after which only an error is shown.
SessionCreated ==
    /\ creating # NoChat /\ creating' = NoChat
    /\ \/ SwitchTo(creating)
       \/ UNCHANGED <<chat, card, hook, bubbles, generating, sockets, inbox>>
    /\ UNCHANGED <<wsConnections, turns>>

\* closeSession; the Gateway ignores the session.close frame.
CloseSession ==
    /\ chat # NoChat
    /\ SwitchTo(NoChat)
    /\ UNCHANGED <<creating, wsConnections, turns>>

\* sendMessage by the panel, whose button waits for the generation to end.
\* The Gateway routes the frame if its end of the socket is open.
SendMessage ==
    LET q == Len(bubbles) + 1
        n == hook["panel"].ws
        sent == n # 0 /\ sockets[n].browser = "open"
        routed == sent /\ sockets[n].server = "open"
    IN  /\ ~generating /\ q <= MaxQuestions
        /\ bubbles' = Append(bubbles, [chat |-> chat, shows |-> {},
                                       state |-> IF sent THEN "streaming" ELSE "error"])
        /\ generating' = sent
        /\ hook' = [hook EXCEPT !["panel"].streaming = IF sent THEN q ELSE 0,
                                !["panel"].watch = sent]
        /\ \/ ~routed /\ UNCHANGED turns
           \/ /\ routed
              /\ \E tail \in {<<"delta", "done">>, <<"approval", "error">>, <<"error", "done">>} :
                    turns' = [turns EXCEPT ![chat] =
                                 @ \o [i \in 1..2 |-> [asked |-> q, kind |-> tail[i]]]]
        /\ UNCHANGED <<chat, creating, card, sockets, inbox, wsConnections>>

-----------------------------------------------------------------------------
(* What the page is told.                                                  *)

\* ws.onopen.
SocketOpened(n) ==
    /\ sockets[n].browser = "connecting" /\ sockets[n].server # "none"
    /\ sockets' = [sockets EXCEPT ![n].browser = "open"]
    /\ hook' = [hook EXCEPT ![sockets[n].owner].attempts = 0]
    /\ UNCHANGED <<chat, creating, card, bubbles, generating, inbox, wsConnections, turns>>

\* ws.onclose: the connection is lost or refused; a reconnection is scheduled.
Closed(n) ==
    LET h == sockets[n].owner
        again == ~hook[h].intentional /\ chat = sockets[n].chat
        retry == again /\ hook[h].attempts < MAX_RECONNECT_ATTEMPTS
    IN  /\ sockets[n].owner # "none" /\ sockets[n].browser # "closed"
        /\ sockets' = [sockets EXCEPT ![n].owner = "none", ![n].browser = "closed"]
        /\ inbox' = [inbox EXCEPT ![n] = <<>>]
        /\ hook' = [hook EXCEPT ![h] =
               [hook[h] EXCEPT !.ws = IF @ = n THEN 0 ELSE @,
                               !.watch = FALSE,
                               !.intentional = again /\ @,
                               !.attempts = IF retry THEN @ + 1 ELSE @,
                               !.timer = IF retry THEN chat ELSE @]]
        /\ UNCHANGED <<chat, creating, card, bubbles, generating, wsConnections, turns>>

\* The reconnection timer.
Reconnect(h) ==
    LET p == [Page EXCEPT !.hook[h].timer = NoChat]
        q == IF chat = hook[h].timer THEN Connect(p, h, chat) ELSE p
    IN  /\ hook[h].timer # NoChat
        /\ Len(q.sockets) <= MaxSockets
        /\ SetPage(q)
        /\ UNCHANGED <<chat, creating, card, bubbles, generating, wsConnections, turns>>

\* The watchdog of the generation.
Watchdog(h) ==
    LET q == hook[h].streaming IN
    /\ hook[h].watch
    /\ generating' = FALSE
    /\ bubbles' = IF generating /\ q # 0 THEN [bubbles EXCEPT ![q].state = IF @ = "cleared" THEN @ ELSE "error"]
                  ELSE bubbles
    /\ hook' = [hook EXCEPT ![h].watch = FALSE,
                            ![h].streaming = IF generating THEN 0 ELSE @]
    /\ UNCHANGED <<chat, creating, card, sockets, inbox, wsConnections, turns>>

\* Mutant: the end of an answer leaves the reference to its bubble.
StreamsOn(p, h, e) == [p.hook EXCEPT ![h].watch = IF e.kind \in {"done", "error"} THEN FALSE ELSE @ \/ generating]

\* The refs of the hook after an event: every event of a generation re-arms the
\* watchdog, the last one disarms it and forgets the bubble.
AfterEvent(p, h, e) ==
    [p.hook EXCEPT
        ![h].watch = IF e.kind \in {"done", "error"} THEN FALSE ELSE @ \/ generating,
        ![h].streaming = IF e.kind \in {"done", "error"} THEN 0 ELSE @]

\* handleRawEvent on what the socket's own hook knows.
HandleEvent(n) ==
    LET e == Head(inbox[n])
        h == sockets[n].owner
        q == hook[h].streaming
        p == [Page EXCEPT !.inbox[n] = Tail(inbox[n])]
        r == [p EXCEPT !.hook = AfterEvent(p, h, e)]
        known == q # 0 /\ bubbles[q].state # "cleared"
        mounts == e.kind = "approval" /\ ~card
    IN  /\ sockets[n].browser = "open" /\ h # "none" /\ inbox[n] # <<>>
        /\ bubbles' = CASE known /\ e.kind = "delta" ->
                             [bubbles EXCEPT ![q].state = "streaming", ![q].shows = @ \union {e.asked}]
                        [] known /\ e.kind = "error" -> [bubbles EXCEPT ![q].state = "error"]
                        [] known /\ e.kind = "done" -> [bubbles EXCEPT ![q].state = "delivered"]
                        [] OTHER -> bubbles
        /\ generating' = (generating /\ e.kind \notin {"done", "error"})
        /\ card' = (card \/ mounts)
        /\ LET m == IF mounts /\ chat # NoChat THEN Connect(r, "card", chat) ELSE r
           IN  Len(m.sockets) <= MaxSockets /\ SetPage(m)
        /\ UNCHANGED <<chat, creating, wsConnections, turns>>

-----------------------------------------------------------------------------
(* The Gateway.                                                            *)

\* The handler of /ws/chat: the socket replaces what was registered.
Accept(n) ==
    /\ sockets[n].server = "none" /\ sockets[n].browser = "connecting"
    /\ sockets' = [sockets EXCEPT ![n].server = "open"]
    /\ wsConnections' = [wsConnections EXCEPT ![sockets[n].chat] = n]
    /\ UNCHANGED <<chat, creating, card, hook, bubbles, generating, inbox, turns>>

\* unregisterWsConnection knows the session only.
UnregisterWs(n, c) == [wsConnections EXCEPT ![c] = 0]

\* The 'close' of the Gateway's end, whichever end was first.
ServerClosed(n) ==
    /\ sockets[n].server = "open"
    /\ sockets' = [sockets EXCEPT ![n].server = "closed"]
    /\ wsConnections' = UnregisterWs(n, sockets[n].chat)
    /\ UNCHANGED <<chat, creating, card, hook, bubbles, generating, inbox, turns>>

\* closeAllConnections of a Gateway that stops; its successor starts empty.
GatewayRestart ==
    /\ \E n \in 1..Len(sockets) : sockets[n].server = "open"
    /\ sockets' = [n \in 1..Len(sockets) |->
                      [sockets[n] EXCEPT !.server = IF @ = "open" THEN "closed" ELSE @]]
    /\ wsConnections' = [c \in Chats |-> 0]
    /\ UNCHANGED <<chat, creating, card, hook, bubbles, generating, inbox, turns>>

\* The consumer of the event stream: H5Adapter.send to the registered socket.
Emit(c) ==
    LET n == wsConnections[c] IN
    /\ turns[c] # <<>>
    /\ turns' = [turns EXCEPT ![c] = Tail(@)]
    /\ inbox' = IF n # 0 /\ sockets[n].server = "open" /\ sockets[n].browser # "closed"
                THEN [inbox EXCEPT ![n] = Append(@, Head(turns[c]))] ELSE inbox
    /\ UNCHANGED <<chat, creating, card, hook, bubbles, generating, sockets, wsConnections>>

H5Next ==
    \/ \E c \in Chats : CreateSession(c) \/ Emit(c)
    \/ SessionCreated \/ CloseSession \/ SendMessage
    \/ \E n \in 1..Len(sockets) : SocketOpened(n) \/ Closed(n) \/ HandleEvent(n) \/ Accept(n) \/ ServerClosed(n)
    \/ \E h \in Hooks : Reconnect(h) \/ Watchdog(h)
    \/ GatewayRestart

H5Spec == H5Init /\ [][H5Next]_h5vars

-----------------------------------------------------------------------------
Bubble == [chat : Chats \union {NoChat}, shows : SUBSET Nat,
           state : {"streaming", "delivered", "error", "cleared"}]
Socket == [chat : Chats, owner : Hooks \union {"none"},
           browser : {"connecting", "open", "closed"}, server : {"none", "open", "closed"}]
HookRefs == [ws : Nat, intentional : BOOLEAN, attempts : 0..MAX_RECONNECT_ATTEMPTS,
             timer : Chats \union {NoChat}, watch : BOOLEAN, streaming : Nat]
ChatFrame == [asked : Nat, kind : {"delta", "approval", "done", "error"}]

H5TypeOK ==
    /\ chat \in Chats \union {NoChat} /\ creating \in Chats \union {NoChat}
    /\ card \in BOOLEAN /\ generating \in BOOLEAN
    /\ hook \in [Hooks -> HookRefs]
    /\ bubbles \in Seq(Bubble) /\ sockets \in Seq(Socket)
    /\ inbox \in Seq(Seq(ChatFrame)) /\ Len(inbox) = Len(sockets)
    /\ wsConnections \in [Chats -> Nat]
    /\ turns \in [Chats -> Seq(ChatFrame)]

\* A socket the page still listens to is the one its hook refers to, it belongs to
\* the session on display, and no reconnection is pending beside it: whatever the
\* order of switches, losses and timers, answers of a session that was left are
\* heard by nobody (closeSocketIntentionally, connect).
OneSocketPerHook ==
    /\ \A n \in 1..Len(sockets) : sockets[n].owner # "none" =>
           hook[sockets[n].owner].ws = n /\ sockets[n].chat = chat
    /\ \A h \in Hooks : hook[h].timer # NoChat => hook[h].ws = 0

\* A bubble shows answers to questions of its own session only (the bubble
\* reference outlives the list it points into).
ShowsOwnSession ==
    \A i \in 1..Len(bubbles) : \A q \in bubbles[i].shows : bubbles[q].chat = bubbles[i].chat

\* A bubble that has been delivered or has failed is not streamed into again.
FinalStays ==
    [][\A i \in 1..Len(bubbles) : bubbles[i].state \in {"delivered", "error"} =>
          bubbles'[i].state \in {bubbles[i].state, "cleared"} /\ bubbles'[i].shows = bubbles[i].shows]_h5vars

\* "Abort generation if no terminal event within this window": while the page
\* generates, a watchdog of it is armed (useChat.ts:42).
GenerationWatched == generating => \E h \in Hooks : hook[h].watch

=============================================================================

# TLA+ models of the AI platform (WorkBuddy)

The platform answers chat messages of employees with LLM agents. It has two
server processes and a browser client:

- the **Gateway** (`src/ai-platform/gateway`, TypeScript): WebSocket and WeCom
  channels, authentication, routing to Agent Core;
- **Agent Core** (`src/ai-platform/backend`, Python): agents, sessions, the LLM
  gateway, approvals, push, memory, skills, configuration;
- the **browser** (`src/ai-platform/frontend`, React).

The servers talk through Redis Streams. A channel adapter of the Gateway hands
a message to `MessageRouter.route`, which writes it to a stream with XADD. The
worker processes of Agent Core read the streams as one consumer group, run a
turn of an agent for every message, and publish the events of the turn (`text`,
`error`, `done`, ...) to `stream:agent:events`. The Gateway consumes that stream
and forwards each event, found by its session, to the channel it came from.

Paths below are relative to `src/ai-platform/`. A source reference is to a file
and a line of this repository.

## 1. Inventory

State, operations, interactions, what is hard, and what makes each part correct.

| Component | State it keeps | Operations | What is hard | Correct when |
|---|---|---|---|---|
| **Inbound worker** `backend/src/queue/` | consumer group and its cursor (Redis), semaphore, session locks, tasks in flight | start, consume loop, spawn, `_process_inbound`, ack, stop | task interleavings at every await, failure at any await, several processes in one group, stop with messages read and not acknowledged | one turn at a time in a session, permits balanced, every acknowledged message was answered, every readable message is settled |
| **Gateway streams** `gateway/src/queue`, `gateway/src/router/MessageRouter.ts` | session-to-agent bindings (Redis), consumer position | publish, consume events, look up binding | an event whose handling fails is not read again | each event reaches the channel of its session once, in order |
| **WeCom bot connection** `gateway/src/adapters/wecom/WecomBotClient.ts` | connection state, socket, pending requests, heartbeat interval, reconnect timer and budget | connect, subscribe, heartbeat, reconnect, disconnect | one failure seen by several listeners and catch clauses, timers against late answers, rejected promises nobody awaits | one socket listened to, few left open behind it, always progressing or given up, budget kept |
| **WeCom bot replies** `gateway/src/adapters/wecom/WecomBotAdapter.ts` | `pendingBySession`: one open stream message per chat | handle a message, text delta, done, error | records replaced or deleted across an await, answers of a turn that outlives its record, restart | a stream message shows the answer to its own question and is finished once |
| **Agent instances** `backend/src/agent/manager.py`, `lifecycle.py` | table of instances, lifecycle state, `active_sessions`, runtime | create, delete, start, pause, resume, stop, switch runtime, `ensure_agent_ready`, turn | check-then-act across the wiring of MCP connections, deletion under a turn | the table holds usable instances, counts match turns, no order of requests makes a message fail |
| **Agent runtime** `backend/src/runtime/` | MCP manager shared by the turns of an agent | run a turn, replace the manager, shut down | turns that meet in the replacement of the manager, shutdown under a turn | a running turn keeps its tools, every run that gets as far as its engine says `done` once |
| **Session store** `backend/src/agent/session.py` | a session with its messages as one JSON document, and its agent binding (two Redis keys with a TTL) | create, add message, close, expire | read-modify-write of a session by concurrent writers | no lost message, a closed session stays closed |
| **Agent router** `backend/src/router/` | candidates, binding of a session (Redis) | chain of affinity, keyword, semantic and fallback strategies, bind | candidates and bindings change between the awaits of a request | only enabled agents are chosen, a bound session stays with its agent |
| **Configuration** `backend/src/config_manager/` | directories of agents, cache, mtimes of the watcher, rows (dual mode) | initialize, poll, handle a change, save, delete, look up | saves, edits, polls and handlers that wait for one another | cache and router have what is on disk when nothing is under way, as far as times of files can show it |
| **H5 chat** `gateway/src/server.ts`, `adapters/h5`, `frontend/src/hooks/useChat.ts` | sockets, reconnect timer, watchdog and bubble reference of each hook; the store; sockets by session | open, close, register, ask, deliver, time out, switch session | two hooks on one store, late events, references into a list that was replaced | a bubble shows its own session and does not change once final |
| **WeCom H5 channel** `adapters/wecom/WecomH5Adapter.ts` | connections, session owner | as H5 chat | as H5 chat | as H5 chat |
| **Approvals** `backend/src/hitl/` | records in the memory of one process; stores of the browser tabs | create, respond, time out, list, show | responses of two tabs, polls that answer late, restart of the process | decided once, no list of a tab shows a decision nobody took |
| **LLM gateway** `backend/src/llm/` | active provider, failure counts, health of keys, quota counters (Redis) | chat, chat_stream, fail over, check and charge quota, resets | awaits between checks and charges of concurrent calls; provider switched under a call | overdrawn by no more than the calls under way cost, both providers tried before failing |
| **Push** `backend/src/push/` | table of schedules, jobs of APScheduler, token cache, all in memory | create, enable, disable, delete, synchronise with a configuration, fire, send | two tables changed one after the other with a cron expression that is refused between | jobs for exactly the enabled schedules |
| **Memory** `backend/src/memory/` | rows in PostgreSQL, points in Qdrant; cache of static files | write, evict, expire, promote, delete, search; load files | two stores without a transaction, each await a point of interleaving, Qdrant fails | a session is told its own memories; what is stored is found, and missed once at most |
| **Skills and MCP** `backend/src/skills`, `backend/src/mcp` | registered skills, their metadata (Redis) and points (Qdrant); clients of MCP servers | register, unregister, load, reindex; connect, use, disconnect, shut down | three stores changed one after the other, two of them shared by four processes; connections opened and closed across awaits | what is shared agrees with the last change; no connection is forgotten unless replaced, cancelled or failing to close |
| **Identity** `backend/src/identity`, `frontend/src/utils/api.ts`, `gateway/src/middleware/auth.ts` | tokens in localStorage, auth store, refresh under way | sign in, request, refresh, retry, log out, reload | requests refused at once share one refresh while users come and go | a request is sent at most twice, and none waits for a refresh that is over |
| **Business adapters, pages, database models** | none | HTTP calls, rendering, tables | - | - |

`PROJECT.json` gives the status of each part; its `hazards` list what is hard to
test, each at its line, with the properties that cover it.

## 2. Modules

| Module | What it is |
|---|---|
| `InboundWorker` | the inbound worker and the Redis stream it reads |
| `SessionTurns` | abstract specification: what the worker promises about a conversation |
| `InboundTurns` | one worker process implements `SessionTurns` (refinement mapping) |
| `WecomBotClient` | the bot connection |
| `WecomBotAdapter` | the bot replies and the consumer of agent events |
| `AgentManager` | the agents of one process |
| `SessionStore` | the documents and bindings of sessions in Redis |
| `H5Chat` | the chat page and the Gateway's WebSocket endpoint |
| `Approvals` | approvals in the Agent Core processes and in the tabs |
| `LLMGateway` | calls, failover and quota |
| `PushScheduler` | schedules, jobs, runs, token of WeCom |
| `MemoryStore`, `MemoryInjector` | dynamic memories in their two stores; what a run is told |
| `AgentRouter` | the chain of strategies |
| `ConfigSync` | configurations: files, cache, watcher, router, rows |
| `SkillRegistry`, `McpManager` | skills in several processes and the stores these share; connections to MCP servers |
| `AgentRuntime` | the MCP manager the turns of an agent share |
| `BrowserAuth` | the tokens of a browser |
| `InboundWorkerProofs`, `InboundTurnsProofs`, `WecomBotAdapterProofs`, `AgentManagerProofs`, `SessionStoreProofs` | theorems about the module of that name |
| `GatewayProofs` | theorems about the bot connection, approvals, the chat page and sign-in |
| `AgentCoreProofs` | theorems about the LLM gateway, the router, configurations, skills and MCP |
| `ServicesProofs` | theorems about push, memories and the runtime |
| `MC*` | values of the constants for TLC; `MCPlatform` composes twelve modules |

Properties stand at the end of the module they are about. A definition whose
comment begins with "Mutant:" is no part of a specification: it is the variant
of the definition that follows it, or that it is named after, with a plausible
bug, and shows that the properties notice it. Of the properties that no run
names, the type invariants are the base of the proofs, `WellFormedChat` and
`WithinBudget` are proved (section 5), and the others are promises the code does
not keep (section 4).

Both asyncio and Node.js run one callback at a time, and so does a browser page.
In every module, what lies between two awaits is one action, and every await
that can really wait separates two.

### InboundWorker

| Code | Model |
|---|---|
| stream key, consumer group, pending entries | `entry`, `length`, `cursor`, `grouped`, `reader` |
| events published for a message, sessions stored | `out`, `transcript` |
| `_consume_loop` | `loop`: `gate` (back-pressure), `reading`, `spawning` |
| `_semaphore`, `_session_locks` | `permits`, `permitQ`, `lockOwner`, `lockQ`; both FIFO, as in asyncio |
| a task of `_spawn_handler` | `stage[m]`: `permit`, `lock`, then the sections of `_process_inbound` |
| `start` with XGROUP CREATE `$` | `Start`: a new group skips what the stream holds |
| XREADGROUP `>` COUNT | `Read`: the next `ReadCount` entries of every stream |
| the reply of XREADGROUP lost, `except` of the loop | `LoseReply`: delivered, and seen by nobody |
| an entry of a reply that does not parse | `BreakReply`: what follows it in the reply is seen by nobody |
| `_publish_error`, `asyncio.timeout` | `Fail`, `FinishFailure` |
| the outermost `except` | `Abandon`: not acknowledged, so never read again |
| `stop`, a crash | `Halt` |

Messages are model values; the text of an answer is one `text` event. Choosing
the agent is left to `AgentManager`; its outcomes (ready, failed) are here.
`refresh_streams` is called by nothing and is not modelled.

`SessionTurns` states the promise: a session has at most one open turn; a turn
asks at most once and is answered at most once, right after its question; no
message has a second turn. The refinement maps the open turn of a session to
the owner of its lock. It is stated for one process: with several, nothing
serialises them (finding 1).

### WecomBotClient

An action is one event of the event loop (`open`, `close`, an answer, a timer)
with the promise reactions it triggers, all of which run before the next event.
This is where the code is subtle: one lost connection runs `handleDisconnect`
from a listener, may reject `connect()`, whose caller is the timer's catch
clause, and may reject the subscription, whose catch clause disconnects too. The
parameter of `HandleDisconnect` counts how often one event runs it. `caller`
remembers whose `connect()` is outstanding, `request` and `ping` whether a frame
is being written (its response promise has no handler yet) or waited for.
`dials` is a history variable, the reconnections since the last subscription.

`socket` is `this.ws`, the socket the client listens to. `handleDisconnect` takes its
listeners off and forgets it, but closes nothing (only `disconnect` does): after a refused
subscription or a heartbeat timeout the old WebSocket stays open beside the next one.
`left` counts these sockets since the last subscription; none of their events is heard, so
nothing else depends on them. `LatePong` is an answer to a ping that has timed out.

### WecomBotAdapter

`pending[s]` is `pendingBySession`, `buffer`, `shown` and `finishes` describe the
stream message ("bubble") of each user message, `events` is
`stream:agent:events`. Agent Core is reduced to what `InboundWorker` shows of it:
it answers the messages of a session in order with one of the event sequences of
`Answers` (the values `out` takes there). The Gateway's consumer handles one
event at a time and waits for the finish frame (`closing`). The throttle of
400 ms is a choice: a delta is shown or not. `waited[s]` is a history variable,
true as long as users of the chat wrote only when nothing was under way.

### AgentManager

An instance is the n-th object made for an agent id; `table[a]` says which one
`_instances` holds. A request is a task with a place `at` it waits at: the wiring
of MCP connections (`creating`, `provisioning`, `switching`), a shutdown
(`deleting`), storing the message (`asked`), the turn. All other awaits of these
functions do not wait in the default mode, `CONFIG_MODE = file_system`, so the
code between them is one action. Creation, shutdown and turns may fail.
`OnlyDrainingRefuses` relies on there being no wait between the readiness check
and the first statement of `process_message`, which the code has.

### SessionStore

`InboundWorker` sees `add_message` as one append. `SessionStore` is the same turn
seen from Redis: every `get`, `setex` and `delete` is a step, and the places of a
task are the calls it waits for. `record` and `binding` are the two keys of one
session. A task holds up to two copies of the document: `session[t]`, the object
the turn keeps from its beginning to its end, and `buffer[t]`, the one inside
`add_message`. `Settle` is the replacement of an agent that does not run, after
which the whole old object is saved (`Correct`). `Publish` is the Gateway, which
reads the binding; nothing in the repository sets `agent:{id}:enabled`, so its
branch that clears a binding is unreachable and left out. Which agents run
is an arbitrary choice, as `AgentManager` is about that. Worker turns of one
process exclude each other (`Unlocked`); requests of the API exclude nobody.
The document does not expire inside a turn, as its first write has just renewed
the 24 hours. History variables record what was stored, whether tasks
overlapped (`overlap`), and whether a close or an expiry fell exactly between
the read and the write of one call (`straddled`).

### H5Chat

The page runs `useChat` twice: in `ChatPanel`, and in the card of an approval
request. Each `hook` has its refs (socket, reconnect timer, watchdog, bubble being
streamed); both change one store (`chat`, `bubbles`, `generating`). `sockets[n]` is
a WebSocket as its two ends see it and `inbox[n]` the frames under way.
`Effect` and `Cleanup` are the React effect on `sessionId`; `CloseIntentionally` and
`Connect` have the names of the functions. On the Gateway `Accept`, `ServerClosed`
and `Emit` are the WebSocket handler and `H5Adapter.send`; `UnregisterWs` knows only
the session. Agent Core answers a question with a delta and `done`, an approval
request and `error`, or `error` and `done`. A page reload is a new behaviour.

### Approvals

`approvals` has every record with the process that holds it; a restart of that
process (`WorkerRestart`) forgets its records. REST requests reach any process.
`shown` is the approval store of a tab, `fetched` the list of a poll that is on its way.
`cards` are the cards in its chat: pending while the approval is among
`pendingApprovals`, and finished from the click on, whatever becomes of the request.
Nothing in the repository calls `create_approval`; `CreateApproval` lets an agent do it.

### LLMGateway

A call is a task whose `pc` is the await it is at: the two counters of `check_quota`, the
provider (`asked`), the recording, the two counters of `record_usage`. `accounts` is what it
names: a user and a department, a user, or nobody; a call without a user passes the check at
once and is not charged. `left` is the list `get_failover_providers` gave it, `tried` is
history. `failures` counts up to the threshold, beyond which it does not matter. `healthy`
is what remains of the key of each provider. `EndCall` is cancellation or a loss of Redis at
any await. A stream adds the usage that every provider reports (`UsageChunk`); `CostPerCall`
is therefore twice `MaxCost`.

### PushScheduler

`schedules` is `_schedules`, `jobs` are the ids APScheduler knows. `Table` is the pair
as a value, because the methods call one another: `update_schedule_status` adds an
existing schedule again, which removes it first. A cron expression is valid, does not
have five fields, or is refused by `CronTrigger`. `scheduler` says whether `start` has run,
or failed, which the process survives: a scheduler that does not run returns a job without
`next_run_time`, so that `add_schedule` raises and stores nothing. `runs` are executions that
send to one user after the other, `RefreshRaises` is the token cache (section 4).

### MemoryStore and MemoryInjector

`MemoryStore` has the rows and the points of one agent and user: `rowScope` and
`index` say where a row and a point belong, `origin` is the session that wrote it.
Three awaits write a memory (row, embedding and point, capacity), four evict
(count, choose, points, rows); promotion and housekeeping run between any of
them, and Qdrant may fail at each. A deletion may also stop for good between the two stores
(`DeletionStops`: PostgreSQL raises, or the process ends); what it had chosen is
then in `cutShort`, a history variable, as long as its row is there. `Retrievable(s)` is
what both searches of a session can return.
`MemoryInjector` is what a run is told: `run` reads the static files one by one
and looks a memory up by two searches, while files and the memory (`place`) change. A file
may not be readable (it then has no text, but its mtime counts); one that is no UTF-8 ends
the load (`LoadRaises`). A search may fail, or be full: the results are cut to `top_k` (`Cut`).
History variables: `hidden`, a change the mtimes do not show; `unread`, files the load could
not read; `due`, the memory has been there all through the lookup; `missed`, the lookups
that did not find it for all that.

### AgentRouter

`route[r]` is a request at its await: reading the context, the affinity strategy, the
vector search, the binding, the log. `Witness` keeps the history variables:
`offered`, every agent enabled at some moment of the request, and `steady`, the agent
the session has been bound to, and that has been enabled, since it began. Texts are
what they mention; the result of the search is any agent or none.

### ConfigSync

A configuration is the version of what its files say, `agent.yaml` and those it includes,
and whether it parses and validates. The time of `agent.yaml`, the only one the watcher looks
at, is in general that version; it is an older one if an included file was edited or an older
copy put in place (`EditFiles`). `mtimes` is the watcher's, `configs` the cache,
`candidates` the router's list, `dbRows` the table `agent_configs` in dual mode.
`Poll` makes the tasks `handlers`; `HandleChanged` and `HandlerSynced` are the two
halves of `_handle_config_change`. `saves` are `save_config` and `delete_config` that
wait for the database. `PUT /agents` changes the object of the instance, which the cache and
the router may hold too, before it is validated: `InPlace` shows the new version in them,
`RefuseUpdate` is a PUT that the validator refuses afterwards. `unseen` is history: agents
with a change the watcher cannot notice.

### SkillRegistry and McpManager

`skills[w]` is the registry of a process, `meta` and `points` are the metadata in Redis and
the index in Qdrant, which all processes share. An operation is at one of its awaits
(`skillOps`). History: `owner`, the process that last registered or unregistered a skill,
and `marred`, skills whose last operations overlapped, failed half-way, were cut by a
restart, or were rewritten by a process with another version. In `McpManager` every
connection ever begun has a number; `clients` is the table, `requests` are the REST requests
that open, use or close one. A connection is in `lost`, a history variable, when another
replaced it in the table, its opening was cancelled, or its closing raised (`CloseFails`;
`ShutdownMcp` stops at the first client that does).

### AgentRuntime

The turns of one `OpenHarnessRuntime` share `mcp`, its native manager. A turn that finds
no tools closes the manager it looked at and connects a new one; the two awaits are
`closing` and `connecting`. `WireManager` is `wire_agent_runtime`, which sets a new manager
without closing the old one; `RunRefused` is a run that raises before its `try`, and ends
without an event. `Shutdown` marks the manager `outlived` and asks no turn.

### BrowserAuth

`access` and `refresh` are in localStorage, `page` is the auth store, `fetches` are
requests with the token they were sent with. `refreshing` is the shared refresh.
A redirect to the login page is a new document (`Redirected`); a network error is no 401 and
ends the request (`NoResponse`).

### MCPlatform

The twelve modules from `H5Chat` on share no variables, so one run
takes them one at a time: the variable `part` chooses a component, and the others
stay at their initial values. The state spaces add up instead of multiplying, and
the properties are checked on each component as if in a run of its own.

## 3. Runs

| Run | Question | Instance | Distinct states |
|---|---|---|---|
| `inbound` | safety and refinement of one process | 2 messages of a session, 2 blank ones of another; 2 permits, replies of up to 2 entries; 1 halt | 647,000 |
| `inbound_processes` | settled once, whatever stops; no cycle of permits and locks | 2 processes, 2 messages of a session, 1 halt; or 1 process, a third message of another session; 2 permits | 111,000 |
| `inbound_serial_doc` | serial across processes? (no) | as above, 1 permit, no halt | violation |
| `bot_client` | the connection, with liveness | the real budget of 10 and heartbeat limit of 3 | 4,200 |
| `bot_budget_doc` | ten reconnections? (no) | the same | violation |
| `bot_replies` | the bubbles, with liveness | 3 messages of 2 chats, 1 failed call, 1 restart | 192,000 |
| `bot_req_id_doc` | own answer without waiting? (no) | the same, nothing fails | violation |
| `agents` | table, counts, refusals | 2 agents, 2 requests at once, 2 instances per agent | 1.35 million |
| `agents_switch_doc` | does the agent serve after a switch? (no) | the same | violation |
| `sessions` | is a conversation kept, heard, and gone once closed? | 2 turns of one process, 1 posted message, 2 agents, 2 closes or expiries | 1.7 million |
| `sessions_affinity_doc` | routed to the agent that served last? (no) | 2 turns, nothing closes or expires | violation |
| `platform` | the twelve components of `MCPlatform` | below | 1.43 million |

**What the passing runs show.**

- `SessionSerial`, `PermitsAccounted`: in one process two tasks never work on one
  session, and a task that fails or times out at any await returns its permit
  and its lock.
- `InflightBounded`: the gate bounds the tasks by
  `MaxConcurrency - 1 + ReadCount * NumStreams`, not by `MaxConcurrency`.
- `AckedIsAnswered`: an acknowledged message was closed by `done`.
- `ArrivalOrder`: a session's messages of one stream are recorded in the order
  they were written, although permits and locks are queued for separately.
- `ImplementsTurns`: the conversation handed to the model is questions each
  followed by at most one answer, over failures and a restart.
- `RecordedOnce`, `EventuallySettled`, `TasksFinish`: over two processes and a
  stop, a message opens at most one turn; every message a group can read is
  acknowledged or stranded; no cycle of permits and locks keeps a task: with two permits
  and three messages a task holds a permit and waits for the lock of a session, whose
  owner has the other permit, while a third one waits for a permit.
- `OneListenedTo`, `LeftBounded`, `NeverIdle`, `Recovers`: whatever the connection does, the
  client never listens to a second socket, and leaves at most one more than its budget
  open behind it between two subscriptions; it has a socket, a timer or has given up, and
  gets its subscription back or gives up.
- `OwnAnswer`, `FinishOnce`, `EventuallyFinished`: while users of a chat wait for an
  answer, bubbles show their own answer and are finished exactly once, also after
  `error` followed by `done`, and after a restart.
- `NothingLost`, `HearsAll`: a turn writes the document up to four times from
  copies of different ages, and hands an old one to the runtime; as long as
  tasks of the session come one after the other this loses no message, and the
  runtime hears the stored conversation, through any replacement of agents,
  close or expiry between tasks.
- `NothingReturns`: however tasks overlap, a closed conversation comes back only
  if the close falls between the read and the write of one call.
- `SessionsCounted`, `TableUsable`, `OnlyDrainingRefuses`: in every interleaving
  of creation on demand, deletion, commands, switches and turns.
- `OneSocketPerHook`, `ShowsOwnSession`, `FinalStays`: through switches of sessions,
  losses, late events and watchdogs a hook hears one socket, that of the session on
  display; a bubble shows answers of its own session and does not change once
  delivered or failed.
- `ShownIsResolved`: responses that cross, restarts of the process, and lists that answer
  late never invent a decision in the approval store (that none changes is proved, section
  5). The card in the chat promises less, that its user has answered (section 4).
- `QuotaOverrunBounded`, `FallbackBeforeFailing`: an account is overdrawn by at most
  what the calls that can be under way cost; both providers are tried before a call
  fails although other calls switch the active one.
- `JobsMatchTable`: through creation, status changes, deletion and synchronisation with
  expressions that are refused half-way, jobs are those of the enabled schedules.
- `SessionIsolation`, `StoredIsFound`: no session is told the private memory of
  another, and a memory written to both stores is found, whatever evictions,
  promotions and failures interleave, unless a deletion was cut short between the stores.
- `CacheFollowsFiles`, `MissedAtMostOnce`: what the loader takes for current is what the files
  hold, up to the exceptions in section 4. A memory that is there all the time is missed by
  one lookup at most, that in which it is promoted between the two searches, however often
  it is looked up and moved, as long as searches answer and are not full.
- `RoutedToCandidates`, `ContinuityKept`: an agent disabled all through a request is
  not chosen (except as the default), and a session whose agent stays bound and
  enabled is not routed elsewhere.
- `RouterFollowsFiles`: in `file_system` mode, when the watcher has nothing left to do, cache
  and router have the versions on disk, unless the last change was one that the watcher
  cannot notice (section 4).
- `StoresAgree`: over two processes, after operations that did not overlap or fail, the index
  and the cached metadata are what the last change left; the next such operation mends what
  others have marred.
- `OpenIsReachable`: no connection is lost by failed openings and by disconnections, and none
  that is closed is handed out, unless it was replaced, its opening cancelled, or its closing
  failed.
- `ToolsStayOpen`: neither a turn nor a new wiring that replaces the manager takes it away
  from another turn, and a run that got past its preparations ends with `done`, once.
- `RetriesAreBounded`: a request is sent at most twice, and none waits for a refresh
  that is over.

**Bounds, and why they are enough.** `MaxHalts`, `MaxFaults`, `MaxRestarts` and
`MaxInstances` bound counters that are unbounded in the code; one stop, one fault
and one restart already meet every step they could fall between, and two
instances of an agent are an instance and the one that replaces it. Two
messages of a session are the least that can conflict; two more, of another
session, make tasks wait for the permits while others wait for the lock, and
let a read overshoot the gate. They are blank, which keeps their part short: two
full conversations at once multiply the states and touch only
permits in common, for which `Permits` and `Serial` are proved in general. In
`inbound_processes` either two processes have two messages, or one has three: the instance
with both would not finish, and a cycle of permits and locks is a matter of one process.
`inbound` has one stream, as the order across streams is not promised, and uses
the symmetry of like messages, which is sound because it checks no liveness.
In `sessions` two turns follow each other and the posted message
overlaps both; two ends let a binding expire and a session be closed in one
behaviour. `bot_client` is exhaustive for the defaults of the Gateway, not an instance.
`agents` uses symmetry over agents and requests, `sessions` over agents, which
is sound as the runs check no liveness.

`platform`, by part: two sessions, two sockets and two questions in a page (a switch and a
lost connection; a third socket multiplies the states); one approval in two
processes with two responses of a tab, which also polls (with two tabs this part
alone grows to 439,000 states and keeps both properties; the theorems are about any
number); two LLM calls, of a user and department or of nobody, with a limit of one
estimate, so that both calls can pass the check before either is charged, and a
failure threshold of one, so that the first failure switches the provider under them (a
higher one makes the behaviours longer and adds only counting); two schedules of two
agents; two memories with room for one, one session, failing Qdrant; two files with two
writes; two routed requests and two agents; one agent with two edits; one skill in two
processes with two operations; two servers with two requests and three connections; two
turns and three managers; two requests of a browser. These are the least that let two actors
meet at every pair of awaits and a third event change what they have read. The theorems
of section 5 hold beyond the bounds.

**Deadlock** is not checked where the system may come to rest: all messages
settled or all tasks done, a client that gave up or a Gateway that is down, a bounded
part of `platform` that is used up. It is checked for
`agents`, where some request is always possible.

**Fairness.** `InboundWorker`: weak fairness of the loop, of granting permits and locks, and
of every task. The event loop runs each ready callback, the queues of `Semaphore` and `Lock`
are FIFO (so weak fairness of granting suffices), a turn is ended by `asyncio.timeout`,
Redis calls by socket timeouts. `Consume` contains `Start`: a process that stopped is
started again, as `restart: unless-stopped` in the compose file of the deployment says. No
fairness for publishing or halting. A task may fail instead of progressing; the properties
allow for it. `WecomBotClient`: handshake, subscription and writes end (each has a timer of
the client), an expired timer fires. Nothing obliges the service to answer or the connection
to break. `WecomBotAdapter`: handlers and the consumer progress, and Agent Core ends every
turn, which `EventuallySettled` justifies up to messages stranded by a halt of Agent Core.
The parts of `platform` state safety only and assume none.

## 4. Findings

Runs that TLC ends with a counterexample, one per promise of a document or comment:

1. **Sessions are serial in a process only** (`inbound_serial_doc`). The session
   lock is an `asyncio.Lock`; `infra/Dockerfile.backend:75` starts four processes
   that share the consumer group. The docstring (`inbound_worker.py:92`) promises
   serial handling without that restriction.
2. **A failed reconnection costs two or three attempts** (`bot_budget_doc`). The
   architecture document (`src/ai-platform-architecture.md:2935`) promises ten;
   `handleDisconnect` and the catch clause of the timer both schedule.
3. **An answer can appear in the bubble of another message** (`bot_req_id_doc`)
   if a chat writes again before it was answered: the record is per session.
4. **A switch of the runtime leaves the agent draining** (`agents_switch_doc`):
   `START` is not allowed from `DRAINING` (`lifecycle.py:56`), so the switch ends
   with an error and the agent serves no session until it is stopped and started.
5. **A session is routed to an agent that did not serve it last**
   (`sessions_affinity_doc`). The worker that replaces an agent saves the new one
   in the session but not in the binding, which is all the Gateway reads
   (`ai-platform-prd.md:387`).

Disagreements and surprises that no run of the project checks, kept for whoever
maintains the code. Where a property is named, it is defined in the module and the
model violates it.

**Messages and agents**

- the bot gives a connection up when the third ping is due, after two missed
  ones; the architecture document (line 2933) says three;
- a bot start whose first connection fails is retried by the timer, but the
  message callback is set only after a successful start: the bot then stays
  connected and hears nothing;
- `handleDisconnect` takes the listeners off a WebSocket and closes nothing (line 590): after
  a heartbeat timeout or a refused subscription the old connection stays open, unheard,
  beside the next one. `LeftBounded` says how many there can be;
- a connection that breaks while a frame is being written rejects a promise that
  has no handler yet, on which `index.ts` shuts the Gateway down, although it
  means to continue "without Bot" (`index.ts:233`);
- `disconnect()` during a resubscription lets the catch clause of the timer
  schedule a reconnection: a stopped client can come back;
- the docstring of `ensure_agent_ready` (`manager.py:296`) promises RUNNING, and
  PAUSED is accepted;
- `create_agent` checks the table, waits, and writes it: a concurrent creation is
  overwritten and its runtime never shut down; an agent that is deleted while it is
  being provisioned comes back;
- deleting a RUNNING agent shuts its runtime down and then fails with
  `AgentStateError` (`manager.py:198`);
- the session locks of the worker are never removed;
- an entry that `parse_inbound_fields` refuses (`inbound_worker.py:242`) loses the rest of
  the reply: those entries are delivered to the group and never handled (`BreakReply`);
- two tasks of a session that overlap (two processes, or the API and a worker)
  overwrite each other's messages in `add_message`, and one that a close falls
  into may bring the session back: this is why `NothingLost` and
  `NothingReturns` have the premises they have;
- the module comment of `session.py:6` names PostgreSQL as the backup of the
  sessions; nothing writes them there;
- turns of a runtime that find no tools at once each connect a manager, and only
  the last one is kept: `shutdown` forgets the others (`ShutdownForgetsNone`,
  `AgentRuntime`); it closes the manager under the turns that use it, and a turn that
  comes after it connects again;
- `wire_agent_runtime` replaces the manager without closing it (`runtime_setup.py:31`); a run
  that raises before its `try` (`openharness.py:264`) ends without `error` and `done`
  (`RunRefused`; `ToolsStayOpen` asks for `done` of the other runs only);
- `AgentRouter`: two overlapping requests, or an error of Redis, bind a session to another
  agent although its own is enabled; `ensure_session` also binds the fallback.

**Chat page and approvals**

- the Gateway unregisters a socket by session (`server.ts:336`): the late close of an
  old socket removes the registration of its successor, which then hears nothing;
  the socket of an `ApprovalCard` (line 59) replaces that of the panel;
- the watchdog is cleared when the socket closes (`useChat.ts:42`, `:451`): a generation
  that loses its socket never ends, and the panel refuses to send
  (`GenerationWatched`, `H5Chat`);
- `connect` resets the count of attempts (`useChat.ts:378`), so that reconnections
  never give up (line 33);
- `ApprovalCard` shows an approval as done from the click on, even if the REST request
  failed or the approval is gone (`ApprovalCard.tsx:80`, `useChat.ts:585`):
  `ShownIsResolved` promises of a card (`cards`) only that its user has answered; the
  Gateway drops the approval frames of the browser (`server.ts:308`), and nothing sends the
  message the comment at `approval.py:212` speaks of;
- `check_timeouts` "should be called every 30 seconds" (`approval.py:224`) and is
  called once, at the start, on an empty store: a pending approval does not expire;
- approvals are in the memory of one of four processes: a response or a poll that
  reaches another one finds nothing; nothing calls `create_approval`.

**LLM gateway and push**

- `get_failover_providers` never tries to recover the primary provider, which stays
  second until an administrator resets it (docstring `failover.py:26`);
- `chat_stream` that fails half-way goes on with the other provider, and the chunks
  of both are one answer; stream calls never mark a key invalid, and nothing
  restores an invalid one;
- runtime calls pass an empty user and department: they pass every check and are charged to
  nobody (`quota_manager.py:94`, `:143`);
- `expires_at` of the WeCom token is the sum of two dates (`wecom_pusher.py:137`;
  `timedelta_seconds`, line 404, returns a date): `TypeError` is raised after every
  granted token, so none is cached and no push is sent (`GrantedIsCached`,
  `PushScheduler`; line 91 promises the cache);
- enabling a disabled schedule whose cron expression is malformed removes it and
  reports success; schedules live in one process and are forgotten at its restart.

**Memory**

- concurrent evictions choose the same or more memories than the excess, and go
  below the limit; a failed embedding skips the capacity check;
- a point whose deletion fails is still found (`FoundIsStored`, `MemoryStore`); a row whose
  deletion fails after its point is gone (`memory/manager.py:575`, `:640`, `:701`, `:856`), or
  a process that ends between the two, leaves a stored memory that nothing finds again
  (`cutShort`, the exception of `StoredIsFound`);
- the static loader does not see a removed file, one that was replaced by an older
  copy, or a write during the load (docstring `static_loader.py:54`); `hidden` has these
  exceptions;
- a static file that cannot be read for a moment is cached as empty until the next edit
  (`static_loader.py:255`, `:264`; `unread`, the other exception of `CacheFollowsFiles`);
- a memory promoted between the two searches of a lookup is missed, once
  (`MissedAtMostOnce`); one that is cut off by `top_k`, or whose search fails, is missed too;
- the runtime does not use this component yet.

**Configuration**

- in dual mode `file_to_db` and `_save_to_db` never reset `is_deleted`: an agent that
  was deleted and comes back has a deleted row (`RowsFollowFiles`, `ConfigSync`;
  `manager.py:6`);
- a save that waits for the database while another one finishes leaves its old version
  in the cache;
- an `agent.yaml` that is removed while its directory stays remains routed, and a change
  between the load and the first snapshot goes unnoticed;
- `configs/agents/README.md:5` promises that an edit of any YAML or Markdown file takes effect
  without a restart, but the watcher compares the mtime of `agent.yaml` alone, with `>`
  (`watcher.py:110`, `:158`): an edit of an included file, or an older copy put in place, is
  never seen (`unseen`, the exceptions of `RouterFollowsFiles`);
- `PUT /agents` changes the object that cache and router hold before it is validated
  (`api/routes/agent.py:225`): a PUT that is refused changes both and not the disk
  (`RefuseUpdate`, also in `unseen`);
- `reload_all` and `get_config` do not validate; `_save_to_file` drops the
  sections for runtime and model; `db_to_file` is called by nothing.

**Skills, MCP and sign-in**

- `unregister` while `get_async` or `load_full` waits brings the skill back; failures of the
  index and the cache are only logged; the cache key of the retriever has no `top_n`;
- every worker process has a registry of its own over shared stores
  (`infra/Dockerfile.backend:75`, `bootstrap/skills_mcp.py:41`): a skill that one process
  unregisters or disables, loses its point, and the others go on listing it;
- two requests that connect to one server at once leak the first client, so that shutdown
  does not close all connections (`ShutdownClosesAll`, `McpManager`; `mcp/manager.py:98`);
  `disconnect` takes the client out of the table before `aclose()`, which may raise
  (`mcp/client.py:186`), `disconnect_all` stops at the first exception
  (`mcp/manager.py:97`), and an opening that is cancelled is not closed
  (`mcp/client.py:136`): `lost` has these connections, the exceptions of `OpenIsReachable`;
  `health_check_all` iterates over `_clients` across awaits; a server that comes back is not
  reconnected, and registering a connected one again keeps the old client;
- the token made by a refresh has no roles and no department (`identity/token.py:125`), and
  a page that is reloaded takes its user from it (`RolesAreKept`, `BrowserAuth`);
- a refresh that ends after a logout stores its token; one that ends after another user's
  login gives that page the token of the first user.

## 5. Proofs

TLAPS proves the theorems for every value of the constants that satisfies the
named assumption of the module (`InboundAssumption`, `BotAssumption`,
`AdapterAssumption`, `ManagerAssumption`, `StoreAssumption`, `LLMAssumption`, ...: sorts
of the constants, positive limits, finite sets of messages or requests so that
cardinalities exist; `OneProcess` in `InboundTurns`; an estimate within the limits
for the quota; a `None` that is no message, chat or document). No theorem has any other
hypothesis.

Every safety invariant and every action property that a passing run checks is stated by
a theorem. Most of them are not inductive: each proof defines the inductive invariant,
shows it of the initial states, step by step of every action, and ends with one temporal
step per property. TLC checked the invariants on the instances of section 3 before they
were proved.

### Inbound worker

**InboundWorkerProofs**: `TypeCorrect`, `Serial` (`SessionSerial`), `Permits`
(`PermitsAccounted`), `Acknowledged` (`AckedIsAnswered`), `Once` (`RecordedOnce`) and
`Bounded` (`InflightBounded`), for any number of processes, streams, sessions, messages
and halts. The inductive invariant `IInv` says what each queue and lock knows: a
queue for permits holds only tasks of its process that are at that await, none
twice; a queue for a session lock likewise; a task in its critical section owns
the lock of its session; and an entry the group has not passed belongs to a
message nothing has touched, so a read cannot hand out a running one. Serial
sessions follow from the lock ownership (a lock has one owner). The balance of
permits is carried by lemmas on the cardinality of the set of tasks that hold one: each
step adds or removes at most one, and a halt empties it. `AckedIsAnswered` needs what was
published at each stage before the acknowledgement. `Once` rests on `StoredByStage`: what
a transcript holds of a message says how far that message has come, so an append is of
something new. `Bounded` needs where the loop is (`GateFits`): behind the gate, before the
read, less than `MaxConcurrency` tasks are in flight. One reply adds at most
`ReadCount * NumStreams` of them, because a message is determined by its stream and its
place in the reply (`ReplyBounded`, an injection into the pairs of both).

**InboundTurnsProofs**: `Refinement` (`ImplementsTurns`): with one process, every step of
the worker is a step of `SessionTurns` or leaves it as it is; `WellFormedInOneProcess`
(`WellFormedChat`), what the model is told in a deployment of one process (finding 1 is what
four do); and `InOrder` (`ArrivalOrder`). The invariant
of the first two adds to `IInv` that the owner of a lock is in its critical section
(`OwnerIsCritical`), that a message whose turn has not asked is in no transcript (`Unsaid`),
and that the question of an open turn is the last entry of its session (`AskedLast`), which
is what makes an answer stand right after it. `InOrder` follows one pair of messages from
the stream into the transcript (`OrderIInv`): both FIFO queues are in the order of the
stream (`QueuesOrdered`); a task that waits for a permit is in that queue (`Queued`); the
later message is never at a later stage than the earlier one as long as both wait
(`StagesOrdered`); and nothing that was written before a recorded question still has to
be recorded (`AskedOrdered`).

### Gateway and browser

**WecomBotAdapterProofs**: `AnswersOwn` (`OwnAnswer`) and `FinishedOnce` (`FinishOnce`), for
any number of messages, chats, failed calls and restarts. The invariant is about one chat
whose users wait (`Waiting`): only one message of it is under way, and it moves through four
places. While the handler works on it, it has the record, and Agent Core has nothing
of the chat (`WorkedOn`); while it is in the inbox of Agent Core, it is alone there, and no
event of the chat is left (`AskedOnce`); then the events of the chat all answer the message
that has the record (`AnswersRecord`); and its bubble has no finish frame unless one is
being awaited (`FinishAwaited`). `ChatStep` reduces every step to the chat it is about.

**GatewayProofs**, the bot connection: `OneDriven` (`OneListenedTo`), `AlwaysBusy`
(`NeverIdle`), `LeftoverBounded` (`LeftBounded`), `Budget` (`WithinBudget`), for every budget
and heartbeat limit.
The invariant ties the connection state to the socket, the outstanding frame
and the caller, the heartbeat to its state, and the history count `dials` to
`attempts` and the timer: a dial that has begun has been counted before. A socket is left
behind only after an attempt was counted for it (`LeftPaid`).

Approvals: `DecisionKept` (`DecidedOnce`) and `ShownResolved` (`ShownIsResolved`), for any
number of processes, tabs, approvals and responses. Every step satisfies `StatusKept`;
therefore a view that was `Settled` (on a tab or on its way to it) stays so, and a response
that was accepted concerns a decided approval. Of a card `CardsFit` says only that one which
shows the end belongs to an approval its user has answered.

The chat page: `OneSocket` (`OneSocketPerHook`), `OwnSessionShown` (`ShowsOwnSession`) and
the action property `FinalKept` (`FinalStays`), for any number of sessions, sockets and
questions. `HookFits` says what a hook and its sockets know of each other, and is
kept by `CloseIntentionally` and `Connect`, from which the effects are composed. A frame, in
a socket or still to be emitted, is about a question that exists and was asked in the
session the frame travels to (`FramesKnown`, `TurnsKnown`); only the panel streams, into a
bubble that was cleared away or into one of the session on display that is still being
streamed (`StreamsFit`). So what a late frame may touch is a bubble of the session it was
asked in, and not a final one.

Sign-in: `RetriesBounded` (`RetriesAreBounded`). A request is marked before it is sent again,
so the flag and the number of times it was sent go together (`SentAsMarked`).

### Agent Core

**AgentManagerProofs**: `TypeCorrect`, `Counts` (`SessionsCounted`), `Usable`
(`TableUsable`), `RefusesOnlyDraining` (`OnlyDrainingRefuses`), for any number of
agents, requests and instances. The strengthening, `Working`, says that a
request in its turn or at one of the waits refers to an agent and to an instance
that exist; with it the type invariant, the count and the table are inductive
together. A deletion takes the entry out of the table even if another request
has replaced it meanwhile, which is why no deleted instance can remain in it.

**SessionStoreProofs**: `TypeCorrect`, `Lossless` (`NothingLost`), `Heard`
(`HearsAll`), `StaysGone` (`NothingReturns`), for any number of turns, requests,
processes, agents, closes and expiries. The invariant has three parts.
`Equipped`: a task has the objects it is about to use. `Current`: what a task is
about to write holds only entries stored since the document came into being, a
new document holds none. `InTurn`: unless tasks overlapped, at most one is active,
and what it knows (`Alone`) is how its copies relate to the document at each
place; from this follow `NothingLost` and `HearsAll`, which are not inductive
alone.

**AgentCoreProofs**, the LLM gateway: `QuotaKept` (`QuotaOverrunBounded`) and `BothTried`
(`FallbackBeforeFailing`), for any number of calls, limits and costs. `Budgeted` is the
inductive form of the first: what an account has used, with what the calls that name it,
passed its check and have not been charged may still cost, stays within the bound. A
check adds one call to that set and a charge removes one; lemmas about cardinalities and
products do the arithmetic. `RestUntried`: a call that dials still has every provider it
has not tried in its list.

The router: `CandidatesRouted` (`RoutedToCandidates`) and `Continuity` (`ContinuityKept`),
for any agents, priorities and requests. `RouteFits` says what each place of a request has
chosen so far, relative to the history of the request. The keyword strategy takes the
best of the places that match; that there is one is proved from a total order on places
(`BeforeIsTotal`) and
the well-foundedness of strict inclusion on finite sets (`SomeIsBest`).

Configurations: `RouterFollowed` (`RouterFollowsFiles`), for any number of agents, edits,
saves and handlers, in `file_system` mode and of the agents that are not `unseen`. `Followed`
says of one agent how cache and router relate to its directory and to the time in the
watcher's snapshot: before the first poll they have what was loaded; from then on they have
what is on disk whenever the snapshot has the time of the file and no handler of the agent is
pending, so a handler that was overtaken by an edit may load the newer version, as the
next poll will bring another one. `InSight` is what `unseen` takes care of: a file whose
time is not that of the snapshot has a later one, or is gone. `VersionsFit` says that no
version and no time is newer than the last edit.

Skills: `StoresAgreed` (`StoresAgree`), for any number of processes. A skill that is not
`marred` has one operation at most, and what that operation is about to write is what the
last change left, made by the process that is its `owner` (`Fits`, `Unmarred`). MCP:
`OpenReachable` (`OpenIsReachable`), of the connections that are not `lost`. Connections are
numbered in the order they were begun (`InOrder`), so a new one is nobody's; what a request
opens or closes is open (`HeldIsOpen`), and held by it alone (`HeldOnce`).

**ServicesProofs**: `JobsMatch` (`JobsMatchTable`): each method, as an operator on table and
jobs, makes the pair match at its id and leaves the others alone, so calls of one method by
another compose. `Isolated` (`SessionIsolation`) and `Found` (`StoredIsFound`), for any
number of memories and sessions: `PointsScoped` says where a point can be, whatever the
promotions and evictions under way (only important memories are promoted, and a point is
written once); `Found` is of the memories no deletion was cut short of. `ToolsKept`
(`ToolsStayOpen`), for any number of turns: `References` and `ClosedByShutdown` say that a
turn closes only a manager without tools, so that one with tools is closed by `shutdown`
alone. A manager that a new wiring replaced is closed by nobody, and stays open for the
turns that use it. `CacheCurrent` (`CacheFollowsFiles`) and `MissedOnce`
(`MissedAtMostOnce`), for any number of files: as long as nothing is `hidden`, a text in the
cache that its file, if it could be read, no longer has shows in an mtime above that of the
cache (`CacheFits`), and what a load has read so far is what the files still hold
(`LoadFits`). The greatest mtime, which the loader compares with, exists by the
well-foundedness of strict inclusion on finite sets (`GreatestOf`). `LookupFits` says that a
memory which was missed once belongs to the user by now, where the first search of every
later lookup finds it.

**Only model-checked**: the liveness properties `EventuallySettled`, `TasksFinish`,
`Recovers` and `EventuallyFinished`, as liveness under fairness and ENABLED are outside
what the prover does; and the violations of section 4, which are counterexamples of
TLC. `OwnAnswer` and `ArrivalOrder` keep their premises (waiting users, one process) in the
theorems: the findings 1 and 3 are what happens without them.

## 6. Not modelled

- **WeCom H5 channel**: its connection table works as that of `H5Chat`; the rest is the
  formatting of events and calls of the WeCom API.
- **Gateway middleware**: the rate limit is one Lua script, a single step of Redis; the
  retry helper keeps no state between calls. Token verification is in `BrowserAuth`.
- **Identity**: the permission table and the vault are lookups; the synchronisation of the
  directory is one request after another.
- **Business adapters, pages, database models**: HTTP calls, rendering, table definitions.
- **Scripts** under `backend/scripts`: tools of the developers that rewrite source files.
- Of the modelled components: `refresh_streams`, `claimPending`, `db_to_file` and the
  session state, which nothing calls or writes; `CONFIG_MODE = database`; the rotation of
  keys, as the settings give one per provider; the ranking and grouping of skills, which
  no request reaches; templates and histories of pushes; memory summaries; the turn inside the
  OpenHarness package, of which only the events matter; the text of messages, cards and
  prompts.
- **Composition**: `InboundWorker` is not composed with `SessionStore` or
  `AgentManager`, nor `WecomBotClient` with `WecomBotAdapter`. Their product is out of TLC's
  reach at the bounds that make each interesting; each is given what it needs of the other
  as a choice (an agent is ready or not; Agent Core answers with any of `Answers`).

----------------------------- MODULE McpManager -----------------------------
(***************************************************************************)
(* The connections of MCPManager (mcp/manager.py) to the MCP servers, as   *)
(* the requests of the REST API make, use and close them (mcp/client.py,   *)
(* api/routes/mcp.py).  Opening, using and closing are awaited.            *)
(***************************************************************************)
EXTENDS Naturals, FiniteSets

CONSTANTS Servers, Requests, MaxConnections

ASSUME McpAssumption == IsFiniteSet(Servers) /\ IsFiniteSet(Requests) /\ MaxConnections \in Nat

VARIABLES
    mcpUp,      \* "down", "up" after initialize_skills_and_mcp, "closed" after shutdown
    registered, \* _configs
    clients,    \* _clients: the connection of the client; 0 without one
    conns,      \* every connection ever begun: its server and what became of it
    requests,   \* requests under way
    lost        \* history: connections that were replaced in _clients, whose opening was
                \* cancelled, or whose closing was cut short

mcpVars == <<mcpUp, registered, clients, conns, requests, lost>>

ConnIds == 1..MaxConnections
NoConn == [server |-> "none", is |-> "none"]
NoRequest == [pc |-> "idle", server |-> "none", conn |-> 0, uses |-> FALSE]
LastConn == Cardinality({c \in ConnIds : conns[c].is # "none"})

McpInit ==
    /\ mcpUp = "down" /\ registered = {}
    /\ clients = [n \in Servers |-> 0]
    /\ conns = [c \in ConnIds |-> NoConn]
    /\ requests = [q \in Requests |-> NoRequest]
    /\ lost = {}

-----------------------------------------------------------------------------
\* load_mcp_servers_from_files: what the agents' mcp-servers.yaml can declare; an entry
\* that is disabled, has no name or endpoint, or a name met before is passed over.
Declarations == SUBSET Servers

\* initialize_skills_and_mcp.
LoadServers ==
    /\ mcpUp = "down" /\ mcpUp' = "up"
    /\ registered' \in Declarations
    /\ UNCHANGED <<clients, conns, requests, lost>>

\* POST /mcp, which also replaces the configuration of a connected server.
RegisterServer(n) ==
    /\ mcpUp = "up" /\ n \notin registered /\ registered' = registered \union {n}
    /\ UNCHANGED <<mcpUp, clients, conns, requests, lost>>

\* _get_connected_client, and connect: the client there is if it is connected (it is not
\* told when its server goes away), or a new one.  auto_connect_all, POST .../connect
\* (uses is FALSE); .../call, .../tools, .../discover, and discover_all_servers.
BeginMcpRequest(q, n) ==
    /\ mcpUp = "up" /\ requests[q].pc = "idle" /\ n \in registered
    /\ \E uses \in BOOLEAN :
          IF clients[n] # 0
          THEN /\ uses /\ UNCHANGED conns
               /\ requests' = [requests EXCEPT ![q] = [pc |-> "using", server |-> n, conn |-> clients[n], uses |-> TRUE]]
          ELSE /\ LastConn < MaxConnections
               /\ conns' = [conns EXCEPT ![LastConn + 1] = [server |-> n, is |-> "open"]]
               /\ requests' = [requests EXCEPT ![q] = [pc |-> "opening", server |-> n, conn |-> LastConn + 1, uses |-> uses]]
    /\ UNCHANGED <<mcpUp, registered, clients, lost>>

\* The session is initialised: the manager keeps the client, whatever it kept before; a
\* client that is replaced is not closed.
Connected(q) ==
    LET r == requests[q] IN
    /\ r.pc = "opening"
    /\ clients' = [clients EXCEPT ![r.server] = r.conn]
    /\ lost' = lost \union ({clients[r.server]} \ {0})
    /\ requests' = [requests EXCEPT ![q] = IF r.uses THEN [r EXCEPT !.pc = "using"] ELSE NoRequest]
    /\ UNCHANGED <<mcpUp, registered, conns>>

\* Mutant: connect raises MCPClientError and leaves the transport it has opened.
RaisesOnly(c) == conns

\* connect fails in session.initialize: the exit stack is closed.
AfterFailure(c) == [conns EXCEPT ![c].is = "closed"]

ConnectFails(q) ==
    /\ requests[q].pc = "opening"
    /\ conns' = AfterFailure(requests[q].conn)
    /\ requests' = [requests EXCEPT ![q] = NoRequest]
    /\ UNCHANGED <<mcpUp, registered, clients, lost>>

\* The request is cancelled in the middle of connect, which catches Exception only, or the
\* exit stack raises while it closes, here or in disconnect: nobody has the client then.
CloseFails(q) ==
    /\ requests[q].pc \in {"opening", "closing"}
    /\ lost' = lost \union {requests[q].conn}
    /\ requests' = [requests EXCEPT ![q] = NoRequest]
    /\ UNCHANGED <<mcpUp, registered, clients, conns>>

\* list_tools or call_tool returns or raises, also because the client was disconnected.
EndMcpRequest(q) ==
    /\ requests[q].pc = "using"
    /\ requests' = [requests EXCEPT ![q] = NoRequest]
    /\ UNCHANGED <<mcpUp, registered, clients, conns, lost>>

\* disconnect: the client leaves the table before it is closed.
Disconnect(q, n) ==
    /\ mcpUp = "up" /\ requests[q].pc = "idle" /\ clients[n] # 0
    /\ clients' = [clients EXCEPT ![n] = 0]
    /\ requests' = [requests EXCEPT ![q] = [pc |-> "closing", server |-> n, conn |-> clients[n], uses |-> FALSE]]
    /\ UNCHANGED <<mcpUp, registered, conns, lost>>

Disconnected(q) ==
    /\ requests[q].pc = "closing"
    /\ conns' = [conns EXCEPT ![requests[q].conn].is = "closed"]
    /\ requests' = [requests EXCEPT ![q] = NoRequest]
    /\ UNCHANGED <<mcpUp, registered, clients, lost>>

\* shutdown_skills_and_mcp, when the requests are over: disconnect_all closes one client
\* after the other, up to the first that raises; the manager is dropped all the same.
ShutdownMcp ==
    /\ mcpUp = "up" /\ mcpUp' = "closed"
    /\ \A q \in Requests : requests[q].pc = "idle"
    /\ \E notClosed \in SUBSET {clients[n] : n \in Servers} :
          /\ conns' = [c \in ConnIds |->
                 IF c \in {clients[n] : n \in Servers} \ notClosed THEN [conns[c] EXCEPT !.is = "closed"] ELSE conns[c]]
          /\ lost' = lost \union (notClosed \ {0})
    /\ clients' = [n \in Servers |-> 0]
    /\ UNCHANGED <<registered, requests>>

McpNext ==
    \/ LoadServers \/ ShutdownMcp
    \/ \E n \in Servers : RegisterServer(n)
    \/ \E q \in Requests : \/ Connected(q) \/ ConnectFails(q) \/ CloseFails(q) \/ EndMcpRequest(q) \/ Disconnected(q)
                           \/ \E n \in Servers : BeginMcpRequest(q, n) \/ Disconnect(q, n)

McpSpec == McpInit /\ [][McpNext]_mcpVars

-----------------------------------------------------------------------------
McpTypeOK ==
    /\ mcpUp \in {"down", "up", "closed"} /\ registered \subseteq Servers /\ lost \subseteq ConnIds
    /\ clients \in [Servers -> 0..MaxConnections]
    /\ conns \in [ConnIds -> [server : Servers \union {"none"}, is : {"none", "open", "closed"}]]
    /\ requests \in [Requests -> [pc : {"idle", "opening", "using", "closing"},
                                  server : Servers \union {"none"}, conn : 0..MaxConnections, uses : BOOLEAN]]

\* No connection is forgotten, and none that is closed is handed out: an open one is the
\* manager's or that of a request which will keep or close it, through failed openings and
\* disconnections in between, and the clients of the manager are open.  The exceptions are
\* a client that another replaces when two requests connect to a server at once, an
\* opening that is cancelled, and a closing that raises, which ends disconnect_all too
\* (history variable lost).
OpenIsReachable ==
    /\ \A c \in ConnIds \ lost : conns[c].is = "open" =>
          \/ \E n \in Servers : clients[n] = c
          \/ \E q \in Requests : requests[q].pc \in {"opening", "closing"} /\ requests[q].conn = c
    /\ \A n \in Servers : clients[n] # 0 => conns[clients[n]].is = "open"

\* "Closes all MCP server connections" (mcp/manager.py, disconnect_all).
ShutdownClosesAll == mcpUp = "closed" => \A c \in ConnIds : conns[c].is # "open"

=============================================================================

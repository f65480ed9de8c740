---------------------------- MODULE TunnelServer ----------------------------
(***************************************************************************)
(* The tunnel registry of the server (src/internal/server): who is         *)
(* connected, which tunnels they hold, and which subdomains and ports      *)
(* those tunnels occupy.                                                   *)
(*                                                                         *)
(* Four kinds of goroutine share that state:                               *)
(*   - one handle() per connection, which reads control messages and       *)
(*     creates and closes tunnels one request at a time (pc, current);     *)
(*   - whoever runs Client.Close(): handle() on its way out, or keepalive  *)
(*     after 90s of silence, at most one of them thanks to closeOnce       *)
(*     (closing);                                                          *)
(*   - API requests that close a tunnel (closer, apiClosing);              *)
(*   - one AcceptConnections or HandlePackets per port tunnel (serving).   *)
(* A step of the model is one critical section of the code, or one call    *)
(* on a socket.                                                            *)
(*                                                                         *)
(* An address is a subdomain (HttpAddr) or a port (TcpAddr, UdpAddr).      *)
(***************************************************************************)
EXTENDS Naturals, FiniteSets

CONSTANTS
  Clients,     \* control connections, each used once (generateID)
  Users,       \* accounts
  Tunnels,     \* tunnel IDs, each used once (generateID)
  HttpAddr,    \* subdomains
  TcpAddr,     \* ports of Server.TCPPortRange
  UdpAddr,     \* ports of Server.UDPPortRange
  None,        \* "no value"
  UserOf,      \* [Clients -> Users \cup {None}], None for a legacy token
  PlanMax,     \* [Clients -> Nat], tunnels of the user's plan, 0 for no limit
  TokenMax     \* [Clients -> Nat], tunnels of the token, 0 for no limit

PortAddr == TcpAddr \cup UdpAddr
Addresses == HttpAddr \cup PortAddr

ASSUME AddressAssumption ==
  /\ HttpAddr \cap TcpAddr = {}
  /\ HttpAddr \cap UdpAddr = {}
  /\ TcpAddr \cap UdpAddr = {}

ASSUME NoneAssumption == None \notin Clients \cup Users \cup Tunnels \cup Addresses

ASSUME ClientAssumption ==
  /\ UserOf \in [Clients -> Users \cup {None}]
  /\ PlanMax \in [Clients -> Nat]
  /\ TokenMax \in [Clients -> Nat]

VARIABLES
  pc,          \* where the connection's goroutine is
  current,     \* the tunnel its handler is working on
  closing,     \* how far Client.Close() has come
  peer,        \* the other end of the control connection
  clients,     \* ClientManager.clients
  userClients, \* ClientManager.userClients
  tunnels,     \* Client.Tunnels, by client
  owner,       \* Tunnel.ClientID, None for an ID not generated yet
  addr,        \* Tunnel.Subdomain or Tunnel.RemotePort
  routes,      \* HTTPRouter.tunnels
  buffers,     \* inspect.Manager.buffers
  used,        \* PortAllocator.usedPorts, of both managers
  socket,      \* Tunnel.listener or Tunnel.udpConn
  serving,     \* the goroutine that serves the port
  closer,      \* how far closeTunnel() has come
  apiClosing   \* tunnels being closed under clientsMu.RLock

connVars == <<pc, current, closing, peer>>
clientVars == <<clients, userClients>>
tunnelVars == <<tunnels, owner, addr>>
httpVars == <<routes, buffers>>
portVars == <<used, socket, serving>>
closeVars == <<closer, apiClosing>>
vars == <<connVars, clientVars, tunnelVars, httpVars, portVars, closeVars>>

-----------------------------------------------------------------------------

Pc == {"none", "added", "linked",             \* authenticate()
       "reading",                             \* handle(), in DecodeRaw
       "registering", "registered",           \* createHTTPTunnel()
       "allocated", "bound",                  \* createTCPTunnel(), createUDPTunnel()
       "responding",                          \* about to answer a request
       "closingTunnel",                       \* handleTunnelClose()
       "returning", "left"}                   \* the deferred Close(), the end

ClosePhase == {"no", "cancelled", "drained", "severed", "unlinked", "done"}

ctxDone(c) == closing[c] # "no"
drained(c) == closing[c] \in {"drained", "severed", "unlinked", "done"}
severed(c) == closing[c] \in {"severed", "unlinked", "done"}

\* handle() has started, so keepalive runs.
handling(c) == pc[c] \notin {"none", "added", "linked", "left"}

Init ==
  /\ pc = [c \in Clients |-> "none"]
  /\ current = [c \in Clients |-> None]
  /\ closing = [c \in Clients |-> "no"]
  /\ peer = [c \in Clients |-> "up"]
  /\ clients = {}
  /\ userClients = [u \in Users |-> {}]
  /\ tunnels = [c \in Clients |-> {}]
  /\ owner = [t \in Tunnels |-> None]
  /\ addr = [t \in Tunnels |-> None]
  /\ routes = [a \in HttpAddr |-> None]
  /\ buffers = {}
  /\ used = {}
  /\ socket = [t \in Tunnels |-> "none"]
  /\ serving = [t \in Tunnels |-> "no"]
  /\ closer = [t \in Tunnels |-> "no"]
  /\ apiClosing = {}

-----------------------------------------------------------------------------
(* The other end.                                                          *)

\* The connection breaks, or the peer process dies.
PeerBreaks(c) ==
  /\ pc[c] \notin {"none", "left"}
  /\ peer[c] # "broken"
  /\ peer' = [peer EXCEPT ![c] = "broken"]
  /\ UNCHANGED <<pc, current, closing, clientVars, tunnelVars, httpVars, portVars, closeVars>>

\* Nothing has been read from the peer for clientTimeout.
PeerSilent(c) ==
  /\ handling(c)
  /\ peer[c] = "up"
  /\ peer' = [peer EXCEPT ![c] = "silent"]
  /\ UNCHANGED <<pc, current, closing, clientVars, tunnelVars, httpVars, portVars, closeVars>>

-----------------------------------------------------------------------------
(* Connecting: authenticate() and the start of handle().                   *)

\* addClient needs clientsMu, which an API close holds for reading.
clientsMuFree == apiClosing = {}

\* createClientFromDBToken, createClientFromJWT, createClient.
AddClient(c) ==
  /\ pc[c] = "none"
  /\ clientsMuFree
  /\ clients' = clients \cup {c}
  /\ pc' = [pc EXCEPT ![c] = "added"]
  /\ UNCHANGED <<current, closing, peer, userClients, tunnelVars, httpVars, portVars, closeVars>>

\* Mutant: linkUserClient without its test for user 0.
LinkUserZero(c) ==
  /\ pc[c] = "added"
  /\ userClients' = [u \in Users \cup {UserOf[c]} |->
                       (IF u \in Users THEN userClients[u] ELSE {})
                         \cup (IF u = UserOf[c] THEN {c} ELSE {})]
  /\ pc' = [pc EXCEPT ![c] = "linked"]
  /\ UNCHANGED <<current, closing, peer, clients, tunnelVars, httpVars, portVars, closeVars>>

LinkUser(c) ==
  /\ pc[c] = "added"
  /\ userClients' = [u \in Users |-> IF u = UserOf[c] THEN userClients[u] \cup {c}
                                                      ELSE userClients[u]]
  /\ pc' = [pc EXCEPT ![c] = "linked"]
  /\ UNCHANGED <<current, closing, peer, clients, tunnelVars, httpVars, portVars, closeVars>>

\* The AuthResult is sent and handle() starts, or cannot be sent and the
\* client is closed.
SendAuthResult(c) ==
  /\ pc[c] = "linked"
  /\ \/ pc' = [pc EXCEPT ![c] = "reading"]
     \/ /\ peer[c] = "broken"
        /\ pc' = [pc EXCEPT ![c] = "returning"]
  /\ UNCHANGED <<current, closing, peer, clientVars, tunnelVars, httpVars, portVars, closeVars>>

-----------------------------------------------------------------------------
(* Reading control messages: the loop of handle().                         *)

\* Mutant: the loop does not look at the context.
loopUnchecked(c) == "reading"

\* The top of the loop: return if the context is done, else read.
loop(c) == IF ctxDone(c) THEN "returning" ELSE "reading"

\* A message can be decoded as long as the session has not been closed here:
\* what the peer sent before it broke may still be buffered.
CanRead(c) == pc[c] = "reading" /\ ~severed(c)

\* lastPing.Store
Heard(c) == peer' = IF peer[c] = "silent" THEN [peer EXCEPT ![c] = "up"] ELSE peer

ReadFails(c) ==
  /\ pc[c] = "reading"
  /\ severed(c) \/ peer[c] = "broken"
  /\ pc' = [pc EXCEPT ![c] = "returning"]
  /\ UNCHANGED <<current, closing, peer, clientVars, tunnelVars, httpVars, portVars, closeVars>>

\* A message whose handling leaves the registry alone: ping, pong, an unknown
\* message, the close of a tunnel the client does not hold, a request that is
\* refused (limit, permission, type, port outside the range or in use).
ReadInert(c) ==
  /\ CanRead(c)
  /\ Heard(c)
  /\ pc' = [pc EXCEPT ![c] = loop(c)]
  /\ UNCHANGED <<current, closing, clientVars, tunnelVars, httpVars, portVars, closeVars>>

\* CountTunnelsByUserID, or the client's own count for a legacy token.
tunnelCount(c) ==
  IF UserOf[c] = None
  THEN Cardinality(tunnels[c])
  ELSE Cardinality(UNION {tunnels[d] : d \in userClients[UserOf[c]] \cap clients})

\* Mutant: > for >=.
WithinLimitsOff(c) ==
  /\ PlanMax[c] > 0 => tunnelCount(c) <= PlanMax[c]
  /\ TokenMax[c] > 0 => Cardinality(tunnels[c]) <= TokenMax[c]

WithinLimits(c) ==
  /\ PlanMax[c] > 0 => tunnelCount(c) < PlanMax[c]
  /\ TokenMax[c] > 0 => Cardinality(tunnels[c]) < TokenMax[c]

\* The ID t is generated for a tunnel of c at address a.
NewTunnel(c, t, a) ==
  /\ owner[t] = None
  /\ owner' = [owner EXCEPT ![t] = c]
  /\ addr' = [addr EXCEPT ![t] = a]
  /\ current' = [current EXCEPT ![c] = t]

\* createHTTPTunnel, up to the inspect buffer.
RequestHTTP(c, t, a) ==
  /\ CanRead(c)
  /\ Heard(c)
  /\ WithinLimits(c)
  /\ NewTunnel(c, t, a)
  /\ buffers' = buffers \cup {t}
  /\ pc' = [pc EXCEPT ![c] = "registering"]
  /\ UNCHANGED <<closing, clientVars, tunnels, routes, portVars, closeVars>>

\* Mutant: the buffer of a refused tunnel is kept.
RegisterTunnelKeepsBuffer(c) ==
  LET t == current[c]
      a == addr[t]
  IN /\ pc[c] = "registering"
     /\ routes' = [routes EXCEPT ![a] = IF @ = None THEN t ELSE @]
     /\ pc' = [pc EXCEPT ![c] = IF routes[a] = None THEN "registered" ELSE "responding"]
     /\ UNCHANGED <<current, closing, peer, clientVars, tunnelVars, buffers, portVars, closeVars>>

\* HTTPRouter.RegisterTunnel, and inspect.Manager.Remove when it fails.
RegisterTunnel(c) ==
  LET t == current[c]
      a == addr[t]
  IN /\ pc[c] = "registering"
     /\ \/ /\ routes[a] = None
           /\ routes' = [routes EXCEPT ![a] = t]
           /\ pc' = [pc EXCEPT ![c] = "registered"]
           /\ UNCHANGED buffers
        \/ /\ routes[a] # None
           /\ buffers' = buffers \ {t}
           /\ pc' = [pc EXCEPT ![c] = "responding"]
           /\ UNCHANGED routes
     /\ UNCHANGED <<current, closing, peer, clientVars, tunnelVars, portVars, closeVars>>

\* The allocator hands out the port asked for, or any free one when none was.
Allocate(a) == a \notin used /\ used' = used \cup {a}

\* PortAllocator.Release
Release(a) == used' = used \ {a}

\* createTCPTunnel and createUDPTunnel, up to the reservation of the port.
RequestPort(c, t, a) ==
  /\ CanRead(c)
  /\ Heard(c)
  /\ WithinLimits(c)
  /\ Allocate(a)
  /\ NewTunnel(c, t, a)
  /\ pc' = [pc EXCEPT ![c] = "allocated"]
  /\ UNCHANGED <<closing, clientVars, tunnels, httpVars, socket, serving, closeVars>>

\* The kernel refuses a port that a socket of this process still has open.
boundSomewhere(a) == \E t \in Tunnels : addr[t] = a /\ socket[t] = "open"

\* net.Listen and net.ListenUDP; the port may also belong to another process.
BindPort(c) ==
  LET t == current[c]
      a == addr[t]
  IN /\ pc[c] = "allocated"
     /\ \/ /\ ~boundSomewhere(a)
           /\ socket' = [socket EXCEPT ![t] = "open"]
           /\ pc' = [pc EXCEPT ![c] = "bound"]
           /\ UNCHANGED used
        \/ /\ Release(a)
           /\ pc' = [pc EXCEPT ![c] = "responding"]
           /\ UNCHANGED socket
     /\ UNCHANGED <<current, closing, peer, clientVars, tunnelVars, httpVars, serving, closeVars>>

\* c.Tunnels[tunnelID] = tunnel, whether or not Close() has run meanwhile, and
\* for a port the goroutine that serves it.
RecordTunnel(c) ==
  LET t == current[c]
  IN /\ pc[c] \in {"registered", "bound"}
     /\ tunnels' = [tunnels EXCEPT ![c] = @ \cup {t}]
     /\ serving' = [serving EXCEPT ![t] = IF addr[t] \in TcpAddr THEN "running"
                                          ELSE IF addr[t] \in UdpAddr THEN "starting"
                                          ELSE @]
     /\ pc' = [pc EXCEPT ![c] = "responding"]
     /\ UNCHANGED <<current, closing, peer, clientVars, owner, addr, httpVars, used, socket,
                    closeVars>>

\* The answer is sent and the loop starts over.
Respond(c) ==
  /\ pc[c] = "responding"
  /\ current' = [current EXCEPT ![c] = None]
  /\ pc' = [pc EXCEPT ![c] = loop(c)]
  /\ UNCHANGED <<closing, peer, clientVars, tunnelVars, httpVars, portVars, closeVars>>

-----------------------------------------------------------------------------
(* Closing one tunnel: closeTunnel() run by handle() or by an API request. *)

\* Mutant: closeTunnel goes on when the tunnel has been deleted already.
TakeTunnelTwice(c, t) ==
  /\ owner[t] = c
  /\ t \in tunnels[c] \/ closer[t] = "done"
  /\ tunnels' = [tunnels EXCEPT ![c] = @ \ {t}]
  /\ closer' = [closer EXCEPT ![t] = "deleted"]

\* The tunnel leaves Client.Tunnels, which only one closer can achieve.
TakeTunnel(c, t) ==
  /\ t \in tunnels[c]
  /\ tunnels' = [tunnels EXCEPT ![c] = @ \ {t}]
  /\ closer' = [closer EXCEPT ![t] = "deleted"]

\* handleTunnelClose
ReadTunnelClose(c, t) ==
  /\ CanRead(c)
  /\ Heard(c)
  /\ TakeTunnel(c, t)
  /\ current' = [current EXCEPT ![c] = t]
  /\ pc' = [pc EXCEPT ![c] = "closingTunnel"]
  /\ UNCHANGED <<closing, clientVars, owner, addr, httpVars, portVars, apiClosing>>

\* AdminCloseTunnel, and CloseTunnelByID for a tunnel of the caller.
ApiCloseTunnel(c, t) ==
  /\ c \in clients
  /\ TakeTunnel(c, t)
  /\ apiClosing' = apiClosing \cup {t}
  /\ UNCHANGED <<connVars, clientVars, owner, addr, httpVars, portVars>>

\* HTTPRouter.UnregisterTunnel for the subdomains of T: by name, whichever
\* tunnel the router has under it.
Unregister(T) ==
  routes' = [a \in HttpAddr |-> IF \E t \in T : addr[t] = a THEN None ELSE routes[a]]

\* Mutants: the route is kept, the port is released here as well as by the
\* goroutine that serves it, the socket is left open.
ReleaseTunnelKeepsRoute(t) ==
  /\ closer[t] = "deleted"
  /\ closer' = [closer EXCEPT ![t] = "released"]
  /\ socket' = [socket EXCEPT ![t] = IF @ = "open" THEN "closed" ELSE @]
  /\ UNCHANGED <<connVars, clientVars, tunnelVars, httpVars, used, serving, apiClosing>>

ReleaseTunnelAndPort(t) ==
  /\ closer[t] = "deleted"
  /\ closer' = [closer EXCEPT ![t] = "released"]
  /\ Unregister({t})
  /\ socket' = [socket EXCEPT ![t] = IF @ = "open" THEN "closed" ELSE @]
  /\ Release(addr[t])
  /\ UNCHANGED <<connVars, clientVars, tunnelVars, buffers, serving, apiClosing>>

ReleaseTunnelKeepsSocket(t) ==
  /\ closer[t] = "deleted"
  /\ closer' = [closer EXCEPT ![t] = "released"]
  /\ Unregister({t})
  /\ UNCHANGED <<connVars, clientVars, tunnelVars, buffers, portVars, apiClosing>>

\* The switch of closeTunnel: the route is removed, or the socket closed.
ReleaseTunnel(t) ==
  /\ closer[t] = "deleted"
  /\ closer' = [closer EXCEPT ![t] = "released"]
  /\ Unregister({t})
  /\ socket' = [socket EXCEPT ![t] = IF @ = "open" THEN "closed" ELSE @]
  /\ UNCHANGED <<connVars, clientVars, tunnelVars, buffers, used, serving, apiClosing>>

\* The inspect buffer is removed, TunnelClosed is sent and the closer moves on.
FinishClose(t) ==
  LET c == owner[t]
  IN /\ closer[t] = "released"
     /\ closer' = [closer EXCEPT ![t] = "done"]
     /\ buffers' = buffers \ {t}
     /\ apiClosing' = apiClosing \ {t}
     /\ IF t \in apiClosing
        THEN UNCHANGED <<pc, current>>
        ELSE /\ pc' = [pc EXCEPT ![c] = loop(c)]
             /\ current' = [current EXCEPT ![c] = None]
     /\ UNCHANGED <<closing, peer, clientVars, tunnelVars, routes, portVars>>

-----------------------------------------------------------------------------
(* Closing a client: Close(), once.                                        *)

\* The deferred Close() of handle().
HandleReturns(c) ==
  /\ pc[c] = "returning"
  /\ closing[c] = "no"
  /\ closing' = [closing EXCEPT ![c] = "cancelled"]
  /\ UNCHANGED <<pc, current, peer, clientVars, tunnelVars, httpVars, portVars, closeVars>>

\* keepalive finds that lastPing is older than clientTimeout.
KeepaliveTimeout(c) ==
  /\ handling(c)
  /\ peer[c] = "silent"
  /\ closing[c] = "no"
  /\ closing' = [closing EXCEPT ![c] = "cancelled"]
  /\ UNCHANGED <<pc, current, peer, clientVars, tunnelVars, httpVars, portVars, closeVars>>

\* Every tunnel that is in Client.Tunnels now is taken down, under TunnelsMu.
DrainTunnels(c) ==
  LET T == tunnels[c]
  IN /\ closing[c] = "cancelled"
     /\ closing' = [closing EXCEPT ![c] = "drained"]
     /\ Unregister(T)
     /\ buffers' = buffers \ T
     /\ socket' = [t \in Tunnels |-> IF t \in T /\ socket[t] = "open" THEN "closed"
                                                                     ELSE socket[t]]
     /\ tunnels' = [tunnels EXCEPT ![c] = {}]
     /\ UNCHANGED <<pc, current, peer, clientVars, owner, addr, used, serving, closeVars>>

\* The control stream, the session and the data sessions are closed.
CloseSessions(c) ==
  /\ closing[c] = "drained"
  /\ closing' = [closing EXCEPT ![c] = "severed"]
  /\ UNCHANGED <<pc, current, peer, clientVars, tunnelVars, httpVars, portVars, closeVars>>

UnlinkUser(c) ==
  /\ closing[c] = "severed"
  /\ closing' = [closing EXCEPT ![c] = "unlinked"]
  /\ userClients' = [u \in Users |-> IF u = UserOf[c] THEN userClients[u] \ {c}
                                                      ELSE userClients[u]]
  /\ UNCHANGED <<pc, current, peer, clients, tunnelVars, httpVars, portVars, closeVars>>

\* Mutant: Close() ends without taking the client out of the map.
RemoveClientForgets(c) ==
  /\ closing[c] = "unlinked"
  /\ closing' = [closing EXCEPT ![c] = "done"]
  /\ UNCHANGED <<pc, current, peer, clientVars, tunnelVars, httpVars, portVars, closeVars>>

RemoveClient(c) ==
  /\ closing[c] = "unlinked"
  /\ clientsMuFree
  /\ closing' = [closing EXCEPT ![c] = "done"]
  /\ clients' = clients \ {c}
  /\ UNCHANGED <<pc, current, peer, userClients, tunnelVars, httpVars, portVars, closeVars>>

\* handle() ends; a Close() run by someone else is waited for by closeOnce.
Leave(c) ==
  /\ pc[c] = "returning"
  /\ closing[c] = "done"
  /\ pc' = [pc EXCEPT ![c] = "left"]
  /\ UNCHANGED <<current, closing, peer, clientVars, tunnelVars, httpVars, portVars, closeVars>>

-----------------------------------------------------------------------------
(* Serving a port: AcceptConnections() and HandlePackets().                *)

\* The deferred function's first half: ReleasePort.
ReleasePort(t) ==
  /\ serving' = [serving EXCEPT ![t] = "released"]
  /\ Release(addr[t])
  /\ UNCHANGED <<connVars, clientVars, tunnelVars, httpVars, socket, closeVars>>

\* Its second half: the socket is closed, if closeTunnel has not done so.
CloseSocket(t) ==
  /\ serving[t] = "released"
  /\ serving' = [serving EXCEPT ![t] = "exited"]
  /\ socket' = [socket EXCEPT ![t] = "closed"]
  /\ UNCHANGED <<connVars, clientVars, tunnelVars, httpVars, used, closeVars>>

\* Accept fails because the listener was closed.
AcceptFails(t) ==
  /\ serving[t] = "running"
  /\ addr[t] \in TcpAddr
  /\ socket[t] = "closed"
  /\ ReleasePort(t)

\* Accept fails while the listener is open: maxTempErrors time-outs in a row, or
\* one error that is not a time-out. The tunnel stays in Client.Tunnels.
AcceptGivesUp(t) ==
  /\ serving[t] = "running"
  /\ addr[t] \in TcpAddr
  /\ socket[t] = "open"
  /\ ReleasePort(t)

\* HandlePackets opens its stream and sends the header.
OpenUdpStream(t) ==
  /\ serving[t] = "starting"
  /\ ~severed(owner[t])
  /\ serving' = [serving EXCEPT ![t] = "running"]
  /\ UNCHANGED <<connVars, clientVars, tunnelVars, httpVars, used, socket, closeVars>>

\* It fails to.
OpenUdpStreamFails(t) ==
  /\ serving[t] = "starting"
  /\ ReleasePort(t)

\* The stream cannot be read any more: the session is gone.
UdpSessionEnds(t) ==
  /\ serving[t] = "running"
  /\ addr[t] \in UdpAddr
  /\ severed(owner[t]) \/ peer[owner[t]] = "broken"
  /\ ReleasePort(t)

\* The client closes its end of the stream, or a packet of its arrives and the
\* context turns out to be done.
UdpPeerCloses(t) ==
  /\ serving[t] = "running"
  /\ addr[t] \in UdpAddr
  /\ ReleasePort(t)

-----------------------------------------------------------------------------

Connection(c) ==
  \/ AddClient(c) \/ LinkUser(c) \/ SendAuthResult(c)
  \/ ReadFails(c) \/ ReadInert(c)
  \/ RegisterTunnel(c) \/ BindPort(c) \/ RecordTunnel(c) \/ Respond(c)
  \/ HandleReturns(c) \/ Leave(c)

Closing(c) ==
  \/ KeepaliveTimeout(c) \/ DrainTunnels(c) \/ CloseSessions(c)
  \/ UnlinkUser(c) \/ RemoveClient(c)

Request(c, t) ==
  \/ \E a \in HttpAddr : RequestHTTP(c, t, a)
  \/ \E a \in PortAddr : RequestPort(c, t, a)
  \/ ReadTunnelClose(c, t)
  \/ ApiCloseTunnel(c, t)

Serving(t) ==
  \/ AcceptFails(t) \/ AcceptGivesUp(t)
  \/ OpenUdpStream(t) \/ OpenUdpStreamFails(t) \/ UdpSessionEnds(t) \/ UdpPeerCloses(t)
  \/ CloseSocket(t)

Next ==
  \/ \E c \in Clients : PeerBreaks(c) \/ PeerSilent(c) \/ Connection(c) \/ Closing(c)
  \/ \E c \in Clients, t \in Tunnels : Request(c, t)
  \/ \E t \in Tunnels : ReleaseTunnel(t) \/ FinishClose(t) \/ Serving(t)

Spec == Init /\ [][Next]_vars

\* Every goroutine of the server goes on as long as it can. Peers owe nothing:
\* no fairness for connecting, for sending, or for closing a UDP stream.
Goroutine(c) ==
  \/ LinkUser(c) \/ SendAuthResult(c) \/ ReadFails(c)
  \/ RegisterTunnel(c) \/ BindPort(c) \/ RecordTunnel(c) \/ Respond(c)
  \/ HandleReturns(c) \/ Leave(c)

Close(c) == DrainTunnels(c) \/ CloseSessions(c) \/ UnlinkUser(c) \/ RemoveClient(c)

Fairness ==
  /\ \A c \in Clients : WF_vars(Goroutine(c)) /\ WF_vars(Close(c)) /\ WF_vars(KeepaliveTimeout(c))
  /\ \A t \in Tunnels :
       /\ WF_vars(ReleaseTunnel(t) \/ FinishClose(t))
       /\ WF_vars(AcceptFails(t) \/ UdpSessionEnds(t) \/ CloseSocket(t))
       /\ WF_vars(OpenUdpStream(t) \/ OpenUdpStreamFails(t))

FairSpec == Spec /\ Fairness

-----------------------------------------------------------------------------
(* Properties.                                                             *)

TypeOK ==
  /\ pc \in [Clients -> Pc]
  /\ current \in [Clients -> Tunnels \cup {None}]
  /\ closing \in [Clients -> ClosePhase]
  /\ peer \in [Clients -> {"up", "silent", "broken"}]
  /\ clients \subseteq Clients
  /\ userClients \in [Users -> SUBSET Clients]
  /\ tunnels \in [Clients -> SUBSET Tunnels]
  /\ owner \in [Tunnels -> Clients \cup {None}]
  /\ addr \in [Tunnels -> Addresses \cup {None}]
  /\ routes \in [HttpAddr -> Tunnels \cup {None}]
  /\ buffers \subseteq Tunnels
  /\ used \subseteq PortAddr
  /\ socket \in [Tunnels -> {"none", "open", "closed"}]
  /\ serving \in [Tunnels -> {"no", "starting", "running", "released", "exited"}]
  /\ closer \in [Tunnels -> {"no", "deleted", "released", "done"}]
  /\ apiClosing \subseteq Tunnels

\* t is the tunnel that the handler of its owner works on, at one of steps.
inHand(t, steps) == owner[t] # None /\ current[owner[t]] = t /\ pc[owner[t]] \in steps

recorded(t) == owner[t] # None /\ t \in tunnels[owner[t]]

\* Every entry of the router belongs to a tunnel that somebody is going to
\* take down: it is recorded by its owner, or still in the hands of the
\* handler that registered it, or of the closer that deleted it. A route no
\* one is responsible for would answer "Tunnel unavailable" until the server
\* restarts and keep its subdomain taken.
RoutesAccounted ==
  \A a \in HttpAddr : routes[a] # None =>
    LET t == routes[a]
    IN /\ addr[t] = a
       /\ recorded(t) \/ inHand(t, {"registered"}) \/ closer[t] = "deleted"

\* The same for the inspect buffers.
BuffersAccounted ==
  \A t \in buffers :
    \/ recorded(t)
    \/ inHand(t, {"registering", "registered"})
    \/ closer[t] \in {"deleted", "released"}

\* An HTTP tunnel that its owner holds is routed to and inspected. The router
\* is cleaned by subdomain alone, so it takes only one closer too many, or
\* one too late, to take down the route of the tunnel that came after.
LiveTunnelsRouted ==
  \A c \in Clients : \A t \in tunnels[c] :
    addr[t] \in HttpAddr => routes[addr[t]] = t /\ t \in buffers

\* t holds port a: its handler has reserved it, or its goroutine serves it.
holdsPort(t, a) ==
  /\ addr[t] = a
  /\ inHand(t, {"allocated", "bound"}) \/ serving[t] \in {"starting", "running"}

\* The port allocator's books are right: a port is used if and only if one
\* tunnel holds it. No release ever frees the reservation of someone else.
PortsAccounted ==
  /\ \A a \in PortAddr : a \in used <=> \E t \in Tunnels : holdsPort(t, a)
  /\ \A a \in PortAddr : \A t, u \in Tunnels : holdsPort(t, a) /\ holdsPort(u, a) => t = u

\* Close() does not see a tunnel that its owner's handler records afterwards;
\* but handle() looks at the context before each message, so at most one
\* tunnel per client can come late.
OneLateTunnel ==
  \A c \in Clients : drained(c) => \A t, u \in tunnels[c] : t = u

\* The per-token limit: requests of one connection are handled one at a time.
TokenLimit ==
  \A c \in Clients : TokenMax[c] > 0 => Cardinality(tunnels[c]) <= TokenMax[c]

clientsOf(u) == {c \in Clients : UserOf[c] = u}

\* The plan's limit is checked before the tunnel is created and without a
\* lock, so the connections of one user may pass it together: by one tunnel
\* for each connection beyond the first, never by more. Every connection goes
\* by the plan its user had when it connected; the most generous one counts.
\* Tunnels that came late are not counted.
PlanLimit ==
  \A u \in Users : clientsOf(u) # {} => \E c \in clientsOf(u) :
    PlanMax[c] > 0 =>
      Cardinality(UNION {tunnels[d] : d \in {e \in clientsOf(u) : ~drained(e)}})
        < PlanMax[c] + Cardinality(clientsOf(u))

\* The registry leases addresses as AddressLease says.
holders == [a \in Addresses |->
              IF a \in HttpAddr THEN {t \in Tunnels : routes[a] = t}
                                ELSE {t \in Tunnels : holdsPort(t, a)}]
holdsAny(t) == \E a \in Addresses : t \in holders[a]
expired == {t \in Tunnels : owner[t] # None /\ ~inHand(t, {"registering"}) /\ ~holdsAny(t)}
Lease == INSTANCE AddressLease
LeaseSpec == Lease!Spec

-----------------------------------------------------------------------------

removed(c) == pc[c] = "left" /\ c \notin clients /\ \A u \in Users : c \notin userClients[u]

\* A peer that is gone, or stays silent, does not stay registered: unless it
\* speaks again before the time-out, its client is closed and forgotten.
DeadPeersRemoved ==
  \A c \in Clients :
    (pc[c] # "none" /\ peer[c] # "up") ~> (removed(c) \/ (peer[c] = "up" /\ closing[c] = "no"))

freed(t) ==
  /\ t \notin buffers
  /\ \A a \in HttpAddr : routes[a] # t
  /\ \A a \in PortAddr : ~holdsPort(t, a)
  /\ socket[t] # "open"

\* When a client has left, everything its tunnels occupied is given back, but
\* for a tunnel recorded too late for Close() to see.
LeftClientsFreed ==
  \A c \in Clients, t \in Tunnels :
    (pc[c] = "left" /\ owner[t] = c /\ t \notin tunnels[c]) ~> freed(t)

\* A closed HTTP or TCP tunnel gives back its address while its client stays.
ClosedTunnelsFreed ==
  \A t \in Tunnels : (closer[t] # "no" /\ addr[t] \notin UdpAddr) ~> freed(t)

\* Tunnels give back what they occupied: with their client, but for UDP also
\* while it stays (Client.Close, closeTunnel).
AddressesFreed == LeftClientsFreed /\ ClosedTunnelsFreed

\* "Ports are released when tunnels are closed" (udp_manager.go, Stop), for
\* the tunnels of a client that goes on.
UdpPortsReleased ==
  \A t \in Tunnels : (closer[t] # "no" /\ addr[t] \in UdpAddr) ~> freed(t)
=============================================================================

------------------------- MODULE TunnelServerProofs -------------------------
(***************************************************************************)
(* Proofs about TunnelServer, for any number of connections, tunnels and   *)
(* addresses.                                                              *)
(***************************************************************************)
EXTENDS TunnelServer, FiniteSetTheorems, TLAPS

(***************************************************************************)
(* The inductive invariant. The books (PortsAccounted, RoutesAccounted,    *)
(* LiveTunnelsRouted) are kept by several goroutines; they balance because *)
(* at any time exactly one of them is in charge of a tunnel: the handler   *)
(* that creates it, then Client.Tunnels, then whoever took it from there.  *)
(***************************************************************************)

creating == {"registering", "registered", "allocated", "bound"}

\* An ID that has not been generated is nowhere.
FreshInv ==
  \A t \in Tunnels : owner[t] = None =>
    /\ addr[t] = None
    /\ serving[t] = "no"
    /\ closer[t] = "no"
    /\ t \notin apiClosing

\* The tunnel that a handler creates is its own, and nobody else knows it.
HandlerInv ==
  \A c \in Clients : pc[c] \in creating =>
    /\ current[c] \in Tunnels
    /\ owner[current[c]] = c
    /\ pc[c] \in {"registering", "registered"} => addr[current[c]] \in HttpAddr
    /\ pc[c] \in {"allocated", "bound"} => addr[current[c]] \in PortAddr
    /\ serving[current[c]] = "no"
    /\ closer[current[c]] = "no"
    /\ current[c] \notin tunnels[c]

\* A recorded tunnel is complete, its owner's, and nobody closes it.
RecordInv ==
  \A c \in Clients : \A t \in tunnels[c] :
    /\ owner[t] = c
    /\ addr[t] \in Addresses
    /\ closer[t] = "no"

\* A tunnel that is being closed is in the hands of one closer: an API request,
\* or its owner's handler.
CloserInv ==
  /\ \A t \in Tunnels : closer[t] \in {"deleted", "released"} =>
       /\ owner[t] # None
       /\ t \notin apiClosing => current[owner[t]] = t /\ pc[owner[t]] = "closingTunnel"
  /\ \A t \in apiClosing : closer[t] \in {"deleted", "released"}

\* Only ports are served.
ServingInv == \A t \in Tunnels : serving[t] # "no" => addr[t] \in PortAddr

\* The router has the entry of each tunnel that somebody is in charge of, and
\* no other entry.
RoutesInv ==
  /\ RoutesAccounted
  /\ \A a \in HttpAddr : routes[a] # None => owner[routes[a]] # None
  /\ \A t \in Tunnels :
       /\ addr[t] \in HttpAddr
       /\ recorded(t) \/ inHand(t, {"registered"}) \/ closer[t] = "deleted"
       => routes[addr[t]] = t

\* So it is with the inspect buffers.
BuffersInv ==
  /\ BuffersAccounted
  /\ \A t \in Tunnels :
       /\ addr[t] \in HttpAddr
       /\ recorded(t) \/ inHand(t, {"registering", "registered"})
       => t \in buffers

\* A handler that can still create a tunnel after Close() has emptied
\* Client.Tunnels has not done so yet.
LateInv ==
  \A c \in Clients :
    /\ ctxDone(c) => handling(c) \/ pc[c] = "left"
    /\ drained(c) /\ pc[c] \in {"reading"} \cup creating => tunnels[c] = {}

Inv ==
  /\ TypeOK
  /\ FreshInv
  /\ HandlerInv
  /\ RecordInv
  /\ CloserInv
  /\ ServingInv
  /\ PortsAccounted
  /\ RoutesInv
  /\ BuffersInv
  /\ LateInv
  /\ OneLateTunnel

-----------------------------------------------------------------------------
(* What a step may do to the ports: nothing, a grant, or a release.          *)

\* The books stay right when neither the holders nor the used ports change.
LEMMA PortsKept ==
  ASSUME PortsAccounted, used' = used,
         \A t \in Tunnels, a \in PortAddr : holdsPort(t, a)' <=> holdsPort(t, a)
  PROVE  PortsAccounted'
  BY DEF PortsAccounted

\* They stay right when a port that is not used is given to one tunnel.
LEMMA PortGranted ==
  ASSUME PortsAccounted, NEW t \in Tunnels, NEW a \in PortAddr,
         a \notin used, used' = used \cup {a},
         \A u \in Tunnels, b \in PortAddr :
           holdsPort(u, b)' <=> holdsPort(u, b) \/ (u = t /\ b = a)
  PROVE  PortsAccounted'
  BY DEF PortsAccounted

\* They stay right when a holder releases its port.
LEMMA PortReleased ==
  ASSUME PortsAccounted, NEW t \in Tunnels, NEW a \in PortAddr,
         holdsPort(t, a), used' = used \ {a},
         \A u \in Tunnels, b \in PortAddr :
           holdsPort(u, b)' <=> holdsPort(u, b) /\ ~(u = t /\ b = a)
  PROVE  PortsAccounted'
  BY DEF PortsAccounted

-----------------------------------------------------------------------------
(* The parts of Inv, and the vocabulary they are written in, are open in all *)
(* that follows: a leaf names the action it expands.                         *)

USE AddressAssumption, NoneAssumption, ClientAssumption
USE DEF connVars, clientVars, tunnelVars, httpVars, portVars, closeVars,
        Pc, ClosePhase, Addresses, PortAddr, creating,
        ctxDone, drained, severed, handling, loop, Allocate, Release, Unregister, inHand, recorded, holdsPort,
        TypeOK, FreshInv, HandlerInv, RecordInv, CloserInv, ServingInv, PortsAccounted,
        RoutesAccounted, RoutesInv, BuffersAccounted, BuffersInv, LateInv, OneLateTunnel

\* The program starts with an empty registry: every part of the invariant
\* holds.
LEMMA InitInv == Init => Inv
  BY DEF Init, Inv

-----------------------------------------------------------------------------
(* A handler creates a tunnel.                                               *)

\* A new subdomain tunnel holds no port, so the ports stay accounted for.
LEMMA RequestHTTPInv ==
  ASSUME Inv, NEW c \in Clients, NEW t \in Tunnels, NEW a \in HttpAddr, RequestHTTP(c, t, a)
  PROVE  Inv'
<1> USE DEF Inv, RequestHTTP, NewTunnel, CanRead, Heard
<1>1. TypeOK'
  BY SMTT(30)
<1>2. FreshInv' /\ HandlerInv' /\ RecordInv' /\ CloserInv' /\ ServingInv'
  BY SMTT(30)
<1>3. PortsAccounted'
  <2>1. \A u \in Tunnels, b \in PortAddr : holdsPort(u, b)' <=> holdsPort(u, b)
    BY SMTT(30)
  <2>2. PortsAccounted /\ used' = used
    OBVIOUS
  <2> HIDE DEF Inv, RequestHTTP, PortsAccounted, holdsPort
  <2> QED
    BY <2>1, <2>2, PortsKept
<1>4. RoutesInv' /\ BuffersInv'
  BY SMTT(30)
<1>5. LateInv' /\ OneLateTunnel'
  BY SMTT(30)
<1> QED
  BY <1>1, <1>2, <1>3, <1>4, <1>5

\* The allocator hands out a port that no tunnel holds, and the new tunnel
\* becomes its only holder.
LEMMA RequestPortInv ==
  ASSUME Inv, NEW c \in Clients, NEW t \in Tunnels, NEW a \in PortAddr, RequestPort(c, t, a)
  PROVE  Inv'
<1> USE DEF Inv, RequestPort, NewTunnel, CanRead, Heard
<1>1. TypeOK'
  BY SMTT(30)
<1>2. FreshInv' /\ HandlerInv' /\ RecordInv' /\ CloserInv' /\ ServingInv'
  BY SMTT(30)
<1>3. PortsAccounted'
  <2>1. \A u \in Tunnels, b \in PortAddr :
          holdsPort(u, b)' <=> holdsPort(u, b) \/ (u = t /\ b = a)
    BY SMTT(30)
  <2>2. PortsAccounted /\ a \notin used /\ used' = used \cup {a}
    OBVIOUS
  <2> HIDE DEF Inv, RequestPort, PortsAccounted, holdsPort
  <2> QED
    BY <2>1, <2>2, PortGranted
<1>4. RoutesInv' /\ BuffersInv'
  BY SMTT(30)
<1>5. LateInv' /\ OneLateTunnel'
  BY SMTT(30)
<1> QED
  BY <1>1, <1>2, <1>3, <1>4, <1>5

\* The handler registers the subdomain, or finds it taken and keeps nothing.
LEMMA RegisterTunnelInv ==
  ASSUME Inv, NEW c \in Clients, RegisterTunnel(c)
  PROVE  Inv'
<1> USE DEF Inv, RegisterTunnel
<1>1. TypeOK'
  <2>1. current[c] \in Tunnels /\ addr[current[c]] \in HttpAddr
    BY SMTT(30)
  <2>2. routes' \in [HttpAddr -> Tunnels \cup {None}] /\ buffers' \subseteq Tunnels
    BY <2>1, SMTT(30)
  <2> QED
    BY <2>2, SMTT(30)
<1>2. FreshInv' /\ HandlerInv' /\ RecordInv' /\ CloserInv' /\ ServingInv'
  BY SMTT(30)
<1>3. PortsAccounted'
  BY SMTT(30)
<1>4. RoutesInv'
  BY SMTT(30)
<1>5. BuffersInv'
  BY SMTT(30)
<1>6. LateInv' /\ OneLateTunnel'
  BY SMTT(30)
<1> QED
  BY <1>1, <1>2, <1>3, <1>4, <1>5, <1>6

\* The handler binds the port, or gives it back.
LEMMA BindPortInv ==
  ASSUME Inv, NEW c \in Clients, BindPort(c)
  PROVE  Inv'
<1> USE DEF Inv, BindPort
<1>1. TypeOK'
  BY SMTT(30)
<1>2. FreshInv' /\ HandlerInv' /\ RecordInv' /\ CloserInv' /\ ServingInv'
  BY SMTT(30)
<1>3. PortsAccounted'
  BY SMTT(30)
<1>4. RoutesInv' /\ BuffersInv'
  BY SMTT(30)
<1>5. LateInv' /\ OneLateTunnel'
  BY SMTT(30)
<1> QED
  BY <1>1, <1>2, <1>3, <1>4, <1>5

\* The handler hands the tunnel over to Client.Tunnels. If Close() has emptied
\* that map already, this is the one tunnel that comes late.
LEMMA RecordTunnelInv ==
  ASSUME Inv, NEW c \in Clients, RecordTunnel(c)
  PROVE  Inv'
<1> USE DEF Inv, RecordTunnel
<1>1. TypeOK'
  BY SMTT(30)
<1>2. FreshInv' /\ HandlerInv'
  BY SMTT(30)
<1>3. RecordInv' /\ CloserInv' /\ ServingInv'
  BY SMTT(30)
<1>4. PortsAccounted'
  BY SMTT(30)
<1>5. RoutesInv'
  BY SMTT(30)
<1>6. BuffersInv'
  BY SMTT(30)
<1>7. LateInv' /\ OneLateTunnel'
  BY SMTT(30)
<1> QED
  BY <1>1, <1>2, <1>3, <1>4, <1>5, <1>6, <1>7

-----------------------------------------------------------------------------
(* A tunnel is closed.                                                       *)

\* The handler takes the tunnel out of Client.Tunnels and is in charge of it.
LEMMA ReadTunnelCloseInv ==
  ASSUME Inv, NEW c \in Clients, NEW t \in Tunnels, ReadTunnelClose(c, t)
  PROVE  Inv'
<1> USE DEF Inv, ReadTunnelClose, TakeTunnel, CanRead, Heard
<1>1. TypeOK'
  BY SMTT(30)
<1>2. FreshInv' /\ HandlerInv' /\ RecordInv' /\ ServingInv'
  BY SMTT(30)
<1>3. CloserInv'
  BY SMTT(30)
<1>4. PortsAccounted'
  BY SMTT(30)
<1>5. RoutesInv'
  BY SMTT(30)
<1>6. BuffersInv'
  BY SMTT(30)
<1>7. LateInv' /\ OneLateTunnel'
  BY SMTT(30)
<1> QED
  BY <1>1, <1>2, <1>3, <1>4, <1>5, <1>6, <1>7

\* So it is with an API request, which works on it alongside the handler.
LEMMA ApiCloseTunnelInv ==
  ASSUME Inv, NEW c \in Clients, NEW t \in Tunnels, ApiCloseTunnel(c, t)
  PROVE  Inv'
<1> USE DEF Inv, ApiCloseTunnel, TakeTunnel
<1>1. TypeOK' /\ FreshInv' /\ HandlerInv' /\ RecordInv' /\ CloserInv' /\ ServingInv'
  BY SMTT(30)
<1>2. PortsAccounted'
  BY SMTT(30)
<1>3. RoutesInv' /\ BuffersInv'
  BY SMTT(30)
<1>4. LateInv' /\ OneLateTunnel'
  BY SMTT(30)
<1> QED
  BY <1>1, <1>2, <1>3, <1>4

\* The closer, whoever it is, drops the buffer and lets go of the tunnel.
LEMMA FinishCloseInv ==
  ASSUME Inv, NEW t \in Tunnels, FinishClose(t)
  PROVE  Inv'
<1> USE DEF Inv, FinishClose
<1>1. TypeOK'
  BY SMTT(30)
<1>2. FreshInv' /\ HandlerInv' /\ RecordInv' /\ CloserInv' /\ ServingInv'
  BY SMTT(30)
<1>3. PortsAccounted'
  <2>1. \A u \in Tunnels, b \in PortAddr : holdsPort(u, b)' <=> holdsPort(u, b)
    BY SMTT(30)
  <2>2. PortsAccounted /\ used' = used
    OBVIOUS
  <2> HIDE DEF Inv, FinishClose, PortsAccounted, holdsPort
  <2> QED
    BY <2>1, <2>2, PortsKept
<1>4. RoutesInv' /\ BuffersInv'
  BY SMTT(30)
<1>5. LateInv' /\ OneLateTunnel'
  BY SMTT(30)
<1> QED
  BY <1>1, <1>2, <1>3, <1>4, <1>5

\* The goroutine that serves a port gives it back, and nobody else does.
LEMMA ReleasePortInv ==
  ASSUME Inv, NEW t \in Tunnels, serving[t] \in {"starting", "running"}, ReleasePort(t)
  PROVE  Inv'
<1> USE DEF Inv, ReleasePort
<1>1. TypeOK' /\ FreshInv' /\ HandlerInv' /\ RecordInv' /\ CloserInv' /\ ServingInv'
  BY SMTT(30)
<1>2. PortsAccounted'
  <2>1. addr[t] \in PortAddr /\ holdsPort(t, addr[t])
    BY SMTT(30)
  <2>2. \A u \in Tunnels, b \in PortAddr :
          holdsPort(u, b)' <=> holdsPort(u, b) /\ ~(u = t /\ b = addr[t])
    BY SMTT(30)
  <2>3. PortsAccounted /\ used' = used \ {addr[t]}
    OBVIOUS
  <2> HIDE DEF Inv, ReleasePort, PortsAccounted, holdsPort
  <2> QED
    BY <2>1, <2>2, <2>3, PortReleased
<1>3. RoutesInv' /\ BuffersInv' /\ LateInv' /\ OneLateTunnel'
  BY SMTT(30)
<1> QED
  BY <1>1, <1>2, <1>3

-----------------------------------------------------------------------------

\* Every step of every goroutine keeps the invariant.
LEMMA StepInv == Inv /\ [Next]_vars => Inv'
<1> SUFFICES ASSUME Inv, [Next]_vars
             PROVE  Inv'
  OBVIOUS
<1>1. ASSUME NEW c \in Clients, PeerBreaks(c) \/ PeerSilent(c)
      PROVE  Inv'
  BY <1>1, SMTT(30) DEF Inv, PeerBreaks, PeerSilent
<1>2. ASSUME NEW c \in Clients, Connection(c)
      PROVE  Inv'
  <2>1. CASE AddClient(c)
    BY <2>1, SMTT(30) DEF Inv, AddClient
  <2>2. CASE LinkUser(c)
    BY <2>2, SMTT(30) DEF Inv, LinkUser
  <2>3. CASE SendAuthResult(c)
    <3>1. PortsAccounted'
      <4>1. \A t \in Tunnels, a \in PortAddr : holdsPort(t, a)' <=> holdsPort(t, a)
        BY <2>3, SMTT(30) DEF Inv, SendAuthResult
      <4> QED
        BY <2>3, <4>1, PortsKept DEF Inv, SendAuthResult
    <3> QED
      BY <2>3, <3>1, SMTT(30) DEF Inv, SendAuthResult
  <2>4. CASE ReadFails(c)
    BY <2>4, SMTT(30) DEF Inv, ReadFails
  <2>5. CASE ReadInert(c)
    BY <2>5, SMTT(30) DEF Inv, ReadInert, CanRead, Heard
  <2>6. CASE RegisterTunnel(c)
    BY <2>6, RegisterTunnelInv
  <2>7. CASE BindPort(c)
    BY <2>7, BindPortInv
  <2>8. CASE RecordTunnel(c)
    BY <2>8, RecordTunnelInv
  <2>9. CASE Respond(c)
    BY <2>9, SMTT(30) DEF Inv, Respond
  <2>10. CASE HandleReturns(c)
    BY <2>10, SMTT(30) DEF Inv, HandleReturns
  <2>11. CASE Leave(c)
    BY <2>11, SMTT(30) DEF Inv, Leave
  <2> QED
    BY <1>2, <2>1, <2>2, <2>3, <2>4, <2>5, <2>6, <2>7, <2>8, <2>9, <2>10, <2>11 DEF Connection
<1>3. ASSUME NEW c \in Clients, Closing(c)
      PROVE  Inv'
  <2>1. CASE KeepaliveTimeout(c)
    BY <2>1, SMTT(30) DEF Inv, KeepaliveTimeout
  <2>2. CASE DrainTunnels(c)
    BY <2>2, SMTT(30) DEF Inv, DrainTunnels
  <2>3. CASE CloseSessions(c)
    BY <2>3, SMTT(30) DEF Inv, CloseSessions
  <2>4. CASE UnlinkUser(c)
    BY <2>4, SMTT(30) DEF Inv, UnlinkUser
  <2>5. CASE RemoveClient(c)
    BY <2>5, SMTT(30) DEF Inv, RemoveClient
  <2> QED
    BY <1>3, <2>1, <2>2, <2>3, <2>4, <2>5 DEF Closing
<1>4. ASSUME NEW c \in Clients, NEW t \in Tunnels, Request(c, t)
      PROVE  Inv'
  <2>1. CASE \E a \in HttpAddr : RequestHTTP(c, t, a)
    BY <2>1, RequestHTTPInv
  <2>2. CASE \E a \in PortAddr : RequestPort(c, t, a)
    BY <2>2, RequestPortInv
  <2>3. CASE ReadTunnelClose(c, t)
    BY <2>3, ReadTunnelCloseInv
  <2>4. CASE ApiCloseTunnel(c, t)
    BY <2>4, ApiCloseTunnelInv
  <2> QED
    BY <1>4, <2>1, <2>2, <2>3, <2>4 DEF Request
<1>5. ASSUME NEW t \in Tunnels, ReleaseTunnel(t)
      PROVE  Inv'
  BY <1>5, SMTT(30) DEF Inv, ReleaseTunnel
<1>6. ASSUME NEW t \in Tunnels, FinishClose(t)
      PROVE  Inv'
  BY <1>6, FinishCloseInv
<1>7. ASSUME NEW t \in Tunnels, Serving(t)
      PROVE  Inv'
  <2>1. CASE AcceptFails(t) \/ AcceptGivesUp(t)
    BY <2>1, ReleasePortInv, SMTT(30) DEF AcceptFails, AcceptGivesUp
  <2>2. CASE OpenUdpStream(t)
    BY <2>2, SMTT(30) DEF Inv, OpenUdpStream
  <2>3. CASE OpenUdpStreamFails(t) \/ UdpSessionEnds(t) \/ UdpPeerCloses(t)
    BY <2>3, ReleasePortInv, SMTT(30) DEF OpenUdpStreamFails, UdpSessionEnds, UdpPeerCloses
  <2>4. CASE CloseSocket(t)
    BY <2>4, SMTT(30) DEF Inv, CloseSocket
  <2> QED
    BY <1>7, <2>1, <2>2, <2>3, <2>4 DEF Serving
<1>8. CASE UNCHANGED vars
  BY <1>8, SMTT(30) DEF Inv, vars
<1> QED
  BY <1>1, <1>2, <1>3, <1>4, <1>5, <1>6, <1>7, <1>8 DEF Next

\* Inv is an invariant of the registry.
THEOREM Invariance == Spec => []Inv
  BY InitInv, StepInv, PTL DEF Spec

\* Every variable keeps to its type.
THEOREM TypeCorrect == Spec => []TypeOK
<1>1. Inv => TypeOK
  BY DEF Inv
<1> QED
  BY <1>1, Invariance, PTL

\* The port allocators' books are right at any time, whichever goroutines are
\* in the middle of allocating, binding, closing and releasing.
THEOREM PortsCorrect == Spec => []PortsAccounted
<1>1. Inv => PortsAccounted
  BY DEF Inv
<1> QED
  BY <1>1, Invariance, PTL

\* The router has no entry that nobody is going to take down.
THEOREM RoutesCorrect == Spec => []RoutesAccounted
<1>1. Inv => RoutesAccounted
  BY DEF Inv
<1> QED
  BY <1>1, Invariance, PTL

\* There is no inspect buffer that nobody is going to remove.
THEOREM BuffersCorrect == Spec => []BuffersAccounted
<1>1. Inv => BuffersAccounted
  BY DEF Inv
<1> QED
  BY <1>1, Invariance, PTL

\* A tunnel that its owner holds is served: no closer ever takes down the route
\* or the buffer of a tunnel other than its own.
THEOREM LiveTunnelsCorrect == Spec => []LiveTunnelsRouted
<1>1. Inv => LiveTunnelsRouted
  <2> SUFFICES ASSUME Inv, NEW c \in Clients, NEW t \in tunnels[c], addr[t] \in HttpAddr
               PROVE  routes[addr[t]] = t /\ t \in buffers
    BY DEF LiveTunnelsRouted
  <2>1. t \in Tunnels /\ recorded(t)
    BY DEF Inv
  <2> QED
    BY <2>1 DEF Inv
<1> QED
  BY <1>1, Invariance, PTL

\* At most one tunnel of a client escapes its Close().
THEOREM LateTunnelsCorrect == Spec => []OneLateTunnel
<1>1. Inv => OneLateTunnel
  BY DEF Inv
<1> QED
  BY <1>1, Invariance, PTL

-----------------------------------------------------------------------------
(* The limit of a token.                                                     *)

\* Between the check and the moment a tunnel is recorded, Client.Tunnels of
\* that client only shrinks: there is room for the tunnel in hand.
TokenInv ==
  \A c \in Clients :
    /\ IsFiniteSet(tunnels[c])
    /\ TokenMax[c] > 0 =>
         /\ Cardinality(tunnels[c]) <= TokenMax[c]
         /\ pc[c] \in creating => Cardinality(tunnels[c]) < TokenMax[c]

\* A set that loses elements stays within a bound.
LEMMA SmallerSet ==
  ASSUME NEW S, IsFiniteSet(S), NEW T \in SUBSET S
  PROVE  IsFiniteSet(T) /\ Cardinality(T) \in Nat /\ Cardinality(S) \in Nat
           /\ Cardinality(T) <= Cardinality(S)
  BY FS_Subset, FS_CardinalityType

\* A step that records no tunnel, and starts to create one only within the
\* limit, keeps TokenInv.
LEMMA TokenKept ==
  ASSUME TokenInv, TypeOK,
         \A c \in Clients :
           /\ tunnels'[c] \subseteq tunnels[c]
           /\ pc'[c] \in creating => \/ pc[c] \in creating
                                     \/ TokenMax[c] > 0 => Cardinality(tunnels[c]) < TokenMax[c]
  PROVE  TokenInv'
<1> SUFFICES ASSUME NEW c \in Clients
             PROVE  /\ IsFiniteSet(tunnels'[c])
                    /\ TokenMax[c] > 0 =>
                         /\ Cardinality(tunnels'[c]) <= TokenMax[c]
                         /\ pc'[c] \in creating => Cardinality(tunnels'[c]) < TokenMax[c]
  BY DEF TokenInv
<1>1. /\ IsFiniteSet(tunnels'[c])
      /\ Cardinality(tunnels'[c]) \in Nat /\ Cardinality(tunnels[c]) \in Nat
      /\ Cardinality(tunnels'[c]) <= Cardinality(tunnels[c])
  BY SmallerSet DEF TokenInv
<1> QED
  BY <1>1 DEF TokenInv

\* The token limit is never passed, however the requests of a connection,
\* API closes and Close() interleave.
THEOREM TokenLimitCorrect == Spec => []TokenLimit
<1>1. Init => TokenInv
  BY FS_EmptySet DEF Init, TokenInv
<1>2. Inv /\ TokenInv /\ [Next]_vars => TokenInv'
  <2> SUFFICES ASSUME Inv, TokenInv, [Next]_vars
               PROVE  TokenInv'
    OBVIOUS
  <2>1. TypeOK
    BY DEF Inv
  <2>2. CASE \E c \in Clients : RecordTunnel(c)
    <3>1. PICK c \in Clients : RecordTunnel(c)
      BY <2>2
    <3>2. /\ current[c] \notin tunnels[c]
          /\ tunnels' = [tunnels EXCEPT ![c] = tunnels[c] \cup {current[c]}]
          /\ pc[c] \in creating
          /\ pc' = [pc EXCEPT ![c] = "responding"]
      BY <3>1 DEF RecordTunnel, Inv
    <3>3. /\ IsFiniteSet(tunnels'[c])
          /\ Cardinality(tunnels'[c]) = Cardinality(tunnels[c]) + 1
          /\ Cardinality(tunnels[c]) \in Nat
      BY <2>1, <3>2, FS_AddElement, FS_CardinalityType DEF TokenInv
    <3> QED
      BY <2>1, <3>2, <3>3 DEF TokenInv
  <2>3. ASSUME NEW c \in Clients, NEW t \in Tunnels, Request(c, t)
        PROVE  TokenInv'
    BY <2>1, <2>3, TokenKept
    DEF Request, RequestHTTP, RequestPort, ReadTunnelClose, ApiCloseTunnel, WithinLimits, NewTunnel,
        TakeTunnel, CanRead
  <2>4. CASE \E c \in Clients : DrainTunnels(c)
    BY <2>1, <2>4, TokenKept DEF DrainTunnels
  <2>5. CASE \/ UNCHANGED vars
             \/ \E t \in Tunnels : Serving(t) \/ ReleaseTunnel(t)
    BY <2>1, <2>5, TokenKept
    DEF vars, ReleaseTunnel, Serving, AcceptFails, AcceptGivesUp, OpenUdpStream,
        OpenUdpStreamFails, UdpSessionEnds, UdpPeerCloses, CloseSocket, ReleasePort
  <2>6. CASE \E t \in Tunnels : FinishClose(t)
    BY <2>1, <2>6, TokenKept DEF FinishClose
  <2>7. ASSUME NEW c \in Clients,
               PeerBreaks(c) \/ PeerSilent(c) \/ (Connection(c) /\ ~RecordTunnel(c))
                 \/ (Closing(c) /\ ~DrainTunnels(c))
        PROVE  TokenInv'
    BY <2>1, <2>7, TokenKept
    DEF PeerBreaks, PeerSilent, Connection, AddClient, LinkUser, SendAuthResult, ReadFails, ReadInert,
        RegisterTunnel, BindPort, Respond, HandleReturns, Leave, Closing, KeepaliveTimeout,
        CloseSessions, UnlinkUser, RemoveClient
  <2> QED
    BY <2>2, <2>3, <2>4, <2>5, <2>6, <2>7 DEF Next
<1>3. TokenInv => TokenLimit
  BY DEF TokenInv, TokenLimit
<1> QED
  BY <1>1, <1>2, <1>3, Invariance, PTL DEF Spec

-----------------------------------------------------------------------------
(* The limit of a plan.                                                      *)

\* A connection that has tunnels, and has not been taken out again, is found
\* under its user by CountTunnelsByUserID.
LinkInv ==
  \A c \in Clients :
    /\ pc[c] # "none" /\ closing[c] # "done" => c \in clients
    /\ pc[c] \notin {"none", "added"} /\ closing[c] \notin {"unlinked", "done"} /\ UserOf[c] \in Users
         => c \in userClients[UserOf[c]]
    /\ pc[c] \in {"none", "added", "linked"} => tunnels[c] = {}

\* The connections of u that Close() has not emptied, the tunnels they hold,
\* and those among them that have passed the check and not recorded yet.
live(u) == {c \in clientsOf(u) : ~drained(c)}
held(u) == UNION {tunnels[c] : c \in live(u)}
makers(u) == {c \in live(u) : pc[c] \in creating}

\* Whoever passed the check found room for one tunnel; the others that were
\* past it then had no more than one each. So there is always a connection
\* whose plan covers what its user has, but for those others.
covers(c, u) ==
  PlanMax[c] > 0 =>
    Cardinality(held(u)) + Cardinality(makers(u)) < PlanMax[c] + Cardinality(clientsOf(u))

PlanInv ==
  /\ IsFiniteSet(UNION {tunnels[c] : c \in Clients})
  /\ \A u \in Users : clientsOf(u) # {} => \E c \in clientsOf(u) : covers(c, u)

LEMMA LinkStep == Inv /\ LinkInv /\ [Next]_vars => LinkInv'
<1> SUFFICES ASSUME Inv, LinkInv, [Next]_vars
             PROVE  LinkInv'
  OBVIOUS
<1> USE DEF Inv, LinkInv
<1>1. ASSUME NEW c \in Clients, Connection(c)
      PROVE  LinkInv'
  <2>1. CASE AddClient(c) \/ LinkUser(c) \/ SendAuthResult(c)
    BY <2>1, SMTT(30) DEF AddClient, LinkUser, SendAuthResult
  <2>2. CASE ReadFails(c) \/ ReadInert(c) \/ Respond(c) \/ HandleReturns(c) \/ Leave(c)
    BY <2>2, SMTT(30) DEF ReadFails, ReadInert, CanRead, Respond, HandleReturns, Leave
  <2>3. CASE RegisterTunnel(c) \/ BindPort(c) \/ RecordTunnel(c)
    BY <2>3, SMTT(30) DEF RegisterTunnel, BindPort, RecordTunnel
  <2> QED
    BY <1>1, <2>1, <2>2, <2>3 DEF Connection
<1>2. ASSUME NEW c \in Clients, PeerBreaks(c) \/ PeerSilent(c) \/ Closing(c)
      PROVE  LinkInv'
  BY <1>2, SMTT(30)
  DEF PeerBreaks, PeerSilent, Closing, KeepaliveTimeout, DrainTunnels, CloseSessions, UnlinkUser, RemoveClient
<1>3. ASSUME NEW c \in Clients, NEW t \in Tunnels, Request(c, t)
      PROVE  LinkInv'
  BY <1>3, SMTT(30)
  DEF Request, RequestHTTP, RequestPort, ReadTunnelClose, ApiCloseTunnel, NewTunnel, TakeTunnel, CanRead
<1>4. ASSUME NEW t \in Tunnels, ReleaseTunnel(t) \/ FinishClose(t)
      PROVE  LinkInv'
  BY <1>4, SMTT(30) DEF ReleaseTunnel, FinishClose
<1>5. ASSUME \/ \E t \in Tunnels : Serving(t)
             \/ UNCHANGED vars
      PROVE  LinkInv'
  BY <1>5, SMTT(30)
  DEF vars, Serving, AcceptFails, AcceptGivesUp, OpenUdpStream, OpenUdpStreamFails, UdpSessionEnds,
      UdpPeerCloses, CloseSocket, ReleasePort
<1> QED
  BY <1>1, <1>2, <1>3, <1>4, <1>5 DEF Next

\* The sets that PlanInv counts are finite.
LEMMA PlanSets ==
  ASSUME IsFiniteSet(Clients), PlanInv, TypeOK, NEW u \in Users
  PROVE  /\ IsFiniteSet(held(u)) /\ IsFiniteSet(makers(u)) /\ IsFiniteSet(clientsOf(u))
         /\ Cardinality(held(u)) \in Nat /\ Cardinality(makers(u)) \in Nat
         /\ Cardinality(clientsOf(u)) \in Nat
<1>1. held(u) \subseteq UNION {tunnels[c] : c \in Clients}
  BY DEF held, live, clientsOf
<1>2. makers(u) \subseteq Clients /\ clientsOf(u) \subseteq Clients
  BY DEF makers, live, clientsOf
<1> QED
  BY <1>1, <1>2, FS_Subset, FS_CardinalityType DEF PlanInv

\* A connection whose plan covered its user does so while the tunnels and those
\* past the check are together no more than they were.
LEMMA CoversStays ==
  ASSUME NEW c \in Clients, NEW u \in Users, PlanMax[c] \in Nat,
         NEW before \in Nat, NEW after \in Nat, after <= before,
         before = Cardinality(held(u)) + Cardinality(makers(u)),
         after = Cardinality(held(u)') + Cardinality(makers(u)'),
         Cardinality(clientsOf(u)) \in Nat, covers(c, u)
  PROVE  covers(c, u)'
<1> DEFINE of == Cardinality(clientsOf(u))
<1>1. clientsOf(u)' = clientsOf(u)
  BY DEF clientsOf
<1>2. of \in Nat /\ (PlanMax[c] > 0 => before < PlanMax[c] + of)
  BY DEF covers
<1>3. covers(c, u)' <=> (PlanMax[c] > 0 => after < PlanMax[c] + of)
  BY <1>1 DEF covers
<1> HIDE DEF of
<1>4. PlanMax[c] > 0 => after < PlanMax[c] + of
  BY <1>2
<1> QED
  BY <1>3, <1>4

\* A set that gains no more than one element.
LEMMA GrowingSet ==
  ASSUME NEW S, IsFiniteSet(S), NEW x, NEW T \in SUBSET (S \cup {x})
  PROVE  IsFiniteSet(T) /\ Cardinality(T) \in Nat /\ Cardinality(T) <= Cardinality(S) + 1
<1>1. IsFiniteSet(S \cup {x}) /\ Cardinality(S \cup {x}) <= Cardinality(S) + 1 /\ Cardinality(S) \in Nat
  <2>1. Cardinality(S) \in Nat
    BY FS_CardinalityType
  <2>2. /\ IsFiniteSet(S \cup {x})
        /\ Cardinality(S \cup {x}) = IF x \in S THEN Cardinality(S) ELSE Cardinality(S) + 1
    BY FS_AddElement
  <2> QED
    BY <2>1, <2>2
<1>2. IsFiniteSet(T) /\ Cardinality(T) <= Cardinality(S \cup {x})
  BY <1>1, FS_Subset
<1> QED
  BY <1>1, <1>2, FS_CardinalityType

\* A step that only takes tunnels away, and lets nobody past the check.
LEMMA PlanKept ==
  ASSUME IsFiniteSet(Clients), PlanInv, TypeOK,
         \A c \in Clients :
           /\ tunnels'[c] \subseteq tunnels[c]
           /\ drained(c) => drained(c)'
           /\ pc'[c] \in creating => pc[c] \in creating
  PROVE  PlanInv'
<1>1. IsFiniteSet(UNION {tunnels'[c] : c \in Clients})
  <2>1. (UNION {tunnels'[c] : c \in Clients}) \subseteq UNION {tunnels[c] : c \in Clients}
    OBVIOUS
  <2> QED
    BY <2>1, FS_Subset DEF PlanInv
<1>2. ASSUME NEW u \in Users
      PROVE  /\ held(u)' \subseteq held(u)
             /\ makers(u)' \subseteq makers(u)
  BY DEF held, makers, live, clientsOf
<1>3. ASSUME NEW u \in Users
      PROVE  /\ Cardinality(held(u)') <= Cardinality(held(u)) /\ Cardinality(held(u)') \in Nat
             /\ Cardinality(makers(u)') <= Cardinality(makers(u)) /\ Cardinality(makers(u)') \in Nat
  BY <1>2, PlanSets, FS_Subset, FS_CardinalityType
<1>4. ASSUME NEW u \in Users, NEW c \in clientsOf(u), covers(c, u)
      PROVE  covers(c, u)'
  <2>1. c \in Clients /\ PlanMax[c] \in Nat
    BY DEF clientsOf
  <2>2. /\ Cardinality(held(u)) \in Nat /\ Cardinality(makers(u)) \in Nat
        /\ Cardinality(clientsOf(u)) \in Nat
    BY PlanSets
  <2>3. Cardinality(held(u)') + Cardinality(makers(u)') <= Cardinality(held(u)) + Cardinality(makers(u))
    BY <1>3, <2>2
  <2> QED
    BY <1>3, <1>4, <2>1, <2>2, <2>3, CoversStays
<1> QED
  BY <1>1, <1>4 DEF PlanInv, clientsOf

\* A handler passes the check: its user's live connections hold fewer tunnels
\* than the plan allows, and at most all of them are past the check.
LEMMA PlanChecked ==
  ASSUME IsFiniteSet(Clients), PlanInv, Inv, LinkInv,
         NEW c \in Clients, ~severed(c), pc[c] = "reading", WithinLimits(c),
         tunnels' = tunnels, closing' = closing,
         \A d \in Clients : d # c => pc'[d] = pc[d]
  PROVE  PlanInv'
<1>1. UNION {tunnels'[d] : d \in Clients} = UNION {tunnels[d] : d \in Clients}
  OBVIOUS
<1>2. ASSUME NEW u \in Users
      PROVE  held(u)' = held(u)
  BY DEF held, live, clientsOf
<1>3. ASSUME NEW u \in Users, clientsOf(u) # {}
      PROVE  \E d \in clientsOf(u) : covers(d, u)'
  <2>1. CASE makers(u)' \subseteq makers(u)
    <3>1. Cardinality(makers(u)') \in Nat /\ Cardinality(makers(u)') <= Cardinality(makers(u))
      BY <2>1, PlanSets, FS_Subset, FS_CardinalityType DEF Inv
    <3>2. PICK d \in clientsOf(u) : covers(d, u)
      BY <1>3 DEF PlanInv
    <3>3. d \in Clients /\ PlanMax[d] \in Nat
      BY DEF clientsOf
    <3>4. /\ Cardinality(held(u)) \in Nat /\ Cardinality(makers(u)) \in Nat
          /\ Cardinality(clientsOf(u)) \in Nat
      BY PlanSets DEF Inv
    <3>5. Cardinality(held(u)') + Cardinality(makers(u)') <= Cardinality(held(u)) + Cardinality(makers(u))
      BY <1>2, <3>1, <3>4
    <3>6. covers(d, u)'
      BY <1>2, <3>1, <3>2, <3>3, <3>4, <3>5, CoversStays
    <3> QED
      BY <3>6
  <2>2. CASE ~(makers(u)' \subseteq makers(u))
    <3>1. c \in clientsOf(u) /\ UserOf[c] = u /\ ~drained(c) /\ PlanMax[c] \in Nat
      BY <2>2 DEF makers, live, clientsOf
    <3> DEFINE counted == UNION {tunnels[e] : e \in userClients[u] \cap clients}
    <3>2. PlanMax[c] > 0 => Cardinality(counted) < PlanMax[c]
      BY <1>3, <3>1 DEF WithinLimits, tunnelCount
    <3>3. held(u) \subseteq counted
      <4>1. \A e \in live(u) : tunnels[e] # {} => e \in userClients[u] \cap clients
        BY DEF live, clientsOf, LinkInv, Inv
      <4> QED
        BY <4>1 DEF held
    <3>4. IsFiniteSet(counted) /\ Cardinality(counted) \in Nat
      <4>1. counted \subseteq UNION {tunnels[e] : e \in Clients}
        BY DEF Inv
      <4> QED
        BY <4>1, FS_Subset, FS_CardinalityType DEF PlanInv
    <3>5. Cardinality(held(u)) <= Cardinality(counted)
      BY <3>3, <3>4, FS_Subset
    <3>6. Cardinality(makers(u)') \in Nat /\ Cardinality(makers(u)') <= Cardinality(clientsOf(u))
      <4>1. makers(u)' \subseteq clientsOf(u)
        BY DEF makers, live, clientsOf
      <4> QED
        BY <4>1, PlanSets, FS_Subset, FS_CardinalityType DEF Inv
    <3> HIDE DEF counted
    <3>7. covers(c, u)'
      <4>1. /\ Cardinality(held(u)') = Cardinality(held(u)) /\ Cardinality(held(u)) \in Nat
            /\ Cardinality(clientsOf(u)) \in Nat /\ clientsOf(u)' = clientsOf(u)
        <5>1. Cardinality(held(u)) \in Nat /\ Cardinality(clientsOf(u)) \in Nat
          BY PlanSets DEF Inv
        <5>2. clientsOf(u)' = clientsOf(u)
          BY DEF clientsOf
        <5> QED
          BY <1>2, <5>1, <5>2
      <4>2. PlanMax[c] > 0 =>
              Cardinality(held(u)') + Cardinality(makers(u)') < PlanMax[c] + Cardinality(clientsOf(u))
        BY <3>1, <3>2, <3>4, <3>5, <3>6, <4>1
      <4> QED
        BY <4>1, <4>2 DEF covers
    <3> QED
      BY <3>1, <3>7
  <2> QED
    BY <2>1, <2>2
<1> QED
  BY <1>1, <1>3 DEF PlanInv, clientsOf

\* The handler records its tunnel, and is past the check no more.
LEMMA PlanRecorded ==
  ASSUME IsFiniteSet(Clients), PlanInv, Inv, NEW c \in Clients, RecordTunnel(c)
  PROVE  PlanInv'
<1>1. PICK t : t = current[c]
  OBVIOUS
<1>2. /\ tunnels' = [tunnels EXCEPT ![c] = tunnels[c] \cup {t}]
      /\ pc' = [pc EXCEPT ![c] = "responding"]
      /\ closing' = closing
      /\ pc[c] \in creating
  BY <1>1 DEF RecordTunnel
<1>3. IsFiniteSet(UNION {tunnels'[d] : d \in Clients})
  <2>1. (UNION {tunnels'[d] : d \in Clients}) \subseteq (UNION {tunnels[d] : d \in Clients}) \cup {t}
    BY <1>2 DEF Inv
  <2> QED
    BY <2>1, GrowingSet DEF PlanInv
<1>4. ASSUME NEW u \in Users, NEW d \in clientsOf(u), covers(d, u)
      PROVE  covers(d, u)'
  <2>1. d \in Clients /\ PlanMax[d] \in Nat
    BY DEF clientsOf
  <2>3. CASE c \in live(u)
    <3>1. held(u)' \subseteq held(u) \cup {t}
      BY <1>2 DEF held, live, clientsOf, Inv
    <3>2. Cardinality(held(u)') \in Nat /\ Cardinality(held(u)') <= Cardinality(held(u)) + 1
      BY <3>1, PlanSets, GrowingSet DEF Inv
    <3>3. c \in makers(u) /\ makers(u)' = makers(u) \ {c}
      BY <1>2, <2>3 DEF makers, live, clientsOf, Inv
    <3>4. Cardinality(makers(u)') = Cardinality(makers(u)) - 1
      BY <3>3, PlanSets, FS_RemoveElement DEF Inv
    <3>5. /\ Cardinality(held(u)) \in Nat /\ Cardinality(makers(u)) \in Nat
          /\ Cardinality(clientsOf(u)) \in Nat /\ Cardinality(makers(u)') \in Nat
      BY <3>3, PlanSets, FS_Subset, FS_CardinalityType DEF Inv
    <3>6. Cardinality(held(u)') + Cardinality(makers(u)') <= Cardinality(held(u)) + Cardinality(makers(u))
      BY <3>2, <3>4, <3>5
    <3> QED
      BY <1>4, <2>1, <3>2, <3>5, <3>6, CoversStays
  <2>4. CASE c \notin live(u)
    <3>1. held(u)' = held(u)
      BY <1>2, <2>4 DEF held, live, clientsOf, Inv
    <3>2. makers(u)' = makers(u)
      BY <1>2, <2>4 DEF makers, live, clientsOf, Inv
    <3> QED
      BY <1>4, <3>1, <3>2 DEF covers, clientsOf
  <2> QED
    BY <2>3, <2>4
<1> QED
  BY <1>3, <1>4 DEF PlanInv, clientsOf

\* The plan's limit may be passed by one tunnel for each of the user's other
\* connections, however many there are, and by no more (handleTunnelRequest
\* counts first and records later, without a lock in between). The plan is that
\* of the connection whose plan allows most, where the user's plan has changed
\* between them.
THEOREM PlanLimitCorrect ==
  ASSUME IsFiniteSet(Clients)
  PROVE  Spec => []PlanLimit
<1>1. Init => LinkInv /\ PlanInv
  <2> SUFFICES ASSUME Init PROVE LinkInv /\ PlanInv
    OBVIOUS
  <2>1. LinkInv
    BY DEF Init, LinkInv
  <2>2. UNION {tunnels[c] : c \in Clients} = {} /\ \A u \in Users : held(u) = {} /\ makers(u) = {}
    BY DEF Init, held, makers, live, clientsOf
  <2>3. ASSUME NEW u \in Users, NEW c \in clientsOf(u)
        PROVE  covers(c, u)
    <3>1. PlanMax[c] \in Nat /\ Cardinality(clientsOf(u)) \in Nat
      BY FS_Subset, FS_CardinalityType DEF clientsOf
    <3>2. Cardinality(held(u)) = 0 /\ Cardinality(makers(u)) = 0
      BY <2>2, FS_EmptySet
    <3> QED
      BY <3>1, <3>2 DEF covers
  <2> QED
    BY <2>1, <2>2, <2>3, FS_EmptySet DEF PlanInv
<1>2. Inv /\ LinkInv /\ PlanInv /\ [Next]_vars => PlanInv'
  <2> SUFFICES ASSUME Inv, LinkInv, PlanInv, [Next]_vars
               PROVE  PlanInv'
    OBVIOUS
  <2>1. TypeOK
    BY DEF Inv
  <2>2. CASE \E c \in Clients : RecordTunnel(c)
    BY <2>2, PlanRecorded
  <2>3. ASSUME NEW c \in Clients, NEW t \in Tunnels, Request(c, t)
        PROVE  PlanInv'
    <3>1. CASE \E a \in HttpAddr : RequestHTTP(c, t, a)
      BY <2>1, <3>1, PlanChecked DEF RequestHTTP, CanRead
    <3>2. CASE \E a \in PortAddr : RequestPort(c, t, a)
      BY <2>1, <3>2, PlanChecked DEF RequestPort, CanRead
    <3>3. CASE ReadTunnelClose(c, t) \/ ApiCloseTunnel(c, t)
      BY <2>1, <3>3, PlanKept DEF ReadTunnelClose, ApiCloseTunnel, TakeTunnel, CanRead
    <3> QED
      BY <2>3, <3>1, <3>2, <3>3 DEF Request
  <2>4. CASE \/ UNCHANGED vars
             \/ \E t \in Tunnels : Serving(t) \/ ReleaseTunnel(t) \/ FinishClose(t)
    BY <2>1, <2>4, PlanKept
    DEF vars, ReleaseTunnel, FinishClose, Serving, AcceptFails, AcceptGivesUp, OpenUdpStream,
        OpenUdpStreamFails, UdpSessionEnds, UdpPeerCloses, CloseSocket, ReleasePort
  <2>5. ASSUME NEW c \in Clients,
               PeerBreaks(c) \/ PeerSilent(c) \/ (Connection(c) /\ ~RecordTunnel(c))
        PROVE  PlanInv'
    BY <2>1, <2>5, PlanKept
    DEF PeerBreaks, PeerSilent, Connection, AddClient, LinkUser, SendAuthResult, ReadFails, ReadInert,
        RegisterTunnel, BindPort, Respond, HandleReturns, Leave
  <2>6. ASSUME NEW c \in Clients, Closing(c)
        PROVE  PlanInv'
    BY <2>1, <2>6, PlanKept
    DEF Closing, KeepaliveTimeout, DrainTunnels, CloseSessions, UnlinkUser, RemoveClient
  <2> QED
    BY <2>2, <2>3, <2>4, <2>5, <2>6 DEF Next
<1>3. PlanInv /\ Inv => PlanLimit
  <2> SUFFICES ASSUME PlanInv, Inv, NEW u \in Users, clientsOf(u) # {}
               PROVE  \E c \in clientsOf(u) :
                        PlanMax[c] > 0 => Cardinality(held(u)) < PlanMax[c] + Cardinality(clientsOf(u))
    BY DEF PlanLimit, held, live
  <2>1. PICK c \in clientsOf(u) : covers(c, u)
    BY DEF PlanInv
  <2>2. PlanMax[c] \in Nat
    BY DEF clientsOf
  <2> QED
    BY <2>1, <2>2, PlanSets DEF Inv, covers
<1> QED
  BY <1>1, <1>2, <1>3, LinkStep, Invariance, PTL DEF Spec

-----------------------------------------------------------------------------
(* The leases.                                                               *)

\* Tunnel t holds address a.
leases(t, a) == IF a \in HttpAddr THEN routes[a] = t ELSE holdsPort(t, a)

\* The ID t has been generated, and its handler is past the registration.
settled(t) == owner[t] # None /\ ~inHand(t, {"registering"})

\* The lease of t has ended: it holds nothing, and its handler is past the
\* registration.
over(t) == settled(t) /\ \A a \in Addresses : ~leases(t, a)

LEMMA LeaseForm ==
  /\ holders = [a \in Addresses |-> {t \in Tunnels : leases(t, a)}]
  /\ expired = {t \in Tunnels : over(t)}
<1>1. ASSUME NEW a \in Addresses
      PROVE  (IF a \in HttpAddr THEN {t \in Tunnels : routes[a] = t}
                                ELSE {t \in Tunnels : holdsPort(t, a)})
               = {t \in Tunnels : leases(t, a)}
  <2>1. CASE a \in HttpAddr
    BY <2>1 DEF leases
  <2>2. CASE a \notin HttpAddr
    BY <2>2 DEF leases
  <2> QED
    BY <2>1, <2>2
<1>2. holders = [a \in Addresses |-> {t \in Tunnels : leases(t, a)}]
  <2> HIDE DEF Addresses, leases, holdsPort
  <2> QED
    BY <1>1 DEF holders
<1>3. \A t \in Tunnels : holdsAny(t) <=> \E a \in Addresses : leases(t, a)
  <2> HIDE DEF Addresses, leases, holdsPort
  <2> QED
    BY <1>2 DEF holdsAny
<1> QED
  BY <1>2, <1>3 DEF expired, over, settled

LEMMA LeaseFormNext ==
  /\ holders' = [a \in Addresses |-> {t \in Tunnels : leases(t, a)'}]
  /\ expired' = {t \in Tunnels : over(t)'}
<1>1. (/\ holders = [a \in Addresses |-> {t \in Tunnels : leases(t, a)}]
       /\ expired = {t \in Tunnels : over(t)})'
  BY LeaseForm, PTL
<1> HIDE DEF Addresses, leases, over
<1> QED
  BY <1>1

\* A tunnel leases no address but its own.
LEMMA OwnAddress ==
  ASSUME Inv, NEW t \in Tunnels, NEW a \in Addresses, leases(t, a)
  PROVE  addr[t] = a
  BY DEF Inv, leases

\* A step that changes no holder and settles no tunnel is a stutter.
LEMMA LeasesKept ==
  ASSUME \A t \in Tunnels, a \in Addresses : leases(t, a)' <=> leases(t, a),
         \A t \in Tunnels : over(t)' <=> over(t)
  PROVE  UNCHANGED <<holders, expired>>
<1> HIDE DEF Addresses, leases, over
<1> QED
  BY LeaseForm, LeaseFormNext

\* A free address goes to a tunnel that has none and may have one.
LEMMA LeaseGranted ==
  ASSUME NEW t \in Tunnels, NEW a \in Addresses,
         \A u \in Tunnels : ~leases(u, a),
         \A b \in Addresses : ~leases(t, b),
         \A u \in Tunnels, b \in Addresses : leases(u, b)' <=> leases(u, b) \/ (u = t /\ b = a),
         ~over(t),
         \A u \in Tunnels : over(u)' <=> over(u)
  PROVE  Lease!Next
<1> HIDE DEF Addresses, leases, over
<1>1. holders[a] = {} /\ \A b \in Addresses : t \notin holders[b]
  BY LeaseForm, LeaseFormNext
<1>2. holders' = [holders EXCEPT ![a] = {t}]
  <2>1. ASSUME NEW b \in Addresses
        PROVE  {u \in Tunnels : leases(u, b)'} = IF b = a THEN {t} ELSE {u \in Tunnels : leases(u, b)}
    OBVIOUS
  <2> QED
    BY <2>1, LeaseForm, LeaseFormNext
<1>3. t \notin expired /\ UNCHANGED expired
  BY LeaseForm, LeaseFormNext
<1>4. Lease!Grant(a, t)
  BY <1>1, <1>2, <1>3 DEF Lease!Grant
<1> QED
  BY <1>4 DEF Lease!Next

\* The leases of some tunnels end, for good.
LEMMA LeasesEnd ==
  ASSUME NEW T \in SUBSET Tunnels,
         \A t \in T : ~over(t),
         \A u \in Tunnels, b \in Addresses : leases(u, b)' <=> leases(u, b) /\ u \notin T,
         \A u \in Tunnels : over(u)' <=> over(u) \/ u \in T
  PROVE  Lease!Next
<1> HIDE DEF Addresses, leases, over
<1>1. holders' = [a \in Addresses |-> holders[a] \ T]
  <2>1. ASSUME NEW b \in Addresses
        PROVE  {u \in Tunnels : leases(u, b)'} = {u \in Tunnels : leases(u, b)} \ T
    OBVIOUS
  <2> QED
    BY <2>1, LeaseForm, LeaseFormNext
<1>2. T \cap expired = {} /\ expired' = expired \cup T
  BY LeaseForm, LeaseFormNext
<1>3. Lease!Release(T)
  BY <1>1, <1>2 DEF Lease!Release
<1> QED
  BY <1>3 DEF Lease!Next

\* Who has a lease, and whose has ended, depends on the routes, on who is
\* serving, and on the steps in which a handler has a tunnel in hand.
LEMMA LeasesUntouched ==
  ASSUME UNCHANGED <<routes, owner, addr, serving>>,
         \A t \in Tunnels :
           /\ inHand(t, {"registering"})' <=> inHand(t, {"registering"})
           /\ inHand(t, {"allocated", "bound"})' <=> inHand(t, {"allocated", "bound"})
  PROVE  UNCHANGED <<holders, expired>>
<1>1. \A t \in Tunnels, a \in Addresses : leases(t, a)' <=> leases(t, a)
  <2> HIDE DEF inHand, Addresses
  <2> QED
    BY DEF leases
<1>2. \A t \in Tunnels : over(t)' <=> over(t)
  <2> HIDE DEF inHand, Addresses, leases
  <2> QED
    BY <1>1 DEF over, settled
<1> HIDE DEF Addresses, leases, over
<1> QED
  BY <1>1, <1>2, LeasesKept

-----------------------------------------------------------------------------
(* Every step grants one lease, ends some, or leaves all as they are.        *)

\* What the three ways to give an address back have in common: who ends its
\* lease holds one, and nothing else changes.
LEMMA GivenBack ==
  ASSUME Inv, NEW T \in SUBSET Tunnels,
         \A t \in T : settled(t) /\ \E a \in Addresses : leases(t, a),
         \A u \in Tunnels : settled(u)' <=> settled(u),
         \A u \in Tunnels, b \in Addresses : leases(u, b)' <=> leases(u, b) /\ u \notin T
  PROVE  Lease!Next
<1> HIDE DEF Inv, Addresses, leases, settled
<1>1. \A t \in T : ~over(t)
  BY DEF over
<1>2. \A u \in Tunnels : over(u)' <=> over(u) \/ u \in T
  BY DEF over
<1> HIDE DEF over
<1> QED
  BY <1>1, <1>2, LeasesEnd

\* A new subdomain tunnel is not registered yet: nothing changes.
LEMMA RequestHTTPLease ==
  ASSUME Inv, NEW c \in Clients, NEW t \in Tunnels, NEW a \in HttpAddr, RequestHTTP(c, t, a)
  PROVE  UNCHANGED <<holders, expired>>
<1> USE DEF Inv, RequestHTTP, NewTunnel, CanRead, Heard
<1>1. \A u \in Tunnels, b \in Addresses : leases(u, b)' <=> leases(u, b)
  BY SMTT(30) DEF leases
<1>2. \A u \in Tunnels : settled(u)' <=> settled(u)
  BY SMTT(30) DEF settled
<1>3. \A u \in Tunnels : over(u)' <=> over(u)
  <2> HIDE DEF Inv, RequestHTTP, Addresses, leases, settled
  <2> QED
    BY <1>1, <1>2 DEF over
<1> HIDE DEF Inv, RequestHTTP, Addresses, leases, over
<1> QED
  BY <1>1, <1>3, LeasesKept

\* The allocator leases a port that nobody holds to a tunnel just made up.
LEMMA RequestPortLease ==
  ASSUME Inv, NEW c \in Clients, NEW t \in Tunnels, NEW a \in PortAddr, RequestPort(c, t, a)
  PROVE  Lease!Next
<1> USE DEF Inv, RequestPort, NewTunnel, CanRead, Heard
<1>1. \A u \in Tunnels : ~leases(u, a)
  BY SMTT(30) DEF leases
<1>2. \A b \in Addresses : ~leases(t, b)
  BY SMTT(30) DEF leases
<1>3. \A u \in Tunnels, b \in Addresses : leases(u, b)' <=> leases(u, b) \/ (u = t /\ b = a)
  BY SMTT(30) DEF leases
<1>4. ~settled(t) /\ a \in Addresses
  BY DEF settled
<1>5. \A u \in Tunnels : u # t => (settled(u)' <=> settled(u))
  BY SMTT(30) DEF settled
<1>6. ~over(t) /\ \A u \in Tunnels : over(u)' <=> over(u)
  <2> HIDE DEF Inv, RequestPort, Addresses, leases, settled
  <2> QED
    BY <1>3, <1>4, <1>5 DEF over
<1> HIDE DEF Inv, RequestPort, Addresses, leases, over
<1> QED
  BY <1>1, <1>2, <1>3, <1>4, <1>6, LeaseGranted

\* The router leases a subdomain that is free; when it is taken, the tunnel
\* will never have one.
LEMMA RegisterTunnelLease ==
  ASSUME Inv, NEW c \in Clients, RegisterTunnel(c)
  PROVE  Lease!Next
<1> DEFINE t == current[c]
           a == addr[t]
<1> USE DEF Inv, RegisterTunnel
<1>1. t \in Tunnels /\ a \in HttpAddr /\ a \in Addresses /\ owner[t] = c /\ pc[c] = "registering"
  BY SMTT(30)
<1>2. ~settled(t) /\ \A b \in Addresses : ~leases(t, b)
  BY <1>1, SMTT(30) DEF settled, leases
<1>3. \A u \in Tunnels : settled(u)' <=> settled(u) \/ u = t
  BY <1>1, SMTT(30) DEF settled
<1>4. CASE routes[a] = None
  <2>1. \A u \in Tunnels : ~leases(u, a)
    BY <1>1, <1>4, SMTT(30) DEF leases
  <2>2. \A u \in Tunnels, b \in Addresses : leases(u, b)' <=> leases(u, b) \/ (u = t /\ b = a)
    BY <1>1, <1>4, SMTT(30) DEF leases
  <2> HIDE DEF Inv, RegisterTunnel, Addresses, leases, settled, t, a
  <2>3. ~over(t) /\ \A u \in Tunnels : over(u)' <=> over(u)
    BY <1>1, <1>2, <1>3, <2>2 DEF over
  <2> HIDE DEF over
  <2> QED
    BY <1>1, <1>2, <2>1, <2>2, <2>3, LeaseGranted
<1>5. CASE routes[a] # None
  <2>1. \A u \in Tunnels, b \in Addresses : leases(u, b)' <=> leases(u, b)
    BY <1>1, <1>5, SMTT(30) DEF leases
  <2> HIDE DEF Inv, RegisterTunnel, Addresses, leases, settled, t, a
  <2>2. ~over(t) /\ \A u \in Tunnels : over(u)' <=> over(u) \/ u = t
    BY <1>1, <1>2, <1>3, <2>1 DEF over
  <2>3. \A u \in Tunnels, b \in Addresses : leases(u, b)' <=> leases(u, b) /\ u \notin {t}
    BY <1>1, <1>2, <2>1
  <2>4. /\ {t} \in SUBSET Tunnels /\ \A u \in {t} : ~over(u)
        /\ \A u \in Tunnels : over(u)' <=> over(u) \/ u \in {t}
    BY <1>1, <2>2
  <2> HIDE DEF over
  <2> QED
    BY <2>3, <2>4, LeasesEnd
<1> QED
  BY <1>4, <1>5

\* The port stays with the handler when it is bound, and is given back when it
\* cannot be.
LEMMA BindPortLease ==
  ASSUME Inv, NEW c \in Clients, BindPort(c)
  PROVE  Lease!Next \/ UNCHANGED <<holders, expired>>
<1> USE DEF Inv, BindPort
<1>1. CASE pc' = [pc EXCEPT ![c] = "bound"]
  <2>1. \A u \in Tunnels :
          /\ inHand(u, {"registering"})' <=> inHand(u, {"registering"})
          /\ inHand(u, {"allocated", "bound"})' <=> inHand(u, {"allocated", "bound"})
    BY <1>1, SMTT(30)
  <2>2. UNCHANGED <<routes, owner, addr, serving>>
    OBVIOUS
  <2> HIDE DEF Inv, BindPort, inHand
  <2> QED
    BY <2>1, <2>2, LeasesUntouched
<1>2. CASE pc' = [pc EXCEPT ![c] = "responding"]
  <2>1. PICK t \in Tunnels : t = current[c]
    BY SMTT(30)
  <2>2. settled(t) /\ addr[t] \in Addresses /\ leases(t, addr[t])
    BY <1>2, <2>1, SMTT(30) DEF leases, settled
  <2>3. \A u \in Tunnels, b \in Addresses : leases(u, b)' <=> leases(u, b) /\ u \notin {t}
    BY <1>2, <2>1, SMTT(30) DEF leases
  <2>4. \A u \in Tunnels : settled(u)' <=> settled(u)
    BY <1>2, <2>1, SMTT(30) DEF settled
  <2>5. \A u \in {t} : settled(u) /\ \E b \in Addresses : leases(u, b)
    <3> HIDE DEF Inv, BindPort, Addresses, leases, settled
    <3> QED
      BY <2>2
  <2> HIDE DEF Inv, BindPort, Addresses, leases, settled
  <2> QED
    BY <2>3, <2>4, <2>5, GivenBack
<1> QED
  BY <1>1, <1>2

\* A recorded tunnel keeps what its handler has reserved for it.
LEMMA RecordTunnelLease ==
  ASSUME Inv, NEW c \in Clients, RecordTunnel(c)
  PROVE  UNCHANGED <<holders, expired>>
<1> USE DEF Inv, RecordTunnel
<1>1. \A u \in Tunnels, b \in Addresses : leases(u, b)' <=> leases(u, b)
  BY SMTT(30) DEF leases
<1>2. \A u \in Tunnels : settled(u)' <=> settled(u)
  BY SMTT(30) DEF settled
<1>3. \A u \in Tunnels : over(u)' <=> over(u)
  <2> HIDE DEF Inv, RecordTunnel, Addresses, leases, settled
  <2> QED
    BY <1>1, <1>2 DEF over
<1> HIDE DEF Inv, RecordTunnel, Addresses, leases, over
<1> QED
  BY <1>1, <1>3, LeasesKept


\* A closer takes the tunnel's route down, if it had one.
LEMMA ReleaseTunnelLease ==
  ASSUME Inv, NEW t \in Tunnels, ReleaseTunnel(t)
  PROVE  Lease!Next \/ UNCHANGED <<holders, expired>>
<1> USE DEF Inv, ReleaseTunnel
<1>1. \A u \in Tunnels : settled(u)' <=> settled(u)
  BY DEF settled
<1>2. CASE addr[t] \in HttpAddr
  <2>1. settled(t) /\ addr[t] \in Addresses /\ leases(t, addr[t])
    BY <1>2, SMTT(30) DEF leases, settled
  <2>2. \A u \in Tunnels, b \in Addresses : leases(u, b)' <=> leases(u, b) /\ u \notin {t}
    BY <1>2, SMTT(30) DEF leases
  <2>3. \A u \in {t} : settled(u) /\ \E b \in Addresses : leases(u, b)
    <3> HIDE DEF Inv, ReleaseTunnel, Addresses, leases, settled
    <3> QED
      BY <2>1
  <2> HIDE DEF Inv, ReleaseTunnel, Addresses, leases, settled
  <2> QED
    BY <1>1, <2>2, <2>3, GivenBack
<1>3. CASE addr[t] \notin HttpAddr
  <2>1. \A u \in Tunnels, b \in Addresses : leases(u, b)' <=> leases(u, b)
    BY <1>3, SMTT(30) DEF leases
  <2> HIDE DEF Inv, ReleaseTunnel, Addresses, leases, settled
  <2>2. \A u \in Tunnels : over(u)' <=> over(u)
    BY <1>1, <2>1 DEF over
  <2> HIDE DEF over
  <2> QED
    BY <2>1, <2>2, LeasesKept
<1> QED
  BY <1>2, <1>3

\* Close() takes down the routes of all tunnels of its client at once.
LEMMA DrainTunnelsLease ==
  ASSUME Inv, NEW c \in Clients, DrainTunnels(c)
  PROVE  Lease!Next
<1> USE DEF Inv, DrainTunnels
<1>1. PICK T \in SUBSET Tunnels : T = {t \in tunnels[c] : addr[t] \in HttpAddr}
  <2>1. tunnels[c] \subseteq Tunnels
    BY DEF Inv
  <2> QED
    BY <2>1
<1>2. \A t \in T : settled(t) /\ addr[t] \in Addresses /\ leases(t, addr[t])
  BY <1>1, SMTT(30) DEF leases, settled
<1>3. \A u \in Tunnels : settled(u)' <=> settled(u)
  BY DEF settled
<1>4. \A u \in Tunnels, b \in Addresses : leases(u, b)' <=> leases(u, b) /\ u \notin T
  BY <1>1, SMTT(30) DEF leases
<1> HIDE DEF Inv, DrainTunnels, Addresses, leases, settled
<1>5. \A t \in T : settled(t) /\ \E b \in Addresses : leases(t, b)
  BY <1>2
<1> QED
  BY <1>3, <1>4, <1>5, GivenBack

\* The goroutine that serves a port gives it back.
LEMMA ReleasePortLease ==
  ASSUME Inv, NEW t \in Tunnels, serving[t] \in {"starting", "running"}, ReleasePort(t)
  PROVE  Lease!Next
<1> USE DEF Inv, ReleasePort
<1>1. settled(t) /\ addr[t] \in Addresses /\ leases(t, addr[t])
  BY SMTT(30) DEF leases, settled
<1>2. \A u \in Tunnels : settled(u)' <=> settled(u)
  BY DEF settled
<1>3. \A u \in Tunnels, b \in Addresses : leases(u, b)' <=> leases(u, b) /\ u \notin {t}
  BY SMTT(30) DEF leases
<1> HIDE DEF Inv, ReleasePort, Addresses, leases, settled
<1>4. \A u \in {t} : settled(u) /\ \E b \in Addresses : leases(u, b)
  BY <1>1
<1> QED
  BY <1>2, <1>3, <1>4, GivenBack

\* All other steps leave the leases alone.
LEMMA OtherLease ==
  ASSUME Inv,
         \/ \E c \in Clients :
              \/ PeerBreaks(c) \/ PeerSilent(c)
              \/ AddClient(c) \/ LinkUser(c) \/ SendAuthResult(c) \/ ReadFails(c) \/ ReadInert(c)
              \/ Respond(c) \/ HandleReturns(c) \/ Leave(c)
              \/ KeepaliveTimeout(c) \/ CloseSessions(c) \/ UnlinkUser(c) \/ RemoveClient(c)
              \/ \E t \in Tunnels : ReadTunnelClose(c, t) \/ ApiCloseTunnel(c, t)
         \/ \E t \in Tunnels : FinishClose(t) \/ CloseSocket(t) \/ OpenUdpStream(t)
         \/ UNCHANGED vars
  PROVE  UNCHANGED <<holders, expired>>
<1> DEFINE same == \A t \in Tunnels :
                     /\ inHand(t, {"registering"})' <=> inHand(t, {"registering"})
                     /\ inHand(t, {"allocated", "bound"})' <=> inHand(t, {"allocated", "bound"})
<1>1. ASSUME NEW c \in Clients,
             \/ PeerBreaks(c) \/ PeerSilent(c)
             \/ AddClient(c) \/ LinkUser(c) \/ SendAuthResult(c) \/ ReadFails(c) \/ ReadInert(c)
             \/ Respond(c) \/ HandleReturns(c) \/ Leave(c)
             \/ KeepaliveTimeout(c) \/ CloseSessions(c) \/ UnlinkUser(c) \/ RemoveClient(c)
             \/ \E t \in Tunnels : ReadTunnelClose(c, t) \/ ApiCloseTunnel(c, t)
      PROVE  same /\ UNCHANGED <<routes, owner, addr, serving>>
  BY <1>1, SMTT(60)
  DEF Inv, PeerBreaks, PeerSilent, AddClient, LinkUser, SendAuthResult, ReadFails, ReadInert, CanRead,
      Respond, HandleReturns, Leave, KeepaliveTimeout, CloseSessions, UnlinkUser, RemoveClient,
      ReadTunnelClose, ApiCloseTunnel, TakeTunnel
<1>2. ASSUME NEW t \in Tunnels, FinishClose(t)
      PROVE  same /\ UNCHANGED <<routes, owner, addr, serving>>
  BY <1>2, SMTT(30) DEF Inv, FinishClose
<1>3. ASSUME NEW t \in Tunnels, CloseSocket(t)
      PROVE  UNCHANGED <<holders, expired>>
  <2>1. \A u \in Tunnels, b \in Addresses : leases(u, b)' <=> leases(u, b)
    BY <1>3, SMTT(30) DEF Inv, CloseSocket, leases
  <2>2. \A u \in Tunnels : settled(u)' <=> settled(u)
    BY <1>3, SMTT(30) DEF CloseSocket, settled
  <2> HIDE DEF Inv, Addresses, leases, settled
  <2>3. \A u \in Tunnels : over(u)' <=> over(u)
    BY <2>1, <2>2 DEF over
  <2> HIDE DEF over
  <2> QED
    BY <2>1, <2>3, LeasesKept
<1>4. ASSUME NEW t \in Tunnels, OpenUdpStream(t)
      PROVE  UNCHANGED <<holders, expired>>
  <2>1. \A u \in Tunnels, b \in Addresses : leases(u, b)' <=> leases(u, b)
    BY <1>4, SMTT(30) DEF Inv, OpenUdpStream, leases
  <2>2. \A u \in Tunnels : settled(u)' <=> settled(u)
    BY <1>4, SMTT(30) DEF OpenUdpStream, settled
  <2> HIDE DEF Inv, Addresses, leases, settled
  <2>3. \A u \in Tunnels : over(u)' <=> over(u)
    BY <2>1, <2>2 DEF over
  <2> HIDE DEF over
  <2> QED
    BY <2>1, <2>3, LeasesKept
<1>5. UNCHANGED vars => same /\ UNCHANGED <<routes, owner, addr, serving>>
  BY DEF vars
<1>6. same /\ UNCHANGED <<routes, owner, addr, serving>> => UNCHANGED <<holders, expired>>
  <2> HIDE DEF inHand
  <2> QED
    BY LeasesUntouched
<1> HIDE DEF same
<1> QED
  BY <1>1, <1>2, <1>3, <1>4, <1>5, <1>6

LEMMA LeaseStep == Inv /\ [Next]_vars => Lease!Next \/ UNCHANGED <<holders, expired>>
<1> SUFFICES ASSUME Inv, [Next]_vars
             PROVE  Lease!Next \/ UNCHANGED <<holders, expired>>
  OBVIOUS
<1>1. ASSUME NEW c \in Clients, Connection(c)
      PROVE  Lease!Next \/ UNCHANGED <<holders, expired>>
  BY <1>1, OtherLease, RegisterTunnelLease, BindPortLease, RecordTunnelLease, Zenon DEF Connection
<1>2. ASSUME NEW c \in Clients, PeerBreaks(c) \/ PeerSilent(c) \/ Closing(c)
      PROVE  Lease!Next \/ UNCHANGED <<holders, expired>>
  BY <1>2, OtherLease, DrainTunnelsLease, Zenon DEF Closing
<1>3. ASSUME NEW c \in Clients, NEW t \in Tunnels, Request(c, t)
      PROVE  Lease!Next \/ UNCHANGED <<holders, expired>>
  BY <1>3, OtherLease, RequestHTTPLease, RequestPortLease, Zenon DEF Request
<1>4. ASSUME NEW t \in Tunnels, ReleaseTunnel(t) \/ FinishClose(t)
      PROVE  Lease!Next \/ UNCHANGED <<holders, expired>>
  BY <1>4, OtherLease, ReleaseTunnelLease, Zenon
<1>5. ASSUME NEW t \in Tunnels, Serving(t)
      PROVE  Lease!Next \/ UNCHANGED <<holders, expired>>
  <2>1. CASE CloseSocket(t) \/ OpenUdpStream(t)
    BY <2>1, OtherLease, Zenon
  <2>2. CASE \/ AcceptFails(t) \/ AcceptGivesUp(t)
             \/ OpenUdpStreamFails(t) \/ UdpSessionEnds(t) \/ UdpPeerCloses(t)
    <3>1. serving[t] \in {"starting", "running"} /\ ReleasePort(t)
      BY <2>2 DEF AcceptFails, AcceptGivesUp, OpenUdpStreamFails, UdpSessionEnds, UdpPeerCloses
    <3> QED
      BY <3>1, ReleasePortLease, Zenon
  <2> QED
    BY <1>5, <2>1, <2>2, Zenon DEF Serving
<1>6. CASE UNCHANGED vars
  BY <1>6, OtherLease, Zenon
<1> QED
  BY <1>1, <1>2, <1>3, <1>4, <1>5, <1>6, Zenon DEF Next

\* The registry leases addresses as AddressLease says: exclusively, once to a
\* tunnel, and for good when it is over, whatever its goroutines interleave
\* (RegisterTunnel, PortAllocator, closeTunnel, Close).
THEOREM LeaseCorrect == Spec => LeaseSpec
<1>1. Init => Lease!Init
  <2> SUFFICES ASSUME Init PROVE Lease!Init
    OBVIOUS
  <2>1. \A t \in Tunnels : ~over(t) /\ \A a \in Addresses : ~leases(t, a)
    BY DEF Init, over, settled, leases
  <2> HIDE DEF Addresses, leases, over
  <2> QED
    BY <2>1, LeaseForm DEF Lease!Init
<1>2. Inv /\ [Next]_vars => [Lease!Next]_<<holders, expired>>
  BY LeaseStep
<1>3. [Lease!Next]_<<holders, expired>> <=> [Lease!Next]_(Lease!vars)
  BY DEF Lease!vars
<1> QED
  BY <1>1, <1>2, <1>3, Invariance, PTL DEF Spec, LeaseSpec, Lease!Spec
=============================================================================

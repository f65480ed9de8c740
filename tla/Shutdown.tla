------------------------------ MODULE Shutdown ------------------------------
(* The server stops while connections come and go: Server.Stop, the goroutine *)
(* that accepts control connections, those that handle them, and the          *)
(* connections through tunnels that it waits for (internal/server/server.go). *)
EXTENDS FiniteSets

CONSTANTS Conns,   \* control connections
          Guests   \* requests and connections through tunnels; a UDP tunnel is one

VARIABLES
  phase,     \* Stop(): "running", "drain", "notify", "cancel", "close", "wait", "stopped"
  listening, \* controlListener, httpListener
  acceptor,  \* acceptControlConnections: "on", "ended"
  cancelled, \* Server.ctx, of which every client's is a child
  conn,      \* handleControlConnection: "out", "greeting", "auth", "client", "ended"
  remote,    \* the other end: "up", "gone"
  snapshot,  \* the clients that Stop has listed
  shut,      \* the clients that Stop has closed
  guest,     \* the client of a guest, or "out", "done", "cut"
  early,     \* guests that were there when Stop began (history)
  hurried    \* the drain took too long (history)

connVars == <<acceptor, conn, remote>>
guestVars == <<guest, early, hurried>>
vars == <<phase, listening, cancelled, snapshot, shut, connVars, guestVars>>

Init ==
  /\ phase = "running" /\ listening = TRUE /\ acceptor = "on" /\ cancelled = FALSE
  /\ conn = [c \in Conns |-> "out"] /\ remote = [c \in Conns |-> "up"]
  /\ snapshot = {} /\ shut = {}
  /\ guest = [g \in Guests |-> "out"] /\ early = {} /\ hurried = FALSE

Move(c, from, to) == conn[c] = from /\ conn' = [conn EXCEPT ![c] = to]
present == {g \in Guests : guest[g] \notin {"out", "done", "cut"}}
clients == {c \in Conns : conn[c] = "client"}
\* What the end of a client makes of its guests.
Drop(c, fate) == guest' = [g \in Guests |-> IF guest[g] = c THEN fate ELSE guest[g]]

-----------------------------------------------------------------------------
(* Control connections.                                                    *)

\* acceptControlConnections, and the compression handshake, which has a deadline.
Accept(c) ==
  /\ listening /\ acceptor = "on" /\ Move(c, "out", "greeting")
  /\ UNCHANGED <<phase, listening, cancelled, snapshot, shut, acceptor, remote, guestVars>>

\* The listener is closed: an error is logged until the context is cancelled.
AcceptorEnds ==
  /\ ~listening /\ cancelled /\ acceptor = "on" /\ acceptor' = "ended"
  /\ UNCHANGED <<phase, listening, cancelled, snapshot, shut, conn, remote, guestVars>>

\* The control stream comes, for which there is no deadline; then there is one.
OpensControl(c) ==
  /\ remote[c] = "up" /\ Move(c, "greeting", "auth")
  /\ UNCHANGED <<phase, listening, cancelled, snapshot, shut, acceptor, remote, guestVars>>

\* authenticate does not ask whether the server stops.
Authenticate(c) ==
  /\ remote[c] = "up" /\ Move(c, "auth", "client")
  /\ UNCHANGED <<phase, listening, cancelled, snapshot, shut, acceptor, remote, guestVars>>

AuthFails(c) ==
  /\ Move(c, "auth", "ended")
  /\ UNCHANGED <<phase, listening, cancelled, snapshot, shut, acceptor, remote, guestVars>>

\* A client's message: the loop of handle() looks at the context before it
\* reads the next one.
Message(c) ==
  /\ remote[c] = "up" /\ cancelled /\ Move(c, "client", "ended") /\ Drop(c, "cut")
  /\ UNCHANGED <<phase, listening, cancelled, snapshot, shut, acceptor, remote, early, hurried>>

RemoteLeaves(c) ==
  /\ remote[c] = "up" /\ conn[c] \in {"greeting", "auth", "client"}
  /\ remote' = [remote EXCEPT ![c] = "gone"]
  /\ UNCHANGED <<phase, listening, cancelled, snapshot, shut, acceptor, conn, guestVars>>

\* Reading fails.
Return(c) ==
  /\ conn[c] \in {"greeting", "client"} /\ (remote[c] = "gone" \/ c \in shut)
  /\ conn' = [conn EXCEPT ![c] = "ended"] /\ Drop(c, "done")
  /\ UNCHANGED <<phase, listening, cancelled, snapshot, shut, acceptor, remote, early, hurried>>

-----------------------------------------------------------------------------
(* Connections through tunnels, which activeConns counts. Those of TCP come   *)
(* in as long as their client is there.                                       *)

Enter(g, c) ==
  /\ guest[g] = "out" /\ c \in clients \ shut
  /\ guest' = [guest EXCEPT ![g] = c]
  /\ UNCHANGED <<phase, listening, cancelled, snapshot, shut, connVars, early, hurried>>

Finish(g) ==
  /\ g \in present /\ guest' = [guest EXCEPT ![g] = "done"]
  /\ UNCHANGED <<phase, listening, cancelled, snapshot, shut, connVars, early, hurried>>

-----------------------------------------------------------------------------
(* Server.Stop.                                                            *)

StopListening ==
  /\ phase = "running" /\ phase' = "drain" /\ listening' = FALSE /\ early' = present
  /\ UNCHANGED <<cancelled, snapshot, shut, connVars, guest, hurried>>

\* Mutant: nobody is waited for.
DrainSkipped ==
  /\ phase = "drain" /\ phase' = "notify"
  /\ UNCHANGED <<listening, cancelled, snapshot, shut, connVars, guestVars>>

\* activeConns.Wait.
Drained ==
  /\ phase = "drain" /\ present = {} /\ phase' = "notify"
  /\ UNCHANGED <<listening, cancelled, snapshot, shut, connVars, guestVars>>

\* Mutant: the drain has no end.
DrainWaits ==
  /\ phase = "drain" /\ present = {} /\ phase' = "notify" /\ hurried' = TRUE
  /\ UNCHANGED <<listening, cancelled, snapshot, shut, connVars, guest, early>>

\* drainTimeout.
DrainTimesOut ==
  /\ phase = "drain" /\ present # {} /\ phase' = "notify" /\ hurried' = TRUE
  /\ UNCHANGED <<listening, cancelled, snapshot, shut, connVars, guest, early>>

\* allClients, whom ServerShutdown and GoAway are sent to.
Notify ==
  /\ phase = "notify" /\ phase' = "cancel" /\ snapshot' = clients
  /\ UNCHANGED <<listening, cancelled, shut, connVars, guestVars>>

\* After two seconds.
Cancel ==
  /\ phase = "cancel" /\ phase' = "close" /\ cancelled' = TRUE
  /\ UNCHANGED <<listening, snapshot, shut, connVars, guestVars>>

\* Client.Close, of those that were listed.
CloseClient(c) ==
  /\ phase = "close" /\ c \in snapshot \ shut
  /\ shut' = shut \cup {c} /\ Drop(c, "cut")
  /\ UNCHANGED <<phase, listening, cancelled, snapshot, connVars, early, hurried>>

StartWait ==
  /\ phase = "close" /\ snapshot \subseteq shut /\ phase' = "wait"
  /\ UNCHANGED <<listening, cancelled, snapshot, shut, connVars, guestVars>>

\* wg.Wait returns.
Stopped ==
  /\ phase = "wait" /\ acceptor = "ended" /\ \A c \in Conns : conn[c] \in {"out", "ended"}
  /\ phase' = "stopped"
  /\ UNCHANGED <<listening, cancelled, snapshot, shut, connVars, guestVars>>

Stop ==
  \/ Drained \/ DrainTimesOut \/ Notify \/ Cancel \/ StartWait \/ Stopped
  \/ \E c \in Conns : CloseClient(c)

Next ==
  \/ StopListening \/ Stop \/ AcceptorEnds
  \/ \E c \in Conns :
       \/ Accept(c) \/ OpensControl(c) \/ Authenticate(c) \/ AuthFails(c)
       \/ Message(c) \/ RemoteLeaves(c) \/ Return(c)
  \/ \E g \in Guests : Finish(g) \/ \E c \in Conns : Enter(g, c)

\* Goroutines and timers of the server go on; nobody else has to.
Fairness ==
  /\ WF_vars(Stop) /\ WF_vars(AcceptorEnds)
  /\ \A c \in Conns : WF_vars(AuthFails(c)) /\ WF_vars(Return(c))

Spec == Init /\ [][Next]_vars /\ Fairness

-----------------------------------------------------------------------------
\* Who keeps Stop waiting: a connection that has not opened its control stream,
\* or one that became a client after the clients were listed, and says nothing.
straggler(c) == c \notin snapshot /\ remote[c] = "up" /\ conn[c] \in {"greeting", "client"}

\* Stop returns, unless there is a straggler when it waits (Server.Stop).
StopReturns ==
  (phase = "drain" \/ (phase = "wait" /\ \A c \in Conns : ~straggler(c)))
    ~> (phase = "stopped" \/ (phase = "wait" /\ \E c \in Conns : straggler(c)))

\* A connection through a tunnel that was there when Stop began is cut off by it
\* only if the drain took too long (drainTimeout).
DrainedFirst == \A g \in early : guest[g] = "cut" => hurried
=============================================================================

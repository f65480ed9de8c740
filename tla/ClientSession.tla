--------------------------- MODULE ClientSession ---------------------------
(* The client's end of the control connection (internal/client/client.go):  *)
(* Connect, the goroutines it starts, the pending tunnel requests, the      *)
(* reconnect loop, the timer of a server shutdown, and Close. The fields of *)
(* Client are shared by all of them, and few are locked.                    *)
EXTENDS Naturals, FiniteSets

CONSTANTS Sessions,     \* connections to the server, reused when forgotten
          Main,         \* the goroutine that calls Connect first
          Apis,         \* goroutines of the daemon's API or of the GUI
          Loops,        \* goroutines that run reconnect
          NConfigs,     \* how many tunnels the configuration has
          MaxAttempts,  \* Reconnect.MaxAttempts, 0 for no limit
          Enabled,      \* Reconnect.Enabled
          Refresher,    \* there is a TokenRefresher
          None

Requesters == Loops \cup Apis \cup {Main}

ASSUME SessionAssumption ==
  /\ None \notin Sessions /\ Main \notin Loops \cup Apis /\ Loops \cap Apis = {}
  /\ NConfigs \in Nat \ {0} /\ MaxAttempts \in Nat
  /\ Enabled \in BOOLEAN /\ Refresher \in BOOLEAN

VARIABLES
  link,         \* a session's state, as its users here see it
  session,      \* c.conn, c.session, c.controlStream
  cancelled,    \* c.ctx is cancelled
  tasks,        \* goroutines counted by c.wg, with their session
  busy,         \* the stream a worker serves: of which session, and whether
                \* the inspector takes part
  data,         \* c.dataSessions
  dataUp,       \* data sessions that work
  reconnecting, \* c.reconnecting
  timer,        \* the goroutine of handleServerShutdown
  conn,         \* where each requester is in Connect, RequestTunnel, reconnect
  answer,       \* what is in the channel of its pending request
  asked,        \* requests the server has not answered
  tunnels,      \* c.tunnels
  closing,      \* how far the user's Close() is
  late,         \* Close() met a Connect or reconnect under way (history)
  announced     \* the server has announced that it stops (history)

linkVars == <<link, session, data, dataUp, asked>>
taskVars == <<tasks, busy>>
history == <<late, announced>>
vars == <<linkVars, taskVars, cancelled, reconnecting, timer, conn, answer, tunnels, closing, history>>

Kinds == {"messages", "accept", "keepalive", "data"}
Places == {"idle", "check", "cancel", "wait", "dial", "auth", "join", "joined", "request", "await", "done", "failed"}
\* The places of a requester that is between the loop's check and its end.
connecting == {"cancel", "wait", "dial", "auth", "join", "joined", "request", "await"}
\* A tunnel is known by the request it answers.
Tunnels == Sessions \X Requesters \X (1..NConfigs)

idle == [at |-> "idle", session |-> None, next |-> 1, attempts |-> 0]

Init ==
  /\ link = [s \in Sessions |-> "down"] /\ session = None /\ data = {} /\ dataUp = {}
  /\ asked = {}
  /\ tasks = {} /\ busy = None
  /\ cancelled = FALSE /\ reconnecting = FALSE /\ timer = "none"
  /\ conn = [x \in Requesters |-> IF x = Main THEN [idle EXCEPT !.at = "dial"] ELSE idle]
  /\ answer = [x \in Requesters |-> None]
  /\ tunnels = {} /\ closing = "no" /\ late = FALSE /\ announced = FALSE

-----------------------------------------------------------------------------
(* Sessions.                                                               *)

alive(s) == s # None /\ link[s] # "down"

\* The sessions in S, and the data sessions in D, are closed or lost. What was
\* asked is never answered.
Down(S, D) ==
  /\ link' = [s \in Sessions |-> IF s \in S THEN "down" ELSE link[s]]
  /\ asked' = {r \in asked : r[1] \notin S}
  /\ dataUp' = dataUp \ D

\* Close the current session and the data sessions.
CloseSessions ==
  /\ Down({session}, data)
  /\ data' = {}
  /\ UNCHANGED session

\* Close(), called by a goroutine of the client itself.
CloseClient == cancelled' = TRUE /\ CloseSessions

\* Nothing refers to the session any more: its name may be used for a new one.
forgotten(s) ==
  /\ link[s] = "down" /\ session # s /\ s \notin data \cup dataUp
  /\ \A k \in Kinds : <<s, k>> \notin tasks
  /\ \A t \in tunnels : t[1] # s
  /\ busy # None => busy.session # s
  /\ \A x \in Requesters : conn[x].session # s /\ (answer[x] # None => answer[x][1] # s)

\* The network, or the server, ends a session; a session may also hang.
SessionLost(s) ==
  /\ link[s] # "down"
  /\ Down({s}, {})
  /\ UNCHANGED <<session, data, taskVars, cancelled, reconnecting, timer, conn, answer, tunnels, closing, history>>

SessionHangs(s) ==
  /\ link[s] = "open"
  /\ link' = [link EXCEPT ![s] = "silent"]
  /\ UNCHANGED <<session, data, dataUp, asked, taskVars, cancelled, reconnecting, timer, conn, answer, tunnels, closing, history>>

\* A data session ends, at the latest when the server has closed its client.
DataSessionLost(s) ==
  /\ s \in dataUp
  /\ dataUp' = dataUp \ {s}
  /\ UNCHANGED <<link, session, data, asked, taskVars, cancelled, reconnecting, timer, conn, answer, tunnels, closing, history>>

-----------------------------------------------------------------------------
(* Connect.                                                                *)

goes(x, place) == conn' = [conn EXCEPT ![x].at = place]

\* Connect returns. The program gives up when its first connection fails; the
\* loop sleeps and looks at the context again.
leaves(x, place) == conn' = [conn EXCEPT ![x].at = place, ![x].session = None]
fails(x) == leaves(x, IF x = Main THEN "failed" ELSE "check")

Dial(x) ==
  /\ conn[x].at = "dial"
  /\ \E s \in Sessions :
       /\ forgotten(s)
       /\ link' = [link EXCEPT ![s] = "open"]
       /\ session' = s
       /\ conn' = [conn EXCEPT ![x].at = "auth", ![x].session = s]
  /\ UNCHANGED <<data, dataUp, asked, taskVars, cancelled, reconnecting, timer, answer, tunnels, closing, history>>

DialFails(x) ==
  /\ conn[x].at = "dial"
  /\ fails(x)
  /\ UNCHANGED <<linkVars, taskVars, cancelled, reconnecting, timer, answer, tunnels, closing, history>>

\* authenticate; then the goroutines start: the stream workers, handleMessages,
\* acceptStreams and keepalive.
Authenticate(x) ==
  /\ conn[x].at = "auth"
  /\ session # None /\ link[session] = "open"
  /\ tasks' = tasks \cup {conn[x].session} \X {"messages", "accept", "keepalive"}
  /\ goes(x, "join")
  /\ UNCHANGED <<linkVars, busy, cancelled, reconnecting, timer, answer, tunnels, closing, history>>

\* The server refuses the token, or does not answer.
AuthenticateFails(x) ==
  /\ conn[x].at = "auth"
  /\ Down({session}, {})
  /\ fails(x)
  /\ UNCHANGED <<session, data, taskVars, cancelled, reconnecting, timer, answer, tunnels, closing, history>>

\* The token has expired: the loop tries again with a new one, if it knows how
\* to get one.
TokenExpired(x) ==
  /\ conn[x].at = "auth"
  /\ session # None /\ link[session] = "open"
  /\ IF x = Main \/ Refresher
       THEN Down({session}, {}) /\ fails(x) /\ UNCHANGED <<session, data, cancelled>>
       ELSE CloseClient /\ conn' = [conn EXCEPT ![x] = idle]
  /\ UNCHANGED <<taskVars, reconnecting, timer, answer, tunnels, closing, history>>

\* A data connection joins the session, if the server still has its client;
\* then it is recorded, though the others may have been closed meanwhile.
Join(x) ==
  /\ conn[x].at = "join"
  /\ alive(conn[x].session)
  /\ dataUp' = dataUp \cup {conn[x].session}
  /\ goes(x, "joined")
  /\ UNCHANGED <<link, session, data, asked, taskVars, cancelled, reconnecting, timer, answer, tunnels, closing, history>>

RecordJoin(x) ==
  /\ conn[x].at = "joined"
  /\ data' = data \cup {conn[x].session}
  /\ tasks' = tasks \cup {<<conn[x].session, "data">>}
  /\ conn' = [conn EXCEPT ![x].at = "request", ![x].next = 1]
  /\ UNCHANGED <<link, session, dataUp, asked, busy, cancelled, reconnecting, timer, answer, tunnels, closing, history>>

JoinFails(x) ==
  /\ conn[x].at = "join"
  /\ conn' = [conn EXCEPT ![x].at = "request", ![x].next = 1]
  /\ UNCHANGED <<linkVars, taskVars, cancelled, reconnecting, timer, answer, tunnels, closing, history>>

\* Mutant: the flag stays set after a successful reconnect.
ConnectedKeepsFlag(x) ==
  /\ conn[x].at = "request" /\ conn[x].next > NConfigs
  /\ x \notin Apis
  /\ IF x = Main THEN leaves(x, "done") ELSE conn' = [conn EXCEPT ![x] = idle]
  /\ UNCHANGED <<linkVars, taskVars, cancelled, reconnecting, timer, answer, tunnels, closing, history>>

\* All tunnels of the configuration have been requested: Connect returns, and
\* reconnect with it.
Connected(x) ==
  /\ conn[x].at = "request" /\ conn[x].next > NConfigs
  /\ x \notin Apis
  /\ IF x = Main THEN leaves(x, "done") /\ UNCHANGED reconnecting
                 ELSE conn' = [conn EXCEPT ![x] = idle] /\ reconnecting' = FALSE
  /\ UNCHANGED <<linkVars, taskVars, cancelled, timer, answer, tunnels, closing, history>>

-----------------------------------------------------------------------------
(* RequestTunnel. Connect calls it for each tunnel of the configuration, on  *)
(* whatever control stream the client has by then.                           *)

next(x) == conn' = [conn EXCEPT ![x].at = "request", ![x].next = @ + 1]

SendRequest(x) ==
  /\ conn[x].at = "request" /\ conn[x].next <= NConfigs
  /\ alive(session)
  /\ asked' = asked \cup {<<session, x, conn[x].next>>}
  /\ goes(x, "await")
  /\ UNCHANGED <<link, session, data, dataUp, taskVars, cancelled, reconnecting, timer, answer, tunnels, closing, history>>

SendRequestFails(x) ==
  /\ conn[x].at = "request" /\ conn[x].next <= NConfigs
  /\ ~alive(session)
  /\ next(x)
  /\ UNCHANGED <<linkVars, taskVars, cancelled, reconnecting, timer, answer, tunnels, closing, history>>

TakeAnswer(x) ==
  /\ conn[x].at = "await"
  /\ answer[x] # None
  /\ tunnels' = tunnels \cup {answer[x]}
  /\ answer' = [answer EXCEPT ![x] = None]
  /\ next(x)
  /\ UNCHANGED <<linkVars, taskVars, cancelled, reconnecting, timer, closing, history>>

\* The time-out fires, or the context is cancelled. The pending request goes,
\* and with it an answer that has just arrived.
AnswerTimesOut(x) ==
  /\ conn[x].at = "await"
  /\ answer' = [answer EXCEPT ![x] = None]
  /\ next(x)
  /\ UNCHANGED <<linkVars, taskVars, cancelled, reconnecting, timer, tunnels, closing, history>>

\* The daemon's API or the GUI asks for one tunnel, once, at any time after
\* the first connection.
ApiRequest(x) ==
  /\ conn[x].at = "idle" /\ conn[Main].at = "done"
  /\ conn' = [conn EXCEPT ![x].at = "request", ![x].next = NConfigs]
  /\ UNCHANGED <<linkVars, taskVars, cancelled, reconnecting, timer, answer, tunnels, closing, history>>

ApiAnswered(x) ==
  /\ conn[x].at = "request" /\ conn[x].next > NConfigs
  /\ goes(x, "done")
  /\ UNCHANGED <<linkVars, taskVars, cancelled, reconnecting, timer, answer, tunnels, closing, history>>

-----------------------------------------------------------------------------
(* The goroutines of a connection. They look at the fields of the client,   *)
(* not at the session they were started for.                                *)

ends(s, k) == tasks' = tasks \ {<<s, k>>}

\* Mutant: everyone who comes starts a loop.
HandleDisconnectAlways ==
  /\ reconnecting' = TRUE
  /\ IF Enabled
       THEN /\ \E l \in Loops : conn[l].at = "idle" /\ goes(l, "check")
            /\ UNCHANGED <<linkVars, cancelled>>
       ELSE CloseClient /\ UNCHANGED conn

\* handleDisconnect: the first to come starts the reconnect loop, or closes
\* the client. All others are ignored.
HandleDisconnect ==
  \/ /\ reconnecting
     /\ UNCHANGED <<linkVars, cancelled, reconnecting, conn>>
  \/ /\ ~reconnecting
     /\ reconnecting' = TRUE
     /\ IF Enabled
          THEN /\ \E l \in Loops : conn[l].at = "idle" /\ goes(l, "check")
               /\ UNCHANGED <<linkVars, cancelled>>
          ELSE CloseClient /\ UNCHANGED conn

\* handleMessages: the answer to a request. Nobody may be waiting any more.
HandleTunnelCreated(s, r) ==
  /\ <<s, "messages">> \in tasks /\ ~cancelled
  /\ r \in asked /\ r[1] = session /\ link[session] = "open"
  /\ asked' = asked \ {r}
  /\ answer' = [answer EXCEPT ![r[2]] =
                  IF conn[r[2]].at = "await" /\ conn[r[2]].next = r[3] THEN r ELSE @]
  /\ UNCHANGED <<link, session, data, dataUp, taskVars, cancelled, reconnecting, timer, conn, tunnels, closing, history>>

\* A refusal is logged; the request goes on waiting.
HandleTunnelError(s, r) ==
  /\ <<s, "messages">> \in tasks /\ ~cancelled
  /\ r \in asked /\ r[1] = session /\ link[session] = "open"
  /\ asked' = asked \ {r}
  /\ UNCHANGED <<link, session, data, dataUp, taskVars, cancelled, reconnecting, timer, conn, answer, tunnels, closing, history>>

HandleTunnelClosed(s, t) ==
  /\ <<s, "messages">> \in tasks /\ ~cancelled
  /\ t \in tunnels /\ t[1] = session /\ link[session] = "open"
  /\ tunnels' = tunnels \ {t}
  /\ UNCHANGED <<linkVars, taskVars, cancelled, reconnecting, timer, conn, answer, closing, history>>

\* The server announces that it stops: no reconnect before the timer fires.
\* (handleError closes the client on a fatal error, which the server sends
\* before authentication only, server.go:555.)
HandleServerShutdown(s) ==
  /\ <<s, "messages">> \in tasks /\ ~cancelled
  /\ session # None /\ link[session] = "open"
  /\ timer = "none"
  /\ timer' = "sleeping"
  /\ reconnecting' = TRUE
  /\ announced' = TRUE
  /\ UNCHANGED <<linkVars, taskVars, cancelled, conn, answer, tunnels, closing, late>>

ShutdownTimerFires ==
  /\ timer = "sleeping"
  /\ timer' = "fired"
  /\ reconnecting' = FALSE
  /\ UNCHANGED <<linkVars, taskVars, cancelled, conn, answer, tunnels, closing, history>>

ShutdownTimerDisconnects ==
  /\ timer = "fired"
  /\ timer' = "none"
  /\ HandleDisconnect
  /\ UNCHANGED <<taskVars, answer, tunnels, closing, history>>

\* handleMessages and acceptStreams meet an error and report it; only the latter
\* looks at the context first.
ReadFails(s, k) ==
  /\ k \in {"messages", "accept"} /\ <<s, k>> \in tasks
  /\ ~alive(session)
  /\ k = "accept" => ~cancelled
  /\ ends(s, k)
  /\ HandleDisconnect
  /\ UNCHANGED <<busy, timer, answer, tunnels, closing, history>>


\* They end when the context is cancelled; acceptStreams and the acceptors of
\* data sessions only when their session is closed, too.
TaskEnds(s, k) ==
  /\ <<s, k>> \in tasks
  /\ \/ k \in {"messages", "keepalive"} /\ cancelled
     \/ k = "accept" /\ cancelled /\ ~alive(session)
     \/ k = "data" /\ s \notin dataUp
  /\ ends(s, k)
  /\ UNCHANGED <<linkVars, busy, cancelled, reconnecting, timer, conn, answer, tunnels, closing, history>>

\* Mutant: keepalive ends without reporting the loss.
KeepaliveEnds(s) ==
  /\ <<s, "keepalive">> \in tasks /\ ~cancelled
  /\ session # None /\ link[session] # "open"
  /\ \A x \in Requesters : conn[x].session # s
  /\ ends(s, "keepalive")
  /\ UNCHANGED <<linkVars, busy, cancelled, reconnecting, timer, conn, answer, tunnels, closing, history>>

\* keepalive: three pings in a row could not be sent, or no pong has come for
\* 90 s. That takes longer than what a Connect still waits for when its session
\* is lost: the data connections (70 s from the start) or one answer (30 s).
KeepaliveGivesUp(s) ==
  /\ <<s, "keepalive">> \in tasks /\ ~cancelled
  /\ session # None /\ link[session] # "open"
  /\ \A x \in Requesters : conn[x].session # s
  /\ ends(s, "keepalive")
  /\ HandleDisconnect
  /\ UNCHANGED <<busy, timer, answer, tunnels, closing, history>>

\* handleStream, which copies in both directions or, with the inspector, sends
\* the local service a request and reads its response.
WorkerServes ==
  /\ busy = None /\ alive(session) /\ ~cancelled
  /\ \E t \in tunnels : t[1] = session
  /\ \E inspected \in BOOLEAN : busy' = [session |-> session, inspected |-> inspected]
  /\ UNCHANGED <<linkVars, tasks, cancelled, reconnecting, timer, conn, answer, tunnels, closing, history>>

\* The visitor or the local service has ended.
WorkerReturns ==
  /\ busy # None
  /\ busy' = None
  /\ UNCHANGED <<linkVars, tasks, cancelled, reconnecting, timer, conn, answer, tunnels, closing, history>>

\* It has lost its stream, and notices: not while the inspector waits for the
\* local service, which has no deadline.
streamLost == busy # None /\ ~busy.inspected /\ ~alive(busy.session) /\ busy.session \notin dataUp

-----------------------------------------------------------------------------
(* reconnect.                                                              *)

\* The context of the loop is cancelled: it gives up.
LoopEnds(l) ==
  /\ conn[l].at = "check" /\ cancelled
  /\ conn' = [conn EXCEPT ![l] = idle]
  /\ UNCHANGED <<linkVars, taskVars, cancelled, reconnecting, timer, answer, tunnels, closing, history>>

spent(l) == MaxAttempts > 0 /\ conn[l].attempts = MaxAttempts

AttemptsSpent(l) ==
  /\ conn[l].at = "check" /\ ~cancelled /\ spent(l)
  /\ conn' = [conn EXCEPT ![l] = idle]
  /\ CloseClient
  /\ UNCHANGED <<taskVars, reconnecting, timer, answer, tunnels, closing, history>>

\* Close what there is and forget the tunnels.
CloseOld(l) ==
  /\ conn[l].at = "check" /\ ~cancelled /\ ~spent(l)
  /\ conn' = [conn EXCEPT ![l].at = "cancel", ![l].attempts = IF MaxAttempts = 0 THEN 0 ELSE @ + 1]
  /\ CloseSessions
  /\ tunnels' = {}
  /\ UNCHANGED <<taskVars, cancelled, reconnecting, timer, answer, closing, history>>

CancelOld(l) ==
  /\ conn[l].at = "cancel"
  /\ cancelled' = TRUE
  /\ goes(l, "wait")
  /\ UNCHANGED <<linkVars, taskVars, reconnecting, timer, answer, tunnels, closing, history>>

\* wg.Wait, then a new context.
WaitEnds(l) ==
  /\ conn[l].at = "wait"
  /\ tasks = {} /\ busy = None
  /\ cancelled' = FALSE
  /\ goes(l, "dial")
  /\ UNCHANGED <<linkVars, taskVars, reconnecting, timer, answer, tunnels, closing, history>>

-----------------------------------------------------------------------------
(* The user closes the client: Close() cancels the context it finds, then   *)
(* closes the sessions it finds. The program calls it when its first Connect *)
(* has returned.                                                             *)

Close ==
  /\ closing = "no" /\ conn[Main].at = "done"
  /\ closing' = "cancelled"
  /\ cancelled' = TRUE
  /\ late' = \E x \in Requesters : conn[x].at \in connecting
  /\ UNCHANGED <<linkVars, taskVars, reconnecting, timer, conn, answer, tunnels, announced>>

\* Mutant: only the data sessions are closed.
CloseEndsData ==
  /\ closing = "cancelled"
  /\ closing' = "done"
  /\ Down({}, data)
  /\ data' = {}
  /\ UNCHANGED <<session, taskVars, cancelled, reconnecting, timer, conn, answer, tunnels, history>>

CloseEnds ==
  /\ closing = "cancelled"
  /\ closing' = "done"
  /\ CloseSessions
  /\ UNCHANGED <<taskVars, cancelled, reconnecting, timer, conn, answer, tunnels, history>>

-----------------------------------------------------------------------------

Connect(x) ==
  \/ Dial(x) \/ DialFails(x) \/ Authenticate(x) \/ AuthenticateFails(x)
  \/ TokenExpired(x) \/ Join(x) \/ RecordJoin(x) \/ JoinFails(x) \/ Connected(x)
Request(x) == SendRequest(x) \/ SendRequestFails(x) \/ TakeAnswer(x) \/ AnswerTimesOut(x)
Reconnect(l) ==
  \/ LoopEnds(l) \/ AttemptsSpent(l) \/ CloseOld(l) \/ CancelOld(l) \/ WaitEnds(l)
Task(s) ==
  \/ \E k \in Kinds : ReadFails(s, k) \/ TaskEnds(s, k)
  \/ KeepaliveGivesUp(s)
Message(s) ==
  \/ \E r \in asked : HandleTunnelCreated(s, r) \/ HandleTunnelError(s, r)
  \/ \E t \in tunnels : HandleTunnelClosed(s, t)
  \/ HandleServerShutdown(s)

Next ==
  \/ \E s \in Sessions :
       SessionLost(s) \/ SessionHangs(s) \/ DataSessionLost(s) \/ Task(s) \/ Message(s)
  \/ \E x \in Loops \cup {Main} : Connect(x)
  \/ \E x \in Requesters : Request(x)
  \/ \E l \in Loops : Reconnect(l)
  \/ \E x \in Apis : ApiRequest(x) \/ ApiAnswered(x)
  \/ ShutdownTimerFires \/ ShutdownTimerDisconnects
  \/ WorkerServes \/ WorkerReturns
  \/ Close \/ CloseEnds

Spec == Init /\ [][Next]_vars

\* Go schedules the goroutines, time passes, a hung session is dropped by yamux,
\* and the server ends the data sessions of a client it has lost. Nothing is
\* assumed of the network otherwise, and nothing of the local services.
Fairness ==
  /\ \A x \in Loops \cup {Main} : WF_vars(Connect(x))
  /\ \A x \in Requesters : WF_vars(Request(x))
  /\ \A l \in Loops : WF_vars(Reconnect(l))
  /\ \A s \in Sessions : WF_vars(Task(s)) /\ WF_vars(DataSessionLost(s) /\ ~alive(s))
  /\ \A s \in Sessions : WF_vars(SessionLost(s) /\ link[s] = "silent")
  /\ WF_vars(ShutdownTimerFires \/ ShutdownTimerDisconnects)
  /\ WF_vars(WorkerReturns /\ streamLost) /\ WF_vars(CloseEnds)
  /\ \A x \in Apis : WF_vars(ApiAnswered(x))

FairSpec == Spec /\ Fairness

-----------------------------------------------------------------------------

running(l) == conn[l].at # "idle"

\* reconnecting says that somebody is going to reconnect: a loop, or the
\* shutdown timer that will start one. Were it left behind, every later
\* disconnect would be ignored.
ReconnectingIsBacked ==
  reconnecting /\ ~cancelled => timer = "sleeping" \/ \E l \in Loops : running(l)

\* Close() is final unless a Connect or a loop was under way: those go on with
\* a context and sessions that Close() has not seen.
CloseHolds == closing = "done" /\ ~late => ~alive(session)

\* The client has one control connection; no other is left open behind it.
OneSession == \A s \in Sessions : link[s] # "down" => s = session

\* The client lists tunnels of its current session. Only a request from
\* outside the loop, answered just before the session was lost, may add an
\* old one: the loop waits for nobody else's answers.
FreshTunnels == \A t \in tunnels : t[1] = session \/ t[2] \in Apis \cup {Main}

\* So it is as long as the server has not announced that it stops: the timer
\* that this starts clears the flag of a loop under way, and a second loop may
\* close or leave behind the session of the first (handleServerShutdown).
OneSessionPerLoop == ~announced => OneSession /\ FreshTunnels

\* A loop does not wait for ever for the goroutines of the lost connection,
\* unless one of them is left waiting for a local service by the inspector: it
\* is not told that the stream has ended (reconnect, handleStream).
WaitsEnd ==
  \A l \in Loops : conn[l].at = "wait" ~> conn[l].at # "wait" \/ (busy # None /\ busy.inspected)

lost == session # None /\ ~alive(session)

\* "auto-reconnect" (README.md): a connection that was lost is followed by an
\* attempt to reconnect, or the client is closed. Who reports the loss while a
\* Connect is under way is ignored; keepalive must still be there afterwards.
Recovers == (lost /\ conn[Main].at = "done") ~> (alive(session) \/ cancelled \/ reconnecting)

\* "Close closes the client" (client.go).
CloseIsFinal == closing = "done" => ~alive(session)
=============================================================================

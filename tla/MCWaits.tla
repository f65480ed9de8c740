------------------------------- MODULE MCWaits ------------------------------
(* What must come to an end, one part of the system at a time: the visitors  *)
(* of a client whose only session stays, the stop of the server, the sign-in *)
(* of the command line and that of the desktop application.                  *)
EXTENDS Streams, Shutdown

CONSTANTS Requesters, Polls, Approvers, MaxFlows, Waiters

VARIABLES listed, status, token, old, poll, approver, created, cli, saved, torn, lost,
          flows, server, chan, closed, promised, waiter, signedIn, late,
          scene

deviceVars == <<listed, status, token, old, poll, approver, created, cli, saved, torn, lost>>
flowVars == <<flows, server, chan, closed, promised, waiter, signedIn, late>>
waitVars == <<streamsVars, vars, deviceVars, flowVars, scene>>

C == INSTANCE DeviceFlow
B == INSTANCE DesktopFlow WITH current <- server

WaitInit ==
  /\ StreamsInit /\ Init /\ C!Init /\ B!Init
  /\ scene \in {"visitors", "stop", "command line", "desktop"}

\* Requesters are visitors that send requests; the others hold a connection.
InVisitors(step) ==
  /\ scene = "visitors" /\ step
  /\ \A v \in Visitors : visitor'[v].at \notin (IF v \in Requesters THEN {"tcp", "upgrade"} ELSE {"http"})
  /\ UNCHANGED <<session, ending, vars, deviceVars, flowVars, scene>>
InStop(step) == scene = "stop" /\ step /\ UNCHANGED <<streamsVars, deviceVars, flowVars, scene>>
InDevice(step) == scene = "command line" /\ step /\ UNCHANGED <<streamsVars, vars, flowVars, scene>>
InBrowser(step) == scene = "desktop" /\ step /\ UNCHANGED <<streamsVars, vars, deviceVars, scene>>

WaitNext == InVisitors(StreamsNext) \/ InStop(Next) \/ InDevice(C!Next) \/ InBrowser(B!Next)

\* That of the modules, each in its scene.
WaitFairness ==
  /\ WF_streamsVars(InVisitors(Refill))
  /\ \A s \in Sessions : WF_streamsVars(InVisitors(AcceptStream(s)))
  /\ \A v \in Visitors : WF_streamsVars(InVisitors(Handle(v)))
  /\ WF_streamsVars(InVisitors(\E w \in Workers : Work(w)))
  /\ \A x \in Ids : WF_streamsVars(InVisitors(ReadHeader(x) \/ SeeEnd(x)))
  /\ WF_vars(InStop(Stop)) /\ WF_vars(InStop(AcceptorEnds))
  /\ \A c \in Conns : WF_vars(InStop(AuthFails(c))) /\ WF_vars(InStop(Return(c)))
  /\ \A p \in Polls : WF_deviceVars(InDevice(C!Poll(p)))
  /\ WF_deviceVars(InDevice(\E p \in Polls : C!Cli(p)))
  /\ WF_deviceVars(InDevice(C!GiveUp))
  /\ \A a \in Approvers : WF_deviceVars(InDevice(C!Authorize(a)))
  /\ \A w \in Waiters : WF_flowVars(InBrowser(B!Receive(w) \/ B!StopWaiting(w)))

WaitSpec == WaitInit /\ [][WaitNext]_waitVars /\ WaitFairness

-----------------------------------------------------------------------------
\* Who authorizes the command line finds it signed in (loginWithBrowser).
AuthorizedIsSaved == C!AuthorizedIsSaved
\* A sign-in that the browser shows as done is done (WaitOAuthCallback).
PromiseKept == B!PromiseKept
=============================================================================

---------------------------- MODULE DesktopFlow ----------------------------
(* Signing the desktop application in through the browser: a local server   *)
(* for one callback, a channel, and a call that waits for it                *)
(* (StartOAuthFlow, WaitOAuthCallback, CancelOAuthFlow). A new flow closes  *)
(* the one before; whoever stops waiting closes the flow of the moment.     *)
EXTENDS Naturals

CONSTANTS MaxFlows,  \* bound: flows that are started
          Waiters    \* calls of WaitOAuthCallback at the same time

VARIABLES
  flows,    \* flows started so far
  current,  \* the flow of s.oauthServer and s.oauthCh, 0 for none
  chan,     \* what is in the channel of a flow: "nothing", "tokens", "error"
  closed,   \* the flows whose channel is closed
  promised, \* flows whose first callback told the user that it succeeded (history)
  waiter,   \* the place of a call and its flow
  signedIn, \* flows whose tokens the application has used
  late      \* flows somebody stopped waiting for by the time-out (history)

vars == <<flows, current, chan, closed, promised, waiter, signedIn, late>>
Flows == 1..MaxFlows
idle == [at |-> "idle", flow |-> 0, tokens |-> FALSE]

Init ==
  /\ flows = 0 /\ current = 0 /\ chan = [f \in Flows |-> "nothing"] /\ closed = {}
  /\ promised = {} /\ waiter = [w \in Waiters |-> idle] /\ signedIn = {} /\ late = {}

\* stopOAuthServerLocked.
Stop == closed' = (closed \cup {current}) \ {0}

Start ==
  /\ flows < MaxFlows
  /\ Stop
  /\ flows' = flows + 1 /\ current' = flows'
  /\ UNCHANGED <<chan, promised, waiter, signedIn, late>>

CancelOAuthFlow ==
  /\ current # 0
  /\ Stop /\ current' = 0
  /\ UNCHANGED <<flows, chan, promised, waiter, signedIn, late>>

\* Mutant: the channel has no room, so a callback needs somebody who waits.
CallbackUnbuffered(f) ==
  /\ f = current
  /\ LET heard == \E w \in Waiters : waiter[w].at = "wait" /\ waiter[w].flow = f IN
     /\ chan' = IF chan[f] = "nothing" /\ heard THEN [chan EXCEPT ![f] = "tokens"] ELSE chan
     /\ promised' = IF chan[f] = "nothing" THEN promised \cup {f} ELSE promised
  /\ UNCHANGED <<flows, current, closed, waiter, signedIn, late>>

\* The browser brings tokens; the channel holds the first thing it gets.
Callback(f) ==
  /\ f = current
  /\ IF chan[f] = "nothing"
     THEN chan' = [chan EXCEPT ![f] = "tokens"] /\ promised' = promised \cup {f}
     ELSE UNCHANGED <<chan, promised>>
  /\ UNCHANGED <<flows, current, closed, waiter, signedIn, late>>

\* The browser brings an error, or no token.
CallbackError(f) ==
  /\ f = current
  /\ chan' = IF chan[f] = "nothing" THEN [chan EXCEPT ![f] = "error"] ELSE chan
  /\ UNCHANGED <<flows, current, closed, promised, waiter, signedIn, late>>

Wait(w) ==
  /\ waiter[w].at = "idle" /\ current # 0
  /\ waiter' = [waiter EXCEPT ![w] = [idle EXCEPT !.at = "wait", !.flow = current]]
  /\ UNCHANGED <<flows, current, chan, closed, promised, signedIn, late>>

\* A closed channel gives what is in it first.
Receive(w) ==
  LET f == waiter[w].flow IN
  /\ waiter[w].at = "wait"
  /\ chan[f] # "nothing" \/ f \in closed
  /\ waiter' = [waiter EXCEPT ![w].at = "stop", ![w].tokens = chan[f] = "tokens"]
  /\ chan' = [chan EXCEPT ![f] = "nothing"]
  /\ UNCHANGED <<flows, current, closed, promised, signedIn, late>>

TimeOut(w) ==
  /\ waiter[w].at = "wait"
  /\ waiter' = [waiter EXCEPT ![w].at = "stop"]
  /\ late' = late \cup {waiter[w].flow}
  /\ UNCHANGED <<flows, current, chan, closed, promised, signedIn>>

\* stopOAuthServer, whichever flow it is by now; then Login with the tokens.
StopWaiting(w) ==
  /\ waiter[w].at = "stop"
  /\ Stop /\ current' = 0
  /\ signedIn' = IF waiter[w].tokens THEN signedIn \cup {waiter[w].flow} ELSE signedIn
  /\ waiter' = [waiter EXCEPT ![w] = idle]
  /\ UNCHANGED <<flows, chan, promised, late>>

Next ==
  \/ Start \/ CancelOAuthFlow
  \/ \E f \in Flows : Callback(f) \/ CallbackError(f)
  \/ \E w \in Waiters : Wait(w) \/ Receive(w) \/ TimeOut(w) \/ StopWaiting(w)

\* A call that waits is scheduled when there is something for it.
Fairness == \A w \in Waiters : WF_vars(Receive(w) \/ StopWaiting(w))
Spec == Init /\ [][Next]_vars /\ Fairness

-----------------------------------------------------------------------------
waiting(f) == \E w \in Waiters : waiter[w].at = "wait" /\ waiter[w].flow = f

\* Who was told in the browser that the sign-in succeeded, and waits for it in
\* the application, is signed in, even if the flow is cancelled or started
\* again before the tokens are taken.
PromiseKept == \A f \in Flows : (f \in promised /\ waiting(f)) ~> (f \in signedIn \/ f \in late)
=============================================================================

------------------------- MODULE ClientSessionProofs -------------------------
(***************************************************************************)
(* Proofs about ClientSession, for any number of sessions, reconnect loops, *)
(* callers of the API and configured tunnels.                              *)
(***************************************************************************)
EXTENDS ClientSession, TLAPS

-----------------------------------------------------------------------------
(* Where a requester may be, and what a step does to that.                   *)

At(x) == IF x = Main THEN {"dial", "auth", "join", "joined", "request", "await", "done", "failed"}
         ELSE IF x \in Apis THEN {"idle", "request", "await", "done"}
         ELSE {"idle", "check", "cancel", "wait", "dial", "auth", "join", "joined", "request", "await"}

Calls(x) == [at : At(x), session : Sessions \cup {None}, next : Nat, attempts : Nat]

Conns ==
  /\ DOMAIN conn = Requesters /\ conn = [x \in Requesters |-> conn[x]]
  /\ \A x \in Requesters : conn[x] \in Calls(x)

\* x goes to place p, and nobody else moves.
Move(x, p) == Conns' /\ conn'[x].at = p /\ \A y \in Requesters \ {x} : conn'[y] = conn[y]

LEMMA Becomes ==
  ASSUME Conns, NEW x \in Requesters, NEW c \in Calls(x), conn' = [conn EXCEPT ![x] = c]
  PROVE  Move(x, c.at)
  BY DEF Conns, Move

LEMMA Goes ==
  ASSUME Conns, NEW x \in Requesters, NEW p \in At(x), goes(x, p)
  PROVE  Move(x, p)
<1> DEFINE c == [conn[x] EXCEPT !.at = p]
<1>1. c \in Calls(x) /\ c.at = p
  BY DEF Conns, Calls
<1>2. conn' = [conn EXCEPT ![x] = c]
  BY DEF goes
<1> HIDE DEF c
<1> QED
  BY <1>1, <1>2, Becomes

LEMMA Leaves ==
  ASSUME Conns, NEW x \in Requesters, NEW p \in At(x), leaves(x, p)
  PROVE  Move(x, p)
<1> DEFINE c == [conn[x] EXCEPT !.at = p, !.session = None]
<1>1. c \in Calls(x) /\ c.at = p
  BY DEF Conns, Calls
<1>2. conn' = [conn EXCEPT ![x] = c]
  BY DEF leaves
<1> HIDE DEF c
<1> QED
  BY <1>1, <1>2, Becomes

LEMMA Nexts ==
  ASSUME Conns, NEW x \in Requesters, "request" \in At(x), next(x)
  PROVE  Move(x, "request")
<1> DEFINE c == [conn[x] EXCEPT !.at = "request", !.next = conn[x].next + 1]
<1>1. c \in Calls(x) /\ c.at = "request"
  <2>1. conn[x] \in Calls(x) /\ conn[x].next + 1 \in Nat
    BY DEF Conns, Calls
  <2> QED
    BY <2>1 DEF Calls
<1>2. conn' = [conn EXCEPT ![x] = c]
  BY DEF next
<1> HIDE DEF c
<1> QED
  BY <1>1, <1>2, Becomes

LEMMA Idles ==
  ASSUME Conns, NEW x \in Requesters, "idle" \in At(x), conn' = [conn EXCEPT ![x] = idle]
  PROVE  Move(x, "idle")
<1>1. idle \in Calls(x) /\ idle.at = "idle"
  BY DEF idle, Calls
<1> QED
  BY <1>1, Becomes

\* x starts with its first tunnel, or with its last.
LEMMA Starts ==
  ASSUME Conns, NEW x \in Requesters, "request" \in At(x), NEW n \in Nat,
         conn' = [conn EXCEPT ![x].at = "request", ![x].next = n]
  PROVE  Move(x, "request")
<1> DEFINE c == [conn[x] EXCEPT !.at = "request", !.next = n]
<1>1. c \in Calls(x) /\ c.at = "request"
  BY DEF Conns, Calls
<1>2. conn' = [conn EXCEPT ![x] = c]
  OBVIOUS
<1> HIDE DEF c
<1> QED
  BY <1>1, <1>2, Becomes

LEMMA Dials ==
  ASSUME Conns, NEW x \in Requesters, "auth" \in At(x), NEW s \in Sessions,
         conn' = [conn EXCEPT ![x].at = "auth", ![x].session = s]
  PROVE  Move(x, "auth")
<1> DEFINE c == [conn[x] EXCEPT !.at = "auth", !.session = s]
<1>1. c \in Calls(x) /\ c.at = "auth"
  BY DEF Conns, Calls
<1>2. conn' = [conn EXCEPT ![x] = c]
  OBVIOUS
<1> HIDE DEF c
<1> QED
  BY <1>1, <1>2, Becomes

LEMMA ClosesOld ==
  ASSUME Conns, NEW l \in Loops, l \in Requesters, "cancel" \in At(l), CloseOld(l)
  PROVE  Move(l, "cancel")
<1> DEFINE n == IF MaxAttempts = 0 THEN 0 ELSE conn[l].attempts + 1
           c == [conn[l] EXCEPT !.at = "cancel", !.attempts = n]
<1>1. c \in Calls(l) /\ c.at = "cancel"
  <2>1. conn[l] \in Calls(l) /\ n \in Nat
    BY DEF Conns, Calls
  <2> HIDE DEF n
  <2> QED
    BY <2>1 DEF Calls
<1>2. conn' = [conn EXCEPT ![l] = c]
  BY DEF CloseOld
<1> HIDE DEF c
<1> QED
  BY <1>1, <1>2, Becomes

\* Who may be where.
LEMMA Whereabouts ==
  /\ Requesters = Loops \cup Apis \cup {Main}
  /\ \A x \in Apis : x # Main /\ At(x) = {"idle", "request", "await", "done"}
  /\ \A l \in Loops : /\ l # Main /\ l \notin Apis
                      /\ At(l) = {"idle", "check", "cancel", "wait", "dial", "auth", "join", "joined",
                                  "request", "await"}
  /\ At(Main) = {"dial", "auth", "join", "joined", "request", "await", "done", "failed"}
  /\ \A x \in Requesters : "request" \in At(x) /\ "await" \in At(x)
  BY SessionAssumption DEF Requesters, At

LEMMA ConnsAt == Conns => \A x \in Requesters : conn[x].at \in At(x)
  BY DEF Conns, Calls

failed(x) == IF x = Main THEN "failed" ELSE "check"

LEMMA ConnectMoves ==
  ASSUME Conns, NEW x \in Loops \cup {Main}
  PROVE  /\ Dial(x) => Move(x, "auth")
         /\ DialFails(x) => Move(x, failed(x))
         /\ Authenticate(x) => Move(x, "join")
         /\ AuthenticateFails(x) => Move(x, failed(x))
         /\ TokenExpired(x) => Move(x, failed(x)) \/ (x # Main /\ Move(x, "idle") /\ CloseClient)
         /\ Join(x) => Move(x, "joined")
         /\ RecordJoin(x) => Move(x, "request")
         /\ JoinFails(x) => Move(x, "request")
         /\ Connected(x) => IF x = Main THEN Move(x, "done") ELSE Move(x, "idle")
<1>1. x \in Requesters /\ {"auth", "join", "joined", "request", failed(x)} \subseteq At(x)
  BY Whereabouts DEF failed
<1>2. (x = Main => "done" \in At(x)) /\ (x # Main => "idle" \in At(x))
  BY Whereabouts
<1>3. Dial(x) => Move(x, "auth")
  BY <1>1, Dials DEF Dial
<1>4. fails(x) => Move(x, failed(x))
  BY <1>1, Leaves DEF fails, failed
<1>5. Authenticate(x) \/ Join(x) => Move(x, "join") \/ Move(x, "joined")
  BY <1>1, Goes DEF Authenticate, Join
<1>6. Authenticate(x) => Move(x, "join")
  BY <1>1, Goes DEF Authenticate
<1>7. Join(x) => Move(x, "joined")
  BY <1>1, Goes DEF Join
<1>8. RecordJoin(x) \/ JoinFails(x) => Move(x, "request")
  BY <1>1, Starts DEF RecordJoin, JoinFails
<1>9. Connected(x) => IF x = Main THEN Move(x, "done") ELSE Move(x, "idle")
  BY <1>1, <1>2, Leaves, Idles DEF Connected
<1>10. TokenExpired(x) => Move(x, failed(x)) \/ (x # Main /\ Move(x, "idle") /\ CloseClient)
  BY <1>1, <1>2, <1>4, Idles DEF TokenExpired
<1> QED
  BY <1>3, <1>4, <1>6, <1>7, <1>8, <1>9, <1>10 DEF DialFails, AuthenticateFails

LEMMA RequestMoves ==
  ASSUME Conns, NEW x \in Requesters
  PROVE  /\ SendRequest(x) => Move(x, "await")
         /\ SendRequestFails(x) \/ TakeAnswer(x) \/ AnswerTimesOut(x) => Move(x, "request")
         /\ x \in Apis /\ ApiRequest(x) => Move(x, "request")
         /\ x \in Apis /\ ApiAnswered(x) => Move(x, "done")
<1>1. "request" \in At(x) /\ "await" \in At(x) /\ (x \in Apis => "done" \in At(x))
  BY Whereabouts
<1>2. SendRequest(x) => Move(x, "await")
  BY <1>1, Goes DEF SendRequest
<1>3. SendRequestFails(x) \/ TakeAnswer(x) \/ AnswerTimesOut(x) => Move(x, "request")
  BY <1>1, Nexts DEF SendRequestFails, TakeAnswer, AnswerTimesOut
<1>4. ApiRequest(x) => Move(x, "request")
  BY <1>1, Starts, SessionAssumption DEF ApiRequest
<1>5. x \in Apis /\ ApiAnswered(x) => Move(x, "done")
  BY <1>1, Goes DEF ApiAnswered
<1> QED
  BY <1>2, <1>3, <1>4, <1>5

LEMMA ReconnectMoves ==
  ASSUME Conns, NEW l \in Loops
  PROVE  /\ LoopEnds(l) => Move(l, "idle")
         /\ AttemptsSpent(l) => Move(l, "idle")
         /\ CloseOld(l) => Move(l, "cancel")
         /\ CancelOld(l) => Move(l, "wait")
         /\ WaitEnds(l) => Move(l, "dial")
<1>1. l \in Requesters /\ {"idle", "cancel", "wait", "dial"} \subseteq At(l)
  BY Whereabouts
<1>2. LoopEnds(l) \/ AttemptsSpent(l) => Move(l, "idle")
  BY <1>1, Idles DEF LoopEnds, AttemptsSpent
<1>3. CloseOld(l) => Move(l, "cancel")
  BY <1>1, ClosesOld
<1>4. CancelOld(l) => Move(l, "wait")
  BY <1>1, Goes DEF CancelOld
<1>5. WaitEnds(l) => Move(l, "dial")
  BY <1>1, Goes DEF WaitEnds
<1> QED
  BY <1>2, <1>3, <1>4, <1>5

\* Whoever reports a loss starts a loop, closes the client, or is ignored.
LEMMA DisconnectMoves ==
  ASSUME Conns, HandleDisconnect
  PROVE  \/ reconnecting /\ UNCHANGED <<linkVars, cancelled, reconnecting, conn>>
         \/ /\ ~reconnecting /\ reconnecting'
            /\ UNCHANGED <<linkVars, cancelled>>
            /\ \E l \in Loops : conn[l].at = "idle" /\ Move(l, "check")
         \/ ~reconnecting /\ reconnecting' /\ CloseClient /\ UNCHANGED conn
<1>1. \A l \in Loops : goes(l, "check") => Move(l, "check")
  BY Whereabouts, Goes
<1> QED
  BY <1>1 DEF HandleDisconnect

\* All other steps leave everybody where they are.
LEMMA Stays ==
  ASSUME \/ \E s \in Sessions : SessionLost(s) \/ SessionHangs(s) \/ DataSessionLost(s) \/ Message(s)
         \/ \E s \in Sessions, k \in Kinds : TaskEnds(s, k)
         \/ ShutdownTimerFires \/ WorkerServes \/ WorkerReturns \/ Close \/ CloseEnds
         \/ UNCHANGED vars
  PROVE  UNCHANGED conn
  BY DEF SessionLost, SessionHangs, DataSessionLost, Message, HandleTunnelCreated, HandleTunnelError,
         HandleTunnelClosed, HandleServerShutdown, TaskEnds, ShutdownTimerFires, WorkerServes, WorkerReturns,
         Close, CloseEnds, vars

\* The steps there are.
LEMMA Steps ==
  ASSUME [Next]_vars
  PROVE  \/ \E s \in Sessions : \/ SessionLost(s) \/ SessionHangs(s) \/ DataSessionLost(s)
                                \/ Message(s) \/ KeepaliveGivesUp(s)
                                \/ \E k \in Kinds : ReadFails(s, k) \/ TaskEnds(s, k)
         \/ \E x \in Loops \cup {Main} :
              \/ Dial(x) \/ DialFails(x) \/ Authenticate(x) \/ AuthenticateFails(x)
              \/ TokenExpired(x) \/ Join(x) \/ RecordJoin(x) \/ JoinFails(x) \/ Connected(x)
         \/ \E x \in Requesters : SendRequest(x) \/ SendRequestFails(x) \/ TakeAnswer(x) \/ AnswerTimesOut(x)
         \/ \E l \in Loops : LoopEnds(l) \/ AttemptsSpent(l) \/ CloseOld(l) \/ CancelOld(l) \/ WaitEnds(l)
         \/ \E x \in Apis : ApiRequest(x) \/ ApiAnswered(x)
         \/ ShutdownTimerFires \/ ShutdownTimerDisconnects \/ WorkerServes \/ WorkerReturns
         \/ Close \/ CloseEnds \/ UNCHANGED vars
  BY Zenon DEF Next, Task, Connect, Request, Reconnect

-----------------------------------------------------------------------------
(* The invariant that all others need: everybody is where they can be.       *)

LEMMA ConnsInit == Init => Conns
<1> SUFFICES ASSUME Init PROVE Conns
  OBVIOUS
<1>1. conn = [x \in Requesters |-> IF x = Main THEN [idle EXCEPT !.at = "dial"] ELSE idle]
  BY DEF Init
<1>2. ASSUME NEW x \in Requesters PROVE conn[x] \in Calls(x)
  <2>1. CASE x = Main
    BY <1>1, <2>1 DEF idle, Calls, At
  <2>2. CASE x # Main
    BY <1>1, <1>2, <2>2, Whereabouts DEF idle, Calls, At
  <2> QED
    BY <2>1, <2>2
<1> QED
  BY <1>1, <1>2 DEF Conns

LEMMA ConnsStep == Conns /\ [Next]_vars => Conns'
<1> SUFFICES ASSUME Conns, [Next]_vars
             PROVE  Conns'
  OBVIOUS
<1>1. \A x, p : Move(x, p) => Conns'
  BY DEF Move
<1>2. UNCHANGED conn => Conns'
  BY DEF Conns
<1>3. HandleDisconnect => Conns'
  BY <1>1, <1>2, DisconnectMoves
<1>4. ASSUME NEW x \in Loops \cup {Main},
             \/ Dial(x) \/ DialFails(x) \/ Authenticate(x) \/ AuthenticateFails(x)
             \/ TokenExpired(x) \/ Join(x) \/ RecordJoin(x) \/ JoinFails(x) \/ Connected(x)
      PROVE  Conns'
  BY <1>1, <1>4, ConnectMoves, Zenon
<1>5. ASSUME NEW x \in Requesters, SendRequest(x) \/ SendRequestFails(x) \/ TakeAnswer(x) \/ AnswerTimesOut(x)
      PROVE  Conns'
  BY <1>1, <1>5, RequestMoves, Zenon
<1>6. ASSUME NEW x \in Apis, ApiRequest(x) \/ ApiAnswered(x)
      PROVE  Conns'
  BY <1>1, <1>6, RequestMoves, Whereabouts
<1>7. ASSUME NEW l \in Loops, LoopEnds(l) \/ AttemptsSpent(l) \/ CloseOld(l) \/ CancelOld(l) \/ WaitEnds(l)
      PROVE  Conns'
  BY <1>1, <1>7, ReconnectMoves, Zenon
<1>8. ASSUME \/ \E s \in Sessions : KeepaliveGivesUp(s) \/ \E k \in Kinds : ReadFails(s, k)
             \/ ShutdownTimerDisconnects
      PROVE  Conns'
  BY <1>3, <1>8 DEF KeepaliveGivesUp, ReadFails, ShutdownTimerDisconnects
<1> QED
  BY Steps, Stays, <1>2, <1>4, <1>5, <1>6, <1>7, <1>8, Zenon

-----------------------------------------------------------------------------
(* The flag.                                                                 *)

\* The flag reconnecting is set only while somebody is going to clear it: no
\* loss of the connection goes unnoticed because of a flag left behind
\* (handleDisconnect, reconnect, handleServerShutdown).
THEOREM FlagIsBacked == Spec => []ReconnectingIsBacked
<1>1. Init => ReconnectingIsBacked
  BY DEF Init, ReconnectingIsBacked
<1>2. Conns /\ ReconnectingIsBacked /\ [Next]_vars => ReconnectingIsBacked'
  <2> SUFFICES ASSUME Conns, ReconnectingIsBacked, [Next]_vars
               PROVE  ReconnectingIsBacked'
    OBVIOUS
  <2> USE DEF ReconnectingIsBacked, running, Move
  <2>1. ASSUME HandleDisconnect, timer' = timer \/ timer = "fired"
        PROVE  ReconnectingIsBacked'
    BY <2>1, DisconnectMoves DEF CloseClient
  <2>2. ASSUME NEW x \in Loops \cup {Main},
               \/ Dial(x) \/ DialFails(x) \/ Authenticate(x) \/ AuthenticateFails(x)
               \/ Join(x) \/ RecordJoin(x) \/ JoinFails(x)
        PROVE  ReconnectingIsBacked'
    BY <2>2, ConnectMoves, Whereabouts
    DEF Dial, DialFails, Authenticate, AuthenticateFails, Join, RecordJoin, JoinFails, failed
  <2>3. ASSUME NEW x \in Loops \cup {Main}, TokenExpired(x) \/ Connected(x)
        PROVE  ReconnectingIsBacked'
    <3>1. CASE Connected(x)
      BY <3>1, ConnectMoves, Whereabouts DEF Connected
    <3>2. CASE TokenExpired(x) /\ Move(x, failed(x))
      <4>1. UNCHANGED <<reconnecting, timer>> /\ (cancelled' = cancelled \/ cancelled')
        BY <3>2 DEF TokenExpired, CloseClient
      <4>2. \A l \in Loops : running(l) => running(l)'
        BY <3>2, Whereabouts DEF failed
      <4> QED
        BY <4>1, <4>2
    <3>3. CASE CloseClient
      BY <3>3 DEF CloseClient
    <3> QED
      BY <2>3, <3>1, <3>2, <3>3, ConnectMoves
  <2>4. ASSUME NEW x \in Requesters, SendRequest(x) \/ SendRequestFails(x) \/ TakeAnswer(x) \/ AnswerTimesOut(x)
        PROVE  ReconnectingIsBacked'
    BY <2>4, RequestMoves, Whereabouts DEF SendRequest, SendRequestFails, TakeAnswer, AnswerTimesOut
  <2>5. ASSUME NEW x \in Apis, ApiRequest(x) \/ ApiAnswered(x)
        PROVE  ReconnectingIsBacked'
    BY <2>5, RequestMoves, Whereabouts DEF ApiRequest, ApiAnswered
  <2>6. ASSUME NEW l \in Loops, LoopEnds(l) \/ AttemptsSpent(l) \/ CloseOld(l) \/ CancelOld(l) \/ WaitEnds(l)
        PROVE  ReconnectingIsBacked'
    <3>1. CASE LoopEnds(l) \/ AttemptsSpent(l) \/ CancelOld(l)
      <4>1. cancelled'
        BY <3>1 DEF LoopEnds, AttemptsSpent, CancelOld, CloseClient
      <4> QED
        BY <4>1
    <3>2. CASE CloseOld(l) \/ WaitEnds(l)
      <4>1. l \in Loops /\ running(l)'
        BY <3>2, ReconnectMoves
      <4> QED
        BY <4>1
    <3> QED
      BY <2>6, <3>1, <3>2
  <2>7. ASSUME \/ \E s \in Sessions : KeepaliveGivesUp(s) \/ \E k \in Kinds : ReadFails(s, k)
               \/ ShutdownTimerDisconnects
        PROVE  ReconnectingIsBacked'
    BY <2>1, <2>7 DEF KeepaliveGivesUp, ReadFails, ShutdownTimerDisconnects
  <2>8. ASSUME \/ \E s \in Sessions : SessionLost(s) \/ SessionHangs(s) \/ DataSessionLost(s) \/ Message(s)
               \/ \E s \in Sessions, k \in Kinds : TaskEnds(s, k)
               \/ ShutdownTimerFires \/ WorkerServes \/ WorkerReturns \/ Close \/ CloseEnds
               \/ UNCHANGED vars
        PROVE  ReconnectingIsBacked'
    BY <2>8, Stays
    DEF SessionLost, SessionHangs, DataSessionLost, Message, HandleTunnelCreated, HandleTunnelError,
        HandleTunnelClosed, HandleServerShutdown, TaskEnds, ShutdownTimerFires, WorkerServes, WorkerReturns,
        Close, CloseEnds, vars
  <2> HIDE DEF ReconnectingIsBacked
  <2> QED
    BY Steps, <2>2, <2>3, <2>4, <2>5, <2>6, <2>7, <2>8, Zenon
<1> QED
  BY <1>1, <1>2, ConnsInit, ConnsStep, PTL DEF Spec

-----------------------------------------------------------------------------
(* Links.                                                                    *)

LinkInv ==
  /\ link \in [Sessions -> {"down", "open", "silent"}]
  /\ session \in Sessions \cup {None}

LEMMA DownLinks ==
  ASSUME LinkInv, NEW S, NEW D, Down(S, D)
  PROVE  /\ link' \in [Sessions -> {"down", "open", "silent"}]
         /\ \A s \in Sessions : link'[s] = IF s \in S THEN "down" ELSE link[s]
  BY DEF LinkInv, Down

\* Only Dial opens a link; what else happens to a link is that it goes down
\* or, once open, silent.
LinksOnlyFall ==
  /\ session' = session
  /\ \A s \in Sessions : link[s] = "down" => link'[s] = "down"

LEMMA LinksDialled ==
  ASSUME LinkInv, NEW x \in Loops \cup {Main}, Dial(x)
  PROVE  /\ LinkInv'
         /\ session' \in Sessions /\ forgotten(session') /\ link' = [link EXCEPT ![session'] = "open"]
  BY DEF LinkInv, Dial

LEMMA LinksFall ==
  ASSUME LinkInv, [Next]_vars, \A x \in Loops \cup {Main} : ~Dial(x)
  PROVE  LinkInv' /\ LinksOnlyFall
<1> USE DEF LinksOnlyFall
<1>1. UNCHANGED <<link, session>> => LinkInv' /\ LinksOnlyFall
  BY DEF LinkInv
<1>2. ASSUME NEW S, NEW D, Down(S, D), session' = session
      PROVE  LinkInv' /\ LinksOnlyFall
  BY <1>2, DownLinks DEF LinkInv
<1>3. CloseSessions => LinkInv' /\ LinksOnlyFall
  BY <1>2 DEF CloseSessions
<1>4. HandleDisconnect => LinkInv' /\ LinksOnlyFall
  BY <1>1, <1>3 DEF HandleDisconnect, CloseClient, linkVars
<1>5. ASSUME NEW s \in Sessions, SessionHangs(s)
      PROVE  LinkInv' /\ LinksOnlyFall
  BY <1>5 DEF SessionHangs, LinkInv
<1>6. ASSUME NEW s \in Sessions,
             SessionLost(s) \/ KeepaliveGivesUp(s) \/ \E k \in Kinds : ReadFails(s, k)
      PROVE  LinkInv' /\ LinksOnlyFall
  BY <1>2, <1>4, <1>6 DEF SessionLost, KeepaliveGivesUp, ReadFails
<1>7. ASSUME NEW s \in Sessions,
             DataSessionLost(s) \/ Message(s) \/ \E k \in Kinds : TaskEnds(s, k)
      PROVE  UNCHANGED <<link, session>>
  BY <1>7 DEF DataSessionLost, Message, HandleTunnelCreated, HandleTunnelError,
              HandleTunnelClosed, HandleServerShutdown, TaskEnds, linkVars
<1>8. ASSUME NEW x \in Loops \cup {Main},
             \/ DialFails(x) \/ Authenticate(x) \/ Join(x) \/ RecordJoin(x) \/ JoinFails(x) \/ Connected(x)
      PROVE  UNCHANGED <<link, session>>
  BY <1>8 DEF DialFails, Authenticate, Join, RecordJoin, JoinFails, Connected, linkVars
<1>9. ASSUME NEW x \in Loops \cup {Main}, AuthenticateFails(x) \/ TokenExpired(x)
      PROVE  LinkInv' /\ LinksOnlyFall
  BY <1>2, <1>3, <1>9 DEF AuthenticateFails, TokenExpired, CloseClient
<1>10. ASSUME NEW x \in Requesters,
              SendRequest(x) \/ SendRequestFails(x) \/ TakeAnswer(x) \/ AnswerTimesOut(x)
       PROVE  UNCHANGED <<link, session>>
  BY <1>10 DEF SendRequest, SendRequestFails, TakeAnswer, AnswerTimesOut, linkVars
<1>11. ASSUME NEW l \in Loops, LoopEnds(l) \/ CancelOld(l) \/ WaitEnds(l)
       PROVE  UNCHANGED <<link, session>>
  BY <1>11 DEF LoopEnds, CancelOld, WaitEnds, linkVars
<1>12. ASSUME NEW l \in Loops, AttemptsSpent(l) \/ CloseOld(l)
       PROVE  LinkInv' /\ LinksOnlyFall
  BY <1>3, <1>12 DEF AttemptsSpent, CloseOld, CloseClient
<1>13. ASSUME NEW x \in Apis, ApiRequest(x) \/ ApiAnswered(x)
       PROVE  UNCHANGED <<link, session>>
  BY <1>13 DEF ApiRequest, ApiAnswered, linkVars
<1>14. ShutdownTimerFires \/ WorkerServes \/ WorkerReturns \/ Close \/ UNCHANGED vars
         => UNCHANGED <<link, session>>
  BY DEF ShutdownTimerFires, WorkerServes, WorkerReturns, Close, vars, linkVars
<1>15. ShutdownTimerDisconnects \/ CloseEnds => LinkInv' /\ LinksOnlyFall
  BY <1>3, <1>4 DEF ShutdownTimerDisconnects, CloseEnds
<1> HIDE DEF LinksOnlyFall
<1> QED
  BY Steps, <1>1, <1>5, <1>6, <1>7, <1>8, <1>9, <1>10, <1>11, <1>12, <1>13, <1>14, <1>15, Zenon

LEMMA LinksInit == Init => LinkInv
  BY DEF Init, LinkInv

LEMMA LinksStep == LinkInv /\ [Next]_vars => LinkInv'
  BY LinksDialled, LinksFall

-----------------------------------------------------------------------------
(* Close.                                                                    *)

\* From the moment Close() has cancelled the context, if nothing was under way
\* then, it stays cancelled and no loop gets beyond its check of it.
CloseInv ==
  /\ closing # "no" => conn[Main].at = "done"
  /\ closing # "no" /\ ~late => cancelled /\ \A l \in Loops : conn[l].at \in {"idle", "check"}
  /\ CloseHolds

\* Steps that do not concern Close().
KeepsClosed == closing' = closing /\ late' = late

LEMMA CloseStep == Conns /\ LinkInv /\ CloseInv /\ [Next]_vars => CloseInv'
<1> SUFFICES ASSUME Conns, LinkInv, CloseInv, [Next]_vars
             PROVE  CloseInv'
  OBVIOUS
<1> DEFINE settled == closing # "no" /\ ~late
<1>a. (\A x \in Loops \cup {Main} : ~Dial(x)) /\ ~alive(session) => ~alive(session)'
  BY LinksFall DEF alive, LinkInv, LinksOnlyFall
<1>b. settled => \A x \in Loops \cup {Main} : conn[x].at \in {"idle", "check", "done"}
  BY DEF CloseInv
<1>c. settled => \A x \in Loops \cup {Main} : ~Dial(x)
  BY <1>b DEF Dial
<1>d. ASSUME KeepsClosed, closing # "no" => conn'[Main].at = "done",
             settled => cancelled' /\ \A l \in Loops : conn'[l].at \in {"idle", "check"}
      PROVE  CloseInv'
  <2>1. closing' = "done" /\ ~late' => ~alive(session)'
    BY <1>a, <1>c, <1>d DEF CloseInv, CloseHolds, KeepsClosed
  <2> QED
    BY <1>d, <2>1 DEF CloseInv, KeepsClosed, CloseHolds, alive
<1>1. ASSUME KeepsClosed, UNCHANGED <<conn, cancelled>>
      PROVE  CloseInv'
  BY <1>d, <1>1 DEF CloseInv
<1>2. ASSUME KeepsClosed, HandleDisconnect
      PROVE  CloseInv'
  <2>1. conn[Main].at = "done" => conn'[Main].at = "done"
    BY <1>2, DisconnectMoves, Whereabouts DEF Move
  <2>2. cancelled => cancelled'
    BY <1>2, DisconnectMoves DEF CloseClient
  <2>3. settled => \A l \in Loops : conn'[l].at \in {"idle", "check"}
    BY <1>2, DisconnectMoves, Whereabouts DEF Move, CloseInv
  <2> QED
    BY <1>d, <1>2, <2>1, <2>2, <2>3 DEF CloseInv
\* Whoever moves is not the first connection, and no loop if Close() was alone.
<1>3. ASSUME KeepsClosed, NEW x \in Requesters, NEW p, Move(x, p),
             closing # "no" => x # Main,
             settled => cancelled' /\ (x \in Loops => p \in {"idle", "check"})
      PROVE  CloseInv'
  <2>1. closing # "no" => conn'[Main].at = "done"
    BY <1>3, Whereabouts DEF Move, CloseInv
  <2>2. settled => \A l \in Loops : conn'[l].at \in {"idle", "check"}
    BY <1>3, Whereabouts DEF Move, CloseInv
  <2> QED
    BY <1>d, <1>3, <2>1, <2>2
<1>4. ASSUME NEW x \in Loops \cup {Main},
             \/ Dial(x) \/ DialFails(x) \/ Authenticate(x) \/ AuthenticateFails(x)
             \/ TokenExpired(x) \/ Join(x) \/ RecordJoin(x) \/ JoinFails(x) \/ Connected(x)
      PROVE  CloseInv'
  <2>1. KeepsClosed /\ conn[x].at \in connecting
    BY <1>4 DEF KeepsClosed, history, connecting, Dial, DialFails, Authenticate, AuthenticateFails,
                TokenExpired, Join, RecordJoin, JoinFails, Connected
  <2>2. ~settled /\ (closing # "no" => x # Main)
    BY <1>b, <2>1 DEF connecting, CloseInv
  <2>3. \E p : Move(x, p)
    BY <1>4, ConnectMoves, Zenon
  <2> QED
    BY <1>3, <2>1, <2>2, <2>3, Whereabouts
<1>5. ASSUME NEW x \in Requesters, SendRequest(x) \/ SendRequestFails(x) \/ TakeAnswer(x) \/ AnswerTimesOut(x)
      PROVE  CloseInv'
  <2>1. KeepsClosed /\ cancelled' = cancelled /\ conn[x].at \in {"request", "await"}
    BY <1>5 DEF KeepsClosed, history, SendRequest, SendRequestFails, TakeAnswer, AnswerTimesOut
  <2>2. (settled => x \notin Loops /\ cancelled) /\ (closing # "no" => x # Main)
    BY <2>1 DEF CloseInv
  <2>3. \E p : Move(x, p)
    BY <1>5, RequestMoves, Zenon
  <2> QED
    BY <1>3, <2>1, <2>2, <2>3
<1>6. ASSUME NEW x \in Apis, ApiRequest(x) \/ ApiAnswered(x)
      PROVE  CloseInv'
  <2>1. KeepsClosed /\ cancelled' = cancelled /\ x \in Requesters /\ x # Main /\ x \notin Loops
    BY <1>6, Whereabouts, SessionAssumption DEF KeepsClosed, history, ApiRequest, ApiAnswered
  <2>2. settled => cancelled
    BY DEF CloseInv
  <2>3. \E p : Move(x, p)
    BY <1>6, <2>1, RequestMoves, Zenon
  <2> QED
    BY <1>3, <2>1, <2>2, <2>3
<1>7. ASSUME NEW l \in Loops, LoopEnds(l) \/ AttemptsSpent(l) \/ CloseOld(l) \/ CancelOld(l) \/ WaitEnds(l)
      PROVE  CloseInv'
  <2>1. KeepsClosed /\ l \in Requesters /\ l # Main
    BY <1>7, Whereabouts
    DEF KeepsClosed, history, LoopEnds, AttemptsSpent, CloseOld, CancelOld, WaitEnds
  <2>2. settled => LoopEnds(l) /\ cancelled'
    BY <1>7 DEF CloseInv, LoopEnds, AttemptsSpent, CloseOld, CancelOld, WaitEnds
  <2>3. \E p : Move(l, p) /\ (LoopEnds(l) => p = "idle")
    <3>1. CASE LoopEnds(l)
      BY <3>1, ReconnectMoves
    <3>2. CASE ~LoopEnds(l)
      BY <1>7, <3>2, ReconnectMoves
    <3> QED
      BY <3>1, <3>2
  <2> QED
    BY <1>3, <2>1, <2>2, <2>3
<1>8. ASSUME \/ \E s \in Sessions : KeepaliveGivesUp(s) \/ \E k \in Kinds : ReadFails(s, k)
             \/ ShutdownTimerDisconnects
      PROVE  CloseInv'
  BY <1>2, <1>8 DEF KeepsClosed, history, KeepaliveGivesUp, ReadFails, ShutdownTimerDisconnects
<1>9. ASSUME \/ \E s \in Sessions : SessionLost(s) \/ SessionHangs(s) \/ DataSessionLost(s) \/ Message(s)
             \/ \E s \in Sessions, k \in Kinds : TaskEnds(s, k)
             \/ ShutdownTimerFires \/ WorkerServes \/ WorkerReturns \/ UNCHANGED vars
      PROVE  CloseInv'
  <2>1. KeepsClosed /\ cancelled' = cancelled
    BY <1>9
    DEF KeepsClosed, history, vars, SessionLost, SessionHangs, DataSessionLost, Message, HandleTunnelCreated,
        HandleTunnelError, HandleTunnelClosed, HandleServerShutdown, TaskEnds, ShutdownTimerFires, WorkerServes,
        WorkerReturns
  <2> QED
    BY <1>1, <1>9, <2>1, Stays
<1>10. CASE Close
  <2>1. \A l \in Loops : conn[l].at \in connecting \cup {"idle", "check"}
    BY ConnsAt, Whereabouts DEF connecting
  <2>2. ~late' => \A l \in Loops : conn'[l].at \in {"idle", "check"}
    BY <1>10, <2>1, Whereabouts DEF Close
  <2> QED
    BY <1>10, <2>2 DEF Close, CloseInv, CloseHolds
<1>11. CASE CloseEnds
  <2>1. ~alive(session)'
    BY <1>11, DownLinks DEF CloseEnds, CloseSessions, alive, LinkInv
  <2> QED
    BY <1>11, <2>1, Stays DEF CloseEnds, CloseInv, CloseHolds, history, alive
<1> QED
  BY Steps, <1>4, <1>5, <1>6, <1>7, <1>8, <1>9, <1>10, <1>11, Zenon

\* Once Close() has returned the client holds no connection, if no Connect and
\* no loop was under way when it came: nobody dials again (Close, reconnect).
THEOREM CloseIsKept == Spec => []CloseHolds
<1>1. Init => CloseInv
  BY DEF Init, CloseInv, CloseHolds
<1>2. CloseInv => CloseHolds
  BY DEF CloseInv
<1> QED
  BY <1>1, <1>2, ConnsInit, ConnsStep, LinksInit, LinksStep, CloseStep, PTL DEF Spec

-----------------------------------------------------------------------------
(* One session at a time. As long as the server has not announced that it    *)
(* stops:                                                                    *)

\* one loop runs at most, and the flag says so;
OneLoop ==
  /\ timer = "none"
  /\ \A l \in Loops : running(l) => reconnecting
  /\ \A l, m \in Loops : running(l) /\ running(m) => l = m

\* nobody is there beside the first connection before it is authenticated;
FirstIsAlone ==
  conn[Main].at \in {"dial", "auth"} =>
    tasks = {} /\ tunnels = {} /\ \A x \in Requesters \ {Main} : conn[x].at = "idle"

\* the old session, and the tunnels of the loops, are gone before a new session;
dialling == {"cancel", "wait", "dial"}
OldIsGone ==
  \A x \in Loops \cup {Main} : conn[x].at \in dialling =>
    /\ \A s \in Sessions : link[s] = "down"
    /\ \A t \in tunnels : t[2] \in Apis \cup {Main}

\* an answer is there for the one who waits, and for a loop of this session.
AnswersAreFresh ==
  /\ DOMAIN answer = Requesters
  /\ \A x \in Requesters : answer[x] # None =>
       /\ conn[x].at = "await" /\ answer[x][2] = x
       /\ x \in Loops => answer[x][1] = session

Sole == OneLoop /\ FirstIsAlone /\ OldIsGone /\ AnswersAreFresh /\ OneSession /\ FreshTunnels
SoleInv == ~announced => Sole

\* A step that neither dials nor gives, takes or gives up an answer. Only a
\* loop that closes its session is dialling afterwards and was not before.
Quiet ==
  /\ LinksOnlyFall
  /\ answer' = answer /\ tunnels' \subseteq tunnels
  /\ \A x \in Requesters : conn[x].at = "await" => conn'[x].at = "await"
  /\ \A x \in Loops \cup {Main} :
       conn'[x].at \in dialling => conn[x].at \in dialling \/ (x \in Loops /\ CloseOld(x))

LEMMA QuietSteps ==
  ASSUME Conns, LinkInv, [Next]_vars
  PROVE  \/ Quiet
         \/ \E x \in Loops \cup {Main} : Dial(x)
         \/ \E x \in Requesters : TakeAnswer(x) \/ AnswerTimesOut(x)
         \/ \E s \in Sessions, r \in asked : HandleTunnelCreated(s, r)
<1> SUFFICES ASSUME \A x \in Loops \cup {Main} : ~Dial(x),
                    \A x \in Requesters : ~TakeAnswer(x) /\ ~AnswerTimesOut(x),
                    \A s \in Sessions, r \in asked : ~HandleTunnelCreated(s, r)
             PROVE  Quiet
  OBVIOUS
<1>0. LinksOnlyFall
  BY LinksFall
<1>1. ASSUME UNCHANGED <<conn, answer>>, tunnels' \subseteq tunnels
      PROVE  Quiet
  BY <1>0, <1>1 DEF Quiet
<1>2. ASSUME UNCHANGED <<answer, tunnels>>, NEW x \in Requesters, NEW p, Move(x, p),
             conn[x].at # "await", p \notin dialling \/ conn[x].at \in dialling
      PROVE  Quiet
  BY <1>0, <1>2, Whereabouts DEF Quiet, Move
<1>3. ASSUME HandleDisconnect, UNCHANGED <<answer, tunnels>>
      PROVE  Quiet
  <2>1. CASE UNCHANGED conn
    BY <1>1, <1>3, <2>1
  <2>2. CASE \E l \in Loops : conn[l].at = "idle" /\ Move(l, "check")
    <3>1. PICK l \in Loops : conn[l].at = "idle" /\ Move(l, "check")
      BY <2>2
    <3> QED
      BY <1>2, <1>3, <3>1, Whereabouts DEF dialling
  <2> QED
    BY <1>3, <2>1, <2>2, DisconnectMoves
<1>4. ASSUME NEW x \in Loops \cup {Main},
             \/ DialFails(x) \/ Authenticate(x) \/ AuthenticateFails(x)
             \/ TokenExpired(x) \/ Join(x) \/ RecordJoin(x) \/ JoinFails(x) \/ Connected(x)
      PROVE  Quiet
  <2>1. UNCHANGED <<answer, tunnels>> /\ conn[x].at # "await"
    BY <1>4 DEF DialFails, Authenticate, AuthenticateFails, TokenExpired, Join, RecordJoin, JoinFails, Connected
  <2>2. \E p \in {"auth", "join", "joined", "request", "idle", "done", "failed", "check"} : Move(x, p)
    BY <1>4, ConnectMoves, Zenon DEF failed
  <2> QED
    BY <1>2, <2>1, <2>2, Whereabouts DEF dialling
<1>5. ASSUME NEW x \in Requesters, SendRequest(x) \/ SendRequestFails(x)
      PROVE  Quiet
  <2>1. UNCHANGED <<answer, tunnels>> /\ conn[x].at # "await"
    BY <1>5 DEF SendRequest, SendRequestFails
  <2> QED
    BY <1>2, <1>5, <2>1, RequestMoves DEF dialling
<1>6. ASSUME NEW x \in Apis, ApiRequest(x) \/ ApiAnswered(x)
      PROVE  Quiet
  <2>1. UNCHANGED <<answer, tunnels>> /\ conn[x].at # "await"
    BY <1>6 DEF ApiRequest, ApiAnswered
  <2> QED
    BY <1>2, <1>6, <2>1, RequestMoves, Whereabouts DEF dialling
<1>7. ASSUME NEW l \in Loops, LoopEnds(l) \/ AttemptsSpent(l) \/ CancelOld(l) \/ WaitEnds(l)
      PROVE  Quiet
  <2>1. UNCHANGED <<answer, tunnels>> /\ conn[l].at # "await"
    BY <1>7 DEF LoopEnds, AttemptsSpent, CancelOld, WaitEnds
  <2>2. CASE LoopEnds(l) \/ AttemptsSpent(l)
    BY <1>2, <2>1, <2>2, ReconnectMoves, Whereabouts DEF dialling
  <2>3. CASE CancelOld(l) \/ WaitEnds(l)
    <3>1. conn[l].at \in dialling
      BY <2>3 DEF CancelOld, WaitEnds, dialling
    <3> QED
      BY <1>2, <2>1, <2>3, <3>1, ReconnectMoves, Whereabouts
  <2> QED
    BY <1>7, <2>2, <2>3
<1>8. ASSUME NEW l \in Loops, CloseOld(l)
      PROVE  Quiet
  <2>1. Move(l, "cancel") /\ conn[l].at = "check" /\ answer' = answer /\ tunnels' = {}
    BY <1>8, ReconnectMoves DEF CloseOld
  <2> QED
    BY <1>0, <1>8, <2>1, Whereabouts DEF Quiet, Move
<1>9. ASSUME \/ \E s \in Sessions : KeepaliveGivesUp(s) \/ \E k \in Kinds : ReadFails(s, k)
             \/ ShutdownTimerDisconnects
      PROVE  Quiet
  BY <1>3, <1>9 DEF KeepaliveGivesUp, ReadFails, ShutdownTimerDisconnects
<1>10. ASSUME NEW s \in Sessions, Message(s)
       PROVE  Quiet
  <2>1. answer' = answer /\ tunnels' \subseteq tunnels
    BY <1>10 DEF Message, HandleTunnelError, HandleTunnelClosed, HandleServerShutdown
  <2> QED
    BY <1>1, <1>10, <2>1, Stays
<1>11. ASSUME \/ \E s \in Sessions : SessionLost(s) \/ SessionHangs(s) \/ DataSessionLost(s)
              \/ \E s \in Sessions, k \in Kinds : TaskEnds(s, k)
              \/ ShutdownTimerFires \/ WorkerServes \/ WorkerReturns \/ Close \/ CloseEnds
              \/ UNCHANGED vars
       PROVE  Quiet
  <2>1. UNCHANGED <<answer, tunnels>>
    BY <1>11
    DEF vars, SessionLost, SessionHangs, DataSessionLost, TaskEnds, ShutdownTimerFires, WorkerServes,
        WorkerReturns, Close, CloseEnds
  <2> QED
    BY <1>1, <1>11, <2>1, Stays
<1> QED
  BY Steps, <1>4, <1>5, <1>6, <1>7, <1>8, <1>9, <1>10, <1>11, Zenon

\* An announcement is not forgotten.
LEMMA AnnouncedStays ==
  ASSUME [Next]_vars
  PROVE  announced' = announced \/ announced'
<1>1. ASSUME NEW s \in Sessions,
             \/ SessionLost(s) \/ SessionHangs(s) \/ DataSessionLost(s) \/ Message(s)
             \/ KeepaliveGivesUp(s) \/ \E k \in Kinds : ReadFails(s, k) \/ TaskEnds(s, k)
      PROVE  announced' = announced \/ announced'
  BY <1>1 DEF SessionLost, SessionHangs, DataSessionLost, Message, HandleTunnelCreated, HandleTunnelError,
              HandleTunnelClosed, HandleServerShutdown, KeepaliveGivesUp, ReadFails, TaskEnds, history
<1>2. ASSUME NEW x \in Requesters,
             \/ Dial(x) \/ DialFails(x) \/ Authenticate(x) \/ AuthenticateFails(x)
             \/ TokenExpired(x) \/ Join(x) \/ RecordJoin(x) \/ JoinFails(x) \/ Connected(x)
             \/ SendRequest(x) \/ SendRequestFails(x) \/ TakeAnswer(x) \/ AnswerTimesOut(x)
      PROVE  announced' = announced
  BY <1>2 DEF Dial, DialFails, Authenticate, AuthenticateFails, TokenExpired, Join, RecordJoin, JoinFails,
              Connected, SendRequest, SendRequestFails, TakeAnswer, AnswerTimesOut, history
<1>3. ASSUME NEW l \in Loops, LoopEnds(l) \/ AttemptsSpent(l) \/ CloseOld(l) \/ CancelOld(l) \/ WaitEnds(l)
      PROVE  announced' = announced
  BY <1>3 DEF LoopEnds, AttemptsSpent, CloseOld, CancelOld, WaitEnds, history
<1>4. ASSUME \/ \E x \in Apis : ApiRequest(x) \/ ApiAnswered(x)
             \/ ShutdownTimerFires \/ ShutdownTimerDisconnects \/ WorkerServes \/ WorkerReturns
             \/ Close \/ CloseEnds \/ UNCHANGED vars
      PROVE  announced' = announced
  BY <1>4 DEF ApiRequest, ApiAnswered, ShutdownTimerFires, ShutdownTimerDisconnects, WorkerServes,
              WorkerReturns, Close, CloseEnds, vars, history
<1> QED
  BY Steps, Whereabouts, <1>1, <1>2, <1>3, <1>4, Zenon

LEMMA OneLoopStep ==
  ASSUME Conns, OneLoop, ~announced', [Next]_vars
  PROVE  OneLoop'
<1>1. ASSUME UNCHANGED <<reconnecting, timer>>, \A l \in Loops : running(l)' => running(l)
      PROVE  OneLoop'
  BY <1>1 DEF OneLoop
<1>2. ASSUME UNCHANGED <<conn, reconnecting, timer>>
      PROVE  OneLoop'
  BY <1>1, <1>2 DEF running
<1>3. ASSUME UNCHANGED <<reconnecting, timer>>, NEW x \in Requesters, conn[x].at # "idle" \/ x \notin Loops,
             NEW p, Move(x, p)
      PROVE  OneLoop'
  <2>1. \A l \in Loops : running(l)' => running(l)
    BY <1>3, Whereabouts DEF Move, running
  <2> QED
    BY <1>1, <1>3, <2>1
<1>4. ASSUME HandleDisconnect, timer' = timer
      PROVE  OneLoop'
  <2>1. CASE reconnecting /\ UNCHANGED <<reconnecting, conn>>
    BY <1>2, <1>4, <2>1
  <2>2. CASE ~reconnecting /\ reconnecting' /\ UNCHANGED conn
    BY <1>4, <2>2 DEF OneLoop, running
  <2>3. ASSUME ~reconnecting, reconnecting', NEW l \in Loops, Move(l, "check")
        PROVE  OneLoop'
    <3>1. \A m \in Loops : m # l => ~running(m)'
      BY <2>3, Whereabouts DEF OneLoop, running, Move
    <3> QED
      BY <1>4, <2>3, <3>1 DEF OneLoop
  <2> QED
    BY <1>4, <2>1, <2>2, <2>3, DisconnectMoves
<1>5. ASSUME NEW x \in Loops \cup {Main},
             \/ Dial(x) \/ DialFails(x) \/ Authenticate(x) \/ AuthenticateFails(x)
             \/ TokenExpired(x) \/ Join(x) \/ RecordJoin(x) \/ JoinFails(x) \/ Connected(x)
      PROVE  OneLoop'
  <2>1. CASE x # Main /\ Connected(x)
    <3>1. Move(x, "idle") /\ running(x) /\ timer' = timer
      BY <2>1, ConnectMoves DEF Connected, running
    <3>2. \A l \in Loops : ~running(l)'
      BY <1>5, <2>1, <3>1, Whereabouts DEF OneLoop, running, Move
    <3> QED
      BY <3>1, <3>2 DEF OneLoop
  <2>2. CASE x = Main \/ ~Connected(x)
    <3>1. UNCHANGED <<reconnecting, timer>> /\ conn[x].at # "idle"
      BY <1>5, <2>2 DEF Dial, DialFails, Authenticate, AuthenticateFails, TokenExpired, Join, RecordJoin,
                        JoinFails, Connected
    <3>2. \E p : Move(x, p)
      BY <1>5, ConnectMoves, Zenon
    <3> QED
      BY <1>3, <3>1, <3>2, Whereabouts
  <2> QED
    BY <2>1, <2>2
<1>6. ASSUME NEW x \in Requesters, SendRequest(x) \/ SendRequestFails(x) \/ TakeAnswer(x) \/ AnswerTimesOut(x)
      PROVE  OneLoop'
  <2>1. UNCHANGED <<reconnecting, timer>> /\ conn[x].at # "idle"
    BY <1>6 DEF SendRequest, SendRequestFails, TakeAnswer, AnswerTimesOut
  <2>2. \E p : Move(x, p)
    BY <1>6, RequestMoves, Zenon
  <2> QED
    BY <1>3, <2>1, <2>2
<1>7. ASSUME NEW x \in Apis, ApiRequest(x) \/ ApiAnswered(x)
      PROVE  OneLoop'
  <2>1. UNCHANGED <<reconnecting, timer>> /\ x \in Requesters /\ x \notin Loops
    BY <1>7, Whereabouts, SessionAssumption DEF ApiRequest, ApiAnswered
  <2>2. \E p : Move(x, p)
    BY <1>7, <2>1, RequestMoves, Zenon
  <2> QED
    BY <1>3, <2>1, <2>2
<1>8. ASSUME NEW l \in Loops, LoopEnds(l) \/ AttemptsSpent(l) \/ CloseOld(l) \/ CancelOld(l) \/ WaitEnds(l)
      PROVE  OneLoop'
  <2>1. UNCHANGED <<reconnecting, timer>> /\ conn[l].at # "idle"
    BY <1>8 DEF LoopEnds, AttemptsSpent, CloseOld, CancelOld, WaitEnds
  <2>2. \E p : Move(l, p)
    BY <1>8, ReconnectMoves, Zenon
  <2> QED
    BY <1>3, <2>1, <2>2, Whereabouts
<1>9. ASSUME NEW s \in Sessions, KeepaliveGivesUp(s) \/ \E k \in Kinds : ReadFails(s, k)
      PROVE  OneLoop'
  BY <1>4, <1>9 DEF KeepaliveGivesUp, ReadFails
<1>10. ~ShutdownTimerFires /\ ~ShutdownTimerDisconnects /\ \A s \in Sessions : ~HandleServerShutdown(s)
  BY DEF OneLoop, ShutdownTimerFires, ShutdownTimerDisconnects, HandleServerShutdown
<1>11. ASSUME \/ \E s \in Sessions : SessionLost(s) \/ SessionHangs(s) \/ DataSessionLost(s) \/ Message(s)
              \/ \E s \in Sessions, k \in Kinds : TaskEnds(s, k)
              \/ WorkerServes \/ WorkerReturns \/ Close \/ CloseEnds \/ UNCHANGED vars
       PROVE  OneLoop'
  <2>1. UNCHANGED <<reconnecting, timer>>
    BY <1>10, <1>11
    DEF vars, SessionLost, SessionHangs, DataSessionLost, Message, HandleTunnelCreated, HandleTunnelError,
        HandleTunnelClosed, TaskEnds, WorkerServes, WorkerReturns, Close, CloseEnds
  <2> QED
    BY <1>2, <1>11, <2>1, Stays
<1> QED
  BY Steps, <1>5, <1>6, <1>7, <1>8, <1>9, <1>10, <1>11, Zenon

LEMMA FirstStep ==
  ASSUME Conns, OneLoop, FirstIsAlone, [Next]_vars
  PROVE  FirstIsAlone'
<1> DEFINE first == conn[Main].at \in {"dial", "auth"}
<1>1. first => /\ tasks = {} /\ tunnels = {}
               /\ \A x \in Requesters : conn[x].at # "idle" => x = Main
  BY DEF FirstIsAlone
<1>2. ASSUME UNCHANGED conn, first => tasks' \subseteq tasks /\ tunnels' \subseteq tunnels
      PROVE  FirstIsAlone'
  BY <1>1, <1>2 DEF FirstIsAlone
<1>3. ASSUME NEW x \in Requesters, NEW p, Move(x, p), first => x = Main,
             x # Main \/ p \notin {"dial", "auth"} \/ (first /\ UNCHANGED <<tasks, tunnels>>)
      PROVE  FirstIsAlone'
  BY <1>3, Whereabouts DEF FirstIsAlone, Move
<1>4. ASSUME NEW x \in Loops \cup {Main},
             \/ DialFails(x) \/ Authenticate(x) \/ AuthenticateFails(x)
             \/ TokenExpired(x) \/ Join(x) \/ RecordJoin(x) \/ JoinFails(x) \/ Connected(x)
      PROVE  FirstIsAlone'
  <2>1. conn[x].at # "idle" /\ x \in Requesters
    BY <1>4, Whereabouts DEF DialFails, Authenticate, AuthenticateFails, TokenExpired, Join, RecordJoin,
                             JoinFails, Connected
  <2>2. \E p \in {"join", "joined", "request", "idle", "done", "failed", "check"} : Move(x, p)
    BY <1>4, ConnectMoves, Zenon DEF failed
  <2> QED
    BY <1>1, <1>3, <2>1, <2>2
<1>5. ASSUME NEW x \in Loops \cup {Main}, Dial(x)
      PROVE  FirstIsAlone'
  <2>1. conn[x].at = "dial" /\ x \in Requesters /\ UNCHANGED <<tasks, tunnels>> /\ Move(x, "auth")
    BY <1>5, ConnectMoves, Whereabouts DEF Dial, taskVars
  <2> QED
    BY <1>1, <1>3, <2>1
<1>6. ASSUME NEW x \in Requesters, SendRequest(x) \/ SendRequestFails(x) \/ TakeAnswer(x) \/ AnswerTimesOut(x)
      PROVE  FirstIsAlone'
  <2>1. conn[x].at \in {"request", "await"}
    BY <1>6 DEF SendRequest, SendRequestFails, TakeAnswer, AnswerTimesOut
  <2>2. \E p \in {"request", "await"} : Move(x, p)
    BY <1>6, RequestMoves, Zenon
  <2> QED
    BY <1>1, <1>3, <2>1, <2>2
<1>7. ASSUME NEW x \in Apis, ApiRequest(x) \/ ApiAnswered(x)
      PROVE  FirstIsAlone'
  <2>1. x \in Requesters /\ x # Main /\ ~first
    BY <1>1, <1>7, Whereabouts DEF ApiRequest, ApiAnswered
  <2>2. \E p : Move(x, p)
    BY <1>7, <2>1, RequestMoves, Zenon
  <2> QED
    BY <1>3, <2>1, <2>2
<1>8. ASSUME NEW l \in Loops, LoopEnds(l) \/ AttemptsSpent(l) \/ CloseOld(l) \/ CancelOld(l) \/ WaitEnds(l)
      PROVE  FirstIsAlone'
  <2>1. conn[l].at # "idle" /\ l \in Requesters /\ l # Main
    BY <1>8, Whereabouts DEF LoopEnds, AttemptsSpent, CloseOld, CancelOld, WaitEnds
  <2>2. \E p : Move(l, p)
    BY <1>8, ReconnectMoves, Zenon
  <2> QED
    BY <1>1, <1>3, <2>1, <2>2
<1>9. ASSUME NEW s \in Sessions, KeepaliveGivesUp(s) \/ \E k \in Kinds : ReadFails(s, k)
      PROVE  FirstIsAlone'
  <2>1. ~first /\ HandleDisconnect
    BY <1>1, <1>9 DEF KeepaliveGivesUp, ReadFails
  <2>2. UNCHANGED conn \/ \E l \in Loops : Move(l, "check")
    BY <2>1, DisconnectMoves
  <2> QED
    BY <1>2, <1>3, <2>1, <2>2, Whereabouts
<1>10. ~ShutdownTimerFires /\ ~ShutdownTimerDisconnects
  BY DEF OneLoop, ShutdownTimerFires, ShutdownTimerDisconnects
<1>11. ASSUME \/ \E s \in Sessions : SessionLost(s) \/ SessionHangs(s) \/ DataSessionLost(s) \/ Message(s)
              \/ \E s \in Sessions, k \in Kinds : TaskEnds(s, k)
              \/ WorkerServes \/ WorkerReturns \/ Close \/ CloseEnds \/ UNCHANGED vars
       PROVE  FirstIsAlone'
  <2>1. tasks' \subseteq tasks /\ tunnels' \subseteq tunnels
    BY <1>11
    DEF vars, taskVars, ends, SessionLost, SessionHangs, DataSessionLost, Message, HandleTunnelCreated,
        HandleTunnelError, HandleTunnelClosed, HandleServerShutdown, TaskEnds, WorkerServes, WorkerReturns,
        Close, CloseEnds
  <2> QED
    BY <1>2, <1>11, <2>1, Stays
<1> QED
  BY Steps, <1>4, <1>5, <1>6, <1>7, <1>8, <1>9, <1>10, <1>11, Zenon

LEMMA OldStep ==
  ASSUME Conns, LinkInv, Sole, [Next]_vars
  PROVE  OldIsGone'
<1> USE DEF dialling, OldIsGone
\* Who is dialling is the only loop, or the first connection.
<1>1. ASSUME NEW x \in Loops \cup {Main}, conn[x].at \in dialling,
             NEW y \in Loops \cup {Main}, conn[y].at \in dialling \cup {"await"}
      PROVE  y = x \/ y = Main
  BY <1>1, Whereabouts, ConnsAt DEF Sole, OneLoop, FirstIsAlone, running
<1>2. CASE Quiet
  <2> SUFFICES ASSUME NEW x \in Loops \cup {Main}, conn'[x].at \in dialling
               PROVE  /\ \A s \in Sessions : link'[s] = "down"
                      /\ \A t \in tunnels' : t[2] \in Apis \cup {Main}
    BY Zenon
  <2>1. CASE conn[x].at \in dialling
    BY <1>2, <2>1 DEF Quiet, LinksOnlyFall, Sole
  <2>2. CASE x \in Loops /\ CloseOld(x)
    <3>1. Down({session}, data) /\ tunnels' = {}
      BY <2>2 DEF CloseOld, CloseSessions
    <3> QED
      BY <3>1, DownLinks DEF Sole, OneSession
  <2> QED
    BY <1>2, <2>1, <2>2 DEF Quiet
<1>3. ASSUME NEW x \in Loops \cup {Main}, Dial(x)
      PROVE  OldIsGone'
  <2>1. \A y \in Loops \cup {Main} : conn'[y].at \notin dialling
    BY <1>3, <1>1, ConnectMoves, Whereabouts, ConnsAt DEF Dial, Move, Sole, FirstIsAlone
  <2> QED
    BY <2>1
<1>4. ASSUME NEW x \in Requesters, TakeAnswer(x) \/ AnswerTimesOut(x)
      PROVE  OldIsGone'
  <2>1. Move(x, "request") /\ conn[x].at = "await" /\ link' = link
    BY <1>4, RequestMoves DEF TakeAnswer, AnswerTimesOut, linkVars
  <2>2. \A t \in tunnels' : t \in tunnels \/ (t = answer[x] /\ t # None)
    BY <1>4 DEF TakeAnswer, AnswerTimesOut
  <2> SUFFICES ASSUME NEW y \in Loops \cup {Main}, conn'[y].at \in dialling
               PROVE  /\ \A s \in Sessions : link'[s] = "down"
                      /\ \A t \in tunnels' : t[2] \in Apis \cup {Main}
    BY Zenon
  <2>3. conn[y].at \in dialling /\ y # x
    BY <2>1, Whereabouts DEF Move
  <2>4. x \in Apis \cup {Main}
    BY <1>1, <2>1, <2>3, Whereabouts
  <2> QED
    BY <2>1, <2>2, <2>3, <2>4 DEF Sole, AnswersAreFresh
<1>5. ASSUME NEW s \in Sessions, NEW r \in asked, HandleTunnelCreated(s, r)
      PROVE  OldIsGone'
  BY <1>5 DEF HandleTunnelCreated, Sole
<1> QED
  BY <1>2, <1>3, <1>4, <1>5, QuietSteps

LEMMA AnswersStep ==
  ASSUME Conns, LinkInv, Sole, [Next]_vars
  PROVE  AnswersAreFresh'
<1>1. CASE Quiet
  BY <1>1 DEF Quiet, LinksOnlyFall, Sole, AnswersAreFresh
<1>2. ASSUME NEW x \in Loops \cup {Main}, Dial(x)
      PROVE  AnswersAreFresh'
  <2>1. Move(x, "auth") /\ conn[x].at = "dial" /\ answer' = answer /\ x \in Requesters
    BY <1>2, ConnectMoves, Whereabouts DEF Dial
  <2>2. \A l \in Loops : conn[l].at # "await"
    BY <1>2, <2>1, Whereabouts DEF Sole, OneLoop, FirstIsAlone, running
  <2> QED
    BY <2>1, <2>2, Whereabouts DEF Sole, AnswersAreFresh, Move
<1>3. ASSUME NEW x \in Requesters, TakeAnswer(x) \/ AnswerTimesOut(x)
      PROVE  AnswersAreFresh'
  BY <1>3, RequestMoves DEF TakeAnswer, AnswerTimesOut, Move, linkVars, Sole, AnswersAreFresh
<1>4. ASSUME NEW s \in Sessions, NEW r \in asked, HandleTunnelCreated(s, r)
      PROVE  AnswersAreFresh'
  BY <1>4 DEF HandleTunnelCreated, Sole, AnswersAreFresh
<1> QED
  BY <1>1, <1>2, <1>3, <1>4, QuietSteps

LEMMA SoleStep ==
  ASSUME Conns, LinkInv, Sole, [Next]_vars
  PROVE  OneSession' /\ FreshTunnels'
<1> USE DEF OneSession, FreshTunnels
<1>1. CASE Quiet
  BY <1>1 DEF Quiet, LinksOnlyFall, Sole
<1>2. ASSUME NEW x \in Loops \cup {Main}, Dial(x)
      PROVE  OneSession' /\ FreshTunnels'
  <2>1. /\ \A s \in Sessions : link[s] = "down"
        /\ \A t \in tunnels : t[2] \in Apis \cup {Main}
    BY <1>2 DEF Dial, Sole, OldIsGone, dialling
  <2>2. tunnels' = tunnels /\ session' \in Sessions /\ link' = [link EXCEPT ![session'] = "open"]
    BY <1>2, LinksDialled DEF Dial
  <2> QED
    BY <2>1, <2>2 DEF LinkInv
<1>3. ASSUME NEW x \in Requesters, TakeAnswer(x) \/ AnswerTimesOut(x)
      PROVE  OneSession' /\ FreshTunnels'
  <2>1. /\ UNCHANGED <<link, session>>
        /\ \A t \in tunnels' : t \in tunnels \/ (t = answer[x] /\ t # None)
    BY <1>3 DEF TakeAnswer, AnswerTimesOut, linkVars
  <2> QED
    BY <2>1, Whereabouts DEF Sole, AnswersAreFresh
<1>4. ASSUME NEW s \in Sessions, NEW r \in asked, HandleTunnelCreated(s, r)
      PROVE  OneSession' /\ FreshTunnels'
  BY <1>4 DEF HandleTunnelCreated, Sole
<1> QED
  BY <1>1, <1>2, <1>3, <1>4, QuietSteps

\* The client has one control connection and lists tunnels of its session only:
\* no loop dials before the old session is closed and its goroutines have
\* ended, and the flag lets no second loop start, until the server announces
\* that it stops (reconnect, handleDisconnect, handleServerShutdown).
THEOREM OneSessionIsKept == Spec => []OneSessionPerLoop
<1>1. Init => SoleInv
  <2> SUFFICES ASSUME Init PROVE Sole
    BY DEF SoleInv
  <2>1. \A x \in Requesters : x # Main => conn[x].at = "idle"
    BY DEF Init, idle
  <2>2. \A x \in Requesters : answer[x] = None
    BY DEF Init
  <2>3. DOMAIN answer = Requesters /\ timer = "none" /\ tasks = {} /\ tunnels = {}
        /\ \A s \in Sessions : link[s] = "down"
    BY DEF Init
  <2>4. \A l \in Loops : l \in Requesters /\ l # Main
    BY Whereabouts
  <2> QED
    BY <2>1, <2>2, <2>3, <2>4
    DEF Sole, OneLoop, running, FirstIsAlone, OldIsGone, AnswersAreFresh, OneSession, FreshTunnels
<1>2. Conns /\ LinkInv /\ SoleInv /\ [Next]_vars => SoleInv'
  <2>1. [Next]_vars => announced' = announced \/ announced'
    BY AnnouncedStays
  <2> QED
    BY <2>1, OneLoopStep, FirstStep, OldStep, AnswersStep, SoleStep DEF SoleInv, Sole
<1>3. SoleInv => OneSessionPerLoop
  BY DEF SoleInv, Sole, OneSessionPerLoop
<1> QED
  BY <1>1, <1>2, <1>3, ConnsInit, ConnsStep, LinksInit, LinksStep, PTL DEF Spec
====

---------------------------- MODULE ServingProofs -----------------------------
(***************************************************************************)
(* Proofs about Streams, for any number of data sessions, visitors, streams *)
(* and workers, and about Shutdown, for any number of connections and      *)
(* guests.                                                                 *)
(***************************************************************************)
EXTENDS Streams, Shutdown, TLAPS

-----------------------------------------------------------------------------
(* Streams: the sessions of a client.                                        *)

\* What the sessions depend on; streams come and go without changing them.
sessionVars == <<session, joining, joined, strays, ending>>

\* A step is one of these, for the sessions.
LEMMA SessionSteps ==
  ASSUME [StreamsNext]_streamsVars
  PROVE  \/ \E s \in Sessions : SessionDies(s) \/ FindClient(s) \/ Join(s)
         \/ CancelClient \/ ClosePrimary \/ CloseData \/ Remove
         \/ UNCHANGED sessionVars
<1> SUFFICES ASSUME StreamsNext PROVE \/ \E s \in Sessions : SessionDies(s) \/ FindClient(s) \/ Join(s)
                               \/ CancelClient \/ ClosePrimary \/ CloseData \/ Remove
                               \/ UNCHANGED sessionVars
  BY DEF streamsVars, serverVars, sessionVars
<1>1. Refill => UNCHANGED sessionVars
  BY DEF Refill, RefillOpens, RefillPauses, RefillResumes, RefillLeaves, RefillDrains, serverVars, sessionVars
<1>2. ASSUME NEW v \in Visitors
      PROVE  Handle(v) \/ Arrive(v) \/ AnswerVisitor(v) \/ HangUp(v) => UNCHANGED sessionVars
  BY DEF Handle, TakePooled, TakeNew, TurnAway, StreamEnds, WriteHeader, Arrive, AnswerVisitor, HangUp, serverVars, sessionVars
<1>3. ASSUME NEW x \in Ids
      PROVE  LocalEnds(x) \/ ReadHeader(x) \/ SeeEnd(x) => UNCHANGED sessionVars
  BY DEF LocalEnds, ReadHeader, SeeEnd, LetGo, serverVars, sessionVars
<1>4. ASSUME NEW s \in Sessions
      PROVE  AcceptStream(s) => UNCHANGED sessionVars
  BY DEF AcceptStream, serverVars, sessionVars
<1>5. ASSUME NEW w \in Workers
      PROVE  Work(w) => UNCHANGED sessionVars
  BY DEF Work, serverVars, sessionVars
<1>6. QED
  BY <1>1, <1>2, <1>3, <1>4, <1>5 DEF StreamsNext, Environment, Close

-----------------------------------------------------------------------------
(* While Close() runs, every open session is somewhere it will be found: or  *)
(* it joins too late, as a stray.                                            *)

OpenFound == \A s \in Sessions : open(s) => s = Primary \/ s \in joining \cup joined \cup strays
PrimaryClosed == ending \in {"primary", "data", "removed"} => ~open(Primary)
LateAreStrays == ending \in {"data", "removed"} => joined \subseteq strays

SessionInv == session \in [Sessions -> {"out", "open", "closed"}] /\ OpenFound /\ PrimaryClosed /\ LateAreStrays

LEMMA SessionInit == StreamsInit => SessionInv
  BY DEF StreamsInit, SessionInv, OpenFound, PrimaryClosed, LateAreStrays, open, Sessions

LEMMA SessionStep ==
  ASSUME SessionInv, [StreamsNext]_streamsVars
  PROVE  SessionInv'
<1> USE DEF SessionInv, OpenFound, PrimaryClosed, LateAreStrays, open
<1>1. ASSUME NEW s \in Sessions, SessionDies(s)
      PROVE  SessionInv'
  <2>1. session' \in [Sessions -> {"out", "open", "closed"}] /\ \A r \in Sessions : session'[r] = "open" => session[r] = "open"
    BY <1>1 DEF SessionDies, Cut
  <2>2. UNCHANGED <<joining, joined, strays, ending>>
    BY <1>1 DEF SessionDies, serverVars
  <2>3. QED
    BY <2>1, <2>2 DEF Sessions
<1>2. ASSUME NEW s \in Sessions, FindClient(s)
      PROVE  SessionInv'
  BY <1>2, PrimaryAssumption DEF FindClient
<1>3. ASSUME NEW s \in Sessions, Join(s)
      PROVE  SessionInv'
  BY <1>3 DEF Join
<1>4. CASE CancelClient
  BY <1>4 DEF CancelClient
<1>5. CASE ClosePrimary
  BY <1>5 DEF ClosePrimary, Cut, Sessions
<1>6. CASE CloseData
  <2>1. /\ session' \in [Sessions -> {"out", "open", "closed"}]
        /\ \A r \in Sessions : session'[r] = "open" => session[r] = "open" /\ r \notin joined
    BY <1>6 DEF CloseData, Cut
  <2>2. ending = "primary" /\ ending' = "data" /\ joined' = {} /\ UNCHANGED <<joining, strays>>
    BY <1>6 DEF CloseData
  <2>3. QED
    BY <2>1, <2>2 DEF Sessions
<1>7. CASE Remove
  BY <1>7 DEF Remove
<1>8. CASE UNCHANGED sessionVars
  BY <1>8 DEF sessionVars
<1>9. QED
  BY SessionSteps, <1>1, <1>2, <1>3, <1>4, <1>5, <1>6, <1>7, <1>8

\* When a client has been removed, no session of it is open but one that joined
\* while Close() ran (Client.Close, handleJoinSession), for any number of data
\* sessions and whenever they join or die.
THEOREM SessionsEnd == StreamsSpec => []SessionsClosed
<1>1. SessionInv => SessionsClosed
  BY DEF SessionInv, OpenFound, PrimaryClosed, LateAreStrays, SessionsClosed
<1>2. QED
  BY SessionInit, SessionStep, <1>1, PTL DEF StreamsSpec

-----------------------------------------------------------------------------
(* Shutdown: the stop of the server.                                         *)

\* A step is one of these.
LEMMA ShutdownSteps ==
  ASSUME [Next]_vars
  PROVE  \/ StopListening \/ Drained \/ DrainTimesOut \/ Notify \/ Cancel \/ StartWait \/ Stopped
         \/ AcceptorEnds
         \/ \E c \in Conns : \/ Accept(c) \/ OpensControl(c) \/ Authenticate(c) \/ AuthFails(c)
                             \/ Message(c) \/ RemoteLeaves(c) \/ Return(c) \/ CloseClient(c)
         \/ \E g \in Guests : Finish(g) \/ \E c \in Conns : Enter(g, c)
         \/ UNCHANGED vars
  BY DEF Next, Stop

-----------------------------------------------------------------------------
(* A guest is cut off only after the context has been cancelled, and that     *)
(* comes after the drain; who was there at its start does not come back.      *)

Marks == {"out", "done", "cut"}

Places == guest \in [Guests -> Conns \cup Marks] /\ early \subseteq Guests
CancelledLate == cancelled <=> phase \notin {"running", "drain", "notify", "cancel"}
NoCutBefore == ~cancelled => \A g \in Guests : guest[g] # "cut"
EarlyCame == \A g \in early : guest[g] # "out"
EarlyDone == phase \notin {"running", "drain"} /\ ~hurried => \A g \in early : guest[g] = "done"

DrainInv == Places /\ CancelledLate /\ NoCutBefore /\ EarlyCame /\ EarlyDone

LEMMA DrainInit == Init => DrainInv
  BY DEF Init, DrainInv, Places, Marks, CancelledLate, NoCutBefore, EarlyCame, EarlyDone

\* A client that goes takes its guests along, and only those.
LEMMA DropKeeps ==
  ASSUME DrainInv, Conns \cap Marks = {}, NEW c \in Conns, NEW fate \in {"done", "cut"},
         Drop(c, fate), UNCHANGED <<phase, early, hurried, cancelled>>,
         fate = "cut" => cancelled
  PROVE  DrainInv'
<1>1. /\ guest' \in [Guests -> Conns \cup Marks]
      /\ \A g \in Guests : guest'[g] = IF guest[g] = c THEN fate ELSE guest[g]
  BY DEF DrainInv, Places, Marks, Drop
<1>2. Places'
  BY <1>1 DEF DrainInv, Places
<1>3. CancelledLate'
  BY DEF DrainInv, CancelledLate
<1>4. NoCutBefore'
  BY <1>1 DEF DrainInv, NoCutBefore
<1>5. EarlyCame'
  BY <1>1 DEF DrainInv, Places, EarlyCame
<1>6. EarlyDone'
  BY <1>1 DEF DrainInv, Places, Marks, EarlyDone
<1>7. QED
  BY <1>2, <1>3, <1>4, <1>5, <1>6 DEF DrainInv

LEMMA DrainStep ==
  ASSUME DrainInv, [Next]_vars, Conns \cap Marks = {}
  PROVE  DrainInv'
<1> USE DEF DrainInv
<1>1. CASE StopListening
  <2>1. early' = {g \in Guests : guest[g] \notin Marks} /\ guest' = guest
    BY <1>1 DEF StopListening, present, Marks
  <2>2. Places' /\ EarlyCame'
    BY <2>1 DEF Places, EarlyCame, Marks
  <2>3. CancelledLate' /\ NoCutBefore' /\ EarlyDone'
    BY <1>1, <2>1 DEF StopListening, CancelledLate, NoCutBefore, EarlyDone
  <2>4. QED
    BY <2>2, <2>3
<1>2. CASE Drained
  <2>1. \A g \in early : guest[g] \in Marks
    BY <1>2 DEF Drained, present, Places, Marks
  <2>2. \A g \in early : guest[g] = "done"
    BY <1>2, <2>1 DEF Drained, Places, Marks, CancelledLate, NoCutBefore, EarlyCame
  <2>3. QED
    BY <1>2, <2>2 DEF Drained, guestVars, Places, CancelledLate, NoCutBefore, EarlyCame, EarlyDone
<1>3. CASE DrainTimesOut
  BY <1>3 DEF DrainTimesOut, Places, CancelledLate, NoCutBefore, EarlyCame, EarlyDone
<1>4. CASE Notify \/ Cancel \/ StartWait \/ Stopped
  BY <1>4 DEF Notify, Cancel, StartWait, Stopped, guestVars,
              Places, CancelledLate, NoCutBefore, EarlyCame, EarlyDone
<1>5. ASSUME NEW c \in Conns, Message(c) \/ Return(c) \/ CloseClient(c)
      PROVE  DrainInv'
  <2>1. CASE Message(c)
    BY <2>1, DropKeeps DEF Message
  <2>2. CASE Return(c)
    BY <2>2, DropKeeps DEF Return
  <2>3. CASE CloseClient(c)
    <3>1. UNCHANGED <<phase, early, hurried, cancelled>> /\ Drop(c, "cut")
      BY <2>3 DEF CloseClient
    <3>2. cancelled
      BY <2>3 DEF CloseClient, CancelledLate
    <3>3. QED
      BY <3>1, <3>2, DropKeeps
  <2>4. QED
    BY <1>5, <2>1, <2>2, <2>3
<1>6. ASSUME NEW c \in Conns,
             Accept(c) \/ OpensControl(c) \/ Authenticate(c) \/ AuthFails(c) \/ RemoteLeaves(c)
      PROVE  DrainInv'
  BY <1>6 DEF Accept, OpensControl, Authenticate, AuthFails, RemoteLeaves, guestVars,
              Places, CancelledLate, NoCutBefore, EarlyCame, EarlyDone
<1>7. CASE AcceptorEnds \/ UNCHANGED vars
  BY <1>7 DEF AcceptorEnds, vars, guestVars, Places, CancelledLate, NoCutBefore, EarlyCame, EarlyDone
<1>8. ASSUME NEW g \in Guests, NEW c \in Conns, Enter(g, c)
      PROVE  DrainInv'
  <2>1. guest[g] = "out" /\ guest' = [guest EXCEPT ![g] = c] /\ UNCHANGED <<phase, cancelled, early, hurried>>
    BY <1>8 DEF Enter
  <2>2. g \notin early
    BY <2>1 DEF EarlyCame
  <2>3. Places' /\ CancelledLate'
    BY <2>1 DEF Places, CancelledLate
  <2>4. NoCutBefore'
    BY <2>1 DEF Places, Marks, NoCutBefore
  <2>5. EarlyCame' /\ EarlyDone'
    BY <2>1, <2>2 DEF Places, EarlyCame, EarlyDone
  <2>6. QED
    BY <2>3, <2>4, <2>5
<1>9. ASSUME NEW g \in Guests, Finish(g)
      PROVE  DrainInv'
  <2>1. guest' = [guest EXCEPT ![g] = "done"] /\ UNCHANGED <<phase, cancelled, early, hurried>>
    BY <1>9 DEF Finish
  <2>2. QED
    BY <2>1 DEF Places, Marks, CancelledLate, NoCutBefore, EarlyCame, EarlyDone
<1>10. QED
  BY ShutdownSteps, <1>1, <1>2, <1>3, <1>4, <1>5, <1>6, <1>7, <1>8, <1>9

\* Stop() cuts off a connection that was there when it began only after the
\* drain has timed out (Server.Stop), however many connections there are. The
\* model names the place of a guest by its connection, or by a mark.
THEOREM EarlyGuestsDrained ==
  ASSUME Conns \cap Marks = {}
  PROVE  Spec => []DrainedFirst
<1>1. DrainInv /\ [Next]_vars => DrainInv'
  BY DrainStep
<1>2. DrainInv => DrainedFirst
  BY DEF DrainInv, Places, CancelledLate, NoCutBefore, EarlyDone, DrainedFirst
<1>3. QED
  BY DrainInit, <1>1, <1>2, PTL DEF Spec
=============================================================================

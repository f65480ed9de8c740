------------------------------ MODULE Streams ------------------------------
(* Visitors of a tunnel, and the yamux streams that carry them to the local  *)
(* service: the server's pool of streams opened ahead (stream_pool.go), the  *)
(* data sessions a client adds to its own (handleJoinSession), the handlers  *)
(* that use a stream (http_router.go, tcp_manager.go), the end of a client   *)
(* (Client.Close), and the workers that serve streams at the client's side   *)
(* (acceptStreams, streamWorker, handleStream).                              *)
EXTENDS NoValue, Naturals, Sequences, FiniteSets

CONSTANTS Primary,      \* the session of the control stream
          DataSessions, \* sessions that may join it
          Visitors,
          PoolSize,     \* streamPoolSize
          Workers,      \* streamWorker goroutines; their channel holds as many
          MaxStreams    \* bound: streams that somebody holds at one time

\* A client joins with sessions of their own.
ASSUME PrimaryAssumption == Primary \notin DataSessions

Sessions == {Primary} \cup DataSessions
Ids == 1..MaxStreams

VARIABLES
  session,  \* yamux sessions: "out", "open", "closed"
  joining,  \* data sessions that handleJoinSession has found the client for
  joined,   \* Client.DataSessions
  strays,   \* sessions that joined after Close() had closed the others (history)
  ending,   \* how far Client.Close() has come
  stream,   \* the two ends of a stream
  pool,     \* Client.streamPool
  refill,   \* refillStreamPool: "top", "pause", "ended"
  visitor,  \* handlers of visitors: where they are, and their stream
  backlog,  \* streams of a session that the client has yet to accept
  queue,    \* the client's streamWorkers
  worker    \* the stream of a worker, 0 for none

serverVars == <<joining, joined, strays, ending>>
streamsVars == <<session, serverVars, stream, pool, refill, visitor, backlog, queue, worker>>

\* The server's end is "idle" until the header is "sent".
gone == [of |-> None, server |-> "closed", client |-> "closed"]
away == [at |-> "away", stream |-> 0]

StreamsInit ==
  /\ session = [s \in Sessions |-> IF s = Primary THEN "open" ELSE "out"]
  /\ joining = {} /\ joined = {} /\ strays = {} /\ ending = "no"
  /\ stream = [x \in Ids |-> gone] /\ pool = <<>>
  /\ refill = "top"
  /\ visitor = [v \in Visitors |-> away]
  /\ backlog = [s \in Sessions |-> <<>>] /\ queue = <<>> /\ worker = [w \in Workers |-> 0]

open(s) == session[s] = "open"
alive(x) == stream[x].of # None /\ open(stream[x].of)
clientCancelled == ending # "no"

\* A stream whose ends are both closed is as good as new.
Closed(x, side) ==
  LET y == [stream[x] EXCEPT ![side] = "closed"] IN
  IF y.server = "closed" /\ y.client = "closed" THEN gone ELSE y
CloseServer(x) == stream' = [stream EXCEPT ![x] = Closed(x, "server")]

-----------------------------------------------------------------------------
(* Sessions.                                                               *)

\* What is left of streams and backlogs when sessions close: nobody accepts.
Cut(gones) ==
  /\ session' = [s \in Sessions |-> IF s \in gones THEN "closed" ELSE session[s]]
  /\ backlog' = [s \in Sessions |-> IF s \in gones THEN <<>> ELSE backlog[s]]
  /\ stream' = [x \in Ids |->
       IF stream[x].of \in gones /\ stream[x].client = "waiting" THEN Closed(x, "client") ELSE stream[x]]

SessionDies(s) ==
  /\ open(s) /\ Cut({s})
  /\ UNCHANGED <<serverVars, pool, refill, visitor, queue, worker>>

\* handleJoinSession: findClientBySecret, then the list of sessions.
FindClient(s) ==
  /\ s \in DataSessions /\ session[s] = "out" /\ ending # "removed"
  /\ session' = [session EXCEPT ![s] = "open"] /\ joining' = joining \cup {s}
  /\ UNCHANGED <<joined, strays, ending, stream, pool, refill, visitor, backlog, queue, worker>>

Join(s) ==
  /\ s \in joining
  /\ joining' = joining \ {s} /\ joined' = joined \cup {s}
  /\ strays' = IF ending \in {"data", "removed"} THEN strays \cup {s} ELSE strays
  /\ UNCHANGED <<session, ending, stream, pool, refill, visitor, backlog, queue, worker>>

-----------------------------------------------------------------------------
(* Client.Close().                                                         *)

\* The control stream ends, keepalive gives up, or the server stops.
CancelClient ==
  /\ ending = "no" /\ ending' = "cancelled"
  /\ UNCHANGED <<session, joining, joined, strays, stream, pool, refill, visitor, backlog, queue, worker>>

ClosePrimary ==
  /\ ending = "cancelled" /\ ending' = "primary"
  /\ Cut({Primary})
  /\ UNCHANGED <<joining, joined, strays, pool, refill, visitor, queue, worker>>

\* Mutant: the list is emptied, its sessions stay.
CloseDataForgets ==
  /\ ending = "primary" /\ ending' = "data"
  /\ joined' = {}
  /\ UNCHANGED <<session, joining, strays, stream, pool, refill, visitor, backlog, queue, worker>>

CloseData ==
  /\ ending = "primary" /\ ending' = "data"
  /\ Cut(joined) /\ joined' = {}
  /\ UNCHANGED <<joining, strays, pool, refill, visitor, queue, worker>>

Remove ==
  /\ ending = "data" /\ ending' = "removed"
  /\ UNCHANGED <<session, joining, joined, strays, stream, pool, refill, visitor, backlog, queue, worker>>

-----------------------------------------------------------------------------
(* Opening streams.                                                        *)

\* openStreamRoundRobin starts anywhere and passes over closed sessions.
usable == {s \in {Primary} \cup joined : open(s)}

\* x is a new stream of s.
Open(x, s) ==
  /\ stream[x] = gone /\ \A y \in 1..x - 1 : stream[y] # gone
  /\ stream' = [stream EXCEPT ![x] = [of |-> s, server |-> "idle", client |-> "waiting"]]
  /\ backlog' = [backlog EXCEPT ![s] = Append(@, x)]

\* There is room, so that the stream is put into the pool at once.
RefillOpens(x, s) ==
  /\ refill = "top" /\ ~clientCancelled /\ Len(pool) < PoolSize /\ s \in usable
  /\ Open(x, s) /\ pool' = Append(pool, x)
  /\ UNCHANGED <<session, serverVars, refill, visitor, queue, worker>>

\* The pool is full, or no session is left: a pause.
RefillPauses ==
  /\ refill = "top" /\ ~clientCancelled
  /\ Len(pool) >= PoolSize \/ usable = {}
  /\ refill' = "pause"
  /\ UNCHANGED <<session, serverVars, stream, pool, visitor, backlog, queue, worker>>

\* Pauses that find nothing new are left out.
RefillResumes ==
  /\ refill = "pause"
  /\ clientCancelled \/ (Len(pool) < PoolSize /\ usable # {})
  /\ refill' = "top"
  /\ UNCHANGED <<session, serverVars, stream, pool, visitor, backlog, queue, worker>>

\* Cancelled in a pause, it leaves the pool as it is; cancelled elsewhere, it
\* drains the pool.
RefillLeaves ==
  /\ refill = "pause" /\ clientCancelled
  /\ refill' = "ended"
  /\ UNCHANGED <<session, serverVars, stream, pool, visitor, backlog, queue, worker>>

RefillDrains ==
  /\ refill = "top" /\ clientCancelled
  /\ IF pool = <<>> THEN refill' = "ended" /\ UNCHANGED <<pool, stream>>
     ELSE CloseServer(Head(pool)) /\ pool' = Tail(pool) /\ UNCHANGED refill
  /\ UNCHANGED <<session, serverVars, visitor, backlog, queue, worker>>

-----------------------------------------------------------------------------
(* Handlers of visitors: requests ("http"), upgraded ones ("upgrade", see    *)
(* serveUpgrade) and TCP connections ("tcp").                                *)

Kinds == {"http", "upgrade", "tcp"}
visitorAt(v, place) == visitor[v].at = place
VisitorGoes(v, place) == visitor' = [visitor EXCEPT ![v].at = place]
Leave(v) == visitor' = [visitor EXCEPT ![v] = away]
its(v) == stream[visitor[v].stream]

\* GetTunnel and GetClient find what is not removed yet.
Arrive(v) ==
  /\ visitorAt(v, "away") /\ ending # "removed"
  /\ VisitorGoes(v, "found")
  /\ UNCHANGED <<session, serverVars, stream, pool, refill, backlog, queue, worker>>

\* OpenStream: from the pool,
TakePooled(v) ==
  /\ visitorAt(v, "found") /\ pool # <<>>
  /\ visitor' = [visitor EXCEPT ![v].at = "header", ![v].stream = Head(pool)]
  /\ pool' = Tail(pool)
  /\ UNCHANGED <<session, serverVars, stream, refill, backlog, queue, worker>>

\* or a new one,
TakeNew(v, x, s) ==
  /\ visitorAt(v, "found") /\ pool = <<>> /\ s \in usable
  /\ Open(x, s) /\ visitor' = [visitor EXCEPT ![v].at = "header", ![v].stream = x]
  /\ UNCHANGED <<session, serverVars, pool, refill, queue, worker>>

\* or an error page.
TurnAway(v) ==
  /\ visitorAt(v, "found") /\ pool = <<>> /\ usable = {}
  /\ Leave(v)
  /\ UNCHANGED <<session, serverVars, stream, pool, refill, backlog, queue, worker>>

\* WriteStreamHeader, which finds out that a pooled stream is dead. There is no
\* second try. What the visitor came for matters from here on.
WriteHeader(v, kind) ==
  /\ visitorAt(v, "header")
  /\ IF alive(visitor[v].stream)
     THEN stream' = [stream EXCEPT ![visitor[v].stream].server = "sent"] /\ VisitorGoes(v, kind)
     ELSE CloseServer(visitor[v].stream) /\ Leave(v)
  /\ UNCHANGED <<session, serverVars, pool, refill, backlog, queue, worker>>

\* The response to a request is complete, and so is what an inspected one
\* waited for.
AnswerVisitor(v) ==
  /\ visitorAt(v, "http") /\ its(v).client \in {"using", "answering"}
  /\ stream' = [stream EXCEPT ![visitor[v].stream].server = "closed", ![visitor[v].stream].client = "using"]
  /\ Leave(v)
  /\ UNCHANGED <<session, serverVars, pool, refill, backlog, queue, worker>>

\* Someone hangs up. handleConnection closes the stream, and so does a request
\* whose body breaks off; serveUpgrade cannot: a stream has no CloseWrite, and
\* its handler waits for the other direction.
HangUp(v) ==
  /\ \/ visitor[v].at \in {"http", "tcp"} /\ CloseServer(visitor[v].stream) /\ Leave(v)
     \/ visitorAt(v, "upgrade") /\ VisitorGoes(v, "half") /\ UNCHANGED stream
     \/ visitorAt(v, "told") /\ CloseServer(visitor[v].stream) /\ Leave(v)
  /\ UNCHANGED <<session, serverVars, pool, refill, backlog, queue, worker>>

over(v) == its(v).client = "closed" \/ ~alive(visitor[v].stream)


\* The stream ends: an upgraded connection is told, and waits to be hung up.
StreamEnds(v) ==
  /\ visitor[v].at \in Kinds \cup {"half"} /\ over(v)
  /\ IF visitorAt(v, "upgrade") THEN VisitorGoes(v, "told") /\ UNCHANGED stream
     ELSE CloseServer(visitor[v].stream) /\ Leave(v)
  /\ UNCHANGED <<session, serverVars, pool, refill, backlog, queue, worker>>

-----------------------------------------------------------------------------
(* The client.                                                             *)

\* Mutant: when the channel is full, acceptStreams waits.
AcceptWaits(s) ==
  /\ open(s) /\ backlog[s] # <<>> /\ Len(queue) < Cardinality(Workers)
  /\ queue' = Append(queue, Head(backlog[s]))
  /\ stream' = [stream EXCEPT ![Head(backlog[s])].client = "queued"]
  /\ backlog' = [backlog EXCEPT ![s] = Tail(@)]
  /\ UNCHANGED <<session, serverVars, pool, refill, visitor, worker>>

\* acceptStreams, acceptDataStreams: to the channel of the workers or, when it
\* is full, to a goroutine of its own.
AcceptStream(s) ==
  /\ open(s) /\ backlog[s] # <<>>
  /\ IF Len(queue) < Cardinality(Workers)
     THEN /\ queue' = Append(queue, Head(backlog[s]))
          /\ stream' = [stream EXCEPT ![Head(backlog[s])].client = "queued"]
     ELSE /\ UNCHANGED queue
          /\ stream' = [stream EXCEPT ![Head(backlog[s])].client = "reading"]
  /\ backlog' = [backlog EXCEPT ![s] = Tail(@)]
  /\ UNCHANGED <<session, serverVars, pool, refill, visitor, worker>>

Work(w) ==
  /\ worker[w] = 0 /\ queue # <<>>
  /\ worker' = [worker EXCEPT ![w] = Head(queue)] /\ queue' = Tail(queue)
  /\ stream' = [stream EXCEPT ![Head(queue)].client = "reading"]
  /\ UNCHANGED <<session, serverVars, pool, refill, visitor, backlog>>

\* handleStream: a worker waits here while its stream is in the server's pool.
\* With an inspector it goes on to read a whole request, then to wait for the
\* local service to answer. What has arrived is read even if the session dies.
ReadHeader(x) ==
  /\ stream[x].client = "reading" /\ stream[x].server = "sent"
  /\ \E path \in {"using", "answering"} :
       /\ path = "answering" => \A v \in Visitors : visitorAt(v, "tcp") => visitor[v].stream # x
       /\ stream' = [stream EXCEPT ![x].client = path]
  /\ UNCHANGED <<session, serverVars, pool, refill, visitor, backlog, queue, worker>>

\* handleStream returns.
LetGo(x) ==
  /\ stream' = [stream EXCEPT ![x] = Closed(x, "client")]
  /\ worker' = [w \in Workers |-> IF worker[w] = x THEN 0 ELSE worker[w]]
  /\ UNCHANGED <<session, serverVars, pool, refill, visitor, backlog, queue>>

\* The stream has ended: either copy that ends ends both. Who waits for an
\* answer does not look at the stream, and sets no deadline.
SeeEnd(x) ==
  /\ stream[x].client \in {"reading", "using"}
  /\ stream[x].server = "closed" \/ ~alive(x)
  /\ LetGo(x)

\* The tunnel is not known, the local service cannot be dialed or hangs up.
LocalEnds(x) == stream[x].client \in {"using", "answering"} /\ LetGo(x)

-----------------------------------------------------------------------------
Refill ==
  \/ \E x \in Ids, s \in Sessions : RefillOpens(x, s)
  \/ RefillPauses \/ RefillResumes \/ RefillLeaves \/ RefillDrains
Close == ClosePrimary \/ CloseData \/ Remove
Handle(v) ==
  \/ TakePooled(v) \/ \E x \in Ids, s \in Sessions : TakeNew(v, x, s)
  \/ TurnAway(v) \/ StreamEnds(v) \/ \E k \in Kinds : WriteHeader(v, k)
Environment ==
  \/ CancelClient
  \/ \E s \in Sessions : SessionDies(s) \/ FindClient(s)
  \/ \E v \in Visitors : Arrive(v) \/ AnswerVisitor(v) \/ HangUp(v)
  \/ \E x \in Ids : LocalEnds(x)

StreamsNext ==
  \/ Environment \/ Refill \/ Close
  \/ \E s \in Sessions : Join(s) \/ AcceptStream(s)
  \/ \E v \in Visitors : Handle(v)
  \/ \E w \in Workers : Work(w)
  \/ \E x \in Ids : ReadHeader(x) \/ SeeEnd(x)

\* Goroutines go on. Visitors, local services and networks do as they please.
StreamsFairness ==
  /\ WF_streamsVars(Refill) /\ WF_streamsVars(Close)
  /\ \A s \in Sessions : WF_streamsVars(Join(s)) /\ WF_streamsVars(AcceptStream(s))
  /\ \A v \in Visitors : WF_streamsVars(Handle(v))
  /\ WF_streamsVars(\E w \in Workers : Work(w))
  /\ \A x \in Ids : WF_streamsVars(ReadHeader(x) \/ SeeEnd(x))

StreamsSpec == StreamsInit /\ [][StreamsNext]_streamsVars /\ StreamsFairness

-----------------------------------------------------------------------------
\* Close() leaves no session open, but for one that joined while it ran
\* (Client.Close, handleJoinSession).
SessionsClosed ==
  ending = "removed" => \A s \in Sessions : open(s) => s \in joining \cup strays

\* A visitor whose stream has its header is served at the client's side, unless
\* its stream waits in the channel while every worker has a stream already: a
\* visitor's, or one that the server keeps in its pool (acceptStreams).
waits(v) ==
  /\ visitor[v].at \in Kinds /\ alive(visitor[v].stream)
  /\ its(v).client \in {"waiting", "queued", "reading"}
starved(v) == visitor[v].at \in Kinds /\ its(v).client = "queued" /\ \A w \in Workers : worker[w] # 0
VisitorsServed == \A v \in Visitors : waits(v) ~> (~waits(v) \/ starved(v))

=============================================================================

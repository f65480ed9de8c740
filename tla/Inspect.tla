------------------------------ MODULE Inspect ------------------------------
(***************************************************************************)
(* The server's traffic inspector (src/internal/inspect): a ring buffer of *)
(* captured exchanges per HTTP tunnel, followed live by event streams, and *)
(* a store for the history.                                                *)
(*                                                                         *)
(* Goroutines:                                                             *)
(*   - the one that creates a tunnel, and the one that takes it down, of   *)
(*     which TunnelServer shows that there is one each (life);             *)
(*   - Server.Stop, which closes the whole manager (stopped);              *)
(*   - one per captured exchange: ServeHTTP or a replay (record);          *)
(*   - one per event stream: handleInspectStream, with a channel of its    *)
(*     own (stream, queue, closed);                                        *)
(*   - API requests that clear a buffer.                                   *)
(* A step of the model is one critical section of Manager.mu or            *)
(* RingBuffer.mu, one operation on a channel, or one write to the store.   *)
(* The store takes every exchange, and its 24h cleanup is left out.        *)
(***************************************************************************)
EXTENDS Integers, Sequences

CONSTANTS
  Tunnels,    \* HTTP tunnels, each with an ID of its own
  Exchanges,  \* requests that are captured, each by a goroutine of its own
  Streams,    \* event streams, each with a channel of its own
  Users,      \* accounts
  OwnerOf,    \* [Tunnels -> Users]
  None,       \* no exchange (nil), no user (0)
  Cap,        \* Manager.capacity
  ChanCap     \* capacity of a subscriber's channel (64)

ASSUME SizeAssumption == Cap \in Nat \ {0} /\ ChanCap \in Nat \ {0}
ASSUME OwnerAssumption == OwnerOf \in [Tunnels -> Users]
ASSUME NoneAssumption == None \notin Exchanges \cup Users \cup Tunnels

VARIABLES
  life,        \* how far the tunnel has come
  buffers,     \* Manager.buffers, the tunnels that have one
  userIDs,     \* Manager.userIDs
  unclosed,    \* buffers taken out of Manager.buffers and not closed yet
  stopped,     \* Manager.Close has been called
  ring,        \* the RingBuffer of a tunnel
  subscribers, \* RingBuffer.subscribers
  stream,      \* what an event stream does, and for which tunnel
  queue,       \* exchanges in the stream's channel
  closed,      \* streams whose channel is closed
  record,      \* what the goroutine of an exchange does
  saved        \* the store's rows: an exchange and its user_id

managerVars == <<life, buffers, userIDs, unclosed, stopped>>
ringVars == <<ring, subscribers>>
streamVars == <<stream, queue, closed>>
recordVars == <<record, saved>>
vars == <<managerVars, ringVars, streamVars, recordVars>>

Slots == 0 .. Cap - 1
Ring == [entries : [Slots -> Exchanges \cup {None}],
         writeIdx : Slots, count : 0 .. Cap, closed : BOOLEAN]
Stream == [at : {"idle", "found", "listening", "leaving", "done"}, tunnel : Tunnels \cup {None}]
Record == [at : {"idle", "serving", "storing", "sending", "owning", "saving", "done", "panicked"},
           tunnel : Tunnels \cup {None}, to : SUBSET Streams, user : Users \cup {None}]

EmptyRing == [entries |-> [i \in Slots |-> None], writeIdx |-> 0, count |-> 0, closed |-> FALSE]

Init ==
  /\ life = [t \in Tunnels |-> "none"]
  /\ buffers = {} /\ unclosed = {} /\ stopped = FALSE
  /\ userIDs = [t \in Tunnels |-> None]
  /\ ring = [t \in Tunnels |-> EmptyRing]
  /\ subscribers = [t \in Tunnels |-> {}]
  /\ stream = [s \in Streams |-> [at |-> "idle", tunnel |-> None]]
  /\ queue = [s \in Streams |-> <<>>]
  /\ closed = {}
  /\ record = [x \in Exchanges |-> [at |-> "idle", tunnel |-> None, to |-> {}, user |-> None]]
  /\ saved = {}

-----------------------------------------------------------------------------
(* Tunnels come and go.                                                    *)

\* GetOrCreate, called once for each tunnel.
GetOrCreate(t) ==
  /\ life[t] = "none"
  /\ life' = [life EXCEPT ![t] = "created"]
  /\ buffers' = buffers \cup {t}
  /\ UNCHANGED <<userIDs, unclosed, stopped, ringVars, streamVars, recordVars>>

\* The rest of GetOrCreateWithUser.
TrackUser(t) ==
  /\ life[t] = "created"
  /\ life' = [life EXCEPT ![t] = "tracked"]
  /\ userIDs' = [userIDs EXCEPT ![t] = OwnerOf[t]]
  /\ UNCHANGED <<buffers, unclosed, stopped, ringVars, streamVars, recordVars>>

\* Mutant: the tunnel is routed before its user is tracked.
OpenEarly(t) ==
  /\ life[t] \in {"created", "tracked"}
  /\ life' = [life EXCEPT ![t] = "open"]
  /\ UNCHANGED <<buffers, userIDs, unclosed, stopped, ringVars, streamVars, recordVars>>

\* createHTTPTunnel has routed the tunnel and recorded it.
OpenTunnel(t) ==
  /\ life[t] = "tracked"
  /\ life' = [life EXCEPT ![t] = "open"]
  /\ UNCHANGED <<buffers, userIDs, unclosed, stopped, ringVars, streamVars, recordVars>>

\* Remove, when the subdomain is taken or the tunnel is closed.
Remove(t) ==
  /\ life[t] \in {"tracked", "open"}
  /\ life' = [life EXCEPT ![t] = "removed"]
  /\ buffers' = buffers \ {t}
  /\ userIDs' = [userIDs EXCEPT ![t] = None]
  /\ unclosed' = unclosed \cup (buffers \cap {t})
  /\ UNCHANGED <<stopped, ringVars, streamVars, recordVars>>

\* Manager.Close, up to the loop over the buffers.
CloseManager ==
  /\ ~stopped
  /\ stopped' = TRUE
  /\ buffers' = {}
  /\ userIDs' = [t \in Tunnels |-> None]
  /\ unclosed' = unclosed \cup buffers
  /\ UNCHANGED <<life, ringVars, streamVars, recordVars>>

\* Mutant: the subscribers are left in the map.
CloseBufferOnly(t) ==
  /\ t \in unclosed
  /\ unclosed' = unclosed \ {t}
  /\ ring' = [ring EXCEPT ![t].closed = TRUE]
  /\ closed' = closed \cup subscribers[t]
  /\ UNCHANGED <<life, buffers, userIDs, stopped, subscribers, stream, queue, recordVars>>

\* RingBuffer.Close
CloseBuffer(t) ==
  /\ t \in unclosed
  /\ unclosed' = unclosed \ {t}
  /\ ring' = [ring EXCEPT ![t].closed = TRUE]
  /\ closed' = closed \cup subscribers[t]
  /\ subscribers' = [subscribers EXCEPT ![t] = {}]
  /\ UNCHANGED <<life, buffers, userIDs, stopped, stream, queue, recordVars>>

-----------------------------------------------------------------------------
(* An exchange is captured.                                                *)

\* ServeHTTP finds a buffer, or the replay of an exchange finds its tunnel.
Serve(x, t) ==
  /\ record[x].at = "idle"
  /\ life[t] = "open"
  /\ record' = [record EXCEPT ![x].at = "serving", ![x].tunnel = t]
  /\ UNCHANGED <<managerVars, ringVars, streamVars, saved>>

\* The error paths of ServeHTTP and handleReplayExchange: nothing is captured.
GiveUp(x) ==
  /\ record[x].at = "serving"
  /\ record' = [record EXCEPT ![x].at = "idle", ![x].tunnel = None]
  /\ UNCHANGED <<managerVars, ringVars, streamVars, saved>>

\* AddAndPersist looks the buffer up, again: it may be gone.
FindBuffer(x) ==
  /\ record[x].at = "serving"
  /\ record' = [record EXCEPT ![x].at = IF record[x].tunnel \in buffers THEN "storing" ELSE "owning"]
  /\ UNCHANGED <<managerVars, ringVars, streamVars, saved>>

\* Mutant: count grows beyond the capacity.
InsertUncounted(r, x) ==
  [r EXCEPT !.entries[r.writeIdx] = x, !.writeIdx = (@ + 1) % Cap, !.count = @ + 1]

insert(r, x) ==
  [r EXCEPT !.entries[r.writeIdx] = x,
            !.writeIdx = (@ + 1) % Cap,
            !.count = IF @ < Cap THEN @ + 1 ELSE @]

\* Add, under the lock: whether the buffer is closed does not matter.
Add(x) ==
  LET t == record[x].tunnel
  IN /\ record[x].at = "storing"
     /\ ring' = [ring EXCEPT ![t] = insert(@, x)]
     /\ record' = [record EXCEPT ![x].at = "sending", ![x].to = subscribers[t]]
     /\ UNCHANGED <<managerVars, subscribers, streamVars, saved>>

\* Add, after the lock, in any order: an exchange is dropped when the channel
\* is full, and to send on a closed channel panics.
Send(x, s) ==
  /\ record[x].at = "sending"
  /\ s \in record[x].to
  /\ \/ /\ s \in closed
        /\ record' = [record EXCEPT ![x].at = "panicked"]
        /\ UNCHANGED queue
     \/ /\ s \notin closed
        /\ record' = [record EXCEPT ![x].to = @ \ {s}]
        /\ queue' = [queue EXCEPT ![s] = IF Len(@) < ChanCap THEN Append(@, x) ELSE @]
  /\ UNCHANGED <<managerVars, ringVars, stream, closed, saved>>

Sent(x) ==
  /\ record[x].at = "sending"
  /\ record[x].to = {}
  /\ record' = [record EXCEPT ![x].at = "owning"]
  /\ UNCHANGED <<managerVars, ringVars, streamVars, saved>>

\* AddAndPersist looks the user up.
FindUser(x) ==
  /\ record[x].at = "owning"
  /\ record' = [record EXCEPT ![x].at = "saving", ![x].user = userIDs[record[x].tunnel]]
  /\ UNCHANGED <<managerVars, ringVars, streamVars, saved>>

Save(x) ==
  /\ record[x].at = "saving"
  /\ saved' = saved \cup {<<x, record[x].user>>}
  /\ record' = [record EXCEPT ![x].at = "done"]
  /\ UNCHANGED <<managerVars, ringVars, streamVars>>

\* Mutant: one entry too new.
ListShifted(r, offset, limit) ==
  IF offset >= r.count THEN <<>>
  ELSE [i \in 1 .. (IF limit > r.count - offset THEN r.count - offset ELSE limit) |->
          r.entries[(r.writeIdx - offset - i + 1 + Cap * 2) % Cap]]

\* RingBuffer.List: one page, the newest exchange first.
List(r, offset, limit) ==
  IF offset >= r.count THEN <<>>
  ELSE [i \in 1 .. (IF limit > r.count - offset THEN r.count - offset ELSE limit) |->
          r.entries[(r.writeIdx - offset - i + Cap * 2) % Cap]]

\* Clear of a buffer that was looked up while its tunnel was open.
Clear(t) ==
  /\ life[t] \in {"open", "removed"}
  /\ ring' = [ring EXCEPT ![t] = [EmptyRing EXCEPT !.closed = ring[t].closed]]
  /\ UNCHANGED <<managerVars, subscribers, streamVars, recordVars>>

-----------------------------------------------------------------------------
(* An event stream: handleInspectStream.                                   *)

Connect(s, t) ==
  /\ stream[s].at = "idle"
  /\ life[t] = "open" /\ t \in buffers
  /\ stream' = [stream EXCEPT ![s] = [at |-> "found", tunnel |-> t]]
  /\ UNCHANGED <<managerVars, ringVars, queue, closed, recordVars>>

\* Mutant: does not ask whether the buffer is closed.
SubscribeAnyway(s) ==
  LET t == stream[s].tunnel
  IN /\ stream[s].at = "found"
     /\ stream' = [stream EXCEPT ![s].at = "listening"]
     /\ subscribers' = [subscribers EXCEPT ![t] = @ \cup {s}]
     /\ UNCHANGED <<managerVars, ring, queue, closed, recordVars>>

\* Subscribe; a closed buffer returns a closed channel.
Subscribe(s) ==
  LET t == stream[s].tunnel
  IN /\ stream[s].at = "found"
     /\ stream' = [stream EXCEPT ![s].at = "listening"]
     /\ \/ /\ ring[t].closed
           /\ closed' = closed \cup {s}
           /\ UNCHANGED subscribers
        \/ /\ ~ring[t].closed
           /\ subscribers' = [subscribers EXCEPT ![t] = @ \cup {s}]
           /\ UNCHANGED closed
     /\ UNCHANGED <<managerVars, ring, queue, recordVars>>

\* The next exchange, or the end of a closed channel.
Receive(s) ==
  /\ stream[s].at = "listening"
  /\ \/ /\ queue[s] # <<>>
        /\ queue' = [queue EXCEPT ![s] = Tail(@)]
        /\ UNCHANGED stream
     \/ /\ queue[s] = <<>>
        /\ s \in closed
        /\ stream' = [stream EXCEPT ![s].at = "leaving"]
        /\ UNCHANGED queue
  /\ UNCHANGED <<managerVars, ringVars, closed, recordVars>>

\* r.Context().Done(): the browser has gone.
Disconnect(s) ==
  /\ stream[s].at = "listening"
  /\ stream' = [stream EXCEPT ![s].at = "leaving"]
  /\ UNCHANGED <<managerVars, ringVars, queue, closed, recordVars>>

\* The deferred Unsubscribe.
Unsubscribe(s) ==
  /\ stream[s].at = "leaving"
  /\ stream' = [stream EXCEPT ![s].at = "done"]
  /\ subscribers' = [subscribers EXCEPT ![stream[s].tunnel] = @ \ {s}]
  /\ UNCHANGED <<managerVars, ring, queue, closed, recordVars>>

-----------------------------------------------------------------------------
Tunnel(t) == GetOrCreate(t) \/ TrackUser(t) \/ OpenTunnel(t) \/ Remove(t)

RecordStep(x) ==
  \/ FindBuffer(x) \/ Add(x) \/ Sent(x) \/ FindUser(x) \/ Save(x)
  \/ \E s \in Streams : Send(x, s)

StreamStep(s) == Subscribe(s) \/ Receive(s) \/ Unsubscribe(s)

Next ==
  \/ \E t \in Tunnels : Tunnel(t) \/ CloseBuffer(t) \/ Clear(t)
  \/ CloseManager
  \/ \E x \in Exchanges : RecordStep(x) \/ GiveUp(x) \/ \E t \in Tunnels : Serve(x, t)
  \/ \E s \in Streams : StreamStep(s) \/ Disconnect(s) \/ \E t \in Tunnels : Connect(s, t)

Spec == Init /\ [][Next]_vars

\* Who takes a buffer out of the manager goes on to close it, a goroutine that
\* captures an exchange goes on, and a stream whose browser reads goes on.
\* Nobody has to open or close tunnels, send requests or connect.
Fairness ==
  /\ \A t \in Tunnels : WF_vars(CloseBuffer(t))
  /\ \A x \in Exchanges : WF_vars(RecordStep(x))
  /\ \A s \in Streams : WF_vars(StreamStep(s))

FairSpec == Spec /\ Fairness

-----------------------------------------------------------------------------
(* Properties.                                                             *)

TypeOK ==
  /\ life \in [Tunnels -> {"none", "created", "tracked", "open", "removed"}]
  /\ buffers \subseteq Tunnels
  /\ userIDs \in [Tunnels -> Users \cup {None}]
  /\ unclosed \subseteq Tunnels
  /\ stopped \in BOOLEAN
  /\ ring \in [Tunnels -> Ring]
  /\ subscribers \in [Tunnels -> SUBSET Streams]
  /\ stream \in [Streams -> Stream]
  /\ queue \in [Streams -> Seq(Exchanges)]
  /\ closed \subseteq Streams
  /\ record \in [Exchanges -> Record]
  /\ saved \subseteq Exchanges \X (Users \cup {None})

\* A channel among the subscribers of a buffer is open and belongs to a stream
\* that is going to unsubscribe it; so no channel is closed twice, and none is
\* forgotten in a buffer that is closed (Subscribe, Unsubscribe, Close).
SubscribersOpen ==
  \A t \in Tunnels : \A s \in subscribers[t] :
    /\ stream[s].tunnel = t /\ stream[s].at \in {"listening", "leaving"}
    /\ s \notin closed
    /\ ~ring[t].closed

\* An exchange is saved for the owner of its tunnel, or without one when the
\* tunnel had gone before its request was answered (GetOrCreateWithUser,
\* AddAndPersist, Remove).
OwnerUnlessRemoved ==
  \A row \in saved :
    LET t == record[row[1]].tunnel
    IN row[2] # OwnerOf[t] => row[2] = None /\ (life[t] = "removed" \/ stopped)

\* What List returns is the log of the tunnel, in which no exchange is lost
\* before Cap newer ones have come.
Log == INSTANCE ExchangeLog WITH log <- [t \in Tunnels |-> List(ring[t], 0, Cap)]
LogSpec == Log!Spec

\* A stream ends when its buffer has gone, also when the stream subscribes
\* only after that (Subscribe's test for a closed buffer).
StreamsEnd ==
  \A s \in Streams, t \in Tunnels :
    (stream[s].at \in {"found", "listening"} /\ stream[s].tunnel = t /\ t \notin buffers)
      ~> stream[s].at = "done"
=============================================================================

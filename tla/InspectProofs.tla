--------------------------- MODULE InspectProofs ---------------------------
(***************************************************************************)
(* Proofs about Inspect, for any number of tunnels, exchanges and streams, *)
(* and any capacities.                                                     *)
(***************************************************************************)
EXTENDS Inspect, SequenceTheorems, TLAPS

\* A step is one of these; the actions of a tunnel, an exchange and a stream.
LEMMA Steps ==
  ASSUME [Next]_vars
  PROVE  \/ \E t \in Tunnels : \/ GetOrCreate(t) \/ TrackUser(t) \/ OpenTunnel(t) \/ Remove(t)
                               \/ CloseBuffer(t) \/ Clear(t)
         \/ CloseManager
         \/ \E x \in Exchanges : \/ GiveUp(x) \/ FindBuffer(x) \/ Add(x) \/ Sent(x) \/ FindUser(x) \/ Save(x)
                                 \/ \E t \in Tunnels : Serve(x, t)
                                 \/ \E s \in Streams : Send(x, s)
         \/ \E s \in Streams : \/ Subscribe(s) \/ Receive(s) \/ Unsubscribe(s) \/ Disconnect(s)
                               \/ \E t \in Tunnels : Connect(s, t)
         \/ UNCHANGED vars
  BY DEF Next, Tunnel, RecordStep, StreamStep

-----------------------------------------------------------------------------
(* Types. A stream and an exchange have a tunnel from their first step on. *)

StreamTunnels == \A s \in Streams : stream[s].at # "idle" => stream[s].tunnel \in Tunnels
RecordTunnels == \A x \in Exchanges : record[x].at # "idle" => record[x].tunnel \in Tunnels

TypeInv == TypeOK /\ StreamTunnels /\ RecordTunnels

LEMMA TypeInit == Init => TypeInv
<1> SUFFICES ASSUME Init PROVE TypeInv
  OBVIOUS
<1>1. EmptyRing \in Ring
  BY SizeAssumption DEF EmptyRing, Ring, Slots
<1>2. TypeOK
  <2>1. stream \in [Streams -> Stream] /\ record \in [Exchanges -> Record]
    BY DEF Init, Stream, Record
  <2>2. ring \in [Tunnels -> Ring] /\ queue \in [Streams -> Seq(Exchanges)]
    BY <1>1 DEF Init
  <2>3. QED
    BY <2>1, <2>2 DEF Init, TypeOK
<1>3. StreamTunnels /\ RecordTunnels
  BY DEF Init, StreamTunnels, RecordTunnels
<1>4. QED
  BY <1>2, <1>3 DEF TypeInv

\* insert keeps to the type of a ring.
LEMMA InsertType ==
  ASSUME NEW r \in Ring, NEW x \in Exchanges
  PROVE  insert(r, x) \in Ring
<1>1. (r.writeIdx + 1) % Cap \in Slots
  BY SizeAssumption DEF Ring, Slots
<1>2. (IF r.count < Cap THEN r.count + 1 ELSE r.count) \in 0 .. Cap
  BY SizeAssumption DEF Ring
<1>3. QED
  BY <1>1, <1>2 DEF insert, Ring

StreamAt == {"idle", "found", "listening", "leaving", "done"}
RecordAt == {"idle", "serving", "storing", "sending", "owning", "saving", "done", "panicked"}

StreamGoesTo(s, a) == stream' = [stream EXCEPT ![s].at = a]
RecordGoesTo(x, a) == record' = [record EXCEPT ![x].at = a]

\* A goroutine goes on, for the same tunnel.
LEMMA StreamGoesOn ==
  ASSUME TypeInv, NEW s \in Streams, NEW a \in StreamAt,
         StreamGoesTo(s, a), stream[s].at # "idle"
  PROVE  stream' \in [Streams -> Stream] /\ StreamTunnels'
<1>1. stream \in [Streams -> Stream]
  BY DEF TypeInv, TypeOK
<1>2. \A r \in Streams : stream[r].at # "idle" => stream[r].tunnel \in Tunnels
  BY DEF TypeInv, StreamTunnels
<1>3. [stream[s] EXCEPT !.at = a] \in Stream
  BY <1>1 DEF Stream, StreamAt
<1>4. /\ stream' = [stream EXCEPT ![s] = [stream[s] EXCEPT !.at = a]]
      /\ [stream[s] EXCEPT !.at = a].tunnel = stream[s].tunnel
  BY <1>1 DEF Stream, StreamGoesTo
<1>5. stream' \in [Streams -> Stream]
  BY <1>1, <1>3, <1>4
<1>6. \A r \in Streams : /\ stream'[r].tunnel = stream[r].tunnel
                         /\ r # s => stream'[r] = stream[r]
  BY <1>1, <1>4
<1>7. QED
  BY <1>2, <1>5, <1>6 DEF StreamTunnels

LEMMA RecordGoesOn ==
  ASSUME TypeInv, NEW x \in Exchanges, NEW a \in RecordAt,
         RecordGoesTo(x, a), record[x].at # "idle"
  PROVE  record' \in [Exchanges -> Record] /\ RecordTunnels'
<1>1. record \in [Exchanges -> Record]
  BY DEF TypeInv, TypeOK
<1>2. \A y \in Exchanges : record[y].at # "idle" => record[y].tunnel \in Tunnels
  BY DEF TypeInv, RecordTunnels
<1>3. [record[x] EXCEPT !.at = a] \in Record
  BY <1>1 DEF Record, RecordAt
<1>4. /\ record' = [record EXCEPT ![x] = [record[x] EXCEPT !.at = a]]
      /\ [record[x] EXCEPT !.at = a].tunnel = record[x].tunnel
  BY <1>1 DEF Record, RecordGoesTo
<1>5. record' \in [Exchanges -> Record]
  BY <1>1, <1>3, <1>4
<1>6. \A y \in Exchanges : /\ record'[y].tunnel = record[y].tunnel
                           /\ y # x => record'[y] = record[y]
  BY <1>1, <1>4
<1>7. QED
  BY <1>2, <1>5, <1>6 DEF RecordTunnels

LEMMA TypeStep == TypeInv /\ [Next]_vars => TypeInv'
<1> SUFFICES ASSUME TypeInv, [Next]_vars PROVE TypeInv'
  OBVIOUS
<1> USE DEF managerVars, ringVars, streamVars, recordVars
<1>1. ASSUME NEW t \in Tunnels, GetOrCreate(t) PROVE TypeInv'
  BY <1>1 DEF GetOrCreate, TypeInv, TypeOK, StreamTunnels, RecordTunnels
<1>2. ASSUME NEW t \in Tunnels, TrackUser(t) PROVE TypeInv'
  BY <1>2, OwnerAssumption DEF TrackUser, TypeInv, TypeOK, StreamTunnels, RecordTunnels
<1>3. ASSUME NEW t \in Tunnels, OpenTunnel(t) PROVE TypeInv'
  BY <1>3 DEF OpenTunnel, TypeInv, TypeOK, StreamTunnels, RecordTunnels
<1>4. ASSUME NEW t \in Tunnels, Remove(t) PROVE TypeInv'
  BY <1>4 DEF Remove, TypeInv, TypeOK, StreamTunnels, RecordTunnels
<1>5. ASSUME NEW t \in Tunnels, CloseBuffer(t) PROVE TypeInv'
  BY <1>5 DEF CloseBuffer, Ring, TypeInv, TypeOK, StreamTunnels, RecordTunnels
<1>6. ASSUME NEW t \in Tunnels, Clear(t) PROVE TypeInv'
  <2>1. EmptyRing \in Ring /\ ring[t] \in Ring
    BY SizeAssumption DEF EmptyRing, Ring, Slots, TypeInv, TypeOK, StreamTunnels, RecordTunnels
  <2>2. [EmptyRing EXCEPT !.closed = ring[t].closed] \in Ring
    BY <2>1 DEF Ring, TypeInv, TypeOK, StreamTunnels, RecordTunnels
  <2>3. QED
    BY <1>6, <2>2 DEF Clear, TypeInv, TypeOK, StreamTunnels, RecordTunnels
<1>7. CASE CloseManager
  BY <1>7 DEF CloseManager, TypeInv, TypeOK, StreamTunnels, RecordTunnels
<1>8. ASSUME NEW x \in Exchanges, NEW t \in Tunnels, Serve(x, t) PROVE TypeInv'
  <2>1. record' \in [Exchanges -> Record] /\ record'[x].tunnel = t
    <3>1. record \in [Exchanges -> Record]
      BY DEF TypeInv, TypeOK
    <3>2. [record[x] EXCEPT !.at = "serving", !.tunnel = t] \in Record
      BY <3>1 DEF Record
    <3>3. /\ record' = [record EXCEPT ![x] = [record[x] EXCEPT !.at = "serving", !.tunnel = t]]
          /\ [record[x] EXCEPT !.at = "serving", !.tunnel = t].tunnel = t
      BY <1>8, <3>1 DEF Serve, Record
    <3>4. QED
      BY <3>1, <3>2, <3>3
  <2>2. \A y \in Exchanges : y # x => record'[y] = record[y]
    BY <1>8 DEF Serve, TypeInv, TypeOK, StreamTunnels, RecordTunnels
  <2>3. QED
    BY <1>8, <2>1, <2>2 DEF Serve, TypeInv, TypeOK, StreamTunnels, RecordTunnels
<1>9. ASSUME NEW x \in Exchanges, GiveUp(x) PROVE TypeInv'
  <2>1. record' \in [Exchanges -> Record] /\ record'[x].at = "idle"
    <3>1. record \in [Exchanges -> Record]
      BY DEF TypeInv, TypeOK
    <3>2. [record[x] EXCEPT !.at = "idle", !.tunnel = None] \in Record
      BY <3>1 DEF Record
    <3>3. /\ record' = [record EXCEPT ![x] = [record[x] EXCEPT !.at = "idle", !.tunnel = None]]
          /\ [record[x] EXCEPT !.at = "idle", !.tunnel = None].at = "idle"
      BY <1>9, <3>1 DEF GiveUp, Record
    <3>4. QED
      BY <3>1, <3>2, <3>3
  <2>2. \A y \in Exchanges : y # x => record'[y] = record[y]
    BY <1>9 DEF GiveUp, TypeInv, TypeOK, StreamTunnels, RecordTunnels
  <2>3. QED
    BY <1>9, <2>1, <2>2 DEF GiveUp, TypeInv, TypeOK, StreamTunnels, RecordTunnels
<1>10. ASSUME NEW x \in Exchanges, FindBuffer(x) PROVE TypeInv'
  <2>1. RecordGoesTo(x, "storing") \/ RecordGoesTo(x, "owning")
    BY <1>10 DEF FindBuffer, RecordGoesTo
  <2>2. "storing" \in RecordAt /\ "owning" \in RecordAt /\ record[x].at # "idle"
    BY <1>10 DEF FindBuffer, RecordAt
  <2>3. record' \in [Exchanges -> Record] /\ RecordTunnels'
    BY <2>1, <2>2, RecordGoesOn
  <2>4. QED
    BY <1>10, <2>3 DEF FindBuffer, TypeInv, TypeOK, StreamTunnels
<1>11. ASSUME NEW x \in Exchanges, Add(x) PROVE TypeInv'
  <2>1. record[x].tunnel \in Tunnels
    BY <1>11 DEF Add, TypeInv, TypeOK, StreamTunnels, RecordTunnels
  <2>2. insert(ring[record[x].tunnel], x) \in Ring
    BY <2>1, InsertType DEF TypeInv, TypeOK, StreamTunnels, RecordTunnels
  <2>3. QED
    BY <1>11, <2>1, <2>2 DEF Add, Record, TypeInv, TypeOK, StreamTunnels, RecordTunnels
<1>12. ASSUME NEW x \in Exchanges, NEW s \in Streams, Send(x, s) PROVE TypeInv'
  <2>1. UNCHANGED <<managerVars, ringVars, stream, closed, saved>> /\ record[x].at = "sending"
    BY <1>12 DEF Send, TypeInv, TypeOK, StreamTunnels, RecordTunnels
  <2>2. CASE RecordGoesTo(x, "panicked") /\ UNCHANGED queue
    <3>1. "panicked" \in RecordAt /\ record[x].at # "idle"
      BY <2>1 DEF RecordAt, TypeInv, TypeOK, StreamTunnels, RecordTunnels
    <3>2. record' \in [Exchanges -> Record] /\ RecordTunnels'
      BY <2>1, <2>2, <3>1, RecordGoesOn
    <3>3. QED
      BY <2>1, <2>2, <3>2 DEF TypeInv, TypeOK, StreamTunnels, RecordTunnels
  <2>3. CASE /\ record' = [record EXCEPT ![x].to = @ \ {s}]
             /\ queue' = [queue EXCEPT ![s] = IF Len(@) < ChanCap THEN Append(@, x) ELSE @]
    <3>1. record' \in [Exchanges -> Record]
      <4>1. [record[x] EXCEPT !.to = @ \ {s}] \in Record
        BY DEF Record, TypeInv, TypeOK
      <4>2. record' = [record EXCEPT ![x] = [record[x] EXCEPT !.to = @ \ {s}]]
        BY <2>3
      <4>3. QED
        BY <4>1, <4>2 DEF TypeInv, TypeOK
    <3>2. \A y \in Exchanges : record'[y].tunnel = record[y].tunnel /\ record'[y].at = record[y].at
      BY <2>3 DEF Record, TypeInv, TypeOK, StreamTunnels, RecordTunnels
    <3>3. Append(queue[s], x) \in Seq(Exchanges)
      BY DEF TypeInv, TypeOK, StreamTunnels, RecordTunnels
    <3>4. queue' \in [Streams -> Seq(Exchanges)]
      BY <2>3, <3>3 DEF TypeInv, TypeOK, StreamTunnels, RecordTunnels
    <3>5. QED
      BY <2>1, <3>1, <3>2, <3>4 DEF TypeInv, TypeOK, StreamTunnels, RecordTunnels
  <2>4. QED
    BY <1>12, <2>2, <2>3 DEF Send, TypeInv, TypeOK, StreamTunnels, RecordTunnels, RecordGoesTo
<1>13. ASSUME NEW x \in Exchanges, Sent(x) PROVE TypeInv'
  <2>1. /\ RecordGoesTo(x, "owning")
        /\ "owning" \in RecordAt /\ record[x].at # "idle"
    BY <1>13 DEF Sent, RecordAt, TypeInv, TypeOK, StreamTunnels, RecordTunnels, RecordGoesTo
  <2>2. record' \in [Exchanges -> Record] /\ RecordTunnels'
    BY <1>13, <2>1, RecordGoesOn
  <2>3. QED
    BY <1>13, <2>2 DEF Sent, TypeInv, TypeOK, StreamTunnels, RecordTunnels
<1>14. ASSUME NEW x \in Exchanges, FindUser(x) PROVE TypeInv'
  BY <1>14 DEF FindUser, Record, TypeInv, TypeOK, StreamTunnels, RecordTunnels
<1>15. ASSUME NEW x \in Exchanges, Save(x) PROVE TypeInv'
  <2>1. /\ RecordGoesTo(x, "done")
        /\ "done" \in RecordAt /\ record[x].at # "idle"
    BY <1>15 DEF Save, RecordAt, TypeInv, TypeOK, StreamTunnels, RecordTunnels, RecordGoesTo
  <2>2. record' \in [Exchanges -> Record] /\ RecordTunnels'
    BY <1>15, <2>1, RecordGoesOn
  <2>3. record[x].user \in Users \cup {None}
    BY DEF Record, TypeInv, TypeOK, StreamTunnels, RecordTunnels
  <2>4. QED
    BY <1>15, <2>2, <2>3 DEF Save, TypeInv, TypeOK, StreamTunnels, RecordTunnels
<1>16. ASSUME NEW s \in Streams, NEW t \in Tunnels, Connect(s, t) PROVE TypeInv'
  BY <1>16 DEF Connect, Stream, TypeInv, TypeOK, StreamTunnels, RecordTunnels
<1>17. ASSUME NEW s \in Streams, Subscribe(s) PROVE TypeInv'
  <2>1. closed' \subseteq Streams /\ subscribers' \in [Tunnels -> SUBSET Streams]
    <3>1. stream[s].tunnel \in Tunnels
      BY <1>17 DEF Subscribe, TypeInv, TypeOK, StreamTunnels, RecordTunnels
    <3>2. closed' = closed \/ closed' = closed \cup {s}
      BY <1>17 DEF Subscribe, TypeInv, TypeOK, StreamTunnels, RecordTunnels
    <3>3. \/ subscribers' = subscribers
          \/ subscribers' = [subscribers EXCEPT ![stream[s].tunnel] = @ \cup {s}]
      BY <1>17 DEF Subscribe, TypeInv, TypeOK, StreamTunnels, RecordTunnels
    <3>4. QED
      BY <3>1, <3>2, <3>3 DEF TypeInv, TypeOK, StreamTunnels, RecordTunnels
  <2>2. StreamGoesTo(s, "listening") /\ stream[s].at = "found"
    BY <1>17 DEF Subscribe, TypeInv, TypeOK, StreamTunnels, RecordTunnels, StreamGoesTo
  <2>3. UNCHANGED <<managerVars, ring, queue, recordVars>>
    BY <1>17 DEF Subscribe, TypeInv, TypeOK, StreamTunnels, RecordTunnels
  <2>4. "listening" \in StreamAt /\ stream[s].at # "idle"
    BY <2>2 DEF StreamAt, TypeInv, TypeOK, StreamTunnels, RecordTunnels
  <2>5. stream' \in [Streams -> Stream] /\ StreamTunnels'
    BY <2>2, <2>3, <2>4, StreamGoesOn
  <2>6. QED
    BY <2>1, <2>3, <2>5 DEF TypeInv, TypeOK, StreamTunnels, RecordTunnels
<1>18. ASSUME NEW s \in Streams, Receive(s) PROVE TypeInv'
  <2>1. UNCHANGED <<managerVars, ringVars, closed, recordVars>> /\ stream[s].at = "listening"
    BY <1>18 DEF Receive, TypeInv, TypeOK, StreamTunnels, RecordTunnels
  <2>2. CASE queue[s] # <<>> /\ queue' = [queue EXCEPT ![s] = Tail(@)] /\ UNCHANGED stream
    <3>1. Tail(queue[s]) \in Seq(Exchanges)
      BY <2>2 DEF TypeInv, TypeOK, StreamTunnels, RecordTunnels
    <3>2. QED
      BY <2>1, <2>2, <3>1 DEF TypeInv, TypeOK, StreamTunnels, RecordTunnels
  <2>3. CASE StreamGoesTo(s, "leaving") /\ UNCHANGED queue
    <3>1. "leaving" \in StreamAt /\ stream[s].at # "idle"
      BY <2>1 DEF StreamAt, TypeInv, TypeOK, StreamTunnels, RecordTunnels
    <3>2. stream' \in [Streams -> Stream] /\ StreamTunnels'
      BY <2>1, <2>3, <3>1, StreamGoesOn
    <3>3. QED
      BY <2>1, <2>3, <3>2 DEF TypeInv, TypeOK, StreamTunnels, RecordTunnels
  <2>4. QED
    BY <1>18, <2>2, <2>3 DEF Receive, TypeInv, TypeOK, StreamTunnels, RecordTunnels, StreamGoesTo
<1>19. ASSUME NEW s \in Streams, Disconnect(s) PROVE TypeInv'
  <2>1. /\ StreamGoesTo(s, "leaving")
        /\ "leaving" \in StreamAt /\ stream[s].at # "idle"
    BY <1>19 DEF Disconnect, StreamAt, TypeInv, TypeOK, StreamTunnels, RecordTunnels, StreamGoesTo
  <2>2. stream' \in [Streams -> Stream] /\ StreamTunnels'
    BY <1>19, <2>1, StreamGoesOn
  <2>3. QED
    BY <1>19, <2>2 DEF Disconnect, TypeInv, TypeOK, StreamTunnels, RecordTunnels
<1>20. ASSUME NEW s \in Streams, Unsubscribe(s) PROVE TypeInv'
  <2>1. /\ StreamGoesTo(s, "done")
        /\ "done" \in StreamAt /\ stream[s].at # "idle"
    BY <1>20 DEF Unsubscribe, StreamAt, TypeInv, TypeOK, StreamTunnels, RecordTunnels, StreamGoesTo
  <2>2. stream' \in [Streams -> Stream] /\ StreamTunnels'
    BY <1>20, <2>1, StreamGoesOn
  <2>3. stream[s].tunnel \in Tunnels
    BY <2>1 DEF TypeInv, TypeOK, StreamTunnels, RecordTunnels
  <2>4. QED
    BY <1>20, <2>2, <2>3 DEF Unsubscribe, TypeInv, TypeOK, StreamTunnels, RecordTunnels
<1>21. CASE UNCHANGED vars
  BY <1>21 DEF vars, TypeInv, TypeOK, StreamTunnels, RecordTunnels
<1>22. QED
  BY Steps, <1>1, <1>2, <1>3, <1>4, <1>5, <1>6, <1>7, <1>8, <1>9, <1>10, <1>11, <1>12, <1>13,
     <1>14, <1>15, <1>16, <1>17, <1>18, <1>19, <1>20, <1>21

\* Every variable of the inspector keeps to its type; in particular the indexes
\* of the ring buffer stay inside it (RingBuffer.Add).
THEOREM InspectTypes == Spec => []TypeOK
<1>1. Spec => []TypeInv
  BY TypeInit, TypeStep, PTL DEF Spec
<1>2. TypeInv => TypeOK
  BY DEF TypeInv
<1>3. QED
  BY <1>1, <1>2, PTL

-----------------------------------------------------------------------------
(* Channels. A stream that has not subscribed yet has no closed channel.   *)

SubscriberInv == SubscribersOpen /\ \A s \in closed : stream[s].at \notin {"idle", "found"}

LEMMA SubscriberInit == Init => SubscriberInv
BY DEF Init, SubscriberInv, SubscribersOpen

LEMMA SubscriberStep == TypeInv /\ SubscriberInv /\ [Next]_vars => SubscriberInv'
<1> SUFFICES ASSUME TypeInv, SubscriberInv, [Next]_vars PROVE SubscriberInv'
  OBVIOUS
<1>1. /\ stream \in [Streams -> Stream] /\ closed \subseteq Streams
      /\ subscribers \in [Tunnels -> SUBSET Streams] /\ ring \in [Tunnels -> Ring]
  BY DEF TypeInv, TypeOK
<1>2. CASE UNCHANGED <<ringVars, stream, closed>>
  BY <1>2 DEF SubscriberInv, SubscribersOpen, ringVars
<1>3. ASSUME NEW t \in Tunnels, CloseBuffer(t) PROVE SubscriberInv'
  <2>1. /\ ring' = [ring EXCEPT ![t].closed = TRUE] /\ stream' = stream
        /\ closed' = closed \cup subscribers[t]
        /\ subscribers' = [subscribers EXCEPT ![t] = {}]
    BY <1>3 DEF CloseBuffer
  <2>2. ASSUME NEW u \in Tunnels, NEW s \in subscribers'[u]
        PROVE  u # t /\ s \in subscribers[u] /\ ring'[u] = ring[u]
    BY <1>1, <2>1
  <2>3. ASSUME NEW u \in Tunnels, NEW s \in subscribers'[u]
        PROVE  s \notin subscribers[t]
    BY <2>2, <2>3 DEF SubscriberInv, SubscribersOpen
  <2>4. SubscribersOpen'
    BY <2>1, <2>2, <2>3 DEF SubscriberInv, SubscribersOpen
  <2>5. \A s \in subscribers[t] : stream[s].at \notin {"idle", "found"}
    BY DEF SubscriberInv, SubscribersOpen
  <2>6. QED
    BY <2>1, <2>4, <2>5 DEF SubscriberInv
<1>4. ASSUME NEW t \in Tunnels, Clear(t) PROVE SubscriberInv'
  <2>1. /\ ring' = [ring EXCEPT ![t] = [EmptyRing EXCEPT !.closed = ring[t].closed]]
        /\ UNCHANGED <<subscribers, stream, closed>>
    BY <1>4 DEF Clear, streamVars
  <2>2. [EmptyRing EXCEPT !.closed = ring[t].closed].closed = ring[t].closed
    BY DEF EmptyRing
  <2>3. \A u \in Tunnels : ring'[u].closed = ring[u].closed
    BY <1>1, <2>1, <2>2
  <2>4. QED
    BY <2>1, <2>3 DEF SubscriberInv, SubscribersOpen
<1>5. ASSUME NEW x \in Exchanges, Add(x) PROVE SubscriberInv'
  <2>1. /\ ring' = [ring EXCEPT ![record[x].tunnel] = insert(@, x)]
        /\ UNCHANGED <<subscribers, stream, closed>>
    BY <1>5 DEF Add, streamVars
  <2>2. \A r \in Ring : insert(r, x).closed = r.closed
    BY DEF insert, Ring
  <2>3. \A u \in Tunnels : ring'[u].closed = ring[u].closed
    BY <1>1, <2>1, <2>2
  <2>4. QED
    BY <2>1, <2>3 DEF SubscriberInv, SubscribersOpen
<1>6. ASSUME NEW s \in Streams, NEW t \in Tunnels, Connect(s, t) PROVE SubscriberInv'
  <2>1. /\ stream[s].at = "idle" /\ UNCHANGED <<ring, subscribers, closed>>
        /\ \A r \in Streams : r # s => stream'[r] = stream[r]
    BY <1>1, <1>6 DEF Connect, ringVars
  <2>2. s \notin closed /\ \A u \in Tunnels : s \notin subscribers[u]
    BY <2>1 DEF SubscriberInv, SubscribersOpen
  <2>3. QED
    BY <1>1, <2>1, <2>2 DEF SubscriberInv, SubscribersOpen
<1>7. ASSUME NEW s \in Streams, Subscribe(s) PROVE SubscriberInv'
  <2>1. /\ stream[s].at = "found" /\ UNCHANGED ring
        /\ stream'[s].at = "listening" /\ stream'[s].tunnel = stream[s].tunnel
        /\ \A r \in Streams : r # s => stream'[r] = stream[r]
    <3>1. stream' = [stream EXCEPT ![s] = [stream[s] EXCEPT !.at = "listening"]]
      BY <1>7 DEF Subscribe
    <3>2. /\ [stream[s] EXCEPT !.at = "listening"].at = "listening"
          /\ [stream[s] EXCEPT !.at = "listening"].tunnel = stream[s].tunnel
      BY <1>1 DEF Stream
    <3>3. QED
      BY <1>1, <1>7, <3>1, <3>2 DEF Subscribe
  <2>2. s \notin closed /\ \A u \in Tunnels : s \notin subscribers[u]
    BY <2>1 DEF SubscriberInv, SubscribersOpen
  <2>3. CASE closed' = closed \cup {s} /\ UNCHANGED subscribers
    BY <1>1, <2>1, <2>2, <2>3 DEF SubscriberInv, SubscribersOpen
  <2>4. CASE /\ ~ring[stream[s].tunnel].closed /\ UNCHANGED closed
             /\ subscribers' = [subscribers EXCEPT ![stream[s].tunnel] = @ \cup {s}]
    <3>1. stream[s].tunnel \in Tunnels
      BY <2>1 DEF TypeInv, StreamTunnels
    <3>2. \A u \in Tunnels : \A r \in subscribers'[u] :
             \/ r \in subscribers[u] /\ r # s
             \/ r = s /\ u = stream[s].tunnel
      BY <1>1, <2>2, <2>4, <3>1
    <3>3. QED
      BY <1>1, <2>1, <2>2, <2>4, <3>2 DEF SubscriberInv, SubscribersOpen
  <2>5. QED
    BY <1>7, <2>3, <2>4 DEF Subscribe
<1>8. ASSUME NEW s \in Streams, UNCHANGED <<ringVars, closed>>,
             StreamGoesTo(s, "leaving"), stream[s].at = "listening"
      PROVE  SubscriberInv'
  <2>1. stream' = [stream EXCEPT ![s] = [stream[s] EXCEPT !.at = "leaving"]]
    BY <1>8 DEF StreamGoesTo
  <2>2. /\ [stream[s] EXCEPT !.at = "leaving"].at = "leaving"
        /\ [stream[s] EXCEPT !.at = "leaving"].tunnel = stream[s].tunnel
    BY <1>1 DEF Stream
  <2>3. /\ stream'[s].at = "leaving" /\ stream'[s].tunnel = stream[s].tunnel
        /\ \A r \in Streams : r # s => stream'[r] = stream[r]
    BY <1>1, <2>1, <2>2
  <2>4. QED
    BY <1>1, <1>8, <2>3 DEF SubscriberInv, SubscribersOpen, ringVars
<1>9. ASSUME NEW s \in Streams, Receive(s) PROVE SubscriberInv'
  BY <1>2, <1>8, <1>9 DEF Receive, StreamGoesTo
<1>10. ASSUME NEW s \in Streams, Disconnect(s) PROVE SubscriberInv'
  BY <1>8, <1>10 DEF Disconnect, StreamGoesTo
<1>11. ASSUME NEW s \in Streams, Unsubscribe(s) PROVE SubscriberInv'
  <2>1. stream' = [stream EXCEPT ![s] = [stream[s] EXCEPT !.at = "done"]]
    BY <1>11 DEF Unsubscribe
  <2>2. [stream[s] EXCEPT !.at = "done"].at = "done"
    BY <1>1 DEF Stream
  <2>3. /\ stream'[s].at = "done" /\ \A r \in Streams : r # s => stream'[r] = stream[r]
    BY <1>1, <2>1, <2>2
  <2>4. /\ stream[s].at = "leaving" /\ UNCHANGED <<ring, closed>>
        /\ subscribers' = [subscribers EXCEPT ![stream[s].tunnel] = @ \ {s}]
    BY <1>11 DEF Unsubscribe
  <2>5. \A u \in Tunnels : \A r \in subscribers'[u] : r \in subscribers[u] /\ r # s
    BY <1>1, <2>4 DEF SubscriberInv, SubscribersOpen
  <2>6. QED
    BY <1>1, <2>3, <2>4, <2>5 DEF SubscriberInv, SubscribersOpen
<1>12. ASSUME NEW t \in Tunnels,
              GetOrCreate(t) \/ TrackUser(t) \/ OpenTunnel(t) \/ Remove(t)
       PROVE  SubscriberInv'
  BY <1>2, <1>12 DEF GetOrCreate, TrackUser, OpenTunnel, Remove, streamVars
<1>13. ASSUME NEW x \in Exchanges,
              \/ GiveUp(x) \/ FindBuffer(x) \/ Sent(x) \/ FindUser(x) \/ Save(x)
              \/ \E t \in Tunnels : Serve(x, t)
       PROVE  SubscriberInv'
  BY <1>2, <1>13 DEF GiveUp, FindBuffer, Sent, FindUser, Save, Serve, streamVars
<1>14. ASSUME NEW x \in Exchanges, NEW s \in Streams, Send(x, s) PROVE SubscriberInv'
  BY <1>2, <1>14 DEF Send
<1>15. CASE CloseManager
  BY <1>2, <1>15 DEF CloseManager, streamVars
<1>16. CASE UNCHANGED vars
  BY <1>2, <1>16 DEF vars, streamVars
<1>17. QED
  BY Steps, <1>3, <1>4, <1>5, <1>6, <1>7, <1>9, <1>10, <1>11, <1>12, <1>13, <1>14, <1>15, <1>16

\* No channel is closed twice, and none stays behind in a closed buffer
\* (RingBuffer.Subscribe, Unsubscribe, Close).
THEOREM SubscribersCorrect == Spec => []SubscribersOpen
<1>1. Spec => [](TypeInv /\ SubscriberInv)
  BY TypeInit, TypeStep, SubscriberInit, SubscriberStep, PTL DEF Spec
<1>2. SubscriberInv => SubscribersOpen
  BY DEF SubscriberInv
<1>3. QED
  BY <1>1, <1>2, PTL

-----------------------------------------------------------------------------
(* Owners. Manager.userIDs, what AddAndPersist has read there, and what it *)
(* has written agree with the tunnel's owner until the tunnel goes.        *)

gone(t) == life[t] = "removed" \/ stopped
OwnedOrGone(u, t) == u # OwnerOf[t] => u = None /\ gone(t)

UserIDsOwned == \A t \in Tunnels : life[t] \in {"tracked", "open", "removed"} => OwnedOrGone(userIDs[t], t)
RecordsServed == \A x \in Exchanges : record[x].at # "idle" => life[record[x].tunnel] \in {"open", "removed"}
RecordsOwned == \A x \in Exchanges : record[x].at = "saving" => OwnedOrGone(record[x].user, record[x].tunnel)
SavedDone == \A row \in saved : record[row[1]].at = "done"

OwnerInv == UserIDsOwned /\ RecordsServed /\ RecordsOwned /\ SavedDone /\ OwnerUnlessRemoved

LEMMA OwnerInit == Init => OwnerInv
BY DEF Init, OwnerInv, UserIDsOwned, RecordsServed, RecordsOwned, SavedDone, OwnerUnlessRemoved

\* Steps of tunnels: the exchanges stay where they are.
LEMMA OwnerTunnelStep ==
  ASSUME TypeInv, OwnerInv, UNCHANGED recordVars, UserIDsOwned',
         \A t \in Tunnels : /\ gone(t) => gone(t)'
                            /\ life[t] \in {"open", "removed"} => life'[t] \in {"open", "removed"}
  PROVE  OwnerInv'
<1>1. UNCHANGED <<record, saved>>
  BY DEF recordVars
<1>2. \A x \in Exchanges : record[x].at # "idle" => record[x].tunnel \in Tunnels
  BY DEF TypeInv, RecordTunnels
<1>3. RecordsServed' /\ SavedDone'
  BY <1>1, <1>2 DEF OwnerInv, RecordsServed, SavedDone
<1>4. \A u, t : t \in Tunnels /\ OwnedOrGone(u, t) => OwnedOrGone(u, t)'
  BY DEF OwnedOrGone
<1>5. RecordsOwned'
  BY <1>1, <1>2, <1>4 DEF OwnerInv, RecordsOwned
<1>6. OwnerUnlessRemoved'
  <2>1. saved \subseteq Exchanges \X (Users \cup {None})
    BY DEF TypeInv, TypeOK
  <2>2. \A row \in saved : /\ record[row[1]].tunnel \in Tunnels
                           /\ OwnedOrGone(row[2], record[row[1]].tunnel)
    BY <1>2, <2>1 DEF OwnerInv, SavedDone, OwnerUnlessRemoved, OwnedOrGone, gone
  <2>3. QED
    BY <1>1, <1>4, <2>2 DEF OwnerUnlessRemoved, OwnedOrGone, gone
<1>7. QED
  BY <1>3, <1>5, <1>6 DEF OwnerInv

\* Steps of one exchange that is not done: the tunnels stay where they are.
LEMMA OwnerRecordStep ==
  ASSUME TypeInv, OwnerInv, UNCHANGED <<managerVars, saved>>, NEW x \in Exchanges,
         record[x].at # "done", \A y \in Exchanges : y # x => record'[y] = record[y],
         record'[x].at # "idle" => life[record'[x].tunnel] \in {"open", "removed"},
         record'[x].at = "saving" => OwnedOrGone(record'[x].user, record'[x].tunnel)
  PROVE  OwnerInv'
<1>1. UNCHANGED <<life, userIDs, stopped, saved>>
  BY DEF managerVars
<1>2. UserIDsOwned' /\ RecordsServed' /\ RecordsOwned'
  BY <1>1 DEF OwnerInv, UserIDsOwned, RecordsServed, RecordsOwned, OwnedOrGone, gone
<1>3. \A row \in saved : row[1] \in Exchanges \ {x}
  BY DEF OwnerInv, SavedDone, TypeInv, TypeOK
<1>4. \A row \in saved : record'[row[1]] = record[row[1]]
  BY <1>3
<1>5. SavedDone' /\ OwnerUnlessRemoved'
  BY <1>1, <1>4 DEF OwnerInv, SavedDone, OwnerUnlessRemoved
<1>6. QED
  BY <1>2, <1>5 DEF OwnerInv

LEMMA OwnerStep == TypeInv /\ OwnerInv /\ [Next]_vars => OwnerInv'
<1> SUFFICES ASSUME TypeInv, OwnerInv, [Next]_vars PROVE OwnerInv'
  OBVIOUS
<1>1. /\ record \in [Exchanges -> Record] /\ userIDs \in [Tunnels -> Users \cup {None}]
      /\ life \in [Tunnels -> {"none", "created", "tracked", "open", "removed"}]
      /\ saved \subseteq Exchanges \X (Users \cup {None})
  BY DEF TypeInv, TypeOK
<1>2. \A t \in Tunnels : life[t] \in {"tracked", "open", "removed"} => OwnedOrGone(userIDs[t], t)
  BY DEF OwnerInv, UserIDsOwned
<1>3. ASSUME NEW t \in Tunnels, GetOrCreate(t) PROVE OwnerInv'
  BY <1>1, <1>2, <1>3, OwnerTunnelStep DEF GetOrCreate, UserIDsOwned, OwnedOrGone, gone
<1>4. ASSUME NEW t \in Tunnels, TrackUser(t) PROVE OwnerInv'
  BY <1>1, <1>2, <1>4, OwnerTunnelStep DEF TrackUser, UserIDsOwned, OwnedOrGone, gone
<1>5. ASSUME NEW t \in Tunnels, OpenTunnel(t) PROVE OwnerInv'
  BY <1>1, <1>2, <1>5, OwnerTunnelStep DEF OpenTunnel, UserIDsOwned, OwnedOrGone, gone
<1>6. ASSUME NEW t \in Tunnels, Remove(t) PROVE OwnerInv'
  BY <1>1, <1>2, <1>6, OwnerTunnelStep DEF Remove, UserIDsOwned, OwnedOrGone, gone
<1>7. CASE CloseManager
  BY <1>1, <1>2, <1>7, OwnerTunnelStep DEF CloseManager, UserIDsOwned, OwnedOrGone, gone
<1>8. ASSUME UNCHANGED <<life, userIDs, stopped, recordVars>> PROVE OwnerInv'
  BY <1>2, <1>8, OwnerTunnelStep DEF UserIDsOwned, OwnedOrGone, gone
<1>9. ASSUME NEW t \in Tunnels, CloseBuffer(t) \/ Clear(t) PROVE OwnerInv'
  BY <1>8, <1>9 DEF CloseBuffer, Clear, managerVars
<1>10. ASSUME NEW s \in Streams,
              \/ Subscribe(s) \/ Receive(s) \/ Unsubscribe(s) \/ Disconnect(s)
              \/ \E t \in Tunnels : Connect(s, t)
       PROVE  OwnerInv'
  BY <1>8, <1>10 DEF Subscribe, Receive, Unsubscribe, Disconnect, Connect, managerVars
<1>11. ASSUME NEW x \in Exchanges, NEW a \in RecordAt \ {"idle", "saving"}, RecordGoesTo(x, a),
              record[x].at \notin {"idle", "done"}, UNCHANGED <<managerVars, saved>>
       PROVE  OwnerInv'
  <2>1. record' = [record EXCEPT ![x] = [record[x] EXCEPT !.at = a]]
    BY <1>11 DEF RecordGoesTo
  <2>2. [record[x] EXCEPT !.at = a].at = a /\ [record[x] EXCEPT !.at = a].tunnel = record[x].tunnel
    BY <1>1 DEF Record
  <2>3. /\ record'[x].at = a /\ record'[x].tunnel = record[x].tunnel
        /\ \A y \in Exchanges : y # x => record'[y] = record[y]
    BY <1>1, <2>1, <2>2
  <2>4. life[record'[x].tunnel] \in {"open", "removed"}
    BY <1>11, <2>3 DEF OwnerInv, RecordsServed
  <2>5. QED
    BY <1>11, <2>3, <2>4, OwnerRecordStep
<1>12. ASSUME NEW x \in Exchanges, FindBuffer(x) \/ Sent(x) PROVE OwnerInv'
  <2>1. RecordGoesTo(x, "storing") \/ RecordGoesTo(x, "owning")
    BY <1>12 DEF FindBuffer, Sent, RecordGoesTo
  <2>2. record[x].at \notin {"idle", "done"} /\ UNCHANGED <<managerVars, saved>>
    BY <1>12 DEF FindBuffer, Sent
  <2>3. {"storing", "owning"} \subseteq RecordAt \ {"idle", "saving"}
    BY DEF RecordAt
  <2>4. QED
    BY <1>11, <2>1, <2>2, <2>3
<1>13. ASSUME NEW x \in Exchanges, NEW t \in Tunnels, Serve(x, t) PROVE OwnerInv'
  <2>1. record' = [record EXCEPT ![x] = [record[x] EXCEPT !.at = "serving", !.tunnel = t]]
    BY <1>1, <1>13 DEF Serve, Record
  <2>2. record'[x].at = "serving" /\ record'[x].tunnel = t
    BY <1>1, <2>1 DEF Record
  <2>3. \A y \in Exchanges : y # x => record'[y] = record[y]
    BY <1>1, <2>1
  <2>4. record[x].at # "done" /\ life[t] = "open" /\ UNCHANGED <<managerVars, saved>>
    BY <1>13 DEF Serve
  <2>5. QED
    BY <2>2, <2>3, <2>4, OwnerRecordStep
<1>14. ASSUME NEW x \in Exchanges, GiveUp(x) PROVE OwnerInv'
  <2>1. record' = [record EXCEPT ![x] = [record[x] EXCEPT !.at = "idle", !.tunnel = None]]
    BY <1>1, <1>14 DEF GiveUp, Record
  <2>2. record'[x].at = "idle" /\ \A y \in Exchanges : y # x => record'[y] = record[y]
    BY <1>1, <2>1 DEF Record
  <2>3. record[x].at # "done" /\ UNCHANGED <<managerVars, saved>>
    BY <1>14 DEF GiveUp
  <2>4. QED
    BY <2>2, <2>3, OwnerRecordStep
<1>15. ASSUME NEW x \in Exchanges, Add(x) PROVE OwnerInv'
  <2>1. record' = [record EXCEPT ![x] = [record[x] EXCEPT !.at = "sending", !.to = subscribers[record[x].tunnel]]]
    BY <1>1, <1>15 DEF Add, Record
  <2>2. /\ record'[x].at = "sending" /\ record'[x].tunnel = record[x].tunnel
        /\ \A y \in Exchanges : y # x => record'[y] = record[y]
    BY <1>1, <2>1 DEF Record
  <2>3. record[x].at = "storing" /\ UNCHANGED <<managerVars, saved>>
    BY <1>15 DEF Add
  <2>4. life[record'[x].tunnel] \in {"open", "removed"}
    BY <2>2, <2>3 DEF OwnerInv, RecordsServed
  <2>5. QED
    BY <2>2, <2>3, <2>4, OwnerRecordStep
<1>16. ASSUME NEW x \in Exchanges, NEW s \in Streams, Send(x, s) PROVE OwnerInv'
  <2>1. record[x].at = "sending" /\ UNCHANGED <<managerVars, saved>>
    BY <1>16 DEF Send
  <2>2. CASE RecordGoesTo(x, "panicked")
    BY <1>11, <2>1, <2>2 DEF RecordAt
  <2>3. CASE record' = [record EXCEPT ![x].to = @ \ {s}]
    <3>1. record' = [record EXCEPT ![x] = [record[x] EXCEPT !.to = @ \ {s}]]
      BY <2>3
    <3>2. /\ record'[x].at = "sending" /\ record'[x].tunnel = record[x].tunnel
          /\ \A y \in Exchanges : y # x => record'[y] = record[y]
      BY <1>1, <2>1, <3>1 DEF Record
    <3>3. life[record'[x].tunnel] \in {"open", "removed"}
      BY <2>1, <3>2 DEF OwnerInv, RecordsServed
    <3>4. QED
      BY <2>1, <3>2, <3>3, OwnerRecordStep
  <2>4. QED
    BY <1>16, <2>2, <2>3 DEF Send, RecordGoesTo
<1>17. ASSUME NEW x \in Exchanges, FindUser(x) PROVE OwnerInv'
  <2>1. record' = [record EXCEPT ![x] = [record[x] EXCEPT !.at = "saving", !.user = userIDs[record[x].tunnel]]]
    BY <1>1, <1>17 DEF FindUser, Record
  <2>2. /\ record'[x].tunnel = record[x].tunnel /\ record'[x].user = userIDs[record[x].tunnel]
        /\ \A y \in Exchanges : y # x => record'[y] = record[y]
    BY <1>1, <2>1 DEF Record
  <2>3. record[x].at = "owning" /\ UNCHANGED <<managerVars, saved>>
    BY <1>17 DEF FindUser
  <2>4. record[x].tunnel \in Tunnels /\ life[record[x].tunnel] \in {"open", "removed"}
    BY <2>3 DEF OwnerInv, RecordsServed, TypeInv, RecordTunnels
  <2>5. OwnedOrGone(record'[x].user, record'[x].tunnel)
    BY <1>2, <2>2, <2>4
  <2>6. QED
    BY <2>2, <2>3, <2>4, <2>5, OwnerRecordStep
<1>18. ASSUME NEW x \in Exchanges, Save(x) PROVE OwnerInv'
  <2>1. record' = [record EXCEPT ![x] = [record[x] EXCEPT !.at = "done"]]
    BY <1>18 DEF Save
  <2>2. /\ record'[x].at = "done" /\ record'[x].tunnel = record[x].tunnel
        /\ \A y \in Exchanges : y # x => record'[y] = record[y]
    BY <1>1, <2>1 DEF Record
  <2>3. /\ record[x].at = "saving" /\ saved' = saved \cup {<<x, record[x].user>>}
        /\ UNCHANGED <<life, userIDs, stopped>>
    BY <1>18 DEF Save, managerVars
  <2>4. UserIDsOwned' /\ RecordsServed' /\ RecordsOwned'
    BY <2>2, <2>3 DEF OwnerInv, UserIDsOwned, RecordsServed, RecordsOwned, OwnedOrGone, gone
  <2>5. \A row \in saved : row[1] \in Exchanges /\ row[1] # x
    BY <1>1, <2>3 DEF OwnerInv, SavedDone
  <2>6. OwnedOrGone(record[x].user, record[x].tunnel)
    BY <2>3 DEF OwnerInv, RecordsOwned
  <2>7. SavedDone'
    BY <2>2, <2>3, <2>5 DEF OwnerInv, SavedDone
  <2>8. OwnerUnlessRemoved'
    BY <2>2, <2>3, <2>5, <2>6 DEF OwnerInv, OwnerUnlessRemoved, OwnedOrGone, gone
  <2>9. QED
    BY <2>4, <2>7, <2>8 DEF OwnerInv
<1>19. CASE UNCHANGED vars
  BY <1>8, <1>19 DEF vars, managerVars
<1>20. QED
  BY Steps, <1>3, <1>4, <1>5, <1>6, <1>7, <1>9, <1>10, <1>12, <1>13, <1>14, <1>15, <1>16, <1>17, <1>18, <1>19

\* No exchange is ever saved for anybody but the owner of its tunnel, and
\* without an owner only after the tunnel has gone (AddAndPersist, Remove).
THEOREM OwnersCorrect == Spec => []OwnerUnlessRemoved
<1>1. Spec => [](TypeInv /\ OwnerInv)
  BY TypeInit, TypeStep, OwnerInit, OwnerStep, PTL DEF Spec
<1>2. OwnerInv => OwnerUnlessRemoved
  BY DEF OwnerInv
<1>3. QED
  BY <1>1, <1>2, PTL

-----------------------------------------------------------------------------
(* The ring buffer is a log: what List returns for it.                     *)

\* The slot of the i-th newest entry.
slot(w, i) == IF w >= i THEN w - i ELSE w - i + Cap

LEMMA SlotIs ==
  ASSUME NEW w \in Slots, NEW i \in 1 .. Cap
  PROVE  (w - 0 - i + Cap * 2) % Cap = slot(w, i) /\ slot(w, i) \in Slots
<1>1. Cap \in Nat \ {0}
  BY SizeAssumption
<1>2. \A a \in Slots : (a + Cap) % Cap = a /\ (a + Cap * 2) % Cap = a
  BY <1>1 DEF Slots
<1>3. CASE w >= i
  <2>1. w - i \in Slots /\ w - 0 - i + Cap * 2 = (w - i) + Cap * 2
    BY <1>1, <1>3 DEF Slots
  <2>2. QED
    BY <1>2, <1>3, <2>1 DEF slot
<1>4. CASE w < i
  <2>1. w - i + Cap \in Slots /\ w - 0 - i + Cap * 2 = (w - i + Cap) + Cap
    BY <1>1, <1>4 DEF Slots
  <2>2. ~(w >= i)
    BY <1>1, <1>4 DEF Slots
  <2>3. QED
    BY <1>2, <2>1, <2>2 DEF slot
<1>5. QED
  BY <1>1, <1>3, <1>4 DEF Slots

Entry == Exchanges \cup {None}

LEMMA ListIs ==
  ASSUME NEW r \in Ring
  PROVE  /\ List(r, 0, Cap) \in Seq(Entry)
         /\ Len(List(r, 0, Cap)) = r.count
         /\ \A i \in 1 .. r.count : List(r, 0, Cap)[i] = r.entries[slot(r.writeIdx, i)]
<1>1. /\ Cap \in Nat \ {0} /\ r.count \in 0 .. Cap /\ r.writeIdx \in Slots
      /\ r.entries \in [Slots -> Entry]
  BY SizeAssumption DEF Ring, Entry
<1>2. CASE r.count = 0
  <2>1. List(r, 0, Cap) = <<>>
    BY <1>2 DEF List
  <2>2. <<>> \in Seq(Entry) /\ Len(<<>>) = 0
    BY EmptySeq
  <2>3. 1 .. r.count = {}
    BY <1>2
  <2>4. QED
    BY <1>2, <2>1, <2>2, <2>3
<1>3. CASE r.count # 0
  <2>1. ~(0 >= r.count) /\ (IF Cap > r.count - 0 THEN r.count - 0 ELSE Cap) = r.count
    BY <1>1, <1>3
  <2>2. \A i \in 1 .. r.count : i \in 1 .. Cap
    BY <1>1
  <2>3. \A i \in 1 .. r.count : /\ (r.writeIdx - 0 - i + Cap * 2) % Cap = slot(r.writeIdx, i)
                                /\ slot(r.writeIdx, i) \in Slots
    BY <1>1, <2>2, SlotIs
  <2>4. List(r, 0, Cap) = [i \in 1 .. r.count |-> r.entries[slot(r.writeIdx, i)]]
    BY <2>1, <2>3 DEF List
  <2>5. \A i \in 1 .. r.count : r.entries[slot(r.writeIdx, i)] \in Entry
    BY <1>1, <2>3
  <2>6. List(r, 0, Cap) \in [1 .. r.count -> Entry]
    BY <2>4, <2>5
  <2>7. QED
    BY <1>1, <2>4, <2>6
<1>4. QED
  BY <1>2, <1>3

\* Add puts an exchange at the front of the log, and drops the oldest one of a
\* full buffer.
LEMMA InsertLogs ==
  ASSUME NEW r \in Ring, NEW x \in Exchanges
  PROVE  List(insert(r, x), 0, Cap) = Log!newest(<<x>> \o List(r, 0, Cap))
<1> DEFINE s == List(r, 0, Cap)
           q == insert(r, x)
           l == List(q, 0, Cap)
           n == Log!newest(<<x>> \o s)
<1>1. /\ Cap \in Nat \ {0} /\ r.count \in 0 .. Cap /\ r.writeIdx \in Slots
      /\ r.entries \in [Slots -> Entry]
  BY SizeAssumption DEF Ring, Entry
<1>2. /\ q \in Ring
      /\ q.entries = [r.entries EXCEPT ![r.writeIdx] = x]
      /\ q.writeIdx = (r.writeIdx + 1) % Cap
      /\ q.count = IF r.count < Cap THEN r.count + 1 ELSE r.count
  BY InsertType DEF insert, Ring
<1>3. q.writeIdx = IF r.writeIdx + 1 = Cap THEN 0 ELSE r.writeIdx + 1
  <2>1. CASE r.writeIdx + 1 = Cap
    <3>1. Cap % Cap = 0
      BY <1>1
    <3>2. QED
      BY <1>2, <2>1, <3>1
  <2>2. CASE r.writeIdx + 1 # Cap
    <3>1. r.writeIdx + 1 \in 0 .. Cap - 1
      BY <1>1, <2>2 DEF Slots
    <3>2. \A a \in 0 .. Cap - 1 : a % Cap = a
      BY <1>1
    <3>3. (r.writeIdx + 1) % Cap = r.writeIdx + 1
      BY <3>1, <3>2
    <3>4. QED
      BY <1>2, <2>2, <3>3
  <2>3. QED
    BY <2>1, <2>2
<1>4. l \in Seq(Entry) /\ Len(l) = q.count /\ \A i \in 1 .. q.count : l[i] = q.entries[slot(q.writeIdx, i)]
  BY <1>2, ListIs
<1>5. s \in Seq(Entry) /\ Len(s) = r.count /\ \A i \in 1 .. r.count : s[i] = r.entries[slot(r.writeIdx, i)]
  BY ListIs
<1>6. slot(q.writeIdx, 1) = r.writeIdx
  BY <1>1, <1>3 DEF slot, Slots
<1>7. ASSUME NEW i \in 2 .. Cap
      PROVE  slot(q.writeIdx, i) = slot(r.writeIdx, i - 1) /\ slot(q.writeIdx, i) \in Slots \ {r.writeIdx}
  BY <1>1, <1>3, <1>7 DEF slot, Slots
<1>8. q.entries[slot(q.writeIdx, 1)] = x
  BY <1>1, <1>2, <1>6
<1>9. ASSUME NEW i \in 2 .. q.count
      PROVE  q.entries[slot(q.writeIdx, i)] = s[i - 1]
  <2>1. i \in 2 .. Cap /\ i - 1 \in 1 .. r.count
    BY <1>1, <1>2, <1>9
  <2>2. q.entries[slot(q.writeIdx, i)] = r.entries[slot(q.writeIdx, i)]
    BY <1>1, <1>2, <1>7, <2>1
  <2>3. s[i - 1] = r.entries[slot(r.writeIdx, i - 1)]
    BY <1>5, <2>1
  <2>4. QED
    BY <1>7, <2>1, <2>2, <2>3
<1>10. /\ <<x>> \o s \in Seq(Entry) /\ Len(<<x>> \o s) = r.count + 1
       /\ (<<x>> \o s)[1] = x
       /\ \A i \in 2 .. r.count + 1 : (<<x>> \o s)[i] = s[i - 1]
  <2> HIDE DEF s
  <2>1. <<x>> \in Seq(Entry) /\ Len(<<x>>) = 1 /\ <<x>>[1] = x
    BY DEF Entry
  <2>2. /\ <<x>> \o s \in Seq(Entry) /\ Len(<<x>> \o s) = 1 + r.count
        /\ \A i \in 1 .. 1 + r.count : (<<x>> \o s)[i] = IF i <= 1 THEN <<x>>[i] ELSE s[i - 1]
    BY <1>5, <2>1, ConcatProperties
  <2>3. QED
    BY <1>1, <2>1, <2>2
<1>11. n \in Seq(Entry) /\ Len(n) = q.count /\ \A i \in 1 .. q.count : n[i] = (<<x>> \o s)[i]
  <2> DEFINE c == <<x>> \o s
  <2>1. c \in Seq(Entry) /\ Len(c) = r.count + 1
    BY <1>10
  <2>2. n = IF Len(c) > Cap THEN SubSeq(c, 1, Cap) ELSE c
    BY DEF Log!newest
  <2> HIDE DEF c, n, s, q
  <2>3. CASE r.count < Cap
    <3>1. q.count = r.count + 1 /\ ~(r.count + 1 > Cap)
      BY <1>1, <1>2, <2>3
    <3>2. n = c
      BY <2>1, <2>2, <3>1
    <3>3. QED
      BY <2>1, <3>1, <3>2 DEF c
  <2>4. CASE r.count = Cap
    <3>1. q.count = Cap /\ r.count + 1 > Cap
      BY <1>1, <1>2, <2>4
    <3>2. n = SubSeq(c, 1, Cap)
      BY <2>1, <2>2, <3>1
    <3>3. \A i \in 1 .. Cap : c[i] \in Entry
      BY <1>1, <2>1, <2>4, ElementOfSeq
    <3>4. /\ SubSeq(c, 1, Cap) \in Seq(Entry) /\ Len(SubSeq(c, 1, Cap)) = Cap
          /\ \A i \in 1 .. Cap : SubSeq(c, 1, Cap)[i] = c[i]
      BY <1>1, <3>3, SubSeqProperties
    <3>5. QED
      BY <3>1, <3>2, <3>4 DEF c
  <2>5. r.count < Cap \/ r.count = Cap
    BY <1>1
  <2>6. QED
    BY <2>3, <2>4, <2>5
<1>12. ASSUME NEW i \in 1 .. q.count
       PROVE  (<<x>> \o s)[i] = q.entries[slot(q.writeIdx, i)]
  <2>1. CASE i = 1
    BY <1>8, <1>10, <2>1
  <2>2. CASE i # 1
    <3>1. i \in 2 .. q.count /\ i \in 2 .. r.count + 1
      BY <1>1, <1>2, <2>2
    <3>2. QED
      BY <1>9, <1>10, <3>1
  <2>3. QED
    BY <2>1, <2>2
<1>13. \A i \in 1 .. Len(l) : l[i] = n[i]
  BY <1>4, <1>11, <1>12
<1> HIDE DEF l, n
<1>14. l = n
  BY <1>4, <1>11, <1>13, SeqEqual
<1>15. QED
  BY <1>14 DEF l, n

\* What List returns depends on neither the subscribers nor closed.
LEMMA SameList ==
  ASSUME NEW r, NEW q, q.entries = r.entries, q.writeIdx = r.writeIdx, q.count = r.count
  PROVE  List(q, 0, Cap) = List(r, 0, Cap)
BY DEF List

logs == [t \in Tunnels |-> List(ring[t], 0, Cap)]

LEMMA EmptyList == ASSUME NEW r, r.count = 0 PROVE List(r, 0, Cap) = <<>>
BY DEF List

LEMMA LogInit == Init => Log!Init
<1> SUFFICES ASSUME Init PROVE Log!Init
  OBVIOUS
<1>1. \A t \in Tunnels : ring[t].count = 0
  BY DEF Init, EmptyRing
<1>2. QED
  BY <1>1, EmptyList DEF Log!Init

LEMMA LogStep == TypeInv /\ [Next]_vars => Log!Next \/ UNCHANGED logs
<1> SUFFICES ASSUME TypeInv, [Next]_vars PROVE Log!Next \/ UNCHANGED logs
  OBVIOUS
<1>1. ring \in [Tunnels -> Ring]
  BY DEF TypeInv, TypeOK
<1>2. ASSUME UNCHANGED ring PROVE UNCHANGED logs
  BY <1>2 DEF logs
<1>3. ASSUME NEW t \in Tunnels, CloseBuffer(t) PROVE UNCHANGED logs
  <2>1. ring' = [ring EXCEPT ![t] = [ring[t] EXCEPT !.closed = TRUE]]
    BY <1>3 DEF CloseBuffer
  <2>2. \A r \in Ring : /\ [r EXCEPT !.closed = TRUE].entries = r.entries
                        /\ [r EXCEPT !.closed = TRUE].writeIdx = r.writeIdx
                        /\ [r EXCEPT !.closed = TRUE].count = r.count
    BY DEF Ring
  <2>3. \A u \in Tunnels : /\ ring'[u].entries = ring[u].entries
                           /\ ring'[u].writeIdx = ring[u].writeIdx
                           /\ ring'[u].count = ring[u].count
    BY <1>1, <2>1, <2>2
  <2>4. \A u \in Tunnels : List(ring'[u], 0, Cap) = List(ring[u], 0, Cap)
    BY <2>3, SameList
  <2>5. QED
    BY <2>4 DEF logs
<1>4. ASSUME NEW t \in Tunnels, Clear(t) PROVE Log!Next
  <2>1. ring' = [ring EXCEPT ![t] = [EmptyRing EXCEPT !.closed = ring[t].closed]]
    BY <1>4 DEF Clear
  <2>2. [EmptyRing EXCEPT !.closed = ring[t].closed].count = 0
    BY DEF EmptyRing
  <2>3. ring'[t].count = 0 /\ \A u \in Tunnels : u # t => ring'[u] = ring[u]
    BY <1>1, <2>1, <2>2
  <2>4. List(ring'[t], 0, Cap) = <<>>
    BY <2>3, EmptyList
  <2>5. logs' = [logs EXCEPT ![t] = <<>>]
    BY <2>3, <2>4 DEF logs
  <2>6. Log!Clear(t)
    BY <2>5 DEF Log!Clear, logs
  <2>7. QED
    BY <2>6 DEF Log!Next
<1>5. ASSUME NEW x \in Exchanges, Add(x) PROVE Log!Next
  <2> DEFINE t == record[x].tunnel
  <2>1. t \in Tunnels /\ ring' = [ring EXCEPT ![t] = insert(@, x)]
    BY <1>5 DEF Add, TypeInv, RecordTunnels
  <2>2. ring'[t] = insert(ring[t], x) /\ \A u \in Tunnels : u # t => ring'[u] = ring[u]
    BY <1>1, <2>1
  <2>3. List(ring'[t], 0, Cap) = Log!newest(<<x>> \o List(ring[t], 0, Cap))
    BY <1>1, <2>1, <2>2, InsertLogs
  <2> HIDE DEF t
  <2>4. logs' = [logs EXCEPT ![t] = Log!newest(<<x>> \o logs[t])]
    <3>1. logs[t] = List(ring[t], 0, Cap) /\ logs'[t] = List(ring'[t], 0, Cap)
      BY <2>1 DEF logs
    <3>2. \A u \in Tunnels : u # t => logs'[u] = logs[u]
      BY <2>2 DEF logs
    <3>3. logs' = [logs EXCEPT ![t] = logs'[t]]
      <4>1. DOMAIN logs = Tunnels /\ DOMAIN logs' = Tunnels
        BY DEF logs
      <4>2. logs = [u \in Tunnels |-> logs[u]] /\ logs' = [u \in Tunnels |-> logs'[u]]
        BY DEF logs
      <4>3. QED
        BY <3>2, <4>1, <4>2
    <3>4. QED
      BY <2>3, <3>1, <3>3
  <2>5. Log!Capture(t, x)
    BY <2>4 DEF Log!Capture, logs
  <2>6. QED
    BY <2>1, <2>5 DEF Log!Next
<1>6. CASE Log!Next
  BY <1>6
<1>7. ASSUME \/ \E t \in Tunnels : GetOrCreate(t) \/ TrackUser(t) \/ OpenTunnel(t) \/ Remove(t)
             \/ CloseManager
             \/ \E x \in Exchanges : \/ GiveUp(x) \/ FindBuffer(x) \/ Sent(x) \/ FindUser(x) \/ Save(x)
                                     \/ \E t \in Tunnels : Serve(x, t)
                                     \/ \E s \in Streams : Send(x, s)
             \/ \E s \in Streams : \/ Subscribe(s) \/ Receive(s) \/ Unsubscribe(s) \/ Disconnect(s)
                                   \/ \E t \in Tunnels : Connect(s, t)
             \/ UNCHANGED vars
      PROVE  UNCHANGED ring
  BY <1>7 DEF GetOrCreate, TrackUser, OpenTunnel, Remove, CloseManager, GiveUp, FindBuffer, Sent, FindUser,
     Save, Serve, Send, Subscribe, Receive, Unsubscribe, Disconnect, Connect, ringVars, vars
<1>8. QED
  BY Steps, <1>2, <1>3, <1>4, <1>5, <1>7

\* The ring buffers of the server implement the log: List returns the Cap
\* exchanges captured last, the newest first (RingBuffer.Add, List, Clear).
THEOREM LogCorrect == Spec => LogSpec
<1>1. Spec => []TypeInv
  BY TypeInit, TypeStep, PTL DEF Spec
<1>2. TypeInv /\ [Next]_vars => [Log!Next]_logs
  BY LogStep
<1>3. [Log!Next]_logs <=> [Log!Next]_[t \in Tunnels |-> List(ring[t], 0, Cap)]
  BY DEF logs
<1>4. QED
  BY <1>1, <1>2, <1>3, LogInit, PTL DEF Spec, LogSpec, Log!Spec
=============================================================================

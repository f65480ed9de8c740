------------------------------ MODULE UdpFrames ------------------------------
(* Datagrams through a UDP tunnel. One stream carries them all, each behind a *)
(* header with its length and a hash of the visitor's address: HandlePackets  *)
(* at the server (internal/server/udp_manager.go), handleUDPStream at the     *)
(* client (internal/client/udp_proxy.go). The unit of length is two bytes; a  *)
(* unit of payload read as a length is any length.                            *)
EXTENDS Naturals, Sequences

CONSTANTS Peers,        \* visitors
          MaxLen,       \* bound: the payload of a datagram
          MaxDatagrams  \* bound: datagrams in each direction

VARIABLES
  asked,    \* datagrams that the server has read: who sent them, and their length
  answered, \* the lengths of those that the local service has sent
  down, up, \* the two directions of the stream
  last,     \* lastAddrHash
  heard,    \* payloads that the local service has got
  got       \* payloads that visitors have got

vars == <<asked, answered, down, up, last, heard, got>>

length(n) == [kind |-> "length", value |-> n]
hash(p) == <<[kind |-> "hash", of |-> p, half |-> 1], [kind |-> "hash", of |-> p, half |-> 2]>>
nothing == [kind |-> "zero"]
data(way, i, n) == [j \in 1..n |-> [kind |-> way, of |-> i, at |-> j]]

\* udpHeaderSize, without the length: four bytes of hash at the server, eight
\* at the client.
ServerHash == 2
ClientHash == 4

Init ==
  /\ asked = <<>> /\ answered = <<>> /\ down = <<>> /\ up = <<>>
  /\ last = [j \in 1..ClientHash |-> nothing]
  /\ heard = <<>> /\ got = <<>>

\* What the two bytes at a place say when they are taken for a length.
lengths(unit) ==
  CASE unit.kind = "length" -> {unit.value}
    [] unit.kind = "zero" -> {0}
    [] OTHER -> 0..MaxLen

\* A stream that begins with a whole frame of n units behind its header.
whole(stream, header, n) == stream # <<>> /\ n \in lengths(stream[1]) /\ Len(stream) >= 1 + header + n
payload(stream, header, n) == SubSeq(stream, 2 + header, 1 + header + n)
rest(stream, header, n) == SubSeq(stream, 2 + header + n, Len(stream))

-----------------------------------------------------------------------------
\* The server reads a datagram and frames it.
PacketIn(p, n) ==
  /\ Len(asked) < MaxDatagrams
  /\ asked' = Append(asked, [from |-> p, len |-> n])
  /\ down' = down \o <<length(n)>> \o hash(p) \o data("ask", Len(asked) + 1, n)
  /\ UNCHANGED <<answered, up, last, heard, got>>

\* The client reads a frame and sends its payload to the local service.
FrameIn(n) ==
  /\ whole(down, ClientHash, n)
  /\ last' = SubSeq(down, 2, 1 + ClientHash)
  /\ heard' = Append(heard, payload(down, ClientHash, n))
  /\ down' = rest(down, ClientHash, n)
  /\ UNCHANGED <<asked, answered, up, got>>

\* The client reads a datagram of the local service and frames it for the
\* visitor it heard last.
LocalAnswers(n) ==
  /\ Len(answered) < MaxDatagrams /\ heard # <<>>
  /\ answered' = Append(answered, n)
  /\ up' = up \o <<length(n)>> \o last \o data("answer", Len(answered) + 1, n)
  /\ UNCHANGED <<asked, down, last, heard, got>>

\* The server reads a frame and sends its payload to the visitor with the hash,
\* if it knows one.
FrameBack(n) ==
  /\ whole(up, ServerHash, n)
  /\ LET known == {p \in Peers : hash(p) = SubSeq(up, 2, 1 + ServerHash)
                                   /\ \E i \in DOMAIN asked : asked[i].from = p} IN
     got' = IF known = {} THEN got
            ELSE Append(got, [to |-> CHOOSE p \in known : TRUE, what |-> payload(up, ServerHash, n)])
  /\ up' = rest(up, ServerHash, n)
  /\ UNCHANGED <<asked, answered, down, last, heard>>

Next ==
  \E n \in 0..MaxLen :
    \/ \E p \in Peers : PacketIn(p, n)
    \/ FrameIn(n) \/ LocalAnswers(n) \/ FrameBack(n)

Spec == Init /\ [][Next]_vars

-----------------------------------------------------------------------------
\* "UDP Tunnels - Forward UDP traffic" (README.md): what the local service gets
\* is the payload of a datagram that a visitor has sent.
DatagramsWhole ==
  \A i \in DOMAIN heard : \E k \in DOMAIN asked : heard[i] = data("ask", k, asked[k].len)
=============================================================================

--------------------------- MODULE MCTunnelServer ---------------------------
(* Small instances of TunnelServer.                                        *)
EXTENDS TunnelServer, TLC

CONSTANTS c1, c2, u1

\* Two connections of one account.
OneUser == [c \in Clients |-> u1]

\* The second connection uses a legacy token, which belongs to no account.
FirstUser == [c \in Clients |-> IF c = c1 THEN u1 ELSE None]

NoLimit == [c \in Clients |-> 0]
LimitOne == [c \in Clients |-> 1]

\* The first connection uses a token with a limit, the second does not.
LimitFirst == [c \in Clients |-> IF c = c1 THEN 1 ELSE 0]

\* Tunnel IDs are interchangeable, and so are the addresses of one kind and
\* the connections that share their user and limits.
TunnelSymmetry == Permutations(Tunnels)
Symmetry == Permutations(Tunnels) \cup Permutations(Clients) \cup Permutations(HttpAddr)
=============================================================================

---------------------------- MODULE ExchangeLog ----------------------------
(***************************************************************************)
(* What the inspect buffer of a tunnel promises to its readers: the Cap    *)
(* exchanges captured last, the newest first, until somebody clears it.    *)
(***************************************************************************)
EXTENDS Naturals, Sequences

CONSTANTS Tunnels, Exchanges, Cap

VARIABLE log   \* [Tunnels -> Seq(Exchanges)]

newest(s) == IF Len(s) > Cap THEN SubSeq(s, 1, Cap) ELSE s

Init == log = [t \in Tunnels |-> <<>>]

Capture(t, x) == log' = [log EXCEPT ![t] = newest(<<x>> \o @)]

Clear(t) == log' = [log EXCEPT ![t] = <<>>]

Next == \E t \in Tunnels : Clear(t) \/ \E x \in Exchanges : Capture(t, x)

Spec == Init /\ [][Next]_log
=============================================================================

----------------------------- MODULE MCInspect -----------------------------
(* Small instances of Inspect.                                             *)
EXTENDS Inspect

CONSTANT ann

\* All tunnels belong to one account.
AnnsTunnels == [t \in Tunnels |-> ann]
=============================================================================

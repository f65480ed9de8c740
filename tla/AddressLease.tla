---------------------------- MODULE AddressLease ----------------------------
(***************************************************************************)
(* What the registry of TunnelServer promises about addresses: a subdomain *)
(* or a port is leased to at most one tunnel at a time, only to a tunnel   *)
(* that never held an address before, and a lease that has ended stays     *)
(* ended.                                                                  *)
(***************************************************************************)
EXTENDS FiniteSets

CONSTANTS
  Tunnels,    \* the tunnels, each with an identity that is never reused
  Addresses   \* what can be leased

VARIABLES
  holders,    \* the tunnels that hold each address
  expired     \* the tunnels that will never hold an address again

vars == <<holders, expired>>

TypeOK ==
  /\ holders \in [Addresses -> SUBSET Tunnels]
  /\ expired \subseteq Tunnels

Init ==
  /\ holders = [a \in Addresses |-> {}]
  /\ expired = {}

\* A free address is leased to a tunnel that has none and never had one.
Grant(a, t) ==
  /\ holders[a] = {}
  /\ t \notin expired
  /\ \A b \in Addresses : t \notin holders[b]
  /\ holders' = [holders EXCEPT ![a] = {t}]
  /\ UNCHANGED expired

\* The leases of some tunnels end.
Release(T) ==
  /\ T \cap expired = {}
  /\ holders' = [a \in Addresses |-> holders[a] \ T]
  /\ expired' = expired \cup T

Next ==
  \/ \E a \in Addresses, t \in Tunnels : Grant(a, t)
  \/ \E T \in SUBSET Tunnels : Release(T)

Spec == Init /\ [][Next]_vars

\* At most one tunnel holds an address, and not after its lease has ended.
Exclusive ==
  /\ \A a \in Addresses : \A t, u \in holders[a] : t = u
  /\ \A a \in Addresses : holders[a] \cap expired = {}
=============================================================================

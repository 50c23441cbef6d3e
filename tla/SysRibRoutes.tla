---------------------------- MODULE SysRibRoutes ----------------------------
(***************************************************************************)
(* The routes of the RIB manager (sysrib) and the operation that changes   *)
(* its radix trees.  One network instance and one address family are       *)
(* modelled: the IPv4 and IPv6 trees of every instance go through the same *)
(* code.                                                                   *)
(*                                                                         *)
(* A prefix is <<value, length>> in an address space of Width bits, so     *)
(* canonicalPrefix is part of the representation.  A route's next hops are *)
(* a set: their weights are never looked at.                               *)
(***************************************************************************)
EXTENDS Integers, FiniteSets

CONSTANTS Width,       \* bits of an address
          Interfaces,  \* values of sysrib.Interface
          Routes       \* the routes clients may add

NoInterface == "noInterface"

Addresses == 0..(2^Width - 1)
Prefixes == UNION {{<<v, len>> : v \in 0..(2^len - 1)} : len \in 0..Width}

\* addressToPrefix: the host prefix of an address.
Host(a) == <<a, Width>>

\* AdminDistance of each kind of route, as the code assigns it.
AdminDistanceConnected == 0
AdminDistanceStatic == 1
AdminDistanceGRIBI == 5
AdminDistanceBGP == 20

\* connected is NoInterface or the interface of a connected route, which has
\* no next hops.
RouteType == [prefix : Prefixes, connected : Interfaces \cup {NoInterface},
              nexthops : SUBSET Addresses, ad : 0..255, metric : Nat]

IsConnected(r) == r.connected # NoInterface
IsBGP(r) == r.ad = AdminDistanceBGP

ASSUME RoutesAssumption ==
  /\ Width \in Nat
  /\ NoInterface \notin Interfaces
  /\ \A r \in Routes : r \in RouteType /\ (IsConnected(r) => r.nexthops = {})

\* Two routes are the same entry of the tree; the metric is not part of it.
routeKeyMatches(a, b) ==
  a.prefix = b.prefix /\ a.ad = b.ad /\ a.connected = b.connected

\* SysRIB.setRoute: entries with the same key go, and an add puts r in.
setRoute(tree, r, isDelete) ==
  {t \in tree : ~routeKeyMatches(t, r)} \cup (IF isDelete THEN {} ELSE {r})
=============================================================================

------------------------------- MODULE SysRib -------------------------------
(***************************************************************************)
(* The RIB of sysrib: routes, interface states and GUE policies come and   *)
(* go in any order, and egressNexthops is asked about every prefix in      *)
(* every state they produce.  Each operation is one critical section.      *)
(***************************************************************************)
EXTENDS SysRibResolve

CONSTANT Policies    \* prefixes of the GUE policies that may be configured

ASSUME PoliciesAssumption == Policies \subseteq Prefixes

VARIABLES tree, interfaces, policies
vars == <<tree, interfaces, policies>>

Init == tree = {} /\ interfaces = {} /\ policies = {}

SetRoute(r, isDelete) ==
  /\ tree' = setRoute(tree, r, isDelete)
  /\ UNCHANGED <<interfaces, policies>>

SetInterface(i, up) ==
  /\ interfaces' = IF up THEN interfaces \cup {i} ELSE interfaces \ {i}
  /\ UNCHANGED <<tree, policies>>

SetGUEPolicy(q) == policies' = policies \cup {q} /\ UNCHANGED <<tree, interfaces>>
DeleteGUEPolicy(q) == policies' = policies \ {q} /\ UNCHANGED <<tree, interfaces>>

Next == \/ \E r \in Routes, isDelete \in BOOLEAN : SetRoute(r, isDelete)
        \/ \E i \in Interfaces, up \in BOOLEAN : SetInterface(i, up)
        \/ \E q \in Policies : SetGUEPolicy(q) \/ DeleteGUEPolicy(q)

Spec == Init /\ [][Next]_vars

(***************************************************************************)
(* Properties                                                              *)
(***************************************************************************)
Egress(p) == EgressNexthops(tree, interfaces, policies, p)

\* The reference semantics, without recursion.  Lookup a leads to lookup b;
\* a lookup is alive if it is in every set that contains the ones that match an
\* enabled interface and is closed under leading to a member; it is endless if
\* some set of lookups keeps leading into itself.
Leads(a, b) == \E r \in entryForCIDR(tree, Host(a)) : b \in r.nexthops
Direct(p) == \E r \in entryForCIDR(tree, p) : r.connected \in interfaces
Alive == {a \in Addresses : \A X \in SUBSET Addresses :
            (\A b \in Addresses : (Direct(Host(b)) \/ \E x \in X : Leads(b, x)) => b \in X)
            => a \in X}
Endless == UNION {X \in SUBSET Addresses : \A a \in X : \E b \in X : Leads(a, b)}

Reaches(r) == r.connected \in interfaces \/ r.nexthops \cap Alive # {}
Better(r, s) == r.ad < s.ad \/ (r.ad = s.ad /\ r.metric < s.metric)
Winners(p) == LET reaching == {r \in entryForCIDR(tree, p) : Reaches(r)}
              IN  {r \in reaching : \A s \in reaching : ~Better(s, r)}
Ports(nhs) == {x.port : x \in nhs}

\* Recursive resolution finds next hops for a prefix, and a route of the tree to
\* go with them, exactly when some chain of longest matches from one of its
\* entries ends at an enabled interface.
ResolvedIffReachable ==
  \A p \in Prefixes : Egress(p).kind = "ok" =>
    /\ Egress(p).nhs # {} <=> \E r \in entryForCIDR(tree, p) : Reaches(r)
    /\ Egress(p).route # {} <=> Egress(p).nhs # {}
    /\ Egress(p).route \subseteq tree /\ Egress(p).nhs \subseteq ResolvedNexthop

\* The egress ports of a prefix are those of the entries with the lowest admin
\* distance, then metric, among the ones that reach an enabled interface, and
\* of all of them together (ECMP).
BestPreferenceWins ==
  \A p \in Prefixes : Egress(p).kind = "ok" =>
    Ports(Egress(p).nhs) =
      UNION {IF IsConnected(r) THEN {r.connected}
             ELSE UNION {Ports(Egress(Host(a)).nhs) : a \in r.nexthops} : r \in Winners(p)}

\* The recursion ends unless the lookups of the prefix run into a cycle ("This
\* happens if there is a cycle", SetRoute): no chain of routes is too deep.
EndsUnlessCyclic ==
  \A p \in Prefixes :
    (\E r \in entryForCIDR(tree, p) : r.nexthops \cap Endless # {}) <=> Egress(p).kind = "loop"

\* A GUE header is put on a next hop once: by a BGP route, towards one of its
\* own next hops under a policy, which itself resolves without encapsulation.
EncapsulatedOnce ==
  \A p \in Prefixes : \A x \in Egress(p).nhs :
    /\ Cardinality(x.gue) <= 1
    /\ \A g \in x.gue :
         /\ \E r \in Winners(p) : r.ad = AdminDistanceBGP /\ g.dst \in r.nexthops
         /\ \A y \in Egress(Host(g.dst)).nhs : y.gue = NoGUE
         /\ g.policy \in policies /\ Covers(g.policy, Host(g.dst))
=============================================================================

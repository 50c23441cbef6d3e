--------------------------- MODULE SysRibResolve ---------------------------
(***************************************************************************)
(* Recursive next-hop resolution, SysRIB.egressNexthops: the longest match *)
(* of the prefix is looked up, the next hops of its entries are resolved   *)
(* in turn, and the entries with the best preference that reach an enabled *)
(* interface provide the result.  BGP routes whose next hop falls under a  *)
(* GUE policy encapsulate towards it.                                      *)
(***************************************************************************)
EXTENDS SysRibRoutes

NoAddress == -1
NoGUE == {}

\* A prefix contains another one, or a host.
Covers(q, p) == q[2] <= p[2] /\ p[1] \div 2^(p[2] - q[2]) = q[1]

\* FindDeepestTag(s) of the radix tree (github.com/kentik/patricia).
Deepest(prefixes, p) ==
  {q \in prefixes : Covers(q, p) /\ \A o \in prefixes : Covers(o, p) => o[2] <= q[2]}
entryForCIDR(tree, p) ==
  LET at == Deepest({r.prefix : r \in tree}, p) IN {r \in tree : r.prefix \in at}

\* getGUEHeader: the headers are those of the deepest policy around the next
\* hop, with the next hop as the outer destination.
getGUEHeader(policies, a) ==
  LET at == Deepest(policies, Host(a))
  IN  {[policy |-> q, dst |-> a] : q \in at}

ResolvedNexthop == [address : Addresses \cup {NoAddress}, port : Interfaces,
                    gue : SUBSET [policy : Prefixes, dst : Addresses]]

PrefBeforeByMetric(r, s) == r.metric < s.metric
PrefBefore(r, s) == r.ad < s.ad \/ (r.ad = s.ad /\ r.metric < s.metric)
SamePref(r, s) == r.ad = s.ad /\ r.metric = s.metric

\* The outcome of egressNexthops.  kind "error" is the error return; "loop" is a
\* recursion that never ends, for some order of the tree's tags (an error met
\* first would cut it short).  route holds every entry the code may return as
\* the top-level route: the first one of the chosen preference in the order of
\* the tree's tags, which is the library's.
Result(kind, nhs, route) == [kind |-> kind, nhs |-> nhs, route |-> route]
Unresolved == Result("ok", {}, {})

\* The next hop a connected entry stands for when its interface is enabled.
connectedNexthopsAnyState(r, enabled, p) ==
  {[address |-> IF p[2] = Width THEN p[1] ELSE NoAddress, port |-> r.connected, gue |-> NoGUE]}
connectedNexthops(r, enabled, p) ==
  IF r.connected \in enabled
    THEN {[address |-> IF p[2] = Width THEN p[1] ELSE NoAddress,
           port |-> r.connected, gue |-> NoGUE]}
    ELSE {}

\* What next hop a of entry r contributes, given what a itself resolved to.
encapsulate(nhs, r, a, policies) ==
  {[x EXCEPT !.gue = IF IsBGP(r) THEN getGUEHeader(policies, a) ELSE NoGUE] : x \in nhs}

\* The next hops of the best preference among the entries that reach something.
BestEntries(entries, nhsOf) ==
  LET usable == {r \in entries : nhsOf[r] # {}}
      best == {r \in usable : \A s \in usable : ~PrefBefore(s, r)}
  IN  IF usable = {} THEN Unresolved
      ELSE Result("ok", UNION {nhsOf[r] : r \in best},
                  {r \in entries : \E s \in best : SamePref(r, s)})

\* A next hop that resolves over an encapsulated one is refused.
NestedGUEAllowed(nhs) == FALSE
NestedGUE(nhs) == \E x \in nhs : x.gue # NoGUE

\* One level of egressNexthops(p); sub[a] is the outcome for next hop a.  An
\* error of any entry is the outcome of all of them.
ResolveEntries(tree, enabled, policies, p, sub) ==
  LET entries == entryForCIDR(tree, p)
      lookups == UNION {r.nexthops : r \in entries}
      nhsOf == [r \in entries |->
        IF IsConnected(r) THEN connectedNexthops(r, enabled, p)
        ELSE UNION {encapsulate(sub[a].nhs, r, a, policies) : a \in r.nexthops}]
  IN  IF \E a \in lookups : sub[a].kind = "loop" THEN Result("loop", {}, {})
      ELSE IF \E a \in lookups : sub[a].kind = "error" \/ NestedGUE(sub[a].nhs)
        THEN Result("error", {}, {})
      ELSE BestEntries(entries, nhsOf)

\* The outcome for every address, of a recursion cut off at each depth.
LookupsAtDepth(tree, enabled, policies, limit) ==
  LET sub[depth \in 0..limit] ==
        [a \in Addresses |->
           IF depth = 0 THEN Result("loop", {}, {})
           ELSE ResolveEntries(tree, enabled, policies, Host(a), sub[depth - 1])]
  IN  sub

\* A recursion deeper than the number of addresses looks one of them up twice
\* and never ends.
EgressNexthopsShallow(tree, enabled, policies, p) ==
  ResolveEntries(tree, enabled, policies, p, LookupsAtDepth(tree, enabled, policies, 1)[1])
EgressNexthops(tree, enabled, policies, p) ==
  LET limit == Cardinality(Addresses)
  IN  ResolveEntries(tree, enabled, policies, p,
                     LookupsAtDepth(tree, enabled, policies, limit)[limit])
=============================================================================

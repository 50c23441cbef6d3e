---------------------------- MODULE SysRibProofs ----------------------------
(***************************************************************************)
(* Proofs about the recursive resolution of SysRib, for every address      *)
(* width, every set of routes and every state they reach.                  *)
(*                                                                         *)
(* egressNexthops is a recursion over the addresses; the model unfolds it  *)
(* to a depth.  The proofs are inductions on that depth, in the form of a  *)
(* least counterexample.                                                   *)
(***************************************************************************)
EXTENDS SysRib, WellFoundedInduction, FiniteSetTheorems, TLAPS

TypeInv == tree \subseteq Routes /\ interfaces \subseteq Interfaces /\ policies \subseteq Policies

Limit == Cardinality(Addresses)
Entries(p) == entryForCIDR(tree, p)
Lookups(p) == UNION {r.nexthops : r \in Entries(p)}
Res(p, s) == ResolveEntries(tree, interfaces, policies, p, s)
NhsOf(p, s) == [r \in Entries(p) |->
                  IF IsConnected(r) THEN connectedNexthops(r, interfaces, p)
                  ELSE UNION {encapsulate(s[a].nhs, r, a, policies) : a \in r.nexthops}]
Loops(p, s) == \E a \in Lookups(p) : s[a].kind = "loop"
Fails(p, s) == \E a \in Lookups(p) : s[a].kind = "error" \/ NestedGUE(s[a].nhs)
Loop == Result("loop", {}, {})
Error == Result("error", {}, {})

\* The outcome for every address of a recursion cut off at depth d.
At(d) == LookupsAtDepth(tree, interfaces, policies, Limit)[d]

(***************************************************************************)
(* Induction on the depth                                                  *)
(***************************************************************************)

\* Every non-empty set of naturals has a least member.
LEMMA Least ==
  ASSUME NEW T \in SUBSET Nat, T # {}
  PROVE  \E n \in T : \A m \in T : n <= m
<1>1. PICK x \in T : \A y \in T : ~(<<y, x>> \in OpToRel(<, Nat))
  BY WFMin, NatLessThanWellFounded, Zenon
<1>2. \A y \in T : ~(y < x)
  BY <1>1, ZenonT(40) DEF OpToRel
<1> QED BY <1>2

\* Induction on 0..n in the form the proofs below use: a set that contains 0 and
\* the successor of each of its members below n contains all of 0..n.
LEMMA Induct ==
  ASSUME NEW n \in Nat, NEW S, 0 \in S, \A d \in 0..(n - 1) : d \in S => d + 1 \in S
  PROVE  0..n \subseteq S
<1> SUFFICES ASSUME NEW k \in 0..n, k \notin S PROVE FALSE
  BY ZenonT(40)
<1>1. PICK m \in {d \in 0..n : d \notin S} : \A e \in {d \in 0..n : d \notin S} : m <= e
  <2>1. {d \in 0..n : d \notin S} \in SUBSET Nat /\ {d \in 0..n : d \notin S} # {}
    OBVIOUS
  <2> QED BY <2>1, Least, Zenon
<1>2. m # 0 /\ m \in 0..n /\ m \notin S
  BY <1>1, ZenonT(40)
<1>3. m - 1 \in 0..(n - 1) /\ m - 1 \in S
  BY <1>1, <1>2
<1> QED BY <1>2, <1>3

LEMMA LimitNat == Limit \in Nat /\ IsFiniteSet(Addresses)
<1>1. 0 \in Int /\ 2^Width - 1 \in Int
  BY RoutesAssumption
<1>2. IsFiniteSet(Addresses)
  BY <1>1, FS_Interval, ZenonT(40) DEF Addresses
<1> QED BY <1>2, FS_CardinalityType, ZenonT(40) DEF Limit

\* The defining equation of the recursion: a recursive function of TLA+ is a
\* CHOOSE, so that a function that satisfies its equation exists has to be shown.
LEMMA AtEquation ==
  /\ \A a \in Addresses : At(0)[a] = Loop
  /\ \A d \in 0..(Limit - 1), a \in Addresses : At(d + 1)[a] = Res(Host(a), At(d))
<1> DEFINE Body(g, d) == [a \in Addresses |-> IF d = 0 THEN Loop ELSE Res(Host(a), g[d - 1])]
           P(g, m) == g = [d \in 0..m |-> Body(g, d)]
           S == {m \in 0..Limit : \E g : P(g, m)}
           U == LookupsAtDepth(tree, interfaces, policies, Limit)
<1>1. 0 \in S
  <2> DEFINE g == [d \in 0..0 |-> [a \in Addresses |-> Loop]]
  <2>1. P(g, 0)
    OBVIOUS
  <2>2. \E f : P(f, 0)
    BY <2>1, ZenonT(40)
  <2>3. 0 \in 0..Limit
    BY LimitNat
  <2> QED BY <2>2, <2>3, ZenonT(40)
<1>2. ASSUME NEW m \in 0..(Limit - 1), m \in S
      PROVE  m + 1 \in S
  <2>1. PICK g : P(g, m)
    BY <1>2, ZenonT(40)
  <2> DEFINE h == [d \in 0..(m + 1) |-> IF d <= m THEN g[d] ELSE [a \in Addresses |-> Res(Host(a), g[m])]]
  <2>2. ASSUME NEW d \in 0..(m + 1) PROVE h[d] = Body(h, d)
    <3>1. CASE d = 0
      <4>1. h[d] = g[d] /\ d \in 0..m
        BY <3>1, LimitNat
      <4>2. g[d] = Body(g, d)
        BY <4>1, <2>1, ZenonT(40)
      <4> QED BY <4>1, <4>2, <3>1, ZenonT(40)
    <3>2. CASE d # 0 /\ d <= m
      <4>1. h[d] = g[d] /\ d \in 0..m /\ h[d - 1] = g[d - 1]
        BY <3>2, LimitNat
      <4>2. g[d] = Body(g, d)
        BY <4>1, <2>1, ZenonT(40)
      <4> QED BY <4>1, <4>2, <3>2, ZenonT(40)
    <3>3. CASE d = m + 1
      <4>1. h[d] = [a \in Addresses |-> Res(Host(a), g[m])] /\ d # 0 /\ d - 1 = m /\ h[m] = g[m]
        BY <3>3, LimitNat
      <4> QED BY <4>1
    <3> QED BY <3>1, <3>2, <3>3, LimitNat
  <2>3. P(h, m + 1)
    BY <2>2, ZenonT(40)
  <2>4. m + 1 \in 0..Limit
    BY LimitNat
  <2> QED BY <2>3, <2>4, ZenonT(40)
<1>3. Limit \in S
  <2> HIDE DEF S
  <2>1. 0..Limit \subseteq S
    BY <1>1, <1>2, LimitNat, Induct, ZenonT(40)
  <2> QED BY <2>1, LimitNat
<1>4. \E g : P(g, Limit)
  BY <1>3, ZenonT(40)
<1>5. U = CHOOSE g : P(g, Limit)
  BY ZenonT(40) DEF LookupsAtDepth, Res, Loop
<1>6. P(U, Limit)
  BY <1>4, <1>5, ZenonT(40)
<1>7. \A d \in 0..Limit : U[d] = Body(U, d)
  BY <1>6, ZenonT(40)
<1>8. ASSUME NEW a \in Addresses PROVE At(0)[a] = Loop
  <2>1. 0 \in 0..Limit
    BY LimitNat
  <2>2. U[0] = Body(U, 0)
    BY <1>7, <2>1, ZenonT(40)
  <2>3. U[0][a] = Loop
    BY <2>2, ZenonT(40)
  <2> QED BY <2>3, ZenonT(40) DEF At
<1>9. ASSUME NEW d \in 0..(Limit - 1), NEW a \in Addresses
      PROVE  At(d + 1)[a] = Res(Host(a), At(d))
  <2>1. d + 1 \in 0..Limit /\ d + 1 # 0 /\ (d + 1) - 1 = d
    BY LimitNat
  <2>2. U[d + 1] = Body(U, d + 1)
    BY <1>7, <2>1, ZenonT(40)
  <2>3. U[d + 1][a] = Res(Host(a), U[d])
    BY <2>1, <2>2, ZenonT(40)
  <2> QED BY <2>3, ZenonT(40) DEF At
<1> QED BY <1>8, <1>9, ZenonT(40)

(***************************************************************************)
(* One level of the recursion                                              *)
(***************************************************************************)

\* The three outcomes of one level, by what its lookups returned.
LEMMA ResCases ==
  ASSUME NEW p, NEW s
  PROVE  /\ Loops(p, s) => Res(p, s) = Loop
         /\ ~Loops(p, s) /\ Fails(p, s) => Res(p, s) = Error
         /\ ~Loops(p, s) /\ ~Fails(p, s) => Res(p, s) = BestEntries(Entries(p), NhsOf(p, s))
  BY Zenon DEF Res, ResolveEntries, Loops, Fails, Loop, Error, NhsOf, Lookups, Entries

LEMMA BestKind ==
  ASSUME NEW E, NEW f
  PROVE  BestEntries(E, f).kind = "ok"
  BY ZenonT(40) DEF BestEntries, Unresolved, Result

LEMMA ResKinds ==
  ASSUME NEW p, NEW s
  PROVE  /\ Res(p, s).kind = "loop" <=> Loops(p, s)
         /\ Res(p, s).kind \in {"loop", "error", "ok"}
         /\ Res(p, s).kind = "ok" => Res(p, s) = BestEntries(Entries(p), NhsOf(p, s))
         /\ Res(p, s).kind = "ok" <=> ~Loops(p, s) /\ ~Fails(p, s)
         /\ Res(p, s).kind # "ok" => Res(p, s).nhs = {} /\ Res(p, s).route = {}
<1>1. Loop.kind = "loop" /\ Error.kind = "error" /\ Loop.nhs = {} /\ Error.nhs = {}
      /\ Loop.route = {} /\ Error.route = {}
  BY ZenonT(40) DEF Loop, Error, Result
<1>2. BestEntries(Entries(p), NhsOf(p, s)).kind = "ok"
  BY BestKind, ZenonT(40)
<1> QED BY <1>1, <1>2, ResCases, ZenonT(40)

\* The outcome depends only on the outcomes of the lookups.
LEMMA ResLocal ==
  ASSUME NEW p, NEW s, NEW t, \A a \in Lookups(p) : s[a] = t[a]
  PROVE  Res(p, s) = Res(p, t)
<1>1. (Loops(p, s) <=> Loops(p, t)) /\ (Fails(p, s) <=> Fails(p, t))
  BY ZenonT(40) DEF Loops, Fails
<1>2. ASSUME NEW r \in Entries(p)
      PROVE  UNION {encapsulate(s[a].nhs, r, a, policies) : a \in r.nexthops}
               = UNION {encapsulate(t[a].nhs, r, a, policies) : a \in r.nexthops}
  <2>1. \A a \in r.nexthops : s[a] = t[a]
    BY ZenonT(40) DEF Lookups
  <2> QED BY <2>1, ZenonT(40)
<1>3. NhsOf(p, s) = NhsOf(p, t)
  BY <1>2, ZenonT(40) DEF NhsOf
<1> QED BY <1>1, <1>3, ResCases, ZenonT(40)

LEMMA LookupTypes ==
  ASSUME TypeInv, NEW p
  PROVE  /\ Entries(p) \subseteq tree
         /\ \A r \in Entries(p) : r \in Routes /\ r \in RouteType /\ r.nexthops \subseteq Addresses
         /\ Lookups(p) \subseteq Addresses
<1>1. Entries(p) \subseteq tree
  BY ZenonT(40) DEF Entries, entryForCIDR
<1>2. ASSUME NEW r \in Entries(p)
      PROVE  r \in Routes /\ r \in RouteType /\ r.nexthops \subseteq Addresses
  <2>1. r \in Routes /\ r \in RouteType
    BY <1>1, RoutesAssumption, ZenonT(40) DEF TypeInv
  <2> QED BY <2>1, ZenonT(40) DEF RouteType
<1> QED BY <1>1, <1>2, ZenonT(40) DEF Lookups

(***************************************************************************)
(* Depth                                                                   *)
(***************************************************************************)

\* An outcome that is not cut off is final: one more level does not change it.
LEMMA Stable ==
  ASSUME TypeInv, NEW d \in 0..(Limit - 1), NEW a \in Addresses, At(d)[a].kind # "loop"
  PROVE  At(d + 1)[a] = At(d)[a]
<1> DEFINE Good(e) == \A b \in Addresses : At(e)[b].kind # "loop" => At(e + 1)[b] = At(e)[b]
           S == {e \in 0..(Limit - 1) : Good(e)}
<1>0. Limit - 1 \in Nat
  BY LimitNat
<1>1. 0 \in S
  <2>1. Good(0)
    BY AtEquation DEF Loop, Result
  <2> QED BY <2>1, <1>0
<1>2. ASSUME NEW e \in 0..((Limit - 1) - 1), e \in S
      PROVE  e + 1 \in S
  <2>1. e \in 0..(Limit - 1) /\ e + 1 \in 0..(Limit - 1)
    BY LimitNat
  <2>2. ASSUME NEW b \in Addresses, At(e + 1)[b].kind # "loop"
        PROVE  At((e + 1) + 1)[b] = At(e + 1)[b]
    <3>1. At(e + 1)[b] = Res(Host(b), At(e)) /\ At((e + 1) + 1)[b] = Res(Host(b), At(e + 1))
      BY <2>1, AtEquation, ZenonT(40)
    <3>2. \A c \in Lookups(Host(b)) : At(e)[c].kind # "loop"
      BY <2>2, <3>1, ResKinds DEF Loops
    <3>3. \A c \in Lookups(Host(b)) : At(e + 1)[c] = At(e)[c]
      BY <1>2, <3>2, LookupTypes, ZenonT(40)
    <3>4. Res(Host(b), At(e + 1)) = Res(Host(b), At(e))
      BY <3>3, ResLocal, ZenonT(40)
    <3> QED BY <3>1, <3>4, ZenonT(40)
  <2>3. Good(e + 1)
    BY <2>2, ZenonT(40)
  <2> QED BY <2>1, <2>3, ZenonT(40)
<1>3. 0..(Limit - 1) \subseteq S
  <2> HIDE DEF S
  <2> QED BY <1>0, <1>1, <1>2, Induct, ZenonT(40)
<1> QED BY <1>3, ZenonT(40)

\* A lookup that ends within the depth limit has the outcome of egressNexthops.
LEMMA AtIsEgress ==
  ASSUME TypeInv, NEW a \in Addresses, At(Limit)[a].kind # "loop"
  PROVE  Egress(Host(a)) = At(Limit)[a]
<1>1. Limit # 0
  BY AtEquation DEF Loop, Result
<1>2. Limit - 1 \in 0..(Limit - 1) /\ (Limit - 1) + 1 = Limit
  BY <1>1, LimitNat
<1>3. At(Limit)[a] = Res(Host(a), At(Limit - 1))
  BY <1>2, AtEquation, ZenonT(40)
<1>4. \A b \in Lookups(Host(a)) : At(Limit - 1)[b].kind # "loop"
  BY <1>3, ResKinds DEF Loops
<1>5. \A b \in Lookups(Host(a)) : At(Limit)[b] = At(Limit - 1)[b]
  BY <1>2, <1>4, Stable, LookupTypes, ZenonT(40)
<1>6. Res(Host(a), At(Limit)) = Res(Host(a), At(Limit - 1))
  BY <1>5, ResLocal, ZenonT(40)
<1>7. Egress(Host(a)) = Res(Host(a), At(Limit))
  BY ZenonT(40) DEF Egress, EgressNexthops, Res, At, Limit
<1> QED BY <1>3, <1>6, <1>7, ZenonT(40)

LEMMA EgressIsRes ==
  ASSUME NEW p
  PROVE  Egress(p) = Res(p, At(Limit))
  BY ZenonT(40) DEF Egress, EgressNexthops, Res, At, Limit

(***************************************************************************)
(* Cycles                                                                  *)
(***************************************************************************)
Looping(d) == {a \in Addresses : At(d)[a].kind = "loop"}

LEMMA LeadsIsLookup ==
  ASSUME NEW a, NEW b
  PROVE  Leads(a, b) <=> b \in Lookups(Host(a))
  BY ZenonT(40) DEF Leads, Lookups, Entries

\* A lookup loops one level deeper exactly when it leads to one that loops.
LEMMA LoopingStep ==
  ASSUME NEW d \in 0..(Limit - 1), NEW a \in Addresses
  PROVE  At(d + 1)[a].kind = "loop" <=> \E b \in Lookups(Host(a)) : At(d)[b].kind = "loop"
  BY AtEquation, ResKinds DEF Loops

\* Lookups that keep leading into one another never end.
LEMMA EndlessLoops ==
  ASSUME NEW X \in SUBSET Addresses, \A a \in X : \E b \in X : Leads(a, b)
  PROVE  X \subseteq Looping(Limit)
<1> DEFINE S == {d \in 0..Limit : X \subseteq Looping(d)}
<1>1. 0 \in S
  BY AtEquation, LimitNat DEF Looping, Loop, Result
<1>2. ASSUME NEW d \in 0..(Limit - 1), d \in S
      PROVE  d + 1 \in S
  <2>1. ASSUME NEW a \in X PROVE At(d + 1)[a].kind = "loop"
    <3>1. PICK b \in X : b \in Lookups(Host(a))
      BY LeadsIsLookup, ZenonT(40)
    <3>2. At(d)[b].kind = "loop"
      BY <1>2, ZenonT(40) DEF Looping
    <3> QED BY <3>1, <3>2, LoopingStep, ZenonT(40)
  <2> QED BY <2>1, LimitNat DEF Looping
<1>3. 0..Limit \subseteq S
  <2> HIDE DEF S
  <2> QED BY <1>1, <1>2, LimitNat, Induct, ZenonT(40)
<1> QED BY <1>3, LimitNat

\* A deeper recursion loops on fewer lookups.
LEMMA LoopingShrinks ==
  ASSUME TypeInv, NEW d \in 0..(Limit - 1)
  PROVE  Looping(d + 1) \subseteq Looping(d)
  BY Stable, ZenonT(40) DEF Looping

\* Lookups that loop at two depths in a row lead into one another.
LEMMA FixpointEndless ==
  ASSUME TypeInv, NEW d \in 0..(Limit - 1), Looping(d + 1) = Looping(d)
  PROVE  Looping(d) \subseteq Endless
<1>1. ASSUME NEW a \in Looping(d) PROVE \E b \in Looping(d) : Leads(a, b)
  <2>1. a \in Addresses /\ At(d + 1)[a].kind = "loop"
    BY ZenonT(40) DEF Looping
  <2>2. PICK b \in Lookups(Host(a)) : At(d)[b].kind = "loop"
    BY <2>1, LoopingStep, ZenonT(40)
  <2>3. b \in Looping(d)
    BY <2>2, LookupTypes, ZenonT(40) DEF Looping
  <2> QED BY <2>2, <2>3, LeadsIsLookup, ZenonT(40)
<1>2. Looping(d) \in SUBSET Addresses
  BY ZenonT(40) DEF Looping
<1> QED BY <1>1, <1>2, ZenonT(40) DEF Endless

\* The recursion is deep enough: what still loops at the limit is on, or leads
\* to, a cycle.  Each level without a cycle settles at least one address.
LEMMA LoopingEndless ==
  ASSUME TypeInv
  PROVE  Looping(Limit) \subseteq Endless
<1> DEFINE Good(d) == Looping(d) \subseteq Endless \/ Cardinality(Looping(d)) <= Limit - d
           S == {d \in 0..Limit : Good(d)}
<1>0. ASSUME NEW d PROVE IsFiniteSet(Looping(d)) /\ Cardinality(Looping(d)) \in Nat
  <2>1. Looping(d) \in SUBSET Addresses
    BY ZenonT(40) DEF Looping
  <2> QED BY <2>1, LimitNat, FS_Subset, FS_CardinalityType, ZenonT(40)
<1>1. 0 \in S
  <2>1. Looping(0) \in SUBSET Addresses
    BY ZenonT(40) DEF Looping
  <2>2. Cardinality(Looping(0)) <= Limit - 0
    BY <2>1, LimitNat, FS_Subset DEF Limit
  <2> QED BY <2>2, LimitNat
<1>2. ASSUME NEW d \in 0..(Limit - 1), d \in S
      PROVE  d + 1 \in S
  <2>1. Looping(d + 1) \subseteq Looping(d)
    BY LoopingShrinks, ZenonT(40)
  <2>2. CASE Looping(d) \subseteq Endless
    BY <2>1, <2>2, LimitNat
  <2>3. CASE Looping(d + 1) = Looping(d)
    BY <2>3, FixpointEndless, LimitNat
  <2>4. CASE Looping(d + 1) # Looping(d) /\ ~(Looping(d) \subseteq Endless)
    <3>1. Cardinality(Looping(d)) <= Limit - d
      BY <1>2, <2>4, ZenonT(40)
    <3>2. Cardinality(Looping(d + 1)) < Cardinality(Looping(d))
      <4>1. Looping(d + 1) \in SUBSET Looping(d)
        BY <2>1, ZenonT(40)
      <4> HIDE DEF S, Good
      <4>2. Cardinality(Looping(d + 1)) <= Cardinality(Looping(d))
            /\ Cardinality(Looping(d + 1)) # Cardinality(Looping(d))
        BY <4>1, <2>4, <1>0, FS_Subset, ZenonT(40)
      <4> QED BY <4>2, <1>0
    <3>3. Cardinality(Looping(d + 1)) <= Limit - (d + 1)
      BY <3>1, <3>2, <1>0, LimitNat
    <3> QED BY <3>3, LimitNat
  <2> QED BY <2>2, <2>3, <2>4, ZenonT(40)
<1>3. 0..Limit \subseteq S
  <2> HIDE DEF S
  <2> QED BY <1>1, <1>2, LimitNat, Induct, ZenonT(40)
<1>4. Good(Limit)
  BY <1>3, LimitNat
<1>5. CASE Cardinality(Looping(Limit)) <= Limit - Limit
  <2>1. Cardinality(Looping(Limit)) = 0
    BY <1>5, <1>0, LimitNat
  <2> QED BY <2>1, <1>0, FS_EmptySet, ZenonT(40)
<1> QED BY <1>4, <1>5, ZenonT(40)

LEMMA EndsLemma == TypeInv => EndsUnlessCyclic
<1> SUFFICES ASSUME TypeInv, NEW p \in Prefixes
             PROVE  (\E r \in entryForCIDR(tree, p) : r.nexthops \cap Endless # {})
                      <=> Egress(p).kind = "loop"
  BY ZenonT(40) DEF EndsUnlessCyclic
<1>1. (\E r \in entryForCIDR(tree, p) : r.nexthops \cap Endless # {})
        <=> \E a \in Lookups(p) : a \in Endless
  BY ZenonT(40) DEF Lookups, Entries
<1>2. Endless = Looping(Limit)
  <2>1. Endless \subseteq Looping(Limit)
    BY EndlessLoops, ZenonT(40) DEF Endless
  <2> QED BY <2>1, LoopingEndless, ZenonT(40)
<1>3. Egress(p).kind = "loop" <=> \E a \in Lookups(p) : At(Limit)[a].kind = "loop"
  BY EgressIsRes, ResKinds, ZenonT(40) DEF Loops
<1> QED BY <1>1, <1>2, <1>3, LookupTypes, ZenonT(40) DEF Looping

(***************************************************************************)
(* Preference                                                              *)
(***************************************************************************)
BestOf(E, f) == {r \in E : f[r] # {} /\ \A s \in E : f[s] # {} => ~PrefBefore(s, r)}

\* Among any entries, however many, there are some that no other precedes.
LEMMA BestExists ==
  ASSUME NEW E, E # {}, \A r \in E : r.ad \in Nat /\ r.metric \in Nat
  PROVE  \E r \in E : \A s \in E : ~PrefBefore(s, r)
<1>1. PICK m \in {r.ad : r \in E} : \A n \in {r.ad : r \in E} : m <= n
  <2>1. {r.ad : r \in E} \in SUBSET Nat /\ {r.ad : r \in E} # {}
    BY ZenonT(40)
  <2> QED BY <2>1, Least, Zenon
<1> DEFINE F == {r \in E : r.ad = m}
<1>2. PICK k \in {r.metric : r \in F} : \A n \in {r.metric : r \in F} : k <= n
  <2>1. {r.metric : r \in F} \in SUBSET Nat /\ {r.metric : r \in F} # {}
    BY <1>1, ZenonT(40)
  <2> HIDE DEF F
  <2> QED BY <2>1, Least, Zenon
<1>3. PICK r \in F : r.metric = k
  BY <1>2, ZenonT(40)
<1>4. ASSUME NEW s \in E PROVE ~PrefBefore(s, r)
  <2>1. m <= s.ad /\ r.ad = m /\ r \in E /\ (s.ad = m => k <= s.metric)
    BY <1>1, <1>2, <1>3, ZenonT(40)
  <2> QED BY <2>1, <1>3 DEF PrefBefore
<1> QED BY <1>3, <1>4, ZenonT(40)

LEMMA BestShape ==
  ASSUME NEW E, NEW f, \A r \in E : r.ad \in Nat /\ r.metric \in Nat
  PROVE  /\ BestEntries(E, f).nhs = UNION {f[r] : r \in BestOf(E, f)}
         /\ BestEntries(E, f).nhs # {} <=> \E r \in E : f[r] # {}
         /\ BestEntries(E, f).route # {} <=> BestEntries(E, f).nhs # {}
         /\ BestEntries(E, f).route \subseteq E
<1> DEFINE usable == {r \in E : f[r] # {}}
           best == {r \in usable : \A s \in usable : ~PrefBefore(s, r)}
<1>1. best = BestOf(E, f)
  BY ZenonT(40) DEF BestOf
<1>2. CASE usable = {}
  <2>1. BestEntries(E, f) = Unresolved
    BY <1>2, ZenonT(40) DEF BestEntries
  <2>2. BestEntries(E, f).nhs = {} /\ BestEntries(E, f).route = {}
    BY <2>1 DEF Unresolved, Result
  <2> QED BY <2>2, <1>1, <1>2, ZenonT(40)
<1>3. CASE usable # {}
  <2>1. BestEntries(E, f) = Result("ok", UNION {f[r] : r \in best},
                                   {r \in E : \E s \in best : SamePref(r, s)})
    BY <1>3, ZenonT(40) DEF BestEntries
  <2>2. BestEntries(E, f).nhs = UNION {f[r] : r \in best}
        /\ BestEntries(E, f).route = {r \in E : \E s \in best : SamePref(r, s)}
    BY <2>1 DEF Result
  <2>3. PICK r \in usable : r \in best
    <3>1. \E r \in usable : \A s \in usable : ~PrefBefore(s, r)
      BY <1>3, BestExists, ZenonT(40)
    <3> QED BY <3>1, ZenonT(40)
  <2>4. r \in E /\ f[r] # {} /\ SamePref(r, r)
    BY <2>3, ZenonT(40) DEF SamePref
  <2>5. BestEntries(E, f).nhs # {} /\ BestEntries(E, f).route # {}
        /\ BestEntries(E, f).route \subseteq E
    BY <2>2, <2>3, <2>4
  <2> QED BY <2>2, <2>4, <2>5, <1>1, ZenonT(40)
<1> QED BY <1>2, <1>3, ZenonT(40)

LEMMA PrefTypes ==
  ASSUME TypeInv, NEW p
  PROVE  \A r \in Entries(p) : r.ad \in Nat /\ r.metric \in Nat
  BY LookupTypes DEF RouteType

(***************************************************************************)
(* Reachability                                                            *)
(***************************************************************************)

\* What an entry contributes is not empty when it is connected and enabled, or
\* one of its next hops resolved.
LEMMA NhsOfNonEmpty ==
  ASSUME TypeInv, NEW p, NEW s, NEW r \in Entries(p)
  PROVE  /\ r.connected \in interfaces => NhsOf(p, s)[r] # {}
         /\ \A a \in r.nexthops : s[a].nhs # {} => NhsOf(p, s)[r] # {}
         /\ NhsOf(p, s)[r] # {} => \/ r.connected \in interfaces
                                   \/ \E a \in r.nexthops : s[a].nhs # {}
<1>1. r.connected \in interfaces => IsConnected(r)
  BY RoutesAssumption, ZenonT(40) DEF TypeInv, IsConnected
<1>2. IsConnected(r) => r.nexthops = {}
  BY LookupTypes, RoutesAssumption, ZenonT(40)
<1>3. CASE IsConnected(r)
  <2>1. NhsOf(p, s)[r] = connectedNexthops(r, interfaces, p)
    BY <1>3, ZenonT(40) DEF NhsOf
  <2> QED BY <2>1, <1>2, <1>3, ZenonT(40) DEF connectedNexthops
<1>4. CASE ~IsConnected(r)
  <2>1. NhsOf(p, s)[r] = UNION {encapsulate(s[a].nhs, r, a, policies) : a \in r.nexthops}
    BY <1>4, ZenonT(40) DEF NhsOf
  <2>2. \A a : encapsulate(s[a].nhs, r, a, policies) # {} <=> s[a].nhs # {}
    BY ZenonT(40) DEF encapsulate
  <2>3. \A a \in r.nexthops : s[a].nhs # {} => NhsOf(p, s)[r] # {}
    BY <2>1, <2>2, ZenonT(40)
  <2>4. NhsOf(p, s)[r] # {} => \E a \in r.nexthops : s[a].nhs # {}
    BY <2>1, <2>2
  <2> QED BY <2>3, <2>4, <1>1, <1>4, ZenonT(40)
<1> QED BY <1>3, <1>4, ZenonT(40)

LEMMA AliveClosed ==
  ASSUME NEW a \in Addresses, Direct(Host(a)) \/ \E x \in Alive : Leads(a, x)
  PROVE  a \in Alive
<1> SUFFICES ASSUME NEW X \in SUBSET Addresses,
                    \A b \in Addresses : (Direct(Host(b)) \/ \E x \in X : Leads(b, x)) => b \in X
             PROVE  a \in X
  BY ZenonT(40) DEF Alive
<1>1. Alive \subseteq X
  BY ZenonT(40) DEF Alive
<1> QED BY <1>1, ZenonT(40)

\* An address that resolved to something, at any depth, is alive.
LEMMA ResolvedAlive ==
  ASSUME TypeInv
  PROVE  \A a \in Addresses : At(Limit)[a].nhs # {} => a \in Alive
<1> DEFINE Good(d) == \A a \in Addresses : At(d)[a].nhs # {} => a \in Alive
           S == {d \in 0..Limit : Good(d)}
<1>1. 0 \in S
  BY AtEquation, LimitNat DEF Loop, Result
<1>2. ASSUME NEW d \in 0..(Limit - 1), d \in S
      PROVE  d + 1 \in S
  <2>1. ASSUME NEW a \in Addresses, At(d + 1)[a].nhs # {}
        PROVE  a \in Alive
    <3>1. At(d + 1)[a] = Res(Host(a), At(d))
      BY AtEquation, ZenonT(40)
    <3>2. At(d + 1)[a] = BestEntries(Entries(Host(a)), NhsOf(Host(a), At(d)))
      BY <2>1, <3>1, ResKinds, ZenonT(40)
    <3>3. PICK r \in Entries(Host(a)) : NhsOf(Host(a), At(d))[r] # {}
      BY <2>1, <3>2, BestShape, PrefTypes
    <3>4. CASE r.connected \in interfaces
      BY <3>4, AliveClosed, ZenonT(40) DEF Direct, Entries
    <3>5. CASE \E b \in r.nexthops : At(d)[b].nhs # {}
      <4>1. PICK b \in r.nexthops : At(d)[b].nhs # {}
        BY <3>5, ZenonT(40)
      <4>2. b \in Addresses /\ Leads(a, b)
        BY LookupTypes, ZenonT(40) DEF Leads, Entries
      <4> QED BY <4>1, <4>2, <1>2, AliveClosed, ZenonT(40)
    <3> QED BY <3>3, <3>4, <3>5, NhsOfNonEmpty, ZenonT(40)
  <2>2. d + 1 \in 0..Limit
    BY LimitNat
  <2> QED BY <2>1, <2>2, ZenonT(40)
<1>3. 0..Limit \subseteq S
  <2> HIDE DEF S
  <2> QED BY <1>1, <1>2, LimitNat, Induct
<1> QED BY <1>3, LimitNat

\* An alive address that resolves without an error or a cycle has next hops:
\* the others form a closed set.
LEMMA AliveResolved ==
  ASSUME TypeInv, NEW a \in Alive, At(Limit)[a].kind = "ok"
  PROVE  At(Limit)[a].nhs # {}
<1> DEFINE X == {b \in Addresses : At(Limit)[b].kind = "ok" => At(Limit)[b].nhs # {}}
<1>1. ASSUME NEW b \in Addresses, Direct(Host(b)) \/ \E x \in X : Leads(b, x),
             At(Limit)[b].kind = "ok"
      PROVE  At(Limit)[b].nhs # {}
  <2>1. At(Limit)[b] = Res(Host(b), At(Limit))
    BY <1>1, AtIsEgress, EgressIsRes, ZenonT(40)
  <2>2. At(Limit)[b] = BestEntries(Entries(Host(b)), NhsOf(Host(b), At(Limit)))
    BY <1>1, <2>1, ResKinds, ZenonT(40)
  <2>3. SUFFICES \E r \in Entries(Host(b)) : NhsOf(Host(b), At(Limit))[r] # {}
    BY <2>2, BestShape, PrefTypes
  <2>4. CASE Direct(Host(b))
    BY <2>4, NhsOfNonEmpty, ZenonT(40) DEF Direct, Entries
  <2>5. CASE \E x \in X : Leads(b, x)
    <3>1. PICK x \in X : Leads(b, x)
      BY <2>5, ZenonT(40)
    <3>2. PICK r \in Entries(Host(b)) : x \in r.nexthops
      BY <3>1, ZenonT(40) DEF Leads, Entries
    <3>3. x \in Lookups(Host(b))
      BY <3>2, ZenonT(40) DEF Lookups
    <3>4. At(Limit)[x].kind # "loop" /\ At(Limit)[x].kind # "error"
      BY <1>1, <2>1, <3>3, ResKinds DEF Loops, Fails
    <3>5. At(Limit)[x].kind = "ok"
      BY <3>4, AtIsEgress, EgressIsRes, ResKinds, SMTT(30)
    <3> QED BY <3>1, <3>2, <3>5, NhsOfNonEmpty, ZenonT(40)
  <2> QED BY <1>1, <2>4, <2>5, ZenonT(40)
<1>2. X \in SUBSET Addresses /\ \A b \in Addresses : (Direct(Host(b)) \/ \E x \in X : Leads(b, x)) => b \in X
  BY <1>1, ZenonT(40)
<1>3. a \in X
  <2> HIDE DEF X
  <2> QED BY <1>2, ZenonT(40) DEF Alive
<1> QED BY <1>3, ZenonT(40)

\* When the lookups of p end well, the entries with something to contribute are
\* those that reach an enabled interface.
LEMMA UsableReaches ==
  ASSUME TypeInv, NEW p, Egress(p).kind = "ok"
  PROVE  /\ \A a \in Lookups(p) : /\ At(Limit)[a].kind = "ok"
                                  /\ ~NestedGUE(At(Limit)[a].nhs)
                                  /\ Egress(Host(a)) = At(Limit)[a]
         /\ \A r \in Entries(p) : NhsOf(p, At(Limit))[r] # {} <=> Reaches(r)
         /\ Egress(p) = BestEntries(Entries(p), NhsOf(p, At(Limit)))
<1>1. Egress(p) = Res(p, At(Limit)) /\ ~Loops(p, At(Limit)) /\ ~Fails(p, At(Limit))
      /\ Egress(p) = BestEntries(Entries(p), NhsOf(p, At(Limit)))
  BY EgressIsRes, ResKinds, ZenonT(40)
<1>2. ASSUME NEW a \in Lookups(p)
      PROVE  /\ At(Limit)[a].kind = "ok"
             /\ ~NestedGUE(At(Limit)[a].nhs)
             /\ Egress(Host(a)) = At(Limit)[a]
  <2>1. a \in Addresses /\ At(Limit)[a].kind # "loop" /\ At(Limit)[a].kind # "error"
        /\ ~NestedGUE(At(Limit)[a].nhs)
    BY <1>1, LookupTypes, ZenonT(40) DEF Loops, Fails
  <2>2. Egress(Host(a)) = At(Limit)[a] /\ Egress(Host(a)) = Res(Host(a), At(Limit))
    BY <2>1, AtIsEgress, EgressIsRes, ZenonT(40)
  <2> QED BY <2>1, <2>2, ResKinds
<1>3. ASSUME NEW r \in Entries(p)
      PROVE  NhsOf(p, At(Limit))[r] # {} <=> Reaches(r)
  <2>1. \A a \in r.nexthops : a \in Lookups(p) /\ a \in Addresses
    BY LookupTypes, ZenonT(40) DEF Lookups
  <2>2. \A a \in r.nexthops : At(Limit)[a].nhs # {} <=> a \in Alive
    BY <1>2, <2>1, ResolvedAlive, AliveResolved, ZenonT(40)
  <2> QED BY <2>2, NhsOfNonEmpty, ZenonT(40) DEF Reaches
<1> QED BY <1>1, <1>2, <1>3, ZenonT(40)

LEMMA HostPrefix ==
  ASSUME NEW a \in Addresses
  PROVE  Host(a) \in Prefixes
  BY RoutesAssumption DEF Host, Prefixes, Addresses

\* One level of the recursion yields well-formed next hops from such.
LEMMA NhsOfTypes ==
  ASSUME TypeInv, NEW p \in Prefixes, NEW s, NEW r \in Entries(p),
         \A a \in Lookups(p) : s[a].nhs \subseteq ResolvedNexthop
  PROVE  NhsOf(p, s)[r] \subseteq ResolvedNexthop
<1>1. CASE IsConnected(r)
  <2>1. NhsOf(p, s)[r] = connectedNexthops(r, interfaces, p)
    BY <1>1, ZenonT(40) DEF NhsOf
  <2>2. p[2] = Width => p[1] \in Addresses
    BY DEF Prefixes, Addresses
  <2>3. NoGUE \in SUBSET [policy : Prefixes, dst : Addresses]
    BY ZenonT(40) DEF NoGUE
  <2> QED BY <2>1, <2>2, <2>3 DEF connectedNexthops, ResolvedNexthop, TypeInv
<1>2. CASE ~IsConnected(r)
  <2>1. NhsOf(p, s)[r] = UNION {encapsulate(s[a].nhs, r, a, policies) : a \in r.nexthops}
    BY <1>2, ZenonT(40) DEF NhsOf
  <2>2. ASSUME NEW a \in r.nexthops PROVE encapsulate(s[a].nhs, r, a, policies) \subseteq ResolvedNexthop
    <3>1. a \in Addresses /\ s[a].nhs \subseteq ResolvedNexthop
      BY LookupTypes, ZenonT(40) DEF Lookups
    <3>2. getGUEHeader(policies, a) \in SUBSET [policy : Prefixes, dst : Addresses]
      BY <3>1, PoliciesAssumption DEF getGUEHeader, Deepest, TypeInv
    <3>3. (IF IsBGP(r) THEN getGUEHeader(policies, a) ELSE NoGUE)
             \in SUBSET [policy : Prefixes, dst : Addresses]
      BY <3>2, ZenonT(40) DEF NoGUE
    <3>4. ASSUME NEW x \in ResolvedNexthop, NEW g \in SUBSET [policy : Prefixes, dst : Addresses]
          PROVE  [x EXCEPT !.gue = g] \in ResolvedNexthop
      BY ZenonT(40) DEF ResolvedNexthop
    <3> QED BY <3>1, <3>3, <3>4 DEF encapsulate
  <2> QED BY <2>1, <2>2, ZenonT(40)
<1> QED BY <1>1, <1>2, ZenonT(40)

LEMMA ResTypes ==
  ASSUME TypeInv, NEW p \in Prefixes, NEW s,
         \A a \in Lookups(p) : s[a].nhs \subseteq ResolvedNexthop
  PROVE  Res(p, s).nhs \subseteq ResolvedNexthop
<1>1. CASE Res(p, s).kind # "ok"
  BY <1>1, ResKinds, ZenonT(40)
<1>2. CASE Res(p, s).kind = "ok"
  <2>1. Res(p, s).nhs = UNION {NhsOf(p, s)[r] : r \in BestOf(Entries(p), NhsOf(p, s))}
    BY <1>2, ResKinds, BestShape, PrefTypes, SMTT(30)
  <2>2. \A r \in BestOf(Entries(p), NhsOf(p, s)) : NhsOf(p, s)[r] \subseteq ResolvedNexthop
    BY NhsOfTypes, ZenonT(40) DEF BestOf
  <2> QED BY <2>1, <2>2, ZenonT(40)
<1> QED BY <1>1, <1>2, ZenonT(40)

LEMMA AtTypes ==
  ASSUME TypeInv
  PROVE  \A a \in Addresses : At(Limit)[a].nhs \subseteq ResolvedNexthop
<1> DEFINE Good(d) == \A a \in Addresses : At(d)[a].nhs \subseteq ResolvedNexthop
           S == {d \in 0..Limit : Good(d)}
<1>1. 0 \in S
  BY AtEquation, LimitNat DEF Loop, Result
<1>2. ASSUME NEW d \in 0..(Limit - 1), d \in S
      PROVE  d + 1 \in S
  <2>1. \A a \in Addresses : At(d + 1)[a].nhs \subseteq ResolvedNexthop
    BY <1>2, AtEquation, ResTypes, HostPrefix, LookupTypes, ZenonT(40)
  <2> QED BY <2>1, LimitNat
<1>3. 0..Limit \subseteq S
  <2> HIDE DEF S
  <2> QED BY <1>1, <1>2, LimitNat, Induct
<1> QED BY <1>3, LimitNat

LEMMA ReachableLemma == TypeInv => ResolvedIffReachable
<1> SUFFICES ASSUME TypeInv, NEW p \in Prefixes, Egress(p).kind = "ok"
             PROVE  /\ Egress(p).nhs # {} <=> \E r \in entryForCIDR(tree, p) : Reaches(r)
                    /\ Egress(p).route # {} <=> Egress(p).nhs # {}
                    /\ Egress(p).route \subseteq tree /\ Egress(p).nhs \subseteq ResolvedNexthop
  BY ZenonT(40) DEF ResolvedIffReachable
<1>1. Egress(p) = BestEntries(Entries(p), NhsOf(p, At(Limit)))
      /\ \A r \in Entries(p) : NhsOf(p, At(Limit))[r] # {} <=> Reaches(r)
  BY UsableReaches, ZenonT(40)
<1>2. /\ Egress(p).nhs # {} <=> \E r \in Entries(p) : Reaches(r)
      /\ Egress(p).route # {} <=> Egress(p).nhs # {}
      /\ Egress(p).route \subseteq Entries(p)
  BY <1>1, BestShape, PrefTypes
<1>3. Egress(p).nhs \subseteq ResolvedNexthop
  BY EgressIsRes, ResTypes, AtTypes, LookupTypes, ZenonT(40)
<1> QED BY <1>2, <1>3, LookupTypes, ZenonT(40) DEF Entries

\* The entries chosen are the winners of the reference definition.
LEMMA BestIsWinners ==
  ASSUME TypeInv, NEW p, Egress(p).kind = "ok"
  PROVE  BestOf(Entries(p), NhsOf(p, At(Limit))) = Winners(p)
<1>1. \A r \in Entries(p) : NhsOf(p, At(Limit))[r] # {} <=> Reaches(r)
  BY UsableReaches, ZenonT(40)
<1>2. \A r, t : PrefBefore(r, t) <=> Better(r, t)
  BY ZenonT(40) DEF PrefBefore, Better
<1> QED BY <1>1, <1>2, ZenonT(40) DEF BestOf, Winners, Entries

\* encapsulate keeps ports and puts the policy's header on.
LEMMA Encapsulated ==
  ASSUME NEW nhs \in SUBSET ResolvedNexthop, NEW r, NEW a
  PROVE  /\ Ports(encapsulate(nhs, r, a, policies)) = Ports(nhs)
         /\ \A x \in encapsulate(nhs, r, a, policies) :
              x.gue = IF IsBGP(r) THEN getGUEHeader(policies, a) ELSE NoGUE
<1> DEFINE g == IF IsBGP(r) THEN getGUEHeader(policies, a) ELSE NoGUE
<1>1. encapsulate(nhs, r, a, policies) = {[x EXCEPT !.gue = g] : x \in nhs}
  BY ZenonT(40) DEF encapsulate
<1> HIDE DEF g
<1>2. ASSUME NEW x \in nhs
      PROVE  [x EXCEPT !.gue = g].port = x.port /\ [x EXCEPT !.gue = g].gue = g
  BY ZenonT(40) DEF ResolvedNexthop
<1>3. Ports(encapsulate(nhs, r, a, policies)) = Ports(nhs)
  <2>1. Ports(encapsulate(nhs, r, a, policies)) = {[x EXCEPT !.gue = g].port : x \in nhs}
    BY <1>1, ZenonT(40) DEF Ports
  <2> QED BY <1>2, <2>1, ZenonT(40) DEF Ports
<1>4. \A x \in encapsulate(nhs, r, a, policies) : x.gue = g
  BY <1>1, <1>2, ZenonT(40)
<1> QED BY <1>3, <1>4, ZenonT(40) DEF g

LEMMA PreferenceLemma == TypeInv => BestPreferenceWins
<1> DEFINE Contribution(r) == IF IsConnected(r) THEN {r.connected}
                              ELSE UNION {Ports(Egress(Host(a)).nhs) : a \in r.nexthops}
<1> SUFFICES ASSUME TypeInv, NEW p \in Prefixes, Egress(p).kind = "ok"
             PROVE  Ports(Egress(p).nhs) = UNION {Contribution(r) : r \in Winners(p)}
  BY ZenonT(40) DEF BestPreferenceWins
<1>1. Egress(p).nhs = UNION {NhsOf(p, At(Limit))[r] : r \in Winners(p)}
  BY UsableReaches, BestIsWinners, BestShape, PrefTypes, SMTT(30)
<1>2. ASSUME NEW r \in Winners(p)
      PROVE  Ports(NhsOf(p, At(Limit))[r]) = Contribution(r)
  <2>1. r \in Entries(p) /\ Reaches(r)
    BY ZenonT(40) DEF Winners, Entries
  <2>2. CASE IsConnected(r)
    <3>1. r.connected \in interfaces
      BY <2>1, <2>2, LookupTypes, RoutesAssumption, ZenonT(40) DEF Reaches
    <3>2. NhsOf(p, At(Limit))[r] = connectedNexthops(r, interfaces, p)
      BY <2>1, <2>2, ZenonT(40) DEF NhsOf
    <3> QED BY <2>2, <3>1, <3>2 DEF connectedNexthops, Ports
  <2>3. CASE ~IsConnected(r)
    <3>1. NhsOf(p, At(Limit))[r]
            = UNION {encapsulate(At(Limit)[a].nhs, r, a, policies) : a \in r.nexthops}
      BY <2>1, <2>3, ZenonT(40) DEF NhsOf
    <3>2. ASSUME NEW a \in r.nexthops
          PROVE  Ports(encapsulate(At(Limit)[a].nhs, r, a, policies)) = Ports(Egress(Host(a)).nhs)
      <4>1. a \in Lookups(p) /\ a \in Addresses
        BY <2>1, LookupTypes, ZenonT(40) DEF Lookups
      <4>2. At(Limit)[a].nhs \in SUBSET ResolvedNexthop
        BY <4>1, AtTypes, ZenonT(40)
      <4> QED BY <4>1, <4>2, Encapsulated, UsableReaches, ZenonT(40)
    <3>3. Ports(NhsOf(p, At(Limit))[r])
            = UNION {Ports(encapsulate(At(Limit)[a].nhs, r, a, policies)) : a \in r.nexthops}
      BY <3>1 DEF Ports
    <3> QED BY <2>3, <3>2, <3>3, ZenonT(40)
  <2> QED BY <2>2, <2>3, ZenonT(40)
<1>3. Ports(Egress(p).nhs) = UNION {Ports(NhsOf(p, At(Limit))[r]) : r \in Winners(p)}
  BY <1>1 DEF Ports
<1> HIDE DEF Contribution
<1> QED BY <1>2, <1>3, ZenonT(40)

(***************************************************************************)
(* Encapsulation                                                           *)
(***************************************************************************)

\* The longest match is unique.
LEMMA DeepestUnique ==
  ASSUME NEW Q \in SUBSET Prefixes, NEW p, NEW q \in Deepest(Q, p), NEW o \in Deepest(Q, p)
  PROVE  q = o
<1>1. q \in Prefixes /\ o \in Prefixes /\ Covers(q, p) /\ Covers(o, p)
      /\ q[2] <= o[2] /\ o[2] <= q[2]
  BY ZenonT(40) DEF Deepest
<1>2. /\ q = <<q[1], q[2]>> /\ q[2] \in Nat
      /\ o = <<o[1], o[2]>> /\ o[2] \in Nat
  BY <1>1, RoutesAssumption DEF Prefixes
<1>3. q[2] = o[2]
  BY <1>1, <1>2
<1>4. q[1] = o[1]
  BY <1>1, <1>3, ZenonT(40) DEF Covers
<1> QED BY <1>2, <1>3, <1>4, ZenonT(40)

LEMMA OneHeader ==
  ASSUME TypeInv, NEW a
  PROVE  Cardinality(getGUEHeader(policies, a)) <= 1
<1>1. policies \in SUBSET Prefixes
  BY PoliciesAssumption, ZenonT(40) DEF TypeInv
<1>2. \A g, h \in getGUEHeader(policies, a) : g = h
  BY <1>1, DeepestUnique DEF getGUEHeader
<1>3. getGUEHeader(policies, a) = {} \/ \E g : getGUEHeader(policies, a) = {g}
  BY <1>2, ZenonT(40)
<1>4. Cardinality(getGUEHeader(policies, a)) = 0 \/ Cardinality(getGUEHeader(policies, a)) = 1
  BY <1>3, FS_EmptySet, FS_Singleton, Zenon
<1> QED BY <1>4

LEMMA EncapsulationLemma == TypeInv => EncapsulatedOnce
<1> SUFFICES ASSUME TypeInv, NEW p \in Prefixes, NEW x \in Egress(p).nhs
             PROVE  /\ Cardinality(x.gue) <= 1
                    /\ \A g \in x.gue :
                         /\ \E r \in Winners(p) : r.ad = AdminDistanceBGP /\ g.dst \in r.nexthops
                         /\ \A y \in Egress(Host(g.dst)).nhs : y.gue = NoGUE
                         /\ g.policy \in policies /\ Covers(g.policy, Host(g.dst))
  BY ZenonT(40) DEF EncapsulatedOnce
<1>1. Egress(p).kind = "ok"
  BY EgressIsRes, ResKinds, ZenonT(40)
<1>2. Egress(p).nhs = UNION {NhsOf(p, At(Limit))[r] : r \in Winners(p)}
  BY <1>1, UsableReaches, BestIsWinners, BestShape, PrefTypes, SMTT(30)
<1>3. PICK r \in Winners(p) : x \in NhsOf(p, At(Limit))[r]
  BY <1>2, ZenonT(40)
<1>4. r \in Entries(p)
  BY ZenonT(40) DEF Winners, Entries
<1>5. CASE x.gue = {}
  BY <1>5, FS_EmptySet
<1>6. CASE x.gue # {}
  <2>1. ~IsConnected(r)
    BY <1>3, <1>4, <1>6 DEF NhsOf, connectedNexthops, NoGUE
  <2>2. x \in UNION {encapsulate(At(Limit)[a].nhs, r, a, policies) : a \in r.nexthops}
    BY <1>3, <1>4, <2>1, ZenonT(40) DEF NhsOf
  <2>3. PICK a \in r.nexthops : x \in encapsulate(At(Limit)[a].nhs, r, a, policies)
    BY <2>2, ZenonT(40)
  <2>4. a \in Lookups(p) /\ a \in Addresses
    BY <1>4, LookupTypes, ZenonT(40) DEF Lookups
  <2>5. At(Limit)[a].nhs \in SUBSET ResolvedNexthop
    BY <2>4, AtTypes, ZenonT(40)
  <2>6. IsBGP(r) /\ x.gue = getGUEHeader(policies, a)
    BY <2>3, <2>5, <1>6, Encapsulated, ZenonT(40) DEF NoGUE
  <2>7. \A y \in Egress(Host(a)).nhs : y.gue = NoGUE
    BY <1>1, <2>4, UsableReaches, ZenonT(40) DEF NestedGUE
  <2>8. \A g \in x.gue : g.dst = a /\ g.policy \in policies /\ Covers(g.policy, Host(a))
    BY <2>6, SMTT(30) DEF getGUEHeader, Deepest
  <2>9. Cardinality(x.gue) <= 1
    BY <2>6, OneHeader, ZenonT(40)
  <2> QED BY <2>6, <2>7, <2>8, <2>9, ZenonT(40) DEF IsBGP
<1> QED BY <1>5, <1>6, ZenonT(40)

(***************************************************************************)
(* Theorems                                                                *)
(***************************************************************************)

\* The tree holds only routes that were added, and interfaces and policies only
\* known ones.
THEOREM TypesHold == Spec => []TypeInv
<1>1. Init => TypeInv
  BY ZenonT(40) DEF Init, TypeInv
<1>2. TypeInv /\ [Next]_vars => TypeInv'
  BY ZenonT(40) DEF TypeInv, Next, vars, SetRoute, setRoute, SetInterface, SetGUEPolicy, DeleteGUEPolicy
<1> QED BY <1>1, <1>2, PTL DEF Spec

\* egressNexthops resolves a prefix exactly when a chain of longest matches
\* leads from one of its entries to an enabled interface.
THEOREM ResolutionIsReachability == Spec => []ResolvedIffReachable
  BY TypesHold, ReachableLemma, PTL

\* The egress ports are those of all the entries of the best preference, among
\* the ones that reach an enabled interface.
THEOREM PreferenceDecides == Spec => []BestPreferenceWins
  BY TypesHold, PreferenceLemma, PTL

\* The recursion is endless exactly when the lookups run into a cycle.
THEOREM OnlyCyclesLoop == Spec => []EndsUnlessCyclic
  BY TypesHold, EndsLemma, PTL

\* A next hop carries at most one GUE header, of a BGP route's own next hop.
THEOREM HeadersDoNotNest == Spec => []EncapsulatedOnce
  BY TypesHold, EncapsulationLemma, PTL
=============================================================================

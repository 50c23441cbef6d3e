----------------------- MODULE RouteReconcilerProofs -----------------------
(***************************************************************************)
(* Proofs about RouteReconciler, for any prefixes, hops and routes, and    *)
(* any number of changes and failed calls.                                 *)
(*                                                                         *)
(* The core of the invariant is ownership: what one prefix refers to, in   *)
(* the FIB or in its route data, no other prefix does, and what the        *)
(* callback is building nobody refers to yet.                              *)
(***************************************************************************)
EXTENDS RouteReconciler, TLAPS

Creating == {"createGroup", "createHop", "addGue", "createMember"}
Removing == {"removeMember", "removeHop", "removeGroup", "removeRoute"}
Pcs == {"idle", "crashed", "createRoute"} \cup Creating \cup Removing
Active == job.pc \notin {"idle", "crashed"}

(***************************************************************************)
(* The inductive invariant                                                 *)
(***************************************************************************)
Typed ==
  /\ DOMAIN fib = Prefixes
  /\ \A p \in Prefixes : fib[p] \in [kind : {"none", "rif", "nh", "nhg"}, id : Nat]
  /\ DOMAIN data = Prefixes
  /\ \A p \in Prefixes : data[p] \in [nh : Nat, group : Nat, members : {data[p].members}]
  /\ \A id \in DOMAIN nhTable : nhTable[id] \in Hops
  /\ \A g \in DOMAIN groups : DOMAIN groups[g] \subseteq Ids
  /\ oid \in Nat
  /\ job \in [pc : Pcs, p : Prefixes \cup {Nil}, left : Seq(Hops), group : Nat, nh : Nat,
              members : {job.members}]
  /\ Active => job.p \in Prefixes
  /\ want \in [Prefixes -> Routes \cup {Nil}]
  /\ failures \in 0..MaxFailures /\ events \in 0..MaxEvents

\* H holds the ids of next hops; ids outside it may be groups.
KindsIn(H) ==
  /\ DOMAIN nhTable \subseteq H /\ nhActions \subseteq H
  /\ \A g \in DOMAIN nhgTable : nhgTable[g] \subseteq H
  /\ \A g \in DOMAIN groups : Range(groups[g]) \subseteq H
  /\ \A p \in Prefixes : HopsOf(data[p]) \subseteq H /\ (fib[p].kind = "nh" => fib[p].id \in H)
  /\ DOMAIN job.members \subseteq H /\ (job.nh # NoId => job.nh \in H)
  /\ DOMAIN nhgTable \subseteq Ids \ H /\ DOMAIN groups \subseteq Ids \ H
  /\ \A p \in Prefixes : /\ isNHG(data[p]) => data[p].group \in Ids \ H
                         /\ fib[p].kind = "nhg" => fib[p].id \in Ids \ H
  /\ job.group # NoId => job.group \in Ids \ H
Kinds == \E H \in SUBSET Ids : KindsIn(H)

\* What the entry, and what the route data of a prefix refer to.
FibRefs(p) == IF fib[p].kind \in {"nh", "nhg"} THEN {fib[p].id} \cup Selects(p) ELSE {}
DataRefs(p) == HopsOf(data[p]) \cup ({data[p].group} \ {NoId})
Refs(p) == FibRefs(p) \cup DataRefs(p)

JobHops == DOMAIN job.members \cup ({job.nh} \ {NoId})
JobRefs == JobHops \cup ({job.group} \ {NoId})

Owned ==
  /\ \A p, q \in Prefixes : p # q => Refs(p) \cap Refs(q) = {}
  /\ \A p \in Prefixes : isNHG(data[p]) /\ data[p].group \in DOMAIN groups =>
       Range(groups[data[p].group]) \subseteq HopsOf(data[p])

\* The callback builds from fresh ids, and removes what the route data holds.
JobOwned ==
  /\ job.pc \in Creating => /\ want[job.p] \in Routes \ {Iface}
                            /\ \A q \in Prefixes : JobRefs \cap Refs(q) = {}
  /\ job.pc = "createRoute" => want[job.p] \in Routes
  /\ job.pc \in Removing => want[job.p] = Nil
  /\ job.pc \in Removing \cup {"createRoute"} =>
       JobHops \subseteq HopsOf(data[job.p]) /\ job.group \in {NoId, data[job.p].group}

\* What has been built so far and what is left make up the value of the route.
Made == {Seen(id) : id \in DOMAIN job.members}
MeantHops(s) == {<<h, h \in GueHops>> : h \in Range(s)}
GroupBuilt ==
  /\ job.group \in DOMAIN groups
  /\ Range(groups[job.group]) = DOMAIN job.members
  /\ DOMAIN job.members # {} =>
       job.group \in DOMAIN nhgTable /\ nhgTable[job.group] = DOMAIN job.members
Built ==
  /\ job.pc \in Creating \cup {"createRoute"} => DOMAIN job.members \subseteq DOMAIN nhTable
  /\ job.pc = "createGroup" =>
       job.left # <<>> /\ job.nh = NoId /\ DOMAIN job.members = {}
         /\ MeantHops(job.left) = Meant(want[job.p])
  /\ job.pc \in {"createHop", "addGue", "createMember"} =>
       IF job.group = NoId THEN DOMAIN job.members = {} ELSE GroupBuilt
  /\ job.pc = "createHop" =>
       /\ job.left # <<>> /\ (job.group = NoId => Tail(job.left) = <<>>)
       /\ job.nh \in DOMAIN job.members \cup {NoId}
       /\ Made \cup MeantHops(job.left) = Meant(want[job.p])
  /\ job.pc = "addGue" =>
       /\ job.group = NoId => job.left = <<>>
       /\ job.nh \in DOMAIN nhTable \ DOMAIN job.members /\ nhTable[job.nh] \in GueHops
       /\ Made \cup {<<nhTable[job.nh], TRUE>>} \cup MeantHops(job.left) = Meant(want[job.p])
  /\ job.pc = "createMember" =>
       /\ job.group # NoId /\ job.nh \in DOMAIN nhTable
       /\ Made \cup {Seen(job.nh)} \cup MeantHops(job.left) = Meant(want[job.p])
  /\ job.pc = "createRoute" /\ want[job.p] # Iface =>
       IF job.group # NoId
       THEN GroupBuilt /\ DOMAIN job.members # {} /\ Made = Meant(want[job.p])
       ELSE job.nh \in DOMAIN nhTable /\ {Seen(job.nh)} = Meant(want[job.p])

Resolves == \A p \in Prefixes \ stuck :
  fib[p].kind \in {"nh", "nhg"} /\ ~Deleting(p) =>
    Selects(p) # {} /\ Selects(p) \subseteq DOMAIN nhTable

Follows == \A p \in Prefixes \ dirty : ~Active \/ job.p # p => Reach(p) = Meant(want[p])

\* The hops of its route data a deletion has still to remove.
Pending(p) == IF job.p # p THEN {}
              ELSE IF job.pc = "removeMember" THEN DOMAIN job.members
              ELSE IF job.pc = "removeHop" THEN DOMAIN job.members \cup {job.nh}
              ELSE {}
Accounted ==
  /\ superseded \subseteq DOMAIN nhTable
  /\ \A p \in Prefixes : superseded \cap HopsOf(data[p]) = {}
  /\ job.pc \in Creating => superseded \cap JobHops = {}
  /\ \A id \in DOMAIN nhTable : \/ id \in superseded
                                \/ \E p \in Prefixes : id \in HopsOf(data[p])
                                \/ job.pc \in Creating /\ id \in JobHops
  /\ \A p \in Prefixes : want[p] = Nil => HopsOf(data[p]) \cap DOMAIN nhTable \subseteq Pending(p)

IInv == /\ Typed /\ Kinds /\ Owned /\ JobOwned /\ Built /\ Resolves /\ Follows
        /\ failures = 0 => Accounted

(***************************************************************************)
(* Maps and sequences                                                      *)
(***************************************************************************)
LEMMA WithFacts ==
  ASSUME NEW f, NEW k, NEW v
  PROVE  /\ DOMAIN With(f, k, v) = DOMAIN f \cup {k}
         /\ With(f, k, v)[k] = v
         /\ \A x \in DOMAIN f : x # k => With(f, k, v)[x] = f[x]
         /\ k \notin DOMAIN f => Range(With(f, k, v)) = Range(f) \cup {v}
<1>1. /\ DOMAIN With(f, k, v) = DOMAIN f \cup {k}
      /\ With(f, k, v)[k] = v
      /\ \A x \in DOMAIN f : x # k => With(f, k, v)[x] = f[x]
  BY ZenonT(40) DEF With
<1>2. k \notin DOMAIN f => Range(With(f, k, v)) = Range(f) \cup {v}
  BY <1>1, ZenonT(40) DEF Range
<1> QED BY <1>1, <1>2, ZenonT(40)

LEMMA WithoutFacts ==
  ASSUME NEW f, NEW k
  PROVE  /\ DOMAIN Without(f, k) = DOMAIN f \ {k}
         /\ \A x \in DOMAIN f : x # k => Without(f, k)[x] = f[x]
         /\ Range(Without(f, k)) \subseteq Range(f)
<1>1. /\ DOMAIN Without(f, k) = DOMAIN f \ {k}
      /\ \A x \in DOMAIN f : x # k => Without(f, k)[x] = f[x]
  BY ZenonT(40) DEF Without, Restrict
<1>2. Range(Without(f, k)) \subseteq Range(f)
  BY <1>1, ZenonT(40) DEF Range
<1> QED BY <1>1, <1>2, ZenonT(40)

LEMMA NoSequence == <<>> \in Seq(Hops) /\ \A s \in Seq(Hops) : Len(s) = 0 => s = <<>>
  OBVIOUS

LEMMA EmptyFacts == DOMAIN Empty = {} /\ Range(Empty) = {}
  BY ZenonT(40) DEF Empty, Range

\* The route data of a single hop refer to the hop and to no group.
LEMMA BareData ==
  ASSUME NEW x
  PROVE  HopsOf(RouteData(x, NoId, Empty)) \subseteq {x} \ {NoId} /\ ~isNHG(RouteData(x, NoId, Empty))
  BY ZenonT(40) DEF HopsOf, isNHG, RouteData

LEMMA SeqFacts ==
  ASSUME NEW s \in Seq(Hops), s # <<>>
  PROVE  /\ Head(s) \in Hops /\ Tail(s) \in Seq(Hops)
         /\ MeantHops(s) = {<<Head(s), Head(s) \in GueHops>>} \cup MeantHops(Tail(s))
<1>1. Head(s) \in Hops /\ Tail(s) \in Seq(Hops)
  OBVIOUS
<1>2. Range(s) \subseteq {Head(s)} \cup Range(Tail(s))
  <2> SUFFICES ASSUME NEW i \in 1..Len(s) PROVE s[i] \in {Head(s)} \cup Range(Tail(s))
    BY DEF Range
  <2>1. CASE i = 1
    BY <2>1
  <2>2. CASE i # 1
    <3>1. i - 1 \in 1..Len(Tail(s)) /\ Tail(s)[i - 1] = s[i]
      BY <2>2
    <3>2. DOMAIN Tail(s) = 1..Len(Tail(s))
      BY <1>1
    <3>3. Tail(s)[i - 1] \in Range(Tail(s))
      BY <3>1, <3>2, ZenonT(40) DEF Range
    <3> QED BY <3>1, <3>3, ZenonT(40)
  <2> QED BY <2>1, <2>2, ZenonT(40)
<1>3. {Head(s)} \cup Range(Tail(s)) \subseteq Range(s)
  <2>1. Head(s) \in Range(s)
    BY DEF Range
  <2>2. ASSUME NEW i \in 1..Len(Tail(s)) PROVE Tail(s)[i] \in Range(s)
    <3>1. i + 1 \in 1..Len(s) /\ Tail(s)[i] = s[i + 1]
      OBVIOUS
    <3> QED BY <3>1 DEF Range
  <2> QED BY <1>1, <2>1, <2>2 DEF Range
<1>4. Range(s) = {Head(s)} \cup Range(Tail(s))
  BY <1>2, <1>3, ZenonT(40)
<1> QED BY <1>1, <1>4, ZenonT(40) DEF MeantHops

LEMMA MeantHopsNone == MeantHops(<<>>) = {}
  BY DEF MeantHops, Range

LEMMA RoutesAreSequences ==
  ASSUME NEW v \in Routes \ {Iface}
  PROVE  v \in Seq(Hops) /\ v # <<>> /\ v # Nil /\ Meant(v) = MeantHops(v)
<1>1. v \in Seq(Hops) /\ v # <<>> /\ v # Nil
  BY RoutesAssumption, ZenonT(40)
<1> QED BY <1>1, ZenonT(40) DEF Meant, MeantHops

(***************************************************************************)
(* What a step leaves alone                                                *)
(***************************************************************************)

\* No call of the step changes what packets for p meet.
Untouched(p) ==
  /\ fib'[p] = fib[p]
  /\ fib[p].kind = "nhg" =>
       /\ fib[p].id \in DOMAIN nhgTable' <=> fib[p].id \in DOMAIN nhgTable
       /\ fib[p].id \in DOMAIN nhgTable => nhgTable'[fib[p].id] = nhgTable[fib[p].id]
  /\ \A id \in Selects(p) : /\ id \in DOMAIN nhTable' <=> id \in DOMAIN nhTable
                            /\ id \in DOMAIN nhTable => nhTable'[id] = nhTable[id]
                            /\ id \in nhActions' <=> id \in nhActions

LEMMA UntouchedKept ==
  ASSUME NEW p, Untouched(p)
  PROVE  /\ Selects(p)' = Selects(p) /\ FibRefs(p)' = FibRefs(p) /\ Reach(p)' = Reach(p)
         /\ Selects(p) \subseteq DOMAIN nhTable => Selects(p)' \subseteq DOMAIN nhTable'
<1>1. Selects(p)' = Selects(p)
  BY ZenonT(40) DEF Untouched, Selects
<1>2. FibRefs(p)' = FibRefs(p)
  BY <1>1, ZenonT(40) DEF Untouched, FibRefs
<1>3. \A id \in Selects(p) : /\ id \in DOMAIN nhTable => Seen(id)' = Seen(id)
                             /\ id \in DOMAIN nhTable' <=> id \in DOMAIN nhTable
  BY DEF Untouched, Seen
<1>4. {Seen(id)' : id \in Selects(p)' \cap DOMAIN nhTable'} = {Seen(id) : id \in Selects(p) \cap DOMAIN nhTable}
  BY <1>1, <1>3, ZenonT(40)
<1>5. Reach(p)' = Reach(p)
  BY <1>4, ZenonT(40) DEF Untouched, Reach
<1>6. Selects(p) \subseteq DOMAIN nhTable => Selects(p)' \subseteq DOMAIN nhTable'
  BY <1>1, <1>3, ZenonT(40)
<1> QED BY <1>1, <1>2, <1>5, <1>6, ZenonT(40)

\* What a step may change of where packets go.
Switch == \A p \in Prefixes : Reach(p)' # Reach(p) => Deleting(p) \/ Reach(p)' = Meant(want[p])

\* A step of a series that builds: nothing that packets meet changes.
LEMMA BuildingFrame ==
  ASSUME IInv, job.pc \in Creating, UNCHANGED <<fib, stuck, want>>,
         \A p \in Prefixes : Untouched(p), dirty \subseteq dirty',
         \/ (~Active)' /\ job.p \in dirty'
         \/ Active' /\ job'.p = job.p
  PROVE  Resolves' /\ Follows'
<1>1. \A p \in Prefixes : /\ Selects(p)' = Selects(p) /\ Reach(p)' = Reach(p)
                          /\ Selects(p) \subseteq DOMAIN nhTable => Selects(p)' \subseteq DOMAIN nhTable'
  BY UntouchedKept, ZenonT(40)
<1>2. \A p \in Prefixes : ~Deleting(p)
  BY RoutesAssumption, ZenonT(40) DEF IInv, JobOwned, Deleting, Creating
<1>3. Resolves'
  BY <1>1, <1>2, ZenonT(40) DEF IInv, Resolves
<1>4. \A p \in Prefixes \ dirty : job.p # p => Reach(p) = Meant(want[p])
  BY ZenonT(40) DEF IInv, Follows
<1>5. \A p : Meant(want'[p]) = Meant(want[p])
  BY ZenonT(40)
<1>6. Follows'
  BY <1>1, <1>4, <1>5, ZenonT(40) DEF Follows, Meant
<1> QED BY <1>3, <1>6, ZenonT(40)

\* A step of a deletion: nothing that packets for other prefixes meet changes.
LEMMA RemovingFrame ==
  ASSUME IInv, job.pc \in Removing, UNCHANGED <<fib, stuck, want>>,
         \A p \in Prefixes : p # job.p => Untouched(p), dirty \subseteq dirty',
         Active' /\ job'.p = job.p
  PROVE  Resolves' /\ Follows'
<1>1. \A p \in Prefixes : p # job.p =>
        /\ Selects(p)' = Selects(p) /\ Reach(p)' = Reach(p)
        /\ Selects(p) \subseteq DOMAIN nhTable => Selects(p)' \subseteq DOMAIN nhTable'
  BY UntouchedKept, ZenonT(40)
<1>2. Deleting(job.p)' /\ \A p \in Prefixes : p # job.p => ~Deleting(p)
  BY ZenonT(40) DEF IInv, JobOwned, Deleting, Active
<1>3. Resolves'
  BY <1>1, <1>2, ZenonT(40) DEF IInv, Resolves
<1>4. \A p \in Prefixes \ dirty : job.p # p => Reach(p) = Meant(want[p])
  BY ZenonT(40) DEF IInv, Follows
<1>6. Follows'
  BY <1>1, <1>4, ZenonT(40) DEF Follows, Meant
<1> QED BY <1>3, <1>6, ZenonT(40)

LEMMA Initially == Init => IInv
<1> SUFFICES ASSUME Init PROVE IInv
  BY ZenonT(40)
<1> USE EmptyFacts DEF Init
<1>1. job.pc = "idle" /\ job.nh = NoId /\ job.group = NoId /\ job.members = Empty /\ oid = 0
  BY ZenonT(40) DEF Idle, NewJob
<1>2. \A p \in Prefixes : HopsOf(data[p]) = {} /\ ~isNHG(data[p]) /\ fib[p].kind = "none"
  BY ZenonT(40) DEF HopsOf, isNHG, NoData, RouteData, NoEntry, Entry, NoId
<1>3. Typed
  BY RoutesAssumption DEF Typed, Idle, NewJob, NoId, NoEntry, Entry, NoData, RouteData, Ids, Pcs, Active
<1>4. Kinds
  <2>1. KindsIn({})
    BY <1>1, <1>2, ZenonT(40) DEF KindsIn
  <2> QED BY <2>1, ZenonT(40) DEF Kinds
<1>5. Owned
  BY <1>2 DEF Owned, Refs, FibRefs, DataRefs, isNHG
<1>6. JobOwned /\ Built
  BY <1>1, ZenonT(40) DEF JobOwned, Built, Creating, Removing
<1>7. Resolves /\ Follows
  BY <1>2, ZenonT(40) DEF Resolves, Follows, Reach, Meant
<1>8. Accounted
  BY <1>1, <1>2, ZenonT(40) DEF Accounted, Creating
<1> QED BY <1>3, <1>4, <1>5, <1>6, <1>7, <1>8, ZenonT(40) DEF IInv

(***************************************************************************)
(* The watch calls back                                                    *)
(***************************************************************************)

\* The job a change begins with: nothing built yet, or the route data to remove.
LEMMA FirstSteps ==
  ASSUME Typed, NEW p \in Prefixes, NEW v \in Routes \cup {Nil}, NEW j, j = FirstStep(p, v)
  PROVE  /\ j \in [pc : Pcs, p : Prefixes \cup {Nil}, left : Seq(Hops), group : Nat, nh : Nat,
                   members : {j.members}]
         /\ j.p = p
         /\ v = Nil => \/ /\ j.pc = "removeRoute" /\ data[p] = NoData
                          /\ j.group = NoId /\ j.nh = NoId /\ j.members = Empty
                       \/ /\ j.pc = "removeMember" /\ isNHG(data[p]) /\ j.nh = NoId
                          /\ j.group = data[p].group /\ j.members = data[p].members
                       \/ /\ j.pc = "removeHop" /\ ~isNHG(data[p]) /\ j.nh = data[p].nh
                          /\ j.group = NoId /\ j.members = Empty
         /\ v # Nil => j.group = NoId /\ j.nh = NoId /\ j.members = Empty
         /\ v = Iface => j.pc = "createRoute"
         /\ v \notin {Nil, Iface} => /\ j.left = v
                                     /\ j.pc = "createGroup" \/ (j.pc = "createHop" /\ Len(v) = 1)
<1> USE DEF NoId, Pcs, Creating, Removing
<1>1. data[p].nh \in Nat /\ data[p].group \in Nat /\ <<>> \in Seq(Hops)
  BY NoSequence, ZenonT(40) DEF Typed
<1>2. CASE v = Nil
  <2>1. Nil # Iface
    BY RoutesAssumption, ZenonT(40)
  <2> QED BY <1>1, <1>2, <2>1, ZenonT(40) DEF FirstStep, FirstRemove, NewJob
<1>3. CASE v = Iface
  <2>1. Nil # Iface
    BY RoutesAssumption
  <2>2. j = NewJob("createRoute", p)
    BY <1>3, <2>1, ZenonT(40) DEF FirstStep, FirstCreate
  <2>3. /\ j.pc = "createRoute" /\ j.p = p /\ j.group = NoId /\ j.nh = NoId /\ j.members = Empty
        /\ j \in [pc : Pcs, p : Prefixes \cup {Nil}, left : Seq(Hops), group : Nat, nh : Nat,
                  members : {j.members}]
    BY <1>1, <2>2 DEF NewJob
  <2> QED BY <1>3, <2>1, <2>3, ZenonT(40)
<1>4. CASE v \notin {Nil, Iface}
  <2>1. v \in Seq(Hops)
    BY <1>4, RoutesAreSequences, ZenonT(40)
  <2>2. j = [NewJob(IF Len(v) = 1 THEN "createHop" ELSE "createGroup", p) EXCEPT !.left = v]
    BY <1>4, ZenonT(40) DEF FirstStep, FirstCreate
  <2> QED BY <1>4, <2>1, <2>2 DEF NewJob
<1> QED BY <1>2, <1>3, <1>4, ZenonT(40)

LEMMA NotifyStep ==
  ASSUME IInv, NEW p \in Prefixes, NEW v \in Routes \cup {Nil}, Notify(p, v)
  PROVE  IInv' /\ Switch
<1>0. /\ UNCHANGED <<tables, data, stuck, superseded, failures>>
      /\ job.pc = "idle" /\ events < MaxEvents /\ events' = events + 1
      /\ want' = [want EXCEPT ![p] = v] /\ dirty' = dirty \ {p} /\ job' = FirstStep(p, v)
  BY ZenonT(40) DEF Notify
<1>1. UNCHANGED <<fib, nhTable, nhActions, nhgTable, groups, oid, data, stuck, superseded, failures>>
  BY <1>0, ZenonT(40) DEF tables
<1>2. Typed /\ Kinds /\ Owned /\ Resolves /\ Follows
  BY ZenonT(40) DEF IInv
<1> DEFINE j == job'
<1> HIDE DEF j
<1>3. /\ j \in [pc : Pcs, p : Prefixes \cup {Nil}, left : Seq(Hops), group : Nat, nh : Nat,
                members : {j.members}]
      /\ j.p = p
      /\ v = Nil => \/ /\ j.pc = "removeRoute" /\ data[p] = NoData
                       /\ j.group = NoId /\ j.nh = NoId /\ j.members = Empty
                    \/ /\ j.pc = "removeMember" /\ isNHG(data[p]) /\ j.nh = NoId
                       /\ j.group = data[p].group /\ j.members = data[p].members
                    \/ /\ j.pc = "removeHop" /\ ~isNHG(data[p]) /\ j.nh = data[p].nh
                       /\ j.group = NoId /\ j.members = Empty
      /\ v # Nil => j.group = NoId /\ j.nh = NoId /\ j.members = Empty
      /\ v = Iface => j.pc = "createRoute"
      /\ v \notin {Nil, Iface} => /\ j.left = v
                                  /\ j.pc = "createGroup" \/ (j.pc = "createHop" /\ Len(v) = 1)
  BY <1>0, <1>2, FirstSteps DEF j
<1>4. job' = j /\ want'[p] = v /\ \A q \in Prefixes : q # p => want'[q] = want[q]
  BY <1>0, <1>2, ZenonT(40) DEF j, Typed
<1>5. j.pc \notin {"idle", "crashed"} /\ Nil # Iface
  BY <1>3, RoutesAssumption, ZenonT(40)
<1>6. Typed'
  <2>1. want' \in [Prefixes -> Routes \cup {Nil}]
    BY <1>0, <1>2, ZenonT(40) DEF Typed
  <2>2. events' \in 0..MaxEvents
    BY <1>0, <1>2, RoutesAssumption, SMTT(30) DEF Typed
  <2> QED BY <1>1, <1>2, <1>3, <1>4, <2>1, <2>2, ZenonT(40) DEF Typed, Ids, Active
<1>7. Kinds'
  <2>1. PICK H \in SUBSET Ids : KindsIn(H)
    BY <1>2, ZenonT(40) DEF Kinds
  <2>2. HopsOf(data[p]) \subseteq H /\ (isNHG(data[p]) => data[p].group \in Ids \ H)
    BY <2>1, ZenonT(40) DEF KindsIn
  <2>3. DOMAIN j.members \subseteq H /\ (j.nh # NoId => j.nh \in H)
        /\ (j.group # NoId => j.group \in Ids \ H)
    BY <1>3, <2>2, EmptyFacts, ZenonT(40) DEF HopsOf
  <2>4. KindsIn(H)'
    BY <1>1, <1>4, <2>1, <2>3, ZenonT(40) DEF KindsIn, Ids, isNHG, HopsOf
  <2> QED BY <1>1, <2>4, ZenonT(40) DEF Kinds, Ids
<1>8. Owned'
  <2>1. UNCHANGED <<fib, data, groups, nhgTable>>
    BY <1>1, ZenonT(40)
  <2>2. \A q \in Prefixes : Refs(q)' = Refs(q) /\ HopsOf(data[q])' = HopsOf(data[q])
    BY <2>1, ZenonT(40) DEF Refs, FibRefs, DataRefs, Selects, HopsOf, isNHG
  <2> QED BY <1>2, <2>1, <2>2, ZenonT(40) DEF Owned, isNHG
<1>9. JobOwned'
  <2>1. v = Nil => JobHops' \subseteq HopsOf(data'[p]) /\ j.group \in {NoId, data'[p].group}
                   /\ j.pc \in Removing
    BY <1>1, <1>3, <1>4, EmptyFacts, ZenonT(40) DEF JobHops, HopsOf, isNHG, Removing
  <2>2. v # Nil => JobRefs' = {} /\ JobHops' = {} /\ j.group = NoId
                   /\ j.pc \in {"createRoute", "createGroup", "createHop"}
    BY <1>3, <1>4, EmptyFacts, ZenonT(40) DEF JobRefs, JobHops
  <2>3. v = Iface \/ v = Nil \/ (v \in Routes \ {Iface} /\ j.pc # "createRoute")
    BY <1>3, ZenonT(40)
  <2> QED BY <1>1, <1>3, <1>4, <1>5, <2>1, <2>2, <2>3, ZenonT(40) DEF JobOwned, Creating, Removing
<1>10. Built'
  <2>1. v \notin {Nil, Iface} => /\ v \in Seq(Hops) /\ v # <<>> /\ MeantHops(v) = Meant(v)
                                 /\ (Len(v) = 1 => Tail(v) = <<>>)
    <3>1. v \notin {Nil, Iface} => v \in Seq(Hops) /\ v # <<>> /\ MeantHops(v) = Meant(v)
      BY RoutesAreSequences, ZenonT(40)
    <3>2. v \in Seq(Hops) /\ v # <<>> /\ Len(v) = 1 => Tail(v) \in Seq(Hops) /\ Len(Tail(v)) = 0
      OBVIOUS
    <3> QED BY <3>1, <3>2, NoSequence, ZenonT(40)
  <2>2. j.pc \in {"createGroup", "createHop"} => v \notin {Nil, Iface}
    BY <1>3, <1>5, ZenonT(40)
  <2>3. j.pc \in {"createGroup", "createHop"} => Made' = {}
    BY <1>3, <1>4, <2>2, EmptyFacts, ZenonT(40) DEF Made
  <2>4. j.pc \notin {"addGue", "createMember"} /\ (j.pc = "createRoute" => v = Iface)
    BY <1>3, <1>5, ZenonT(40)
  <2>5. j.pc \in Creating \cup {"createRoute"} => DOMAIN j.members = {} /\ j.nh = NoId /\ j.group = NoId
    BY <1>3, EmptyFacts, ZenonT(40) DEF Creating
  <2>6. Meant(want[job.p])' = Meant(v) /\ (job.left)' = j.left /\ (job.p)' = p
    BY <1>3, <1>4, ZenonT(40) DEF Meant
  <2>7. j.pc \in {"createGroup", "createHop"} => MeantHops(job.left)' = Meant(v)
    BY <1>3, <1>4, <2>1, <2>2, ZenonT(40) DEF MeantHops
  <2>8. CASE j.pc \in {"createGroup", "createHop"}
    <3>1. Made' \cup MeantHops(job.left)' = Meant(want[job.p])'
      BY <2>3, <2>6, <2>7, <2>8, ZenonT(40)
    <3>2. j.left = v /\ j.left # <<>> /\ j.nh = NoId /\ j.group = NoId /\ DOMAIN j.members = {}
          /\ (j.pc = "createHop" => Tail(j.left) = <<>>)
      BY <1>3, <2>1, <2>2, <2>5, <2>8, ZenonT(40) DEF Creating
    <3> QED BY <1>4, <2>6, <2>7, <2>8, <3>1, <3>2, ZenonT(40) DEF Built
  <2>9. CASE j.pc \notin {"createGroup", "createHop"}
    BY <1>4, <2>4, <2>5, <2>6, <2>9, <1>3, ZenonT(40) DEF Built, Creating
  <2> QED BY <2>8, <2>9, ZenonT(40)
<1>11. Resolves'
  <2>1. \A q \in Prefixes : Selects(q)' = Selects(q) /\ ~Deleting(q)
    BY <1>0, <1>1, ZenonT(40) DEF Selects, Deleting
  <2> QED BY <1>1, <1>2, <2>1, ZenonT(40) DEF Resolves
<1>12. Follows'
  <2>1. \A q \in Prefixes : Reach(q)' = Reach(q)
    BY <1>1, ZenonT(40) DEF Reach, Selects, Seen
  <2>2. \A q \in Prefixes \ dirty : Reach(q) = Meant(want[q])
    BY <1>0, <1>2, ZenonT(40) DEF Follows, Active
  <2>3. \A q \in Prefixes : q # p => Meant(want[q])' = Meant(want[q])
    BY <1>4, ZenonT(40) DEF Meant
  <2> QED BY <1>0, <1>3, <1>4, <1>5, <2>1, <2>2, <2>3 DEF Follows, Active
<1>13. ASSUME failures' = 0 PROVE Accounted'
  <2>1. Accounted
    BY <1>1, <1>13, ZenonT(40) DEF IInv
  <2>2. j.pc \in Creating => JobHops' = {}
    BY <1>3, <1>4, EmptyFacts, ZenonT(40) DEF JobHops, Creating
  <2>3. \A q \in Prefixes : want[q] = Nil => HopsOf(data[q]) \cap DOMAIN nhTable = {}
    BY <1>0, <2>1, ZenonT(40) DEF Accounted, Pending
  <2>4. v = Nil => HopsOf(data[p]) \subseteq Pending(p)'
    <3>1. data[p] = NoData => HopsOf(data[p]) = {}
      BY DEF NoData, RouteData, HopsOf, isNHG
    <3> QED BY <1>3, <1>4, <3>1, ZenonT(40) DEF Pending, HopsOf
  <2>5. \A q \in Prefixes : HopsOf(data[q])' = HopsOf(data[q])
    BY <1>1, ZenonT(40) DEF HopsOf, isNHG
  <2> QED BY <1>0, <1>1, <1>4, <2>1, <2>2, <2>3, <2>4, <2>5, ZenonT(40) DEF Accounted, Creating
<1>14. Switch
  BY <1>1, ZenonT(40) DEF Switch, Reach, Selects, Seen
<1> QED BY <1>6, <1>7, <1>8, <1>9, <1>10, <1>11, <1>12, <1>13, <1>14, ZenonT(40) DEF IInv

(***************************************************************************)
(* Lemmas for the steps that build                                         *)
(***************************************************************************)
LEMMA RefsAreIds ==
  ASSUME Kinds
  PROVE  /\ \A p \in Prefixes : Refs(p) \subseteq Ids /\ Selects(p) \subseteq Ids
         /\ JobRefs \subseteq Ids /\ DOMAIN nhTable \subseteq Ids /\ nhActions \subseteq Ids
         /\ DOMAIN groups \subseteq Ids /\ DOMAIN nhgTable \subseteq Ids
         /\ \A p \in Prefixes : HopsOf(data[p]) \subseteq Ids
<1>1. PICK H \in SUBSET Ids : KindsIn(H)
  BY ZenonT(40) DEF Kinds
<1>2. ASSUME NEW p \in Prefixes PROVE Selects(p) \subseteq Ids
  BY <1>1, ZenonT(40) DEF KindsIn, Selects
<1>3. ASSUME NEW p \in Prefixes PROVE Refs(p) \subseteq Ids /\ HopsOf(data[p]) \subseteq Ids
  BY <1>1, <1>2, ZenonT(40) DEF KindsIn, Refs, FibRefs, DataRefs, isNHG
<1>4. JobRefs \subseteq Ids
  BY <1>1, ZenonT(40) DEF KindsIn, JobRefs, JobHops
<1> QED BY <1>1, <1>2, <1>3, <1>4, ZenonT(40) DEF KindsIn

LEMMA FreshId ==
  ASSUME Typed
  PROVE  oid + 1 \notin Ids /\ Ids \subseteq 1..(oid + 1) /\ oid + 1 \in 1..(oid + 1)
         /\ oid + 1 # NoId /\ oid + 1 \in Nat /\ NoId \notin Ids
  BY SMTT(30) DEF Typed, Ids, NoId

LEMMA AnsweredFacts ==
  ASSUME Typed, NEW o, Answered(o)
  PROVE  /\ failures' \in 0..MaxFailures /\ dirty \subseteq dirty'
         /\ o = "ok" => failures' = failures /\ dirty' = dirty
         /\ o # "ok" => failures' # 0 /\ job.p \in dirty'
  BY RoutesAssumption, SMTT(30) DEF Typed, Answered

LEMMA OwnedKept ==
  ASSUME IInv, data' = data, \A p \in Prefixes : Untouched(p),
         \A p \in Prefixes : isNHG(data[p]) /\ data[p].group \in DOMAIN groups' =>
           Range(groups'[data[p].group]) \subseteq HopsOf(data[p])
  PROVE  Owned' /\ \A p \in Prefixes : Refs(p)' = Refs(p)
<1>1. \A p \in Prefixes : FibRefs(p)' = FibRefs(p)
  BY UntouchedKept, ZenonT(40)
<1>2. \A p \in Prefixes : Refs(p)' = Refs(p) /\ HopsOf(data[p])' = HopsOf(data[p])
  BY <1>1, ZenonT(40) DEF Refs, DataRefs, HopsOf, isNHG
<1> QED BY <1>2, SMTT(30) DEF IInv, Owned, isNHG, HopsOf, Range

\* The route data of prefix p0 is replaced by d, which refers to the ids of N
\* only; nobody refers to these yet.
LEMMA OwnedRecorded ==
  ASSUME IInv, NEW p0 \in Prefixes, NEW d, NEW N, data' = [data EXCEPT ![p0] = d],
         \A p \in Prefixes : Untouched(p), DataRefs(p0)' \subseteq N,
         \A p \in Prefixes : N \cap Refs(p) = {},
         \A p \in Prefixes : isNHG(data'[p]) /\ data'[p].group \in DOMAIN groups' =>
           Range(groups'[data'[p].group]) \subseteq HopsOf(data'[p])
  PROVE  Owned'
<1>1. \A p \in Prefixes : FibRefs(p)' = FibRefs(p)
  BY UntouchedKept, ZenonT(40)
<1>2. DOMAIN data = Prefixes
  BY ZenonT(40) DEF IInv, Typed
<1>3. \A p \in Prefixes : p # p0 => Refs(p)' = Refs(p)
  BY <1>1, <1>2, ZenonT(40) DEF Refs, DataRefs, HopsOf, isNHG
<1>4. Refs(p0)' \subseteq Refs(p0) \cup N
  <2>1. FibRefs(p0)' \subseteq Refs(p0)
    BY <1>1, ZenonT(40) DEF Refs
  <2>2. Refs(p0)' = FibRefs(p0)' \cup DataRefs(p0)'
    BY ZenonT(40) DEF Refs
  <2> QED BY <2>1, <2>2, ZenonT(40)
<1>5. \A p, q \in Prefixes : p # q => Refs(p) \cap Refs(q) = {}
  BY ZenonT(40) DEF IInv, Owned
<1>6. \A p, q \in Prefixes : p # q => Refs(p)' \cap Refs(q)' = {}
  BY <1>3, <1>4, <1>5
<1> QED BY <1>6, ZenonT(40) DEF Owned, isNHG, HopsOf, Range

\* The series goes on building: the table grows by new hops of the job only.
LEMMA AccountedBuilding ==
  ASSUME IInv, Accounted, UNCHANGED <<data, superseded, want>>,
         job.pc \in Creating, job'.pc \in Creating, job'.p = job.p,
         DOMAIN nhTable \subseteq DOMAIN nhTable', DOMAIN nhTable' \subseteq DOMAIN nhTable \cup JobHops',
         JobHops \subseteq JobHops', (JobHops' \ JobHops) \cap Ids = {}
  PROVE  Accounted'
<1>1. \A p \in Prefixes : HopsOf(data[p])' = HopsOf(data[p]) /\ HopsOf(data[p]) \subseteq Ids
  BY RefsAreIds, ZenonT(40) DEF IInv, HopsOf, isNHG
<1>2. superseded \subseteq Ids
  BY RefsAreIds, ZenonT(40) DEF IInv, Accounted
<1>3. \A p \in Prefixes : HopsOf(data[p]) \cap JobHops = {}
  BY ZenonT(40) DEF IInv, JobOwned, JobRefs, Refs, DataRefs
<1>4. \A p \in Prefixes : HopsOf(data[p]) \cap DOMAIN nhTable' = HopsOf(data[p]) \cap DOMAIN nhTable
  BY <1>1, <1>3, ZenonT(40)
<1>5. \A p \in Prefixes : Pending(p) = {} /\ Pending(p)' = {}
  BY ZenonT(40) DEF Pending, Creating
<1>6. superseded \cap JobHops' = {}
  BY <1>2, ZenonT(40) DEF Accounted
<1> QED BY <1>1, <1>4, <1>5, <1>6, ZenonT(40) DEF Accounted

\* The series has built all hops and records them.
LEMMA AccountedRecorded ==
  ASSUME IInv, Accounted, NEW p0 \in Prefixes, NEW d,
         p0 = job.p, want' = want, data' = [data EXCEPT ![p0] = d],
         superseded' = superseded \cup (HopsOf(data[p0]) \cap DOMAIN nhTable),
         job.pc \in Creating, job'.pc = "createRoute", job'.p = p0,
         DOMAIN nhTable \subseteq DOMAIN nhTable', DOMAIN nhTable' \subseteq DOMAIN nhTable \cup HopsOf(d),
         JobHops \subseteq HopsOf(d), (HopsOf(d) \ JobHops) \cap Ids = {}
  PROVE  Accounted'
<1>1. \A p \in Prefixes : HopsOf(data[p]) \subseteq Ids /\ HopsOf(data[p]) \cap JobHops = {}
  BY RefsAreIds, ZenonT(40) DEF IInv, JobOwned, JobRefs, Refs, DataRefs
<1>2. superseded \subseteq Ids /\ superseded \cap JobHops = {}
  BY RefsAreIds, ZenonT(40) DEF IInv, Accounted
<1>3. \A p \in Prefixes : p # p0 =>
        HopsOf(data[p])' = HopsOf(data[p]) /\ HopsOf(data[p]) \cap HopsOf(data[p0]) = {}
  <2>1. \A p \in Prefixes : p # p0 => data'[p] = data[p]
    BY ZenonT(40) DEF IInv, Typed
  <2>2. \A p \in Prefixes : HopsOf(data[p]) \subseteq Refs(p)
    BY ZenonT(40) DEF Refs, DataRefs
  <2>3. \A p \in Prefixes : p # p0 => Refs(p) \cap Refs(p0) = {}
    BY ZenonT(40) DEF IInv, Owned
  <2>4. \A p \in Prefixes : p # p0 => HopsOf(data[p])' = HopsOf(data[p])
    BY <2>1, ZenonT(40) DEF HopsOf, isNHG
  <2> QED BY <2>2, <2>3, <2>4, ZenonT(40)
<1>4. HopsOf(data[p0])' = HopsOf(d)
  BY ZenonT(40) DEF IInv, Typed, HopsOf, isNHG
<1>5. \A p \in Prefixes : HopsOf(data[p]) \cap HopsOf(d) = {}
  BY <1>1, ZenonT(40)
<1>6. superseded \cap HopsOf(d) = {}
  BY <1>2, ZenonT(40)
<1>7. \A p \in Prefixes : Pending(p) = {} /\ Pending(p)' = {}
  BY ZenonT(40) DEF Pending, Creating
<1>8. want[p0] # Nil
  BY RoutesAssumption, ZenonT(40) DEF IInv, JobOwned
<1>9. superseded' \subseteq DOMAIN nhTable'
  BY ZenonT(40) DEF Accounted
<1>10. \A p \in Prefixes : superseded' \cap HopsOf(data[p])' = {}
  BY <1>3, <1>4, <1>5, <1>6, ZenonT(40) DEF Accounted
<1>11. \A id \in DOMAIN nhTable' : id \in superseded' \/ \E p \in Prefixes : id \in HopsOf(data[p])'
  <2> SUFFICES ASSUME NEW id \in DOMAIN nhTable', id \notin superseded', id \notin HopsOf(d)
               PROVE  \E p \in Prefixes : id \in HopsOf(data[p])'
    BY <1>4, ZenonT(40)
  <2>1. id \in DOMAIN nhTable /\ id \notin superseded /\ id \notin HopsOf(data[p0]) /\ id \notin JobHops
    BY ZenonT(40)
  <2>2. PICK p \in Prefixes : id \in HopsOf(data[p])
    BY <2>1, ZenonT(40) DEF Accounted
  <2> QED BY <1>3, <2>1, <2>2, ZenonT(40)
<1>12. \A p \in Prefixes : want'[p] = Nil => HopsOf(data[p])' \cap DOMAIN nhTable' \subseteq Pending(p)'
  BY <1>3, <1>5, <1>7, <1>8, ZenonT(40) DEF Accounted
<1> QED BY <1>9, <1>10, <1>11, <1>12, ZenonT(40) DEF Accounted, Creating

LEMMA Building ==
  ASSUME IInv, job.pc \in Creating
  PROVE  /\ Typed /\ Kinds /\ Built /\ job.p \in Prefixes /\ want[job.p] \in Routes \ {Iface}
         /\ \A q \in Prefixes : /\ JobRefs \cap Refs(q) = {} /\ HopsOf(data[q]) \subseteq Refs(q)
                                /\ Selects(q) \subseteq Refs(q)
                                /\ fib[q].kind = "nhg" => fib[q].id \in Refs(q)
                                /\ isNHG(data[q]) => data[q].group \in Refs(q)
         /\ \A q \in Prefixes : isNHG(data[q]) /\ data[q].group \in DOMAIN groups =>
              Range(groups[data[q].group]) \subseteq HopsOf(data[q])
<1>1. job.pc \notin {"idle", "crashed"}
  BY ZenonT(40) DEF Creating
<1>2. \A q \in Prefixes : /\ HopsOf(data[q]) \subseteq Refs(q) /\ Selects(q) \subseteq Refs(q)
                          /\ fib[q].kind = "nhg" => fib[q].id \in Refs(q)
                          /\ isNHG(data[q]) => data[q].group \in Refs(q)
  BY ZenonT(40) DEF Refs, FibRefs, DataRefs, Selects, isNHG
<1> QED BY <1>1, <1>2, ZenonT(40) DEF IInv, Typed, Active, JobOwned, Owned

\* A call failed: the callback returns, or its process ends.
LEMMA GivingUp ==
  ASSUME IInv, job.pc \in Creating, UNCHANGED <<fib, stuck, want, data>>,
         \A p \in Prefixes : Untouched(p), dirty \subseteq dirty', failures' # 0, job.p \in dirty',
         job' \in {Idle, NewJob("crashed", Nil)}
  PROVE  JobOwned' /\ Built' /\ Resolves' /\ Follows' /\ (failures' = 0 => Accounted')
<1>1. job'.pc \in {"idle", "crashed"}
  BY DEF Idle, NewJob
<1>2. JobOwned' /\ Built'
  BY <1>1, ZenonT(40) DEF JobOwned, Built, Creating, Removing
<1>3. Resolves' /\ Follows'
  BY <1>1, BuildingFrame, ZenonT(40) DEF Active
<1> QED BY <1>2, <1>3, ZenonT(40)

LEMMA NoJob ==
  ASSUME NEW j \in {Idle, NewJob("crashed", Nil)}
  PROVE  /\ j \in [pc : Pcs, p : Prefixes \cup {Nil}, left : Seq(Hops), group : Nat, nh : Nat,
                   members : {j.members}]
         /\ j.pc \in {"idle", "crashed"} /\ DOMAIN j.members = {} /\ j.nh = NoId /\ j.group = NoId
<1>1. PICK pc \in {"idle", "crashed"} : j = NewJob(pc, Nil)
  BY ZenonT(40) DEF Idle
<1>2. <<>> \in Seq(Hops)
  BY NoSequence, ZenonT(40)
<1>3. j.pc = pc /\ j.members = Empty /\ j.nh = NoId /\ j.group = NoId /\ j.p = Nil
  BY <1>1, ZenonT(40) DEF NewJob
<1> QED BY <1>1, <1>2, <1>3, EmptyFacts, ZenonT(40) DEF NewJob, Pcs, NoId

LEMMA CreateGroupStep ==
  ASSUME IInv, NEW o \in Outcomes, CreateGroup(o)
  PROVE  IInv' /\ Switch
<1>1. /\ job.pc = "createGroup" /\ Answered(o)
      /\ UNCHANGED <<fib, nhTable, nhActions, nhgTable, data, stuck, superseded, events, want>>
      /\ \/ o # "ok" /\ oid' = oid /\ groups' = groups
         \/ oid' = oid + 1 /\ groups' = With(groups, oid + 1, Empty)
      /\ o # "ok" => job' = NewJob("crashed", Nil)
      /\ o = "ok" => job' = [job EXCEPT !.pc = "createHop", !.group = oid']
  BY ZenonT(40) DEF CreateGroup, Continue, TakesEffect
<1>2. job.pc \in Creating
  BY <1>1, ZenonT(40) DEF Creating
<1>3. /\ Typed /\ Kinds /\ Built /\ job.p \in Prefixes /\ want[job.p] \in Routes \ {Iface}
      /\ \A q \in Prefixes : JobRefs \cap Refs(q) = {} /\ Refs(q) \subseteq Ids
      /\ DOMAIN groups \subseteq Ids
  BY <1>2, Building, RefsAreIds, ZenonT(40)
<1>4. oid + 1 \notin Ids /\ Ids \subseteq Ids' /\ oid + 1 # NoId
      /\ (oid' # oid => oid + 1 \in Ids') /\ oid' \in Nat
  <2>1. oid \in Nat /\ (oid' = oid \/ oid' = oid + 1)
    BY <1>1, <1>3, ZenonT(40) DEF Typed
  <2> QED BY <2>1 DEF Ids, NoId
<1>5. /\ \A g \in DOMAIN groups : g \in DOMAIN groups' /\ groups'[g] = groups[g]
      /\ \A g \in DOMAIN groups' : g \in DOMAIN groups \/ (g = oid + 1 /\ groups'[g] = Empty /\ oid' # oid)
  <2>1. CASE groups' = groups
    BY <2>1, ZenonT(40)
  <2>2. CASE oid' = oid + 1 /\ groups' = With(groups, oid + 1, Empty)
    <3>1. oid' # oid /\ oid + 1 \notin DOMAIN groups
      BY <1>3, <1>4, <2>2 DEF Typed
    <3>2. DOMAIN groups' = DOMAIN groups \cup {oid + 1} /\ groups'[oid + 1] = Empty
          /\ \A x \in DOMAIN groups : x # oid + 1 => groups'[x] = groups[x]
      BY <2>2, ZenonT(40) DEF With
    <3> QED BY <3>1, <3>2, ZenonT(40)
  <2> QED BY <1>1, <2>1, <2>2, ZenonT(40)
<1>6. \A p \in Prefixes : Untouched(p)
  BY <1>1, ZenonT(40) DEF Untouched
<1>7. /\ failures' \in 0..MaxFailures /\ dirty \subseteq dirty' /\ (o = "ok" => failures' = failures)
      /\ o # "ok" => failures' # 0 /\ job.p \in dirty'
  BY <1>1, <1>3, AnsweredFacts, ZenonT(40)
<1>8. Owned' /\ \A q \in Prefixes : Refs(q)' = Refs(q)
  <2>1. \A q \in Prefixes : isNHG(data[q]) /\ data[q].group \in DOMAIN groups' =>
          Range(groups'[data[q].group]) \subseteq HopsOf(data[q])
    BY <1>2, <1>3, <1>4, <1>5, Building, SMTT(30)
  <2> QED BY <1>1, <1>6, <2>1, OwnedKept, ZenonT(40)
<1>9. o = "ok" => /\ job'.pc = "createHop" /\ job'.p = job.p /\ job'.left = job.left
                  /\ job'.group = oid + 1 /\ job'.nh = job.nh /\ job'.members = job.members
                  /\ oid' = oid + 1
  BY <1>1, <1>3, ZenonT(40) DEF Typed
<1>10. Typed'
  <2>1. job' \in [pc : Pcs, p : Prefixes \cup {Nil}, left : Seq(Hops), group : Nat, nh : Nat,
                  members : {job'.members}] /\ (Active' => job'.p \in Prefixes)
    BY <1>1, <1>3, <1>4, <1>9, NoJob, ZenonT(40) DEF Typed, Active, Pcs, Creating
  <2>2. \A g \in DOMAIN groups' : DOMAIN groups'[g] \subseteq Ids'
    BY <1>3, <1>4, <1>5, EmptyFacts, ZenonT(40) DEF Typed
  <2> QED BY <1>1, <1>3, <1>4, <1>7, <2>1, <2>2, ZenonT(40) DEF Typed
<1>11. Kinds'
  <2>1. PICK H \in SUBSET Ids : KindsIn(H)
    BY <1>3, ZenonT(40) DEF Kinds
  <2>2. DOMAIN job'.members \subseteq H /\ (job'.nh # NoId => job'.nh \in H)
        /\ (job'.group # NoId => job'.group \in Ids' \ H)
    <3>1. CASE o = "ok"
      <4>1. oid + 1 \in Ids' \ H
        BY <1>4, <1>9, <3>1 DEF Ids
      <4> QED BY <1>9, <2>1, <3>1, <4>1, ZenonT(40) DEF KindsIn
    <3>2. CASE o # "ok"
      BY <1>1, <3>2, NoJob, ZenonT(40)
    <3> QED BY <3>1, <3>2, ZenonT(40)
  <2>3. DOMAIN groups' \subseteq Ids' \ H /\ \A g \in DOMAIN groups' : Range(groups'[g]) \subseteq H
    BY <1>4, <1>5, <2>1, EmptyFacts DEF KindsIn
  <2>4. KindsIn(H)'
    BY <1>1, <1>4, <2>1, <2>2, <2>3, ZenonT(40) DEF KindsIn, isNHG, HopsOf
  <2> QED BY <1>4, <2>4, ZenonT(40) DEF Kinds
<1>12. ASSUME o # "ok" PROVE IInv'
  BY <1>1, <1>2, <1>6, <1>7, <1>8, <1>10, <1>11, <1>12, GivingUp, ZenonT(40) DEF IInv
<1>13. ASSUME o = "ok" PROVE IInv'
  <2>1. JobOwned'
    <3>1. JobRefs' \subseteq JobRefs \cup {oid + 1}
      BY <1>9, <1>13, ZenonT(40) DEF JobRefs, JobHops
    <3>2. \A q \in Prefixes : JobRefs' \cap Refs(q)' = {}
      BY <1>3, <1>4, <1>8, <3>1, ZenonT(40)
    <3> QED BY <1>1, <1>3, <1>9, <1>13, <3>2, ZenonT(40) DEF JobOwned, Creating, Removing
  <2>2. Built'
    <3>1. DOMAIN job.members = {} /\ job.nh = NoId /\ job.left # <<>> /\ MeantHops(job.left) = Meant(want[job.p])
      BY <1>1, <1>3, ZenonT(40) DEF Built
    <3>2. Made' = {} /\ MeantHops(job.left)' = MeantHops(job.left) /\ Meant(want[job.p])' = Meant(want[job.p])
      BY <1>1, <1>9, <1>13, <3>1, ZenonT(40) DEF Made, MeantHops, Meant
    <3>3. GroupBuilt'
      <4>1. groups' = With(groups, oid + 1, Empty)
        BY <1>1, <1>13, ZenonT(40)
      <4>2. oid + 1 \in DOMAIN groups' /\ groups'[oid + 1] = Empty
        BY <4>1, ZenonT(40) DEF With
      <4> QED BY <1>9, <1>13, <3>1, <4>2, EmptyFacts, ZenonT(40) DEF GroupBuilt
    <3> QED BY <1>4, <1>9, <1>13, <3>1, <3>2, <3>3, ZenonT(40) DEF Built, Creating
  <2>3. Resolves' /\ Follows'
    BY <1>1, <1>2, <1>6, <1>7, <1>9, <1>13, BuildingFrame, ZenonT(40) DEF Active
  <2>4. failures' = 0 => Accounted'
    <3>1. JobHops' = JobHops
      BY <1>9, <1>13, ZenonT(40) DEF JobHops
    <3> QED BY <1>1, <1>2, <1>7, <1>9, <1>13, <3>1, AccountedBuilding, ZenonT(40) DEF IInv, Creating
  <2> QED BY <1>8, <1>10, <1>11, <2>1, <2>2, <2>3, <2>4, ZenonT(40) DEF IInv
<1> QED BY <1>6, <1>12, <1>13, UntouchedKept, ZenonT(40) DEF Switch
\* createNextHop returned the hop j.nh of the record j of the callback, which
\* nobody refers to.
LEMMA HopMadeStep ==
  ASSUME IInv, job.pc \in Creating, NEW j, HopMade(j),
         j \in [pc : Pcs, p : Prefixes \cup {Nil}, left : Seq(Hops), group : Nat, nh : Nat,
                members : {j.members}],
         j.p = job.p, j.group = job.group, j.members = job.members,
         UNCHANGED <<fib, stuck, groups, nhgTable>>, \A p \in Prefixes : Untouched(p),
         dirty \subseteq dirty',
         j.nh # NoId, j.nh \in DOMAIN nhTable', \A q \in Prefixes : j.nh \notin Refs(q),
         JobHops \subseteq DOMAIN j.members \cup {j.nh}, j.nh \in Ids => j.nh \in JobHops,
         DOMAIN nhTable \subseteq DOMAIN nhTable', DOMAIN nhTable' \subseteq DOMAIN nhTable \cup {j.nh},
         \A id \in DOMAIN j.members : id \in DOMAIN nhTable' /\ Seen(id)' = Seen(id),
         Made \cup {<<nhTable'[j.nh], j.nh \in nhActions'>>} \cup MeantHops(j.left) = Meant(want[job.p]),
         j.group = NoId => j.left = <<>> /\ DOMAIN j.members = {},
         j.group # NoId => GroupBuilt
  PROVE  /\ Owned' /\ JobOwned' /\ Built' /\ Resolves' /\ Follows'
         /\ failures = 0 => Accounted'
         /\ UNCHANGED <<events, want>>
         /\ \/ data' = data /\ job' = [j EXCEPT !.pc = "createMember"]
            \/ /\ data' = [data EXCEPT ![job.p] = RouteData(j.nh, NoId, Empty)]
               /\ job' = [j EXCEPT !.pc = "createRoute"]
<1>1. /\ UNCHANGED <<events, want>>
      /\ j.group # NoId => job' = [j EXCEPT !.pc = "createMember"] /\ UNCHANGED <<data, superseded>>
      /\ j.group = NoId => /\ job' = [j EXCEPT !.pc = "createRoute"]
                           /\ data' = [data EXCEPT ![job.p] = RouteData(j.nh, NoId, Empty)]
                           /\ superseded' = superseded \cup (HopsOf(data[job.p]) \cap DOMAIN nhTable)
  BY ZenonT(40) DEF HopMade, Continue, Record
<1>2. /\ Typed /\ Kinds /\ job.p \in Prefixes /\ want[job.p] \in Routes \ {Iface}
      /\ \A q \in Prefixes : JobRefs \cap Refs(q) = {} /\ Refs(q) \subseteq Ids
      /\ \A q \in Prefixes : isNHG(data[q]) /\ data[q].group \in DOMAIN groups =>
              Range(groups[data[q].group]) \subseteq HopsOf(data[q])
      /\ JobRefs \subseteq Ids
  BY Building, RefsAreIds, ZenonT(40)
<1>3. /\ job'.p = job.p /\ job'.nh = j.nh /\ job'.group = j.group /\ job'.members = j.members
      /\ job'.left = j.left /\ job'.pc = IF j.group # NoId THEN "createMember" ELSE "createRoute"
  BY <1>1
<1>4. Resolves' /\ Follows'
  BY <1>1, <1>2, <1>3, BuildingFrame, ZenonT(40) DEF Active
<1>5. JobHops' = DOMAIN j.members \cup {j.nh}
  BY <1>3, ZenonT(40) DEF JobHops
<1>6. /\ Meant(want[job.p])' = Meant(want[job.p]) /\ MeantHops(job.left)' = MeantHops(j.left)
      /\ Seen(job.nh)' = <<nhTable'[j.nh], j.nh \in nhActions'>>
  BY <1>1, <1>3, ZenonT(40) DEF Meant, MeantHops, Seen
<1>7. Made' = Made
  BY <1>3 DEF Made
<1>8. CASE j.group # NoId
  <2>1. Owned' /\ \A q \in Prefixes : Refs(q)' = Refs(q)
    BY <1>1, <1>2, <1>8, OwnedKept, ZenonT(40)
  <2>2. JobOwned'
    <3>1. JobRefs' \subseteq JobRefs \cup {j.nh}
      BY <1>3, <1>5, ZenonT(40) DEF JobRefs, JobHops
    <3>2. \A q \in Prefixes : JobRefs' \cap Refs(q)' = {}
      BY <1>2, <2>1, <3>1, SMTT(30)
    <3> QED BY <1>1, <1>2, <1>3, <1>8, <3>2, ZenonT(40) DEF JobOwned, Creating, Removing
  <2>3. Built'
    <3>1. GroupBuilt'
      BY <1>3, <1>8, ZenonT(40) DEF GroupBuilt
    <3> QED BY <1>3, <1>6, <1>7, <1>8, <3>1, ZenonT(40) DEF Built, Creating
  <2>4. failures = 0 => Accounted'
    <3>1. (JobHops' \ JobHops) \cap Ids = {}
      BY <1>5 DEF JobHops
    <3> QED BY <1>1, <1>3, <1>5, <1>8, <3>1, AccountedBuilding, ZenonT(40) DEF IInv, Creating
  <2> QED BY <1>1, <1>4, <1>8, <2>1, <2>2, <2>3, <2>4, ZenonT(40)
<1>9. CASE j.group = NoId
  <2> DEFINE d == RouteData(j.nh, NoId, Empty)
  <2>1. HopsOf(d) = {j.nh} /\ d.group = NoId /\ ~isNHG(d)
    BY ZenonT(40) DEF HopsOf, isNHG, RouteData
  <2>2. PICK p0 \in Prefixes : p0 = job.p
    BY <1>2, ZenonT(40)
  <2>3. data' = [data EXCEPT ![p0] = d] /\ data'[p0] = d
        /\ \A q \in Prefixes : q # p0 => data'[q] = data[q]
    BY <1>1, <1>2, <1>9, <2>2, ZenonT(40) DEF Typed
  <2> HIDE DEF d
  <2>4. Owned'
    <3>1. DataRefs(p0)' \subseteq {j.nh}
      BY <2>1, <2>3, ZenonT(40) DEF DataRefs, HopsOf, isNHG
    <3>2. \A q \in Prefixes : isNHG(data'[q]) /\ data'[q].group \in DOMAIN groups' =>
            Range(groups'[data'[q].group]) \subseteq HopsOf(data'[q])
      BY <1>2, <2>1, <2>3, ZenonT(40)
    <3>3. \A q \in Prefixes : {j.nh} \cap Refs(q) = {}
      OBVIOUS
    <3> QED BY <2>2, <2>3, <3>1, <3>2, <3>3, OwnedRecorded, ZenonT(40)
  <2>5. JobOwned'
    <3>1. JobHops' \subseteq HopsOf(data'[job'.p])
      BY <1>3, <1>5, <1>9, <2>1, <2>2, <2>3, ZenonT(40)
    <3> QED BY <1>1, <1>2, <1>3, <1>9, <3>1, ZenonT(40) DEF JobOwned, Creating, Removing, HopsOf, isNHG
  <2>6. Built'
    BY <1>3, <1>6, <1>7, <1>9, MeantHopsNone, SMTT(30), ZenonT(40) DEF Built, Creating, Made
  <2>7. failures = 0 => Accounted'
    <3>1. JobHops \subseteq HopsOf(d) /\ (HopsOf(d) \ JobHops) \cap Ids = {}
      BY <1>9, <2>1
    <3> QED BY <1>1, <1>3, <1>9, <2>1, <2>2, <2>3, <3>1, AccountedRecorded, ZenonT(40) DEF IInv, Creating
  <2> QED BY <1>1, <1>4, <1>9, <2>4, <2>5, <2>6, <2>7, ZenonT(40)
<1> QED BY <1>8, <1>9, ZenonT(40)

LEMMA CreateHopStep ==
  ASSUME IInv, NEW o \in Outcomes, CreateHop(o)
  PROVE  IInv' /\ Switch
<1> DEFINE made == [job EXCEPT !.nh = oid', !.left = Tail(job.left)]
<1>1. /\ job.pc = "createHop" /\ Answered(o)
      /\ UNCHANGED <<fib, nhActions, nhgTable, groups, stuck>>
      /\ \/ o # "ok" /\ oid' = oid /\ nhTable' = nhTable
         \/ oid' = oid + 1 /\ nhTable' = With(nhTable, oid + 1, Head(job.left))
      /\ o = "ok" => oid' = oid + 1 /\ nhTable' = With(nhTable, oid + 1, Head(job.left))
      /\ o # "ok" => job' = Idle /\ UNCHANGED <<data, superseded, events, want>>
      /\ o = "ok" /\ Head(job.left) \in GueHops =>
           job' = [made EXCEPT !.pc = "addGue"] /\ UNCHANGED <<data, superseded, events, want>>
      /\ o = "ok" /\ Head(job.left) \notin GueHops => HopMade(made)
  BY ZenonT(40) DEF CreateHop, GivesUp, Continue, TakesEffect
<1>2. job.pc \in Creating
  BY <1>1, ZenonT(40) DEF Creating
<1>3. /\ Typed /\ Kinds /\ Built /\ job.p \in Prefixes /\ want[job.p] \in Routes \ {Iface}
      /\ \A q \in Prefixes : /\ JobRefs \cap Refs(q) = {} /\ Refs(q) \subseteq Ids
                             /\ Selects(q) \subseteq Ids
      /\ DOMAIN nhTable \subseteq Ids /\ nhActions \subseteq Ids /\ JobRefs \subseteq Ids
  BY <1>2, Building, RefsAreIds, ZenonT(40)
<1>4. oid + 1 \notin Ids /\ Ids \subseteq Ids' /\ oid + 1 # NoId
      /\ (oid' # oid => oid + 1 \in Ids') /\ oid' \in Nat /\ oid \in Nat /\ oid + 1 # oid
  <2>1. oid \in Nat /\ (oid' = oid \/ oid' = oid + 1)
    BY <1>1, <1>3, ZenonT(40) DEF Typed
  <2> QED BY <2>1 DEF Ids, NoId
<1>5. /\ \A id \in DOMAIN nhTable : id \in DOMAIN nhTable' /\ nhTable'[id] = nhTable[id]
      /\ \A id \in DOMAIN nhTable' :
           id \in DOMAIN nhTable \/ (id = oid + 1 /\ nhTable'[id] = Head(job.left) /\ oid' # oid)
      /\ o = "ok" => oid + 1 \in DOMAIN nhTable' /\ nhTable'[oid + 1] = Head(job.left)
  <2>1. CASE o # "ok" /\ nhTable' = nhTable
    BY <2>1, ZenonT(40)
  <2>2. CASE oid' = oid + 1 /\ nhTable' = With(nhTable, oid + 1, Head(job.left))
    <3>1. oid' # oid /\ oid + 1 \notin DOMAIN nhTable
      BY <1>3, <1>4, <2>2, ZenonT(40)
    <3>2. DOMAIN nhTable' = DOMAIN nhTable \cup {oid + 1} /\ nhTable'[oid + 1] = Head(job.left)
          /\ \A x \in DOMAIN nhTable : x # oid + 1 => nhTable'[x] = nhTable[x]
      BY <2>2, ZenonT(40) DEF With
    <3> QED BY <3>1, <3>2, ZenonT(40)
  <2> QED BY <1>1, <2>1, <2>2, ZenonT(40)
<1>6. \A p \in Prefixes : Untouched(p)
  BY <1>1, <1>3, <1>4, <1>5 DEF Untouched
<1>7. /\ failures' \in 0..MaxFailures /\ dirty \subseteq dirty' /\ (o = "ok" => failures' = failures)
      /\ o # "ok" => failures' # 0 /\ job.p \in dirty'
  BY <1>1, <1>3, AnsweredFacts, ZenonT(40)
<1>8. /\ job.left # <<>> /\ job.left \in Seq(Hops) /\ (job.group = NoId => Tail(job.left) = <<>>)
      /\ job.nh \in DOMAIN job.members \cup {NoId} /\ DOMAIN job.members \subseteq DOMAIN nhTable
      /\ Made \cup MeantHops(job.left) = Meant(want[job.p])
      /\ IF job.group = NoId THEN DOMAIN job.members = {} ELSE GroupBuilt
  BY <1>1, <1>2, <1>3, ZenonT(40) DEF Built, Typed
<1>9. /\ Head(job.left) \in Hops /\ Tail(job.left) \in Seq(Hops)
      /\ MeantHops(job.left) = {<<Head(job.left), Head(job.left) \in GueHops>>} \cup MeantHops(Tail(job.left))
  BY <1>8, SeqFacts, ZenonT(40)
<1>10. \A id \in DOMAIN nhTable' : nhTable'[id] \in Hops
  BY <1>3, <1>5, <1>9, ZenonT(40) DEF Typed
<1>11. \A g \in DOMAIN groups' : DOMAIN groups'[g] \subseteq Ids'
  BY <1>1, <1>3, <1>4, ZenonT(40) DEF Typed
<1>12. PICK H \in SUBSET Ids : KindsIn(H)
  BY <1>3, ZenonT(40) DEF Kinds
<1>13. PICK H1 \in SUBSET Ids' : /\ H \subseteq H1 /\ Ids \ H \subseteq Ids' \ H1
                                 /\ DOMAIN nhTable' \subseteq H1 /\ (oid + 1 \in Ids' => oid + 1 \in H1)
  <2> DEFINE h == H \cup ({oid + 1} \cap Ids')
  <2>1. /\ h \in SUBSET Ids' /\ H \subseteq h /\ Ids \ H \subseteq Ids' \ h
        /\ DOMAIN nhTable' \subseteq h /\ (oid + 1 \in Ids' => oid + 1 \in h)
    BY <1>4, <1>5, <1>12, ZenonT(40) DEF KindsIn
  <2> QED BY <2>1, ZenonT(40)
<1>14. ASSUME o # "ok" PROVE IInv'
  <2>1. job' = Idle /\ UNCHANGED <<data, superseded, events, want>>
    BY <1>1, <1>14, ZenonT(40)
  <2>2. Typed'
    BY <1>1, <1>3, <1>4, <1>7, <1>10, <1>11, <2>1, NoJob, ZenonT(40) DEF Typed, Active
  <2>3. KindsIn(H1)'
    <3>1. DOMAIN job'.members = {} /\ job'.nh = NoId /\ job'.group = NoId
      BY <2>1, NoJob, ZenonT(40)
    <3> QED BY <1>1, <1>12, <1>13, <2>1, <3>1, ZenonT(40) DEF KindsIn, HopsOf, isNHG
  <2>4. Owned'
    BY <1>1, <1>2, <1>6, <2>1, OwnedKept, Building, ZenonT(40)
  <2> QED BY <1>1, <1>2, <1>6, <1>7, <1>13, <1>14, <2>1, <2>2, <2>3, <2>4, GivingUp, ZenonT(40) DEF IInv, Kinds
<1>15. ASSUME o = "ok" PROVE
         /\ made \in [pc : Pcs, p : Prefixes \cup {Nil}, left : Seq(Hops), group : Nat, nh : Nat,
                      members : {made.members}]
         /\ made.p = job.p /\ made.group = job.group /\ made.members = job.members
         /\ made.nh = oid + 1 /\ made.left = Tail(job.left) /\ oid + 1 \in Ids'
  BY <1>1, <1>3, <1>4, <1>9, <1>15, ZenonT(40) DEF Typed
<1>16. /\ oid + 1 \notin nhActions'
       /\ \A id \in DOMAIN job.members : id \in DOMAIN nhTable' /\ Seen(id)' = Seen(id)
       /\ \A q \in Prefixes : oid + 1 \notin Refs(q)
  BY <1>1, <1>3, <1>4, <1>5, <1>8, ZenonT(40) DEF Seen
<1>17. JobHops \subseteq DOMAIN job.members /\ DOMAIN job.members \subseteq JobHops
  BY <1>8, ZenonT(40) DEF JobHops
<1> HIDE DEF made
<1>18. ASSUME o = "ok", Head(job.left) \in GueHops PROVE IInv'
  <2>1. job' = [made EXCEPT !.pc = "addGue"] /\ UNCHANGED <<data, superseded, events, want>>
    BY <1>1, <1>18, ZenonT(40)
  <2>2. /\ job' \in [pc : Pcs, p : Prefixes \cup {Nil}, left : Seq(Hops), group : Nat, nh : Nat,
                     members : {job'.members}]
        /\ job'.pc = "addGue" /\ job'.p = job.p /\ job'.nh = oid + 1 /\ job'.group = job.group
        /\ job'.members = job.members /\ job'.left = Tail(job.left)
    BY <1>15, <1>18, <2>1, ZenonT(40) DEF Pcs, Creating
  <2>3. Typed'
    BY <1>1, <1>3, <1>4, <1>7, <1>10, <1>11, <2>1, <2>2, ZenonT(40) DEF Typed, Active
  <2>4. KindsIn(H1)'
    <3>1. oid + 1 \in H1
      BY <1>13, <1>15, <1>18, ZenonT(40)
    <3> QED BY <1>1, <1>12, <1>13, <2>1, <2>2, <3>1, ZenonT(40) DEF KindsIn, HopsOf, isNHG
  <2>5. Owned' /\ \A q \in Prefixes : Refs(q)' = Refs(q)
    BY <1>1, <1>2, <1>6, <2>1, OwnedKept, Building, ZenonT(40)
  <2>6. JobOwned'
    <3>1. JobRefs' \subseteq JobRefs \cup {oid + 1}
      BY <2>2, ZenonT(40) DEF JobRefs, JobHops
    <3>2. \A q \in Prefixes : JobRefs' \cap Refs(q)' = {}
      BY <1>3, <1>4, <2>5, <3>1, ZenonT(40)
    <3> QED BY <1>3, <2>1, <2>2, <3>2, ZenonT(40) DEF JobOwned, Creating, Removing
  <2>7. Built'
    <3>1. Made' = Made /\ Meant(want[job.p])' = Meant(want[job.p]) /\ MeantHops(job.left)' = MeantHops(Tail(job.left))
      <4>1. Made' = Made
        BY <1>16, <2>2 DEF Made
      <4> QED BY <2>1, <2>2, <4>1, ZenonT(40) DEF Meant, MeantHops
    <3>2. job.group # NoId => GroupBuilt'
      BY <1>1, <1>8, <2>2, ZenonT(40) DEF GroupBuilt
    <3>3. oid + 1 \in DOMAIN nhTable' \ DOMAIN job.members /\ nhTable'[oid + 1] = Head(job.left)
      BY <1>3, <1>4, <1>5, <1>8, <1>18, ZenonT(40)
    <3>4. Made \cup {<<Head(job.left), TRUE>>} \cup MeantHops(Tail(job.left)) = Meant(want[job.p])
      BY <1>8, <1>9, <1>18, ZenonT(40)
    <3>5. DOMAIN job.members \subseteq DOMAIN nhTable'
      BY <1>16, ZenonT(40)
    <3> QED BY <1>8, <1>18, <2>2, <3>1, <3>2, <3>3, <3>4, <3>5, ZenonT(40) DEF Built, Creating
  <2>8. Resolves' /\ Follows'
    BY <1>1, <1>2, <1>6, <1>7, <2>1, <2>2, BuildingFrame, ZenonT(40) DEF Active
  <2>9. failures' = 0 => Accounted'
    <3>1. JobHops' = DOMAIN job.members \cup {oid + 1}
      BY <1>4, <2>2, ZenonT(40) DEF JobHops
    <3>2. (JobHops' \ JobHops) \cap Ids = {} /\ JobHops \subseteq JobHops'
      BY <1>4, <1>17, <3>1, ZenonT(40)
    <3>3. DOMAIN nhTable \subseteq DOMAIN nhTable' /\ DOMAIN nhTable' \subseteq DOMAIN nhTable \cup JobHops'
      BY <1>5, <3>1, ZenonT(40)
    <3> QED BY <1>2, <1>7, <1>18, <2>1, <2>2, <3>2, <3>3, AccountedBuilding, ZenonT(40) DEF IInv, Creating
  <2> QED BY <1>13, <2>3, <2>4, <2>5, <2>6, <2>7, <2>8, <2>9, ZenonT(40) DEF IInv, Kinds
<1>19. ASSUME o = "ok", Head(job.left) \notin GueHops PROVE IInv'
  <2>1. HopMade(made)
    BY <1>1, <1>19, ZenonT(40)
  <2>2. Made \cup {<<nhTable'[oid + 1], oid + 1 \in nhActions'>>} \cup MeantHops(Tail(job.left)) = Meant(want[job.p])
    <3>1. <<nhTable'[oid + 1], oid + 1 \in nhActions'>> = <<Head(job.left), Head(job.left) \in GueHops>>
      BY <1>5, <1>16, <1>19, SMTT(30)
    <3>2. Made \cup ({<<Head(job.left), Head(job.left) \in GueHops>>} \cup MeantHops(Tail(job.left))) = Meant(want[job.p])
      BY <1>8, <1>9, ZenonT(40)
    <3> QED BY <3>1, <3>2, SMTT(30)
  <2>3. DOMAIN nhTable \subseteq DOMAIN nhTable' /\ DOMAIN nhTable' \subseteq DOMAIN nhTable \cup {oid + 1}
        /\ oid + 1 \in DOMAIN nhTable'
    BY <1>5, <1>19, ZenonT(40)
  <2>4. /\ Owned' /\ JobOwned' /\ Built' /\ Resolves' /\ Follows'
        /\ failures = 0 => Accounted'
        /\ UNCHANGED <<events, want>>
        /\ \/ data' = data /\ job' = [made EXCEPT !.pc = "createMember"]
           \/ /\ data' = [data EXCEPT ![job.p] = RouteData(made.nh, NoId, Empty)]
              /\ job' = [made EXCEPT !.pc = "createRoute"]
    <3>1. PICK j : j = made
      BY ZenonT(40)
    <3>2. /\ HopMade(j)
          /\ j \in [pc : Pcs, p : Prefixes \cup {Nil}, left : Seq(Hops), group : Nat, nh : Nat,
                    members : {j.members}]
          /\ j.p = job.p /\ j.group = job.group /\ j.members = job.members
          /\ j.nh = oid + 1 /\ j.left = Tail(job.left)
      BY <1>15, <1>19, <2>1, <3>1, ZenonT(40)
    <3>3. /\ j.nh # NoId /\ j.nh \in DOMAIN nhTable' /\ \A q \in Prefixes : j.nh \notin Refs(q)
          /\ JobHops \subseteq DOMAIN j.members \cup {j.nh} /\ (j.nh \in Ids => j.nh \in JobHops)
          /\ DOMAIN nhTable' \subseteq DOMAIN nhTable \cup {j.nh} /\ DOMAIN nhTable \subseteq DOMAIN nhTable'
      BY <1>4, <1>16, <1>17, <2>3, <3>2, ZenonT(40)
    <3>4. /\ \A id \in DOMAIN j.members : id \in DOMAIN nhTable' /\ Seen(id)' = Seen(id)
          /\ j.group = NoId => j.left = <<>> /\ DOMAIN j.members = {}
          /\ j.group # NoId => GroupBuilt
      BY <1>8, <1>16, <3>2, ZenonT(40)
    <3>5. Made \cup {<<nhTable'[j.nh], j.nh \in nhActions'>>} \cup MeantHops(j.left) = Meant(want[job.p])
      BY <2>2, <3>2, ZenonT(40)
    <3>6. UNCHANGED <<fib, stuck, groups, nhgTable>> /\ dirty \subseteq dirty'
      BY <1>1, <1>7, ZenonT(40)
    <3> QED BY <1>2, <1>6, <3>1, <3>2, <3>3, <3>4, <3>5, <3>6, HopMadeStep, ZenonT(40)
  <2>5. /\ job' \in [pc : Pcs, p : Prefixes \cup {Nil}, left : Seq(Hops), group : Nat, nh : Nat,
                     members : {job'.members}]
        /\ job'.p = job.p /\ job'.nh = oid + 1 /\ job'.group = job.group /\ job'.members = job.members
    BY <1>15, <1>19, <2>4, ZenonT(40) DEF Pcs, Creating
  <2>6. \A q \in Prefixes : data'[q] = data[q] \/ data'[q] = RouteData(oid + 1, NoId, Empty)
    BY <1>3, <1>15, <1>19, <2>4, ZenonT(40) DEF Typed
  <2>7. Typed'
    <3>1. DOMAIN data' = Prefixes
      BY <1>3, <2>4, ZenonT(40) DEF Typed
    <3>2. \A q \in Prefixes : data'[q] \in [nh : Nat, group : Nat, members : {data'[q].members}]
      <4> SUFFICES ASSUME NEW q \in Prefixes
                   PROVE  data'[q] \in [nh : Nat, group : Nat, members : {data'[q].members}]
        BY ZenonT(40)
      <4>1. CASE data'[q] = data[q]
        BY <1>3, <4>1, ZenonT(40) DEF Typed
      <4>2. CASE data'[q] = RouteData(oid + 1, NoId, Empty)
        BY <1>4, <4>2 DEF RouteData, NoId
      <4> QED BY <2>6, <4>1, <4>2, ZenonT(40)
    <3> QED BY <1>1, <1>3, <1>4, <1>7, <1>10, <1>11, <2>4, <2>5, <3>1, <3>2, ZenonT(40) DEF Typed, Active
  <2>8. KindsIn(H1)'
    <3>1. oid + 1 \in H1
      BY <1>13, <1>15, <1>19, ZenonT(40)
    <3>2. \A q \in Prefixes : HopsOf(data'[q]) \subseteq H1 /\ (isNHG(data'[q]) => data'[q].group \in Ids' \ H1)
      <4> SUFFICES ASSUME NEW q \in Prefixes
                   PROVE  HopsOf(data'[q]) \subseteq H1 /\ (isNHG(data'[q]) => data'[q].group \in Ids' \ H1)
        BY ZenonT(40)
      <4>1. CASE data'[q] = data[q]
        BY <1>12, <1>13, <4>1, ZenonT(40) DEF KindsIn
      <4>2. CASE data'[q] = RouteData(oid + 1, NoId, Empty)
        BY <3>1, <4>2, BareData, ZenonT(40)
      <4> QED BY <2>6, <4>1, <4>2, ZenonT(40)
    <3> QED BY <1>1, <1>12, <1>13, <2>5, <3>1, <3>2 DEF KindsIn, HopsOf, isNHG
  <2> QED BY <1>7, <1>13, <1>19, <2>4, <2>7, <2>8, ZenonT(40) DEF IInv, Kinds
<1> QED BY <1>6, <1>14, <1>18, <1>19, UntouchedKept, ZenonT(40) DEF Switch

LEMMA AddGueStep ==
  ASSUME IInv, NEW o \in Outcomes, AddGue(o)
  PROVE  IInv' /\ Switch
<1>1. /\ job.pc = "addGue" /\ Answered(o)
      /\ UNCHANGED <<fib, nhTable, nhgTable, groups, oid, stuck>>
      /\ nhActions' \in {nhActions, nhActions \cup {job.nh}}
      /\ o # "ok" => job' = Idle /\ UNCHANGED <<data, superseded, events, want>>
      /\ o = "ok" => HopMade(job) /\ nhActions' = nhActions \cup {job.nh}
  BY ZenonT(40) DEF AddGue, GivesUp, Continue, TakesEffect
<1>2. job.pc \in Creating
  BY <1>1, ZenonT(40) DEF Creating
<1>3. /\ Typed /\ Kinds /\ Built /\ job.p \in Prefixes /\ want[job.p] \in Routes \ {Iface}
      /\ \A q \in Prefixes : JobRefs \cap Refs(q) = {} /\ Selects(q) \subseteq Refs(q)
      /\ NoId \notin Ids /\ DOMAIN nhTable \subseteq Ids
  BY <1>2, Building, RefsAreIds, FreshId, ZenonT(40)
<1>4. /\ job.group = NoId => job.left = <<>>
      /\ job.nh \in DOMAIN nhTable \ DOMAIN job.members /\ nhTable[job.nh] \in GueHops
      /\ Made \cup {<<nhTable[job.nh], TRUE>>} \cup MeantHops(job.left) = Meant(want[job.p])
      /\ DOMAIN job.members \subseteq DOMAIN nhTable
      /\ IF job.group = NoId THEN DOMAIN job.members = {} ELSE GroupBuilt
  BY <1>1, <1>2, <1>3, ZenonT(40) DEF Built
<1>5. job.nh # NoId /\ job.nh \in JobHops /\ job.nh \in JobRefs
  BY <1>3, <1>4, ZenonT(40) DEF JobHops, JobRefs
<1>6. \A p \in Prefixes : Untouched(p)
  <2>1. \A p \in Prefixes : job.nh \notin Selects(p)
    BY <1>3, <1>5, ZenonT(40)
  <2> QED BY <1>1, <2>1, ZenonT(40) DEF Untouched
<1>7. /\ failures' \in 0..MaxFailures /\ dirty \subseteq dirty' /\ (o = "ok" => failures' = failures)
      /\ o # "ok" => failures' # 0 /\ job.p \in dirty'
  BY <1>1, <1>3, AnsweredFacts, ZenonT(40)
<1>8. PICK H \in SUBSET Ids : KindsIn(H)
  BY <1>3, ZenonT(40) DEF Kinds
<1>9. nhActions' \subseteq H /\ job.nh \in H /\ Ids' = Ids
  BY <1>1, <1>5, <1>8, ZenonT(40) DEF KindsIn, Ids
<1>10. ASSUME o # "ok" PROVE IInv'
  <2>1. job' = Idle /\ UNCHANGED <<data, superseded, events, want>>
    BY <1>1, <1>10, ZenonT(40)
  <2>2. Typed'
    BY <1>1, <1>3, <1>7, <1>9, <2>1, NoJob, ZenonT(40) DEF Typed, Active
  <2>3. KindsIn(H)'
    <3>1. DOMAIN job'.members = {} /\ job'.nh = NoId /\ job'.group = NoId
      BY <2>1, NoJob, ZenonT(40)
    <3> QED BY <1>1, <1>8, <1>9, <2>1, <3>1, ZenonT(40) DEF KindsIn, HopsOf, isNHG
  <2>4. Owned'
    BY <1>1, <1>2, <1>6, <2>1, OwnedKept, Building, ZenonT(40)
  <2> QED BY <1>1, <1>2, <1>6, <1>7, <1>9, <1>10, <2>1, <2>2, <2>3, <2>4, GivingUp, ZenonT(40) DEF IInv, Kinds
<1>11. ASSUME o = "ok" PROVE IInv'
  <2>1. /\ Owned' /\ JobOwned' /\ Built' /\ Resolves' /\ Follows'
        /\ failures = 0 => Accounted'
        /\ UNCHANGED <<events, want>>
        /\ \/ data' = data /\ job' = [job EXCEPT !.pc = "createMember"]
           \/ /\ data' = [data EXCEPT ![job.p] = RouteData(job.nh, NoId, Empty)]
              /\ job' = [job EXCEPT !.pc = "createRoute"]
    <3>1. PICK j : j = job
      BY ZenonT(40)
    <3>2. /\ HopMade(j)
          /\ j \in [pc : Pcs, p : Prefixes \cup {Nil}, left : Seq(Hops), group : Nat, nh : Nat,
                    members : {j.members}]
          /\ j.p = job.p /\ j.group = job.group /\ j.members = job.members
          /\ j.nh = job.nh /\ j.left = job.left
      BY <1>1, <1>3, <1>11, <3>1, ZenonT(40) DEF Typed
    <3>3. /\ j.nh # NoId /\ j.nh \in DOMAIN nhTable' /\ \A q \in Prefixes : j.nh \notin Refs(q)
          /\ JobHops \subseteq DOMAIN j.members \cup {j.nh} /\ (j.nh \in Ids => j.nh \in JobHops)
          /\ DOMAIN nhTable' \subseteq DOMAIN nhTable \cup {j.nh} /\ DOMAIN nhTable \subseteq DOMAIN nhTable'
      <4>1. JobHops \subseteq DOMAIN j.members \cup {j.nh}
        BY <3>2, ZenonT(40) DEF JobHops
      <4> QED BY <1>1, <1>3, <1>4, <1>5, <3>2, <4>1, ZenonT(40)
    <3>4. /\ \A id \in DOMAIN j.members : id \in DOMAIN nhTable' /\ Seen(id)' = Seen(id)
          /\ j.group = NoId => j.left = <<>> /\ DOMAIN j.members = {}
          /\ j.group # NoId => GroupBuilt
      BY <1>1, <1>4, <3>2, SMTT(30) DEF Seen
    <3>5. Made \cup {<<nhTable'[j.nh], j.nh \in nhActions'>>} \cup MeantHops(j.left) = Meant(want[job.p])
      <4>1. <<nhTable'[j.nh], j.nh \in nhActions'>> = <<nhTable[job.nh], TRUE>>
        BY <1>1, <1>11, <3>2, ZenonT(40)
      <4> QED BY <1>4, <3>2, <4>1, ZenonT(40)
    <3>6. UNCHANGED <<fib, stuck, groups, nhgTable>> /\ dirty \subseteq dirty'
      BY <1>1, <1>7, ZenonT(40)
    <3> QED BY <1>2, <1>6, <3>1, <3>2, <3>3, <3>4, <3>5, <3>6, HopMadeStep, ZenonT(40)
  <2>2. /\ job' \in [pc : Pcs, p : Prefixes \cup {Nil}, left : Seq(Hops), group : Nat, nh : Nat,
                     members : {job'.members}]
        /\ job'.p = job.p /\ job'.nh = job.nh /\ job'.group = job.group /\ job'.members = job.members
    BY <1>3, <2>1, ZenonT(40) DEF Typed, Pcs, Creating
  <2>3. \A q \in Prefixes : data'[q] = data[q] \/ data'[q] = RouteData(job.nh, NoId, Empty)
    BY <1>3, <2>1, ZenonT(40) DEF Typed
  <2>4. Typed'
    <3>1. DOMAIN data' = Prefixes
      BY <1>3, <2>1, ZenonT(40) DEF Typed
    <3>2. \A q \in Prefixes : data'[q] \in [nh : Nat, group : Nat, members : {data'[q].members}]
      <4> SUFFICES ASSUME NEW q \in Prefixes
                   PROVE  data'[q] \in [nh : Nat, group : Nat, members : {data'[q].members}]
        BY ZenonT(40)
      <4>1. CASE data'[q] = data[q]
        BY <1>3, <4>1, ZenonT(40) DEF Typed
      <4>2. CASE data'[q] = RouteData(job.nh, NoId, Empty)
        BY <1>3, <4>2, SMTT(30) DEF Typed, RouteData, NoId
      <4> QED BY <2>3, <4>1, <4>2, ZenonT(40)
    <3> QED BY <1>1, <1>3, <1>7, <1>9, <2>1, <2>2, <3>1, <3>2, ZenonT(40) DEF Typed, Active
  <2>5. KindsIn(H)'
    <3>1. \A q \in Prefixes : HopsOf(data'[q]) \subseteq H /\ (isNHG(data'[q]) => data'[q].group \in Ids' \ H)
      <4> SUFFICES ASSUME NEW q \in Prefixes
                   PROVE  HopsOf(data'[q]) \subseteq H /\ (isNHG(data'[q]) => data'[q].group \in Ids' \ H)
        BY ZenonT(40)
      <4>1. CASE data'[q] = data[q]
        BY <1>8, <1>9, <4>1, ZenonT(40) DEF KindsIn
      <4>2. CASE data'[q] = RouteData(job.nh, NoId, Empty)
        <5>1. job.nh # NoId => job.nh \in H
          BY <1>8, ZenonT(40) DEF KindsIn
        <5>2. HopsOf(data'[q]) \subseteq {job.nh} \ {NoId} /\ ~isNHG(data'[q])
          BY <4>2, BareData, ZenonT(40)
        <5> QED BY <5>1, <5>2, ZenonT(40)
      <4> QED BY <2>3, <4>1, <4>2, ZenonT(40)
    <3> QED BY <1>1, <1>8, <1>9, <2>2, <3>1, ZenonT(40) DEF KindsIn, HopsOf, isNHG
  <2> QED BY <1>7, <1>9, <1>11, <2>1, <2>4, <2>5, ZenonT(40) DEF IInv, Kinds
<1> QED BY <1>6, <1>10, <1>11, UntouchedKept, ZenonT(40) DEF Switch
LEMMA CreateMemberStep ==
  ASSUME IInv, NEW o \in MemberOutcomes, CreateMember(o)
  PROVE  IInv' /\ Switch
<1> DEFINE g == job.group
           m == With(groups[g], oid + 1, job.nh)
           built == With(job.members, job.nh, oid')
           d == RouteData(NoId, g, built)
<1>1. /\ job.pc = "createMember" /\ Answered(o)
      /\ UNCHANGED <<fib, nhTable, nhActions, stuck, events, want>>
      /\ \/ o # "ok" /\ UNCHANGED <<oid, groups, nhgTable>>
         \/ /\ oid' = oid + 1 /\ groups' = [groups EXCEPT ![g] = m]
            /\ nhgTable' = With(nhgTable, g, Range(m)) \/ (o # "ok" /\ nhgTable' = nhgTable)
      /\ o = "ok" => oid' = oid + 1 /\ groups' = [groups EXCEPT ![g] = m] /\ nhgTable' = With(nhgTable, g, Range(m))
      /\ o # "ok" => job' = Idle /\ UNCHANGED <<data, superseded>>
      /\ o = "ok" /\ job.left # <<>> =>
           job' = [job EXCEPT !.pc = "createHop", !.members = built] /\ UNCHANGED <<data, superseded>>
      /\ o = "ok" /\ job.left = <<>> =>
           /\ job' = [job EXCEPT !.pc = "createRoute", !.members = built]
           /\ data' = [data EXCEPT ![job.p] = d]
           /\ superseded' = superseded \cup (HopsOf(data[job.p]) \cap DOMAIN nhTable)
  BY ZenonT(40) DEF CreateMember, UpdateGroup, GivesUp, Continue, Record, TakesEffect
<1>2. job.pc \in Creating
  BY <1>1, ZenonT(40) DEF Creating
<1>3. /\ Typed /\ Kinds /\ Built /\ job.p \in Prefixes /\ want[job.p] \in Routes \ {Iface}
      /\ \A q \in Prefixes : /\ JobRefs \cap Refs(q) = {} /\ HopsOf(data[q]) \subseteq Refs(q)
                             /\ fib[q].kind = "nhg" => fib[q].id \in Refs(q)
                             /\ isNHG(data[q]) => data[q].group \in Refs(q)
      /\ \A q \in Prefixes : isNHG(data[q]) /\ data[q].group \in DOMAIN groups =>
              Range(groups[data[q].group]) \subseteq HopsOf(data[q])
      /\ NoId \notin Ids /\ DOMAIN nhTable \subseteq Ids
  BY <1>2, Building, RefsAreIds, FreshId, ZenonT(40)
<1>4. /\ g # NoId /\ job.nh \in DOMAIN nhTable /\ job.nh # NoId
      /\ Made \cup {Seen(job.nh)} \cup MeantHops(job.left) = Meant(want[job.p])
      /\ DOMAIN job.members \subseteq DOMAIN nhTable /\ GroupBuilt
  BY <1>1, <1>2, <1>3 DEF Built
<1>5. g \in JobRefs /\ job.nh \in JobRefs /\ g \in DOMAIN groups
  BY <1>4, ZenonT(40) DEF JobHops, JobRefs, GroupBuilt
<1>6. oid + 1 \notin Ids /\ Ids \subseteq Ids' /\ oid \in Nat /\ oid' \in Nat
      /\ (oid' # oid => oid + 1 \in Ids')
  <2>1. oid \in Nat /\ (oid' = oid \/ oid' = oid + 1)
    BY <1>1, <1>3, ZenonT(40) DEF Typed
  <2> QED BY <2>1 DEF Ids, NoId
<1>7. DOMAIN m = DOMAIN groups[g] \cup {oid + 1} /\ Range(m) = DOMAIN job.members \cup {job.nh}
  <2>1. oid + 1 \notin DOMAIN groups[g]
    BY <1>3, <1>5, <1>6, ZenonT(40) DEF Typed
  <2>2. /\ DOMAIN m = DOMAIN groups[g] \cup {oid + 1} /\ m[oid + 1] = job.nh
        /\ \A x \in DOMAIN groups[g] : m[x] = groups[g][x]
    BY <2>1, ZenonT(40) DEF With
  <2> HIDE DEF m, built
  <2>3. Range(m) = Range(groups[g]) \cup {job.nh}
    BY <2>1, <2>2, SMTT(30) DEF Range
  <2> QED BY <1>4, <2>2, <2>3, ZenonT(40) DEF GroupBuilt
<1>8. DOMAIN built = DOMAIN job.members \cup {job.nh}
  BY ZenonT(40) DEF With
<1> HIDE DEF m, built
<1>9. /\ DOMAIN groups' = DOMAIN groups /\ \A x \in DOMAIN groups : x # g => groups'[x] = groups[x]
      /\ groups'[g] \in {groups[g], m} /\ (groups'[g] # groups[g] => oid' # oid)
      /\ \A x \in DOMAIN nhgTable : x \in DOMAIN nhgTable' /\ (x # g => nhgTable'[x] = nhgTable[x])
      /\ \A x \in DOMAIN nhgTable' : x # g => x \in DOMAIN nhgTable
      /\ \/ nhgTable' = nhgTable \/ nhgTable'[g] = Range(m)
      /\ o = "ok" => g \in DOMAIN nhgTable' /\ nhgTable'[g] = Range(m) /\ groups'[g] = m
  <2>1. CASE o # "ok" /\ UNCHANGED <<oid, groups, nhgTable>>
    BY <2>1, ZenonT(40)
  <2>2. CASE /\ oid' = oid + 1 /\ groups' = [groups EXCEPT ![g] = m]
             /\ nhgTable' = With(nhgTable, g, Range(m)) \/ (o # "ok" /\ nhgTable' = nhgTable)
    <3>1. oid' # oid
      BY <1>6, <2>2
    <3>2. \/ /\ DOMAIN nhgTable' = DOMAIN nhgTable \cup {g} /\ nhgTable'[g] = Range(m)
             /\ \A x \in DOMAIN nhgTable : x # g => nhgTable'[x] = nhgTable[x]
          \/ o # "ok" /\ nhgTable' = nhgTable
      BY <2>2, ZenonT(40) DEF With
    <3>3. DOMAIN groups' = DOMAIN groups /\ groups'[g] = m /\ \A x \in DOMAIN groups : x # g => groups'[x] = groups[x]
      BY <1>5, <2>2, ZenonT(40)
    <3> QED BY <3>1, <3>2, <3>3, ZenonT(40)
  <2> QED BY <1>1, <2>1, <2>2, ZenonT(40)
<1>10. \A p \in Prefixes : Untouched(p)
  <2>1. \A p \in Prefixes : fib[p].kind = "nhg" => fib[p].id # g
    BY <1>3, <1>5, ZenonT(40)
  <2> QED BY <1>1, <1>9, <2>1, ZenonT(40) DEF Untouched
<1>11. /\ failures' \in 0..MaxFailures /\ dirty \subseteq dirty' /\ (o = "ok" => failures' = failures)
       /\ o # "ok" => failures' # 0 /\ job.p \in dirty'
  BY <1>1, <1>3, AnsweredFacts, ZenonT(40)
<1>12. PICK H \in SUBSET Ids : KindsIn(H)
  BY <1>3, ZenonT(40) DEF Kinds
<1>13. /\ H \in SUBSET Ids' /\ Ids \ H \subseteq Ids' \ H
       /\ job.nh \in H /\ DOMAIN job.members \subseteq H /\ g \in Ids \ H
  BY <1>4, <1>6, <1>12, ZenonT(40) DEF KindsIn
<1>14. /\ \A x \in DOMAIN nhgTable' : nhgTable'[x] \subseteq H
       /\ \A x \in DOMAIN groups' : Range(groups'[x]) \subseteq H
       /\ DOMAIN nhgTable' \subseteq Ids' \ H /\ DOMAIN groups' \subseteq Ids' \ H
  <2>1. Range(m) \subseteq H
    BY <1>7, <1>13, ZenonT(40)
  <2>2. /\ \A x \in DOMAIN nhgTable : nhgTable[x] \subseteq H
        /\ \A x \in DOMAIN groups : Range(groups[x]) \subseteq H
        /\ DOMAIN nhgTable \subseteq Ids' \ H /\ DOMAIN groups \subseteq Ids' \ H /\ g \in Ids' \ H
    BY <1>12, <1>13, ZenonT(40) DEF KindsIn
  <2>3. \A x \in DOMAIN nhgTable' : nhgTable'[x] \subseteq H
    BY <1>9, <2>1, <2>2, ZenonT(40)
  <2>4. \A x \in DOMAIN groups' : Range(groups'[x]) \subseteq H
    BY <1>9, <2>1, <2>2, ZenonT(40)
  <2>5. DOMAIN nhgTable' \subseteq Ids' \ H /\ DOMAIN groups' \subseteq Ids' \ H
    BY <1>9, <2>2, ZenonT(40)
  <2> QED BY <2>3, <2>4, <2>5, ZenonT(40)
<1>15. \A x \in DOMAIN groups' : DOMAIN groups'[x] \subseteq Ids'
  <2>1. groups'[g] # groups[g] => DOMAIN m \subseteq Ids'
    BY <1>3, <1>5, <1>6, <1>7, <1>9, ZenonT(40) DEF Typed
  <2>2. \A x \in DOMAIN groups : DOMAIN groups[x] \subseteq Ids'
    BY <1>3, <1>6, ZenonT(40) DEF Typed
  <2> QED BY <1>5, <1>9, <2>1, <2>2, ZenonT(40)
<1>16. \A q \in Prefixes : isNHG(data[q]) => data[q].group # g
  BY <1>3, <1>5, ZenonT(40)
<1>17. ASSUME o # "ok" PROVE IInv'
  <2>1. job' = Idle /\ UNCHANGED <<data, superseded>>
    BY <1>1, <1>17, ZenonT(40)
  <2>2. Typed'
    BY <1>1, <1>3, <1>6, <1>11, <1>15, <2>1, NoJob, ZenonT(40) DEF Typed, Active
  <2>3. KindsIn(H)'
    <3>1. DOMAIN job'.members = {} /\ job'.nh = NoId /\ job'.group = NoId
      BY <2>1, NoJob, ZenonT(40)
    <3> QED BY <1>1, <1>12, <1>13, <1>14, <2>1, <3>1, ZenonT(40) DEF KindsIn, HopsOf, isNHG
  <2>4. Owned'
    BY <1>3, <1>9, <1>10, <1>16, <2>1, OwnedKept, ZenonT(40)
  <2> QED BY <1>1, <1>2, <1>10, <1>11, <1>13, <1>17, <2>1, <2>2, <2>3, <2>4, GivingUp, ZenonT(40) DEF IInv, Kinds
<1>18. ASSUME o = "ok" PROVE
         /\ job' \in [pc : Pcs, p : Prefixes \cup {Nil}, left : Seq(Hops), group : Nat, nh : Nat,
                      members : {job'.members}]
         /\ job'.pc = IF job.left # <<>> THEN "createHop" ELSE "createRoute"
         /\ job'.p = job.p /\ job'.nh = job.nh /\ job'.group = g /\ job'.members = built
         /\ job'.left = job.left
  <2>1. PICK pc \in {"createHop", "createRoute"} :
          /\ job' = [job EXCEPT !.pc = pc, !.members = built]
          /\ pc = IF job.left # <<>> THEN "createHop" ELSE "createRoute"
    BY <1>1, <1>18, ZenonT(40)
  <2>2. job \in [pc : Pcs, p : Prefixes \cup {Nil}, left : Seq(Hops), group : Nat, nh : Nat,
                 members : {job.members}]
    BY <1>3, ZenonT(40) DEF Typed
  <2> QED BY <2>1, <2>2, ZenonT(40) DEF Pcs, Creating
<1>19. ASSUME o = "ok" PROVE
         /\ Made' = Made \cup {Seen(job.nh)} /\ DOMAIN built # {} /\ DOMAIN built \subseteq DOMAIN nhTable'
         /\ MeantHops(job.left)' = MeantHops(job.left) /\ Meant(want[job.p])' = Meant(want[job.p])
         /\ GroupBuilt'
         /\ JobHops' = JobHops /\ JobHops = DOMAIN built /\ JobRefs' = JobRefs
         /\ Resolves' /\ Follows'
  <2>1. \A id : Seen(id)' = Seen(id)
    BY <1>1, ZenonT(40) DEF Seen
  <2>2. DOMAIN job'.members = DOMAIN job.members \cup {job.nh}
    BY <1>8, <1>18, <1>19, ZenonT(40)
  <2>3. Made' = Made \cup {Seen(job.nh)}
    BY <2>1, <2>2, ZenonT(40) DEF Made
  <2>4. MeantHops(job.left)' = MeantHops(job.left) /\ Meant(want[job.p])' = Meant(want[job.p])
    BY <1>1, <1>18, <1>19, ZenonT(40) DEF MeantHops, Meant
  <2>5. GroupBuilt'
    BY <1>5, <1>7, <1>9, <1>18, <1>19, <2>2, ZenonT(40) DEF GroupBuilt
  <2>6. JobHops' = JobHops /\ JobHops = DOMAIN built /\ JobRefs' = JobRefs
    BY <1>4, <1>8, <1>18, <1>19, <2>2, ZenonT(40) DEF JobHops, JobRefs
  <2>7. Resolves' /\ Follows'
    <3>1. Active'
      BY <1>18, <1>19, ZenonT(40) DEF Active
    <3> QED BY <1>1, <1>2, <1>10, <1>11, <1>18, <1>19, <3>1, BuildingFrame, ZenonT(40)
  <2> QED BY <1>1, <1>4, <1>8, <2>3, <2>4, <2>5, <2>6, <2>7, ZenonT(40)
<1>20. ASSUME o = "ok", job.left # <<>> PROVE IInv'
  <2>1. UNCHANGED <<data, superseded>> /\ job'.pc = "createHop"
    BY <1>1, <1>18, <1>20, ZenonT(40)
  <2>2. Typed'
    BY <1>1, <1>3, <1>6, <1>11, <1>15, <1>18, <1>20, <2>1, ZenonT(40) DEF Typed, Active
  <2>3. KindsIn(H)'
    <3>1. DOMAIN job'.members \subseteq H /\ job'.nh \in H /\ job'.group \in Ids' \ H
      BY <1>8, <1>13, <1>18, <1>20, ZenonT(40)
    <3> QED BY <1>1, <1>12, <1>13, <1>14, <2>1, <3>1, ZenonT(40) DEF KindsIn, HopsOf, isNHG
  <2>4. Owned' /\ \A q \in Prefixes : Refs(q)' = Refs(q)
    BY <1>3, <1>9, <1>10, <1>16, <2>1, OwnedKept, ZenonT(40)
  <2>5. JobOwned'
    BY <1>1, <1>3, <1>18, <1>19, <1>20, <2>1, <2>4, ZenonT(40) DEF JobOwned, Creating, Removing
  <2>6. Built'
    <3>1. job'.nh \in DOMAIN job'.members
      BY <1>8, <1>18, <1>20, ZenonT(40)
    <3> QED BY <1>4, <1>18, <1>19, <1>20, <2>1, <3>1, ZenonT(40) DEF Built, Creating
  <2>7. failures' = 0 => Accounted'
    <3>1. job'.pc \in Creating /\ DOMAIN nhTable' = DOMAIN nhTable
      BY <1>1, <2>1, ZenonT(40) DEF Creating
    <3> QED BY <1>1, <1>2, <1>11, <1>18, <1>19, <1>20, <2>1, <3>1, AccountedBuilding, ZenonT(40) DEF IInv
  <2> QED BY <1>13, <1>19, <1>20, <2>2, <2>3, <2>4, <2>5, <2>6, <2>7, ZenonT(40) DEF IInv, Kinds
<1>21. ASSUME o = "ok", job.left = <<>> PROVE IInv'
  <2>1. job'.pc = "createRoute"
    BY <1>18, <1>21, ZenonT(40)
  <2>2. PICK p0 \in Prefixes : p0 = job.p
    BY <1>3, ZenonT(40)
  <2>d. PICK d0 : d0 = d
    BY ZenonT(40)
  <2>3. /\ data' = [data EXCEPT ![p0] = d0] /\ data'[p0] = d0 /\ DOMAIN data' = Prefixes
        /\ \A q \in Prefixes : q # p0 => data'[q] = data[q]
        /\ superseded' = superseded \cup (HopsOf(data[p0]) \cap DOMAIN nhTable)
    BY <1>1, <1>3, <1>21, <2>2, <2>d, ZenonT(40) DEF Typed
  <2>4. HopsOf(d0) = DOMAIN built /\ d0.group = g /\ isNHG(d0)
        /\ d0 \in [nh : Nat, group : Nat, members : {d0.members}]
    BY <1>3, <1>4, <2>2, <2>d, ZenonT(40) DEF HopsOf, isNHG, RouteData, Typed, NoId
  <2>5. Typed'
    <3>1. \A q \in Prefixes : data'[q] \in [nh : Nat, group : Nat, members : {data'[q].members}]
      BY <1>3, <2>3, <2>4, ZenonT(40) DEF Typed
    <3> QED BY <1>1, <1>3, <1>6, <1>11, <1>15, <1>18, <1>21, <2>1, <2>3, <3>1, ZenonT(40) DEF Typed, Active
  <2>6. KindsIn(H)'
    <3>1. DOMAIN job'.members \subseteq H /\ job'.nh \in H /\ job'.group \in Ids' \ H
      BY <1>8, <1>13, <1>18, <1>21, ZenonT(40)
    <3>2. \A q \in Prefixes : HopsOf(data'[q]) \subseteq H /\ (isNHG(data'[q]) => data'[q].group \in Ids' \ H)
      BY <1>8, <1>12, <1>13, <2>3, <2>4, SMTT(30) DEF KindsIn
    <3> QED BY <1>1, <1>12, <1>13, <1>14, <3>1, <3>2, ZenonT(40) DEF KindsIn, HopsOf, isNHG
  <2>7. Owned'
    <3>1. DataRefs(p0)' \subseteq JobRefs
      BY <1>4, <1>19, <1>21, <2>3, <2>4, ZenonT(40) DEF DataRefs, HopsOf, isNHG, JobRefs
    <3>2. Range(m) \subseteq HopsOf(d0)
      BY <1>7, <1>8, <2>4, ZenonT(40)
    <3>3. \A q \in Prefixes : isNHG(data'[q]) /\ data'[q].group \in DOMAIN groups' =>
            Range(groups'[data'[q].group]) \subseteq HopsOf(data'[q])
      <4> SUFFICES ASSUME NEW q \in Prefixes, isNHG(data'[q]), data'[q].group \in DOMAIN groups'
                   PROVE  Range(groups'[data'[q].group]) \subseteq HopsOf(data'[q])
        BY ZenonT(40)
      <4>1. CASE q = p0
        BY <1>9, <1>21, <2>3, <2>4, <3>2, <4>1, ZenonT(40)
      <4>2. CASE q # p0
        BY <1>3, <1>9, <1>16, <2>3, <4>2, ZenonT(40) DEF Owned
      <4> QED BY <4>1, <4>2, ZenonT(40)
    <3>4. PICK N : N = JobRefs
      BY ZenonT(40)
    <3>5. DataRefs(p0)' \subseteq N /\ \A q \in Prefixes : N \cap Refs(q) = {}
      BY <1>3, <3>1, <3>4, ZenonT(40)
    <3>6. data' = [data EXCEPT ![p0] = d0]
      BY <2>3, ZenonT(40)
    <3> QED BY <1>10, <3>3, <3>5, <3>6, OwnedRecorded, ZenonT(40)
  <2>8. JobOwned'
    <3>1. JobHops' \subseteq HopsOf(data'[job'.p]) /\ job'.group = data'[job'.p].group
      BY <1>18, <1>19, <1>21, <2>2, <2>d, <2>3, <2>4, ZenonT(40)
    <3> QED BY <1>1, <1>3, <1>18, <1>21, <2>1, <3>1, ZenonT(40) DEF JobOwned, Creating, Removing, HopsOf, isNHG
  <2>9. Built'
    BY <1>4, <1>18, <1>19, <1>21, <2>1, MeantHopsNone, ZenonT(40) DEF Built, Creating
  <2>10. failures' = 0 => Accounted'
    <3>1. /\ JobHops \subseteq HopsOf(d0) /\ (HopsOf(d0) \ JobHops) \cap Ids = {}
          /\ DOMAIN nhTable' = DOMAIN nhTable
      BY <1>1, <1>19, <1>21, <2>4, ZenonT(40)
    <3>2. p0 = job.p /\ job'.p = p0 /\ want' = want /\ (failures' = 0 => Accounted)
      BY <1>1, <1>11, <1>18, <1>21, <2>2, <2>d, ZenonT(40) DEF IInv
    <3> QED BY <1>2, <2>1, <2>3, <3>1, <3>2, AccountedRecorded, ZenonT(40)
  <2> QED BY <1>13, <1>19, <1>21, <2>5, <2>6, <2>7, <2>8, <2>9, <2>10, ZenonT(40) DEF IInv, Kinds
<1> QED BY <1>10, <1>17, <1>20, <1>21, UntouchedKept, ZenonT(40) DEF Switch

(***************************************************************************)
(* The call that switches the entry                                        *)
(***************************************************************************)
LEMMA CreateRouteStep ==
  ASSUME IInv, NEW o \in Outcomes, CreateRoute(o)
  PROVE  IInv' /\ Switch
<1>1. /\ job.pc = "createRoute" /\ Answered(o) /\ job' = Idle
      /\ UNCHANGED <<nhTable, nhActions, nhgTable, groups, oid, data, superseded, events, want>>
      /\ \/ o # "ok" /\ UNCHANGED <<fib, stuck>>
         \/ fib' = [fib EXCEPT ![job.p] = Target] /\ stuck' = stuck \ {job.p}
      /\ o = "ok" => fib' = [fib EXCEPT ![job.p] = Target]
  BY ZenonT(40) DEF CreateRoute, Continue, TakesEffect
<1>2. /\ Typed /\ Kinds /\ Owned /\ Built /\ Resolves /\ Follows /\ job.p \in Prefixes
      /\ want[job.p] \in Routes /\ want[job.p] # Nil /\ Nil # Iface
      /\ JobHops \subseteq HopsOf(data[job.p]) /\ job.group \in {NoId, data[job.p].group}
  BY <1>1, RoutesAssumption, ZenonT(40) DEF IInv, Typed, Active, JobOwned
<1>3. job'.pc = "idle" /\ job' \in {Idle, NewJob("crashed", Nil)}
  BY <1>1, ZenonT(40) DEF Idle, NewJob
<1>4. /\ failures' \in 0..MaxFailures /\ dirty \subseteq dirty' /\ (o = "ok" => failures' = failures)
      /\ o # "ok" => failures' # 0 /\ job.p \in dirty'
  BY <1>1, <1>2, AnsweredFacts, ZenonT(40)
<1>k. PICK k \in Prefixes : k = job.p
  BY <1>2, ZenonT(40)
<1>5. DOMAIN fib' = Prefixes /\ \A q \in Prefixes : q # k => fib'[q] = fib[q]
  BY <1>1, <1>2, <1>k, ZenonT(40) DEF Typed
<1>6. (fib'[k] = fib[k] /\ stuck' = stuck /\ o # "ok") \/ fib'[k] = Target
  BY <1>1, <1>2, <1>k, ZenonT(40) DEF Typed
\* The three shapes of the new entry.
<1>7. \/ Target.kind = "rif" /\ Target.id = NoId /\ want[k] = Iface
      \/ /\ Target.kind = "nhg" /\ Target.id = job.group /\ job.group # NoId /\ want[k] # Iface
         /\ job.group \in DOMAIN nhgTable /\ nhgTable[job.group] = DOMAIN job.members
         /\ DOMAIN job.members # {} /\ Made = Meant(want[k])
      \/ /\ Target.kind = "nh" /\ Target.id = job.nh /\ job.group = NoId /\ want[k] # Iface
         /\ job.nh \in DOMAIN nhTable /\ {Seen(job.nh)} = Meant(want[k])
  BY <1>1, <1>2, <1>k, ZenonT(40) DEF Target, Entry, Built, GroupBuilt
<1>8. DOMAIN job.members \subseteq DOMAIN nhTable /\ NoId \notin Ids /\ DOMAIN nhTable \subseteq Ids
  BY <1>1, <1>2, <1>k, FreshId, RefsAreIds, ZenonT(40) DEF Built
<1>9. Target \in [kind : {"none", "rif", "nh", "nhg"}, id : Nat] /\ Target.kind \in {"rif", "nh", "nhg"}
  BY <1>2, <1>k, ZenonT(40) DEF Target, Entry, Typed, NoId
<1>10. \A q \in Prefixes : q # k => Selects(q)' = Selects(q) /\ FibRefs(q)' = FibRefs(q) /\ Reach(q)' = Reach(q)
  <2> SUFFICES ASSUME NEW q \in Prefixes, q # k
               PROVE  Selects(q)' = Selects(q) /\ FibRefs(q)' = FibRefs(q) /\ Reach(q)' = Reach(q)
    BY ZenonT(40)
  <2>1. fib'[q] = fib[q]
    BY <1>5, ZenonT(40)
  <2> QED BY <1>1, <2>1, ZenonT(40) DEF Selects, FibRefs, Reach, Seen
<1>11. ASSUME fib'[k] = Target PROVE
         /\ Reach(k)' = Meant(want[k])
         /\ Target.kind \in {"nh", "nhg"} =>
              /\ Selects(k)' \subseteq DOMAIN nhTable /\ Selects(k)' # {} /\ Selects(k)' \subseteq JobHops
  <2>1. CASE Target.kind = "rif"
    BY <1>2, <1>7, <1>11, <2>1, ZenonT(40) DEF Reach, Meant
  <2>2. CASE Target.kind = "nhg"
    <3>1. Selects(k)' = DOMAIN job.members
      BY <1>1, <1>7, <1>11, <2>2, ZenonT(40) DEF Selects
    <3>2. Reach(k)' = {Seen(id)' : id \in DOMAIN job.members}
      BY <1>1, <1>8, <1>11, <2>2, <3>1, ZenonT(40) DEF Reach
    <3>3. \A id : Seen(id)' = Seen(id)
      BY <1>1, ZenonT(40) DEF Seen
    <3>4. Reach(k)' = Meant(want[k])
      BY <1>7, <2>2, <3>2, <3>3, ZenonT(40) DEF Made
    <3> QED BY <1>7, <1>8, <2>2, <3>1, <3>4, ZenonT(40) DEF JobHops
  <2>3. CASE Target.kind = "nh"
    <3>1. Selects(k)' = {job.nh} /\ job.nh # NoId
      BY <1>7, <1>8, <1>11, <2>3, ZenonT(40) DEF Selects
    <3>2. Reach(k)' = {Seen(id)' : id \in {job.nh}}
      BY <1>1, <1>7, <1>11, <2>3, <3>1, ZenonT(40) DEF Reach
    <3>3. \A id : Seen(id)' = Seen(id)
      BY <1>1 DEF Seen
    <3>4. {Seen(id)' : id \in {job.nh}} = {Seen(job.nh)}
      BY <3>3, ZenonT(40)
    <3> QED BY <1>7, <2>3, <3>1, <3>2, <3>4, ZenonT(40) DEF JobHops
  <2> QED BY <1>9, <2>1, <2>2, <2>3, ZenonT(40)
<1>12. fib'[k] = fib[k] => Selects(k)' = Selects(k) /\ FibRefs(k)' = FibRefs(k) /\ Reach(k)' = Reach(k)
  BY <1>1, ZenonT(40) DEF Selects, FibRefs, Reach, Seen
<1>13. Typed'
  <2>1. \A q \in Prefixes : fib'[q] \in [kind : {"none", "rif", "nh", "nhg"}, id : Nat]
    BY <1>2, <1>5, <1>6, <1>9, ZenonT(40) DEF Typed
  <2> QED BY <1>1, <1>2, <1>3, <1>4, <1>5, <2>1, NoJob, ZenonT(40) DEF Typed, Active, Ids
<1>14. Kinds'
  <2>1. PICK H \in SUBSET Ids : KindsIn(H)
    BY <1>2, ZenonT(40) DEF Kinds
  <2>2. DOMAIN job'.members = {} /\ job'.nh = NoId /\ job'.group = NoId /\ Ids' = Ids
    BY <1>1, <1>3, NoJob, ZenonT(40) DEF Ids
  <2>3. (Target.kind = "nh" => Target.id \in H) /\ (Target.kind = "nhg" => Target.id \in Ids \ H)
    BY <1>7, <2>1, ZenonT(40) DEF KindsIn
  <2>4. \A q \in Prefixes : /\ fib'[q].kind = "nh" => fib'[q].id \in H
                            /\ fib'[q].kind = "nhg" => fib'[q].id \in Ids \ H
    BY <1>5, <1>6, <2>1, <2>3, ZenonT(40) DEF KindsIn
  <2>5. KindsIn(H)'
    BY <1>1, <2>1, <2>2, <2>4, ZenonT(40) DEF KindsIn, HopsOf, isNHG
  <2> QED BY <2>2, <2>5, ZenonT(40) DEF Kinds
<1>15. Owned'
  <2>1. \A q \in Prefixes : DataRefs(q)' = DataRefs(q) /\ HopsOf(data[q])' = HopsOf(data[q])
    BY <1>1, ZenonT(40) DEF DataRefs, HopsOf, isNHG
  <2>2. \A q \in Prefixes : q # k => Refs(q)' = Refs(q)
    BY <1>10, <2>1, ZenonT(40) DEF Refs
  <2>3. fib'[k] = Target => FibRefs(k)' \subseteq DataRefs(k)
    <3>1. JobHops \subseteq DataRefs(k) /\ (job.group # NoId => job.group \in DataRefs(k))
      BY <1>2, <1>k, ZenonT(40) DEF DataRefs
    <3>2. Target.kind = "nh" => job.nh \in JobHops
      BY <1>7, <1>8, ZenonT(40) DEF JobHops
    <3> QED BY <1>7, <1>11, <3>1, <3>2, ZenonT(40) DEF FibRefs
  <2>4. Refs(k)' \subseteq Refs(k)
    BY <1>6, <1>12, <2>1, <2>3, ZenonT(40) DEF Refs
  <2>5. \A p, q \in Prefixes : p # q => Refs(p) \cap Refs(q) = {}
    BY <1>2, ZenonT(40) DEF Owned
  <2>6. \A p, q \in Prefixes : p # q => Refs(p)' \cap Refs(q)' = {}
    BY <2>2, <2>4, <2>5
  <2> QED BY <1>1, <1>2, <2>1, <2>6, ZenonT(40) DEF Owned, isNHG
<1>16. JobOwned' /\ Built'
  BY <1>3, ZenonT(40) DEF JobOwned, Built, Creating, Removing
<1>17. Resolves'
  <2>1. \A q \in Prefixes : ~Deleting(q)
    BY <1>2, ZenonT(40) DEF Deleting
  <2>2. \A q \in Prefixes \ stuck : fib[q].kind \in {"nh", "nhg"} => Selects(q) # {} /\ Selects(q) \subseteq DOMAIN nhTable
    BY <1>2, <2>1, ZenonT(40) DEF Resolves
  <2>3. \A q \in Prefixes : q # k => (q \in stuck' <=> q \in stuck)
    BY <1>1, <1>k, ZenonT(40)
  <2>4. CASE fib'[k] = Target
    <3>1. \A q \in Prefixes \ stuck' : q # k /\ fib'[q].kind \in {"nh", "nhg"} =>
             Selects(q)' # {} /\ Selects(q)' \subseteq DOMAIN nhTable
      BY <1>5, <1>10, <2>2, <2>3, ZenonT(40)
    <3>2. fib'[k].kind \in {"nh", "nhg"} => Selects(k)' # {} /\ Selects(k)' \subseteq DOMAIN nhTable
      BY <1>11, <2>4, ZenonT(40)
    <3> QED BY <1>1, <3>1, <3>2, ZenonT(40) DEF Resolves
  <2>5. CASE fib'[k] = fib[k] /\ stuck' = stuck
    <3>1. \A q \in Prefixes \ stuck' : fib'[q].kind \in {"nh", "nhg"} =>
             Selects(q)' # {} /\ Selects(q)' \subseteq DOMAIN nhTable
      BY <1>5, <1>10, <1>12, <2>2, <2>5, ZenonT(40)
    <3> QED BY <1>1, <3>1, ZenonT(40) DEF Resolves
  <2> QED BY <1>6, <2>4, <2>5, ZenonT(40)
<1>18. Follows'
  <2>1. \A q \in Prefixes \ dirty : q # k => Reach(q) = Meant(want[q])
    BY <1>2, <1>k, ZenonT(40) DEF Follows
  <2>2. \A q \in Prefixes : Meant(want[q])' = Meant(want[q])
    BY <1>1, ZenonT(40) DEF Meant
  <2> QED BY <1>4, <1>6, <1>10, <1>11, <1>k, <2>1, <2>2, ZenonT(40) DEF Follows
<1>19. failures' = 0 => Accounted'
  <2>1. \A p : Pending(p) = {} /\ Pending(p)' = {}
    BY <1>1, <1>3, ZenonT(40) DEF Pending
  <2>2. failures' = 0 => Accounted
    BY <1>4, ZenonT(40) DEF IInv
  <2>3. \A q \in Prefixes : HopsOf(data[q])' = HopsOf(data[q])
    BY <1>1, ZenonT(40) DEF HopsOf, isNHG
  <2> QED BY <1>1, <1>3, <2>1, <2>2, <2>3, ZenonT(40) DEF Accounted, Creating
<1>20. Switch
  BY <1>6, <1>10, <1>11, <1>12, ZenonT(40) DEF Switch
<1> QED BY <1>13, <1>14, <1>15, <1>16, <1>17, <1>18, <1>19, <1>20, ZenonT(40) DEF IInv

(***************************************************************************)
(* The steps of a deletion                                                 *)
(***************************************************************************)

\* The callback removes only what the route data of its prefix refers to.
LEMMA Deletion ==
  ASSUME IInv, job.pc \in Removing
  PROVE  /\ Typed /\ Kinds /\ Owned /\ job.p \in Prefixes /\ want[job.p] = Nil /\ Deleting(job.p)
         /\ JobHops \subseteq HopsOf(data[job.p]) /\ job.group \in {NoId, data[job.p].group}
         /\ \A q \in Prefixes : q # job.p => JobRefs \cap Refs(q) = {}
         /\ NoId \notin Ids
<1>1. Active
  BY ZenonT(40) DEF Active, Removing
<1>2. /\ Typed /\ Kinds /\ Owned /\ job.p \in Prefixes /\ want[job.p] = Nil
      /\ JobHops \subseteq HopsOf(data[job.p]) /\ job.group \in {NoId, data[job.p].group}
  BY <1>1, ZenonT(40) DEF IInv, Typed, JobOwned
<1>3. JobRefs \subseteq Refs(job.p)
  BY <1>2, ZenonT(40) DEF JobRefs, Refs, DataRefs
<1>4. \A q \in Prefixes : q # job.p => JobRefs \cap Refs(q) = {}
  BY <1>2, <1>3, ZenonT(40) DEF Owned
<1> QED BY <1>1, <1>2, <1>4, FreshId, ZenonT(40) DEF Deleting, Active

LEMMA RemovalStep ==
  ASSUME IInv, job.pc \in Removing, NEW o, Answered(o),
         UNCHANGED <<fib, nhActions, oid, data, stuck, superseded, events, want>>,
         job' \in [pc : Pcs, p : Prefixes \cup {Nil}, left : Seq(Hops), group : Nat, nh : Nat,
                   members : {job'.members}],
         job'.pc \in Removing, job'.p = job.p, job'.group = job.group, JobHops' \subseteq JobHops,
         \A id \in DOMAIN nhTable : id \in DOMAIN nhTable' \/ id = job.nh,
         \A id \in DOMAIN nhTable' : id \in DOMAIN nhTable /\ nhTable'[id] = nhTable[id],
         \A g \in DOMAIN groups' : /\ g \in DOMAIN groups /\ DOMAIN groups'[g] \subseteq DOMAIN groups[g]
                                   /\ Range(groups'[g]) \subseteq Range(groups[g]),
         \A g \in DOMAIN nhgTable : g \in DOMAIN nhgTable' /\ (g # job.group => nhgTable'[g] = nhgTable[g]),
         \A g \in DOMAIN nhgTable' : \/ g \in DOMAIN nhgTable /\ nhgTable'[g] = nhgTable[g]
                                     \/ /\ g = job.group /\ g \in DOMAIN groups
                                        /\ nhgTable'[g] \subseteq Range(groups[g]),
         \A p \in Prefixes : o = "ok" => Pending(p) \cap DOMAIN nhTable' \subseteq Pending(p)'
  PROVE  IInv' /\ Switch
<1>1. PICK k \in Prefixes : k = job.p
  BY Deletion, ZenonT(40)
<1>2. /\ Typed /\ Kinds /\ Owned /\ want[k] = Nil
      /\ JobHops \subseteq HopsOf(data[k]) /\ job.group \in {NoId, data[k].group}
      /\ \A q \in Prefixes : q # k => JobRefs \cap Refs(q) = {}
      /\ NoId \notin Ids /\ \A q \in Prefixes : Refs(q) \subseteq Ids /\ Selects(q) \subseteq Ids
      /\ Ids' = Ids
  BY <1>1, Deletion, RefsAreIds, ZenonT(40) DEF Ids
<1>3. \A q \in Prefixes : q # k => Untouched(q)
  <2> SUFFICES ASSUME NEW q \in Prefixes, q # k PROVE Untouched(q)
    BY ZenonT(40)
  <2>1. Selects(q) \subseteq Refs(q) /\ (fib[q].kind = "nhg" => fib[q].id \in Refs(q))
    BY ZenonT(40) DEF Refs, FibRefs, Selects
  <2>2. fib[q].kind = "nhg" => fib[q].id # job.group
    BY <1>2, <2>1, SMTT(30), ZenonT(40) DEF JobRefs
  <2>3. job.nh \notin Selects(q)
    BY <1>2, <2>1, ZenonT(40) DEF JobRefs, JobHops
  <2> QED BY <2>2, <2>3, ZenonT(40) DEF Untouched
<1>4. Typed'
  BY <1>1, <1>2, AnsweredFacts, ZenonT(40) DEF Typed, Active
<1>5. PICK H \in SUBSET Ids : KindsIn(H)
  BY <1>2, ZenonT(40) DEF Kinds
<1>6. KindsIn(H)'
  <2>1. DOMAIN job'.members \subseteq H /\ (job'.nh # NoId => job'.nh \in H)
    <3>1. JobHops \subseteq H
      BY <1>5, ZenonT(40) DEF KindsIn, JobHops
    <3> QED BY <3>1, ZenonT(40) DEF JobHops
  <2>2. \A g \in DOMAIN nhgTable' : nhgTable'[g] \subseteq H /\ g \in Ids \ H
    BY <1>5, ZenonT(40) DEF KindsIn
  <2>3. \A g \in DOMAIN groups' : Range(groups'[g]) \subseteq H /\ g \in Ids \ H
    BY <1>5, ZenonT(40) DEF KindsIn
  <2>4. DOMAIN nhTable' \subseteq H
    BY <1>5, ZenonT(40) DEF KindsIn
  <2> QED BY <1>2, <1>5, <2>1, <2>2, <2>3, <2>4, ZenonT(40) DEF KindsIn, HopsOf, isNHG
<1>7. Owned'
  <2>1. \A q \in Prefixes : DataRefs(q)' = DataRefs(q) /\ HopsOf(data[q])' = HopsOf(data[q])
    BY ZenonT(40) DEF DataRefs, HopsOf, isNHG
  <2>2. \A q \in Prefixes : q # k => Refs(q)' = Refs(q)
    BY <1>3, <2>1, UntouchedKept, ZenonT(40) DEF Refs
  <2>3. Selects(k)' \subseteq Selects(k) \cup HopsOf(data[k])
    <3>1. job.group \in DOMAIN groups => Range(groups[job.group]) \subseteq HopsOf(data[k])
      <4> SUFFICES ASSUME job.group \in DOMAIN groups PROVE Range(groups[job.group]) \subseteq HopsOf(data[k])
        BY ZenonT(40)
      <4>1. job.group # NoId
        BY <1>2, RefsAreIds, ZenonT(40)
      <4>2. isNHG(data[k]) /\ data[k].group = job.group
        BY <1>2, <4>1, ZenonT(40) DEF isNHG
      <4> QED BY <1>2, <4>2, ZenonT(40) DEF Owned
    <3> QED BY <3>1, ZenonT(40) DEF Selects
  <2>4. FibRefs(k)' \subseteq FibRefs(k) \cup DataRefs(k)
    BY <2>3, ZenonT(40) DEF FibRefs, DataRefs
  <2>5. Refs(k)' \subseteq Refs(k)
    BY <2>1, <2>4, ZenonT(40) DEF Refs
  <2>6. \A p, q \in Prefixes : p # q => Refs(p) \cap Refs(q) = {}
    BY <1>2, ZenonT(40) DEF Owned
  <2>7. \A p, q \in Prefixes : p # q => Refs(p)' \cap Refs(q)' = {}
    BY <2>2, <2>5, <2>6, SMTT(30)
  <2>8. \A q \in Prefixes : isNHG(data[q]) /\ data[q].group \in DOMAIN groups' =>
          Range(groups'[data[q].group]) \subseteq HopsOf(data[q])
    BY <1>2, ZenonT(40) DEF Owned
  <2>9. \A q \in Prefixes : isNHG(data'[q]) /\ data'[q].group \in DOMAIN groups' =>
          Range(groups'[data'[q].group]) \subseteq HopsOf(data'[q])
    BY <2>8, ZenonT(40)
  <2> QED BY <2>7, <2>9, ZenonT(40) DEF Owned, isNHG, HopsOf, Range
<1>8. JobOwned'
  BY <1>1, <1>2, ZenonT(40) DEF JobOwned, Creating, Removing, HopsOf, isNHG
<1>9. Built'
  BY ZenonT(40) DEF Built, Creating, Removing
<1>10. Resolves' /\ Follows'
  <2>1. Active' /\ dirty \subseteq dirty'
    BY <1>2, AnsweredFacts, ZenonT(40) DEF Active, Removing
  <2> QED BY <1>1, <1>3, <2>1, RemovingFrame, ZenonT(40)
<1>11. failures' = 0 => Accounted'
  <2> SUFFICES ASSUME failures' = 0 PROVE Accounted'
    BY ZenonT(40)
  <2>1. o = "ok" /\ Accounted
    BY <1>2, AnsweredFacts, ZenonT(40) DEF IInv
  <2>2. \A q \in Prefixes : HopsOf(data[q])' = HopsOf(data[q])
    BY ZenonT(40) DEF HopsOf, isNHG
  <2>3. superseded \subseteq DOMAIN nhTable'
    <3>1. NoId \notin superseded
      BY <1>2, <2>1, RefsAreIds, ZenonT(40) DEF Accounted
    <3>2. job.nh \notin superseded
      BY <1>1, <1>2, <2>1, <3>1, ZenonT(40) DEF Accounted, JobHops
    <3> QED BY <2>1, <3>2, ZenonT(40) DEF Accounted
  <2>4. \A q \in Prefixes : want[q] = Nil => HopsOf(data[q]) \cap DOMAIN nhTable' \subseteq Pending(q)'
    BY <2>1, ZenonT(40) DEF Accounted
  <2> QED BY <2>1, <2>2, <2>3, <2>4, ZenonT(40) DEF Accounted, Creating, Removing
<1>12. Switch
  BY <1>1, <1>3, UntouchedKept, Deletion, ZenonT(40) DEF Switch
<1> QED BY <1>2, <1>4, <1>6, <1>7, <1>8, <1>9, <1>10, <1>11, <1>12, ZenonT(40) DEF IInv, Kinds

LEMMA RemoveMemberStep ==
  ASSUME IInv, NEW o \in MemberOutcomes, NEW nh, RemoveMember(nh, o)
  PROVE  IInv' /\ Switch
<1> DEFINE g == job.group
           mid == job.members[nh]
           m == Without(groups[g], mid)
           rest == Without(job.members, nh)
<1>1. /\ job.pc = "removeMember" /\ nh \in DOMAIN job.members /\ Answered(o)
      /\ \/ UNCHANGED <<groups, nhgTable>>
         \/ /\ g \in DOMAIN groups /\ groups' = [groups EXCEPT ![g] = m]
            /\ nhgTable' = With(nhgTable, g, Range(m)) \/ nhgTable' = nhgTable
      /\ job' = [job EXCEPT !.pc = "removeHop", !.nh = nh, !.members = rest]
      /\ UNCHANGED <<fib, nhTable, nhActions, oid, data, stuck, superseded, events, want>>
  BY ZenonT(40) DEF RemoveMember, UpdateGroup, Continue
<1>2. job.pc \in Removing
  BY <1>1, ZenonT(40) DEF Removing
<1>3. Typed /\ NoId \notin Ids /\ JobRefs \subseteq Ids
  BY <1>2, Deletion, RefsAreIds, ZenonT(40)
<1>4. nh \in JobHops /\ nh # NoId /\ nh \in Nat
  <2>1. nh \in JobHops
    BY <1>1, ZenonT(40) DEF JobHops
  <2>2. nh \in Ids
    BY <1>3, <2>1, ZenonT(40) DEF JobRefs
  <2> QED BY <1>3, <2>1, <2>2, SMTT(30) DEF Ids, Typed
<1>5. DOMAIN rest = DOMAIN job.members \ {nh}
  BY WithoutFacts, ZenonT(40)
<1>6. DOMAIN m \subseteq DOMAIN groups[g] /\ Range(m) \subseteq Range(groups[g])
  <2>1. DOMAIN m = DOMAIN groups[g] \ {mid} /\ Range(m) \subseteq Range(groups[g])
    BY WithoutFacts, ZenonT(40)
  <2> QED BY <2>1, ZenonT(40)
<1> HIDE DEF m, rest
<1>7. /\ \A x \in DOMAIN groups' : /\ x \in DOMAIN groups /\ DOMAIN groups'[x] \subseteq DOMAIN groups[x]
                                   /\ Range(groups'[x]) \subseteq Range(groups[x])
      /\ \A x \in DOMAIN nhgTable : x \in DOMAIN nhgTable' /\ (x # g => nhgTable'[x] = nhgTable[x])
      /\ \A x \in DOMAIN nhgTable' : \/ x \in DOMAIN nhgTable /\ nhgTable'[x] = nhgTable[x]
                                     \/ x = g /\ x \in DOMAIN groups /\ nhgTable'[x] \subseteq Range(groups[x])
  <2>1. CASE UNCHANGED <<groups, nhgTable>>
    BY <2>1, ZenonT(40)
  <2>2. CASE /\ g \in DOMAIN groups /\ groups' = [groups EXCEPT ![g] = m]
             /\ nhgTable' = With(nhgTable, g, Range(m)) \/ nhgTable' = nhgTable
    <3>1. \/ /\ DOMAIN nhgTable' = DOMAIN nhgTable \cup {g} /\ nhgTable'[g] = Range(m)
             /\ \A x \in DOMAIN nhgTable : x # g => nhgTable'[x] = nhgTable[x]
          \/ nhgTable' = nhgTable
      BY <2>2, ZenonT(40) DEF With
    <3>2. DOMAIN groups' = DOMAIN groups /\ groups'[g] = m /\ \A x \in DOMAIN groups : x # g => groups'[x] = groups[x]
      BY <2>2, ZenonT(40)
    <3>3. \A x \in DOMAIN groups : (x # g /\ groups'[x] = groups[x]) \/ (x = g /\ groups'[x] = m)
      BY <3>2, ZenonT(40)
    <3>4. \A x \in DOMAIN groups' : /\ x \in DOMAIN groups /\ DOMAIN groups'[x] \subseteq DOMAIN groups[x]
                                     /\ Range(groups'[x]) \subseteq Range(groups[x])
      BY <1>6, <3>2, <3>3, ZenonT(40)
    <3>5. \A x \in DOMAIN nhgTable : x \in DOMAIN nhgTable' /\ (x # g => nhgTable'[x] = nhgTable[x])
      BY <3>1, ZenonT(40)
    <3>6. Range(m) \subseteq Range(groups[g])
      BY <1>6, <2>2, ZenonT(40)
    <3>7. \A x \in DOMAIN nhgTable' : \/ x \in DOMAIN nhgTable /\ nhgTable'[x] = nhgTable[x]
                                      \/ x = g /\ x \in DOMAIN groups /\ nhgTable'[x] \subseteq Range(groups[x])
      <4> TAKE x \in DOMAIN nhgTable'
      <4>1. CASE x = g
        BY <4>1, <2>2, <3>1, <3>6
      <4>2. CASE x # g
        BY <4>2, <3>1
      <4> QED BY <4>1, <4>2
    <3> QED BY <3>4, <3>5, <3>7, ZenonT(40)
  <2> QED BY <1>1, <2>1, <2>2, ZenonT(40)
<1>8. /\ job'.pc = "removeHop" /\ job'.p = job.p /\ job'.group = g /\ job'.nh = nh /\ job'.members = rest
      /\ job' \in [pc : Pcs, p : Prefixes \cup {Nil}, left : Seq(Hops), group : Nat, nh : Nat,
                   members : {job'.members}]
  <2>1. job \in [pc : Pcs, p : Prefixes \cup {Nil}, left : Seq(Hops), group : Nat, nh : Nat,
                 members : {job.members}]
    BY <1>3, ZenonT(40) DEF Typed
  <2> QED BY <1>1, <1>4, <2>1, ZenonT(40) DEF Pcs, Removing
<1>9. JobHops' \subseteq JobHops
  BY <1>4, <1>5, <1>8, ZenonT(40) DEF JobHops
<1>10. \A p \in Prefixes : Pending(p) \subseteq Pending(p)'
  BY <1>1, <1>5, <1>8, ZenonT(40) DEF Pending
<1>11. job'.pc \in Removing
  BY <1>8, ZenonT(40) DEF Removing
<1> QED BY <1>1, <1>2, <1>7, <1>8, <1>9, <1>10, <1>11, RemovalStep, ZenonT(40)

LEMMA RemoveHopStep ==
  ASSUME IInv, NEW o \in Outcomes, RemoveHop(o)
  PROVE  IInv' /\ Switch
<1>1. /\ job.pc = "removeHop" /\ Answered(o)
      /\ nhTable' = IF o # "refused" THEN Without(nhTable, job.nh) ELSE nhTable
      /\ job' = [job EXCEPT !.pc = IF DOMAIN job.members # {} THEN "removeMember"
                                   ELSE IF job.group # NoId THEN "removeGroup"
                                   ELSE "removeRoute"]
      /\ UNCHANGED <<fib, nhActions, nhgTable, groups, oid, data, stuck, superseded, events, want>>
  BY ZenonT(40) DEF RemoveHop, Continue, TakesEffect
<1>2. job.pc \in Removing
  BY <1>1, ZenonT(40) DEF Removing
<1>3. Typed
  BY <1>2, Deletion, ZenonT(40)
<1>4. /\ DOMAIN Without(nhTable, job.nh) = DOMAIN nhTable \ {job.nh}
      /\ \A id \in DOMAIN nhTable : id # job.nh => Without(nhTable, job.nh)[id] = nhTable[id]
  BY WithoutFacts, ZenonT(40)
<1>5. /\ \A id \in DOMAIN nhTable : id \in DOMAIN nhTable' \/ id = job.nh
      /\ \A id \in DOMAIN nhTable' : id \in DOMAIN nhTable /\ nhTable'[id] = nhTable[id]
      /\ o = "ok" => job.nh \notin DOMAIN nhTable'
  BY <1>1, <1>4, ZenonT(40)
<1>6. /\ job'.pc = IF DOMAIN job.members # {} THEN "removeMember"
                   ELSE IF job.group # NoId THEN "removeGroup" ELSE "removeRoute"
      /\ job'.p = job.p /\ job'.group = job.group /\ job'.nh = job.nh /\ job'.members = job.members
      /\ job' \in [pc : Pcs, p : Prefixes \cup {Nil}, left : Seq(Hops), group : Nat, nh : Nat,
                   members : {job'.members}]
  <2>1. job \in [pc : Pcs, p : Prefixes \cup {Nil}, left : Seq(Hops), group : Nat, nh : Nat,
                 members : {job.members}]
    BY <1>3, ZenonT(40) DEF Typed
  <2> QED BY <1>1, <2>1, ZenonT(40) DEF Pcs, Removing
<1>7. JobHops' \subseteq JobHops
  BY <1>6, ZenonT(40) DEF JobHops
<1>8. \A p \in Prefixes : o = "ok" => Pending(p) \cap DOMAIN nhTable' \subseteq Pending(p)'
  BY <1>1, <1>5, <1>6, ZenonT(40) DEF Pending
<1>9. job'.pc \in Removing
  BY <1>6, ZenonT(40) DEF Removing
<1> QED BY <1>1, <1>2, <1>5, <1>6, <1>7, <1>8, <1>9, RemovalStep, ZenonT(40)

LEMMA RemoveGroupStep ==
  ASSUME IInv, NEW o \in Outcomes, RemoveGroup(o)
  PROVE  IInv' /\ Switch
<1>1. /\ job.pc = "removeGroup" /\ Answered(o) /\ job' = [job EXCEPT !.pc = "removeRoute"]
      /\ groups' = groups \/ groups' = Without(groups, job.group)
      /\ UNCHANGED <<fib, nhTable, nhActions, nhgTable, oid, data, stuck, superseded, events, want>>
  BY ZenonT(40) DEF RemoveGroup, Continue
<1>2. job.pc \in Removing
  BY <1>1, ZenonT(40) DEF Removing
<1>3. Typed
  BY <1>2, Deletion, ZenonT(40)
<1>4. /\ DOMAIN Without(groups, job.group) = DOMAIN groups \ {job.group}
      /\ \A x \in DOMAIN groups : x # job.group => Without(groups, job.group)[x] = groups[x]
  BY WithoutFacts, ZenonT(40)
<1>5. \A x \in DOMAIN groups' : x \in DOMAIN groups /\ groups'[x] = groups[x]
  BY <1>1, <1>4, ZenonT(40)
<1>6. /\ job'.pc = "removeRoute" /\ job'.p = job.p /\ job'.group = job.group /\ job'.nh = job.nh
      /\ job'.members = job.members
      /\ job' \in [pc : Pcs, p : Prefixes \cup {Nil}, left : Seq(Hops), group : Nat, nh : Nat,
                   members : {job'.members}]
  <2>1. job \in [pc : Pcs, p : Prefixes \cup {Nil}, left : Seq(Hops), group : Nat, nh : Nat,
                 members : {job.members}]
    BY <1>3 DEF Typed
  <2> QED BY <1>1, <2>1, ZenonT(40) DEF Pcs, Removing
<1>7. JobHops' \subseteq JobHops /\ \A p \in Prefixes : Pending(p) = {}
  BY <1>1, <1>6, ZenonT(40) DEF JobHops, Pending
<1>8. job'.pc \in Removing
  BY <1>6, ZenonT(40) DEF Removing
<1> QED BY <1>1, <1>2, <1>5, <1>6, <1>7, <1>8, RemovalStep, ZenonT(40)

LEMMA RemoveRouteStep ==
  ASSUME IInv, NEW o \in Outcomes, RemoveRoute(o)
  PROVE  IInv' /\ Switch
<1>1. PICK k \in Prefixes : k = job.p
  BY Deletion, ZenonT(40) DEF RemoveRoute, Removing
<1>2. /\ job.pc = "removeRoute" /\ Answered(o) /\ job' = Idle
      /\ UNCHANGED <<nhTable, nhActions, nhgTable, groups, oid, data, superseded, events, want>>
      /\ \/ fib' = [fib EXCEPT ![k] = NoEntry] /\ stuck' = stuck \ {k}
         \/ o # "ok" /\ fib' = fib /\ stuck' = stuck \cup {k}
  BY <1>1, ZenonT(40) DEF RemoveRoute, Continue, TakesEffect
<1>3. job.pc \in Removing
  BY <1>2, ZenonT(40) DEF Removing
<1>4. Typed /\ Kinds /\ Owned /\ want[k] = Nil /\ Resolves /\ Follows /\ Deleting(k)
  BY <1>1, <1>3, Deletion, ZenonT(40) DEF IInv
<1>5. job'.pc = "idle" /\ job' \in {Idle, NewJob("crashed", Nil)}
  BY <1>2, ZenonT(40) DEF Idle, NewJob
<1>6. /\ failures' \in 0..MaxFailures /\ dirty \subseteq dirty' /\ (o = "ok" => failures' = failures)
      /\ o # "ok" => failures' # 0 /\ k \in dirty'
  BY <1>1, <1>2, <1>4, AnsweredFacts, ZenonT(40)
<1>7. /\ DOMAIN fib' = Prefixes /\ \A q \in Prefixes : q # k => fib'[q] = fib[q]
      /\ fib'[k] = NoEntry \/ (fib'[k] = fib[k] /\ k \in stuck' /\ o # "ok")
  BY <1>2, <1>4, ZenonT(40) DEF Typed
<1>8. \A q \in Prefixes : fib'[q] = fib[q] \/ (q = k /\ fib'[q] = NoEntry)
  BY <1>7, ZenonT(40)
<1>9. \A q \in Prefixes : fib'[q] = fib[q] => Selects(q)' = Selects(q) /\ FibRefs(q)' = FibRefs(q) /\ Reach(q)' = Reach(q)
  BY <1>2, ZenonT(40) DEF Selects, FibRefs, Reach, Seen
<1>10. NoEntry.kind = "none" /\ NoEntry.id = NoId /\ NoEntry \in [kind : {"none", "rif", "nh", "nhg"}, id : Nat]
  BY ZenonT(40) DEF NoEntry, Entry, NoId
<1>11. Typed'
  <2>1. \A q \in Prefixes : fib'[q] \in [kind : {"none", "rif", "nh", "nhg"}, id : Nat]
    BY <1>4, <1>8, <1>10, ZenonT(40) DEF Typed
  <2> QED BY <1>2, <1>4, <1>5, <1>6, <1>7, <2>1, NoJob, ZenonT(40) DEF Typed, Active, Ids
<1>12. Kinds'
  <2>1. PICK H \in SUBSET Ids : KindsIn(H)
    BY <1>4, ZenonT(40) DEF Kinds
  <2>2. DOMAIN job'.members = {} /\ job'.nh = NoId /\ job'.group = NoId /\ Ids' = Ids
    BY <1>2, <1>5, NoJob, ZenonT(40) DEF Ids
  <2>3. \A q \in Prefixes : /\ fib'[q].kind = "nh" => fib'[q].id \in H
                            /\ fib'[q].kind = "nhg" => fib'[q].id \in Ids \ H
    BY <1>8, <1>10, <2>1, ZenonT(40) DEF KindsIn
  <2>4. KindsIn(H)'
    BY <1>2, <2>1, <2>2, <2>3, ZenonT(40) DEF KindsIn, HopsOf, isNHG
  <2> QED BY <2>2, <2>4 DEF Kinds
<1>13. Owned'
  <2>1. \A q \in Prefixes : DataRefs(q)' = DataRefs(q) /\ HopsOf(data[q])' = HopsOf(data[q])
    BY <1>2, ZenonT(40) DEF DataRefs, HopsOf, isNHG
  <2>2. \A q \in Prefixes : fib'[q] = NoEntry => FibRefs(q)' = {}
    BY <1>10, ZenonT(40) DEF FibRefs
  <2>3. \A q \in Prefixes : Refs(q)' \subseteq Refs(q)
    BY <1>8, <1>9, <2>1, <2>2, ZenonT(40) DEF Refs
  <2>4. \A p, q \in Prefixes : p # q => Refs(p) \cap Refs(q) = {}
    BY <1>4, ZenonT(40) DEF Owned
  <2>5. \A p, q \in Prefixes : p # q => Refs(p)' \cap Refs(q)' = {}
    BY <2>3, <2>4, ZenonT(40)
  <2> QED BY <1>2, <1>4, <2>1, <2>5, ZenonT(40) DEF Owned, isNHG
<1>14. JobOwned' /\ Built'
  BY <1>5, ZenonT(40) DEF JobOwned, Built, Creating, Removing
<1>15. Resolves'
  <2>1. \A q \in Prefixes : q # k => ~Deleting(q) /\ (q \in stuck' <=> q \in stuck)
    BY <1>1, <1>2, ZenonT(40) DEF Deleting
  <2> QED BY <1>2, <1>4, <1>7, <1>9, <1>10, <2>1, ZenonT(40) DEF Resolves
<1>16. Follows'
  <2>1. \A q \in Prefixes \ dirty : q # k => Reach(q) = Meant(want[q])
    BY <1>1, <1>4, ZenonT(40) DEF Follows
  <2>2. \A q \in Prefixes : Meant(want[q])' = Meant(want[q])
    BY <1>2, ZenonT(40) DEF Meant
  <2>3. fib'[k] = NoEntry => Reach(k)' = Meant(want[k])
    BY <1>4, <1>10, ZenonT(40) DEF Reach, Meant
  <2> QED BY <1>6, <1>7, <1>9, <2>1, <2>2, <2>3, ZenonT(40) DEF Follows
<1>17. failures' = 0 => Accounted'
  <2>1. \A p : Pending(p) = {} /\ Pending(p)' = {}
    BY <1>2, <1>5, ZenonT(40) DEF Pending
  <2>2. failures' = 0 => Accounted
    BY <1>6, ZenonT(40) DEF IInv
  <2>3. \A q \in Prefixes : HopsOf(data[q])' = HopsOf(data[q])
    BY <1>2, ZenonT(40) DEF HopsOf, isNHG
  <2> QED BY <1>2, <1>5, <2>1, <2>2, <2>3, ZenonT(40) DEF Accounted, Creating
<1>18. Switch
  BY <1>4, <1>7, <1>9, ZenonT(40) DEF Switch
<1> QED BY <1>11, <1>12, <1>13, <1>14, <1>15, <1>16, <1>17, <1>18 DEF IInv

(***************************************************************************)
(* The theorems                                                            *)
(***************************************************************************)
LEMMA Step ==
  ASSUME IInv, Next
  PROVE  IInv' /\ Switch
<1>1. ASSUME NEW p \in Prefixes, NEW v \in Routes \cup {Nil}, Notify(p, v) PROVE IInv' /\ Switch
  BY <1>1, NotifyStep, ZenonT(40)
<1>2. ASSUME NEW o \in Outcomes, CreateGroup(o) PROVE IInv' /\ Switch
  BY <1>2, CreateGroupStep, ZenonT(40)
<1>3. ASSUME NEW o \in Outcomes, CreateHop(o) PROVE IInv' /\ Switch
  BY <1>3, CreateHopStep
<1>4. ASSUME NEW o \in Outcomes, AddGue(o) PROVE IInv' /\ Switch
  BY <1>4, AddGueStep
<1>5. ASSUME NEW o \in MemberOutcomes, CreateMember(o) PROVE IInv' /\ Switch
  BY <1>5, CreateMemberStep
<1>6. ASSUME NEW o \in Outcomes, CreateRoute(o) PROVE IInv' /\ Switch
  BY <1>6, CreateRouteStep
<1>7. ASSUME NEW o \in MemberOutcomes, NEW nh \in 1..oid, RemoveMember(nh, o) PROVE IInv' /\ Switch
  BY <1>7, RemoveMemberStep, ZenonT(40)
<1>8. ASSUME NEW o \in Outcomes, RemoveHop(o) PROVE IInv' /\ Switch
  BY <1>8, RemoveHopStep
<1>9. ASSUME NEW o \in Outcomes, RemoveGroup(o) PROVE IInv' /\ Switch
  BY <1>9, RemoveGroupStep
<1>10. ASSUME NEW o \in Outcomes, RemoveRoute(o) PROVE IInv' /\ Switch
  BY <1>10, RemoveRouteStep
<1> QED BY <1>1, <1>2, <1>3, <1>4, <1>5, <1>6, <1>7, <1>8, <1>9, <1>10, ZenonT(40) DEF Next

LEMMA Stutter ==
  ASSUME IInv, UNCHANGED vars
  PROVE  IInv'
<1>1. UNCHANGED <<fib, nhTable, nhActions, nhgTable, groups, oid, data, job, want, dirty, stuck,
                  superseded, events, failures>>
  BY ZenonT(40) DEF vars, tables
<1>2. Typed' /\ Kinds'
  BY <1>1, ZenonT(40) DEF IInv, Typed, Kinds, KindsIn, Ids, Active, HopsOf, isNHG
<1>3. Owned'
  <2>1. \A p : Untouched(p)
    BY <1>1, ZenonT(40) DEF Untouched
  <2> QED BY <1>1, <2>1, OwnedKept, ZenonT(40) DEF IInv, Owned
<1>4. JobOwned'
  BY <1>1, ZenonT(40) DEF IInv, JobOwned, JobRefs, JobHops, Refs, FibRefs, DataRefs, Selects, HopsOf, isNHG
<1>5. Built'
  <2>1. Made' = Made /\ (GroupBuilt' <=> GroupBuilt) /\ Seen(job.nh)' = Seen(job.nh)
    BY <1>1, ZenonT(40) DEF Made, Seen, GroupBuilt
  <2>2. MeantHops(job.left)' = MeantHops(job.left) /\ Meant(want[job.p])' = Meant(want[job.p])
    BY <1>1, ZenonT(40) DEF MeantHops, Meant
  <2> QED BY <1>1, <2>1, <2>2, ZenonT(40) DEF IInv, Built
<1>6. Resolves' /\ Follows'
  <2>1. \A p : /\ Selects(p)' = Selects(p) /\ Reach(p)' = Reach(p) /\ Meant(want[p])' = Meant(want[p])
               /\ Deleting(p)' <=> Deleting(p)
    BY <1>1, ZenonT(40) DEF Selects, Reach, Seen, Meant, Deleting
  <2>2. Resolves'
    BY <1>1, <2>1, ZenonT(40) DEF IInv, Resolves
  <2>3. Follows'
    BY <1>1, <2>1, ZenonT(40) DEF IInv, Follows, Active
  <2> QED BY <2>2, <2>3, ZenonT(40)
<1>7. failures' = 0 => Accounted'
  BY <1>1, ZenonT(40) DEF IInv, Accounted, Pending, JobHops, HopsOf, isNHG
<1> QED BY <1>2, <1>3, <1>4, <1>5, <1>6, <1>7, ZenonT(40) DEF IInv

\* The inductive invariant holds in every state that calls, failures included,
\* can reach.
THEOREM Invariant == Spec => []IInv
<1>1. IInv /\ [Next]_vars => IInv'
  BY Step, Stutter, ZenonT(40)
<1> QED BY Initially, <1>1, PTL DEF Spec

\* No entry of the FIB leads to a next hop that is gone or to an empty group
\* outside the deletion of its route, and ids keep their kinds: what one series of
\* calls removes no entry but its own can refer to.
THEOREM NothingDangles == Spec => []EntriesResolve
<1>1. ASSUME IInv PROVE EntriesResolve
  <2>1. PICK H \in SUBSET Ids : KindsIn(H)
    BY <1>1, ZenonT(40) DEF IInv, Kinds
  <2>2. /\ DOMAIN nhTable \subseteq Ids /\ nhActions \subseteq Ids
        /\ DOMAIN groups \subseteq Ids /\ DOMAIN nhgTable \subseteq Ids
        /\ DOMAIN nhTable \cap (DOMAIN nhgTable \cup DOMAIN groups) = {}
        /\ \A g \in DOMAIN nhgTable : nhgTable[g] \subseteq Ids \ DOMAIN nhgTable
        /\ \A p \in Prefixes : HopsOf(data[p]) \subseteq Ids \ DOMAIN nhgTable
    BY <2>1, ZenonT(40) DEF KindsIn
  <2>3. Range(nhTable) \subseteq Hops
    BY <1>1, SMTT(30) DEF IInv, Typed, Range
  <2>4. TypeOK
    BY <1>1, <2>2, <2>3, ZenonT(40) DEF TypeOK, IInv, Typed
  <2> QED BY <1>1, <2>4, ZenonT(40) DEF EntriesResolve, IInv, Resolves
<1> QED BY <1>1, Invariant, PTL

\* When the callback returned and no call of the last change of a route failed,
\* packets go where the change says, whatever earlier changes left behind.
THEOREM LastChangeCounts == Spec => []Settled
<1>1. ASSUME IInv PROVE Settled
  BY <1>1, ZenonT(40) DEF IInv, Follows, Settled, Active
<1> QED BY <1>1, Invariant, PTL

\* Packets for a prefix switch from the old hops to all of the new ones in one
\* step, with any number of failures, other than during the deletion of the route.
THEOREM UpdatesAreAtomic == Spec => SwitchesAtOnce
<1>1. IInv /\ [Next]_vars =>
        [\A p \in Prefixes : Reach(p)' # Reach(p) => Deleting(p) \/ Reach(p)' = Meant(want[p])]_vars
  BY Step, ZenonT(40) DEF Switch
<1> QED BY <1>1, Invariant, PTL DEF Spec, SwitchesAtOnce

\* While no call fails every next hop in the table is one that a live route
\* recorded, or one whose record an update overwrote.
THEOREM OnlyUpdatesLeak == Spec => []HopsAccounted
<1>1. ASSUME IInv PROVE HopsAccounted
  <2> SUFFICES ASSUME job.pc = "idle", failures = 0
               PROVE  DOMAIN nhTable \ UNION {HopsOf(data[p]) : p \in {q \in Prefixes : want[q] # Nil}} = superseded
    BY ZenonT(40) DEF HopsAccounted
  <2>1. Accounted
    BY <1>1, ZenonT(40) DEF IInv
  <2>2. \A p \in Prefixes : want[p] = Nil => HopsOf(data[p]) \cap DOMAIN nhTable = {}
    BY <2>1, ZenonT(40) DEF Accounted, Pending
  <2>3. \A id \in DOMAIN nhTable : id \in superseded \/ \E p \in Prefixes : want[p] # Nil /\ id \in HopsOf(data[p])
    BY <2>1, <2>2, ZenonT(40) DEF Accounted, Creating
  <2>4. superseded \subseteq DOMAIN nhTable /\ \A p \in Prefixes : superseded \cap HopsOf(data[p]) = {}
    BY <2>1, ZenonT(40) DEF Accounted
  <2> DEFINE kept == UNION {HopsOf(data[p]) : p \in {q \in Prefixes : want[q] # Nil}}
  <2>5. \A id : id \in kept <=> \E p \in Prefixes : want[p] # Nil /\ id \in HopsOf(data[p])
    BY Zenon
  <2> HIDE DEF kept
  <2>6. DOMAIN nhTable \ kept = superseded
    BY <2>3, <2>4, <2>5, ZenonT(40)
  <2> QED BY <2>6, ZenonT(40) DEF kept
<1> QED BY <1>1, Invariant, PTL
=============================================================================

-------------------------- MODULE RouteReconciler --------------------------
(***************************************************************************)
(* How a route reaches the forwarding tables: the watch of the dataplane   *)
(* reconciler (dplanerc/routes.go), which turns each change of a route into*)
(* a series of calls, and the SAI server (saiserver/routing.go) that       *)
(* answers them with entries of the FIB, next-hop and next-hop-group       *)
(* tables.  Packets look the tables up at any time, so every state between *)
(* two calls matters.                                                      *)
(*                                                                         *)
(* A call succeeds, is refused without effect, takes effect in part, or    *)
(* takes effect and loses its answer.  Hops are on interfaces the          *)
(* reconciler knows.                                                       *)
(***************************************************************************)
EXTENDS Integers, Sequences, Functions

CONSTANTS Prefixes, Hops,
          GueHops,      \* the hops with a GUE header to add
          Routes,       \* values of a route: Iface, or a sequence of hops
          Iface, Nil,
          MaxEvents,    \* bound: changes the watch sees
          MaxFailures   \* bound: calls that fail

ASSUME RoutesAssumption ==
  /\ GueHops \subseteq Hops
  /\ \A r \in Routes \ {Iface} : r \in Seq(Hops) /\ r # <<>>
  /\ Nil \notin Routes /\ Nil # Iface
  /\ MaxEvents \in Nat /\ MaxFailures \in Nat

VARIABLES fib,        \* per prefix what its entry leads to
          nhTable,    \* the next-hop table: id -> hop
          nhActions,  \* the ids with an entry in the next-hop-action table
          nhgTable,   \* the group table: id -> the next hops it selects from
          groups,     \* nextHopGroup.groups: group -> (member -> next hop)
          oid,        \* the last object id given out
          data,       \* ocRouteData, per prefix
          job,        \* what the callback of the watch is doing
          want,       \* the last value of each route the watch saw
          dirty,      \* the prefixes for whose last change a call failed
          stuck,      \* the prefixes whose entry a removal was refused for
          superseded, \* the next hops of route data that was overwritten
          events, failures

tables == <<fib, nhTable, nhActions, nhgTable, groups, oid>>
vars == <<tables, data, job, want, dirty, stuck, superseded, events, failures>>

NoId == 0
Empty == [x \in {} |-> x]
With(f, k, v) == [x \in DOMAIN f \cup {k} |-> IF x = k THEN v ELSE f[x]]
Without(f, k) == Restrict(f, DOMAIN f \ {k})

Entry(kind, id) == [kind |-> kind, id |-> id]
NoEntry == Entry("none", NoId)

\* routeData: the hop of a single-hop route, or the group with its members, a
\* map from next hop to member.
RouteData(nh, group, members) == [nh |-> nh, group |-> group, members |-> members]
NoData == RouteData(NoId, NoId, Empty)
isNHG(d) == d.group # NoId

NewJob(pc, p) ==
  [pc |-> pc, p |-> p, left |-> <<>>, group |-> NoId, nh |-> NoId, members |-> Empty]
Idle == NewJob("idle", Nil)

Init == /\ fib = [p \in Prefixes |-> NoEntry]
        /\ nhTable = Empty /\ nhActions = {} /\ nhgTable = Empty /\ groups = Empty
        /\ oid = 0
        /\ data = [p \in Prefixes |-> NoData]
        /\ job = Idle
        /\ want = [p \in Prefixes |-> Nil]
        /\ dirty = {} /\ stuck = {} /\ superseded = {}
        /\ events = 0 /\ failures = 0

(***************************************************************************)
(* The outcome of a call                                                   *)
(***************************************************************************)
Outcomes == {"ok", "refused", "lost"}

\* Those of updateNextHopGroupMember: it changes the group before it looks up the
\* hash and writes the entry, either of which may fail.
MemberOutcomes == Outcomes \cup {"partial"}

Answered(o) == /\ o # "ok" => failures < MaxFailures
               /\ failures' = IF o = "ok" THEN failures ELSE failures + 1
               /\ dirty' = IF o = "ok" THEN dirty ELSE dirty \cup {job.p}

TakesEffect(o) == o # "refused"

(***************************************************************************)
(* The callback                                                            *)
(***************************************************************************)
\* The next hops of route data.
HopsOf(d) == IF isNHG(d) THEN DOMAIN d.members ELSE {d.nh} \ {NoId}

FirstCreate(p, v) ==
  IF v = Iface THEN NewJob("createRoute", p)
  ELSE [NewJob(IF Len(v) = 1 THEN "createHop" ELSE "createGroup", p) EXCEPT !.left = v]

FirstRemove(p) ==
  IF data[p] = NoData THEN NewJob("removeRoute", p)
  ELSE IF isNHG(data[p])
  THEN [NewJob("removeMember", p) EXCEPT !.group = data[p].group, !.members = data[p].members]
  ELSE [NewJob("removeHop", p) EXCEPT !.nh = data[p].nh]

\* The first call for the value v of the route of p.
FirstStepRemovingOld(p, v) ==
  IF v = Nil \/ (data[p] # NoData /\ ~isNHG(data[p])) THEN FirstRemove(p) ELSE FirstCreate(p, v)
FirstStep(p, v) == IF v = Nil THEN FirstRemove(p) ELSE FirstCreate(p, v)

\* The watch calls back with a value of the route of p, Nil for a deletion; the
\* value may be the one it called back with before.
Notify(p, v) ==
  /\ job.pc = "idle"
  /\ events < MaxEvents
  /\ events' = events + 1
  /\ want' = [want EXCEPT ![p] = v]
  /\ dirty' = dirty \ {p}
  /\ job' = FirstStep(p, v)
  /\ UNCHANGED <<tables, data, stuck, superseded, failures>>

\* The callback goes on with j; Idle when it returns.
Continue(j) == job' = j /\ UNCHANGED <<events, want>>

\* CreateNextHopGroup.  The answer is used before the error is looked at: an
\* error, which comes without an answer, ends the process.
CreateGroup(o) ==
  /\ job.pc = "createGroup"
  /\ Answered(o)
  /\ IF TakesEffect(o) THEN oid' = oid + 1 /\ groups' = With(groups, oid + 1, Empty)
                       ELSE UNCHANGED <<oid, groups>>
  /\ Continue(IF o = "ok" THEN [job EXCEPT !.pc = "createHop", !.group = oid'] ELSE NewJob("crashed", Nil))
  /\ UNCHANGED <<fib, nhTable, nhActions, nhgTable, data, stuck, superseded>>

\* The route data of p is overwritten, and with it what is known of older hops.
Record(p, d) == /\ data' = [data EXCEPT ![p] = d]
                /\ superseded' = superseded \cup (HopsOf(data[p]) \cap DOMAIN nhTable)

\* createNextHop returned the hop j.nh.
HopMade(j) ==
  IF j.group # NoId
  THEN Continue([j EXCEPT !.pc = "createMember"]) /\ UNCHANGED <<data, superseded>>
  ELSE Continue([j EXCEPT !.pc = "createRoute"]) /\ Record(j.p, RouteData(j.nh, NoId, Empty))

GivesUp == Continue(Idle) /\ UNCHANGED <<data, superseded>>

CreateHop(o) ==
  /\ job.pc = "createHop"
  /\ Answered(o)
  /\ IF TakesEffect(o) THEN oid' = oid + 1 /\ nhTable' = With(nhTable, oid + 1, Head(job.left))
                       ELSE UNCHANGED <<oid, nhTable>>
  /\ LET made == [job EXCEPT !.nh = oid', !.left = Tail(job.left)]
     IN  IF o # "ok" THEN GivesUp
         ELSE IF Head(job.left) \in GueHops
         THEN Continue([made EXCEPT !.pc = "addGue"]) /\ UNCHANGED <<data, superseded>>
         ELSE HopMade(made)
  /\ UNCHANGED <<fib, nhActions, nhgTable, groups, stuck>>

\* The entry of the next-hop-action table that adds the GUE header.
AddGue(o) ==
  /\ job.pc = "addGue"
  /\ Answered(o)
  /\ nhActions' = IF TakesEffect(o) THEN nhActions \cup {job.nh} ELSE nhActions
  /\ IF o = "ok" THEN HopMade(job) ELSE GivesUp
  /\ UNCHANGED <<fib, nhTable, nhgTable, groups, oid, stuck>>

\* updateNextHopGroupMember writes the entry of the group g anew from its members.
UpdateGroup(g, members, o) ==
  /\ groups' = [groups EXCEPT ![g] = members]
  /\ nhgTable' = IF o = "partial" THEN nhgTable ELSE With(nhgTable, g, Range(members))

CreateMemberEarly(o) ==
  /\ job.pc = "createMember"
  /\ Answered(o)
  /\ IF TakesEffect(o) THEN oid' = oid + 1 /\ UpdateGroup(job.group, With(groups[job.group], oid + 1, job.nh), o)
                       ELSE UNCHANGED <<oid, groups, nhgTable>>
  /\ LET members == With(job.members, job.nh, oid')
     IN  IF o # "ok" THEN GivesUp
         ELSE /\ Continue([job EXCEPT !.pc = "createRoute", !.members = members])
              /\ Record(job.p, RouteData(NoId, job.group, members))
  /\ UNCHANGED <<fib, nhTable, nhActions, stuck>>

CreateMember(o) ==
  /\ job.pc = "createMember"
  /\ Answered(o)
  /\ IF TakesEffect(o) THEN oid' = oid + 1 /\ UpdateGroup(job.group, With(groups[job.group], oid + 1, job.nh), o)
                       ELSE UNCHANGED <<oid, groups, nhgTable>>
  /\ LET members == With(job.members, job.nh, oid')
     IN  IF o # "ok" THEN GivesUp
         ELSE IF job.left # <<>>
         THEN Continue([job EXCEPT !.pc = "createHop", !.members = members]) /\ UNCHANGED <<data, superseded>>
         ELSE /\ Continue([job EXCEPT !.pc = "createRoute", !.members = members])
              /\ Record(job.p, RouteData(NoId, job.group, members))
  /\ UNCHANGED <<fib, nhTable, nhActions, stuck>>

TargetLastHop == IF want[job.p] = Iface THEN Entry("rif", NoId) ELSE Entry("nh", job.nh)

\* What the entry of the route leads to: the interface, the group or the hop.
Target == IF want[job.p] = Iface THEN Entry("rif", NoId)
          ELSE IF job.group # NoId THEN Entry("nhg", job.group)
          ELSE Entry("nh", job.nh)

CreateRoute(o) ==
  /\ job.pc = "createRoute"
  /\ Answered(o)
  /\ IF TakesEffect(o) THEN fib' = [fib EXCEPT ![job.p] = Target] /\ stuck' = stuck \ {job.p}
                       ELSE UNCHANGED <<fib, stuck>>
  /\ Continue(Idle)
  /\ UNCHANGED <<nhTable, nhActions, nhgTable, groups, oid, data, superseded>>

\* The removals go on whatever the answer is.  The server looks for the member.
RemoveMember(nh, o) ==
  LET mid == job.members[nh]
      found == job.group \in DOMAIN groups /\ mid \in DOMAIN groups[job.group]
  IN  /\ job.pc = "removeMember" /\ nh \in DOMAIN job.members
      /\ Answered(o)
      /\ IF TakesEffect(o) /\ found
         THEN UpdateGroup(job.group, Without(groups[job.group], mid), o)
         ELSE UNCHANGED <<groups, nhgTable>>
      /\ Continue([job EXCEPT !.pc = "removeHop", !.nh = nh,
                              !.members = Without(job.members, nh)])
      /\ UNCHANGED <<fib, nhTable, nhActions, oid, data, stuck, superseded>>

RemoveHopEnding(o) ==
  /\ job.pc = "removeHop"
  /\ Answered(o)
  /\ nhTable' = IF TakesEffect(o) THEN Without(nhTable, job.nh) ELSE nhTable
  /\ Continue([job EXCEPT !.pc = IF job.group # NoId THEN "removeGroup" ELSE "removeRoute"])
  /\ UNCHANGED <<fib, nhActions, nhgTable, groups, oid, data, stuck, superseded>>

\* The entry of the next-hop-action table stays.
RemoveHop(o) ==
  /\ job.pc = "removeHop"
  /\ Answered(o)
  /\ nhTable' = IF TakesEffect(o) THEN Without(nhTable, job.nh) ELSE nhTable
  /\ Continue([job EXCEPT !.pc = IF DOMAIN job.members # {} THEN "removeMember"
                                 ELSE IF job.group # NoId THEN "removeGroup"
                                 ELSE "removeRoute"])
  /\ UNCHANGED <<fib, nhActions, nhgTable, groups, oid, data, stuck, superseded>>

\* The server forgets the group and then asks the next-hop table, which has no
\* such key, to remove its entry: the call always fails and the entry stays.
RemoveGroup(o) ==
  /\ job.pc = "removeGroup"
  /\ Answered(o)
  /\ groups' = IF TakesEffect(o) THEN Without(groups, job.group) ELSE groups
  /\ Continue([job EXCEPT !.pc = "removeRoute"])
  /\ UNCHANGED <<fib, nhTable, nhActions, nhgTable, oid, data, stuck, superseded>>

RemoveRoute(o) ==
  /\ job.pc = "removeRoute"
  /\ Answered(o)
  /\ IF TakesEffect(o) THEN fib' = [fib EXCEPT ![job.p] = NoEntry] /\ stuck' = stuck \ {job.p}
                       ELSE stuck' = stuck \cup {job.p} /\ UNCHANGED fib
  /\ Continue(Idle)
  /\ UNCHANGED <<nhTable, nhActions, nhgTable, groups, oid, data, superseded>>

Next == \/ \E p \in Prefixes, v \in Routes \cup {Nil} : Notify(p, v)
        \/ \E o \in Outcomes : CreateGroup(o)
        \/ \E o \in Outcomes : CreateHop(o)
        \/ \E o \in Outcomes : AddGue(o)
        \/ \E o \in MemberOutcomes : CreateMember(o)
        \/ \E o \in Outcomes : CreateRoute(o)
        \/ \E o \in MemberOutcomes, nh \in 1..oid : RemoveMember(nh, o)
        \/ \E o \in Outcomes : RemoveHop(o)
        \/ \E o \in Outcomes : RemoveGroup(o)
        \/ \E o \in Outcomes : RemoveRoute(o)

Spec == Init /\ [][Next]_vars

(***************************************************************************)
(* What a packet meets                                                     *)
(***************************************************************************)
\* A next hop as a packet sees it: the hop, and whether a header is added.
Seen(id) == <<nhTable[id], id \in nhActions>>

\* The next hops that the entry of p selects from.
Selects(p) == IF fib[p].kind = "nh" THEN {fib[p].id}
              ELSE IF fib[p].kind = "nhg" /\ fib[p].id \in DOMAIN nhgTable THEN nhgTable[fib[p].id]
              ELSE {}

\* Where packets for p go.
Reach(p) == IF fib[p].kind = "none" THEN Nil
            ELSE IF fib[p].kind = "rif" THEN Iface
            ELSE {Seen(id) : id \in Selects(p) \cap DOMAIN nhTable}

\* Where the value v of a route sends them.
Meant(v) == IF v \in {Nil, Iface} THEN v ELSE {<<h, h \in GueHops>> : h \in Range(v)}

Deleting(p) == job.pc \notin {"idle", "crashed"} /\ job.p = p /\ want[p] = Nil

(***************************************************************************)
(* Properties                                                              *)
(***************************************************************************)
Ids == 1..oid

\* Every id the tables, the route data and the callback hold was given out
\* before, and no id names two kinds of objects.
TypeOK == /\ DOMAIN fib = Prefixes
          /\ DOMAIN nhTable \subseteq Ids /\ Range(nhTable) \subseteq Hops
          /\ nhActions \subseteq Ids
          /\ DOMAIN groups \subseteq Ids /\ DOMAIN nhgTable \subseteq Ids
          /\ DOMAIN nhTable \cap (DOMAIN nhgTable \cup DOMAIN groups) = {}
          /\ \A g \in DOMAIN nhgTable : nhgTable[g] \subseteq Ids \ DOMAIN nhgTable
          /\ \A p \in Prefixes : HopsOf(data[p]) \subseteq Ids \ DOMAIN nhgTable
          /\ want \in [Prefixes -> Routes \cup {Nil}]
          /\ failures \in 0..MaxFailures /\ events \in 0..MaxEvents

\* No entry of the FIB leads to a next hop that is gone, or to a group with
\* nothing to select from, while the route is not being deleted: updates and
\* failures of other calls never remove what an entry in place still uses.  The
\* entries whose own removal was refused are the exception.  Ids keep their kinds.
EntriesResolve ==
  TypeOK /\ \A p \in Prefixes \ stuck :
    fib[p].kind \in {"nh", "nhg"} /\ ~Deleting(p) =>
      Selects(p) # {} /\ Selects(p) \subseteq DOMAIN nhTable

\* Once the callback returned and no call failed for the last change of a route,
\* packets go where that change says, whatever went wrong for earlier changes of
\* it or for other routes: each series of calls starts from any wreckage.
Settled ==
  job.pc = "idle" => \A p \in Prefixes \ dirty : Reach(p) = Meant(want[p])

\* An update is seen whole or not at all: outside a deletion packets for a
\* prefix change from where they went to all the hops of the new value at once,
\* headers included, never to a group that is still being filled.
SwitchesAtOnce ==
  [][\A p \in Prefixes :
       Reach(p)' # Reach(p) => Deleting(p) \/ Reach(p)' = Meant(want[p])]_vars

\* Without failing calls the next hops in the table are those recorded for a
\* route that is there, and those whose route data an update overwrote: the
\* deletion of a route removes all it recorded, and only updates leak.
HopsAccounted ==
  job.pc = "idle" /\ failures = 0 =>
    DOMAIN nhTable \ UNION {HopsOf(data[p]) : p \in {q \in Prefixes : want[q] # Nil}} = superseded
=============================================================================

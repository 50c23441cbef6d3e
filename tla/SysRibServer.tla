---------------------------- MODULE SysRibServer ----------------------------
(***************************************************************************)
(* The sysrib server: every change of the RIB, of an interface or of a GUE *)
(* policy is followed, in the goroutine that made it, by a run of          *)
(* ResolveAndProgramDiff, which programs what has changed in the dataplane *)
(* and redistributes it to the ZAPI clients.                               *)
(*                                                                         *)
(* Locks.  A run holds rib.mu for reading, so runs overlap and the RIB and *)
(* the policies change between runs only.  interfacesMu and                *)
(* programmedRoutesMu are held for one step; resolvedRoutesMu for the      *)
(* whole sweep at the end of a run.  A call to the dataplane, and a        *)
(* message to the clients, is a step of its own.                           *)
(*                                                                         *)
(* A key absent from programmedRoutes or resolvedRoutes has the value {}.  *)
(***************************************************************************)
EXTENDS SysRibResolve

CONSTANTS Procs,        \* goroutines that call into the server
          Watchers,     \* those of them that report interface states
          Policies,     \* prefixes of the GUE policies that may be configured
          Clients,      \* ZAPI connections
          InitiallyUp,  \* interfaces reported up before the first route
          MayFail       \* whether calls to the dataplane may fail

ASSUME ServerAssumption ==
  /\ Watchers \subseteq Procs
  /\ Policies \subseteq Prefixes
  /\ InitiallyUp \subseteq Interfaces
  /\ MayFail \in BOOLEAN

VARIABLES rib,         \* Server.rib: the routes of the tree
          interfaces,  \* the interfaces that are enabled
          policies,    \* the GUE policies of the RIB
          fib,         \* the routes published to the dataplane
          programmed,  \* programmedRoutes: the next hops of each key
          resolved,    \* resolvedRoutes: the top-level route of each key
          pc,          \* where each goroutine is
          todo,        \* prefixes its iteration has still to visit
          fresh,       \* its newResolvedRoutes
          cur,         \* the route it is about to program
          stale,       \* keys its sweep has still to deprogram
          failed,      \* whether a dataplane call failed in its last run
          conn,        \* the state of each client connection
          snap,        \* the resolved routes taken for a new client
          out,         \* routes still to be sent to a new client
          view,        \* what each client was told last of each key
          raced,       \* history: an interface has changed during a run of another goroutine
          undone,      \* history: keys that could not be deprogrammed, not resolved since
          missed       \* history: keys of which a client may have missed changes as it joined
ribVars == <<rib, interfaces, policies>>
runVars == <<todo, fresh, cur, stale, failed>>
connVars == <<conn, snap, out>>
history == <<raced, undone, missed>>
vars == <<ribVars, fib, programmed, resolved, pc, runVars, connVars, view, history>>

None == [k \in Prefixes |-> {}]

\* resolvedRouteToRouteRequest: a single next hop without an address stands for
\* a route to the interface.  RouteRequest({}) is no route.
RouteRequest(nhs) ==
  IF Cardinality(nhs) = 1 /\ \A x \in nhs : x.address = NoAddress
    THEN [interface |-> {x.port : x \in nhs}, nexthops |-> {}]
    ELSE [interface |-> {}, nexthops |-> nhs]

\* distributeRoute and convertToZAPIRoute: BGP and connected routes are not
\* redistributed; of the others the client learns the gateways.
Redistributed(r) == ~IsBGP(r) /\ ~IsConnected(r)
Gates(nhs) == {x.address : x \in nhs}
ClientMap == {c \in Clients : conn[c] # "off"}
Joining == {"resolved", "sending"}

Sweeping == {"sweep", "unrecord", "withdraw"}
Running == {"resolve", "check", "program", "record", "distribute"} \cup Sweeping

Init ==
  /\ rib = {} /\ interfaces = InitiallyUp /\ policies = {}
  /\ fib = [k \in Prefixes |-> RouteRequest({})]
  /\ programmed = None /\ resolved = None
  /\ pc = [p \in Procs |-> "idle"]
  /\ todo = [p \in Procs |-> {}] /\ fresh = [p \in Procs |-> None]
  /\ cur = [p \in Procs |-> <<>>] /\ stale = [p \in Procs |-> {}]
  /\ failed = [p \in Procs |-> FALSE]
  /\ conn = [c \in Clients |-> "off"]
  /\ snap = [c \in Clients |-> None] /\ out = [c \in Clients |-> None]
  /\ view = [c \in Clients |-> None]
  /\ raced = FALSE /\ undone = {} /\ missed = [c \in Clients |-> {}]

Goto(p, label) == pc' = [pc EXCEPT ![p] = label]

\* A panic in one goroutine ends the process.
Crashes == {"stackOverflow", "nilRoute"}
Crash(why) ==
  /\ pc' = [q \in Procs |-> why]
  /\ conn' = [c \in Clients |-> "crashed"]

(***************************************************************************)
(* Changes, each followed by a run                                         *)
(***************************************************************************)

\* rib.mu.Lock waits until no run holds the lock for reading.
NoRun == \A q \in Procs : pc[q] \notin Running

SetRoute(p, r, isDelete) ==
  /\ pc[p] = "idle" /\ NoRun
  /\ rib' = setRoute(rib, r, isDelete)
  /\ Goto(p, "start")
  /\ UNCHANGED <<interfaces, policies, fib, programmed, resolved, runVars, connVars, view, history>>

SetInterface(p, i, enabled) ==
  /\ pc[p] = "idle" /\ p \in Watchers
  /\ interfaces' = IF enabled THEN interfaces \cup {i} ELSE interfaces \ {i}
  /\ raced' = (raced \/ ~NoRun)
  /\ Goto(p, "start")
  /\ UNCHANGED <<rib, policies, fib, programmed, resolved, runVars, connVars, view>>
  /\ UNCHANGED <<undone, missed>>

SetGUEPolicy(p, q) ==
  /\ pc[p] = "idle" /\ NoRun
  /\ policies' = policies \cup {q}
  /\ Goto(p, "start")
  /\ UNCHANGED <<rib, interfaces, fib, programmed, resolved, runVars, connVars, view, history>>

DeleteGUEPolicy(p, q) ==
  /\ pc[p] = "idle" /\ NoRun
  /\ policies' = policies \ {q}
  /\ Goto(p, "start")
  /\ UNCHANGED <<rib, interfaces, fib, programmed, resolved, runVars, connVars, view, history>>

(***************************************************************************)
(* ResolveAndProgramDiff                                                   *)
(***************************************************************************)
Begin(p) ==
  /\ pc[p] = "start"
  /\ todo' = [todo EXCEPT ![p] = {r.prefix : r \in rib}]
  /\ failed' = [failed EXCEPT ![p] = FALSE]
  /\ missed' = [c \in Clients |-> IF conn[c] \in Joining THEN Prefixes ELSE missed[c]]
  /\ Goto(p, "resolve")
  /\ UNCHANGED <<ribVars, fib, programmed, resolved, fresh, cur, stale, connVars, view>>
  /\ UNCHANGED <<raced, undone>>

\* resolveAndProgramDiffAux up to newResolvedRoutes.
Egress(k) == EgressNexthops(rib, interfaces, policies, k)

\* A cycle of routes exhausts the stack.
Overflow(p) ==
  /\ pc[p] = "resolve"
  /\ \E k \in todo[p] : Egress(k).kind = "loop"
  /\ Crash("stackOverflow")
  /\ UNCHANGED <<ribVars, fib, programmed, resolved, runVars, snap, out, view, history>>

Unresolvable(p) ==
  /\ pc[p] = "resolve"
  /\ \E k \in todo[p] : \E e \in {Egress(k)} :
       /\ e.kind # "loop" /\ e.nhs = {}
       /\ todo' = [todo EXCEPT ![p] = @ \ {k}]
  /\ UNCHANGED <<ribVars, fib, programmed, resolved, pc, fresh, cur, stale, failed,
                 connVars, view, history>>

Resolve(p) ==
  /\ pc[p] = "resolve"
  /\ \E k \in todo[p] : \E e \in {Egress(k)} : \E r \in e.route :
       /\ e.kind # "loop" /\ e.nhs # {}
       /\ todo' = [todo EXCEPT ![p] = @ \ {k}]
       /\ fresh' = [fresh EXCEPT ![p][k] = {r}]
       /\ cur' = [cur EXCEPT ![p] = [key |-> k, nhs |-> e.nhs, route |-> r]]
  /\ Goto(p, "check")
  /\ UNCHANGED <<ribVars, fib, programmed, resolved, stale, failed, connVars, view, history>>

CheckPresence(p) ==
  /\ pc[p] = "check"
  /\ Goto(p, IF programmed[cur[p].key] # {} THEN "resolve" ELSE "program")
  /\ UNCHANGED <<ribVars, fib, programmed, resolved, runVars, connVars, view, history>>

\* The comparison with the route as last programmed.
Check(p) ==
  /\ pc[p] = "check"
  /\ Goto(p, IF programmed[cur[p].key] = cur[p].nhs THEN "resolve" ELSE "program")
  /\ UNCHANGED <<ribVars, fib, programmed, resolved, runVars, connVars, view, history>>

Program(p) ==
  /\ pc[p] = "program"
  /\ fib' = [fib EXCEPT ![cur[p].key] = RouteRequest(cur[p].nhs)]
  /\ Goto(p, "record")
  /\ UNCHANGED <<ribVars, programmed, resolved, runVars, connVars, view, history>>

ProgramFailsRecorded(p) ==
  /\ pc[p] = "program" /\ MayFail
  /\ failed' = [failed EXCEPT ![p] = TRUE]
  /\ Goto(p, "record")
  /\ UNCHANGED <<ribVars, fib, programmed, resolved, todo, fresh, cur, stale, connVars, view, history>>

ProgramFailsRetried(p) ==
  /\ pc[p] = "program" /\ MayFail
  /\ failed' = [failed EXCEPT ![p] = TRUE]
  /\ Goto(p, "check")
  /\ UNCHANGED <<ribVars, fib, programmed, resolved, todo, fresh, cur, stale, connVars, view, history>>

\* A route that cannot be programmed is left for the next run.
ProgramFails(p) ==
  /\ pc[p] = "program" /\ MayFail
  /\ failed' = [failed EXCEPT ![p] = TRUE]
  /\ Goto(p, "resolve")
  /\ UNCHANGED <<ribVars, fib, programmed, resolved, todo, fresh, cur, stale, connVars, view, history>>

Record(p) ==
  /\ pc[p] = "record"
  /\ programmed' = [programmed EXCEPT ![cur[p].key] = cur[p].nhs]
  /\ Goto(p, "distribute")
  /\ UNCHANGED <<ribVars, fib, resolved, runVars, connVars, view, history>>

\* distributeRoute: every client in ClientMap is told of the route.
Tell(clients, k, gates) ==
  view' = [c \in Clients |-> IF c \in clients THEN [view[c] EXCEPT ![k] = gates] ELSE view[c]]

Distribute(p) ==
  /\ pc[p] = "distribute"
  /\ Tell(IF Redistributed(cur[p].route) THEN ClientMap ELSE {}, cur[p].key, Gates(cur[p].nhs))
  /\ Goto(p, "resolve")
  /\ UNCHANGED <<ribVars, fib, programmed, resolved, runVars, connVars, history>>

\* resolvedRoutesMu.Lock, and the copy of programmedRoutes the sweep walks.
SweepWith(p, keys) ==
  /\ pc[p] = "resolve" /\ todo[p] = {}
  /\ \A q \in Procs : pc[q] \notin Sweeping
  /\ stale' = [stale EXCEPT ![p] = keys]
  /\ Goto(p, "sweep")
  /\ UNCHANGED <<ribVars, fib, programmed, todo, fresh, cur, failed, connVars, view, history>>

Unneeded(p) == {k \in Prefixes : programmed[k] # {} /\ fresh[p][k] = {}}

SweepAll(p) == SweepWith(p, {k \in Prefixes : programmed[k] # {}}) /\ UNCHANGED resolved
Sweep(p) == SweepWith(p, Unneeded(p)) /\ UNCHANGED resolved

Deprogram(p) ==
  /\ pc[p] = "sweep"
  /\ \E k \in stale[p] :
       /\ fib' = [fib EXCEPT ![k] = RouteRequest({})]
       /\ stale' = [stale EXCEPT ![p] = @ \ {k}]
       /\ cur' = [cur EXCEPT ![p] = [key |-> k]]
  /\ Goto(p, "unrecord")
  /\ UNCHANGED <<ribVars, programmed, resolved, todo, fresh, failed, connVars, view, history>>

DeprogramFails(p) ==
  /\ pc[p] = "sweep" /\ MayFail
  /\ \E k \in stale[p] : /\ stale' = [stale EXCEPT ![p] = @ \ {k}]
                          /\ undone' = undone \cup {k}
  /\ failed' = [failed EXCEPT ![p] = TRUE]
  /\ UNCHANGED <<ribVars, fib, programmed, resolved, pc, todo, fresh, cur, connVars, view>>
  /\ UNCHANGED <<raced, missed>>

Unrecord(p) ==
  /\ pc[p] = "unrecord"
  /\ programmed' = [programmed EXCEPT ![cur[p].key] = {}]
  /\ Goto(p, "withdraw")
  /\ UNCHANGED <<ribVars, fib, resolved, runVars, connVars, view, history>>

WithdrawSilently(p) ==
  /\ pc[p] = "withdraw" /\ resolved[cur[p].key] # {}
  /\ Goto(p, "sweep")
  /\ UNCHANGED <<ribVars, fib, programmed, resolved, runVars, connVars, view, history>>

Withdraw(p) ==
  /\ pc[p] = "withdraw" /\ resolved[cur[p].key] # {}
  /\ \E r \in resolved[cur[p].key] :
       Tell(IF Redistributed(r) THEN ClientMap ELSE {}, cur[p].key, {})
  /\ Goto(p, "sweep")
  /\ UNCHANGED <<ribVars, fib, programmed, resolved, runVars, connVars, history>>

\* distributeRoute reads the preference of the route it is given, nil or not.
WithdrawNil(p) ==
  /\ pc[p] = "withdraw" /\ resolved[cur[p].key] = {}
  /\ Crash("nilRoute")
  /\ UNCHANGED <<ribVars, fib, programmed, resolved, runVars, snap, out, view, history>>

FinishUnsaved(p) ==
  /\ pc[p] = "sweep" /\ stale[p] = {}
  /\ fresh' = [fresh EXCEPT ![p] = None]
  /\ cur' = [cur EXCEPT ![p] = <<>>]
  /\ Goto(p, "idle")
  /\ UNCHANGED <<ribVars, fib, programmed, resolved, todo, stale, failed, connVars, view, history>>

Finish(p) ==
  /\ pc[p] = "sweep" /\ stale[p] = {}
  /\ resolved' = fresh[p]
  /\ undone' = {k \in undone : fresh[p][k] = {}}
  /\ fresh' = [fresh EXCEPT ![p] = None]
  /\ cur' = [cur EXCEPT ![p] = <<>>]
  /\ Goto(p, "idle")
  /\ UNCHANGED <<ribVars, fib, programmed, todo, stale, failed, connVars, view>>
  /\ UNCHANGED <<raced, missed>>

(***************************************************************************)
(* ZAPI clients                                                            *)
(***************************************************************************)
ClientRegister(c) ==
  /\ conn[c] = "off"
  /\ conn' = [conn EXCEPT ![c] = "registered"]
  /\ UNCHANGED <<ribVars, fib, programmed, resolved, pc, runVars, snap, out, view, history>>

\* HandleRequest reads a Hello, the first one or a repeated one.
HelloReceived(c) ==
  /\ conn[c] \in {"registered", "ready"}
  /\ conn' = [conn EXCEPT ![c] = "hello"]
  /\ UNCHANGED <<ribVars, fib, programmed, resolved, pc, runVars, snap, out, view, history>>

\* RedistributeResolvedRoutes copies resolvedRoutes, then programmedRoutes, then
\* sends the routes that are in both.
Hello(c) ==
  /\ conn[c] = "hello" /\ \A q \in Procs : pc[q] \notin Sweeping
  /\ snap' = [snap EXCEPT ![c] = resolved]
  /\ conn' = [conn EXCEPT ![c] = "resolved"]
  /\ missed' = [missed EXCEPT ![c] = @ \cup (IF NoRun THEN undone ELSE Prefixes)]
  /\ UNCHANGED <<ribVars, fib, programmed, resolved, pc, runVars, out, view>>
  /\ UNCHANGED <<raced, undone>>

CopyProgrammed(c) ==
  /\ conn[c] = "resolved"
  /\ out' = [out EXCEPT ![c] = [k \in Prefixes |->
       IF \E r \in snap[c][k] : Redistributed(r) THEN Gates(programmed[k]) ELSE {}]]
  /\ snap' = [snap EXCEPT ![c] = None]
  /\ conn' = [conn EXCEPT ![c] = "sending"]
  /\ UNCHANGED <<ribVars, fib, programmed, resolved, pc, runVars, view, history>>

Send(c) ==
  /\ conn[c] = "sending"
  /\ \E k \in Prefixes :
       /\ out[c][k] # {}
       /\ Tell({c}, k, out[c][k])
       /\ out' = [out EXCEPT ![c][k] = {}]
  /\ UNCHANGED <<ribVars, fib, programmed, resolved, pc, runVars, conn, snap, history>>

Sent(c) ==
  /\ conn[c] = "sending" /\ out[c] = None
  /\ conn' = [conn EXCEPT ![c] = "ready"]
  /\ UNCHANGED <<ribVars, fib, programmed, resolved, pc, runVars, snap, out, view, history>>

\* HandleRequest reads the end of the connection, or cannot send its own Hello;
\* what the client knew goes with it.
ClientUnregister(c) ==
  /\ conn[c] \in {"registered", "hello", "ready"}
  /\ conn' = [conn EXCEPT ![c] = "off"]
  /\ view' = [view EXCEPT ![c] = None]
  /\ missed' = [missed EXCEPT ![c] = {}]
  /\ UNCHANGED <<ribVars, fib, programmed, resolved, pc, runVars, snap, out>>
  /\ UNCHANGED <<raced, undone>>

(***************************************************************************)
(* Specification                                                           *)
(***************************************************************************)
Change(p) ==
  \/ \E r \in Routes, isDelete \in BOOLEAN : SetRoute(p, r, isDelete)
  \/ \E i \in Interfaces, enabled \in BOOLEAN : SetInterface(p, i, enabled)
  \/ \E q \in Policies : SetGUEPolicy(p, q) \/ DeleteGUEPolicy(p, q)

RunStep(p) ==
  \/ Begin(p) \/ Overflow(p) \/ Unresolvable(p) \/ Resolve(p) \/ Check(p)
  \/ Program(p) \/ ProgramFails(p) \/ Record(p) \/ Distribute(p)
  \/ Sweep(p) \/ Deprogram(p) \/ DeprogramFails(p) \/ Unrecord(p)
  \/ Withdraw(p) \/ WithdrawNil(p) \/ Finish(p)

ClientStep(c) ==
  \/ ClientRegister(c) \/ HelloReceived(c) \/ Hello(c) \/ CopyProgrammed(c) \/ Send(c) \/ Sent(c)
  \/ ClientUnregister(c)

Next ==
  \/ \E p \in Procs : Change(p) \/ RunStep(p)
  \/ \E c \in Clients : ClientStep(c)

Spec == Init /\ [][Next]_vars

\* A goroutine in a run is scheduled; sync.Mutex hands the lock to a waiter
\* that has been starved, so a run that keeps finding the sweep free gets it, and
\* so does the handler of a connection that has read a Hello.  Nothing obliges the
\* callers of the server to change anything, or a client to connect or say Hello.
FairSpec ==
  /\ Spec
  /\ \A p \in Procs : /\ WF_vars(RunStep(p))
                      /\ SF_vars(Sweep(p))
  /\ \A c \in Clients : /\ WF_vars(CopyProgrammed(c) \/ Send(c) \/ Sent(c))
                        /\ SF_vars(Hello(c))

(***************************************************************************)
(* Properties                                                              *)
(***************************************************************************)
Quiescent == \A p \in Procs : pc[p] = "idle"

\* What a run computes for a key: nothing for a prefix that is not in the RIB.
Resolution(k) == IF \E r \in rib : r.prefix = k THEN Egress(k).nhs ELSE {}

\* Every variable has its type, and the variables of a run are empty outside it.
TypeOK ==
  /\ rib \subseteq Routes /\ interfaces \subseteq Interfaces /\ policies \subseteq Policies
  /\ programmed \in [Prefixes -> SUBSET ResolvedNexthop]
  /\ resolved \in [Prefixes -> SUBSET Routes]
  /\ pc \in [Procs -> {"idle", "start"} \cup Running \cup Crashes]
  /\ todo \in [Procs -> SUBSET Prefixes] /\ stale \in [Procs -> SUBSET Prefixes]
  /\ \A p \in Procs : fresh[p] \in [Prefixes -> SUBSET Routes]
  /\ failed \in [Procs -> BOOLEAN]
  /\ \A p \in Procs : pc[p] \in {"idle", "start"} =>
       todo[p] = {} /\ stale[p] = {} /\ fresh[p] = None
  /\ conn \in [Clients -> {"off", "registered", "hello", "ready", "crashed"} \cup Joining]
  /\ raced \in BOOLEAN /\ undone \subseteq Prefixes /\ missed \in [Clients -> SUBSET Prefixes]

\* When every run has ended, programmedRoutes ("a map of resolved routes with which
\* to do diff") records what the dataplane has, so the next diff is complete, and
\* if the last run of each goroutine met no failure that is exactly the routes that
\* resolve, with the next hops they resolve to now.
ConvergedAlways ==
  Quiescent => \A k \in Prefixes :
    /\ fib[k] = RouteRequest(programmed[k])
    /\ (\A p \in Procs : ~failed[p]) => programmed[k] = Resolution(k)

\* That holds, whatever runs overlap and whichever calls fail, as long as no
\* interface changed during a run of another goroutine: resolveAndProgramDiffAux
\* reads the interfaces anew for every route.
Converged == ~raced => ConvergedAlways

\* As long as none did, resolvedRoutes "keeps track of all the original routes that
\* have now been programmed": a run hands distributeRoute a nil route, and the
\* process ends, only for a key that an earlier run failed to deprogram.
NoNilRoute ==
  ~raced => \A p \in Procs :
    pc[p] = "withdraw" /\ resolved[cur[p].key] = {} => cur[p].key \in undone

\* The routes of a key agree on whether they are redistributed; they are.
Agreeing(k) ==
  \A r, s \in Routes : r.prefix = k /\ s.prefix = k => (Redistributed(r) <=> Redistributed(s))
Shared(k) == \E r \in Routes : r.prefix = k /\ Redistributed(r)

\* As long as none did, a client that is connected and has been answered knows
\* between runs exactly the programmed gateways of every key that is redistributed
\* ("If a new/updated route is programmed, redistribute it to clients"), however
\* runs overlapped, calls failed and the client came and went.  Left out are keys
\* of which only some routes are redistributed, and those of which the client may
\* have missed changes: all if a run was in progress while it was being answered,
\* else those that could not be deprogrammed.
ClientInSync ==
  ~raced /\ Quiescent => \A c \in Clients : conn[c] = "ready" =>
    \A k \in Prefixes \ missed[c] :
      Agreeing(k) => view[c][k] = IF Shared(k) THEN Gates(programmed[k]) ELSE {}

\* As long as no interface changed during a run of another goroutine, a route that
\* the dataplane has with the next hops it resolves to is never taken out or
\* reprogrammed, whatever runs overlap: a diff touches what differs only.
OnlyDiffsProgrammed ==
  [][~raced' => \A k \in Prefixes :
       fib'[k] # fib[k] => fib[k] # RouteRequest(Resolution(k))]_vars

\* Every run ends, whatever the other goroutines do, and a Hello that was read is
\* eventually answered with the routes, unless the connection ends, although runs
\* keep taking resolvedRoutesMu; a crash of the process is the exception.
RunsAndJoinsEnd ==
  /\ \A p \in Procs : pc[p] = "start" ~> (pc[p] \in {"idle"} \cup Crashes)
  /\ \A c \in Clients : conn[c] = "hello" ~> (conn[c] \in {"ready", "off", "crashed"})
=============================================================================

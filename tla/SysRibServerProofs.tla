------------------------- MODULE SysRibServerProofs -------------------------
(***************************************************************************)
(* Runs of ResolveAndProgramDiff converge, for any RIB, any clients and    *)
(* whatever egressNexthops computes, and although calls to the dataplane   *)
(* may fail, as long as no interface changes during a run of another       *)
(* goroutine; and the clients are kept in step with them.                  *)
(***************************************************************************)
EXTENDS SysRibServer, TLAPS

\* The dataplane and programmedRoutes have what key k resolves to.
Cell(k) == programmed[k] = Resolution(k) /\ fib[k] = RouteRequest(programmed[k])

Crashed == \E p \in Procs : pc[p] \in Crashes
Quiet == \A p \in Procs : pc[p] \in {"idle", "start"}
Programming == {"check", "program", "record"}

Shape ==
  /\ rib \subseteq Routes
  /\ DOMAIN fib = Prefixes /\ DOMAIN programmed = Prefixes /\ DOMAIN resolved = Prefixes
  /\ pc \in [Procs -> {"idle", "start"} \cup Running \cup Crashes]
  /\ todo \in [Procs -> SUBSET Prefixes] /\ stale \in [Procs -> SUBSET Prefixes]
  /\ DOMAIN fresh = Procs /\ (\A p \in Procs : DOMAIN fresh[p] = Prefixes)
  /\ DOMAIN cur = Procs
  /\ failed \in [Procs -> BOOLEAN]

\* A crash stops every goroutine.
CrashStops == Crashed => \E why \in Crashes : \A p \in Procs : pc[p] = why

\* A goroutine outside a run has forgotten its newResolvedRoutes.
Forgotten(p) == pc[p] \in {"idle", "start"} => \A k \in Prefixes : fresh[p][k] = {}

\* The keys a run has visited are in its newResolvedRoutes if they resolve.
Visited(p) ==
  pc[p] \in Running => \A k \in Prefixes :
    /\ k \in todo[p] => fresh[p][k] = {} /\ \E r \in rib : r.prefix = k
    /\ k \notin todo[p] => (fresh[p][k] = {} <=> Resolution(k) = {})

\* The route in hand is what its key resolves to.
InHand(p) ==
  /\ pc[p] \in Programming \cup {"distribute"} =>
       /\ cur[p].key \in Prefixes
       /\ cur[p].nhs = Resolution(cur[p].key) /\ Resolution(cur[p].key) # {}
  /\ pc[p] = "record" => fib[cur[p].key] = RouteRequest(Resolution(cur[p].key))

\* Keys in newResolvedRoutes have been programmed, but for the one in hand and
\* those whose call failed.
Done(p) ==
  pc[p] \in Running => \A k \in Prefixes :
    fresh[p][k] # {} =>
      Cell(k) \/ failed[p] \/ (pc[p] \in Programming /\ cur[p].key = k)

\* During the sweep what does not resolve is gone, about to be unrecorded, still
\* listed, or its call failed; what is listed has a route to withdraw, unless a
\* call failed for it in an earlier run.
Swept(p) ==
  /\ pc[p] \in Sweeping =>
       /\ todo[p] = {}
       /\ \A k \in stale[p] : Resolution(k) = {} /\ (k \in undone \/ resolved[k] # {})
       /\ \A k \in Prefixes : Resolution(k) = {} =>
            \/ k \in stale[p] \/ Cell(k) \/ (failed[p] /\ k \in undone)
            \/ (pc[p] = "unrecord" /\ cur[p].key = k)
  /\ pc[p] \in {"unrecord", "withdraw"} =>
       /\ cur[p].key \in Prefixes /\ Resolution(cur[p].key) = {}
       /\ cur[p].key \in undone \/ resolved[cur[p].key] # {}
  /\ pc[p] = "unrecord" => fib[cur[p].key] = RouteRequest(Resolution(cur[p].key))

Local(p) == Forgotten(p) /\ Visited(p) /\ InHand(p) /\ Done(p) /\ Swept(p)

\* resolvedRoutesMu.
SweepMutex == \A p, q \in Procs : pc[p] \in Sweeping /\ pc[q] \in Sweeping => p = q

\* What the dataplane has is recorded, or a run is about to record it.
Recording(k) == \E p \in Procs : pc[p] \in {"record", "unrecord"} /\ cur[p].key = k
Recorded(k) == fib[k] = RouteRequest(programmed[k]) \/ Recording(k)

\* What is programmed has a top-level route, could not be deprogrammed, or is new
\* in a run.
Routed(k) ==
  programmed[k] # {} => resolved[k] # {} \/ k \in undone \/ (~Quiet /\ Resolution(k) # {})

Settled ==
  (\A p \in Procs : pc[p] = "idle" /\ ~failed[p]) => \A k \in Prefixes : Cell(k)

Safe ==
  /\ \A p \in Procs : Local(p)
  /\ SweepMutex
  /\ \A k \in Prefixes : Recorded(k) /\ Routed(k)
  /\ Settled

IInv == Shape /\ CrashStops /\ (~Crashed => Safe)

LEMMA SameResolution ==
  ASSUME UNCHANGED ribVars
  PROVE  \A k \in Prefixes : Resolution(k)' = Resolution(k)
BY ZenonT(40) DEF ribVars, Resolution, Egress

LEMMA InitIInv == Init => IInv
<1> SUFFICES ASSUME Init PROVE IInv
  BY ZenonT(40)
<1>1. Shape
  BY ZenonT(40) DEF Init, Shape, None
<1>2. \A k \in Prefixes : Resolution(k) = {} /\ Cell(k)
  BY ZenonT(40) DEF Init, Resolution, Cell, None
<1>3. ~Crashed /\ Quiet
  BY ZenonT(40) DEF Init, Crashed, Crashes, Quiet
<1>4. \A p \in Procs : Local(p)
  BY ZenonT(40) DEF Init, Local, Forgotten, Visited, InHand, Done, Swept, Running, Sweeping, Programming, None
<1>5. SweepMutex
  BY ZenonT(40) DEF Init, SweepMutex, Sweeping
<1>6. \A k \in Prefixes : Recorded(k) /\ Routed(k)
  BY <1>2, ZenonT(40) DEF Init, Recorded, Routed, Cell, None
<1> QED
  BY <1>1, <1>2, <1>3, <1>4, <1>5, <1>6, ZenonT(40) DEF IInv, CrashStops, Safe, Settled

\* A step that leaves the RIB alone, breaks no cell and takes nothing from the
\* dataplane that belongs there.
Kept ==
  /\ UNCHANGED ribVars
  /\ \A k \in Prefixes : Resolution(k)' = Resolution(k)
  /\ \A k \in Prefixes : Cell(k) => Cell(k)'
  /\ \A k \in Prefixes : fib[k] = RouteRequest(Resolution(k)) => fib'[k] = fib[k]

\* A step of goroutine p leaves the variables of the other ones alone.
Others(p) == \A q \in Procs \ {p} :
  /\ pc'[q] = pc[q] /\ todo'[q] = todo[q] /\ fresh'[q] = fresh[q]
  /\ cur'[q] = cur[q] /\ stale'[q] = stale[q] /\ failed'[q] = failed[q]

\* What is about to be recorded is in the dataplane, and stays about to be
\* recorded unless its own goroutine goes on.
LEMMA RecordingMeans ==
  ASSUME Safe, NEW k \in Prefixes, Recording(k)
  PROVE  fib[k] = RouteRequest(Resolution(k))
<1>1. PICK p \in Procs : pc[p] \in {"record", "unrecord"} /\ cur[p].key = k
  BY ZenonT(40) DEF Recording
<1>2. Local(p)
  BY ZenonT(40) DEF Safe
<1> QED
  BY <1>1, <1>2, ZenonT(40) DEF Local, InHand, Swept

LEMMA RecordingKept ==
  ASSUME NEW p \in Procs, Others(p), NEW k \in Prefixes, Recording(k),
         pc[p] \notin {"record", "unrecord"} \/ cur[p].key # k
  PROVE  Recording(k)'
BY ZenonT(40) DEF Recording, Others

\* Such a step of one goroutine preserves what is known of another one.
LEMMA OthersKept ==
  ASSUME Kept, NEW q \in Procs, Local(q),
         pc'[q] = pc[q], todo'[q] = todo[q], fresh'[q] = fresh[q],
         cur'[q] = cur[q], stale'[q] = stale[q], failed'[q] = failed[q],
         UNCHANGED <<resolved, undone>> \/ pc[q] \notin Sweeping,
         todo[q] \subseteq Prefixes, stale[q] \subseteq Prefixes
  PROVE  Local(q)'
<1> USE DEF Local, Kept
<1>1. Forgotten(q)'
  BY ZenonT(40) DEF Forgotten
<1>2. Visited(q)'
  BY DEF Visited, ribVars
<1>3. InHand(q)'
  BY ZenonT(40) DEF InHand, Programming
<1>4. Done(q)'
  BY ZenonT(40) DEF Done
<1>5. Swept(q)'
  <2>1. CASE pc[q] \notin Sweeping
    BY <2>1, ZenonT(40) DEF Swept, Sweeping
  <2>2. CASE pc[q] \in Sweeping
    <3> UNCHANGED <<resolved, undone>>
      BY <2>2, ZenonT(40)
    <3>1. \A k \in stale'[q] : Resolution(k)' = {} /\ (k \in undone' \/ resolved'[k] # {})
      BY <2>2, ZenonT(40) DEF Swept
    <3>2. \A k \in Prefixes : Resolution(k)' = {} =>
            \/ k \in stale'[q] \/ Cell(k)' \/ (failed'[q] /\ k \in undone')
            \/ (pc'[q] = "unrecord" /\ cur'[q].key = k)
      BY <2>2, ZenonT(40) DEF Swept
    <3>3. pc[q] \in {"unrecord", "withdraw"} =>
            /\ cur'[q].key \in Prefixes /\ Resolution(cur[q].key)' = {}
            /\ cur'[q].key \in undone' \/ resolved'[cur'[q].key] # {}
      BY <2>2, ZenonT(40) DEF Swept
    <3>4. pc[q] = "unrecord" => fib'[cur'[q].key] = RouteRequest(Resolution(cur[q].key)')
      BY <2>2, ZenonT(40) DEF Swept
    <3> QED
      BY <2>2, <3>1, <3>2, <3>3, <3>4, ZenonT(40) DEF Swept
  <2> QED
    BY <2>1, <2>2, ZenonT(40)
<1> QED
  BY <1>1, <1>2, <1>3, <1>4, <1>5, ZenonT(40)

\* What one step of goroutine p in a run has to establish: it goes to label,
\* leaves the other goroutines' variables alone, enters the sweep only when
\* nobody is in it, and has settled everything when it ends.
LEMMA RunFrame ==
  ASSUME IInv, ~Crashed, NEW p \in Procs, NEW label \in {"idle"} \cup Running,
         Shape', Kept, Local(p)', Others(p),
         pc' = [pc EXCEPT ![p] = label],
         UNCHANGED <<resolved, undone>> \/ pc[p] \in Sweeping,
         label \in Sweeping => pc[p] \in Sweeping \/ \A q \in Procs : pc[q] \notin Sweeping,
         \A k \in Prefixes : Recorded(k)' /\ Routed(k)',
         label = "idle" => failed'[p] \/ \A k \in Prefixes : Cell(k)'
  PROVE  IInv' /\ Kept
<1>1. Shape /\ Safe
  BY ZenonT(40) DEF IInv
<1>2. pc'[p] = label /\ \A q \in Procs \ {p} : pc'[q] = pc[q]
  BY <1>1, ZenonT(40) DEF Shape, Others
<1>3. ~Crashed'
  BY <1>2, ZenonT(40) DEF Crashed, Crashes, Running, Sweeping
<1>4. ASSUME NEW q \in Procs, q # p PROVE Local(q)'
  <2>1. UNCHANGED <<resolved, undone>> \/ pc[q] \notin Sweeping
    BY <1>1, <1>4, ZenonT(40) DEF Safe, SweepMutex
  <2>2. Local(q) /\ todo[q] \subseteq Prefixes /\ stale[q] \subseteq Prefixes
    BY <1>1, ZenonT(40) DEF Safe, Shape
  <2> QED
    BY <1>4, <2>1, <2>2, OthersKept, ZenonT(40) DEF Others
<1>5. SweepMutex'
  BY <1>1, <1>2, ZenonT(40) DEF Safe, SweepMutex
<1>6. Settled'
  BY <1>2, ZenonT(40) DEF Settled
<1> QED
  BY <1>3, <1>4, <1>5, <1>6, ZenonT(40) DEF IInv, CrashStops, Safe

\* A step that changes none of the tables keeps them consistent.
LEMMA TablesSame ==
  ASSUME Safe, UNCHANGED <<ribVars, fib, programmed, resolved>>, undone \subseteq undone',
         NEW p \in Procs, pc'[p] \in Running, Others(p),
         pc[p] \notin {"record", "unrecord"}
  PROVE  Kept /\ \A k \in Prefixes : Recorded(k)' /\ Routed(k)'
<1>1. Kept
  BY SameResolution, ZenonT(40) DEF Kept, Cell
<1>2. ~Quiet'
  BY ZenonT(40) DEF Quiet, Running, Sweeping
<1>3. \A k \in Prefixes : Recorded(k)'
  BY RecordingKept, ZenonT(40) DEF Safe, Recorded
<1>4. \A k \in Prefixes : Routed(k)'
  BY <1>1, <1>2, ZenonT(40) DEF Safe, Kept, Routed
<1> QED
  BY <1>1, <1>3, <1>4, ZenonT(40)

LEMMA BeginStep ==
  ASSUME IInv, ~Crashed, NEW p \in Procs, Begin(p)
  PROVE  IInv' /\ Kept
<1>s. Shape /\ Safe /\ Local(p)
  BY ZenonT(40) DEF IInv, Safe
<1>a. /\ pc[p] = "start" /\ pc' = [pc EXCEPT ![p] = "resolve"]
      /\ UNCHANGED <<ribVars, fib, programmed, resolved, fresh, cur, stale, undone>>
  BY ZenonT(40) DEF Begin, Goto, runVars, history
<1>r. rib' = rib /\ \A k \in Prefixes : Resolution(k)' = Resolution(k)
  BY <1>a, SameResolution, ZenonT(40) DEF ribVars
<1>p. pc'[p] = "resolve"
  BY <1>s, <1>a, ZenonT(40) DEF Shape
<1>b. /\ todo' = [todo EXCEPT ![p] = {r.prefix : r \in rib}]
      /\ failed' = [failed EXCEPT ![p] = FALSE]
  BY ZenonT(40) DEF Begin
<1>c. {r.prefix : r \in rib} \in SUBSET Prefixes
  BY <1>s, RoutesAssumption DEF Shape, RouteType
<1>1. Shape'
  BY <1>s, <1>a, <1>r, <1>b, <1>c, ZenonT(40) DEF Shape, Running, Sweeping
<1>2. Others(p)
  BY <1>s, <1>a, <1>b, ZenonT(40) DEF Shape, Others
<1>k. Kept /\ \A k \in Prefixes : Recorded(k)' /\ Routed(k)'
  BY <1>s, <1>a, <1>p, <1>2, TablesSame, ZenonT(40) DEF Running, Sweeping
<1>3. Local(p)'
  <2>1. todo'[p] = {r.prefix : r \in rib}
    BY <1>s, <1>b, ZenonT(40) DEF Shape
  <2>2. \A k \in Prefixes : fresh'[p][k] = {}
    BY <1>s, <1>a, ZenonT(40) DEF Local, Forgotten
  <2>3. \A k \in Prefixes : k \notin todo'[p] => Resolution(k) = {}
    BY <2>1, ZenonT(40) DEF Resolution
  <2>4. Visited(p)'
    BY <1>r, <2>1, <2>2, <2>3, ZenonT(40) DEF Visited
  <2> QED
    BY <1>p, <2>2, <2>4, ZenonT(40) DEF Local, Forgotten, InHand, Done, Swept, Sweeping, Programming
<1> QED
  BY <1>s, <1>a, <1>k, <1>1, <1>2, <1>3, RunFrame, Zenon DEF Running, Sweeping

LEMMA UnresolvableStep ==
  ASSUME IInv, ~Crashed, NEW p \in Procs, Unresolvable(p)
  PROVE  IInv' /\ Kept
<1>s. Shape /\ Safe /\ Local(p)
  BY DEF IInv, Safe
<1>a. /\ pc[p] = "resolve" /\ pc' = [pc EXCEPT ![p] = "resolve"]
      /\ UNCHANGED <<ribVars, fib, programmed, resolved, fresh, cur, stale, failed, undone>>
  BY <1>s, ZenonT(40) DEF Unresolvable, Shape, history
<1>r. rib' = rib /\ \A k \in Prefixes : Resolution(k)' = Resolution(k)
  BY <1>a, SameResolution, ZenonT(40) DEF ribVars
<1>p. pc'[p] = "resolve"
  BY <1>s, <1>a, ZenonT(40) DEF Shape
<1>j. PICK j \in todo[p] : Egress(j).nhs = {} /\ todo' = [todo EXCEPT ![p] = @ \ {j}]
  BY ZenonT(40) DEF Unresolvable
<1>1. Shape'
  BY <1>s, <1>a, <1>r, <1>j, ZenonT(40) DEF Shape, Running, Sweeping
<1>2. Others(p)
  BY <1>s, <1>a, <1>j, ZenonT(40) DEF Shape, Others
<1>k. Kept /\ \A k \in Prefixes : Recorded(k)' /\ Routed(k)'
  BY <1>s, <1>a, <1>p, <1>2, TablesSame, ZenonT(40) DEF Running, Sweeping
<1>3. Local(p)'
  <2>1. todo'[p] = todo[p] \ {j} /\ j \in Prefixes
    BY <1>s, <1>j, ZenonT(40) DEF Shape
  <2>2. \E r \in rib : r.prefix = j
    BY <1>s, <1>a, <2>1, ZenonT(40) DEF Local, Visited, Running
  <2>3. Resolution(j) = {}
    BY <1>j, <2>2, ZenonT(40) DEF Resolution
  <2>4. Visited(p)'
    BY <1>s, <1>a, <1>r, <1>p, <2>1, <2>3, ZenonT(40) DEF Local, Visited, Running
  <2>5. Done(p)'
    BY <1>s, <1>a, <1>p, <1>k, ZenonT(40) DEF Local, Done, Kept, Running, Programming
  <2> QED
    BY <1>p, <2>4, <2>5, ZenonT(40) DEF Local, Forgotten, InHand, Swept, Sweeping, Programming
<1> QED
  BY <1>s, <1>a, <1>k, <1>1, <1>2, <1>3, RunFrame, Zenon DEF Running, Sweeping

LEMMA ResolveStep ==
  ASSUME IInv, ~Crashed, NEW p \in Procs, Resolve(p)
  PROVE  IInv' /\ Kept
<1>s. Shape /\ Safe /\ Local(p)
  BY DEF IInv, Safe
<1>a. /\ pc[p] = "resolve" /\ pc' = [pc EXCEPT ![p] = "check"]
      /\ UNCHANGED <<ribVars, fib, programmed, resolved, stale, failed, undone>>
  BY ZenonT(40) DEF Resolve, Goto, runVars, history
<1>r. rib' = rib /\ \A k \in Prefixes : Resolution(k)' = Resolution(k)
  BY <1>a, SameResolution, ZenonT(40) DEF ribVars
<1>p. pc'[p] = "check"
  BY <1>s, <1>a, ZenonT(40) DEF Shape
<1>j. PICK j \in todo[p] : \E r \in Egress(j).route :
       /\ Egress(j).nhs # {}
       /\ todo' = [todo EXCEPT ![p] = @ \ {j}]
       /\ fresh' = [fresh EXCEPT ![p][j] = {r}]
       /\ cur' = [cur EXCEPT ![p] = [key |-> j, nhs |-> Egress(j).nhs, route |-> r]]
  BY Zenon DEF Resolve
<1>b. PICK r \in Egress(j).route :
       /\ Egress(j).nhs # {}
       /\ todo' = [todo EXCEPT ![p] = @ \ {j}]
       /\ fresh' = [fresh EXCEPT ![p][j] = {r}]
       /\ cur' = [cur EXCEPT ![p] = [key |-> j, nhs |-> Egress(j).nhs, route |-> r]]
  BY <1>j, Zenon
<1>c. j \in Prefixes /\ Resolution(j) = Egress(j).nhs
  <2>1. j \in Prefixes
    BY <1>s, ZenonT(40) DEF Shape
  <2> QED
    BY <1>s, <1>a, <2>1, ZenonT(40) DEF Local, Visited, Running, Resolution
<1>d. /\ todo'[p] = todo[p] \ {j}
      /\ cur'[p].key = j /\ cur'[p].nhs = Resolution(j) /\ Resolution(j) # {}
  BY <1>s, <1>b, <1>c, ZenonT(40) DEF Shape
<1>e. fresh'[p][j] = {r} /\ \A k \in Prefixes \ {j} : fresh'[p][k] = fresh[p][k]
  BY <1>s, <1>b, <1>c, ZenonT(40) DEF Shape
<1>1. Shape'
  BY <1>s, <1>a, <1>r, <1>b, ZenonT(40) DEF Shape, Running, Sweeping
<1>2. Others(p)
  BY <1>s, <1>a, <1>b, SMTT(20) DEF Shape, Others
<1>k. Kept /\ \A k \in Prefixes : Recorded(k)' /\ Routed(k)'
  BY <1>s, <1>a, <1>p, <1>2, TablesSame, ZenonT(40) DEF Running, Sweeping
<1>3. Local(p)'
  <2>1. Visited(p)'
    BY <1>s, <1>a, <1>r, <1>c, <1>d, <1>e, SMTT(30) DEF Local, Visited, Running
  <2>2. InHand(p)'
    BY <1>r, <1>p, <1>c, <1>d, ZenonT(40) DEF InHand
  <2>3. Done(p)'
    BY <1>s, <1>a, <1>k, <1>p, <1>d, <1>e, ZenonT(40) DEF Local, Done, Kept, Running, Programming
  <2> QED
    BY <1>p, <2>1, <2>2, <2>3, ZenonT(40) DEF Local, Forgotten, Swept, Sweeping
<1> QED
  BY <1>s, <1>a, <1>k, <1>1, <1>2, <1>3, RunFrame, Zenon DEF Running, Sweeping

LEMMA CheckStep ==
  ASSUME IInv, ~Crashed, NEW p \in Procs, Check(p)
  PROVE  IInv' /\ Kept
<1>s. Shape /\ Safe /\ Local(p)
  BY DEF IInv, Safe
<1>a. /\ pc[p] = "check"
      /\ \/ pc' = [pc EXCEPT ![p] = "program"]
         \/ pc' = [pc EXCEPT ![p] = "resolve"] /\ programmed[cur[p].key] = cur[p].nhs
      /\ UNCHANGED <<ribVars, fib, programmed, resolved, todo, fresh, cur, stale, failed, undone>>
  BY Zenon DEF Check, Goto, runVars, history
<1>r. rib' = rib /\ \A k \in Prefixes : Resolution(k)' = Resolution(k)
  BY <1>a, SameResolution, ZenonT(40) DEF ribVars
<1>p. \/ pc'[p] = "program"
      \/ pc'[p] = "resolve" /\ programmed[cur[p].key] = cur[p].nhs
  BY <1>s, <1>a, ZenonT(40) DEF Shape
<1>1. Shape'
  BY <1>s, <1>a, <1>r, ZenonT(40) DEF Shape, Running, Sweeping
<1>2. Others(p)
  BY <1>s, <1>a, ZenonT(40) DEF Shape, Others
<1>k. Kept /\ \A k \in Prefixes : Recorded(k)' /\ Routed(k)'
  BY <1>s, <1>a, <1>p, <1>2, TablesSame, ZenonT(40) DEF Running, Sweeping
<1>3. Local(p)'
  <2>1. pc'[p] = "resolve" => Cell(cur[p].key)
    <3>1. InHand(p) /\ Recorded(cur[p].key)
      BY <1>s, <1>a, ZenonT(40) DEF Safe, Local, InHand, Programming
    <3>2. /\ cur[p].key \in Prefixes /\ cur[p].nhs = Resolution(cur[p].key)
      BY <1>a, <3>1, ZenonT(40) DEF InHand, Programming
    <3>3. \/ fib[cur[p].key] = RouteRequest(programmed[cur[p].key])
          \/ fib[cur[p].key] = RouteRequest(Resolution(cur[p].key))
      BY <1>s, <3>1, <3>2, RecordingMeans, ZenonT(40) DEF Recorded
    <3> QED
      BY <1>p, <3>2, <3>3, ZenonT(40) DEF Cell
  <2>2. Visited(p)'
    BY <1>s, <1>a, <1>r, <1>p, ZenonT(40) DEF Local, Visited, Running
  <2>3. InHand(p)'
    BY <1>s, <1>a, <1>r, <1>p, ZenonT(40) DEF Local, InHand, Programming
  <2>4. Done(p)'
    BY <1>s, <1>a, <1>k, <1>p, <2>1, ZenonT(40) DEF Local, Done, Kept, Running, Programming
  <2> QED
    BY <1>p, <2>2, <2>3, <2>4, ZenonT(40) DEF Local, Forgotten, Swept, Sweeping
<1> QED
  BY <1>s, <1>a, <1>k, <1>1, <1>2, <1>3, RunFrame, ZenonT(40) DEF Running, Sweeping

LEMMA ProgramStep ==
  ASSUME IInv, ~Crashed, NEW p \in Procs, Program(p)
  PROVE  IInv' /\ Kept
<1>s. Shape /\ Safe /\ Local(p)
  BY DEF IInv, Safe
<1>a. /\ pc[p] = "program" /\ pc' = [pc EXCEPT ![p] = "record"]
      /\ UNCHANGED <<ribVars, programmed, resolved, todo, fresh, cur, stale, failed, undone>>
  BY ZenonT(40) DEF Program, Goto, runVars, history
<1>r. rib' = rib /\ \A k \in Prefixes : Resolution(k)' = Resolution(k)
  BY <1>a, SameResolution, ZenonT(40) DEF ribVars
<1>p. pc'[p] = "record"
  BY <1>s, <1>a, ZenonT(40) DEF Shape
<1>h. /\ cur[p].key \in Prefixes
      /\ cur[p].nhs = Resolution(cur[p].key) /\ Resolution(cur[p].key) # {}
  BY <1>s, <1>a, ZenonT(40) DEF Local, InHand, Programming
<1>f. /\ fib' = [fib EXCEPT ![cur[p].key] = RouteRequest(cur[p].nhs)]
      /\ fib'[cur[p].key] = RouteRequest(Resolution(cur[p].key))
      /\ \A k \in Prefixes \ {cur[p].key} : fib'[k] = fib[k]
  BY <1>s, <1>h, ZenonT(40) DEF Program, Shape
<1>q. ~Quiet /\ ~Quiet'
  BY <1>a, <1>p, ZenonT(40) DEF Quiet
<1>1. Shape'
  BY <1>s, <1>a, <1>r, <1>f, ZenonT(40) DEF Shape, Running, Sweeping
<1>2. Others(p)
  BY <1>s, <1>a, ZenonT(40) DEF Shape, Others
<1>k. Kept /\ \A k \in Prefixes : Recorded(k)' /\ Routed(k)'
  <2>1. Kept
    BY <1>a, <1>r, <1>f, ZenonT(40) DEF Kept, Cell
  <2>2. Recording(cur[p].key)'
    BY <1>a, <1>p, ZenonT(40) DEF Recording
  <2>3. ASSUME NEW k \in Prefixes PROVE Recorded(k)'
    <3>1. CASE k = cur[p].key
      BY <1>a, <2>2, <3>1, ZenonT(40) DEF Recorded
    <3>2. CASE k # cur[p].key
      BY <1>s, <1>a, <1>f, <1>2, <3>2, RecordingKept, ZenonT(40) DEF Safe, Recorded
    <3> QED
      BY <3>1, <3>2, ZenonT(40)
  <2> QED
    BY <1>s, <1>a, <1>r, <1>q, <2>1, <2>3, ZenonT(40) DEF Safe, Routed
<1>3. Local(p)'
  <2>1. Visited(p)'
    BY <1>s, <1>a, <1>r, <1>p, ZenonT(40) DEF Local, Visited, Running
  <2>2. InHand(p)'
    BY <1>a, <1>r, <1>p, <1>h, <1>f, ZenonT(40) DEF InHand
  <2>3. Done(p)'
    BY <1>s, <1>a, <1>k, <1>p, ZenonT(40) DEF Local, Done, Kept, Running, Programming
  <2> QED
    BY <1>p, <2>1, <2>2, <2>3, ZenonT(40) DEF Local, Forgotten, Swept, Sweeping
<1> QED
  BY <1>s, <1>a, <1>k, <1>1, <1>2, <1>3, RunFrame, Zenon DEF Running, Sweeping

LEMMA RecordStep ==
  ASSUME IInv, ~Crashed, NEW p \in Procs, Record(p)
  PROVE  IInv' /\ Kept
<1>s. Shape /\ Safe /\ Local(p)
  BY DEF IInv, Safe
<1>a. /\ pc[p] = "record" /\ pc' = [pc EXCEPT ![p] = "distribute"]
      /\ UNCHANGED <<ribVars, fib, resolved, todo, fresh, cur, stale, failed, undone>>
  BY ZenonT(40) DEF Record, Goto, runVars, history
<1>r. rib' = rib /\ \A k \in Prefixes : Resolution(k)' = Resolution(k)
  BY <1>a, SameResolution, ZenonT(40) DEF ribVars
<1>p. pc'[p] = "distribute"
  BY <1>s, <1>a, ZenonT(40) DEF Shape
<1>h. /\ cur[p].key \in Prefixes
      /\ cur[p].nhs = Resolution(cur[p].key) /\ Resolution(cur[p].key) # {}
  BY <1>s, <1>a, ZenonT(40) DEF Local, InHand, Programming
<1>f. /\ programmed' = [programmed EXCEPT ![cur[p].key] = cur[p].nhs]
      /\ programmed'[cur[p].key] = Resolution(cur[p].key)
      /\ \A k \in Prefixes \ {cur[p].key} : programmed'[k] = programmed[k]
      /\ fib[cur[p].key] = RouteRequest(Resolution(cur[p].key))
  BY <1>s, <1>a, <1>h, ZenonT(40) DEF Record, Shape, Local, InHand
<1>q. ~Quiet /\ ~Quiet'
  BY <1>a, <1>p, ZenonT(40) DEF Quiet
<1>c. Cell(cur[p].key)'
  BY <1>a, <1>r, <1>h, <1>f, ZenonT(40) DEF Cell
<1>1. Shape'
  BY <1>s, <1>a, <1>r, <1>f, ZenonT(40) DEF Shape, Running, Sweeping
<1>2. Others(p)
  BY <1>s, <1>a, ZenonT(40) DEF Shape, Others
<1>k. Kept /\ \A k \in Prefixes : Recorded(k)' /\ Routed(k)'
  <2>1. Kept
    BY <1>a, <1>r, <1>f, <1>c, ZenonT(40) DEF Kept, Cell
  <2>2. ASSUME NEW k \in Prefixes PROVE Recorded(k)'
    <3>1. CASE k = cur[p].key
      BY <1>a, <1>c, <3>1, ZenonT(40) DEF Recorded, Cell
    <3>2. CASE k # cur[p].key
      BY <1>s, <1>a, <1>f, <1>2, <3>2, RecordingKept, ZenonT(40) DEF Safe, Recorded
    <3> QED
      BY <3>1, <3>2
  <2> QED
    BY <1>s, <1>a, <1>r, <1>h, <1>f, <1>q, <2>1, <2>2, ZenonT(40) DEF Safe, Routed
<1>3. Local(p)'
  <2>1. Visited(p)'
    BY <1>s, <1>a, <1>r, <1>p, ZenonT(40) DEF Local, Visited, Running
  <2>2. InHand(p)'
    BY <1>a, <1>r, <1>p, <1>h, ZenonT(40) DEF InHand
  <2>3. Done(p)'
    BY <1>s, <1>a, <1>k, <1>p, <1>c, ZenonT(40) DEF Local, Done, Kept, Running, Programming
  <2> QED
    BY <1>p, <2>1, <2>2, <2>3, ZenonT(40) DEF Local, Forgotten, Swept, Sweeping
<1> QED
  BY <1>s, <1>a, <1>k, <1>1, <1>2, <1>3, RunFrame, Zenon DEF Running, Sweeping

LEMMA DistributeStep ==
  ASSUME IInv, ~Crashed, NEW p \in Procs, Distribute(p)
  PROVE  IInv' /\ Kept
<1>s. Shape /\ Safe /\ Local(p)
  BY DEF IInv, Safe
<1>a. /\ pc[p] = "distribute" /\ pc' = [pc EXCEPT ![p] = "resolve"]
      /\ UNCHANGED <<ribVars, fib, programmed, resolved, todo, fresh, cur, stale, failed, undone>>
  BY ZenonT(40) DEF Distribute, Goto, runVars, history
<1>r. rib' = rib /\ \A k \in Prefixes : Resolution(k)' = Resolution(k)
  BY <1>a, SameResolution, ZenonT(40) DEF ribVars
<1>p. pc'[p] = "resolve"
  BY <1>s, <1>a, ZenonT(40) DEF Shape
<1>1. Shape'
  BY <1>s, <1>a, <1>r, ZenonT(40) DEF Shape, Running, Sweeping
<1>2. Others(p)
  BY <1>s, <1>a, ZenonT(40) DEF Shape, Others
<1>k. Kept /\ \A k \in Prefixes : Recorded(k)' /\ Routed(k)'
  BY <1>s, <1>a, <1>p, <1>2, TablesSame, ZenonT(40) DEF Running, Sweeping
<1>3. Local(p)'
  <2>1. Visited(p)'
    BY <1>s, <1>a, <1>r, <1>p, ZenonT(40) DEF Local, Visited, Running
  <2>2. Done(p)'
    BY <1>s, <1>a, <1>k, <1>p, ZenonT(40) DEF Local, Done, Kept, Running, Programming
  <2> QED
    BY <1>p, <2>1, <2>2, ZenonT(40) DEF Local, Forgotten, InHand, Swept, Sweeping, Programming
<1> QED
  BY <1>s, <1>a, <1>k, <1>1, <1>2, <1>3, RunFrame, Zenon DEF Running, Sweeping

LEMMA SweepStep ==
  ASSUME IInv, ~Crashed, NEW p \in Procs, Sweep(p)
  PROVE  IInv' /\ Kept
<1>s. Shape /\ Safe /\ Local(p)
  BY DEF IInv, Safe
<1>a. /\ pc[p] = "resolve" /\ pc' = [pc EXCEPT ![p] = "sweep"]
      /\ UNCHANGED <<ribVars, fib, programmed, resolved, todo, fresh, cur, failed, undone>>
  BY ZenonT(40) DEF Sweep, Goto, runVars, SweepWith, history
<1>r. rib' = rib /\ \A k \in Prefixes : Resolution(k)' = Resolution(k)
  BY <1>a, SameResolution, ZenonT(40) DEF ribVars
<1>p. pc'[p] = "sweep"
  BY <1>s, <1>a, ZenonT(40) DEF Shape
<1>b. /\ todo[p] = {} /\ \A q \in Procs : pc[q] \notin Sweeping
      /\ stale' = [stale EXCEPT ![p] = Unneeded(p)]
  BY ZenonT(40) DEF Sweep, SweepWith
<1>c. stale'[p] = Unneeded(p) /\ Unneeded(p) \in SUBSET Prefixes
  BY <1>s, <1>b, ZenonT(40) DEF Shape, Unneeded
<1>1. Shape'
  BY <1>s, <1>a, <1>r, <1>b, <1>c, ZenonT(40) DEF Shape, Running, Sweeping
<1>2. Others(p)
  BY <1>s, <1>a, <1>b, ZenonT(40) DEF Shape, Others
<1>k. Kept /\ \A k \in Prefixes : Recorded(k)' /\ Routed(k)'
  BY <1>s, <1>a, <1>p, <1>2, TablesSame, ZenonT(40) DEF Running, Sweeping
<1>3. Local(p)'
  <2>1. Visited(p)'
    BY <1>s, <1>a, <1>r, <1>p, ZenonT(40) DEF Local, Visited, Running
  <2>2. Done(p)'
    BY <1>s, <1>a, <1>k, <1>p, ZenonT(40) DEF Local, Done, Kept, Running, Programming
  <2>3. \A k \in Prefixes : fresh[p][k] = {} <=> Resolution(k) = {}
    BY <1>s, <1>a, <1>b, ZenonT(40) DEF Local, Visited, Running
  <2>4. \A k \in stale'[p] : Resolution(k) = {} /\ (k \in undone \/ resolved[k] # {})
    BY <1>s, <1>c, <2>3, ZenonT(40) DEF Safe, Routed, Unneeded
  <2>5. \A k \in Prefixes : Resolution(k) = {} => k \in stale'[p] \/ Cell(k)
    <3> SUFFICES ASSUME NEW k \in Prefixes, Resolution(k) = {}, k \notin stale'[p]
                 PROVE  Cell(k)
      BY ZenonT(40)
    <3>1. programmed[k] = {}
      BY <1>c, <2>3, SMTT(20) DEF Unneeded
    <3>2. Recorded(k)
      BY <1>s, ZenonT(40) DEF Safe
    <3> QED
      BY <1>s, <3>1, <3>2, RecordingMeans, ZenonT(40) DEF Recorded, Cell
  <2>6. Swept(p)'
    BY <1>a, <1>b, <1>c, <1>k, <1>r, <1>p, <2>4, <2>5, ZenonT(40) DEF Kept, Swept
  <2> QED
    BY <1>p, <2>1, <2>2, <2>6, ZenonT(40) DEF Local, Forgotten, InHand, Programming
<1> QED
  BY <1>s, <1>a, <1>b, <1>k, <1>1, <1>2, <1>3, RunFrame, Zenon DEF Running, Sweeping

LEMMA DeprogramStep ==
  ASSUME IInv, ~Crashed, NEW p \in Procs, Deprogram(p)
  PROVE  IInv' /\ Kept
<1>s. Shape /\ Safe /\ Local(p)
  BY DEF IInv, Safe
<1>a. /\ pc[p] = "sweep" /\ pc' = [pc EXCEPT ![p] = "unrecord"]
      /\ UNCHANGED <<ribVars, programmed, resolved, todo, fresh, failed, undone>>
  BY ZenonT(40) DEF Deprogram, Goto, runVars, history
<1>r. rib' = rib /\ \A k \in Prefixes : Resolution(k)' = Resolution(k)
  BY <1>a, SameResolution, ZenonT(40) DEF ribVars
<1>p. pc'[p] = "unrecord"
  BY <1>s, <1>a, ZenonT(40) DEF Shape
<1>j. PICK j \in stale[p] : /\ fib' = [fib EXCEPT ![j] = RouteRequest({})]
                           /\ stale' = [stale EXCEPT ![p] = @ \ {j}]
                           /\ cur' = [cur EXCEPT ![p] = [key |-> j]]
  BY Zenon DEF Deprogram
<1>b. j \in Prefixes /\ Resolution(j) = {} /\ (j \in undone \/ resolved[j] # {})
  BY <1>s, <1>a, <1>j, Zenon DEF Shape, Local, Swept, Sweeping
<1>f. fib'[j] = RouteRequest({}) /\ \A k \in Prefixes \ {j} : fib'[k] = fib[k]
  BY <1>s, <1>j, <1>b, ZenonT(40) DEF Shape
<1>c. stale'[p] = stale[p] \ {j} /\ cur'[p].key = j
  BY <1>s, <1>j, ZenonT(40) DEF Shape
<1>q. ~Quiet /\ ~Quiet'
  BY <1>a, <1>p, ZenonT(40) DEF Quiet
<1>1. Shape'
  BY <1>s, <1>a, <1>r, <1>j, Zenon DEF Shape, Running, Sweeping
<1>2. Others(p)
  BY <1>s, <1>a, <1>j, Zenon DEF Shape, Others
<1>k. Kept /\ \A k \in Prefixes : Recorded(k)' /\ Routed(k)'
  <2>1. Kept
    BY <1>a, <1>r, <1>b, <1>f, Zenon DEF Kept, Cell
  <2>2. Recording(j)'
    BY <1>c, <1>p, ZenonT(40) DEF Recording
  <2>3. ASSUME NEW k \in Prefixes PROVE Recorded(k)'
    <3>1. CASE k = j
      BY <2>2, <3>1, ZenonT(40) DEF Recorded
    <3>2. CASE k # j
      BY <1>s, <1>a, <1>f, <1>2, <3>2, RecordingKept, ZenonT(40) DEF Safe, Recorded
    <3> QED
      BY <3>1, <3>2, ZenonT(40)
  <2> QED
    BY <1>s, <1>a, <1>r, <1>b, <1>q, <2>1, <2>3, Zenon DEF Safe, Routed
<1>3. Local(p)'
  <2>1. Visited(p)'
    BY <1>s, <1>a, <1>r, <1>p, ZenonT(40) DEF Local, Visited, Running, Sweeping
  <2>2. Done(p)'
    BY <1>s, <1>a, <1>k, <1>p, ZenonT(40) DEF Local, Done, Kept, Running, Sweeping, Programming
  <2>3. \A k \in Prefixes : Resolution(k)' = {} =>
          \/ k \in stale'[p] \/ Cell(k)' \/ (failed'[p] /\ k \in undone')
          \/ (pc'[p] = "unrecord" /\ cur'[p].key = k)
    BY <1>s, <1>a, <1>k, <1>p, <1>c, Zenon DEF Local, Swept, Kept, Sweeping
  <2>4. todo'[p] = {} /\ \A k \in stale'[p] : Resolution(k)' = {} /\ (k \in undone' \/ resolved'[k] # {})
    BY <1>s, <1>a, <1>r, <1>c, Zenon DEF Shape, Local, Swept, Sweeping
  <2>5. Swept(p)'
    BY <1>a, <1>r, <1>p, <1>b, <1>f, <1>c, <2>3, <2>4, Zenon DEF Swept
  <2> QED
    BY <1>p, <2>1, <2>2, <2>5, ZenonT(40) DEF Local, Forgotten, InHand, Programming
<1> QED
  BY <1>s, <1>a, <1>k, <1>1, <1>2, <1>3, RunFrame, Zenon DEF Running, Sweeping

LEMMA UnrecordStep ==
  ASSUME IInv, ~Crashed, NEW p \in Procs, Unrecord(p)
  PROVE  IInv' /\ Kept
<1>s. Shape /\ Safe /\ Local(p)
  BY DEF IInv, Safe
<1>a. /\ pc[p] = "unrecord" /\ pc' = [pc EXCEPT ![p] = "withdraw"]
      /\ UNCHANGED <<ribVars, fib, resolved, todo, fresh, cur, stale, failed, undone>>
  BY ZenonT(40) DEF Unrecord, Goto, runVars, history
<1>r. rib' = rib /\ \A k \in Prefixes : Resolution(k)' = Resolution(k)
  BY <1>a, SameResolution, ZenonT(40) DEF ribVars
<1>p. pc'[p] = "withdraw"
  BY <1>s, <1>a, SMTT(20) DEF Shape
<1>h. /\ cur[p].key \in Prefixes /\ (cur[p].key \in undone \/ resolved[cur[p].key] # {})
      /\ Resolution(cur[p].key) = {}
      /\ fib[cur[p].key] = RouteRequest(Resolution(cur[p].key))
  BY <1>s, <1>a, ZenonT(40) DEF Local, Swept
<1>f. /\ programmed' = [programmed EXCEPT ![cur[p].key] = {}]
      /\ programmed'[cur[p].key] = {}
      /\ \A k \in Prefixes \ {cur[p].key} : programmed'[k] = programmed[k]
  BY <1>s, <1>h, ZenonT(40) DEF Unrecord, Shape
<1>q. ~Quiet /\ ~Quiet'
  BY <1>a, <1>p, ZenonT(40) DEF Quiet
<1>c. Cell(cur[p].key)'
  BY <1>a, <1>r, <1>h, <1>f, ZenonT(40) DEF Cell
<1>1. Shape'
  BY <1>s, <1>a, <1>r, <1>f, ZenonT(40) DEF Shape, Running, Sweeping
<1>2. Others(p)
  BY <1>s, <1>a, ZenonT(40) DEF Shape, Others
<1>k. Kept /\ \A k \in Prefixes : Recorded(k)' /\ Routed(k)'
  <2>1. Kept
    BY <1>a, <1>r, <1>f, <1>c, ZenonT(40) DEF Kept, Cell
  <2>2. ASSUME NEW k \in Prefixes PROVE Recorded(k)'
    <3>1. CASE k = cur[p].key
      BY <1>a, <1>c, <3>1, ZenonT(40) DEF Recorded, Cell
    <3>2. CASE k # cur[p].key
      BY <1>s, <1>a, <1>f, <1>2, <3>2, RecordingKept, ZenonT(40) DEF Safe, Recorded
    <3> QED
      BY <3>1, <3>2
  <2> QED
    BY <1>s, <1>a, <1>r, <1>h, <1>f, <1>q, <2>1, <2>2, ZenonT(40) DEF Safe, Routed
<1>3. Local(p)'
  <2>1. Visited(p)'
    BY <1>s, <1>a, <1>r, <1>p, ZenonT(40) DEF Local, Visited, Running, Sweeping
  <2>2. Done(p)'
    BY <1>s, <1>a, <1>k, <1>p, ZenonT(40) DEF Local, Done, Kept, Running, Sweeping, Programming
  <2>3. \A k \in Prefixes : Resolution(k)' = {} => k \in stale'[p] \/ Cell(k)' \/ (failed'[p] /\ k \in undone')
    BY <1>s, <1>a, <1>k, <1>c, ZenonT(40) DEF Local, Swept, Kept, Sweeping
  <2>4. todo'[p] = {} /\ \A k \in stale'[p] : Resolution(k)' = {} /\ (k \in undone' \/ resolved'[k] # {})
    BY <1>s, <1>a, <1>r, Zenon DEF Shape, Local, Swept, Sweeping
  <2>5. Swept(p)'
    BY <1>a, <1>r, <1>p, <1>h, <2>3, <2>4, ZenonT(40) DEF Swept
  <2> QED
    BY <1>p, <2>1, <2>2, <2>5, Zenon DEF Local, Forgotten, InHand, Programming
<1> QED
  BY <1>s, <1>a, <1>k, <1>1, <1>2, <1>3, RunFrame, Zenon DEF Running, Sweeping

LEMMA WithdrawStep ==
  ASSUME IInv, ~Crashed, NEW p \in Procs, Withdraw(p)
  PROVE  IInv' /\ Kept
<1>s. Shape /\ Safe /\ Local(p)
  BY DEF IInv, Safe
<1>a. /\ pc[p] = "withdraw" /\ pc' = [pc EXCEPT ![p] = "sweep"]
      /\ UNCHANGED <<ribVars, fib, programmed, resolved, todo, fresh, cur, stale, failed, undone>>
  BY ZenonT(40) DEF Withdraw, Goto, runVars, history
<1>r. rib' = rib /\ \A k \in Prefixes : Resolution(k)' = Resolution(k)
  BY <1>a, SameResolution, ZenonT(40) DEF ribVars
<1>p. pc'[p] = "sweep"
  BY <1>s, <1>a, ZenonT(40) DEF Shape
<1>1. Shape'
  BY <1>s, <1>a, <1>r, ZenonT(40) DEF Shape, Running, Sweeping
<1>2. Others(p)
  BY <1>s, <1>a, ZenonT(40) DEF Shape, Others
<1>k. Kept /\ \A k \in Prefixes : Recorded(k)' /\ Routed(k)'
  BY <1>s, <1>a, <1>p, <1>2, TablesSame, ZenonT(40) DEF Running, Sweeping
<1>3. Local(p)'
  <2>1. Visited(p)'
    BY <1>s, <1>a, <1>r, <1>p, ZenonT(40) DEF Local, Visited, Running, Sweeping
  <2>2. Done(p)'
    BY <1>s, <1>a, <1>k, <1>p, ZenonT(40) DEF Local, Done, Kept, Running, Sweeping, Programming
  <2>3. \A k \in Prefixes : Resolution(k)' = {} => k \in stale'[p] \/ Cell(k)' \/ (failed'[p] /\ k \in undone')
    BY <1>s, <1>a, <1>k, ZenonT(40) DEF Local, Swept, Kept, Sweeping
  <2>4. todo'[p] = {} /\ \A k \in stale'[p] : Resolution(k)' = {} /\ (k \in undone' \/ resolved'[k] # {})
    BY <1>s, <1>a, <1>r, ZenonT(40) DEF Shape, Local, Swept, Sweeping
  <2>5. Swept(p)'
    BY <1>p, <2>3, <2>4, ZenonT(40) DEF Swept
  <2> QED
    BY <1>p, <2>1, <2>2, <2>5 DEF Local, Forgotten, InHand, Programming
<1> QED
  BY <1>s, <1>a, <1>k, <1>1, <1>2, <1>3, RunFrame, Zenon DEF Running, Sweeping

LEMMA FinishStep ==
  ASSUME IInv, ~Crashed, NEW p \in Procs, Finish(p)
  PROVE  IInv' /\ Kept
<1>s. Shape /\ Safe /\ Local(p)
  BY DEF IInv, Safe
<1>a. /\ pc[p] = "sweep" /\ pc' = [pc EXCEPT ![p] = "idle"]
      /\ UNCHANGED <<ribVars, fib, programmed, todo, stale, failed>>
  BY ZenonT(40) DEF Finish, Goto, runVars
<1>r. rib' = rib /\ \A k \in Prefixes : Resolution(k)' = Resolution(k)
  BY <1>a, SameResolution, ZenonT(40) DEF ribVars
<1>p. pc'[p] = "idle"
  BY <1>s, <1>a, ZenonT(40) DEF Shape
<1>b. /\ stale[p] = {} /\ resolved' = fresh[p]
      /\ undone' = {k \in undone : fresh[p][k] = {}}
      /\ fresh' = [fresh EXCEPT ![p] = None] /\ cur' = [cur EXCEPT ![p] = <<>>]
  BY ZenonT(40) DEF Finish
<1>c. \A k \in Prefixes : resolved'[k] = {} <=> Resolution(k) = {}
  BY <1>s, <1>a, <1>b, ZenonT(40) DEF Local, Visited, Swept, Running, Sweeping
<1>d. failed[p] \/ \A k \in Prefixes : Cell(k)
  <2>1. \A k \in Prefixes : Resolution(k) = {} => failed[p] \/ Cell(k)
    BY <1>s, <1>a, <1>b, ZenonT(40) DEF Local, Swept, Sweeping
  <2>2. \A k \in Prefixes : Resolution(k) # {} => failed[p] \/ Cell(k)
    BY <1>s, <1>a, <1>b, <1>c, ZenonT(40) DEF Local, Done, Running, Sweeping, Programming
  <2> QED
    BY <2>1, <2>2, ZenonT(40)
<1>1. Shape'
  <2>1. DOMAIN resolved' = Prefixes /\ DOMAIN fresh'[p] = Prefixes
    BY <1>s, <1>b, ZenonT(40) DEF Shape, None
  <2> QED
    BY <1>s, <1>a, <1>r, <1>b, <2>1, ZenonT(40) DEF Shape
<1>2. Others(p)
  BY <1>s, <1>a, <1>b, ZenonT(40) DEF Shape, Others
<1>k. Kept /\ \A k \in Prefixes : Recorded(k)' /\ Routed(k)'
  <2>1. Kept
    BY <1>a, <1>r, ZenonT(40) DEF Kept, Cell
  <2>2. \A k \in Prefixes : Recorded(k)'
    BY <1>s, <1>a, <1>2, RecordingKept, ZenonT(40) DEF Safe, Recorded
  <2>3. \A k \in Prefixes : Resolution(k) = {} => Cell(k) \/ k \in undone'
    BY <1>s, <1>a, <1>b, <1>c, ZenonT(40) DEF Local, Swept, Sweeping
  <2>4. \A k \in Prefixes : Routed(k)'
    BY <1>a, <1>c, <2>3, ZenonT(40) DEF Routed, Cell
  <2> QED
    BY <2>1, <2>2, <2>4, ZenonT(40)
<1>e. failed'[p] \/ \A k \in Prefixes : Cell(k)'
  BY <1>a, <1>d, <1>k, ZenonT(40) DEF Kept
<1>3. Local(p)'
  <2>1. \A k \in Prefixes : fresh'[p][k] = {}
    BY <1>s, <1>b, ZenonT(40) DEF Shape, None
  <2> QED
    BY <1>p, <2>1, ZenonT(40) DEF Local, Forgotten, Visited, InHand, Done, Swept, Running, Sweeping, Programming
<1> QED
  BY <1>s, <1>a, <1>e, <1>k, <1>1, <1>2, <1>3, RunFrame, Zenon DEF Running, Sweeping

\* A call that fails leaves the tables alone, and is remembered.
LEMMA ProgramFailsStep ==
  ASSUME IInv, ~Crashed, NEW p \in Procs, ProgramFails(p)
  PROVE  IInv' /\ Kept
<1>s. Shape /\ Safe /\ Local(p)
  BY DEF IInv, Safe
<1>a. /\ pc[p] = "program" /\ pc' = [pc EXCEPT ![p] = "resolve"] /\ MayFail
      /\ failed' = [failed EXCEPT ![p] = TRUE]
      /\ UNCHANGED <<ribVars, fib, programmed, resolved, todo, fresh, cur, stale, undone>>
  BY ZenonT(40) DEF ProgramFails, Goto, history
<1>r. rib' = rib /\ \A k \in Prefixes : Resolution(k)' = Resolution(k)
  BY <1>a, SameResolution, ZenonT(40) DEF ribVars
<1>p. pc'[p] = "resolve" /\ failed'[p]
  BY <1>s, <1>a, ZenonT(40) DEF Shape
<1>1. Shape'
  BY <1>s, <1>a, <1>r, ZenonT(40) DEF Shape, Running, Sweeping
<1>2. Others(p)
  BY <1>s, <1>a, ZenonT(40) DEF Shape, Others
<1>k. Kept /\ \A k \in Prefixes : Recorded(k)' /\ Routed(k)'
  BY <1>s, <1>a, <1>p, <1>2, TablesSame, ZenonT(40) DEF Running, Sweeping
<1>3. Local(p)'
  <2>1. Visited(p)'
    BY <1>s, <1>a, <1>r, <1>p, ZenonT(40) DEF Local, Visited, Running
  <2> QED
    BY <1>p, <2>1, ZenonT(40) DEF Local, Forgotten, InHand, Done, Swept, Sweeping, Programming
<1> QED
  BY <1>s, <1>a, <1>k, <1>1, <1>2, <1>3, RunFrame, Zenon DEF Running, Sweeping

LEMMA DeprogramFailsStep ==
  ASSUME IInv, ~Crashed, NEW p \in Procs, DeprogramFails(p)
  PROVE  IInv' /\ Kept
<1>s. Shape /\ Safe /\ Local(p)
  BY DEF IInv, Safe
<1>a. /\ pc[p] = "sweep" /\ pc' = [pc EXCEPT ![p] = "sweep"] /\ MayFail
      /\ failed' = [failed EXCEPT ![p] = TRUE]
      /\ UNCHANGED <<ribVars, fib, programmed, resolved, todo, fresh, cur>>
  BY <1>s, ZenonT(40) DEF DeprogramFails, Shape
<1>r. rib' = rib /\ \A k \in Prefixes : Resolution(k)' = Resolution(k)
  BY <1>a, SameResolution, ZenonT(40) DEF ribVars
<1>p. pc'[p] = "sweep" /\ failed'[p]
  BY <1>s, <1>a, ZenonT(40) DEF Shape
<1>j. PICK j \in stale[p] : /\ stale' = [stale EXCEPT ![p] = @ \ {j}]
                           /\ undone' = undone \cup {j}
  BY Zenon DEF DeprogramFails
<1>1. Shape'
  BY <1>s, <1>a, <1>r, <1>j, ZenonT(40) DEF Shape, Running, Sweeping
<1>2. Others(p)
  BY <1>s, <1>a, <1>j, ZenonT(40) DEF Shape, Others
<1>k. Kept /\ \A k \in Prefixes : Recorded(k)' /\ Routed(k)'
  BY <1>s, <1>a, <1>p, <1>j, <1>2, TablesSame, ZenonT(40) DEF Running, Sweeping
<1>3. Local(p)'
  <2>1. Visited(p)'
    BY <1>s, <1>a, <1>r, <1>p, ZenonT(40) DEF Local, Visited, Running, Sweeping
  <2>2. stale'[p] = stale[p] \ {j}
    BY <1>s, <1>j, ZenonT(40) DEF Shape
  <2>3. todo'[p] = {} /\ \A k \in stale'[p] : Resolution(k)' = {} /\ (k \in undone' \/ resolved'[k] # {})
    BY <1>s, <1>a, <1>r, <1>j, <2>2, ZenonT(40) DEF Shape, Local, Swept, Sweeping
  <2>4. \A k \in Prefixes : Resolution(k)' = {} =>
          k \in stale'[p] \/ Cell(k)' \/ (failed'[p] /\ k \in undone')
    BY <1>s, <1>a, <1>p, <1>k, <1>j, <2>2, ZenonT(40) DEF Local, Swept, Kept, Sweeping
  <2>5. Swept(p)'
    BY <1>p, <2>3, <2>4, ZenonT(40) DEF Swept
  <2> QED
    BY <1>p, <2>1, <2>5, ZenonT(40) DEF Local, Forgotten, InHand, Done, Programming
<1> QED
  BY <1>s, <1>a, <1>k, <1>1, <1>2, <1>3, RunFrame, Zenon DEF Running, Sweeping

LEMMA ChangeBetweenRuns ==
  ASSUME ~raced', NEW p \in Procs, Change(p)
  PROVE  NoRun
BY ZenonT(40) DEF Change, SetRoute, SetInterface, SetGUEPolicy, DeleteGUEPolicy

\* A change is made between runs: the routes it affects are no longer what the
\* dataplane has, and its own run is due.
LEMMA ChangeStep ==
  ASSUME IInv, ~Crashed, ~raced', NEW p \in Procs, Change(p)
  PROVE  IInv' /\ UNCHANGED fib
<1> USE DEF Running, Sweeping, Programming, Crashes
<1>s. Shape /\ Safe
  BY ZenonT(40) DEF IInv
<1>c. /\ pc[p] = "idle" /\ NoRun /\ Goto(p, "start")
      /\ rib' \subseteq rib \cup Routes
      /\ UNCHANGED <<fib, programmed, resolved, runVars, undone>>
  <2>1. CASE \E r \in Routes, isDelete \in BOOLEAN : SetRoute(p, r, isDelete)
    BY <1>s, <2>1, ZenonT(40) DEF SetRoute, setRoute, Shape, history
  <2>2. CASE \E i \in Interfaces, enabled \in BOOLEAN : SetInterface(p, i, enabled)
    <3>1. /\ pc[p] = "idle" /\ Goto(p, "start")
          /\ UNCHANGED <<rib, fib, programmed, resolved, runVars, undone>>
      BY <2>2, ZenonT(40) DEF SetInterface
    <3> QED
      BY <3>1, ChangeBetweenRuns, ZenonT(40)
  <2>3. CASE \E q \in Policies : SetGUEPolicy(p, q) \/ DeleteGUEPolicy(p, q)
    BY <2>3, ZenonT(40) DEF SetGUEPolicy, DeleteGUEPolicy, history
  <2> QED
    BY <2>1, <2>2, <2>3, ZenonT(40) DEF Change
<1>u. UNCHANGED <<fib, programmed, resolved, todo, fresh, cur, stale, failed, undone>>
  BY <1>c, SMTT(20) DEF runVars
<1>p. pc'[p] = "start" /\ \A q \in Procs \ {p} : pc'[q] = pc[q]
  BY <1>s, <1>c, ZenonT(40) DEF Goto, Shape
<1>q. Quiet /\ Quiet'
  BY <1>s, <1>c, <1>p, ZenonT(40) DEF NoRun, Crashed, Quiet, Shape
<1>1. Shape'
  BY <1>s, <1>c, <1>u, ZenonT(40) DEF Shape, Goto
<1>2. ~Crashed'
  BY <1>q, ZenonT(40) DEF Quiet, Crashed
<1>3. ASSUME NEW q \in Procs PROVE Local(q)'
  <2>1. pc'[q] \in {"idle", "start"} /\ pc[q] \in {"idle", "start"}
    BY <1>q, ZenonT(40) DEF Quiet
  <2>2. Forgotten(q)'
    BY <1>s, <1>u, <2>1, ZenonT(40) DEF Safe, Local, Forgotten
  <2> QED
    BY <2>1, <2>2, Zenon DEF Local, Visited, InHand, Done, Swept
<1>4. SweepMutex'
  BY <1>q, ZenonT(40) DEF Quiet, SweepMutex
<1>5. ASSUME NEW k \in Prefixes PROVE Recorded(k)' /\ Routed(k)'
  <2>1. ~Recording(k)
    BY <1>q, ZenonT(40) DEF Quiet, Recording
  <2> QED
    BY <1>s, <1>u, <1>q, <2>1, ZenonT(40) DEF Safe, Recorded, Routed
<1>6. Settled'
  BY <1>p, ZenonT(40) DEF Settled
<1> QED
  BY <1>u, <1>1, <1>2, <1>3, <1>4, <1>5, <1>6, ZenonT(40) DEF IInv, CrashStops, Safe

LEMMA CrashStep ==
  ASSUME IInv, NEW p \in Procs, NEW why \in Crashes, pc' = [q \in Procs |-> why],
         UNCHANGED <<ribVars, fib, programmed, resolved, runVars>>
  PROVE  IInv' /\ Kept
<1>1. UNCHANGED <<ribVars, fib, programmed, resolved, todo, fresh, cur, stale, failed>>
  BY ZenonT(40) DEF runVars
<1>3. Shape'
  BY <1>1, ZenonT(40) DEF IInv, Shape, ribVars, Crashes
<1>4. Crashed' /\ CrashStops'
  BY ZenonT(40) DEF Crashed, CrashStops
<1>5. Kept
  BY <1>1, SameResolution, ZenonT(40) DEF Kept, Cell
<1> QED
  BY <1>3, <1>4, <1>5, ZenonT(40) DEF IInv

\* The clients, and stuttering, are of no consequence to the runs.
LEMMA FrameStep ==
  ASSUME IInv,
         UNCHANGED <<ribVars, fib, programmed, resolved, pc, todo, fresh, cur, stale, failed, undone>>
  PROVE  IInv' /\ Kept
<1>1. Kept
  BY SameResolution, SMTT(20) DEF Kept, Cell
<1>2. Shape' /\ CrashStops' /\ (Crashed' <=> Crashed)
  BY ZenonT(40) DEF IInv, Shape, CrashStops, Crashed, ribVars
<1>3. ASSUME Safe PROVE Safe'
  <2>1. \A p \in Procs : Local(p)'
    BY <1>1, <1>3, OthersKept, ZenonT(40) DEF IInv, Shape, Safe
  <2>2. SweepMutex'
    BY <1>3, SMTT(20) DEF Safe, SweepMutex
  <2>3. ASSUME NEW k \in Prefixes PROVE Recorded(k)' /\ Routed(k)'
    <3>1. Recorded(k) /\ Routed(k) /\ Resolution(k)' = Resolution(k)
      BY <1>1, <1>3, ZenonT(40) DEF Safe, Kept
    <3>2. Recorded(k)'
      BY <3>1, ZenonT(40) DEF Recorded, Recording
    <3>3. Routed(k)'
      BY <3>1, ZenonT(40) DEF Routed, Quiet
    <3> QED
      BY <3>2, <3>3, ZenonT(40)
  <2>4. Settled'
    BY <1>1, <1>3, ZenonT(40) DEF Safe, Kept, Settled
  <2> QED
    BY <2>1, <2>2, <2>3, <2>4, ZenonT(40) DEF Safe
<1> QED
  BY <1>1, <1>2, <1>3, ZenonT(40) DEF IInv

LEMMA ActiveMeans ==
  ASSUME IInv, NEW p \in Procs, Change(p) \/ RunStep(p)
  PROVE  ~Crashed
<1>1. pc[p] \notin Crashes
  BY Zenon DEF Change, RunStep, SetRoute, SetInterface, SetGUEPolicy, DeleteGUEPolicy,
       Begin, Overflow, Unresolvable, Resolve, Check, Program, ProgramFails,
       Record, Distribute, Sweep, SweepWith, Deprogram, DeprogramFails, Unrecord, Withdraw,
       WithdrawNil, Finish, Crashes
<1> QED
  BY <1>1, ZenonT(40) DEF IInv, CrashStops

LEMMA NextStep ==
  ASSUME IInv, ~raced', [Next]_vars
  PROVE  IInv' /\ (Kept \/ UNCHANGED fib)
<1>1. ASSUME NEW p \in Procs, Change(p) \/ RunStep(p) PROVE ~Crashed
  BY <1>1, ActiveMeans, ZenonT(40)
<1>2. ASSUME NEW p \in Procs, Change(p) PROVE IInv' /\ UNCHANGED fib
  BY <1>1, <1>2, ChangeStep, ZenonT(40)
<1>3. ASSUME NEW p \in Procs, RunStep(p) PROVE IInv' /\ Kept
  <2>1. ~Crashed
    BY <1>1, <1>3, ZenonT(40)
  <2>2. CASE Overflow(p)
    BY <2>2, CrashStep, ZenonT(40) DEF Overflow, Crash, Crashes
  <2>3. CASE WithdrawNil(p)
    BY <2>3, CrashStep, ZenonT(40) DEF WithdrawNil, Crash, Crashes
  <2> QED
    BY <1>3, <2>1, <2>2, <2>3, BeginStep, UnresolvableStep, ResolveStep, CheckStep,
       ProgramStep, ProgramFailsStep, RecordStep, DistributeStep, SweepStep, DeprogramStep,
       DeprogramFailsStep, UnrecordStep, WithdrawStep, FinishStep, ZenonT(40) DEF RunStep
<1>4. ASSUME NEW c \in Clients, ClientStep(c) PROVE IInv' /\ Kept
  <2>1. UNCHANGED <<ribVars, fib, programmed, resolved, pc, todo, fresh, cur, stale, failed, undone>>
    BY <1>4, ZenonT(40) DEF ClientStep, ClientRegister, HelloReceived, Hello, CopyProgrammed,
                Send, Sent, ClientUnregister, runVars, history
  <2> QED
    BY <2>1, FrameStep, ZenonT(40)
<1>5. CASE UNCHANGED vars
  <2>1. UNCHANGED <<ribVars, fib, programmed, resolved, pc, todo, fresh, cur, stale, failed, undone>>
    BY <1>5, ZenonT(40) DEF vars, runVars, history
  <2> QED
    BY <2>1, FrameStep, ZenonT(40)
<1> QED
  BY <1>2, <1>3, <1>4, <1>5, ZenonT(40) DEF Next

LEMMA RacedStays ==
  ASSUME [Next]_vars, raced
  PROVE  raced'
<1>1. ASSUME NEW p \in Procs, Change(p) PROVE raced'
  BY <1>1, ZenonT(40) DEF Change, SetRoute, SetInterface, SetGUEPolicy, DeleteGUEPolicy, history
<1>2. ASSUME NEW p \in Procs, RunStep(p) PROVE raced'
  BY <1>2, ZenonT(40) DEF RunStep, Begin, Overflow, Unresolvable, Resolve, Check, Program,
       ProgramFails, Record, Distribute, Sweep, SweepWith, Deprogram, DeprogramFails, Unrecord,
       Withdraw, WithdrawNil, Finish, history
<1>3. ASSUME NEW c \in Clients, ClientStep(c) PROVE raced'
  BY <1>3, ZenonT(40) DEF ClientStep, ClientRegister, HelloReceived, Hello, CopyProgrammed,
       Send, Sent, ClientUnregister, history
<1>4. CASE UNCHANGED vars
  BY <1>4, ZenonT(40) DEF vars, history
<1> QED
  BY <1>1, <1>2, <1>3, <1>4, ZenonT(40) DEF Next

\* The inductive invariant holds, whichever dataplane calls fail, until an interface
\* changes during a run of another goroutine.
THEOREM Inductive == Spec => [](~raced => IInv)
<1>1. (~raced => IInv) /\ [Next]_vars => (~raced => IInv)'
  BY NextStep, RacedStays, ZenonT(40)
<1>2. Init => (~raced => IInv)
  BY InitIInv, ZenonT(40)
<1> QED
  BY <1>1, <1>2, PTL DEF Spec

\* When no run is in progress programmedRoutes is what the dataplane has, and if the
\* last run of each goroutine met no failure that is exactly what resolves, however
\* many goroutines changed routes, policies and interfaces and however their runs of
\* ResolveAndProgramDiff overlapped, as long as no interface changed during a run of
\* another goroutine.
THEOREM RunsConverge == Spec => []Converged
<1>1. (~raced => IInv) => Converged
  <2> SUFFICES ASSUME IInv, Quiescent, NEW k \in Prefixes
               PROVE  /\ fib[k] = RouteRequest(programmed[k])
                      /\ (\A p \in Procs : ~failed[p]) => programmed[k] = Resolution(k)
    BY ZenonT(40) DEF Converged, ConvergedAlways
  <2>1. ~Crashed /\ ~Recording(k)
    BY ZenonT(40) DEF Quiescent, Crashed, Crashes, Recording
  <2>2. fib[k] = RouteRequest(programmed[k])
    BY <2>1, ZenonT(40) DEF IInv, Safe, Recorded
  <2>3. (\A p \in Procs : ~failed[p]) => programmed[k] = Resolution(k)
    BY <2>1, ZenonT(40) DEF IInv, Safe, Settled, Quiescent, Cell
  <2> QED
    BY <2>2, <2>3
<1> QED
  BY <1>1, Inductive, PTL

\* The sweep of ResolveAndProgramDiff hands distributeRoute a nil route only for a
\* key that an earlier sweep failed to deprogram, until an interface changes during
\* a run of another goroutine.
THEOREM WithdrawsRealRoutes == Spec => []NoNilRoute
<1>1. (~raced => IInv) => NoNilRoute
  <2> SUFFICES ASSUME IInv, NEW p \in Procs, pc[p] = "withdraw", resolved[cur[p].key] = {}
               PROVE  cur[p].key \in undone
    BY ZenonT(40) DEF NoNilRoute
  <2>1. ~Crashed
    BY ZenonT(40) DEF IInv, CrashStops, Crashes
  <2> QED
    BY <2>1, ZenonT(40) DEF IInv, Safe, Local, Swept
<1> QED
  BY <1>1, Inductive, PTL

\* No run ever touches a route that the dataplane has right, until an interface
\* changes during a run of another goroutine.
THEOREM DiffsAreMinimal == Spec => OnlyDiffsProgrammed
<1>1. (~raced => IInv) /\ [Next]_vars =>
        [~raced' => \A k \in Prefixes : fib'[k] # fib[k] => fib[k] # RouteRequest(Resolution(k))]_vars
  BY NextStep, RacedStays, ZenonT(40) DEF Kept
<1> QED
  BY <1>1, Inductive, PTL DEF Spec, OnlyDiffsProgrammed

(***************************************************************************)
(* What the clients are told                                               *)
(***************************************************************************)

OfKey(routes, k) == \A r \in routes : r \in Routes /\ r.prefix = k

\* A goroutine about to tell the clients of a key has recorded it.
Keyed(p) ==
  /\ pc[p] \in Programming \cup {"distribute"} => OfKey({cur[p].route}, cur[p].key)
  /\ pc[p] \in {"distribute", "withdraw"} => cur[p].key \in Prefixes /\ Cell(cur[p].key)
Telling(k) == \E p \in Procs : pc[p] \in {"distribute", "withdraw"} /\ cur[p].key = k

\* A client that is not being answered knows the programmed gateways of a key, or
\* is about to be told; before its first answer it may know nothing of the key.
Heard(c, k) ==
  conn[c] \in {"registered", "hello", "ready"} =>
    \/ Telling(k) \/ view[c][k] = Gates(programmed[k])
    \/ conn[c] # "ready" /\ view[c][k] = {}

\* One that is being answered, with no run in progress, is sent what it lacks.
Answering(c, k) ==
  conn[c] \in Joining =>
    /\ Quiet /\ k \notin undone
    /\ view[c][k] = Gates(programmed[k]) \/ view[c][k] = {}
    /\ conn[c] = "resolved" => snap[c][k] = resolved[k]
    /\ conn[c] = "sending" =>
         out[c][k] = Gates(programmed[k]) \/ (out[c][k] = {} /\ view[c][k] = Gates(programmed[k]))

Told(c, k) ==
  /\ conn[c] = "off" => view[c][k] = {}
  /\ ~Shared(k) => view[c][k] = {} /\ out[c][k] = {}
  /\ Shared(k) /\ Agreeing(k) /\ k \notin missed[c] => Heard(c, k) /\ Answering(c, k)

Wired ==
  /\ DOMAIN view = Clients /\ DOMAIN conn = Clients /\ DOMAIN snap = Clients
  /\ DOMAIN out = Clients /\ DOMAIN missed = Clients
  /\ \A c \in Clients : DOMAIN view[c] = Prefixes /\ DOMAIN out[c] = Prefixes

Sync ==
  /\ Wired
  /\ \A k \in Prefixes : /\ OfKey(resolved[k], k)
                         /\ \A p \in Procs : OfKey(fresh[p][k], k)
                         /\ \A c \in Clients : OfKey(snap[c][k], k)
  /\ ~Crashed => /\ \A p \in Procs : Keyed(p)
                 /\ \A c \in Clients, k \in Prefixes : Told(c, k)

\* The longest match of a prefix that has routes of its own is that prefix, so
\* the top-level route of a key is one of the key's.
LEMMA EgressOfKey ==
  ASSUME rib \subseteq Routes, NEW k \in Prefixes, \E r \in rib : r.prefix = k
  PROVE  OfKey(Egress(k).route, k)
<1> DEFINE keys == {r.prefix : r \in rib}
<1>1. ASSUME NEW o \in Prefixes
      PROVE  o = <<o[1], o[2]>> /\ o[1] \in Int /\ o[2] \in Int
  BY RoutesAssumption DEF Prefixes
<1>2. keys \subseteq Prefixes /\ k \in keys
  BY RoutesAssumption DEF RouteType
<1>3. Covers(k, k)
  <2>1. k[1] \in Int /\ k[2] \in Int
    BY <1>1, ZenonT(40)
  <2>2. \A v, len \in Int : len <= len /\ v \div 2^(len - len) = v
    <3>1. \A len \in Int : len - len = 0
      OBVIOUS
    <3>2. 2^0 = 1 /\ \A v \in Int : v \div 1 = v
      OBVIOUS
    <3> QED
      BY <3>1, <3>2
  <2> QED
    BY <2>1, <2>2, Zenon DEF Covers
<1>4. ASSUME NEW o \in Deepest(keys, k) PROVE o = k
  <2>1. o \in keys /\ Covers(o, k) /\ k[2] <= o[2]
    BY <1>2, <1>3, ZenonT(40) DEF Deepest
  <2>2. o \in Prefixes
    BY <1>2, <2>1, ZenonT(40)
  <2>3. o[2] = k[2]
    BY <1>1, <2>1, <2>2 DEF Covers
  <2>4. o[1] = k[1]
    BY <1>3, <2>1, <2>3, ZenonT(40) DEF Covers
  <2> QED
    BY <1>1, <2>2, <2>3, <2>4, ZenonT(40)
<1>5. OfKey(entryForCIDR(rib, k), k)
  BY <1>4, ZenonT(40) DEF OfKey, entryForCIDR
<1>6. ASSUME NEW sub
      PROVE  ResolveEntries(rib, interfaces, policies, k, sub).route \subseteq entryForCIDR(rib, k)
  BY ZenonT(40) DEF ResolveEntries, BestEntries, Result, Unresolved
<1>7. Egress(k).route \subseteq entryForCIDR(rib, k)
  BY <1>6, ZenonT(40) DEF Egress, EgressNexthops
<1> QED
  BY <1>5, <1>7, ZenonT(40) DEF OfKey

LEMMA SharedRoutes ==
  ASSUME NEW k, Agreeing(k), NEW r, OfKey({r}, k)
  PROVE  Redistributed(r) <=> Shared(k)
BY ZenonT(40) DEF Agreeing, OfKey, Shared

LEMMA InitSync ==
  ASSUME Init
  PROVE  Sync
<1>1. Wired
  BY ZenonT(40) DEF Init, None, Wired
<1>2. \A k \in Prefixes : /\ OfKey(resolved[k], k)
                          /\ \A p \in Procs : OfKey(fresh[p][k], k)
                          /\ \A c \in Clients : OfKey(snap[c][k], k)
  BY ZenonT(40) DEF Init, None, OfKey
<1>3. \A p \in Procs : Keyed(p)
  BY ZenonT(40) DEF Init, Keyed, Programming
<1>4. ASSUME NEW c \in Clients, NEW k \in Prefixes PROVE Told(c, k)
  <2>1. conn[c] = "off" /\ view[c][k] = {} /\ out[c][k] = {}
    BY ZenonT(40) DEF Init, None
  <2> QED
    BY <2>1, ZenonT(40) DEF Told, Heard, Answering, Joining
<1> QED
  BY <1>1, <1>2, <1>3, <1>4, ZenonT(40) DEF Sync

\* A client being answered during a run has missed changes.
Apart ==
  \A c \in Clients : \A k \in Prefixes \ missed'[c] :
    k \notin missed[c] /\ (Quiet => conn[c] \notin Joining)

\* What a step of goroutine p has to establish of itself, of the keys it looked
\* up and of what the clients are told.
LEMMA SyncFrame ==
  ASSUME Sync, ~Crashed, NEW p \in Procs, Kept, Others(p), UNCHANGED <<conn, snap, out>>,
         DOMAIN view' = Clients, \A c \in Clients : DOMAIN view'[c] = Prefixes,
         DOMAIN missed' = Clients,
         \A k \in Prefixes : OfKey(resolved'[k], k) /\ OfKey(fresh'[p][k], k),
         Keyed(p)', \A c \in Clients, k \in Prefixes : Told(c, k)'
  PROVE  Sync'
<1>1. \A q \in Procs : Keyed(q)'
  <2> SUFFICES ASSUME NEW q \in Procs, q # p PROVE Keyed(q)'
    BY ZenonT(40)
  <2>1. pc'[q] = pc[q] /\ cur'[q] = cur[q] /\ Keyed(q)
    BY ZenonT(40) DEF Others, Sync
  <2>2. cur[q].key \in Prefixes /\ Cell(cur[q].key) => Cell(cur[q].key)'
    BY <2>1, ZenonT(40) DEF Kept, Cell
  <2> QED
    BY <2>1, <2>2, ZenonT(40) DEF Keyed
<1>2. \A k \in Prefixes : /\ \A q \in Procs : OfKey(fresh'[q][k], k)
                          /\ \A c \in Clients : OfKey(snap'[c][k], k)
  BY ZenonT(40) DEF Others, Sync
<1>3. Wired'
  BY ZenonT(40) DEF Sync, Wired
<1> QED
  BY <1>1, <1>2, <1>3, ZenonT(40) DEF Sync

\* A client for which neither what it was told of a key nor the record changes.
LEMMA StillTold ==
  ASSUME Sync, ~Crashed, UNCHANGED <<conn, out>>, Apart,
         NEW c \in Clients, NEW k \in Prefixes, view'[c][k] = view[c][k],
         Telling(k) /\ Heard(c, k) => Telling(k)' \/ Heard(c, k)',
         programmed'[k] = programmed[k] \/ Telling(k)'
  PROVE  Told(c, k)'
<1>1. Told(c, k)
  BY ZenonT(40) DEF Sync
<1>2. conn[c] = "off" => view'[c][k] = {}
  BY <1>1, ZenonT(40) DEF Told
<1>3. ~Shared(k) => view'[c][k] = {} /\ out'[c][k] = {}
  BY <1>1, ZenonT(40) DEF Told
<1>4. ASSUME Shared(k), Agreeing(k), k \notin missed'[c] PROVE Heard(c, k)' /\ Answering(c, k)'
  <2>1. Heard(c, k) /\ Answering(c, k) /\ (Quiet => conn[c] \notin Joining)
    BY <1>1, <1>4, ZenonT(40) DEF Told, Apart
  <2>2. conn[c] \notin Joining
    BY <2>1, ZenonT(40) DEF Answering
  <2>3. Heard(c, k)'
    <3>1. CASE Telling(k)'
      BY <3>1, ZenonT(40) DEF Heard
    <3>2. CASE ~Telling(k)' /\ Telling(k)
      BY <2>1, <3>2, ZenonT(40)
    <3>3. CASE ~Telling(k)' /\ ~Telling(k)
      BY <2>1, <3>3, ZenonT(40) DEF Heard
    <3> QED
      BY <3>1, <3>2, <3>3
  <2> QED
    BY <2>2, <2>3, ZenonT(40) DEF Answering
<1> QED
  BY <1>2, <1>3, <1>4, ZenonT(40) DEF Told, Shared, Agreeing

LEMMA ToldKept ==
  ASSUME Sync, ~Crashed, NEW p \in Procs, Others(p), Apart,
         UNCHANGED <<view, programmed, conn, out>>,
         pc[p] \notin {"distribute", "withdraw"}
  PROVE  /\ DOMAIN view' = Clients /\ (\A c \in Clients : DOMAIN view'[c] = Prefixes)
         /\ \A c \in Clients, k \in Prefixes : Told(c, k)'
<1>1. \A k \in Prefixes : Telling(k) => Telling(k)'
  BY ZenonT(40) DEF Telling, Others
<1>2. \A c \in Clients, k \in Prefixes : Told(c, k)'
  BY <1>1, StillTold, ZenonT(40)
<1> QED
  BY <1>2, ZenonT(40) DEF Sync, Wired

LEMMA RunApart ==
  ASSUME NEW p \in Procs, pc[p] \in Running, UNCHANGED missed
  PROVE  Apart
BY ZenonT(40) DEF Apart, Quiet, Running, Sweeping

\* Looking a key up, and programming it.
LEMMA ResolveSync ==
  ASSUME IInv, Sync, ~Crashed, NEW p \in Procs, Resolve(p)
  PROVE  Sync'
<1>s. Shape /\ Safe /\ Local(p)
  BY ZenonT(40) DEF IInv, Safe
<1>k. Kept
  BY ResolveStep, ZenonT(40)
<1>a. /\ pc[p] = "resolve" /\ pc' = [pc EXCEPT ![p] = "check"]
      /\ UNCHANGED <<programmed, resolved, stale, failed, conn, snap, out, view, missed>>
  BY ZenonT(40) DEF Resolve, Goto, connVars, history
<1>b. PICK j \in todo[p] : \E r \in Egress(j).route :
       /\ todo' = [todo EXCEPT ![p] = @ \ {j}]
       /\ fresh' = [fresh EXCEPT ![p][j] = {r}]
       /\ cur' = [cur EXCEPT ![p] = [key |-> j, nhs |-> Egress(j).nhs, route |-> r]]
  BY ZenonT(40) DEF Resolve
<1>j. PICK r \in Egress(j).route :
       /\ todo' = [todo EXCEPT ![p] = @ \ {j}]
       /\ fresh' = [fresh EXCEPT ![p][j] = {r}]
       /\ cur' = [cur EXCEPT ![p] = [key |-> j, nhs |-> Egress(j).nhs, route |-> r]]
  BY <1>b, Zenon
<1>c. OfKey({r}, j)
  <2>1. j \in Prefixes
    BY <1>s, ZenonT(40) DEF Shape
  <2>2. \E s \in rib : s.prefix = j
    BY <1>s, <1>a, <2>1, ZenonT(40) DEF Local, Visited, Running
  <2> QED
    BY <1>s, <2>1, <2>2, EgressOfKey, ZenonT(40) DEF Shape, OfKey
<1>o. Others(p)
  BY <1>s, <1>a, <1>j, ZenonT(40) DEF Shape, Others
<1>1. \A k \in Prefixes : OfKey(resolved'[k], k) /\ OfKey(fresh'[p][k], k)
  <2>1. \A k \in Prefixes : fresh'[p][k] = IF k = j THEN {r} ELSE fresh[p][k]
    BY <1>s, <1>j, ZenonT(40) DEF Shape
  <2> QED
    BY <1>a, <1>c, <2>1, ZenonT(40) DEF Sync
<1>2. Keyed(p)'
  <2>1. pc'[p] = "check" /\ cur'[p].route = r /\ cur'[p].key = j
    BY <1>s, <1>a, <1>j, ZenonT(40) DEF Shape
  <2> QED
    BY <1>c, <2>1, ZenonT(40) DEF Keyed
<1>3. Apart /\ DOMAIN missed' = Clients
  BY <1>a, RunApart, ZenonT(40) DEF Running, Sync, Wired
<1> QED
  BY <1>k, <1>a, <1>o, <1>1, <1>2, <1>3, SyncFrame, ToldKept, ZenonT(40)

\* Steps of a run that neither look a key up, record it nor tell the clients.
LEMMA SilentSync ==
  ASSUME IInv, Sync, ~Crashed, NEW p \in Procs, Kept, Others(p),
         UNCHANGED <<programmed, resolved, fresh, conn, snap, out, view>>,
         Apart, DOMAIN missed' = Clients, pc[p] \notin {"distribute", "withdraw"},
         \/ pc'[p] \notin Programming \cup {"distribute", "withdraw"}
         \/ pc[p] \in Programming /\ pc'[p] \in Programming /\ cur'[p] = cur[p]
  PROVE  Sync'
<1>1. Keyed(p)'
  BY ZenonT(40) DEF Keyed, Sync, Programming
<1>2. \A k \in Prefixes : OfKey(resolved'[k], k) /\ OfKey(fresh'[p][k], k)
  BY ZenonT(40) DEF Sync
<1> QED
  BY <1>1, <1>2, SyncFrame, ToldKept, ZenonT(40)

LEMMA QuietSteps ==
  ASSUME IInv, Sync, ~Crashed, NEW p \in Procs,
         \/ Begin(p) \/ Unresolvable(p) \/ Check(p) \/ Program(p) \/ ProgramFails(p)
         \/ Sweep(p) \/ Deprogram(p) \/ DeprogramFails(p)
  PROVE  Sync'
<1>s. Shape
  BY ZenonT(40) DEF IInv
<1>m. UNCHANGED missed /\ pc[p] \in Running => Apart /\ DOMAIN missed' = Clients
  BY RunApart, ZenonT(40) DEF Sync, Wired
<1> USE DEF runVars, connVars, history, Goto, Programming, Shape, Others
<1>1. CASE Begin(p)
  <2>1. /\ pc' = [pc EXCEPT ![p] = "resolve"] /\ pc[p] = "start"
        /\ UNCHANGED <<programmed, resolved, fresh, conn, snap, out, view>>
        /\ missed' = [c \in Clients |-> IF conn[c] \in Joining THEN Prefixes ELSE missed[c]]
    BY <1>1, ZenonT(40) DEF Begin
  <2>2. Others(p)
    BY <1>s, <1>1, ZenonT(40) DEF Begin
  <2>3. Apart /\ DOMAIN missed' = Clients
    BY <2>1, ZenonT(40) DEF Apart
  <2> QED
    BY <1>s, <1>1, <2>1, <2>2, <2>3, BeginStep, SilentSync, ZenonT(40)
<1>2. CASE Unresolvable(p)
  <2>1. /\ pc' = pc /\ pc[p] = "resolve"
        /\ UNCHANGED <<programmed, resolved, fresh, conn, snap, out, view, missed>>
    BY <1>2, ZenonT(40) DEF Unresolvable
  <2>2. Others(p)
    BY <1>s, <1>2, ZenonT(40) DEF Unresolvable
  <2>4. Apart /\ DOMAIN missed' = Clients
    BY <1>m, <2>1, ZenonT(40) DEF Running, Sweeping
  <2> QED
    BY <1>s, <1>2, <2>1, <2>2, <2>4, UnresolvableStep, SilentSync, ZenonT(40)
<1>3. CASE Check(p)
  <2>1. /\ \/ pc' = [pc EXCEPT ![p] = "program"]
           \/ pc' = [pc EXCEPT ![p] = "resolve"]
        /\ pc[p] = "check"
        /\ UNCHANGED <<programmed, resolved, fresh, cur, conn, snap, out, view, missed>>
    BY <1>3, ZenonT(40) DEF Check
  <2>2. Others(p)
    BY <1>s, <1>3, ZenonT(40) DEF Check
  <2>3. pc'[p] \in {"program", "resolve"}
    BY <1>s, <2>1, ZenonT(40)
  <2>4. Apart /\ DOMAIN missed' = Clients
    BY <1>m, <2>1, ZenonT(40) DEF Running, Sweeping
  <2> QED
    BY <1>s, <1>3, <2>1, <2>2, <2>3, <2>4, CheckStep, SilentSync, ZenonT(40)
<1>4. CASE Program(p)
  <2>1. /\ pc' = [pc EXCEPT ![p] = "record"] /\ pc[p] = "program"
        /\ UNCHANGED <<programmed, resolved, fresh, cur, conn, snap, out, view, missed>>
    BY <1>4, ZenonT(40) DEF Program
  <2>2. Others(p)
    BY <1>s, <1>4, ZenonT(40) DEF Program
  <2>4. Apart /\ DOMAIN missed' = Clients
    BY <1>m, <2>1, ZenonT(40) DEF Running, Sweeping
  <2> QED
    BY <1>s, <1>4, <2>1, <2>2, <2>4, ProgramStep, SilentSync, ZenonT(40)
<1>5. CASE ProgramFails(p)
  <2>1. /\ pc' = [pc EXCEPT ![p] = "resolve"] /\ pc[p] = "program"
        /\ UNCHANGED <<programmed, resolved, fresh, conn, snap, out, view, missed>>
    BY <1>5, ZenonT(40) DEF ProgramFails
  <2>2. Others(p)
    BY <1>s, <1>5, ZenonT(40) DEF ProgramFails
  <2>4. Apart /\ DOMAIN missed' = Clients
    BY <1>m, <2>1, ZenonT(40) DEF Running, Sweeping
  <2> QED
    BY <1>s, <1>5, <2>1, <2>2, <2>4, ProgramFailsStep, SilentSync, ZenonT(40)
<1>6. CASE Sweep(p)
  <2>1. /\ pc' = [pc EXCEPT ![p] = "sweep"] /\ pc[p] = "resolve"
        /\ UNCHANGED <<programmed, resolved, fresh, conn, snap, out, view, missed>>
    BY <1>6, ZenonT(40) DEF Sweep, SweepWith
  <2>2. Others(p)
    BY <1>s, <1>6, ZenonT(40) DEF Sweep, SweepWith
  <2>4. Apart /\ DOMAIN missed' = Clients
    BY <1>m, <2>1, ZenonT(40) DEF Running, Sweeping
  <2> QED
    BY <1>s, <1>6, <2>1, <2>2, <2>4, SweepStep, SilentSync, ZenonT(40)
<1>7. CASE Deprogram(p)
  <2>1. /\ pc' = [pc EXCEPT ![p] = "unrecord"] /\ pc[p] = "sweep"
        /\ UNCHANGED <<programmed, resolved, fresh, conn, snap, out, view, missed>>
    BY <1>7, ZenonT(40) DEF Deprogram
  <2>2. Others(p)
    BY <1>s, <1>7, ZenonT(40) DEF Deprogram
  <2>4. Apart /\ DOMAIN missed' = Clients
    BY <1>m, <2>1, ZenonT(40) DEF Running, Sweeping
  <2> QED
    BY <1>s, <1>7, <2>1, <2>2, <2>4, DeprogramStep, SilentSync, ZenonT(40)
<1>8. CASE DeprogramFails(p)
  <2>1. /\ pc' = pc /\ pc[p] = "sweep"
        /\ UNCHANGED <<programmed, resolved, fresh, conn, snap, out, view, missed>>
    BY <1>8, ZenonT(40) DEF DeprogramFails
  <2>2. Others(p)
    BY <1>s, <1>8, ZenonT(40) DEF DeprogramFails
  <2>4. Apart /\ DOMAIN missed' = Clients
    BY <1>m, <2>1, ZenonT(40) DEF Running, Sweeping
  <2> QED
    BY <1>s, <1>8, <2>1, <2>2, <2>4, DeprogramFailsStep, SilentSync, ZenonT(40)
<1> QED
  BY <1>1, <1>2, <1>3, <1>4, <1>5, <1>6, <1>7, <1>8, ZenonT(40)

\* Once a key is recorded its goroutine is about to tell the clients.
LEMMA RecordedSync ==
  ASSUME Sync, ~Crashed, NEW p \in Procs, Kept, Others(p), NEW k \in Prefixes,
         UNCHANGED <<resolved, fresh, cur, conn, snap, out, view, missed>>,
         cur[p].key = k, Cell(k)',
         \/ pc[p] = "record" /\ pc'[p] = "distribute"
         \/ pc[p] = "unrecord" /\ pc'[p] = "withdraw",
         \A j \in Prefixes \ {k} : programmed'[j] = programmed[j]
  PROVE  Sync'
<1>1. Keyed(p)'
  <2>1. cur'[p].key = k
    BY ZenonT(40)
  <2>2. pc[p] = "record" => OfKey({cur[p].route}, k)
    BY ZenonT(40) DEF Sync, Keyed, Programming
  <2>3. Cell(cur[p].key)'
    BY <2>1, ZenonT(40)
  <2> QED
    BY <2>1, <2>2, <2>3, ZenonT(40) DEF Keyed, Programming
<1>a. Apart /\ DOMAIN missed' = Clients
  BY RunApart, ZenonT(40) DEF Running, Sweeping, Sync, Wired
<1>2. ASSUME NEW c \in Clients, NEW j \in Prefixes PROVE Told(c, j)'
  <2>1. CASE j = k
    <3>1. Telling(j)'
      BY <2>1, ZenonT(40) DEF Telling
    <3> QED
      BY <1>a, <3>1, StillTold, ZenonT(40)
  <2>2. CASE j # k
    <3>1. Telling(j) => Telling(j)'
      BY <2>2, ZenonT(40) DEF Telling, Others
    <3> QED
      BY <1>a, <2>2, <3>1, StillTold, ZenonT(40)
  <2> QED
    BY <2>1, <2>2, ZenonT(40)
<1>3. \A j \in Prefixes : OfKey(resolved'[j], j) /\ OfKey(fresh'[p][j], j)
  BY ZenonT(40) DEF Sync
<1>4. DOMAIN view' = Clients /\ \A c \in Clients : DOMAIN view'[c] = Prefixes
  BY ZenonT(40) DEF Sync, Wired
<1> QED
  BY <1>a, <1>1, <1>2, <1>3, <1>4, SyncFrame, ZenonT(40)

LEMMA RecordSync ==
  ASSUME IInv, Sync, ~Crashed, NEW p \in Procs, Record(p) \/ Unrecord(p)
  PROVE  Sync'
<1>s. Shape /\ Safe /\ Local(p)
  BY ZenonT(40) DEF IInv, Safe
<1>k. Kept
  BY RecordStep, UnrecordStep, ZenonT(40)
<1>a. /\ UNCHANGED <<fib, resolved, todo, fresh, cur, stale, failed, conn, snap, out, view, missed>>
      /\ \/ /\ pc[p] = "record" /\ pc' = [pc EXCEPT ![p] = "distribute"]
            /\ programmed' = [programmed EXCEPT ![cur[p].key] = cur[p].nhs]
         \/ /\ pc[p] = "unrecord" /\ pc' = [pc EXCEPT ![p] = "withdraw"]
            /\ programmed' = [programmed EXCEPT ![cur[p].key] = {}]
  BY ZenonT(40) DEF Record, Unrecord, Goto, runVars, connVars, history
<1>o. Others(p)
  BY <1>s, <1>a, ZenonT(40) DEF Shape, Others
<1>p. PICK k : k = cur[p].key
  BY ZenonT(40)
<1>h. /\ k \in Prefixes /\ fib[k] = RouteRequest(Resolution(k))
      /\ pc[p] = "record" => cur[p].nhs = Resolution(k)
      /\ pc[p] = "unrecord" => Resolution(k) = {}
  BY <1>s, <1>a, <1>p, ZenonT(40) DEF Local, InHand, Swept, Programming
<1>f. programmed'[k] = Resolution(k) /\ \A j \in Prefixes \ {k} : programmed'[j] = programmed[j]
  BY <1>s, <1>a, <1>p, <1>h, ZenonT(40) DEF Shape
<1>c. Cell(k)'
  BY <1>a, <1>k, <1>h, <1>f, ZenonT(40) DEF Cell, Kept
<1>l. \/ pc[p] = "record" /\ pc'[p] = "distribute"
      \/ pc[p] = "unrecord" /\ pc'[p] = "withdraw"
  BY <1>s, <1>a, ZenonT(40) DEF Shape
<1> QED
  BY <1>k, <1>a, <1>o, <1>p, <1>h, <1>f, <1>c, <1>l, RecordedSync, ZenonT(40)

\* Telling the clients what is recorded.
LEMMA ToldSync ==
  ASSUME Sync, ~Crashed, NEW p \in Procs, Kept, Others(p), NEW k \in Prefixes,
         UNCHANGED <<programmed, resolved, fresh, cur, conn, snap, out, missed>>, cur[p].key = k,
         pc[p] \in {"distribute", "withdraw"}, pc'[p] \in {"resolve", "sweep"},
         NEW r, OfKey({r}, k),
         Tell(IF Redistributed(r) THEN ClientMap ELSE {}, k, Gates(programmed[k]))
  PROVE  Sync'
<1>1. Keyed(p)'
  BY ZenonT(40) DEF Keyed, Programming
<1>a. Apart /\ DOMAIN missed' = Clients
  BY RunApart, ZenonT(40) DEF Running, Sweeping, Sync, Wired
<1>2. Redistributed(r) => Shared(k)
  BY ZenonT(40) DEF OfKey, Shared
<1>3. Agreeing(k) => (Redistributed(r) <=> Shared(k))
  BY SharedRoutes, ZenonT(40)
<1>4. /\ DOMAIN view' = Clients /\ (\A c \in Clients : DOMAIN view'[c] = Prefixes)
      /\ \A c \in Clients : Redistributed(r) /\ conn[c] # "off" => view'[c][k] = Gates(programmed[k])
      /\ \A c \in Clients : ~(Redistributed(r) /\ conn[c] # "off") => view'[c][k] = view[c][k]
      /\ \A c \in Clients, j \in Prefixes \ {k} : view'[c][j] = view[c][j]
  BY ZenonT(40) DEF Tell, Sync, Wired, ClientMap
<1>5. ASSUME NEW c \in Clients, NEW j \in Prefixes PROVE Told(c, j)'
  <2>1. CASE j # k
    <3>1. Telling(j) => Telling(j)'
      BY <2>1, ZenonT(40) DEF Telling, Others
    <3> QED
      BY <1>a, <1>4, <2>1, <3>1, StillTold, ZenonT(40)
  <2>2. CASE j = k
    <3>1. Told(c, k)
      BY ZenonT(40) DEF Sync
    <3>2. conn[c] = "off" => view'[c][k] = {}
      BY <1>4, <3>1, ZenonT(40) DEF Told
    <3>3. ~Shared(k) => view'[c][k] = {} /\ out'[c][k] = {}
      BY <1>2, <1>4, <3>1, ZenonT(40) DEF Told
    <3>4. ASSUME Shared(k), Agreeing(k), k \notin missed'[c]
          PROVE  Heard(c, k)' /\ Answering(c, k)'
      <4>1. Answering(c, k) /\ (Quiet => conn[c] \notin Joining)
        BY <1>a, <3>1, <3>4, ZenonT(40) DEF Told, Apart
      <4>2. conn'[c] \notin Joining
        BY <4>1, ZenonT(40) DEF Answering
      <4>3. conn'[c] # "off" => view'[c][k] = Gates(programmed'[k])
        BY <1>3, <1>4, <3>4, ZenonT(40)
      <4> QED
        BY <4>2, <4>3, ZenonT(40) DEF Heard, Answering
    <3> QED
      BY <2>2, <3>2, <3>3, <3>4, ZenonT(40) DEF Told, Shared, Agreeing
  <2> QED
    BY <2>1, <2>2, ZenonT(40)
<1>6. \A j \in Prefixes : OfKey(resolved'[j], j) /\ OfKey(fresh'[p][j], j)
  BY ZenonT(40) DEF Sync
<1> QED
  BY <1>a, <1>1, <1>4, <1>5, <1>6, SyncFrame, ZenonT(40)

LEMMA TellSync ==
  ASSUME IInv, Sync, ~Crashed, NEW p \in Procs, Distribute(p) \/ Withdraw(p)
  PROVE  Sync'
<1>s. Shape /\ Safe /\ Local(p) /\ Keyed(p)
  BY ZenonT(40) DEF IInv, Safe, Sync
<1>k. Kept
  BY DistributeStep, WithdrawStep, ZenonT(40)
<1>p. PICK k : k = cur[p].key
  BY ZenonT(40)
<1>1. CASE Distribute(p)
  <2>1. /\ pc[p] = "distribute" /\ pc' = [pc EXCEPT ![p] = "resolve"]
        /\ UNCHANGED <<programmed, resolved, todo, fresh, cur, stale, failed, conn, snap, out, missed>>
        /\ Tell(IF Redistributed(cur[p].route) THEN ClientMap ELSE {}, k, Gates(cur[p].nhs))
    BY <1>1, <1>p, ZenonT(40) DEF Distribute, Goto, runVars, connVars, history
  <2>2. /\ k \in Prefixes /\ OfKey({cur[p].route}, k)
        /\ cur[p].nhs = Resolution(k) /\ programmed[k] = Resolution(k)
    BY <1>s, <1>p, <2>1, ZenonT(40) DEF Keyed, Cell, Local, InHand
  <2>3. Others(p) /\ pc'[p] = "resolve"
    BY <1>s, <2>1, ZenonT(40) DEF Shape, Others
  <2>4. Tell(IF Redistributed(cur[p].route) THEN ClientMap ELSE {}, k, Gates(programmed[k]))
    BY <2>1, <2>2, ZenonT(40)
  <2> QED
    BY <1>k, <1>p, <2>1, <2>2, <2>3, <2>4, ToldSync, ZenonT(40)
<1>2. CASE Withdraw(p)
  <2>1. /\ pc[p] = "withdraw" /\ pc' = [pc EXCEPT ![p] = "sweep"]
        /\ UNCHANGED <<programmed, resolved, todo, fresh, cur, stale, failed, conn, snap, out, missed>>
    BY <1>2, ZenonT(40) DEF Withdraw, Goto, runVars, connVars, history
  <2>2. PICK r \in resolved[k] : Tell(IF Redistributed(r) THEN ClientMap ELSE {}, k, {})
    BY <1>2, <1>p, Zenon DEF Withdraw
  <2>3. k \in Prefixes /\ programmed[k] = {}
    BY <1>s, <1>p, <2>1, ZenonT(40) DEF Keyed, Cell, Local, Swept
  <2>4. OfKey({r}, k)
    BY <2>2, <2>3, ZenonT(40) DEF Sync, OfKey
  <2>5. Others(p) /\ pc'[p] = "sweep"
    BY <1>s, <2>1, ZenonT(40) DEF Shape, Others
  <2>6. Tell(IF Redistributed(r) THEN ClientMap ELSE {}, k, Gates(programmed[k]))
    <3>1. Gates(programmed[k]) = {}
      BY <2>3, ZenonT(40) DEF Gates
    <3> QED
      BY <2>2, <3>1, ZenonT(40)
  <2> QED
    BY <1>k, <1>p, <2>1, <2>3, <2>4, <2>5, <2>6, ToldSync, ZenonT(40)
<1> QED
  BY <1>1, <1>2, ZenonT(40)

LEMMA FinishSync ==
  ASSUME IInv, Sync, ~Crashed, NEW p \in Procs, Finish(p)
  PROVE  Sync'
<1>s. Shape
  BY ZenonT(40) DEF IInv
<1>a. /\ pc[p] = "sweep" /\ pc' = [pc EXCEPT ![p] = "idle"]
      /\ resolved' = fresh[p] /\ fresh' = [fresh EXCEPT ![p] = None]
      /\ cur' = [cur EXCEPT ![p] = <<>>]
      /\ UNCHANGED <<programmed, todo, stale, failed, conn, snap, out, view, missed>>
  BY ZenonT(40) DEF Finish, Goto, connVars
<1>o. Others(p) /\ pc'[p] = "idle"
  BY <1>s, <1>a, ZenonT(40) DEF Shape, Others
<1>1. \A k \in Prefixes : OfKey(resolved'[k], k) /\ OfKey(fresh'[p][k], k)
  <2>1. \A k \in Prefixes : fresh'[p][k] = {}
    BY <1>s, <1>a, ZenonT(40) DEF Shape, None
  <2> QED
    BY <1>a, <2>1, ZenonT(40) DEF Sync, OfKey
<1>2. Keyed(p)'
  BY <1>o, ZenonT(40) DEF Keyed, Programming
<1>3. Apart /\ DOMAIN missed' = Clients
  BY <1>a, RunApart, ZenonT(40) DEF Running, Sweeping, Sync, Wired
<1> QED
  BY <1>a, <1>o, <1>1, <1>2, <1>3, FinishStep, SyncFrame, ToldKept, ZenonT(40)

LEMMA ChangeSync ==
  ASSUME IInv, Sync, ~raced', ~Crashed, NEW p \in Procs, Change(p)
  PROVE  Sync'
<1>s. Shape
  BY ZenonT(40) DEF IInv
<1>1. /\ UNCHANGED <<programmed, resolved, fresh, cur, conn, snap, out, view, undone, missed>>
      /\ Goto(p, "start")
  <2>1. CASE \E r \in Routes, isDelete \in BOOLEAN : SetRoute(p, r, isDelete)
    BY <2>1, ZenonT(40) DEF SetRoute, runVars, connVars, history
  <2>2. CASE \E i \in Interfaces, enabled \in BOOLEAN : SetInterface(p, i, enabled)
    BY <2>2, ZenonT(40) DEF SetInterface, runVars, connVars
  <2>3. CASE \E q \in Policies : SetGUEPolicy(p, q) \/ DeleteGUEPolicy(p, q)
    BY <2>3, ZenonT(40) DEF SetGUEPolicy, DeleteGUEPolicy, runVars, connVars, history
  <2> QED
    BY <2>1, <2>2, <2>3, ZenonT(40) DEF Change
<1>2. Quiet
  <2>1. NoRun
    BY ChangeBetweenRuns, ZenonT(40)
  <2> QED
    BY <1>s, <2>1, ZenonT(40) DEF NoRun, Crashed, Quiet, Shape
<1>3. Quiet'
  BY <1>s, <1>1, <1>2, ZenonT(40) DEF Goto, Quiet, Shape
<1>4. \A q \in Procs : Keyed(q)'
  BY <1>3, ZenonT(40) DEF Quiet, Keyed, Programming
<1>5. ASSUME NEW c \in Clients, NEW k \in Prefixes PROVE Told(c, k)'
  <2>1. Told(c, k) /\ ~Telling(k)
    BY <1>2, ZenonT(40) DEF Sync, Telling, Quiet
  <2>2. Heard(c, k) => Heard(c, k)'
    BY <1>1, <2>1, ZenonT(40) DEF Heard
  <2>3. Answering(c, k) => Answering(c, k)'
    BY <1>1, <1>3, ZenonT(40) DEF Answering
  <2> QED
    BY <1>1, <2>1, <2>2, <2>3, ZenonT(40) DEF Told, Shared, Agreeing
<1> QED
  BY <1>1, <1>4, <1>5, ZenonT(40) DEF Sync, Wired

LEMMA CrashSync ==
  ASSUME Sync, NEW p \in Procs, Overflow(p) \/ WithdrawNil(p)
  PROVE  Sync'
<1>1. PICK why \in Crashes :
      /\ UNCHANGED <<resolved, fresh, view, snap, out, missed>> /\ pc' = [q \in Procs |-> why]
      /\ conn' = [c \in Clients |-> "crashed"]
  BY ZenonT(40) DEF Overflow, WithdrawNil, Crash, Crashes, runVars, history
<1>2. Crashed'
  BY <1>1, ZenonT(40) DEF Crashed
<1> QED
  BY <1>1, <1>2, ZenonT(40) DEF Sync, Wired

LEMMA SnapKeyed ==
  ASSUME Sync, NEW c \in Clients, NEW k \in Prefixes
  PROVE  OfKey(snap[c][k], k)
BY ZenonT(40) DEF Sync

\* What a step of client c has to establish of itself.
LEMMA ClientFrame ==
  ASSUME Sync, NEW c \in Clients, Wired',
         UNCHANGED <<ribVars, fib, programmed, resolved, pc, fresh, cur, undone>>,
         \A d \in Clients \ {c} : /\ conn'[d] = conn[d] /\ snap'[d] = snap[d] /\ out'[d] = out[d]
                                  /\ view'[d] = view[d] /\ missed'[d] = missed[d],
         \A k \in Prefixes : OfKey(snap'[c][k], k),
         ~Crashed => \A k \in Prefixes : Told(c, k)'
  PROVE  Sync'
<1>1. \A k \in Prefixes : Cell(k) => Cell(k)'
  BY SameResolution, ZenonT(40) DEF Cell
<1>2. Crashed' <=> Crashed
  BY ZenonT(40) DEF Crashed
<1>3. ASSUME NEW d \in Clients \ {c}, NEW k \in Prefixes, Told(d, k) PROVE Told(d, k)'
  <2>1. Heard(d, k) => Heard(d, k)'
    BY ZenonT(40) DEF Heard, Telling
  <2>2. Answering(d, k) => Answering(d, k)'
    BY ZenonT(40) DEF Answering, Quiet
  <2> QED
    BY <1>3, <2>1, <2>2, ZenonT(40) DEF Told, Shared, Agreeing
<1>4. ASSUME NEW p \in Procs, Keyed(p) PROVE Keyed(p)'
  <2>1. PICK k : k = cur[p].key
    BY ZenonT(40)
  <2>2. k \in Prefixes /\ Cell(k) => Cell(k)'
    BY <1>1, ZenonT(40)
  <2> QED
    BY <1>4, <2>1, <2>2, ZenonT(40) DEF Keyed
<1>5. ASSUME NEW k \in Prefixes
      PROVE  /\ OfKey(resolved'[k], k)
             /\ \A p \in Procs : OfKey(fresh'[p][k], k)
             /\ \A d \in Clients : OfKey(snap'[d][k], k)
  <2>1. OfKey(resolved[k], k) /\ \A p \in Procs : OfKey(fresh[p][k], k)
    BY ZenonT(40) DEF Sync
  <2>2. \A d \in Clients : OfKey(snap'[d][k], k)
    BY SnapKeyed, ZenonT(40)
  <2> QED
    BY <2>1, <2>2, ZenonT(40)
<1> QED
  BY <1>2, <1>3, <1>4, <1>5, ZenonT(40) DEF Sync

\* Connecting, saying Hello, and leaving.
LEMMA ConnectSync ==
  ASSUME Sync, NEW c \in Clients, ClientRegister(c) \/ HelloReceived(c) \/ ClientUnregister(c)
  PROVE  Sync'
<1> USE DEF runVars, history
<1>w. Wired
  BY ZenonT(40) DEF Sync
<1>1. CASE ClientRegister(c) \/ HelloReceived(c)
  <2>1. /\ UNCHANGED <<ribVars, fib, programmed, resolved, pc, fresh, cur, snap, out, view, undone, missed>>
        /\ \/ conn[c] = "off" /\ conn' = [conn EXCEPT ![c] = "registered"]
           \/ conn[c] \in {"registered", "ready"} /\ conn' = [conn EXCEPT ![c] = "hello"]
    BY <1>1, ZenonT(40) DEF ClientRegister, HelloReceived
  <2>2. /\ \/ conn[c] = "off" /\ conn'[c] = "registered"
           \/ conn[c] \in {"registered", "ready"} /\ conn'[c] = "hello"
        /\ \A d \in Clients \ {c} : conn'[d] = conn[d]
    BY <1>w, <2>1, ZenonT(40) DEF Wired
  <2>3. Wired'
    BY <1>w, <2>1, ZenonT(40) DEF Wired
  <2>4. ASSUME ~Crashed, NEW k \in Prefixes PROVE Told(c, k)'
    <3>1. Told(c, k)
      BY <2>4, ZenonT(40) DEF Sync
    <3>2. Answering(c, k)'
      BY <2>2, ZenonT(40) DEF Answering, Joining
    <3>3. (conn[c] = "off" => view[c][k] = {}) /\ Heard(c, k) => Heard(c, k)'
      BY <2>1, <2>2, ZenonT(40) DEF Heard, Telling
    <3> QED
      BY <2>1, <2>2, <3>1, <3>2, <3>3, ZenonT(40) DEF Told, Shared, Agreeing
  <2>5. \A k \in Prefixes : OfKey(snap'[c][k], k)
    BY <2>1, SnapKeyed, ZenonT(40)
  <2> QED
    BY <2>1, <2>2, <2>3, <2>4, <2>5, ClientFrame, ZenonT(40)
<1>2. CASE ClientUnregister(c)
  <2>1. /\ UNCHANGED <<ribVars, fib, programmed, resolved, pc, fresh, cur, snap, out, undone>>
        /\ conn' = [conn EXCEPT ![c] = "off"]
        /\ view' = [view EXCEPT ![c] = None] /\ missed' = [missed EXCEPT ![c] = {}]
    BY <1>2, ZenonT(40) DEF ClientUnregister
  <2>2. /\ conn'[c] = "off" /\ view'[c] = None
        /\ \A d \in Clients \ {c} : conn'[d] = conn[d] /\ view'[d] = view[d] /\ missed'[d] = missed[d]
    BY <1>w, <2>1, ZenonT(40) DEF Wired
  <2>3. Wired'
    <3>1. DOMAIN None = Prefixes
      BY ZenonT(40) DEF None
    <3>2. \A d \in Clients : DOMAIN view'[d] = Prefixes
      BY <1>w, <2>2, <3>1, ZenonT(40) DEF Wired
    <3> QED
      BY <1>w, <2>1, <3>2, ZenonT(40) DEF Wired
  <2>4. ASSUME ~Crashed, NEW k \in Prefixes PROVE Told(c, k)'
    <3>1. Told(c, k) /\ view'[c][k] = {}
      BY <2>2, <2>4, ZenonT(40) DEF Sync, None
    <3> QED
      BY <2>1, <2>2, <3>1, ZenonT(40) DEF Told, Heard, Answering, Joining, Shared
  <2>5. \A k \in Prefixes : OfKey(snap'[c][k], k)
    BY <2>1, SnapKeyed, ZenonT(40)
  <2> QED
    BY <2>1, <2>2, <2>3, <2>4, <2>5, ClientFrame, ZenonT(40)
<1> QED
  BY <1>1, <1>2, ZenonT(40)

\* The answer to a Hello: a copy of resolvedRoutes, one of programmedRoutes, and
\* the routes one by one.
LEMMA AnswerSync ==
  ASSUME IInv, Sync, NEW c \in Clients, Hello(c) \/ CopyProgrammed(c) \/ Send(c) \/ Sent(c)
  PROVE  Sync'
<1> USE DEF runVars, history
<1>w. Wired
  BY ZenonT(40) DEF Sync
<1>n. DOMAIN None = Prefixes /\ \A k \in Prefixes : None[k] = {}
  BY ZenonT(40) DEF None
<1>1. CASE Hello(c)
  <2>1. /\ conn[c] = "hello" /\ UNCHANGED <<ribVars, fib, programmed, resolved, pc, fresh, cur, out, view, undone>>
        /\ snap' = [snap EXCEPT ![c] = resolved] /\ conn' = [conn EXCEPT ![c] = "resolved"]
        /\ missed' = [missed EXCEPT ![c] = @ \cup (IF NoRun THEN undone ELSE Prefixes)]
    BY <1>1, ZenonT(40) DEF Hello
  <2>2. /\ conn'[c] = "resolved" /\ snap'[c] = resolved
        /\ missed'[c] = missed[c] \cup (IF NoRun THEN undone ELSE Prefixes)
        /\ \A d \in Clients \ {c} : conn'[d] = conn[d] /\ snap'[d] = snap[d] /\ missed'[d] = missed[d]
    BY <1>w, <2>1, ZenonT(40) DEF Wired
  <2>3. Wired'
    BY <1>w, <2>1, ZenonT(40) DEF Wired
  <2>4. ASSUME ~Crashed, NEW k \in Prefixes PROVE Told(c, k)'
    <3>1. Told(c, k) /\ view'[c][k] = view[c][k] /\ out'[c][k] = out[c][k]
      BY <2>1, <2>4, ZenonT(40) DEF Sync
    <3>2. ASSUME Shared(k), Agreeing(k), k \notin missed'[c]
          PROVE  Heard(c, k)' /\ Answering(c, k)'
      <4>1. NoRun /\ k \notin undone /\ k \notin missed[c]
        BY <2>2, <3>2, ZenonT(40)
      <4>2. Quiet /\ Quiet'
        BY <2>1, <2>4, <4>1, ZenonT(40) DEF IInv, Shape, NoRun, Crashed, Quiet
      <4>3. view[c][k] = Gates(programmed[k]) \/ view[c][k] = {}
        BY <2>1, <3>1, <3>2, <4>1, <4>2, ZenonT(40) DEF Told, Heard, Telling, Quiet
      <4> QED
        BY <2>1, <2>2, <3>1, <4>1, <4>2, <4>3, ZenonT(40) DEF Heard, Answering
    <3> QED
      BY <2>2, <3>1, <3>2, ZenonT(40) DEF Told, Shared, Agreeing
  <2>5. \A k \in Prefixes : OfKey(snap'[c][k], k)
    BY <2>2, ZenonT(40) DEF Sync
  <2> QED
    BY <2>1, <2>2, <2>3, <2>4, <2>5, ClientFrame, ZenonT(40)
<1>2. CASE CopyProgrammed(c)
  <2>1. /\ conn[c] = "resolved" /\ UNCHANGED <<ribVars, fib, programmed, resolved, pc, fresh, cur, view, undone, missed>>
        /\ out' = [out EXCEPT ![c] = [k \in Prefixes |->
             IF \E r \in snap[c][k] : Redistributed(r) THEN Gates(programmed[k]) ELSE {}]]
        /\ snap' = [snap EXCEPT ![c] = None] /\ conn' = [conn EXCEPT ![c] = "sending"]
    BY <1>2, ZenonT(40) DEF CopyProgrammed
  <2>2. /\ conn'[c] = "sending" /\ snap'[c] = None /\ DOMAIN out'[c] = Prefixes
        /\ \A k \in Prefixes : out'[c][k] =
             IF \E r \in snap[c][k] : Redistributed(r) THEN Gates(programmed[k]) ELSE {}
        /\ \A d \in Clients \ {c} : conn'[d] = conn[d] /\ snap'[d] = snap[d] /\ out'[d] = out[d]
    BY <1>w, <2>1, ZenonT(40) DEF Wired
  <2>3. Wired'
    BY <1>w, <2>1, <2>2, ZenonT(40) DEF Wired
  <2>4. ASSUME ~Crashed, NEW k \in Prefixes PROVE Told(c, k)'
    <3>0. Routed(k) /\ OfKey(snap[c][k], k)
      BY <2>4, SnapKeyed, ZenonT(40) DEF IInv, Safe
    <3>1. Told(c, k) /\ OfKey(resolved[k], k) /\ view'[c][k] = view[c][k]
      BY <2>1, <2>4, ZenonT(40) DEF Sync
    <3>2. ~Shared(k) => out'[c][k] = {}
      BY <2>2, <3>0, ZenonT(40) DEF OfKey, Shared
    <3>3. ASSUME Shared(k), Agreeing(k), k \notin missed'[c]
          PROVE  Heard(c, k)' /\ Answering(c, k)'
      <4>1. /\ Quiet /\ k \notin undone /\ snap[c][k] = resolved[k]
            /\ view[c][k] = Gates(programmed[k]) \/ view[c][k] = {}
        BY <2>1, <3>1, <3>3, ZenonT(40) DEF Told, Answering, Joining
      <4>2. Quiet'
        BY <2>1, <4>1, ZenonT(40) DEF Quiet
      <4>3. out'[c][k] = Gates(programmed[k])
        <5>1. CASE resolved[k] # {}
          <6>1. PICK r \in snap[c][k] : TRUE
            BY <4>1, <5>1, ZenonT(40)
          <6>2. Redistributed(r)
            BY <3>0, <3>3, SharedRoutes, ZenonT(40) DEF OfKey
          <6> QED
            BY <2>2, <6>2, ZenonT(40)
        <5>2. CASE resolved[k] = {}
          <6>1. Gates(programmed[k]) = {}
            BY <3>0, <4>1, <5>2, ZenonT(40) DEF Routed, Gates
          <6> QED
            BY <2>2, <4>1, <5>2, <6>1, ZenonT(40)
        <5> QED
          BY <5>1, <5>2
      <4> QED
        BY <2>1, <2>2, <3>1, <4>1, <4>2, <4>3, ZenonT(40) DEF Heard, Answering
    <3> QED
      BY <2>2, <3>1, <3>2, <3>3, ZenonT(40) DEF Told, Shared, Agreeing
  <2>5. \A k \in Prefixes : OfKey(snap'[c][k], k)
    BY <1>n, <2>2, ZenonT(40) DEF OfKey
  <2> QED
    BY <2>1, <2>2, <2>3, <2>4, <2>5, ClientFrame, ZenonT(40)
<1>3. CASE Send(c)
  <2>1. /\ conn[c] = "sending"
        /\ UNCHANGED <<ribVars, fib, programmed, resolved, pc, fresh, cur, conn, snap, undone, missed>>
    BY <1>3, ZenonT(40) DEF Send
  <2>2. PICK j \in Prefixes : /\ out[c][j] # {} /\ Tell({c}, j, out[c][j])
                              /\ out' = [out EXCEPT ![c][j] = {}]
    BY <1>3, ZenonT(40) DEF Send
  <2>3. /\ out'[c][j] = {} /\ view'[c][j] = out[c][j]
        /\ \A k \in Prefixes \ {j} : out'[c][k] = out[c][k] /\ view'[c][k] = view[c][k]
        /\ \A d \in Clients \ {c} : out'[d] = out[d] /\ view'[d] = view[d]
    BY <1>w, <2>2, ZenonT(40) DEF Wired, Tell
  <2>4. Wired'
    BY <1>w, <2>1, <2>2, ZenonT(40) DEF Wired, Tell
  <2>5. ASSUME ~Crashed, NEW k \in Prefixes PROVE Told(c, k)'
    <3>1. Told(c, k)
      BY <2>5, ZenonT(40) DEF Sync
    <3>2. ~Shared(k) => view'[c][k] = {} /\ out'[c][k] = {}
      BY <2>2, <2>3, <3>1, ZenonT(40) DEF Told
    <3>3. ASSUME Shared(k), Agreeing(k), k \notin missed'[c]
          PROVE  Heard(c, k)' /\ Answering(c, k)'
      <4>1. Answering(c, k)
        BY <2>1, <3>1, <3>3, ZenonT(40) DEF Told
      <4>2. CASE k # j
        BY <2>1, <2>3, <4>1, <4>2, ZenonT(40) DEF Heard, Answering, Quiet
      <4>3. CASE k = j
        BY <2>1, <2>2, <2>3, <4>1, <4>3, ZenonT(40) DEF Heard, Answering, Quiet, Joining
      <4> QED
        BY <4>2, <4>3
    <3> QED
      BY <2>1, <3>2, <3>3, ZenonT(40) DEF Told, Shared, Agreeing
  <2>6. \A k \in Prefixes : OfKey(snap'[c][k], k)
    BY <2>1, SnapKeyed, ZenonT(40)
  <2> QED
    BY <2>1, <2>3, <2>4, <2>5, <2>6, ClientFrame, ZenonT(40)
<1>4. CASE Sent(c)
  <2>1. /\ conn[c] = "sending" /\ out[c] = None /\ conn' = [conn EXCEPT ![c] = "ready"]
        /\ UNCHANGED <<ribVars, fib, programmed, resolved, pc, fresh, cur, snap, out, view, undone, missed>>
    BY <1>4, ZenonT(40) DEF Sent
  <2>2. conn'[c] = "ready" /\ \A d \in Clients \ {c} : conn'[d] = conn[d]
    BY <1>w, <2>1, ZenonT(40) DEF Wired
  <2>3. Wired'
    BY <1>w, <2>1, ZenonT(40) DEF Wired
  <2>4. ASSUME ~Crashed, NEW k \in Prefixes PROVE Told(c, k)'
    <3>1. Told(c, k) /\ out[c][k] = {}
      BY <1>n, <2>1, <2>4, ZenonT(40) DEF Sync
    <3>2. Answering(c, k) => Heard(c, k)' /\ Answering(c, k)'
      BY <2>1, <2>2, <3>1, ZenonT(40) DEF Heard, Answering, Joining
    <3> QED
      BY <2>1, <2>2, <3>1, <3>2, ZenonT(40) DEF Told, Shared, Agreeing
  <2>5. \A k \in Prefixes : OfKey(snap'[c][k], k)
    BY <2>1, SnapKeyed, ZenonT(40)
  <2> QED
    BY <2>1, <2>2, <2>3, <2>4, <2>5, ClientFrame, ZenonT(40)
<1> QED
  BY <1>1, <1>2, <1>3, <1>4, ZenonT(40)

LEMMA NextSync ==
  ASSUME IInv, Sync, ~raced', [Next]_vars
  PROVE  Sync'
<1>1. ASSUME NEW p \in Procs, Change(p) \/ RunStep(p) PROVE ~Crashed
  BY <1>1, ActiveMeans, ZenonT(40)
<1>2. ASSUME NEW p \in Procs, RunStep(p) PROVE Sync'
  BY <1>1, <1>2, ResolveSync, QuietSteps, RecordSync, TellSync, FinishSync, CrashSync,
     ZenonT(40) DEF RunStep
<1>3. ASSUME NEW c \in Clients, ClientStep(c) PROVE Sync'
  BY <1>3, ConnectSync, AnswerSync, ZenonT(40) DEF ClientStep
<1>4. CASE UNCHANGED vars
  <2>1. UNCHANGED <<ribVars, fib, programmed, resolved, pc, fresh, cur, conn, snap, out, view, undone, missed>>
    BY <1>4, ZenonT(40) DEF vars, runVars, connVars, history
  <2>2. Wired'
    BY <2>1, ZenonT(40) DEF Sync, Wired
  <2>3. ASSUME NEW c \in Clients PROVE Sync'
    <3>1. \A k \in Prefixes : Told(c, k) => Told(c, k)'
      BY <2>1, ZenonT(40) DEF Told, Heard, Answering, Telling, Quiet, Shared, Agreeing
    <3>2. /\ ~Crashed => \A k \in Prefixes : Told(c, k)'
          /\ \A k \in Prefixes : OfKey(snap'[c][k], k)
      <4>1. ~Crashed => \A k \in Prefixes : Told(c, k)
        BY ZenonT(40) DEF Sync
      <4> QED
        BY <2>1, <3>1, <4>1, SnapKeyed, ZenonT(40)
    <3> QED
      BY <2>1, <2>2, <3>1, <3>2, ClientFrame, ZenonT(40)
  <2>4. CASE Clients = {}
    <3>1. Crashed' <=> Crashed
      BY <2>1, ZenonT(40) DEF Crashed
    <3>2. ASSUME NEW p \in Procs, Keyed(p) PROVE Keyed(p)'
      <4>1. \A k \in Prefixes : Cell(k) => Cell(k)'
        BY <2>1, SameResolution, ZenonT(40) DEF Cell
      <4> QED
        BY <2>1, <3>2, <4>1, ZenonT(40) DEF Keyed
    <3> QED
      BY <2>1, <2>2, <2>4, <3>1, <3>2, ZenonT(40) DEF Sync, OfKey
  <2> QED
    BY <2>3, <2>4, ZenonT(40)
<1> QED
  BY <1>1, <1>2, <1>3, <1>4, ChangeSync, ZenonT(40) DEF Next

\* Between runs a client that has been answered knows exactly the programmed routes
\* that are redistributed, however the runs that told it of them overlapped, which
\* calls failed and when it connected, but for what it may have missed because a run
\* was in progress while it was being answered: no other announcement of
\* distributeRoute or RedistributeResolvedRoutes is lost or out of date.
THEOREM ClientsAreInSync == Spec => []ClientInSync
<1>1. Init => (~raced => Sync)
  BY InitSync, ZenonT(40)
<1>2. (~raced => IInv) /\ (~raced => Sync) /\ [Next]_vars => (~raced => Sync)'
  BY NextSync, RacedStays, ZenonT(40)
<1>3. (~raced => IInv) /\ (~raced => Sync) => ClientInSync
  <2> SUFFICES ASSUME Sync, Quiescent, NEW c \in Clients, conn[c] = "ready",
                      NEW k \in Prefixes \ missed[c], Agreeing(k)
               PROVE  view[c][k] = IF Shared(k) THEN Gates(programmed[k]) ELSE {}
    BY ZenonT(40) DEF ClientInSync
  <2>1. ~Crashed /\ ~Telling(k)
    BY ZenonT(40) DEF Quiescent, Crashed, Crashes, Telling
  <2>2. Told(c, k)
    BY <2>1, ZenonT(40) DEF Sync
  <2> QED
    BY <2>1, <2>2, ZenonT(40) DEF Told, Heard
<1> QED
  BY <1>1, <1>2, <1>3, Inductive, PTL DEF Spec
=============================================================================

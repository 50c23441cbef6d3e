---------------------------- MODULE ObjectTable ----------------------------
(***************************************************************************)
(* The objects of one forwarding context (fwdobject): their IDs, their     *)
(* numeric identifiers (NIDs) and the pool these come from, the references *)
(* objects hold on each other through their actions, and the cleanup that  *)
(* a last release, or the deletion of the context, sets off.               *)
(*                                                                         *)
(* Requests hold the context's lock, so they exclude each other; what is   *)
(* not atomic is Cleanup, a recursion over the graph of references, with   *)
(* the stack of its pending calls in the variable stack.                   *)
(***************************************************************************)
EXTENDS Naturals, Sequences, FiniteSets

CONSTANTS
  Objects,   \* the Go objects that are ever built
  Ports,     \* those that are ports; the others are tables
  Devices,   \* the ports with a reader goroutine (kernel and tap ports)
  Ids,       \* the IDs requests use
  Nil,       \* no object
  MaxNid,    \* bound: the NIDs the model lets the pool hand out
  MaxRefs    \* bound: requests and packets that would exceed it are left out

ASSUME ObjectsAssumption ==
  /\ IsFiniteSet(Objects) /\ Nil \notin Objects \cup {"input", "output"}
  /\ Ports \subseteq Objects /\ Devices \subseteq Ports
  /\ MaxNid \in Nat /\ MaxRefs \in Nat

\* Where an object keeps its actions. Input stands for the input actions of a
\* port and the default actions of a table, Output for the output actions of a
\* port and an entry of a table.
Input == "input"
Output == "output"
Slots == {Input, Output}

Tables == Objects \ Ports

InvalidNID == 0

VARIABLES
  ids,       \* Table.ids
  nids,      \* Table.nids
  free,      \* NIDPool.free, last in first out
  last,      \* NIDPool.last
  nid,       \* Base.nid of each object
  refCount,  \* Base.refCount
  armed,     \* Base.cleanup is the closure of Insert, not yet the empty one
  held,      \* the object that the actions in each slot reference
  open,      \* doneCh of a device is not closed
  stack,     \* the cleanups in progress, innermost last: <<object, slot>>
  phase,     \* of the context: "running", "deleting" or "deleted"
  panicked   \* the process died: doneCh was closed twice

objectVars == <<nid, refCount, armed, held, open>>
vars == <<ids, nids, free, last, objectVars, stack, phase, panicked>>

-----------------------------------------------------------------------------
NoRefs == [s \in Slots |-> Nil]

Indexed(x) == \E i \in Ids : ids[i] = x

\* Table.Acquire finds x by an ID and Base.Acquire takes a reference.
CanAcquire(x) == Indexed(x) /\ refCount[x] > 0 /\ refCount[x] < MaxRefs

\* Nothing has been done yet with the object that a request is about to build.
Fresh(o) == nid[o] = InvalidNID /\ held[o] = NoRefs

\* Provisioning holds the context's lock: no other request is in progress. A
\* request that found the context before its deletion may still come after it.
Idle == stack = <<>> /\ phase # "deleting" /\ ~panicked

\* The frame of a cleanup of x that is not in the middle of a release.
Frame(x) == <<x, Nil>>

\* The count of an object after Base.Release; at 0 Release only reports an error.
Dec(n) == IF n = 0 THEN 0 ELSE n - 1

\* Variant: the cleanup starts one reference early.
StartedEarlyBy(x) == IF refCount[x] <= 2 /\ armed[x] THEN <<Frame(x)>> ELSE <<>>

\* Base.Release(false) on x: the cleanup it starts, if any.
StartedBy(x) == IF refCount[x] = 1 /\ armed[x] THEN <<Frame(x)>> ELSE <<>>

Init ==
  /\ ids = [i \in Ids |-> Nil]
  /\ nids = [n \in 1..MaxNid |-> Nil]
  /\ free = <<>>
  /\ last = 0
  /\ nid = [o \in Objects |-> InvalidNID]
  /\ refCount = [o \in Objects |-> 0]
  /\ armed = [o \in Objects |-> FALSE]
  /\ held = [o \in Objects |-> NoRefs]
  /\ open = [o \in Objects |-> o \in Devices]
  /\ stack = <<>>
  /\ phase = "running"
  /\ panicked = FALSE

-----------------------------------------------------------------------------
(* NIDPool.Acquire and Table.Insert. *)

NextNid == IF free # <<>> THEN free[Len(free)] ELSE last + 1

\* Variant: the NID taken from the free list stays on it.
AcquireNidKept == UNCHANGED <<free, last>>

AcquireNid ==
  IF free # <<>>
  THEN free' = SubSeq(free, 1, Len(free) - 1) /\ last' = last
  ELSE free' = free /\ last' = last + 1

\* Insert of o at an unused ID; Init of the object arms its cleanup.
Insert(o, i) ==
  /\ ids[i] = Nil
  /\ NextNid <= MaxNid
  /\ AcquireNid
  /\ ids' = [ids EXCEPT ![i] = o]
  /\ nids' = [nids EXCEPT ![NextNid] = o]
  /\ nid' = [nid EXCEPT ![o] = NextNid]
  /\ armed' = [armed EXCEPT ![o] = TRUE]

\* PortCreate. A port is built without actions.
PortCreate(o, i) ==
  /\ Idle
  /\ o \in Ports /\ Fresh(o)
  /\ Insert(o, i)
  /\ refCount' = [refCount EXCEPT ![o] = 1]
  /\ UNCHANGED <<held, open, stack, phase, panicked>>

\* TableCreate, with a default action that references x, or none.
TableCreate(o, i, x) ==
  /\ Idle
  /\ o \in Tables /\ Fresh(o)
  /\ x # Nil => CanAcquire(x)
  /\ Insert(o, i)
  /\ held' = [held EXCEPT ![o][Input] = x]
  /\ refCount' = [y \in Objects |->
       CASE y = o -> 1 [] y = x -> refCount[y] + 1 [] OTHER -> refCount[y]]
  /\ UNCHANGED <<open, stack, phase, panicked>>

\* TableCreate at an ID that is taken: Insert fails after Build has acquired x,
\* and nobody cleans up the table that was built.
TableCreateTaken(o, i, x) ==
  /\ Idle
  /\ o \in Tables /\ Fresh(o)
  /\ ids[i] # Nil
  /\ x # Nil /\ CanAcquire(x)
  /\ held' = [held EXCEPT ![o][Input] = x]
  /\ refCount' = [refCount EXCEPT ![x] = @ + 1]
  /\ UNCHANGED <<ids, nids, free, last, nid, armed, open, stack, phase, panicked>>

-----------------------------------------------------------------------------
(* Requests that make and break links. *)

\* TableEntryAdd: the new actions are built before the old ones of the entry
\* are cleaned up.
EntryAdd(o, x) ==
  /\ Idle
  /\ o \in Tables /\ Indexed(o)
  /\ CanAcquire(x)
  /\ LET y == held[o][Output] IN
     /\ held' = [held EXCEPT ![o][Output] = x]
     /\ IF y = Nil \/ y = x
        THEN /\ refCount' = [refCount EXCEPT ![x] = IF y = x THEN @ ELSE @ + 1]
             /\ stack' = stack
        ELSE /\ refCount' = [refCount EXCEPT ![x] = @ + 1,
                               ![y] = Dec(@)]
             /\ stack' = StartedBy(y)
  /\ UNCHANGED <<ids, nids, free, last, nid, armed, open, phase, panicked>>

\* Variant: the actions are cleaned up and the entry stays in the table.
EntryRemoveKept(o) ==
  /\ Idle
  /\ o \in Tables /\ Indexed(o)
  /\ held[o][Output] # Nil
  /\ LET y == held[o][Output] IN
     /\ refCount' = [refCount EXCEPT ![y] = Dec(@)]
     /\ stack' = StartedBy(y)
  /\ UNCHANGED <<ids, nids, free, last, nid, armed, held, open, phase, panicked>>

\* TableEntryRemove: the entry leaves the table, then its actions are cleaned up.
EntryRemove(o) ==
  /\ Idle
  /\ o \in Tables /\ Indexed(o)
  /\ held[o][Output] # Nil
  /\ LET y == held[o][Output] IN
     /\ held' = [held EXCEPT ![o][Output] = Nil]
     /\ refCount' = [refCount EXCEPT ![y] = Dec(@)]
     /\ stack' = StartedBy(y)
  /\ UNCHANGED <<ids, nids, free, last, nid, armed, open, phase, panicked>>

\* How many references to y the actions new take.
Taken(new, y) == Cardinality({s \in Slots : new[s] = y})

\* PortUpdate: Update builds the new actions and stores them over the old ones.
PortUpdate(o, new) ==
  /\ Idle
  /\ o \in Ports /\ Indexed(o)
  /\ \A s \in Slots : new[s] # Nil => CanAcquire(new[s])
  /\ \A y \in Objects : refCount[y] + Taken(new, y) <= MaxRefs
  /\ held' = [held EXCEPT ![o] = new]
  /\ refCount' = [y \in Objects |-> refCount[y] + Taken(new, y)]
  /\ UNCHANGED <<ids, nids, free, last, nid, armed, open, stack, phase, panicked>>

\* The deferred p.Cleanup of an Update that failed, for the actions in old that
\* were not overwritten yet. The port stays in the table, without actions and,
\* if it is a device, without its reader.
CleanupAfterError(o, y) ==
  /\ held' = [held EXCEPT ![o] = NoRefs]
  /\ IF y = Nil
     THEN refCount' = refCount /\ stack' = stack
     ELSE /\ refCount' = [refCount EXCEPT ![y] = Dec(@)]
          /\ stack' = StartedBy(y)
  /\ open' = [open EXCEPT ![o] = FALSE]
  /\ panicked' = (o \in Devices /\ ~open[o])
  /\ UNCHANGED <<ids, nids, free, last, nid, armed, phase>>

\* PortUpdate whose input actions cannot be built: p.input was overwritten, the
\* output actions are released.
PortUpdateFailsInput(o) ==
  /\ Idle
  /\ o \in Ports /\ Indexed(o)
  /\ CleanupAfterError(o, held[o][Output])

\* PortUpdate whose output actions cannot be built: both were overwritten. The
\* new input actions are released at once.
PortUpdateFailsOutput(o) ==
  /\ Idle
  /\ o \in Ports /\ Indexed(o)
  /\ CleanupAfterError(o, Nil)

\* swapOutput.Process, on a packet: the output port is acquired, not released. The
\* reader of a device takes no lock of the context, so this may fall inside a
\* cleanup. (Table.mu keeps it out of those of Table.Remove; the model does not.
\* Base.Release takes no lock either, and a release that races with this acquire
\* leaves the count one too high, or as if there had been no packet.)
SwapOutput(x) ==
  /\ ~panicked
  /\ x \in Ports /\ CanAcquire(x)
  /\ refCount' = [refCount EXCEPT ![x] = @ + 1]
  /\ UNCHANGED <<ids, nids, free, last, nid, armed, held, open, stack, phase, panicked>>

\* Variant: the object is removed by force.
ObjectDeleteForced(i) ==
  /\ Idle
  /\ ids[i] # Nil
  /\ LET o == ids[i] IN
     /\ ids' = [ids EXCEPT ![i] = Nil]
     /\ refCount' = [refCount EXCEPT ![o] = Dec(@)]
     /\ stack' = <<Frame(o)>>
  /\ UNCHANGED <<nids, free, last, nid, armed, held, open, phase, panicked>>

\* ObjectDelete: Table.Remove without force.
ObjectDelete(i) ==
  /\ Idle
  /\ ids[i] # Nil
  /\ LET o == ids[i] IN
     /\ ids' = [ids EXCEPT ![i] = Nil]
     /\ refCount' = [refCount EXCEPT ![o] = Dec(@)]
     /\ stack' = StartedBy(o)
  /\ UNCHANGED <<nids, free, last, nid, armed, held, open, phase, panicked>>

-----------------------------------------------------------------------------
(* ContextDelete: Context.Cleanup removes every object by force, ports first. *)

\* It may be asked for twice, by callers that found the context in time.
ContextDelete ==
  /\ Idle
  /\ phase' = "deleting"
  /\ UNCHANGED <<ids, nids, free, last, objectVars, stack, panicked>>

ForceRemove(i) ==
  /\ stack = <<>> /\ phase = "deleting" /\ ~panicked
  /\ ids[i] # Nil
  /\ ids[i] \in Ports \/ \A j \in Ids : ids[j] \notin Ports
  /\ LET o == ids[i] IN
     /\ ids' = [ids EXCEPT ![i] = Nil]
     /\ refCount' = [refCount EXCEPT ![o] = Dec(@)]
     /\ stack' = IF refCount[o] > 0 /\ armed[o] THEN <<Frame(o)>> ELSE <<>>
  /\ UNCHANGED <<nids, free, last, nid, armed, held, open, phase, panicked>>

ContextDeleted ==
  /\ stack = <<>> /\ phase = "deleting" /\ ~panicked
  /\ \A i \in Ids : ids[i] = Nil
  /\ phase' = "deleted"
  /\ UNCHANGED <<ids, nids, free, last, objectVars, stack, panicked>>

-----------------------------------------------------------------------------
(* Cleanup of the object on top of the stack. *)

Top == stack[Len(stack)]

\* Ports clean up their input actions first, tables their entries.
First(o) == IF o \in Ports THEN Input ELSE Output

\* Variant: the reference is not forgotten when its release cleans nothing up.
CleanupSlotKept(s) ==
  /\ stack # <<>> /\ ~panicked
  /\ Top[2] = Nil
  /\ LET o == Top[1]
         x == held[o][s]
     IN /\ x # Nil
        /\ s = First(o) \/ held[o][First(o)] = Nil
        /\ refCount' = [refCount EXCEPT ![x] = Dec(@)]
        /\ stack' = IF StartedBy(x) = <<>> THEN stack
                    ELSE Append([stack EXCEPT ![Len(stack)] = <<o, s>>], Frame(x))
  /\ UNCHANGED <<ids, nids, free, last, nid, armed, held, open, phase, panicked>>

\* An action of the object releases its reference x and then forgets it. The
\* cleanup that the release may start runs in between.
CleanupSlot(s) ==
  /\ stack # <<>> /\ ~panicked
  /\ Top[2] = Nil
  /\ LET o == Top[1]
         x == held[o][s]
     IN /\ x # Nil
        /\ s = First(o) \/ held[o][First(o)] = Nil
        /\ refCount' = [refCount EXCEPT ![x] = Dec(@)]
        /\ IF StartedBy(x) = <<>>
           THEN held' = [held EXCEPT ![o][s] = Nil] /\ stack' = stack
           ELSE /\ held' = held
                /\ stack' = Append([stack EXCEPT ![Len(stack)] = <<o, s>>], Frame(x))
  /\ UNCHANGED <<ids, nids, free, last, nid, armed, open, phase, panicked>>

\* No reference is left: the closure of Insert gives the NID back, Release
\* disarms the cleanup and returns to the release below it on the stack.
CleanupEnd ==
  /\ stack # <<>> /\ ~panicked
  /\ Top[2] = Nil
  /\ held[Top[1]] = NoRefs
  /\ LET o == Top[1]
         n == Len(stack)
     IN /\ o \in Devices => open[o]
        /\ open' = [open EXCEPT ![o] = FALSE]
        /\ nids' = [nids EXCEPT ![nid[o]] = Nil]
        /\ free' = Append(free, nid[o])
        /\ armed' = [armed EXCEPT ![o] = FALSE]
        /\ IF n = 1
           THEN stack' = <<>> /\ held' = held
           ELSE LET p == stack[n - 1] IN
                /\ held' = [held EXCEPT ![p[1]][p[2]] = Nil]
                /\ stack' = [SubSeq(stack, 1, n - 1) EXCEPT ![n - 1] = Frame(p[1])]
  /\ UNCHANGED <<ids, last, nid, refCount, phase, panicked>>

\* Cleanup of a device whose doneCh is closed already.
CleanupPanics ==
  /\ stack # <<>> /\ ~panicked
  /\ Top[2] = Nil
  /\ held[Top[1]] = NoRefs
  /\ Top[1] \in Devices /\ ~open[Top[1]]
  /\ panicked' = TRUE
  /\ UNCHANGED <<ids, nids, free, last, objectVars, stack, phase>>

Cleanup == (\E s \in Slots : CleanupSlot(s)) \/ CleanupEnd \/ CleanupPanics

Next ==
  \/ \E o \in Objects, i \in Ids :
       \/ PortCreate(o, i)
       \/ \E x \in Objects \cup {Nil} : TableCreate(o, i, x)
       \/ \E x \in Objects : TableCreateTaken(o, i, x)
  \/ \E o \in Objects :
       \/ \E x \in Objects : EntryAdd(o, x)
       \/ EntryRemove(o)
       \/ \E new \in [Slots -> Objects \cup {Nil}] : PortUpdate(o, new)
       \/ PortUpdateFailsInput(o)
       \/ PortUpdateFailsOutput(o)
       \/ SwapOutput(o)
  \/ \E i \in Ids : ObjectDelete(i) \/ ForceRemove(i)
  \/ ContextDelete
  \/ ContextDeleted
  \/ Cleanup

\* A request that cleans up runs to its end: it waits for nothing.
Spec == Init /\ [][Next]_vars /\ WF_vars(Cleanup)

-----------------------------------------------------------------------------
\* Type correctness of the table, the pool, the objects and the stack.
TypeOK ==
  /\ ids \in [Ids -> Objects \cup {Nil}]
  /\ nids \in [1..MaxNid -> Objects \cup {Nil}]
  /\ free \in Seq(1..MaxNid)
  /\ last \in 0..MaxNid
  /\ nid \in [Objects -> 0..MaxNid]
  /\ refCount \in [Objects -> Nat]
  /\ armed \in [Objects -> BOOLEAN]
  /\ held \in [Objects -> [Slots -> Objects \cup {Nil}]]
  /\ open \in [Objects -> BOOLEAN]
  /\ stack \in Seq(Objects \X (Slots \cup {Nil}))
  /\ phase \in {"running", "deleting", "deleted"}
  /\ panicked \in BOOLEAN

\* The references that were released, by a cleanup that is still to forget them.
InFlight == {stack[k] : k \in DOMAIN stack}

\* The actions that hold a reference on x.
Holders(x) ==
  {h \in Objects \X Slots : held[h[1]][h[2]] = x /\ h \notin InFlight}

\* What the count of x is at least to be: one for the table, one per holder.
Owed(x) == Cardinality(Holders(x)) + (IF Indexed(x) THEN 1 ELSE 0)

Live(x) == nid[x] # InvalidNID /\ nids[nid[x]] = x

\* No reference goes uncounted, whatever requests, packets and cleanups of
\* cyclic links do, in the middle of a cleanup by force too: refCount of Base
\* never runs ahead of the releases (Base.Acquire, Base.Release).
RefsCounted == \A x \in Objects : refCount[x] >= Owed(x)

\* Until the context is deleted, every object that can be found by ID or that
\* some action references can be found by its own NID: what is in use is not
\* cleaned up (Table.Remove, Base.Release).
UsedIsLive ==
  phase = "running" => \A x \in Objects : Owed(x) > 0 => Live(x)

\* Until the context is deleted, a NID is in the pool at most once, and not
\* while an object has it (NIDPool.Acquire, NIDPool.Release).
NidsDisjoint ==
  phase = "running" =>
    /\ \A j, k \in DOMAIN free : free[j] = free[k] => j = k
    /\ \A k \in DOMAIN free : nids[free[k]] = Nil
    /\ \A o \in Objects : armed[o] => Live(o)

\* Until the context is deleted, an object leaves nids only with no reference
\* left on it (Base.Release and the closure of Table.Insert).
FoundUntilReleased ==
  [][phase = "running" =>
       \A n \in 1..MaxNid :
         nids[n] # Nil /\ nids'[n] # nids[n] => Owed(nids[n]) = 0]_vars

\* A cleanup ends, also over cyclic links (Base.Release, Composite.Cleanup).
CleanupsEnd == stack # <<>> ~> (stack = <<>> \/ panicked)
=============================================================================

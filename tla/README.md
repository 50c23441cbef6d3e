# A TLA+ verification of Lemming

Lemming (`src/`) is OpenConfig's reference device: gNMI, gNOI, gRIBI and BGP in
front of a RIB manager (`sysrib`) that resolves routes and programs a software
dataplane (`dataplane`, "Lucius").  This directory models the parts of it where
goroutines, locks, failing calls and recursive definitions meet, checks them with
TLC on small instances and proves the central invariants with TLAPS.

## 1. Inventory

### Parts and how they interact

| part | source | state | operations that change it |
|---|---|---|---|
| RIB and resolution | `sysrib/sysrib.go` | radix trees of routes, GUE policy trees | `setRoute`, `SetGUEPolicy`, `DeleteGUEPolicy`; `egressNexthops` reads |
| sysrib server | `sysrib/server.go` | `rib`, `interfaces`, `programmedRoutes`, `resolvedRoutes` | `SetRoute`, `setInterface`, `setGUEPolicy`, `deleteGUEPolicy`, each followed by `ResolveAndProgramDiff` |
| ZAPI server | `sysrib/zapi.go`, `server_zapi.go` | `ClientMap`, what each client was told | register, Hello, redistribution, unregister |
| watchers | `sysrib/connected.go`, `static.go` | the previous configuration | reconciliation of connected and static routes |
| element queue | `dataplane/forwarding/util/queue` | elements, capacity, counters | `Write`, `Close`, `Run` and its two goroutines |
| forwarding objects | `dataplane/forwarding/infra/fwdobject` | tables by ID and NID, reference counts, NID pool | `Insert`, `Remove`, `Acquire`, `Release` |
| forwarding service | `forwarding/fwd.go`, `fwdtable`, `fwdport`, `fwdaction` | contexts; the objects' entries and actions, which reference other objects | create, delete, update and entry requests, `ContextDelete` |
| exact-match tables | `fwdtable/exact` | hash chains, list of transient entries | `AddEntry`, `RemoveEntry`, `Clear`, `Cleanup`, packets, the monitor that expires entries |
| prefix tables | `fwdtable/prefix` | a trie of multi-bit levels | `AddEntry`, `RemoveEntry`, `Clear` |
| action tables, port groups | `fwdtable/action`, `fwdport/ports/group.go` | lists of actions and members | add, remove, update |
| contexts, notifications | `infra/fwdcontext`, `infra/deadlock` | notification queue and sequence numbers, monitors | `Notify`, `SetNotification`, timers |
| dataplane reconciler: routes | `dataplane/dplanerc/routes.go`, `saiserver/routing.go` | the ids recorded for a route; next-hop, group and FIB entries | the watch of routes and the SAI calls it makes |
| dataplane reconciler: interfaces | `dataplane/dplanerc/interface.go` | interface data | interface events, LAG members |
| gNMI datastore | `gnmi/gnmi.go`, `collector.go` | the trees of the config and the state schema, the cache, subscriptions | `Set` in config and in state mode, writes of internal origin, `Subscribe` |
| gNOI | `gnoi/gnoi.go` | a pending reboot | `Reboot`, `CancelReboot` |
| BGP task | `bgp` | the configuration applied to GoBGP | reconciliation |
| others | gRIBI hook, gNSI ACL trie, SAI server, packet I/O, operator, generators | see `PROJECT.json` | |

Routes reach sysrib over gRPC (`SetRoute`, called by the gRIBI hook), over ZAPI
(BGP, `RouteAdd`/`RouteDelete`) and from the watchers of the gNMI datastore.  Each
of these is a goroutine of its own.  sysrib publishes resolved routes to the
datastore, where `dplanerc` picks them up, and redistributes them to ZAPI clients.

### What is hard here

* Runs of `ResolveAndProgramDiff` overlap: they hold `rib.mu` for reading only.
* An interface change takes another lock and excludes no run.
* A dataplane call can fail between two updates of the tables that mirror it.
* A ZAPI client joins while runs change the two maps it is sent from.
* Routes resolve through each other, in chains, ties, or cycles.
* Objects of the dataplane reference each other in cycles; a release may clean up an
  object in the middle of the cleanup of another, and deleting a context cleans up by
  force what is still referenced.
* The queue checks `closed` in one critical section and sends in none, and waits
  on a condition variable without a loop.
* A reboot and its cancels pass a token and an acknowledgement over two channels, and
  decide on a flag that they read before.
* An entry of an exact table is linked into a hash chain and, when transient, into a list
  ordered by expiry, from which packets, requests and a goroutine take it.
* Insertion splits and removal merges the levels of a trie in place.
* A change of a route is a series of SAI calls, any of which may fail, while packets use the
  tables in between.
* A leaf of the datastore lives in a tree and in a cache that refuses old updates; a
  request that fails has by then changed one of them or both.

`PROJECT.json` lists each hazard with its line and the properties that cover it.

## 2. Modules

| module | models |
|---|---|
| `Queue` | the element queue: every critical section of `q.ready.L` and every channel operation is one action |
| `QueueFifo` | what the queue promises: a closable FIFO channel of bounded capacity |
| `QueueProofs` | theorems about `Queue` |
| `SysRibRoutes` | routes, prefixes, admin distances, `setRoute` on the tree |
| `SysRibResolve` | `egressNexthops`: longest match, recursion, preference, GUE |
| `SysRib` | the RIB under any sequence of changes, with a reference semantics of resolution |
| `SysRibProofs` | theorems about `SysRib`: what the recursive resolution computes |
| `SysRibServer` | the server: goroutines, locks, the diff, failures, ZAPI clients |
| `SysRibServerProofs` | theorems about `SysRibServer` |
| `ObjectTable` | forwarding objects, their references on each other, and the requests that make and break them |
| `ObjectTableProofs` | theorems about `ObjectTable`: types, reference counts, NIDs |
| `Reboot` | gNOI `Reboot`, its delayed goroutine and `CancelReboot` |
| `RebootProofs` | theorems about `Reboot` |
| `ExactTable` | an exact-match table: hash chains, stale list, monitor |
| `TransientMap` | what it promises: a map from which only unused transient entries disappear |
| `ExactTableProofs` | theorems about `ExactTable`, its implementation of `TransientMap` included |
| `PrefixTable` | a longest-prefix-match table: the trie under insertion, removal and lookup |
| `PrefixMap` | what it promises: a map from prefixes to actions |
| `RouteReconciler` | a route on its way into the forwarding tables: the reconciler composed with the SAI server |
| `RouteReconcilerProofs` | theorems about `RouteReconciler` |
| `GnmiSet` | gNMI `Set`: two schemas, their mutexes, the cache |
| `GnmiSetProofs` | theorems about `GnmiSet` |
| `MCQueue`, `MCSysRib`, `MCSysRibServer`, `MCObjectTable`, `MCReboot`, `MCExactTable`, `MCPrefixTable`, `MCRouteReconciler`, `MCGnmiSet` | the constants of the runs |

**Queue.**  An element is the number of the `Write` that brought it.  A send on the
unbuffered `q.in` and its receive are one step (`InRecv`); `SendOnClosed` is the
panic of a send on a channel closed meanwhile.  `outPc = "wait"` is the goroutine in
`Wait`; `Signal` moves it to "woken", from where it goes on without looking at the
elements again, as the `if` around `Wait` makes it.  Spurious wake-ups do not exist
in Go's `sync.Cond` and are not modelled.

**SysRibRoutes, SysRibResolve, SysRib.**  One network instance and one address
family; the others go through the same code.  An address has `Width` bits, a prefix
is a pair of value and length, so prefixes are canonical by construction
(`canonicalPrefix`).  Weights are left out: no code path reads them before
programming.  The radix tree is external (kentik/patricia): it is used as a map from
prefix to tags with longest match.  The order of its tags decides which of several
routes of equal preference is returned, so `egressNexthops` returns a set of
possible routes.  The recursion is a function of its depth (`LookupsAtDepth`); a depth
beyond the number of addresses visits one twice and does not end (kind "loop").  A
connected route has an interface and no next hops, as `setConnectedRoute` makes it.

**SysRibServer.**  Every goroutine that calls into the server is a member of `Procs`;
it changes something and then runs `ResolveAndProgramDiff` step by step.  A lock held
for one statement is one step; `rib.mu`, held for reading during a run, keeps
`SetRoute` and the policies out of runs (`NoRun`) but lets runs overlap;
`resolvedRoutesMu` is held for the sweep.  Dataplane calls are steps that may fail
when `MayFail`.  A panic (the endless recursion of a route cycle, the dereference of
a nil route) ends all goroutines.  ZAPI messages are delivered in order, so a client
is what it was told last of each prefix (`view`).  A write to a client is taken not to block.

**ObjectTable.**  One forwarding context.  `ids`, `nids`, `free` and `last` are the
fields of `fwdobject.Table` and `NIDPool`; `nid`, `refCount` and `armed` those of
`Base` (`armed`: the cleanup function is still the closure of `Insert`).  What an
object keeps is abstracted to two slots of actions, each with at most one reference:
input and output actions of a port, default actions and one entry of a table.  One
action per request of `fwd.go`: `PortCreate`, `TableCreate` (also at a taken ID),
`EntryAdd`, `EntryRemove`, `PortUpdate` and its two failures, `ObjectDelete`,
`ContextDelete` with `ForceRemove` for each object; `SwapOutput` is the one packet
action that takes a reference.  Requests hold the context's lock and so are one step,
but for the cleanup that a last release sets off: `stack` holds its pending calls,
`CleanupSlot` releases one reference (and descends into the cleanup of what it
referenced), `CleanupEnd` gives the NID back and returns.  The actions forget a
reference after its release returns, so a nested cleanup can meet it again over a
cycle; this is why the frames record the slot they are in.  A device (kernel or tap
port) closes `doneCh` in its cleanup; a second close ends the process (`panicked`).

**Reboot.**  Each member of `Reboots` and `Cancels` is one call.  A critical section of
`rebootMu` is one action, each channel operation another; `cancelReboot` is the number of
tokens in the channel of capacity one, and the send on the unbuffered
`cancelRebootFinish` meets its receive in one step (`Finish`).  A cancel that polls is at
"select"; one that saw the flag clear is at "drain" and takes its token back.  `before`
records which reboots had been accepted when a cancel was called.

**ExactTable, TransientMap.**  Entries are objects of a heap with the four pointers of the
code; the operators on it (`StaleAdd`, `StaleRemove`, `Remove`, ...) take one value of the
table to the next and handlers compose them in the order of the code's calls.  Requests
hold the context's lock; the monitor holds both locks for a pass, reads `t.stale` without
any before it sleeps, and may find it nil after `Cleanup` ("panicked").  Time passes by
`Tick`.  A walk along pointers (`Find`, `Entries`, the collector) is a closure: what is in
every set that holds its start and that its steps do not leave (`Meets`).  That is what the
loops visit, and it means something on a list with a cycle, too.  In the map a key has one
cell, with the actions and the deadline of its entry, or none.  An object no pointer reaches is freed and its slot used again, so `MaxEntries`
bounds a table and not a behaviour.  Two constants name what the code gets wrong and the
run leaves out, `MayOverride` and `MayClearWatched`: see "Also met" below.

**PrefixTable, PrefixMap.**  A key is a sequence of bits.  Splits and merges change the
bits a level holds and not the prefix it stands for, so that prefix names the object.  The
loops of `match`, `find`, `add` and `remove` are recursive operators on the trie.  A
result may be the empty list of actions, which is not the same as none.

**RouteReconciler.**  `StartRoute`'s callback is one job at a time; each SAI call is one
action with the outcome "ok", "refused" or "lost" (it took effect and its answer did not
arrive).  `CreateGroup` to `CreateRoute` and `RemoveMember` to `RemoveRoute` follow the
callback; what each does to the tables is the SAI server's handler.  `data` is `ocRouteData`,
`Reach(p)` is where a packet for `p` goes through FIB, group and next hops.  Object ids are
numbers from 1 on, 0 (`NoId`) is the zero value that Go gives an id that was never set.

**GnmiSet.**  `root` is both trees, one per schema, per leaf; `cached` and `stamp` are the
cache.  `SetTree` copies the tree and unmarshals into it, `updateCache` validates, compares
and asks for permission, `GnmiUpdate` sends one notification, `Reject` and `Fail` end in the
deferred rollback, `Return` in success.  `SetState` is the short way of state updates, which
writes the cache first.  Calls of the two modes interleave between any two of these.  What
ygot, the generated structs and the cache library do is external: a request is what it
writes to each leaf, validation is a set of references between leaves (`Refs`), a
notification is refused whole or taken leaf by leaf unless older than what the cache has.
`Denied` stands for the answers of the path authorization.

## 3. Runs

| run | result | what it shows |
|---|---|---|
| `Queue` | pass | capacity accounting, safe pop, implementation of `QueueFifo`, writes return, delivery |
| `SysRib` | pass | resolution agrees with reachability, preference and cycles as defined without recursion; GUE headers are put on once |
| `SysRibServerSerial` | pass | one goroutine, failing calls: convergence, a true diff base, minimal diffs |
| `SysRibServerConcurrent` | pass | overlapping runs of two goroutines with a connected client: convergence, client in sync |
| `SysRibServerLive` | pass | runs and joins end |
| `SysRibServerStale` | violation | an interface change is overwritten by a run that resolved before it |
| `ObjectTable` | pass | counts cover references, what is in use is live, NIDs are unique, objects leave only unreferenced, cleanups end |
| `Reboot` | pass | the pending flag is exact, a cancel that has returned leaves no reboot behind, no token outlives its cancel, calls end unless a token goes astray |
| `ExactTable` | pass | the stale list is exact and ordered, the monitor wakes in time, actions are released once, implementation of `TransientMap` |
| `PrefixTable` | pass | pointers agree, the longest prefix wins, actions are released, implementation of `PrefixMap` |
| `RouteReconciler` | pass | entries in place keep their next hops, a change without failures ends where it should whatever went before, updates are seen whole, only updates leak next hops |
| `GnmiSet` | pass | tree and cache agree, no config update is dropped, the published config is valid, each change of it permitted |

Each property has a mutant in `PROJECT.json`, a plausible slip in the code that makes it fail.
The types of `Queue`, `ObjectTable`, `Reboot` and `GnmiSet` are proved and not run; those of
`ExactTable`, `PrefixTable` and `RouteReconciler` are a conjunct of their first invariant.

**Bounds.**

* `Queue`: two writers, four writes, capacities 1, 2 and unbounded: enough for a full queue,
  an element at every stage at once, and `Close` at every point.
* `SysRib`: two-bit addresses, nine routes of all kinds with shared next hops, a multi-homed
  subnet, a tie, nested BGP routes and two cycles; every subset of the routes that can
  coexist, every interface state and policy set.
* `SysRibServer`: one-bit addresses (the two hosts and the default), four routes that
  resolve over each other, two interfaces, up to two goroutines and one client. Two
  goroutines already overlap at every step; a third would add runs that differ in nothing
  but name. The theorems cover any number.
* `ObjectTable`: a device port, two tables, two IDs, three NIDs and counts up to three:
  enough for self-references, cycles of two, cleanups nested three deep, a recycled ID and
  NID, and two holders of one object. A cycle of three would need a third ID (both ends of a
  link have one when it is made); the theorems cover it. Requests and packets that would
  take a count beyond `MaxRefs` are left out; releases never are. An object that was cleaned
  up is not built again, as a Go object is not.
* `Reboot`: three reboots and two cancels: a reboot that goes off, one that is cancelled and
  one that comes in between, under two cancels that compete for the token.
* `ExactTable`: three keys in one bucket, so chains of three, three entries, a timeout of
  one tick and two ticks: an entry is used, expires and is added again, at the head, in the
  middle and at the end of chain and list.
* `PrefixTable`: all prefixes of one VRF with up to two further bits and one of another VRF,
  four entries at a time: splits with and without a fork, merges upwards, levels without
  result.
* `RouteReconciler`: two prefixes that share hops, four changes, two failed calls: an update
  or deletion after each kind of half-finished change.
* `GnmiSet`: two users, three requests out of twenty-four, two ticks, one failing
  notification, five leaves in two notifications: a refused replace, a default that returns,
  a stale and a future timestamp and a half-written change can precede one another.

**Symmetry** is used in `ExactTable` (keys, actions) and `RouteReconciler` (prefixes), which
check safety only and nowhere compare or `CHOOSE` among these values.

**Fairness.**

* `Queue`: weak fairness of the in goroutine and of a writer's panic, strong fairness of
  each writer's send, since Go's channels queue blocked senders; none of the out goroutine,
  so the client may stop reading (`Delivered` assumes in its statement that it does not).
* `SysRibServer`: weak fairness of a goroutine in a run and of a connection's handler,
  strong fairness of taking `resolvedRoutesMu`, since `sync.Mutex` hands the lock to a
  starved waiter. Nobody is obliged to change a route or to connect.
* `ObjectTable`: weak fairness of a cleanup in progress, which waits for nothing; no request
  is obliged to come.
* `Reboot`: weak fairness of each reboot's goroutine, of each cancel once called and of the
  meeting on `cancelRebootFinish`, all of which wait for a timer, a mutex or a channel only;
  nobody is obliged to call.
* `ExactTable`, `PrefixTable`, `RouteReconciler` and `GnmiSet` check safety and state no
  fairness.

**Deadlock** is checked in `SysRib` and `PrefixTable`.  The queue stops when all writes are made,
and the server when the process has crashed; in `ObjectTable` the process may panic and the
finitely many objects may be used up; `Reboot`, `RouteReconciler` and `GnmiSet` end with their
bounded calls and `ExactTable` with its clock and cleanup.  Those runs switch the check off.

**Also met while modelling**: behaviour of the code that the models contain, or that they leave
out on purpose, described here without a run.

* sysrib. `egressNexthops` may return a top-level route that did not itself resolve, when
  another of the same preference did (`sysrib.go:511`). The error of one entry's recursion
  ends the resolution of a prefix that has an enabled connected entry too (`sysrib.go:565`);
  such prefixes are outside `ResolvedIffReachable`. Two runs that overlap an interface
  change can record in `programmedRoutes` in the order opposite to programming
  (`server.go:539`). A `deprogramRoute` that failed is retried after `resolvedRoutes` has
  forgotten the key, and `distributeRoute` then dereferences nil (`server.go:485`):
  `NoNilRoute` holds only without failing calls. A client that joins during a run is sent a
  combination of two maps copied at different times and can be left out of sync
  (`zapi.go:179`), also with the next hops of a BGP route under a static one
  (`zapi.go:186`); in the run it is connected from the start. A route that takes a prefix
  over from another origin with equal next hops is not redistributed (`server.go:537`).
* Queue. `Write` sends on `q.in` after it released the lock under which it looked at
  `closed`: `Close` in between makes it panic (`queue.go:108`, action `SendOnClosed`).
* Objects. `ContextDelete` over a cycle of references cleans one object up twice, so that
  its NID is in the pool twice (`object.go:209`). `Update` of a port overwrites its old
  actions without releasing them (`cpu.go:84`, likewise the other ports), and when it fails
  closes `doneCh` and leaves the port in place, whose later cleanup panics (`kernel.go:89`).
  A table built for a taken ID keeps the references of its default actions
  (`object_table.go:93`). `swapOutput` never releases the port it acquires, so `RefsCounted`
  is an inequality.
* gNOI. A cancel that found the reboot gone takes its token back after it released
  `rebootMu`; a reboot accepted in between takes the token first, the cancel and the
  goroutine wait for ever, and later reboots are refused as one is pending (`gnoi.go:174`).
  This is `Crossed`.
* Exact tables. `Clear` leaves the transient entries on the stale list, from where they
  later expire out of chains they are no longer part of (`exact.go:158`); a static entry
  that replaces a transient one stays marked as transient (`exact.go:267`). With
  `MayClearWatched` or `MayOverride` set to `TRUE` TLC shows how `ImplementsMap` and
  `StaleListIsExact` break. The monitor reads `t.stale` without a lock and dies when
  `Cleanup` has set it to nil (`exact.go:326`).
* Prefix tables. Removing a zero-length key with fewer than two children below dereferences
  the root's nil parent (`prefix.go:221`); the SAI server's tables have no such key.
  `RemoveEntry` of an inner level without result succeeds.
* Routes. Deleting a route with several hops empties its group before it removes the route:
  a packet in between makes `selectActionList` divide by a weight sum of zero
  (`routes.go:87`, `select_action_list.go:74`). The answer of `CreateNextHopGroup` is used
  before its error is looked at (`routes.go:145`). `RemoveNextHopGroup` asks the table of
  next hops to remove the entry of a group, which fails (`routing.go:243`), so group entries
  stay. Updates leak the next hops they replace, GUE entries are never removed, and route
  data survives its deletion.
* gNMI. A state update older than the cache's value is dropped and reported as a success
  while the tree takes it (`collector.go:145`); no later difference repairs that. A
  notification that fails after others leaves these in the cache while the tree is rolled
  back (`gnmi.go:387`). `Agreement` names both with `adrift`. The internal part of a request
  of mixed origins is applied before the request is refused (`gnmi.go:452`).

## 4. Proofs

The theorems hold for every value of the constants that satisfies the modules' assumptions;
what a theorem assumes beyond these is said with it.

`QueueProofs` (any writers, capacities and number of writes): `TypeCorrect`,
`CountIsExact`, `PopIsSafe`, `CountersAreExact`, all from one inductive invariant.
`NoEmptyPop` is not inductive: it needs `Wakeful` (a goroutine is woken only with an
element present or the queue closed, and only it removes elements) and `Transit`
(what each goroutine holds at which point).  `QueueIsFifo`: the queue implements
`QueueFifo`.  The abstract buffer is what the out goroutine holds, the slice and what the in
goroutine holds; `InRecv` is a put, the out goroutine's send a get, `Close` the shutdown,
and the other steps move an element within the buffer and are stutters.  That a put finds
room is `CountAccounting`; that moving an element loses none is `Hands` (a goroutine has an
element in hand exactly between taking it and passing it on).

`SysRibProofs` (any finite set of addresses, any routes, interfaces and policies):
`ResolutionIsReachability`, `PreferenceDecides`, `OnlyCyclesLoop`, `HeadersDoNotNest`,
`TypesHold`.  The state invariant is only that the tree holds routes that were added; the
rest is about what one lookup computes.  Statements about all depths are proved from the
least depth that fails them (`Least`, `Induct`).  `AtEquation` shows that the recursive
function exists and satisfies its equation.  An outcome that was not cut off does not change
with more depth (`Stable`).  `LoopingEndless`: the set of addresses whose lookup is still cut
off shrinks by at least one with each level, or stays the same and then its members lead
into one another; so what is cut off at a depth of the number of addresses is on, or leads
to, a cycle.  `ResolvedAlive` and `AliveResolved` relate the recursion to reachability, a
closure of sets of addresses, in both directions.

`SysRibServerProofs` (any routes, prefixes, goroutines and clients) assumes `Steady`:
interface states do not change while another goroutine runs, either because none change or
because one goroutine does everything (`SysRibServerStale` shows what happens otherwise).
Dataplane calls may fail unless a theorem says that they do not.

* `RunsConverge`: quiescence without a failure in the last runs leaves the dataplane with
  exactly what resolves. `RecordsAreExact`: quiescence leaves `programmedRoutes` equal to the
  dataplane, whatever failed. `DiffsAreMinimal`.
* `WithdrawsRealRoutes`: no nil route, without failing calls; with them it is false.
* The invariant says that during runs the resolution of every prefix is fixed, so all of them
  compute the same values (`Visited`, `InHand`); that each key a run has passed is programmed
  with its resolution, in hand, or the run has failed (`Done`, `Swept`); and that what the
  dataplane has is recorded or about to be (`Recorded`). `egressNexthops` is never expanded:
  that it is a function of the RIB, the interfaces and the policies is all these proofs use.
* `ClientsAreInSync`: connected clients have been told exactly the redistributed routes. It
  assumes `Attended`, each part of which names a case where the code leaves a client out of
  sync: routes of one prefix agree on whether they are redistributed (a route that replaces
  one of another origin with the same next hops is not a diff, so nobody is told), clients are
  connected from the start (a join races with runs), and no call fails. A second
  invariant, `Sync`, says that clients know the programmed gateways of a key or some goroutine
  is about to tell them, and that it will tell what is programmed. It needs one fact about
  resolution, that the longest match of a prefix with routes of its own is itself
  (`EgressOfKey`).

TLC also checked `IInv` with two goroutines and failures and with one goroutine and interface
changes, and `Sync` on the instance of `SysRibServerConcurrent`.

`ObjectTableProofs` (any objects, IDs and bounds).  `TypeCorrect`
needs that whatever is armed or on the stack has a NID.
`ReferencesAreCounted`: `RefsCounted` at every step, forced cleanups included.  It is
not inductive: between the release of a reference and its being forgotten the holder
still names the object.  `RefInv` adds that only the innermost cleanup is outside a
release (`Nested`), that what a pending release is about to forget has no reference left
(`Spent`), that an object not yet inserted has none (`Unborn`) and that an object has one
ID (`OneId`).  Cardinalities of the sets of holders grow or shrink by one at a time.
`UsedStaysLive`, `NidsAreDisjoint`, `FoundUntilTheLastRelease` hold until the context
is deleted; after that an object may be cleaned up twice.  `NidInv`: the objects
on the stack are distinct, armed and without references (`Unwinding`); references imply a
cleanup still ahead (`Counted`), which implies an entry in `nids` (`ArmedLive`); the pool
has distinct NIDs that nobody uses (`Pool`).  TLC checked `RefInv` and `NidInv` on the
instance of `ObjectTable`.

`RouteReconcilerProofs` (any prefixes, hops and routes, any number of changes and failed
calls): `NothingDangles`, `LastChangeCounts`, `UpdatesAreAtomic`, `OnlyUpdatesLeak`.  The
properties speak of one prefix; they hold because ids are never shared.  What one prefix
refers to, in the FIB or in its route data, no other does (`Owned`); what the callback is
building nobody refers to yet, and what it removes is its own prefix's (`JobOwned`); ids of
next hops and of groups stay apart (`Kinds`).  `Built` says at each call how much of the
value is in the tables and what is left, so that the last call, the route entry, switches to
all of it.  A group with members left over from a failed change stays out of the way because
its ids are never given out again.  While no call has failed, `Accounted` follows every next
hop to the job, the data of a route or `superseded`.  TLC checked the invariant on the
instance of `RouteReconciler`.

`ExactTableProofs` (any keys, actions, hash function, timeouts and number of entries):
`ExactTableListIsExact`, `ExactTableActionsBalanced`, `ExactTableMonitorInTime` and
`ExactTableImplementsMap`, all from `Inv`.  They assume `~MayOverride` and
`~MayClearWatched`: a static entry that replaces a transient one, and `Clear` with transient
entries, do break the list ("Also met" above), and with it the map.
The argument:

* The state holds pointers only, so the invariant says that an order exists: `Fit` gives
  every entry a rank `r` that grows along its chain and a rank `s` that grows along the stale
  list, with links in both directions that agree (`Linked`, `Ordered`). `Ordered` also says
  that stale times follow the list, which holds because `StaleAdd` gives the latest time and
  puts the entry last. Ranks exclude cycles.
* On such a heap the walks are known: each entry is met, from the one of least rank on
  (`PresentIsLinked`, `ListedIsOrdered`, `FindFacts`), and the collector frees what is in
  neither list (`CollectedIsLinked`).
* One lemma per pointer operation gives its effect field by field (`StaleAddFacts`,
  `StaleRemoveFacts`, `InsertFacts`, `RemoveFacts`) and one says that the order survives
  (`ListOrdered`, `UnlistOrdered`, `InsertLinked`, `CutLinked`). Those on handlers compose
  them: `AddedTable`, `DropShaped`, `UseShaped`.
* The lemmas take the few facts about numbers and cardinalities they need as an assumption,
  `Basics`; `BasicsHold` proves it from the library's theorems before the theorems use it.
* The lemmas on steps (`AddEntryStep` to `TickStep`) show at once that the invariant is kept and
  that the step is one of the map: one key changes (`OneKey`), all are emptied, or time passes.
* For the timer, `Inv` adds that no listed entry is due later than a timeout from now and that
  the monitor does not sleep beyond that, or beyond the fixed sleep when it found nothing.

TLC checked `Inv`, with ranks up to the number of entries, on the instance of `ExactTable`.

`RebootProofs` (any finite sets of calls): `FlagIsExact`, `CancelBlocks`,
`TokensNeverOutliveCancels`, `BootTimeNeverGoesBack`, `TypeCorrect`.  `hasPendingReboot` acts as a
lock that passes from the call to its goroutine and, through `cancelRebootFinish`, to a
cancel: it has an owner exactly when it is set (`FlagOwned`) and never two (`OneOwner`).  So a
cancel that reads it clear knows that nothing it was called for is outstanding (`CancelKnows`),
and a reading of the clock that is yet to be written is the latest (`TimesOrdered`).  The tokens are
counted by cardinalities that change by one.

`GnmiSetProofs` (any schema, users, requests and split into
notifications, under `GnmiAssumption`: config and state leaves are disjoint, defaults are
valid, each leaf is in one notification): `TreeIsCache`, `ConfigReachesCache`,
`PublishedIsValid`, `PermissionsHold`, `TypeCorrect`. `Agreement` speaks of the moments
between calls; the invariant describes a call in progress: the mutex of its mode is its own
(`Held`), before the check the tree before the call is what the cache has (`Copied`), and
with some notifications out the cache is the new tree on what they carried and the old one
elsewhere (`Progress`). The tree a rollback restores is valid because it was when it was
copied (`ValidTrees`). Config stamps are never ahead of the clock, which is why no config
update is stale. TLC checked the invariant on the instance of `GnmiSet`.

Only model-checked:

* liveness and what needs fairness (`WritesReturn`, `Delivered`, `RunsAndJoinsEnd`,
  `CleanupsEnd`, `CallsEndUnlessCrossed`), which the prover does not treat;
* `PrefixTable` and its implementation of `PrefixMap`: the loops over the trie are RECURSIVE
  operators, in whose presence the prover has no SMT backend, and what they compute for every
  trie would need induction over data.

## 5. Not modelled

* The watchers of connected and static routes (`sysrib/connected.go`, `static.go`): they
  turn changes of gNMI paths into calls of `SetRoute`, which `SysRibServer` takes from any
  caller.
* Flow control of ZAPI connections: writes to a client return at once.
* Action tables, flow and bridge tables, port groups, counters; the creation of contexts;
  the numbering of notifications on top of `Queue`; the deadlock timer.
* Interfaces, neighbours and LAGs of the dataplane reconciler, and the SAI objects other
  than next hops, groups and routes: the reference is the kernel's state, or there is little
  state of their own.
* In the gNMI server: requests of internal origin, whose values are in no tree, `Subscribe`
  and the reconciler framework.
* The BGP task, the gRIBI hook: translations in front of the libraries GoBGP and gribigo,
  which hold the state. The gNSI ACL trie: `GnmiSet` takes its answers as a constant.
* Generated code (`gnmi/oc`, protobufs), packet header parsing and checksums (bit-level
  data), kernel and socket I/O, packet streams, the C++ SAI shim, the Kubernetes operator
  (its state is the cluster's), the API generator (a batch program), device start-up.

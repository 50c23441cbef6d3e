---------------------------- MODULE ExactTable ----------------------------
(***************************************************************************)
(* An exact-match table, dataplane/forwarding/fwdtable/exact/exact.go, with*)
(* its list of transient entries and the goroutine that expires them.      *)
(*                                                                         *)
(* Entries are objects of a heap: a hash chain links the entries of a      *)
(* bucket and the stale list links the transient ones, both with pointers  *)
(* in both directions.  AddEntry, RemoveEntry, Clear and Cleanup run under *)
(* the write lock of the context, Process under its read lock and the      *)
(* list's mutex: each is one action.  The monitor takes a step per entry,  *)
(* with both locks held, and one to read the table without them.           *)
(***************************************************************************)
EXTENDS Integers, FiniteSets

CONSTANTS Keys, Acts,   \* keys, and lists of actions of an entry
          Bucket,       \* the hash function: [Keys -> bucket]
          Timeout,      \* stale.timeout
          EmptySleep,   \* the monitor's sleep when no entry is watched
          MaxEntries,   \* bound: the entries that can be reached at one time
          MaxTime,      \* bound: the clock
          Nil

ASSUME BucketAssumption == DOMAIN Bucket = Keys
ASSUME TimesAssumption == {Timeout, EmptySleep, MaxTime} \subseteq Nat
ASSUME EntriesAssumption == MaxEntries \in Nat
ASSUME NilAssumption == Nil \notin 1..MaxEntries /\ Nil \notin Keys

VARIABLES table,       \* the table's fields and the entries they reach, below
          stale,       \* t.stale # nil
          cleaned,     \* Cleanup has run
          now,         \* time.Now
          monitor, wake, \* the monitor goroutine, and when its timer expires
          idle,        \* history: the monitor's last check found an empty list
          watched,     \* history: the table was created with a stale list
          static,      \* history: the keys last added as static, and not removed since
          strayed      \* history: a request has put the stale list out of step, below

monitorVars == <<monitor, wake, idle>>
history == <<static, strayed>>
vars == <<table, stale, cleaned, now, monitorVars, watched, history>>

Entries == 1..MaxEntries
Buckets == {Bucket[k] : k \in Keys}

Blank == [key |-> Nil, actions |-> Nil, hashNext |-> Nil, hashPrev |-> Nil, staleTime |-> 0,
          staleNext |-> Nil, stalePrev |-> Nil, transient |-> FALSE]

\* entry is the heap, in which a Blank entry is free; entries is the map t.entries
\* of chains, head and tail the ends of t.stale; held counts the lists of actions
\* made for entries and not cleaned up yet.
Init == /\ table = [entry |-> [e \in Entries |-> Blank],
                    entries |-> [b \in Buckets |-> Nil], head |-> Nil, tail |-> Nil, held |-> 0]
        /\ stale \in BOOLEAN /\ watched = stale
        /\ cleaned = FALSE
        /\ now = 0
        /\ monitor = (IF stale THEN "lock" ELSE "off") /\ wake = 0 /\ idle = FALSE
        /\ static = {} /\ strayed = FALSE

(***************************************************************************)
(* Operators from one value h of the table to the next: a handler composes *)
(* them in the order of the code's calls.                                  *)
(***************************************************************************)
SetPrev(h, e, p) == IF e = Nil THEN h ELSE [h EXCEPT !.entry[e].stalePrev = p]
SetNext(h, e, n) == IF e = Nil THEN h ELSE [h EXCEPT !.entry[e].staleNext = n]

StaleAdd(h, e) ==
  LET h1 == [h EXCEPT !.entry[e].staleTime = now + Timeout,
                      !.entry[e].stalePrev = h.tail, !.entry[e].staleNext = Nil]
      h2 == IF h.head = Nil THEN [h1 EXCEPT !.head = e] ELSE SetNext(h1, h.tail, e)
  IN  [h2 EXCEPT !.tail = e]

StaleRemoveNotTail(h, e) ==
  LET h1 == SetPrev(h, h.entry[e].staleNext, h.entry[e].stalePrev)
      h2 == SetNext(h1, h1.entry[e].stalePrev, h1.entry[e].staleNext)
  IN  [h2 EXCEPT !.head = IF @ = e THEN h2.entry[e].staleNext ELSE @]

StaleRemove(h, e) ==
  LET h1 == SetPrev(h, h.entry[e].staleNext, h.entry[e].stalePrev)
      h2 == SetNext(h1, h1.entry[e].stalePrev, h1.entry[e].staleNext)
  IN  [h2 EXCEPT !.tail = IF @ = e THEN h2.entry[e].stalePrev ELSE @,
                 !.head = IF @ = e THEN h2.entry[e].staleNext ELSE @]

StaleUse(h, e) == StaleAdd(StaleRemove(h, e), e)

\* A walk that starts at roots and goes on from an entry x to step[x] meets e:
\* every set that holds the roots and that the steps do not leave holds e.
Meets(roots, step, e) ==
  \A S \in SUBSET (Entries \ {e}) :
    roots \ {Nil} \subseteq S => \E x \in S : ~(step[x] \ {Nil} \subseteq S)
Visited(roots, step) == {e \in Entries : Meets(roots, step, e)}

\* The walk along the bucket's chain ends at the first entry with the key.
Found(h, k) ==
  {e \in Entries :
     /\ h.entry[e].key = k
     /\ Meets({h.entries[Bucket[k]]},
              [x \in Entries |-> IF h.entry[x].key = k THEN {} ELSE {h.entry[x].hashNext}], e)}
Find(h, k) == IF Found(h, k) = {} THEN Nil ELSE CHOOSE e \in Found(h, k) : TRUE

\* The entries of all chains.
Present(h) == Visited({h.entries[b] : b \in Buckets}, [e \in Entries |-> {h.entry[e].hashNext}])

\* Entries that nothing refers to any more are garbage and become free.
Collected(h) ==
  LET live == Visited({h.entries[b] : b \in Buckets} \cup {h.head, h.tail},
                      [e \in Entries |-> {h.entry[e].hashNext, h.entry[e].hashPrev,
                                          h.entry[e].staleNext, h.entry[e].stalePrev}])
  IN  [h EXCEPT !.entry = [e \in Entries |-> IF e \in live THEN h.entry[e] ELSE Blank]]

Free(h) == {e \in Entries : h.entry[e] = Blank}
New(h) == CHOOSE e \in Free(h) : TRUE

\* insert: the new entry becomes the head of its chain.
Insert(h, k, a) ==
  LET e == New(h)
      first == h.entries[Bucket[k]]
      h1 == [h EXCEPT !.entry[e] = [Blank EXCEPT !.key = k, !.actions = a, !.hashNext = first],
                      !.entries[Bucket[k]] = e, !.held = @ + 1]
  IN  IF first = Nil THEN h1 ELSE [h1 EXCEPT !.entry[first].hashPrev = e]

RemoveHeadOnly(h, e) ==
  LET n == h.entry[e].hashNext  p == h.entry[e].hashPrev
      h1 == IF n = Nil THEN h ELSE [h EXCEPT !.entry[n].hashPrev = p]
      h2 == [h1 EXCEPT !.entries[Bucket[h.entry[e].key]] = n]
  IN  [h2 EXCEPT !.held = @ - 1]

\* remove: the links are mended, the head of the bucket only when e has no
\* predecessor, and the entry's actions are cleaned up.
Remove(h, e) ==
  LET n == h.entry[e].hashNext  p == h.entry[e].hashPrev
      h1 == IF n = Nil THEN h ELSE [h EXCEPT !.entry[n].hashPrev = p]
      h2 == IF p = Nil THEN [h1 EXCEPT !.entries[Bucket[h.entry[e].key]] = n]
                       ELSE [h1 EXCEPT !.entry[p].hashNext = n]
  IN  [h2 EXCEPT !.held = @ - 1]

(***************************************************************************)
(* The requests                                                            *)
(***************************************************************************)
\* The end of AddEntry, for an entry that now has its actions.
Watch(h, e, transient) ==
  LET h1 == IF h.entry[e].transient THEN StaleRemove(h, e) ELSE h
  IN  IF ~stale THEN h
      ELSE IF transient THEN StaleAdd([h1 EXCEPT !.entry[e].transient = TRUE], e) ELSE h1

\* A transient entry for the key of a static one is refused, unless the actions
\* are the same; either way the new actions are cleaned up and nothing changes.
Refuses(h, e, transient) == e # Nil /\ transient /\ ~h.entry[e].transient

UpdatedLeaking(h, e, a) == [h EXCEPT !.entry[e].actions = a, !.held = @ + 1]
Updated(h, e, a) == [h EXCEPT !.entry[e].actions = a]

Added(h, k, a, transient) ==
  LET e == Find(h, k)
      h1 == Insert(h, k, a)
  IN  IF Refuses(h, e, transient) THEN h
      ELSE IF e = Nil THEN Watch(h1, New(h), transient)
      ELSE Watch(Updated(h, e, a), e, transient)

\* The process lives, and the context's lock is not held by the monitor.
Unlocked == monitor \notin {"process", "panicked"}
Usable == ~cleaned /\ Unlocked

\* StaleAdd of e, after StaleRemove if it is transient already, meets a list with
\* a head and no tail: the nil dereference ends the process.
Faults(e) ==
  LET h == IF e # Nil /\ table.entry[e].transient THEN StaleRemove(table, e) ELSE table
  IN  h.head # Nil /\ h.tail = Nil
Panic == /\ monitor' = "panicked"
         /\ UNCHANGED <<table, stale, cleaned, now, wake, idle, watched, history>>

\* A static entry replaces a transient one: it is taken off the stale list and
\* stays marked as transient, so that later requests treat it as listed.
Overrides(e, transient) == e # Nil /\ ~transient /\ table.entry[e].transient

AddEntry(k, a, transient) ==
  LET e == Find(table, k)
      refused == Refuses(table, e, transient)
  IN  /\ Usable
      /\ e = Nil => Free(table) # {}
      /\ IF stale /\ transient /\ ~refused /\ Faults(e) THEN Panic
         ELSE /\ table' = Added(table, k, a, transient)
              /\ static' = IF refused THEN static
                           ELSE IF transient THEN static \ {k} ELSE static \cup {k}
              /\ strayed' = (strayed \/ Overrides(e, transient))
              /\ UNCHANGED <<stale, cleaned, now, monitorVars, watched>>

Removed(h, e) == Remove(IF stale /\ h.entry[e].transient THEN StaleRemove(h, e) ELSE h, e)

RemoveEntry(k) ==
  /\ Usable
  /\ Find(table, k) # Nil
  /\ table' = Collected(Removed(table, Find(table, k)))
  /\ static' = static \ {k}
  /\ UNCHANGED <<stale, cleaned, now, monitorVars, watched>> /\ UNCHANGED strayed

\* Clear empties the chains; the transient entries stay on the stale list, with
\* their links to the chains they were in.
Emptied(h) == [h EXCEPT !.entries = [b \in Buckets |-> Nil],
                        !.held = @ - Cardinality(Present(h))]

Clear == /\ Usable
         /\ table' = Collected(Emptied(table))
         /\ static' = {} /\ strayed' = (strayed \/ table.head # Nil)
         /\ UNCHANGED <<stale, cleaned, now, monitorVars, watched>>

\* Cleanup of a table that is being deleted; stop is closed with t.stale = nil.
Cleanup ==
  /\ Usable
  /\ cleaned' = TRUE
  /\ stale' = FALSE
  /\ table' = Collected(Emptied(table))
  /\ static' = {}
  /\ UNCHANGED <<now, monitorVars, watched>> /\ UNCHANGED strayed

\* Process of a packet whose key is k: its entry's actions are returned, those
\* of the table if there is none, and a transient entry is used.
Uses(h, e) == e # Nil /\ stale /\ h.entry[e].transient
Used(h, e) == IF Uses(h, e) THEN StaleUse(h, e) ELSE h

Process(k) ==
  LET e == Find(table, k)
  IN  /\ Usable
      /\ IF Uses(table, e) /\ Faults(e) THEN Panic
         ELSE /\ table' = Used(table, e)
              /\ UNCHANGED <<stale, cleaned, now, monitorVars, watched>> /\ UNCHANGED history

(***************************************************************************)
(* The monitor                                                             *)
(***************************************************************************)
IsStale(e) == e # Nil /\ table.entry[e].staleTime < now

\* ctx.Lock and staleMu.Lock; t.stale is nil if Cleanup got the lock first, and
\* the nil dereference ends the process.
MonitorLock ==
  /\ monitor = "lock"
  /\ monitor' = IF stale THEN "process" ELSE "panicked"
  /\ UNCHANGED <<table, stale, cleaned, now, wake, idle, watched>> /\ UNCHANGED history

\* One round of the loop of process: the entry at the head of the list is stale.
MonitorExpire ==
  /\ monitor = "process"
  /\ IsStale(table.head)
  /\ table' = Collected(Remove(StaleRemove(table, table.head), table.head))
  /\ UNCHANGED <<stale, cleaned, now, monitorVars, watched>> /\ UNCHANGED history

\* The end of process, with the time till the next check, and the unlocks.
MonitorProcessedLate ==
  /\ monitor = "process"
  /\ ~IsStale(table.head)
  /\ monitor' = "unlocked"
  /\ wake' = now + (IF table.tail = Nil THEN EmptySleep ELSE table.entry[table.tail].staleTime - now)
  /\ idle' = (table.head = Nil)
  /\ UNCHANGED <<table, stale, cleaned, now, watched>> /\ UNCHANGED history

MonitorProcessed ==
  /\ monitor = "process"
  /\ ~IsStale(table.head)
  /\ monitor' = "unlocked"
  /\ wake' = now + (IF table.head = Nil THEN EmptySleep ELSE table.entry[table.head].staleTime - now)
  /\ idle' = (table.head = Nil)
  /\ UNCHANGED <<table, stale, cleaned, now, watched>> /\ UNCHANGED history

\* t.stale.stop is read, without a lock, as the select is entered.
MonitorSelect ==
  /\ monitor = "unlocked"
  /\ monitor' = IF stale THEN "sleep" ELSE "panicked"
  /\ UNCHANGED <<table, stale, cleaned, now, wake, idle, watched>> /\ UNCHANGED history

MonitorWake ==
  /\ monitor = "sleep"
  /\ now >= wake
  /\ monitor' = "lock"
  /\ UNCHANGED <<table, stale, cleaned, now, wake, idle, watched>> /\ UNCHANGED history

MonitorStop ==
  /\ monitor = "sleep"
  /\ ~stale
  /\ monitor' = "done"
  /\ UNCHANGED <<table, stale, cleaned, now, wake, idle, watched>> /\ UNCHANGED history

Monitor == MonitorLock \/ MonitorExpire \/ MonitorProcessed \/ MonitorSelect \/ MonitorWake \/ MonitorStop

\* Time passes, though not while the monitor processes its list.
Tick == /\ now < MaxTime
        /\ Unlocked
        /\ now' = now + 1
        /\ UNCHANGED <<table, stale, cleaned, monitorVars, watched>> /\ UNCHANGED history

Next == \/ \E k \in Keys, a \in Acts, t \in BOOLEAN : AddEntry(k, a, t)
        \/ \E k \in Keys : RemoveEntry(k) \/ Process(k)
        \/ Clear \/ Cleanup \/ Monitor \/ Tick

Spec == Init /\ [][Next]_vars

(***************************************************************************)
(* Properties                                                              *)
(***************************************************************************)
Ref == Entries \cup {Nil}
EntryType == [key : Keys \cup {Nil}, actions : Acts \cup {Nil}, hashNext : Ref, hashPrev : Ref,
              staleTime : 0..(MaxTime + Timeout), staleNext : Ref, stalePrev : Ref,
              transient : BOOLEAN]

\* The types of the table's fields.
TypeOK ==
  /\ table \in [entry : [Entries -> EntryType], entries : [Buckets -> Ref],
                head : Ref, tail : Ref, held : Nat]
  /\ {stale, cleaned, idle, watched} \subseteq BOOLEAN
  /\ now \in 0..MaxTime /\ wake \in Nat
  /\ monitor \in {"off", "lock", "process", "unlocked", "sleep", "done", "panicked"}

Watched == {e \in Present(table) : table.entry[e].transient}

Listed == Visited({table.head}, [e \in Entries |-> {table.entry[e].staleNext}])

ListIsExact ==
  /\ Listed = Watched
  /\ table.head = Nil => table.tail = Nil
  /\ table.head # Nil => table.entry[table.head].stalePrev = Nil
  /\ \A e \in Listed :
       LET n == table.entry[e].staleNext
       IN  IF n = Nil THEN table.tail = e
           ELSE table.entry[n].stalePrev = e /\ table.entry[e].staleTime <= table.entry[n].staleTime

\* Until a static entry has replaced a transient one, or the table was cleared with
\* transient entries in it, the table keeps its types and the stale list holds
\* exactly its transient entries, linked both ways, in the order in which they
\* become stale: the monitor may stop at the first entry that is not stale
\* (exact.go, add, remove, use and process).
StaleListIsExact == ~strayed => TypeOK /\ (stale => ListIsExact)

\* Until then every list of actions made for an entry is cleaned up exactly once,
\* when its entry is updated, removed, refused, expired or cleared: the objects
\* that actions refer to are counted.
ActionsBalanced == ~strayed => table.held = Cardinality(Present(table))

InTime ==
  stale /\ monitor \in {"unlocked", "sleep"} =>
    \A e \in Watched :
      LET due == table.entry[e].staleTime  used == due - Timeout
      IN  wake <= due \/ (idle /\ wake <= used + EmptySleep)

\* Until then, whenever the monitor sleeps, its timer is not later than the first
\* moment at which a transient entry becomes stale; only an entry added since a
\* check that found the list empty may wait for the fixed sleep instead.  Entries
\* that are used move back, and the head may go, so no entry is overlooked.
MonitorInTime == ~strayed => InTime

\* Until then the table is a map from keys to actions, from which only transient
\* entries that nobody used for the timeout disappear by themselves.
Cell(h, e) == [acts |-> h.entry[e].actions,
               deadline |-> IF h.entry[e].transient THEN h.entry[e].staleTime ELSE -1]
Contents(h) == [k \in Keys |-> {Cell(h, e) : e \in Found(h, k)}]
Map == INSTANCE TransientMap WITH ageing <- watched, map <- Contents(table)
ImplementsMap == Map!MapInit /\ [][strayed' \/ Map!MapNext]_(Map!mapVars)

\* A key that was last added as a static entry, and neither removed nor cleared
\* since, is in the table: forwarding_table.proto has time remove transient entries
\* only.  The code breaks it: a static entry that replaced a transient one keeps
\* its mark, and the first packet that uses it puts it back on the stale list.
StaticStays == \A k \in static : Find(table, k) # Nil
=============================================================================

------------------------------ MODULE GnmiSet ------------------------------
(***************************************************************************)
(* The Set handler of the gNMI server (gnmi/gnmi.go) and the collector it  *)
(* writes to (gnmi/collector.go).  A leaf lives twice: in the tree of its  *)
(* schema (configSchema.Root or stateSchema.Root), against which requests  *)
(* are unmarshalled, validated and compared, and in the one cache, which   *)
(* subscribers read and which drops what is older than what it has.        *)
(*                                                                         *)
(* configMu and stateMu serialize the calls of a mode; calls of different  *)
(* modes interleave between any two notifications.  The paths of a request *)
(* name only leaves of its mode.  Requests with an internal origin are     *)
(* left out.                                                               *)
(***************************************************************************)
EXTENDS Integers, FiniteSets

CONSTANTS Procs,         \* callers of Set, each a user of its own
          Config, State, \* the leaves
          Vals, Nil,     \* their values; Nil is absence
          Defaults,      \* what PopulateDefaults puts in an absent config leaf
          Refs,          \* pairs of config leaves: the first needs the second
          Denied,        \* pairs: this user may not write that leaf
          Parts,         \* the sets of leaves that share a notification
          Requests,      \* the requests that are made
          MaxTime,       \* bound: the clock
          MaxSets,       \* bound: calls
          MaxFailures    \* bound: notifications the cache refuses

Leaves == Config \cup State
Modes == {"config", "state"}
Of(m) == IF m = "config" THEN Config ELSE State
Stored == Vals \cup {Nil}

\* A request: its mode, the timestamp of its metadata (0 without), whether it has
\* updates only, and what it writes.  A replace writes Nil to the leaves of its
\* container that it does not name, a delete to the leaf it names.
IsRequest(r) ==
  /\ DOMAIN r = {"mode", "ts", "updates", "write"}
  /\ r.mode \in Modes /\ r.ts \in 0..MaxTime /\ r.updates \in BOOLEAN
  /\ DOMAIN r.write \subseteq Of(r.mode)
  /\ \A l \in DOMAIN r.write : r.write[l] \in IF r.updates THEN Vals ELSE Stored

ASSUME GnmiAssumption ==
  /\ Config \cap State = {} /\ Nil \notin Vals /\ Nil \notin Procs
  /\ Defaults \in [Config -> Stored]
  /\ \A r \in Refs : Defaults[r[1]] # Nil => Defaults[r[2]] # Nil
  /\ Refs \subseteq Config \X Config /\ Denied \subseteq Procs \X Config
  /\ \A r \in Requests : IsRequest(r)
  /\ UNION Parts = Leaves /\ \A a, b \in Parts : a # b => a \cap b = {}
  /\ MaxTime \in Nat \ {0} /\ MaxSets \in Nat /\ MaxFailures \in Nat

VARIABLES root,     \* the trees of both schemas, per leaf
          cached,   \* the cache, per leaf
          stamp,    \* the timestamp of a cached leaf
          now,      \* time.Now
          owner,    \* who holds configMu and stateMu
          call,     \* per process its call of Set
          adrift,   \* the leaves on which tree and cache were let go apart
          sets, failures

vars == <<root, cached, stamp, now, owner, call, adrift, sets, failures>>

Idle == [pc |-> "idle"]

NewServer == [l \in Leaves |-> IF l \in Config THEN Defaults[l] ELSE Nil]

Init == /\ root = NewServer /\ cached = NewServer
        /\ stamp = [l \in Leaves |-> 1]
        /\ now = 1
        /\ owner = [m \in Modes |-> Nil]
        /\ call = [p \in Procs |-> Idle]
        /\ adrift = {} /\ sets = 0 /\ failures = 0

Tick == /\ now < MaxTime
        /\ now' = now + 1
        /\ UNCHANGED <<root, cached, stamp, owner, call, adrift, sets, failures>>

\* A call of Set arrives and waits for the mutex of its mode.
Call(p, r) ==
  /\ call[p].pc = "idle" /\ sets < MaxSets
  /\ sets' = sets + 1
  /\ call' = [call EXCEPT ![p] = [pc |-> "called", req |-> r]]
  /\ UNCHANGED <<root, cached, stamp, now, owner, adrift, failures>>

Lock(p, m) == owner[m] = Nil /\ owner' = [owner EXCEPT ![m] = p]
Unlock(p) == /\ owner' = [owner EXCEPT ![call[p].req.mode] = Nil]
             /\ call' = [call EXCEPT ![p] = Idle]

\* UnmarshalSetRequest into the tree.
Unmarshalled(r) == [l \in Leaves |-> IF l \in DOMAIN r.write THEN r.write[l] ELSE root[l]]

PopulateDefaults(t) == [l \in Leaves |-> IF l \in Config /\ t[l] = Nil THEN Defaults[l] ELSE t[l]]

unmarshalSetRequest(r) ==
  IF r.mode = "config" THEN PopulateDefaults(Unmarshalled(r)) ELSE Unmarshalled(r)

\* A request of updates for state takes the short way: the cache first.
Short(r) == r.mode = "state" /\ r.updates

\* The parts of a change of the leaves ls: one notification each.
Notifications(ls) == {n \in Parts : n \cap ls # {}}

\* The request does not unmarshal on the short way.
Refuse(p) ==
  /\ call[p].pc = "called" /\ Short(call[p].req)
  /\ owner["state"] = Nil
  /\ call' = [call EXCEPT ![p] = Idle]
  /\ UNCHANGED <<root, cached, stamp, now, owner, adrift, sets, failures>>

\* set, with the mutex held, up to the first notification on the short way.
SetState(p) ==
  LET r == call[p].req
  IN  /\ call[p].pc = "called" /\ Short(r)
      /\ Lock(p, "state")
      /\ call' = [call EXCEPT ![p] =
           [pc |-> "notify", req |-> r, prev |-> root, change |-> DOMAIN r.write,
            todo |-> Notifications(DOMAIN r.write)]]
      /\ UNCHANGED <<root, cached, stamp, now, adrift, sets, failures>>

\* set otherwise: the tree is copied and the request unmarshalled into it.
SetTree(p) ==
  LET r == call[p].req
  IN  /\ call[p].pc = "called" /\ ~Short(r)
      /\ Lock(p, r.mode)
      /\ root' = unmarshalSetRequest(r)
      /\ call' = [call EXCEPT ![p] = [pc |-> "check", req |-> r, prev |-> root]]
      /\ UNCHANGED <<cached, stamp, now, adrift, sets, failures>>

Validate(t) == \A x \in Refs : t[x[1]] # Nil => t[x[2]] # Nil

\* The leaves of the mode that DiffWithAtomic finds changed.
Diff(p) == {l \in Of(call[p].req.mode) : root[l] # call[p].prev[l]}

checkWritePermission(p, ls) == \A l \in ls : <<p, l>> \notin Denied

PassesNamed(p) ==
  call[p].req.mode = "config" =>
    LET w == call[p].req.write
    IN  Validate(root) /\ checkWritePermission(p, {l \in DOMAIN w : w[l] # Nil})

PassesPrevious(p) ==
  call[p].req.mode = "config" => Validate(call[p].prev) /\ checkWritePermission(p, Diff(p))

\* What set asks of the new tree before the cache is touched.
Passes(p) == call[p].req.mode = "config" => Validate(root) /\ checkWritePermission(p, Diff(p))

updateCache(p) ==
  /\ call[p].pc = "check"
  /\ Passes(p)
  /\ call' = [call EXCEPT ![p] =
       [pc |-> "notify", req |-> call[p].req, prev |-> call[p].prev, change |-> Diff(p),
        todo |-> Notifications(Diff(p))]]
  /\ UNCHANGED <<root, cached, stamp, now, owner, adrift, sets, failures>>

NotRolledBack(p) == root

\* The deferred function of set, when it failed on the long way.
RolledBack(p) == [l \in Leaves |-> IF l \in Of(call[p].req.mode) THEN call[p].prev[l] ELSE root[l]]

\* The request does not unmarshal, a validator refuses it, or it does not pass.
Reject(p) ==
  /\ call[p].pc = "check"
  /\ root' = RolledBack(p)
  /\ Unlock(p)
  /\ UNCHANGED <<cached, stamp, now, adrift, sets, failures>>

\* The value that a notification carries for l.
New(p, l) == IF Short(call[p].req) THEN call[p].req.write[l] ELSE root[l]

TimestampOfMetadata(p) == IF call[p].req.ts # 0 THEN call[p].req.ts ELSE now

\* GnmiUpdate stamps a notification without timestamp as late as it can.
\* Only a request for state brings its own.
Timestamp(p) == IF call[p].req.mode = "state" /\ call[p].req.ts # 0 THEN call[p].req.ts ELSE now

\* The cache takes a leaf that is not older than the one it has.
Fresh(p, n) == {l \in n \cap call[p].change : cached[l] = Nil \/ stamp[l] <= Timestamp(p)}

\* GnmiUpdate of the notification n; that the cache finds a leaf stale is
\* logged and otherwise taken for success.
GnmiUpdate(p, n) ==
  LET given == n \cap call[p].change
  IN  /\ call[p].pc = "notify" /\ n \in call[p].todo
      /\ cached' = [l \in Leaves |-> IF l \in Fresh(p, n) THEN New(p, l) ELSE cached[l]]
      /\ stamp' = [l \in Leaves |-> IF l \in Fresh(p, n) THEN Timestamp(p) ELSE stamp[l]]
      /\ adrift' = (adrift \ given) \cup {l \in given \ Fresh(p, n) : cached[l] # New(p, l)}
      /\ call' = [call EXCEPT ![p].todo = call[p].todo \ {n}]
      /\ UNCHANGED <<root, now, owner, sets, failures>>

\* GnmiUpdate fails: the tree is restored, notifications before this one stay.
Fail(p) ==
  /\ call[p].pc = "notify" /\ call[p].todo # {} /\ failures < MaxFailures
  /\ failures' = failures + 1
  /\ root' = IF Short(call[p].req) THEN root ELSE RolledBack(p)
  /\ adrift' = adrift \cup (call[p].change \ UNION call[p].todo)
  /\ Unlock(p)
  /\ UNCHANGED <<cached, stamp, now, sets>>

\* set returns without error; on the short way the tree is last.
Return(p) ==
  /\ call[p].pc = "notify" /\ call[p].todo = {}
  /\ root' = IF Short(call[p].req) THEN unmarshalSetRequest(call[p].req) ELSE root
  /\ Unlock(p)
  /\ UNCHANGED <<cached, stamp, now, adrift, sets, failures>>

Step(p) == \/ \E r \in Requests : Call(p, r)
           \/ Refuse(p)
           \/ SetState(p)
           \/ SetTree(p)
           \/ updateCache(p)
           \/ Reject(p)
           \/ \E n \in Parts : GnmiUpdate(p, n)
           \/ Fail(p)
           \/ Return(p)

Next == Tick \/ \E p \in Procs : Step(p)

Spec == Init /\ [][Next]_vars

(***************************************************************************)
(* Properties                                                              *)
(***************************************************************************)
Tree == [Leaves -> Stored]

Calls == {Idle}
         \cup [pc : {"called"}, req : Requests]
         \cup [pc : {"check"}, req : Requests, prev : Tree]
         \cup [pc : {"notify"}, req : Requests, prev : Tree, change : SUBSET Leaves, todo : SUBSET Parts]

\* Trees and cache hold values of the schema, and calls have the form of their
\* step.
TypeOK == /\ root \in Tree /\ cached \in Tree
          /\ stamp \in [Leaves -> 1..MaxTime] /\ now \in 1..MaxTime
          /\ owner \in [Modes -> Procs \cup {Nil}]
          /\ call \in [Procs -> Calls]
          /\ adrift \subseteq Leaves
          /\ sets \in 0..MaxSets /\ failures \in 0..MaxFailures

\* Between the calls of a mode its tree represents the cache, which is what the
\* next call computes its difference from, except on the leaves for which the
\* cache dropped an old update or a failed call had already been half written.
Agreement ==
  \A m \in Modes : owner[m] = Nil => \A l \in Of(m) \ adrift : root[l] = cached[l]

\* As long as the cache refuses no notification, no config leaf goes adrift:
\* the timestamp of a request for config is not looked at, and the one it gets is
\* never behind that of the leaf it overwrites.
ConfigNeverDropped == failures = 0 => adrift \cap Config = {}

\* Subscribers are left with a valid configuration, however many requests were
\* refused in between.
ValidPublished ==
  owner["config"] = Nil /\ adrift \cap Config = {} => Validate(cached)

\* A config leaf changes in the cache only for a user that may write it, also
\* when a replace deletes it or a default takes its place.
OnlyPermitted ==
  [][\A l \in Config : cached'[l] # cached[l] => <<owner["config"], l>> \notin Denied]_vars
=============================================================================

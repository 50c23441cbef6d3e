--------------------------- MODULE GnmiSetProofs ----------------------------
(***************************************************************************)
(* The inductive invariant of GnmiSet, that each step of Set keeps it, and *)
(* the properties that follow, for every set of callers, leaves, values,   *)
(* defaults, references, permissions, notifications and requests.          *)
(*                                                                         *)
(* Agreement speaks of the time between calls only.  The invariant adds    *)
(* what holds while a call has the mutex: the copy of the tree still       *)
(* represents the cache on the leaves whose notification is outstanding,   *)
(* and the new values are in the cache on the others.                      *)
(***************************************************************************)
EXTENDS GnmiSet, TLAPS

Working(p) == call[p].pc \in {"check", "notify"}

\* The mutex of a mode is held exactly by the call that works on it.
Held == /\ \A p \in Procs : Working(p) => owner[call[p].req.mode] = p
        /\ \A m \in Modes : owner[m] # Nil => Working(owner[m]) /\ call[owner[m]].req.mode = m

\* Before the cache is touched the copy represents it.
Copied(p) == /\ ~Short(call[p].req)
             /\ \A l \in Of(call[p].req.mode) \ adrift : call[p].prev[l] = cached[l]

\* A leaf whose notification is outstanding.
Pending(p, l) == l \in call[p].change /\ l \in UNION call[p].todo

Progress(p) ==
  /\ call[p].change \subseteq Of(call[p].req.mode)
  /\ Short(call[p].req) => /\ call[p].change = DOMAIN call[p].req.write
                           /\ \A l \in State : root[l] = call[p].prev[l]
  /\ \A l \in Of(call[p].req.mode) \ call[p].change : root[l] = call[p].prev[l]
  /\ \A l \in Of(call[p].req.mode) \ adrift :
       IF l \in call[p].change /\ ~Pending(p, l) THEN cached[l] = New(p, l)
                                                 ELSE cached[l] = call[p].prev[l]

\* The trees of config that may become, or may be restored as, the last word.
ValidTrees(p) ==
  call[p].req.mode = "config" =>
    /\ Validate(call[p].prev)
    /\ call[p].pc = "notify" => Validate(root) /\ checkWritePermission(p, call[p].change)

IInv == /\ TypeOK
        /\ Held
        /\ Agreement
        /\ \A p \in Procs : call[p].pc = "check" => Copied(p)
        /\ \A p \in Procs : call[p].pc = "notify" => Progress(p)
        /\ \A p \in Procs : Working(p) => ValidTrees(p)
        /\ owner["config"] = Nil => Validate(root)
        /\ \A l \in Config : stamp[l] <= now
        /\ ConfigNeverDropped

\* The parts of the assumption on the constants that most steps need.
LEMMA Disjoint == Config \cap State = {}
  BY GnmiAssumption, ZenonT(40)
\* No process is the absent owner of a mutex.
LEMMA NilApart == Nil \notin Procs
  BY GnmiAssumption, ZenonT(40)
\* References are between config leaves.
LEMMA RefsTyped == Refs \subseteq Config \X Config
  BY GnmiAssumption, ZenonT(40)
\* Every leaf is in one notification only.
LEMMA PartsApart == UNION Parts = Leaves /\ \A a, b \in Parts : a # b => a \cap b = {}
  BY GnmiAssumption, ZenonT(40)

\* What the request, the tree before and the notifications of a call can be.
LEMMA CallShape ==
  ASSUME TypeOK, NEW p \in Procs
  PROVE  /\ call[p].pc \in {"idle", "called", "check", "notify"}
         /\ call[p].pc # "idle" => call[p].req \in Requests /\ call[p].req.mode \in Modes
         /\ Working(p) => call[p].prev \in Tree
         /\ call[p].pc = "notify" => call[p].change \subseteq Leaves /\ call[p].todo \subseteq Parts
<1>1. call[p] \in Calls
  BY ZenonT(40) DEF TypeOK
<1>2. \A r \in Requests : r.mode \in Modes
  BY GnmiAssumption, ZenonT(40) DEF IsRequest
<1>. QED
  BY <1>1, <1>2 DEF Calls, Idle, Working

\* What a request writes are values of leaves of its mode.
LEMMA RequestShape ==
  ASSUME NEW r \in Requests
  PROVE  /\ r.mode \in Modes /\ r.ts \in 0..MaxTime
         /\ DOMAIN r.write \subseteq Of(r.mode) /\ DOMAIN r.write \subseteq Leaves
         /\ \A l \in DOMAIN r.write : r.write[l] \in Stored
  BY GnmiAssumption, ZenonT(40) DEF IsRequest, Of, Leaves, Stored, Modes

\* Unmarshalling a request, defaults included, yields a tree.
LEMMA UnmarshalTree ==
  ASSUME TypeOK, NEW r \in Requests
  PROVE  unmarshalSetRequest(r) \in Tree
<1>1. Unmarshalled(r) \in Tree
  BY RequestShape, ZenonT(40) DEF Unmarshalled, Tree, TypeOK
<1>2. ASSUME NEW t \in Tree PROVE PopulateDefaults(t) \in Tree
  BY GnmiAssumption, ZenonT(40) DEF PopulateDefaults, Tree
<1>. QED
  BY <1>1, <1>2, ZenonT(40) DEF unmarshalSetRequest

\* The initial state satisfies the invariant.
LEMMA InitIInv == Init => IInv
<1> SUFFICES ASSUME Init PROVE IInv
  BY ZenonT(40)
<1>1. NewServer \in Tree
  BY GnmiAssumption, ZenonT(40) DEF NewServer, Tree, Leaves, Stored
<1>2. TypeOK
  BY <1>1, GnmiAssumption DEF Init, TypeOK, Calls
<1>3. \A p \in Procs : ~Working(p) /\ call[p].pc \notin {"check", "notify"}
  BY ZenonT(40) DEF Init, Working, Idle
<1>4. Held
  BY <1>3, ZenonT(40) DEF Held, Init
<1>5. Agreement
  BY ZenonT(40) DEF Agreement, Init
<1>6. Validate(root)
  BY GnmiAssumption, ZenonT(40) DEF Validate, Init, NewServer, Leaves
<1>7. \A l \in Config : stamp[l] <= now
  BY DEF Init, Leaves
<1>8. ConfigNeverDropped
  BY ZenonT(40) DEF ConfigNeverDropped, Init
<1>. QED
  BY <1>2, <1>3, <1>4, <1>5, <1>6, <1>7, <1>8, ZenonT(40) DEF IInv

\* Every step keeps the types.
LEMMA TypeStep == IInv /\ [Next]_vars => TypeOK'
<1> SUFFICES ASSUME IInv, TypeOK, [Next]_vars PROVE TypeOK'
  BY ZenonT(40) DEF IInv
<1> USE GnmiAssumption
<1>1. CASE Tick
  BY <1>1 DEF Tick, TypeOK
<1>2. ASSUME NEW p \in Procs, NEW r \in Requests, Call(p, r) PROVE TypeOK'
  BY <1>2 DEF Call, TypeOK, Calls
<1>3. ASSUME NEW p \in Procs, Refuse(p) PROVE TypeOK'
  BY <1>3, ZenonT(40) DEF Refuse, TypeOK, Calls
<1>4. ASSUME NEW p \in Procs, SetState(p) PROVE TypeOK'
  <2>1. call[p].req \in Requests
    BY <1>4, CallShape, ZenonT(40) DEF SetState
  <2>2. DOMAIN call[p].req.write \subseteq Leaves
    BY <2>1, RequestShape, ZenonT(40)
  <2>3. call' \in [Procs -> Calls]
    BY <1>4, <2>1, <2>2, ZenonT(40) DEF SetState, TypeOK, Calls, Notifications
  <2>. QED
    BY <1>4, <2>3, ZenonT(40) DEF SetState, Lock, TypeOK, Modes
<1>5. ASSUME NEW p \in Procs, SetTree(p) PROVE TypeOK'
  <2>1. call[p].req \in Requests /\ call[p].req.mode \in Modes
    BY <1>5, CallShape, ZenonT(40) DEF SetTree
  <2>2. root' \in Tree
    BY <1>5, <2>1, UnmarshalTree, ZenonT(40) DEF SetTree
  <2>3. call' \in [Procs -> Calls]
    BY <1>5, <2>1, ZenonT(40) DEF SetTree, TypeOK, Calls
  <2>. QED
    BY <1>5, <2>1, <2>2, <2>3, ZenonT(40) DEF SetTree, Lock, TypeOK
<1>6. ASSUME NEW p \in Procs, updateCache(p) PROVE TypeOK'
  <2>1. call[p].req \in Requests /\ call[p].prev \in Tree /\ Diff(p) \subseteq Leaves
    BY <1>6, CallShape, ZenonT(40) DEF updateCache, Working, Diff, Of, Leaves
  <2>2. call' \in [Procs -> Calls]
    BY <1>6, <2>1, ZenonT(40) DEF updateCache, TypeOK, Calls, Notifications
  <2>. QED
    BY <1>6, <2>2, ZenonT(40) DEF updateCache, TypeOK
<1>7. ASSUME NEW p \in Procs, Working(p) PROVE RolledBack(p) \in Tree
  BY <1>7, CallShape DEF RolledBack, TypeOK, Tree
<1>8. ASSUME NEW p \in Procs, Working(p), Unlock(p)
      PROVE  call' \in [Procs -> Calls] /\ owner' \in [Modes -> Procs \cup {Nil}]
  BY <1>8, CallShape, Zenon DEF Unlock, TypeOK, Calls
<1>9. ASSUME NEW p \in Procs, Reject(p) PROVE TypeOK'
  BY <1>7, <1>8, <1>9, ZenonT(40) DEF Reject, Working, TypeOK
<1>10. ASSUME NEW p \in Procs, NEW n \in Parts, GnmiUpdate(p, n) PROVE TypeOK'
  <2>1. /\ call[p].pc = "notify" /\ call[p].req \in Requests /\ call[p].prev \in Tree
        /\ call[p].change \subseteq Leaves /\ call[p].todo \subseteq Parts
    BY <1>10, CallShape, ZenonT(40) DEF GnmiUpdate, Working
  <2>2. call[p] \in [pc : {"notify"}, req : Requests, prev : Tree, change : SUBSET Leaves, todo : SUBSET Parts]
    BY <2>1 DEF TypeOK, Calls, Idle
  <2>3. [call[p] EXCEPT !.todo = call[p].todo \ {n}] \in Calls
    BY <2>2, ZenonT(40) DEF Calls
  <2>4. call' \in [Procs -> Calls]
    BY <1>10, <2>3, ZenonT(40) DEF GnmiUpdate, TypeOK
  <2>5. \A l \in call[p].change : New(p, l) \in Stored
    <3>1. CASE Short(call[p].req)
      BY <2>1, <3>1, RequestShape, SMTT(30) DEF IInv, Progress, New
    <3>2. CASE ~Short(call[p].req)
      BY <2>1, <3>2, ZenonT(40) DEF New, TypeOK, Tree
    <3>. QED
      BY <3>1, <3>2, ZenonT(40)
  <2>6. Timestamp(p) \in 1..MaxTime
    BY <2>1, RequestShape DEF Timestamp, TypeOK
  <2>7. cached' \in Tree
    BY <1>10, <2>5, ZenonT(40) DEF GnmiUpdate, TypeOK, Tree, Fresh
  <2>8. stamp' \in [Leaves -> 1..MaxTime]
    BY <1>10, <2>6, ZenonT(40) DEF GnmiUpdate, TypeOK
  <2>9. adrift' \subseteq Leaves
    BY <1>10, <2>1, ZenonT(40) DEF GnmiUpdate, TypeOK
  <2>. QED
    BY <1>10, <2>4, <2>7, <2>8, <2>9, ZenonT(40) DEF GnmiUpdate, TypeOK
<1>11. ASSUME NEW p \in Procs, Fail(p) PROVE TypeOK'
  <2>1. call[p].change \subseteq Leaves
    BY <1>11, CallShape, ZenonT(40) DEF Fail
  <2>. QED
    BY <1>7, <1>8, <1>11, <2>1 DEF Fail, Working, TypeOK
<1>12. ASSUME NEW p \in Procs, Return(p) PROVE TypeOK'
  <2>1. root' \in Tree
    BY <1>12, CallShape, UnmarshalTree DEF Return, TypeOK
  <2>. QED
    BY <1>8, <1>12, <2>1, ZenonT(40) DEF Return, Working, TypeOK
<1>13. CASE UNCHANGED vars
  BY <1>13, ZenonT(40) DEF vars, TypeOK
<1>. QED
  BY <1>1, <1>2, <1>3, <1>4, <1>5, <1>6, <1>9, <1>10, <1>11, <1>12, <1>13, ZenonT(40) DEF Next, Step

\* A step of p in the mode m leaves the other calls, and the other mode, alone.
LEMMA Frame ==
  ASSUME IInv, NEW p \in Procs, NEW m \in Modes,
         owner[m] \in {p, Nil},
         \A q \in Procs \ {p} : call'[q] = call[q],
         \A k \in Modes \ {m} : owner'[k] = owner[k],
         \A l \in Leaves \ Of(m) : /\ root'[l] = root[l] /\ cached'[l] = cached[l]
                                   /\ l \in adrift' <=> l \in adrift
  PROVE  /\ \A q \in Procs \ {p} : /\ (call[q].pc = "check" => Copied(q))'
                                   /\ (call[q].pc = "notify" => Progress(q))'
                                   /\ (Working(q) => ValidTrees(q))'
         /\ \A k \in Modes \ {m} : owner'[k] = Nil => \A l \in Of(k) \ adrift' : root'[l] = cached'[l]
<1>1. ASSUME NEW k \in Modes \ {m} PROVE Of(k) \subseteq Leaves \ Of(m)
  BY Disjoint DEF Modes, Of, Leaves
<1>2. ASSUME NEW q \in Procs \ {p}, Working(q) PROVE call[q].req.mode \in Modes \ {m}
  BY <1>2, CallShape, NilApart DEF IInv, Held, Working
<1>3. ASSUME NEW q \in Procs \ {p}, call[q].pc = "check" PROVE Copied(q)'
  BY <1>1, <1>2, <1>3 DEF IInv, Copied, Working
<1>4. ASSUME NEW q \in Procs \ {p}, call[q].pc = "notify" PROVE Progress(q)'
  <2>1. Progress(q) /\ call'[q] = call[q]
    BY <1>4, ZenonT(40) DEF IInv
  <2>2. \A l \in Of(call[q].req.mode) : /\ root'[l] = root[l] /\ cached'[l] = cached[l]
                                        /\ l \in adrift' <=> l \in adrift
    BY <1>1, <1>2, <1>4, ZenonT(40) DEF Working
  <2>3. \A l \in Of(call[q].req.mode) : New(q, l)' = New(q, l) /\ Pending(q, l)' = Pending(q, l)
    BY <2>1, <2>2, ZenonT(40) DEF New, Pending
  <2>4. Short(call[q].req) => Of(call[q].req.mode) = State
    BY ZenonT(40) DEF Short, Of
  <2>. QED
    BY <2>1, <2>2, <2>3, <2>4, ZenonT(40) DEF Progress
<1>5. ASSUME NEW q \in Procs \ {p}, Working(q) PROVE ValidTrees(q)'
  <2>1. ValidTrees(q) /\ call'[q] = call[q]
    BY <1>5, ZenonT(40) DEF IInv
  <2>2. call[q].req.mode = "config" => \A l \in Config : root'[l] = root[l]
    BY <1>1, <1>2, <1>5, ZenonT(40) DEF Of
  <2>. QED
    BY <2>1, <2>2, RefsTyped DEF ValidTrees, Validate, checkWritePermission
<1>6. ASSUME NEW k \in Modes \ {m}, owner'[k] = Nil, NEW l \in Of(k) \ adrift'
      PROVE  root'[l] = cached'[l]
  BY <1>1, <1>6, ZenonT(40) DEF IInv, Agreement
<1>. QED
  BY <1>3, <1>4, <1>5, <1>6, ZenonT(40) DEF Working

\* A step of the clock, or none, keeps the invariant.
LEMMA QuietStep ==
  ASSUME IInv, TypeOK', UNCHANGED <<root, cached, stamp, owner, call, adrift, failures>>, now <= now'
  PROVE  IInv'
<1>0. TypeOK
  BY ZenonT(40) DEF IInv
<1>1. Held'
  BY ZenonT(40) DEF IInv, Held, Working
<1>2. Agreement' /\ ConfigNeverDropped' /\ (owner["config"] = Nil => Validate(root))'
  BY ZenonT(40) DEF IInv, Agreement, ConfigNeverDropped, Validate
<1>3. \A q \in Procs : (call[q].pc = "check" => Copied(q))'
  BY ZenonT(40) DEF IInv, Copied
<1>4. \A q \in Procs : (call[q].pc = "notify" => Progress(q))'
  BY ZenonT(40) DEF IInv, Progress, Pending, New
<1>5. \A q \in Procs : (Working(q) => ValidTrees(q))'
  BY ZenonT(40) DEF IInv, ValidTrees, Validate, checkWritePermission, Working
<1>6. \A l \in Config : stamp'[l] <= now'
  BY <1>0, TypeOK', SMTT(30) DEF IInv, TypeOK, Leaves
<1>. QED
  BY <1>1, <1>2, <1>3, <1>4, <1>5, <1>6, ZenonT(40) DEF IInv

\* A step that changes only a call that does not work keeps the invariant.
LEMMA IdleStep ==
  ASSUME IInv, TypeOK', NEW p \in Procs, ~Working(p), ~Working(p)',
         \A q \in Procs \ {p} : call'[q] = call[q],
         UNCHANGED <<root, cached, stamp, now, owner, adrift, failures>>
  PROVE  IInv'
<1>0. TypeOK
  BY ZenonT(40) DEF IInv
<1>1. \A q \in Procs : Working(q) => call'[q] = call[q]
  BY ZenonT(40)
<1>2. \A q \in Procs : Working(q)' => q # p /\ Working(q) /\ call'[q] = call[q]
  BY ZenonT(40) DEF Working
<1>3. Held'
  BY <1>1, <1>2, <1>0, SMTT(30) DEF IInv, Held, TypeOK, Working
<1>4. Agreement' /\ ConfigNeverDropped' /\ (owner["config"] = Nil => Validate(root))'
  BY SMTT(30) DEF IInv, Agreement, ConfigNeverDropped, Validate
<1>5. \A q \in Procs : (call[q].pc = "check" => Copied(q))'
  BY <1>2, SMTT(30) DEF IInv, Copied, Working
<1>6. \A q \in Procs : (call[q].pc = "notify" => Progress(q))'
  BY <1>2, SMTT(30) DEF IInv, Progress, Pending, New, Working
<1>7. \A q \in Procs : (Working(q) => ValidTrees(q))'
  BY <1>2 DEF IInv, ValidTrees, Validate, checkWritePermission
<1>8. \A l \in Config : stamp'[l] <= now'
  BY <1>0, TypeOK', ZenonT(40) DEF IInv, TypeOK, Leaves
<1>. QED
  BY <1>3, <1>4, <1>5, <1>6, <1>7, <1>8, ZenonT(40) DEF IInv

\* Taking the mutex, with the tree changed or not, keeps Held.
LEMMA LockHeld ==
  ASSUME IInv, NEW p \in Procs, NEW m \in Modes, Lock(p, m), ~Working(p),
         Working(p)', call'[p].req.mode = m,
         \A q \in Procs \ {p} : call'[q] = call[q]
  PROVE  Held'
<1>1. owner'[m] = p /\ \A k \in Modes \ {m} : owner'[k] = owner[k]
  BY ZenonT(40) DEF IInv, TypeOK, Lock
<1>2. \A q \in Procs \ {p} : Working(q)' = Working(q)
  BY ZenonT(40) DEF Working
<1>3. ASSUME NEW q \in Procs, Working(q)' PROVE owner'[call'[q].req.mode] = q
  <2>1. CASE q = p
    BY <1>1, <2>1, ZenonT(40)
  <2>2. CASE q # p
    BY <1>1, <1>2, <1>3, <2>2, CallShape, NilApart DEF IInv, Held, Lock, Working
  <2>. QED
    BY <2>1, <2>2, ZenonT(40)
<1>4. ASSUME NEW k \in Modes, owner'[k] # Nil
      PROVE  Working(owner[k])' /\ call'[owner'[k]].req.mode = k
  <2>1. CASE k = m
    BY <1>1, <2>1, ZenonT(40) DEF Working
  <2>2. CASE k # m
    <3>1. owner[k] # p /\ owner[k] \in Procs /\ Working(owner[k]) /\ call[owner[k]].req.mode = k
      BY <1>1, <1>4, <2>2 DEF IInv, Held, TypeOK
    <3>. QED
      BY <1>1, <2>2, <3>1 DEF Working
  <2>. QED
    BY <2>1, <2>2, ZenonT(40)
<1>. QED
  BY <1>3, <1>4, ZenonT(40) DEF Held

\* Releasing it keeps Held.
LEMMA UnlockHeld ==
  ASSUME IInv, NEW p \in Procs, Working(p), Unlock(p)
  PROVE  /\ Held'
         /\ owner[call[p].req.mode] = p /\ owner'[call[p].req.mode] = Nil
         /\ \A k \in Modes \ {call[p].req.mode} : owner'[k] = owner[k]
         /\ \A q \in Procs \ {p} : call'[q] = call[q]
         /\ call'[p].pc = "idle"
<1>0. TypeOK /\ call[p].req.mode \in Modes
  BY CallShape, SMTT(30) DEF IInv, Working
<1>1. /\ owner[call[p].req.mode] = p /\ owner'[call[p].req.mode] = Nil
      /\ \A k \in Modes \ {call[p].req.mode} : owner'[k] = owner[k]
  BY <1>0, ZenonT(40) DEF IInv, TypeOK, Held, Unlock
<1>2. (\A q \in Procs \ {p} : call'[q] = call[q]) /\ call'[p].pc = "idle"
  BY <1>0, ZenonT(40) DEF TypeOK, Unlock, Idle
<1>3. ASSUME NEW q \in Procs, Working(q)' PROVE owner'[call'[q].req.mode] = q
  <2>1. q # p /\ Working(q) /\ call'[q] = call[q]
    BY <1>2, <1>3, ZenonT(40) DEF Working
  <2>2. call[q].req.mode \in Modes \ {call[p].req.mode}
    BY <1>0, <1>1, <2>1, CallShape, ZenonT(40) DEF IInv, Held, Working
  <2>. QED
    BY <1>1, <2>1, <2>2, ZenonT(40) DEF IInv, Held
<1>4. ASSUME NEW k \in Modes, owner'[k] # Nil
      PROVE  Working(owner[k])' /\ call'[owner'[k]].req.mode = k
  <2>1. k # call[p].req.mode /\ owner'[k] = owner[k]
    BY <1>1, <1>4, ZenonT(40)
  <2>2. owner[k] # p /\ owner[k] \in Procs /\ Working(owner[k]) /\ call[owner[k]].req.mode = k
    BY <1>0, <1>4, <2>1, SMTT(30) DEF IInv, Held, TypeOK
  <2>. QED
    BY <1>2, <2>1, <2>2, ZenonT(40) DEF Working
<1>. QED
  BY <1>1, <1>2, <1>3, <1>4, ZenonT(40) DEF Held

\* The short way begins: nothing is written yet.
LEMMA SetStateStep ==
  ASSUME IInv, TypeOK', NEW p \in Procs, SetState(p)
  PROVE  IInv'
<1> DEFINE r == call[p].req
<1>0. TypeOK /\ r \in Requests /\ Short(r) /\ r.mode = "state" /\ "state" \in Modes
  BY CallShape, ZenonT(40) DEF IInv, SetState, Short, Modes
<1>1. /\ call'[p] = [pc |-> "notify", req |-> r, prev |-> root, change |-> DOMAIN r.write,
                     todo |-> Notifications(DOMAIN r.write)]
      /\ \A q \in Procs \ {p} : call'[q] = call[q]
  BY <1>0, ZenonT(40) DEF SetState, TypeOK
<1>f. /\ call'[p].pc = "notify" /\ call'[p].req = r /\ call'[p].prev = root
      /\ call'[p].change = DOMAIN r.write /\ call'[p].todo = Notifications(DOMAIN r.write)
  BY <1>1
<1>2. Lock(p, "state") /\ UNCHANGED <<root, cached, stamp, now, adrift, failures>>
  BY ZenonT(40) DEF SetState
<1>3. Held'
  BY <1>0, <1>1, <1>2, LockHeld DEF SetState, Working
<1>4. \A k \in Modes \ {"state"} : owner'[k] = owner[k]
  BY <1>0, <1>2, ZenonT(40) DEF Lock, TypeOK
<1>5. /\ \A q \in Procs \ {p} : /\ (call[q].pc = "check" => Copied(q))'
                                /\ (call[q].pc = "notify" => Progress(q))'
                                /\ (Working(q) => ValidTrees(q))'
      /\ \A k \in Modes \ {"state"} : owner'[k] = Nil => \A l \in Of(k) \ adrift' : root'[l] = cached'[l]
  BY <1>0, <1>1, <1>2, <1>4, Frame, ZenonT(40) DEF Lock
<1>6. owner'["state"] = p
  BY <1>0, <1>2, ZenonT(40) DEF Lock, TypeOK
<1>7. Agreement'
  BY <1>5, <1>6, NilApart, ZenonT(40) DEF Agreement
<1>8. Progress(p)'
  <2>1. DOMAIN r.write \subseteq State
    BY <1>0, RequestShape, ZenonT(40) DEF Of
  <2>2. \A l \in DOMAIN r.write : l \in UNION Notifications(DOMAIN r.write)
    BY <2>1, PartsApart DEF Notifications, Leaves
  <2>3. \A l \in State \ adrift : root[l] = cached[l]
    BY <1>0, <1>2, ZenonT(40) DEF IInv, Agreement, Lock, Of
  <2>4. \A l \in DOMAIN r.write : Pending(p, l)'
    BY <1>f, <2>2, ZenonT(40) DEF Pending
  <2>5. \A l \in State \ adrift' : cached'[l] = call'[p].prev[l]
    BY <1>f, <1>2, <2>3, ZenonT(40)
  <2>6. /\ call'[p].change = DOMAIN r.write /\ call'[p].req = r /\ r.mode = "state" /\ Of("state") = State
        /\ \A l \in State : root'[l] = call'[p].prev[l]
    <3>1. Of("state") = State
      BY ZenonT(40) DEF Of
    <3>. QED
      BY <1>0, <1>f, <1>2, <3>1, ZenonT(40)
  <2>. QED
    BY <2>1, <2>4, <2>5, <2>6, ZenonT(40) DEF Progress
<1>9. ValidTrees(p)' /\ call'[p].pc # "check"
  <2>1. call'[p].req.mode # "config" /\ call'[p].pc # "check"
    BY <1>0, <1>f, ZenonT(40)
  <2>. QED
    BY <2>1, ZenonT(40) DEF ValidTrees
<1>10. (owner["config"] = Nil => Validate(root))'
  <2>1. root' = root /\ owner'["config"] = owner["config"]
    BY <1>2, <1>4, ZenonT(40) DEF Modes
  <2>. QED
    BY <2>1, ZenonT(40) DEF IInv, Validate
<1>11. (\A l \in Config : stamp[l] <= now)' /\ ConfigNeverDropped'
  BY <1>2, ZenonT(40) DEF IInv, ConfigNeverDropped
<1>. QED
  BY <1>3, <1>5, <1>7, <1>8, <1>9, <1>10, <1>11, ZenonT(40) DEF IInv

\* The long way begins: the tree runs ahead of the cache, the copy does not.
LEMMA SetTreeStep ==
  ASSUME IInv, TypeOK', NEW p \in Procs, SetTree(p)
  PROVE  IInv'
<1> DEFINE r == call[p].req
           m == r.mode
<1>0. TypeOK /\ r \in Requests /\ ~Short(r) /\ m \in Modes
  BY CallShape, ZenonT(40) DEF IInv, SetTree
<1>1. /\ call'[p] = [pc |-> "check", req |-> r, prev |-> root]
      /\ \A q \in Procs \ {p} : call'[q] = call[q]
  BY <1>0, ZenonT(40) DEF SetTree, TypeOK
<1>f. call'[p].pc = "check" /\ call'[p].req = r /\ call'[p].prev = root
  BY <1>1
<1>2. Lock(p, m) /\ root' = unmarshalSetRequest(r) /\ UNCHANGED <<cached, stamp, now, adrift, failures>>
  BY ZenonT(40) DEF SetTree
<1>3. Held'
  BY <1>0, <1>1, <1>2, LockHeld DEF SetTree, Working
<1>4. \A k \in Modes \ {m} : owner'[k] = owner[k]
  BY <1>0, <1>2, ZenonT(40) DEF Lock, TypeOK
<1>5. \A l \in Leaves \ Of(m) : root'[l] = root[l]
  BY <1>0, <1>2, RequestShape, Disjoint, ZenonT(40)
     DEF unmarshalSetRequest, PopulateDefaults, Unmarshalled, Of, Modes, TypeOK, Tree
<1>6. /\ \A q \in Procs \ {p} : /\ (call[q].pc = "check" => Copied(q))'
                                /\ (call[q].pc = "notify" => Progress(q))'
                                /\ (Working(q) => ValidTrees(q))'
      /\ \A k \in Modes \ {m} : owner'[k] = Nil => \A l \in Of(k) \ adrift' : root'[l] = cached'[l]
  BY <1>0, <1>1, <1>2, <1>4, <1>5, Frame, ZenonT(40) DEF Lock
<1>7. owner'[m] = p /\ owner[m] = Nil
  BY <1>0, <1>2, ZenonT(40) DEF Lock, TypeOK
<1>8. Agreement'
  BY <1>6, <1>7, NilApart, ZenonT(40) DEF Agreement
<1>9. Copied(p)'
  <2>1. \A l \in Of(m) \ adrift : root[l] = cached[l]
    BY <1>0, <1>7, ZenonT(40) DEF IInv, Agreement
  <2>. QED
    BY <1>0, <1>f, <1>2, <2>1, ZenonT(40) DEF Copied
<1>10. ValidTrees(p)' /\ call'[p].pc # "notify"
  <2>1. m = "config" => Validate(root)
    BY <1>7, ZenonT(40) DEF IInv
  <2>. QED
    BY <1>f, <2>1, ZenonT(40) DEF ValidTrees, Validate
<1>11. (owner["config"] = Nil => Validate(root))'
  <2>1. CASE m = "config"
    BY <1>7, <2>1, NilApart, ZenonT(40)
  <2>2. CASE m = "state"
    <3>1. \A l \in Config : root'[l] = root[l]
      BY <1>5, <2>2, Disjoint, ZenonT(40) DEF Of, Leaves
    <3>2. owner'["config"] = Nil => Validate(root)
      BY <1>4, <2>2, ZenonT(40) DEF IInv, Modes
    <3>. QED
      BY <1>4, <2>2, <3>1, <3>2, RefsTyped, ZenonT(40) DEF Validate
  <2>. QED
    BY <1>0, <2>1, <2>2, ZenonT(40) DEF Modes
<1>12. (\A l \in Config : stamp[l] <= now)' /\ ConfigNeverDropped'
  BY <1>2, ZenonT(40) DEF IInv, ConfigNeverDropped
<1>. QED
  BY <1>3, <1>6, <1>8, <1>9, <1>10, <1>11, <1>12, ZenonT(40) DEF IInv

\* The tree passed: what differs from the copy is to be notified.
LEMMA UpdateCacheStep ==
  ASSUME IInv, TypeOK', NEW p \in Procs, updateCache(p)
  PROVE  IInv'
<1> DEFINE m == call[p].req.mode
<1>0. TypeOK /\ call[p].pc = "check" /\ Working(p) /\ m \in Modes
  BY CallShape, ZenonT(40) DEF IInv, updateCache, Working
<1>1. /\ call'[p] = [pc |-> "notify", req |-> call[p].req, prev |-> call[p].prev, change |-> Diff(p),
                     todo |-> Notifications(Diff(p))]
      /\ \A q \in Procs \ {p} : call'[q] = call[q]
  BY <1>0, ZenonT(40) DEF updateCache, TypeOK
<1>f. /\ call'[p].pc = "notify" /\ call'[p].req = call[p].req /\ call'[p].prev = call[p].prev
      /\ call'[p].change = Diff(p) /\ call'[p].todo = Notifications(Diff(p))
  BY <1>1
<1>2. UNCHANGED <<root, cached, stamp, now, owner, adrift, failures>>
  BY ZenonT(40) DEF updateCache
<1>3. owner[m] = p
  BY <1>0, ZenonT(40) DEF IInv, Held
<1>4. Held'
  <2>1. \A q \in Procs : (Working(q)' <=> Working(q)) /\ (Working(q) => call'[q].req = call[q].req)
    BY <1>0, <1>1, <1>f, ZenonT(40) DEF Working
  <2>2. \A k \in Modes : owner[k] \in Procs \cup {Nil}
    BY <1>0, ZenonT(40) DEF TypeOK
  <2>3. ASSUME NEW q \in Procs, Working(q)' PROVE owner'[call'[q].req.mode] = q
    <3>1. Held
      BY DEF IInv
    <3>2. Working(q) /\ call'[q].req = call[q].req
      BY <2>1, <2>3, ZenonT(40)
    <3>3. owner[call[q].req.mode] = q
      BY <3>1, <3>2, ZenonT(40) DEF Held
    <3> QED BY <1>2, <3>2, <3>3, ZenonT(40)
  <2>4. ASSUME NEW k \in Modes, owner'[k] # Nil
        PROVE  Working(owner[k])' /\ call'[owner'[k]].req.mode = k
    BY <1>2, <2>1, <2>2, <2>4, ZenonT(40) DEF IInv, Held
  <2>. QED
    BY <2>3, <2>4, ZenonT(40) DEF Held
<1>5. \A q \in Procs \ {p} : /\ (call[q].pc = "check" => Copied(q))'
                             /\ (call[q].pc = "notify" => Progress(q))'
                             /\ (Working(q) => ValidTrees(q))'
  BY <1>0, <1>1, <1>2, <1>3, Frame, ZenonT(40)
<1>6. Agreement' /\ (owner["config"] = Nil => Validate(root))'
  BY <1>2, ZenonT(40) DEF IInv, Agreement, Validate
<1>7. Progress(p)'
  <2>1. Diff(p) \subseteq Of(m) /\ \A l \in Of(m) \ Diff(p) : root[l] = call[p].prev[l]
    BY ZenonT(40) DEF Diff
  <2>2. \A l \in Diff(p) : l \in UNION Notifications(Diff(p))
    BY <2>1, PartsApart DEF Notifications, Leaves, Of
  <2>3. ~Short(call[p].req) /\ \A l \in Of(m) \ adrift : call[p].prev[l] = cached[l]
    BY <1>0, ZenonT(40) DEF IInv, Copied
  <2>. QED
    BY <1>f, <1>2, <2>1, <2>2, <2>3, ZenonT(40) DEF Progress, Pending
<1>8. ValidTrees(p)' /\ call'[p].pc = "notify"
  <2>1. ValidTrees(p) /\ Passes(p)
    BY <1>0, ZenonT(40) DEF IInv, updateCache
  <2>. QED
    <3>1. root' = root
      BY <1>2, ZenonT(40)
    <3>2. call'[p].req.mode = "config" => /\ Validate(call'[p].prev) /\ Validate(root')
                                          /\ checkWritePermission(p, call'[p].change)
      BY <1>f, <2>1, <3>1, ZenonT(40) DEF ValidTrees, Passes
    <3>. QED
      BY <1>f, <3>2, ZenonT(40) DEF ValidTrees, Validate, checkWritePermission
<1>9. (\A l \in Config : stamp[l] <= now)' /\ ConfigNeverDropped'
  BY <1>2, ZenonT(40) DEF IInv, ConfigNeverDropped
<1>. QED
  BY <1>4, <1>5, <1>6, <1>7, <1>8, <1>9, ZenonT(40) DEF IInv

\* A call that ends in its mode m with tree and cache in agreement there, and
\* with a valid tree, keeps the invariant.
LEMMA EndStep ==
  ASSUME IInv, TypeOK', NEW p \in Procs, Working(p), Unlock(p),
         \A l \in Leaves \ Of(call[p].req.mode) :
           root'[l] = root[l] /\ (l \in adrift' <=> l \in adrift),
         \A l \in Of(call[p].req.mode) \ adrift' : root'[l] = cached[l],
         call[p].req.mode = "config" => Validate(root'),
         ConfigNeverDropped',
         UNCHANGED <<cached, stamp, now>>
  PROVE  IInv'
<1> DEFINE m == call[p].req.mode
<1>0. TypeOK /\ m \in Modes
  BY CallShape, ZenonT(40) DEF IInv, Working
<1>1. /\ Held' /\ owner[m] = p /\ owner'[m] = Nil /\ call'[p].pc = "idle"
      /\ \A k \in Modes \ {m} : owner'[k] = owner[k]
      /\ \A q \in Procs \ {p} : call'[q] = call[q]
  BY UnlockHeld, ZenonT(40)
<1>2. /\ \A q \in Procs \ {p} : /\ (call[q].pc = "check" => Copied(q))'
                                /\ (call[q].pc = "notify" => Progress(q))'
                                /\ (Working(q) => ValidTrees(q))'
      /\ \A k \in Modes \ {m} : owner'[k] = Nil => \A l \in Of(k) \ adrift' : root'[l] = cached'[l]
  BY <1>0, <1>1, Frame, ZenonT(40)
<1>3. Agreement'
  BY <1>2, ZenonT(40) DEF Agreement
<1>4. /\ (call[p].pc = "check" => Copied(p))' /\ (call[p].pc = "notify" => Progress(p))'
      /\ (Working(p) => ValidTrees(p))'
  BY <1>1, Zenon DEF Working
<1>5. (owner["config"] = Nil => Validate(root))'
  <2>1. CASE m = "config"
    BY <2>1, ZenonT(40) DEF Validate
  <2>2. CASE m = "state"
    <3>1. \A l \in Config : root'[l] = root[l]
      BY <2>2, Disjoint, ZenonT(40) DEF Of, Leaves
    <3>2. owner'["config"] = Nil => Validate(root)
      BY <1>1, <2>2, ZenonT(40) DEF IInv, Modes
    <3>. QED
      BY <3>1, <3>2, RefsTyped, ZenonT(40) DEF Validate
  <2>. QED
    BY <1>0, <2>1, <2>2, ZenonT(40) DEF Modes
<1>6. \A l \in Config : stamp'[l] <= now'
  BY ZenonT(40) DEF IInv
<1>. QED
  BY <1>1, <1>2, <1>3, <1>4, <1>5, <1>6, ZenonT(40) DEF IInv

\* The deferred function restores a tree that is valid and, outside what was
\* notified, represents the cache.
LEMMA RolledBackTree ==
  ASSUME IInv, NEW p \in Procs, Working(p)
  PROVE  /\ \A l \in Leaves \ Of(call[p].req.mode) : RolledBack(p)[l] = root[l]
         /\ \A l \in Of(call[p].req.mode) : RolledBack(p)[l] = call[p].prev[l]
         /\ call[p].req.mode = "config" => Validate(RolledBack(p))
<1>1. Of(call[p].req.mode) \subseteq Leaves
  BY ZenonT(40) DEF Of, Leaves
<1>2. /\ \A l \in Leaves \ Of(call[p].req.mode) : RolledBack(p)[l] = root[l]
      /\ \A l \in Of(call[p].req.mode) : RolledBack(p)[l] = call[p].prev[l]
  BY <1>1, ZenonT(40) DEF RolledBack
<1>3. ASSUME call[p].req.mode = "config" PROVE Validate(RolledBack(p))
  BY <1>2, <1>3, RefsTyped, ZenonT(40) DEF IInv, ValidTrees, Validate, Of
<1>. QED
  BY <1>2, <1>3, ZenonT(40)

\* A rejected request leaves tree and cache as they were.
LEMMA RejectStep ==
  ASSUME IInv, TypeOK', NEW p \in Procs, Reject(p)
  PROVE  IInv'
<1>1. Working(p) /\ Copied(p)
  BY ZenonT(40) DEF Reject, Working, IInv
<1>2. Unlock(p) /\ root' = RolledBack(p) /\ UNCHANGED <<cached, stamp, now, adrift, failures>>
  BY Zenon DEF Reject
<1>3. ConfigNeverDropped'
  BY <1>2, ZenonT(40) DEF IInv, ConfigNeverDropped
<1>. QED
  BY <1>1, <1>2, <1>3, RolledBackTree, EndStep, ZenonT(40) DEF Copied

\* After a failed notification what was notified before it is adrift, and the
\* rest is as it was.
LEMMA FailStep ==
  ASSUME IInv, TypeOK', NEW p \in Procs, Fail(p)
  PROVE  IInv'
<1> DEFINE m == call[p].req.mode
<1>0. TypeOK /\ Working(p) /\ call[p].pc = "notify" /\ Progress(p) /\ m \in Modes
  BY CallShape, ZenonT(40) DEF Fail, Working, IInv
<1>1. /\ Unlock(p) /\ UNCHANGED <<cached, stamp, now>>
      /\ root' = IF Short(call[p].req) THEN root ELSE RolledBack(p)
      /\ adrift' = adrift \cup (call[p].change \ UNION call[p].todo)
  BY ZenonT(40) DEF Fail
<1>2. \A l \in Of(m) : root'[l] = call[p].prev[l]
  BY <1>0, <1>1, RolledBackTree, ZenonT(40) DEF Progress, Short, Of
<1>3. \A l \in Of(m) \ adrift' : cached[l] = call[p].prev[l]
  BY <1>0, <1>1, ZenonT(40) DEF Progress, Pending
<1>4. \A l \in Leaves \ Of(m) : root'[l] = root[l] /\ (l \in adrift' <=> l \in adrift)
  BY <1>0, <1>1, RolledBackTree, ZenonT(40) DEF Progress
<1>5. m = "config" => Validate(root')
  BY <1>0, <1>1, RolledBackTree, ZenonT(40) DEF Short
<1>6. ConfigNeverDropped'
  <2>1. failures' = failures + 1
    BY ZenonT(40) DEF Fail
  <2>2. failures \in 0..MaxFailures
    BY <1>0, ZenonT(40) DEF TypeOK
  <2>. QED
    BY <2>1, <2>2 DEF ConfigNeverDropped
<1>. QED
  BY <1>0, <1>1, <1>2, <1>3, <1>4, <1>5, <1>6, EndStep, ZenonT(40)

\* When all is notified the tree holds, or on the short way gets, what was.
LEMMA ReturnStep ==
  ASSUME IInv, TypeOK', NEW p \in Procs, Return(p)
  PROVE  IInv'
<1> DEFINE r == call[p].req
           m == r.mode
<1>0. TypeOK /\ Working(p) /\ call[p].pc = "notify" /\ Progress(p) /\ r \in Requests /\ m \in Modes
  BY CallShape, ZenonT(40) DEF Return, Working, IInv
<1>1. /\ Unlock(p) /\ UNCHANGED <<cached, stamp, now, adrift, failures>>
      /\ root' = IF Short(r) THEN unmarshalSetRequest(r) ELSE root
      /\ call[p].todo = {}
  BY ZenonT(40) DEF Return
<1>2. ConfigNeverDropped'
  BY <1>1, ZenonT(40) DEF IInv, ConfigNeverDropped
<1>3. \A l \in Of(m) \ adrift : cached[l] = IF l \in call[p].change THEN New(p, l) ELSE call[p].prev[l]
  BY <1>0, <1>1, ZenonT(40) DEF Progress, Pending
<1>4. CASE Short(r)
  <2>1. m = "state" /\ root' = Unmarshalled(r)
    BY <1>1, <1>4, ZenonT(40) DEF Short, unmarshalSetRequest
  <2>2. \A l \in State : root'[l] = IF l \in call[p].change THEN New(p, l) ELSE root[l]
    BY <1>0, <1>4, <2>1, ZenonT(40) DEF Unmarshalled, Progress, New, Leaves
  <2>3. \A l \in Leaves \ State : root'[l] = root[l]
    BY <1>0, <2>1, RequestShape, ZenonT(40) DEF Unmarshalled, Of
  <2>. QED
    BY <1>0, <1>1, <1>2, <1>3, <1>4, <2>1, <2>2, <2>3, EndStep, ZenonT(40) DEF Progress, Of
<1>5. CASE ~Short(r)
  <2>1. \A l \in Of(m) \ adrift' : root'[l] = cached[l]
    BY <1>0, <1>1, <1>3, <1>5, ZenonT(40) DEF Progress, New
  <2>2. m = "config" => Validate(root')
    BY <1>0, <1>1, <1>5, ZenonT(40) DEF IInv, ValidTrees
  <2>. QED
    BY <1>0, <1>1, <1>2, <1>5, <2>1, <2>2, EndStep, ZenonT(40)
<1>. QED
  BY <1>4, <1>5, SMTT(30)

\* One notification moves its leaves from the old to the new values; a config
\* leaf is never stale.
LEMMA GnmiUpdateStep ==
  ASSUME IInv, TypeOK', NEW p \in Procs, NEW n \in Parts, GnmiUpdate(p, n)
  PROVE  IInv'
<1> DEFINE m == call[p].req.mode
           given == n \cap call[p].change
<1>0. /\ TypeOK /\ Working(p) /\ call[p].pc = "notify" /\ Progress(p) /\ m \in Modes
      /\ call[p].req \in Requests /\ call[p].todo \subseteq Parts
  BY CallShape, ZenonT(40) DEF GnmiUpdate, Working, IInv
<1>1. /\ call'[p] = [call[p] EXCEPT !.todo = call[p].todo \ {n}]
      /\ \A q \in Procs \ {p} : call'[q] = call[q]
  BY <1>0, ZenonT(40) DEF GnmiUpdate, TypeOK
<1>2. UNCHANGED <<root, now, owner, failures>>
  BY ZenonT(40) DEF GnmiUpdate
<1>3. /\ call[p] \in [pc : {"notify"}, req : Requests, prev : Tree, change : SUBSET Leaves, todo : SUBSET Parts]
      /\ call'[p].pc = "notify" /\ call'[p].req = call[p].req /\ call'[p].prev = call[p].prev
      /\ call'[p].change = call[p].change /\ call'[p].todo = call[p].todo \ {n}
  <2>1. call[p] \in [pc : {"notify"}, req : Requests, prev : Tree, change : SUBSET Leaves, todo : SUBSET Parts]
    <3>1. call[p] \in Calls
      BY <1>0, ZenonT(40) DEF TypeOK
    <3>. QED
      BY <1>0, <3>1 DEF Calls, Idle
  <2>. QED
    BY <1>1, <2>1, ZenonT(40)
<1>4. given \subseteq Of(m) /\ Of(m) \subseteq Leaves /\ Fresh(p, n) \subseteq given
  BY <1>0, ZenonT(40) DEF Progress, Fresh, Of, Leaves
<1>5. /\ \A l \in Leaves \ given : cached'[l] = cached[l] /\ stamp'[l] = stamp[l] /\ (l \in adrift' <=> l \in adrift)
      /\ \A l \in given : l \notin adrift' => cached'[l] = New(p, l)
  BY <1>4, SMTT(30) DEF GnmiUpdate
<1>6. owner[m] = p
  BY <1>0, ZenonT(40) DEF IInv, Held
<1>7. Held'
  BY <1>0, <1>1, <1>2, <1>3 DEF IInv, Held, Working, TypeOK
<1>8. /\ \A q \in Procs \ {p} : /\ (call[q].pc = "check" => Copied(q))'
                                /\ (call[q].pc = "notify" => Progress(q))'
                                /\ (Working(q) => ValidTrees(q))'
      /\ \A k \in Modes \ {m} : owner'[k] = Nil => \A l \in Of(k) \ adrift' : root'[l] = cached'[l]
  BY <1>0, <1>1, <1>2, <1>4, <1>5, <1>6, Frame
<1>9. Agreement'
  BY <1>2, <1>6, <1>8, NilApart, ZenonT(40) DEF Agreement
<1>10. Progress(p)'
  <2>1. \A l \in Of(m) : New(p, l)' = New(p, l)
    BY <1>2, <1>3, ZenonT(40) DEF New
  <2>2. \A l \in Of(m) : Pending(p, l)' <=> Pending(p, l) /\ l \notin n
    BY <1>0, <1>3, PartsApart, SMTT(30) DEF Pending, GnmiUpdate
  <2>3. \A l \in Of(m) \ adrift' :
          IF l \in call[p].change /\ ~Pending(p, l)' THEN cached'[l] = New(p, l) ELSE cached'[l] = call[p].prev[l]
    BY <1>0, <1>4, <1>5, <2>2, ZenonT(40) DEF Progress, Pending
  <2>. QED
    BY <1>0, <1>2, <1>3, <2>1, <2>3, ZenonT(40) DEF Progress
<1>11. ValidTrees(p)' /\ call'[p].pc # "check"
  BY <1>0, <1>2, <1>3, ZenonT(40) DEF IInv, ValidTrees, Validate, checkWritePermission
<1>12. (owner["config"] = Nil => Validate(root))'
  BY <1>2, ZenonT(40) DEF IInv, Validate
<1>13. CASE m = "config"
  <2>1. Timestamp(p) = now
    BY <1>13, SMTT(30) DEF Timestamp
  <2>2. given \subseteq Config /\ Fresh(p, n) = given
    BY <1>0, <1>4, <1>13, <2>1, ZenonT(40) DEF Of, Fresh, IInv
  <2>3. \A l \in Config : stamp'[l] <= now'
    BY <1>0, <1>2, <2>1 DEF GnmiUpdate, IInv, Leaves, TypeOK
  <2>4. adrift' \subseteq adrift
    BY <2>2, ZenonT(40) DEF GnmiUpdate
  <2>5. ConfigNeverDropped'
    BY <1>2, <2>4, ZenonT(40) DEF IInv, ConfigNeverDropped
  <2>. QED
    BY <1>7, <1>8, <1>9, <1>10, <1>11, <1>12, <2>3, <2>5, ZenonT(40) DEF IInv
<1>14. CASE m = "state"
  <2>0. Config \cap given = {}
    BY <1>4, <1>14, Disjoint, ZenonT(40) DEF Of
  <2>1. \A l \in Config : stamp'[l] = stamp[l] /\ (l \in adrift' <=> l \in adrift)
    BY <1>5, <2>0, ZenonT(40) DEF Leaves
  <2>2. (\A l \in Config : stamp[l] <= now)' /\ ConfigNeverDropped'
    BY <1>2, <2>1, ZenonT(40) DEF IInv, ConfigNeverDropped
  <2>. QED
    BY <1>7, <1>8, <1>9, <1>10, <1>11, <1>12, <2>2, ZenonT(40) DEF IInv
<1>. QED
  BY <1>0, <1>13, <1>14, ZenonT(40) DEF Modes

\* Every step keeps the invariant.
LEMMA IInvStep == IInv /\ [Next]_vars => IInv'
<1> SUFFICES ASSUME IInv, [Next]_vars PROVE IInv'
  BY ZenonT(40)
<1>0. TypeOK /\ TypeOK'
  BY TypeStep, ZenonT(40) DEF IInv
<1>1. CASE Tick
  <2>1. UNCHANGED <<root, cached, stamp, owner, call, adrift, failures>> /\ now <= now'
    BY <1>0, <1>1 DEF Tick, TypeOK
  <2>. QED
    BY <1>0, <2>1, QuietStep, ZenonT(40)
<1>2. ASSUME NEW p \in Procs, NEW r \in Requests, Call(p, r) PROVE IInv'
  <2>1. call[p].pc = "idle" /\ call'[p].pc = "called" /\ \A q \in Procs \ {p} : call'[q] = call[q]
    BY <1>0, <1>2, ZenonT(40) DEF Call, TypeOK
  <2>. QED
    BY <1>0, <1>2, <2>1, IdleStep, ZenonT(40) DEF Call, Working, TypeOK
<1>3. ASSUME NEW p \in Procs, Refuse(p) PROVE IInv'
  <2>1. call[p].pc = "called" /\ call'[p].pc = "idle" /\ \A q \in Procs \ {p} : call'[q] = call[q]
    BY <1>0, <1>3, ZenonT(40) DEF Refuse, TypeOK, Idle
  <2>. QED
    BY <1>0, <1>3, <2>1, IdleStep, SMTT(30) DEF Refuse, Working, TypeOK
<1>4. ASSUME NEW p \in Procs, Step(p) PROVE IInv'
  BY <1>0, <1>2, <1>3, <1>4, SetStateStep, SetTreeStep, UpdateCacheStep, RejectStep, GnmiUpdateStep,
     FailStep, ReturnStep, ZenonT(40) DEF Step
<1>5. CASE UNCHANGED vars
  <2>1. UNCHANGED <<root, cached, stamp, owner, call, adrift, failures>> /\ now <= now'
    BY <1>0, <1>5 DEF vars, TypeOK
  <2>. QED
    BY <1>0, <2>1, QuietStep
<1>. QED
  BY <1>1, <1>4, <1>5, ZenonT(40) DEF Next

\* The invariant holds throughout.
THEOREM Invariant == Spec => []IInv
  BY InitIInv, IInvStep, PTL DEF Spec

\* Trees, cache and calls of Set keep their types, for any schema.
THEOREM TypeCorrect == Spec => []TypeOK
<1>1. IInv => TypeOK
  BY ZenonT(40) DEF IInv
<1>. QED
  BY <1>1, Invariant, PTL

\* Between the calls of a mode the tree that set computes differences from
\* represents the cache on every leaf not dropped as stale or half written.
THEOREM TreeIsCache == Spec => []Agreement
<1>1. IInv => Agreement
  BY ZenonT(40) DEF IInv
<1>. QED
  BY <1>1, Invariant, PTL

\* GnmiUpdate drops nothing that a request for config wrote, unless the cache
\* fails.
THEOREM ConfigReachesCache == Spec => []ConfigNeverDropped
<1>1. IInv => ConfigNeverDropped
  BY ZenonT(40) DEF IInv
<1>. QED
  BY <1>1, Invariant, PTL

\* What Set publishes is a configuration that passed Validate as a whole.
THEOREM PublishedIsValid == Spec => []ValidPublished
<1>1. ASSUME IInv, owner["config"] = Nil, adrift \cap Config = {} PROVE Validate(cached)
  <2>1. \A l \in Config : root[l] = cached[l]
    BY <1>1, ZenonT(40) DEF IInv, Agreement, Modes, Of
  <2>2. Validate(root)
    BY <1>1, ZenonT(40) DEF IInv
  <2>. QED
    BY <2>1, <2>2, RefsTyped, SMTT(30) DEF Validate
<1>2. IInv => ValidPublished
  BY <1>1, ZenonT(40) DEF ValidPublished
<1>. QED
  BY <1>2, Invariant, PTL

\* No step of Set changes a config leaf of the cache for a user that
\* checkWritePermission would refuse it.
THEOREM PermissionsHold == Spec => OnlyPermitted
<1> DEFINE Permitted == \A l \in Config : cached'[l] # cached[l] => <<owner["config"], l>> \notin Denied
<1>1. ASSUME IInv, [Next]_vars PROVE [Permitted]_vars
  <2>1. ASSUME NEW p \in Procs, NEW n \in Parts, GnmiUpdate(p, n), NEW l \in Config, cached'[l] # cached[l]
        PROVE  <<owner["config"], l>> \notin Denied
    <3>1. call[p].pc = "notify" /\ Working(p) /\ call[p].req.mode \in Modes /\ Progress(p) /\ ValidTrees(p)
      BY <1>1, <2>1, CallShape, ZenonT(40) DEF GnmiUpdate, IInv, Working
    <3>2. l \in call[p].change
      BY <2>1, SMTT(30) DEF GnmiUpdate, Fresh, Leaves
    <3>3. call[p].req.mode = "config"
      BY <3>1, <3>2, Disjoint, ZenonT(40) DEF Progress, Of, Modes
    <3>4. owner["config"] = p
      BY <1>1, <3>1, <3>3, ZenonT(40) DEF IInv, Held
    <3>. QED
      BY <3>1, <3>2, <3>3, <3>4, ZenonT(40) DEF ValidTrees, checkWritePermission
  <2>2. CASE UNCHANGED cached
    BY <2>2, ZenonT(40)
  <2>3. Tick \/ UNCHANGED vars => UNCHANGED cached
    BY SMTT(30) DEF Tick, vars
  <2>4. ASSUME NEW p \in Procs, Step(p)
        PROVE  UNCHANGED cached \/ \E n \in Parts : GnmiUpdate(p, n)
    BY <2>4, ZenonT(40) DEF Step, Call, Refuse, SetState, SetTree, updateCache, Reject, Fail, Return
  <2>. QED
    BY <1>1, <2>1, <2>2, <2>3, <2>4, ZenonT(40) DEF Next
<1>. QED
  BY <1>1, Invariant, PTL DEF Spec, OnlyPermitted
=============================================================================

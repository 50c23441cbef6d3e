------------------------- MODULE ObjectTableProofs --------------------------
(***************************************************************************)
(* The types of ObjectTable, the invariant of its reference counts and that*)
(* each request keeps it, for any number of objects, IDs and NIDs and any  *)
(* graph of references between objects.  References are counted and NIDs   *)
(* are not shared, through cleanups by force as well: the steps of a       *)
(* cleanup keep the invariant of the reference counts, and until the       *)
(* context is deleted what is in use keeps its NID and no NID is given     *)
(* twice.                                                                  *)
(***************************************************************************)
EXTENDS ObjectTable, FiniteSetTheorems, TLAPS

-----------------------------------------------------------------------------
(* Types *)

\* What has a cleanup, started or not, was given a NID.
Named ==
  /\ \A o \in Objects : armed[o] => nid[o] # InvalidNID
  /\ \A k \in DOMAIN stack : nid[stack[k][1]] # InvalidNID

TypeInv == TypeOK /\ Named

\* A single frame, or none, is a stack of frames.
LEMMA StartedType ==
  ASSUME TypeInv, NEW x \in Objects
  PROVE  /\ StartedBy(x) \in Seq(Objects \X (Slots \cup {Nil}))
         /\ \A k \in DOMAIN StartedBy(x) : nid[StartedBy(x)[k][1]] # InvalidNID
<1>1. Frame(x) \in Objects \X (Slots \cup {Nil}) /\ Frame(x)[1] = x
  BY ZenonT(40) DEF Frame
<1>2. CASE refCount[x] = 1 /\ armed[x]
  <2>1. StartedBy(x) = <<Frame(x)>>
    BY <1>2, ZenonT(40) DEF StartedBy
  <2>2. nid[x] # InvalidNID
    BY <1>2, ZenonT(40) DEF TypeInv, Named
  <2> QED
    BY <1>1, <2>1, <2>2
<1>3. CASE ~(refCount[x] = 1 /\ armed[x])
  <2>1. StartedBy(x) = <<>>
    BY <1>3, ZenonT(40) DEF StartedBy
  <2> QED
    BY <2>1
<1> QED
  BY <1>2, <1>3, ZenonT(40)

LEMMA DecType == \A n \in Nat : Dec(n) \in Nat
BY DEF Dec

\* Insert keeps the types of the table and the pool.
LEMMA InsertType ==
  ASSUME TypeInv, NEW o \in Objects, NEW i \in Ids, Insert(o, i)
  PROVE  /\ NextNid \in 1..MaxNid
         /\ ids' \in [Ids -> Objects \cup {Nil}]
         /\ nids' \in [1..MaxNid -> Objects \cup {Nil}]
         /\ free' \in Seq(1..MaxNid)
         /\ last' \in 0..MaxNid
         /\ nid' \in [Objects -> 0..MaxNid]
         /\ armed' \in [Objects -> BOOLEAN]
         /\ \A x \in Objects : armed'[x] => nid'[x] # InvalidNID
<1> USE ObjectsAssumption
<1>1. NextNid \in 1..MaxNid
  BY DEF TypeInv, TypeOK, Insert, NextNid
<1>2. free' \in Seq(1..MaxNid) /\ last' \in 0..MaxNid
  <2>1. CASE free # <<>>
    <3>1. free' = SubSeq(free, 1, Len(free) - 1) /\ last' = last
      BY <2>1, ZenonT(40) DEF Insert, AcquireNid
    <3>2. free \in Seq(1..MaxNid) /\ Len(free) - 1 \in 0..Len(free)
      BY <2>1 DEF TypeInv, TypeOK
    <3>3. SubSeq(free, 1, Len(free) - 1) \in Seq(1..MaxNid)
      BY <3>2
    <3> QED
      BY <3>1, <3>3, ZenonT(40) DEF TypeInv, TypeOK
  <2>2. CASE free = <<>>
    BY <1>1, <2>2 DEF TypeInv, TypeOK, Insert, AcquireNid, NextNid
  <2> QED
    BY <2>1, <2>2, ZenonT(40)
<1>3. /\ ids' = [ids EXCEPT ![i] = o]
      /\ nids' = [nids EXCEPT ![NextNid] = o]
      /\ nid' = [nid EXCEPT ![o] = NextNid]
      /\ armed' = [armed EXCEPT ![o] = TRUE]
  BY ZenonT(40) DEF Insert
<1>4. /\ ids' \in [Ids -> Objects \cup {Nil}]
      /\ nids' \in [1..MaxNid -> Objects \cup {Nil}]
      /\ nid' \in [Objects -> 0..MaxNid]
      /\ armed' \in [Objects -> BOOLEAN]
  BY <1>1, <1>3 DEF TypeInv, TypeOK
<1>5. \A x \in Objects : armed'[x] => nid'[x] # InvalidNID
  BY <1>1, <1>3 DEF TypeInv, TypeOK, Named, InvalidNID
<1> QED
  BY <1>1, <1>2, <1>4, <1>5, ZenonT(40)

\* The objects, the table and the pool when a request leaves the table alone.
LEMMA LinkType ==
  ASSUME TypeInv,
         UNCHANGED <<ids, nids, free, last, nid, armed, phase>>,
         refCount' \in [Objects -> Nat],
         held' \in [Objects -> [Slots -> Objects \cup {Nil}]],
         open' \in [Objects -> BOOLEAN],
         panicked' \in BOOLEAN,
         stack' \in Seq(Objects \X (Slots \cup {Nil})),
         \A k \in DOMAIN stack' : nid[stack'[k][1]] # InvalidNID
  PROVE  TypeInv'
<1>1. TypeOK'
  BY ZenonT(40) DEF TypeInv, TypeOK
<1>2. Named'
  BY ZenonT(40) DEF TypeInv, Named
<1> QED
  BY <1>1, <1>2, ZenonT(40) DEF TypeInv

LEMMA RemoveType ==
  ASSUME TypeInv, NEW i \in Ids, ids[i] # Nil,
         ids' = [ids EXCEPT ![i] = Nil],
         refCount' = [refCount EXCEPT ![ids[i]] = Dec(@)],
         UNCHANGED <<nids, free, last, nid, armed, held, open, phase, panicked>>,
         stack' \in {<<>>, <<Frame(ids[i])>>},
         stack' # <<>> => armed[ids[i]]
  PROVE  TypeInv'
<1>0. ids[i] \in Objects
  BY ZenonT(40) DEF TypeInv, TypeOK
<1>1. Frame(ids[i]) \in Objects \X (Slots \cup {Nil}) /\ Frame(ids[i])[1] = ids[i]
  BY <1>0, ZenonT(40) DEF Frame
<1>2. /\ stack' \in Seq(Objects \X (Slots \cup {Nil}))
      /\ \A k \in DOMAIN stack' : nid[stack'[k][1]] # InvalidNID
  <2>1. CASE stack' = <<>>
    BY <2>1
  <2>2. CASE stack' = <<Frame(ids[i])>>
    <3>1. stack' # <<>>
      BY <2>2, ZenonT(40)
    <3>2. nid[ids[i]] # InvalidNID
      BY <1>0, <3>1, ZenonT(40) DEF TypeInv, Named
    <3> QED
      BY <1>1, <2>2, <3>2
  <2> QED
    BY <2>1, <2>2, ZenonT(40)
<1>3. refCount' \in [Objects -> Nat]
  BY <1>0, DecType, ZenonT(40) DEF TypeInv, TypeOK
<1>4. ids' \in [Ids -> Objects \cup {Nil}]
  BY ZenonT(40) DEF TypeInv, TypeOK
<1>5. TypeOK'
  BY <1>2, <1>3, <1>4, ZenonT(40) DEF TypeInv, TypeOK
<1>6. Named'
  BY <1>2, ZenonT(40) DEF TypeInv, Named
<1> QED
  BY <1>5, <1>6, ZenonT(40) DEF TypeInv

\* What Append does, element by element.
LEMMA AppendFacts ==
  ASSUME NEW S, NEW t \in Seq(S), NEW e \in S
  PROVE  /\ Append(t, e) \in Seq(S)
         /\ DOMAIN Append(t, e) = 1..(Len(t) + 1)
         /\ Append(t, e)[Len(t) + 1] = e
         /\ \A k \in 1..Len(t) : Append(t, e)[k] = t[k]
OBVIOUS

\* The frame on top of the stack.
LEMMA TopFacts ==
  ASSUME TypeInv, stack # <<>>, Top[2] = Nil
  PROVE  /\ Len(stack) \in Nat \ {0}
         /\ DOMAIN stack = 1..Len(stack)
         /\ Top[1] \in Objects
         /\ stack[Len(stack)] = <<Top[1], Nil>>
         /\ nid[Top[1]] \in 1..MaxNid
<1>1. Len(stack) \in Nat \ {0} /\ DOMAIN stack = 1..Len(stack)
  BY DEF TypeInv, TypeOK
<1>2. stack[Len(stack)] \in Objects \X (Slots \cup {Nil})
  BY <1>1 DEF TypeInv, TypeOK
<1>3. Top[1] \in Objects /\ stack[Len(stack)] = <<Top[1], Nil>>
  BY <1>2 DEF Top
<1>4. nid[Top[1]] # InvalidNID
  BY <1>1 DEF TypeInv, Named, Top
<1>5. nid[Top[1]] \in 1..MaxNid
  BY <1>3, <1>4, ObjectsAssumption DEF TypeInv, TypeOK, InvalidNID
<1> QED
  BY <1>1, <1>3, <1>5, ZenonT(40)

\* A release by a cleanup forgets the reference, or puts its cleanup on top.
LEMMA SlotFacts ==
  ASSUME TypeInv, NEW s \in Slots, CleanupSlot(s)
  PROVE  LET o == Top[1]
             x == held[o][s]
         IN /\ x \in Objects
            /\ refCount' = [refCount EXCEPT ![x] = Dec(@)]
            /\ \/ /\ held' = [held EXCEPT ![o][s] = Nil]
                  /\ stack' = stack
                  /\ ~(refCount[x] = 1 /\ armed[x])
               \/ /\ held' = held
                  /\ stack' = Append([stack EXCEPT ![Len(stack)] = <<o, s>>], Frame(x))
                  /\ refCount[x] = 1
                  /\ armed[x]
<1> DEFINE o == Top[1]
           x == held[o][s]
<1>1. stack # <<>> /\ Top[2] = Nil
  BY ZenonT(40) DEF CleanupSlot
<1>2. o \in Objects
  BY <1>1, TopFacts, ZenonT(40)
<1>3. /\ x # Nil
      /\ refCount' = [refCount EXCEPT ![x] = Dec(@)]
      /\ IF StartedBy(x) = <<>>
         THEN held' = [held EXCEPT ![o][s] = Nil] /\ stack' = stack
         ELSE /\ held' = held
              /\ stack' = Append([stack EXCEPT ![Len(stack)] = <<o, s>>], Frame(x))
  BY ZenonT(40) DEF CleanupSlot
<1>4. x \in Objects
  BY <1>2, <1>3 DEF TypeInv, TypeOK
<1>5. StartedBy(x) = <<>> <=> ~(refCount[x] = 1 /\ armed[x])
  BY ZenonT(40) DEF StartedBy
<1> QED
  BY <1>3, <1>4, <1>5, ZenonT(40)

\* After a release by a cleanup the stack and the links have their types.
LEMMA SlotType ==
  ASSUME TypeInv, NEW s \in Slots, CleanupSlot(s)
  PROVE  TypeInv'
<1> DEFINE o == Top[1]
           x == held[o][s]
           n == Len(stack)
<1>1. stack # <<>> /\ Top[2] = Nil
      /\ UNCHANGED <<ids, nids, free, last, nid, armed, open, phase, panicked>>
  BY ZenonT(40) DEF CleanupSlot
<1>2. /\ n \in Nat \ {0} /\ DOMAIN stack = 1..n
      /\ o \in Objects /\ nid[o] # InvalidNID
  BY <1>1, TopFacts DEF InvalidNID
<1>3. x \in Objects /\ refCount' = [refCount EXCEPT ![x] = Dec(@)]
  BY SlotFacts, ZenonT(40)
<1>4. refCount' \in [Objects -> Nat]
  BY <1>3, DecType, ZenonT(40) DEF TypeInv, TypeOK
<1>5. open' \in [Objects -> BOOLEAN] /\ panicked' \in BOOLEAN
  BY <1>1, ZenonT(40) DEF TypeInv, TypeOK
<1>6. CASE held' = [held EXCEPT ![o][s] = Nil] /\ stack' = stack
  <2>1. held' \in [Objects -> [Slots -> Objects \cup {Nil}]]
    BY <1>2, <1>6, ZenonT(40) DEF TypeInv, TypeOK
  <2>2. /\ stack' \in Seq(Objects \X (Slots \cup {Nil}))
        /\ \A k \in DOMAIN stack' : nid[stack'[k][1]] # InvalidNID
    BY <1>6, ZenonT(40) DEF TypeInv, TypeOK, Named
  <2> QED
    BY <1>1, <1>4, <1>5, <2>1, <2>2, LinkType, ZenonT(40)
<1>7. CASE /\ held' = held /\ armed[x]
           /\ stack' = Append([stack EXCEPT ![Len(stack)] = <<o, s>>], Frame(x))
  <2> DEFINE t == [stack EXCEPT ![n] = <<o, s>>]
  <2>1. <<o, s>> \in Objects \X (Slots \cup {Nil}) /\ Frame(x) \in Objects \X (Slots \cup {Nil})
    BY <1>2, <1>3, ZenonT(40) DEF Frame
  <2>2. t \in Seq(Objects \X (Slots \cup {Nil})) /\ Len(t) = n /\ DOMAIN t = 1..n
    BY <1>2, <2>1 DEF TypeInv, TypeOK
  <2>3. stack' = Append(t, Frame(x))
    BY <1>7, ZenonT(40)
  <2>4. /\ stack' \in Seq(Objects \X (Slots \cup {Nil})) /\ DOMAIN stack' = 1..(n + 1)
        /\ stack'[n + 1] = Frame(x) /\ \A k \in 1..n : stack'[k] = t[k]
    <3> HIDE DEF t, x, o, n
    <3> QED
      BY <2>1, <2>2, <2>3, AppendFacts
  <2>5. Frame(x)[1] = x /\ nid[x] # InvalidNID
    BY <1>3, <1>7, ZenonT(40) DEF Frame, TypeInv, Named
  <2>6. \A k \in 1..n : t[k][1] = stack[k][1] \/ t[k][1] = o
    BY <1>2, ZenonT(40) DEF TypeInv, TypeOK
  <2>7. \A k \in DOMAIN stack' : nid[stack'[k][1]] # InvalidNID
    <3>1. \A k \in 1..n : nid[stack[k][1]] # InvalidNID
      BY <1>2, ZenonT(40) DEF TypeInv, Named
    <3> HIDE DEF t, x, o, n
    <3>2. SUFFICES ASSUME NEW k \in 1..(n + 1) PROVE nid[stack'[k][1]] # InvalidNID
      BY <2>4, ZenonT(40)
    <3>3. CASE k = n + 1
      BY <2>4, <2>5, <3>3, ZenonT(40)
    <3>4. CASE k \in 1..n
      BY <1>2, <2>4, <2>6, <3>1, <3>4, ZenonT(40)
    <3> QED
      BY <1>2, <3>3, <3>4
  <2>8. held' \in [Objects -> [Slots -> Objects \cup {Nil}]]
    BY <1>7, ZenonT(40) DEF TypeInv, TypeOK
  <2> QED
    BY <1>1, <1>4, <1>5, <2>4, <2>7, <2>8, LinkType, ZenonT(40)
<1> QED
  BY <1>6, <1>7, SlotFacts, ZenonT(40)

\* What is left of a sequence without its last element, with a new last one.
LEMMA PopFacts ==
  ASSUME NEW S, NEW t \in Seq(S), NEW e \in S, NEW n \in Nat \ {0}, Len(t) = n + 1
  PROVE  LET u == [SubSeq(t, 1, n) EXCEPT ![n] = e]
         IN /\ u \in Seq(S)
            /\ Len(u) = n
            /\ DOMAIN u = 1..n
            /\ u[n] = e
            /\ \A k \in 1..(n - 1) : u[k] = t[k]
<1>1. /\ SubSeq(t, 1, n) \in Seq(S) /\ Len(SubSeq(t, 1, n)) = n
      /\ \A k \in 1..n : SubSeq(t, 1, n)[k] = t[k]
  OBVIOUS
<1>2. ASSUME NEW v \in Seq(S), Len(v) = n
      PROVE  LET u == [v EXCEPT ![n] = e]
             IN /\ u \in Seq(S)
                /\ Len(u) = n
                /\ DOMAIN u = 1..n
                /\ u[n] = e
                /\ \A k \in 1..(n - 1) : u[k] = v[k]
  BY <1>2
<1> DEFINE v == SubSeq(t, 1, n)
<1>3. v \in Seq(S) /\ Len(v) = n /\ \A k \in 1..n : v[k] = t[k]
  BY <1>1, ZenonT(40)
<1>4. n - 1 \in Nat /\ 1..(n - 1) \subseteq 1..n
  OBVIOUS
<1> HIDE DEF v
<1>5. LET u == [v EXCEPT ![n] = e]
      IN /\ u \in Seq(S)
         /\ Len(u) = n
         /\ DOMAIN u = 1..n
         /\ u[n] = e
         /\ \A k \in 1..(n - 1) : u[k] = v[k]
  BY <1>2, <1>3, ZenonT(40)
<1>6. \A k \in 1..(n - 1) : v[k] = t[k]
  BY <1>3, <1>4, ZenonT(40)
<1> QED
  BY <1>5, <1>6, ZenonT(40) DEF v

\* The end of a cleanup returns to the release that started it, if any.
LEMMA EndFacts ==
  ASSUME TypeInv, CleanupEnd
  PROVE  LET n == Len(stack)
             p == stack[n - 1]
         IN \/ n = 1 /\ stack' = <<>> /\ held' = held
            \/ /\ n \in Nat /\ n > 1
               /\ p \in Objects \X (Slots \cup {Nil})
               /\ held' = [held EXCEPT ![p[1]][p[2]] = Nil]
               /\ stack' \in Seq(Objects \X (Slots \cup {Nil}))
               /\ Len(stack') = n - 1
               /\ DOMAIN stack' = 1..(n - 1)
               /\ stack'[n - 1] = Frame(p[1])
               /\ \A k \in 1..(n - 2) : stack'[k] = stack[k]
<1> DEFINE n == Len(stack)
           p == stack[n - 1]
<1>1. stack # <<>> /\ Top[2] = Nil
  BY ZenonT(40) DEF CleanupEnd
<1>2. Len(stack) \in Nat \ {0}
  BY <1>1, TopFacts, ZenonT(40)
<1>3. CASE Len(stack) = 1
  <2>1. stack' = <<>> /\ held' = held
    BY <1>3, ZenonT(40) DEF CleanupEnd
  <2> QED
    BY <1>3, <2>1, ZenonT(40)
<1>4. CASE Len(stack) # 1
  <2>1. /\ held' = [held EXCEPT ![p[1]][p[2]] = Nil]
        /\ stack' = [SubSeq(stack, 1, n - 1) EXCEPT ![n - 1] = Frame(p[1])]
    BY <1>4, ZenonT(40) DEF CleanupEnd
  <2>2. p \in Objects \X (Slots \cup {Nil})
    <3>1. stack \in Seq(Objects \X (Slots \cup {Nil}))
      BY ZenonT(40) DEF TypeInv, TypeOK
    <3>2. Len(stack) - 1 \in 1..Len(stack)
      BY <1>2, <1>4
    <3> QED
      BY <3>1, <3>2
  <2>3. Frame(p[1]) \in Objects \X (Slots \cup {Nil})
    BY <2>2, ZenonT(40) DEF Frame
  <2>4. stack \in Seq(Objects \X (Slots \cup {Nil}))
    BY DEF TypeInv, TypeOK
  <2>5. n \in Nat \ {0} /\ n # 1 /\ Len(stack) = n
    BY <1>2, <1>4, ZenonT(40)
  <2> HIDE DEF n, p
  <2>6. n - 1 \in Nat \ {0} /\ n = (n - 1) + 1 /\ (n - 1) - 1 = n - 2 /\ n > 1
    BY <2>5
  <2> DEFINE m == n - 1
  <2>7. m \in Nat \ {0} /\ Len(stack) = m + 1 /\ m - 1 = n - 2
        /\ stack' = [SubSeq(stack, 1, m) EXCEPT ![m] = Frame(p[1])]
    BY <2>1, <2>5, <2>6, ZenonT(40)
  <2> HIDE DEF m
  <2>8. /\ stack' \in Seq(Objects \X (Slots \cup {Nil})) /\ Len(stack') = m
        /\ DOMAIN stack' = 1..m /\ stack'[m] = Frame(p[1])
        /\ \A k \in 1..(m - 1) : stack'[k] = stack[k]
    BY <2>3, <2>4, <2>7, PopFacts
  <2>9. /\ stack' \in Seq(Objects \X (Slots \cup {Nil})) /\ Len(stack') = n - 1
        /\ DOMAIN stack' = 1..(n - 1) /\ stack'[n - 1] = Frame(p[1])
        /\ \A k \in 1..(n - 2) : stack'[k] = stack[k]
    BY <2>7, <2>8, ZenonT(40) DEF m
  <2> QED
    BY <2>1, <2>2, <2>5, <2>6, <2>9, ZenonT(40) DEF n, p
<1> QED
  BY <1>3, <1>4, ZenonT(40)

LEMMA EndType ==
  ASSUME TypeInv, CleanupEnd
  PROVE  TypeInv'
<1> DEFINE o == Top[1]
           n == Len(stack)
           p == stack[n - 1]
<1>1. /\ stack # <<>> /\ Top[2] = Nil
      /\ open' = [open EXCEPT ![o] = FALSE]
      /\ nids' = [nids EXCEPT ![nid[o]] = Nil]
      /\ free' = Append(free, nid[o])
      /\ armed' = [armed EXCEPT ![o] = FALSE]
      /\ UNCHANGED <<ids, last, nid, refCount, phase, panicked>>
  BY ZenonT(40) DEF CleanupEnd
<1>2. o \in Objects /\ nid[o] \in 1..MaxNid
  BY <1>1, TopFacts, ZenonT(40)
<1>3. /\ open' \in [Objects -> BOOLEAN]
      /\ armed' \in [Objects -> BOOLEAN]
      /\ nids' \in [1..MaxNid -> Objects \cup {Nil}]
  BY <1>1, <1>2, ZenonT(40) DEF TypeInv, TypeOK
<1>4. free' \in Seq(1..MaxNid)
  BY <1>1, <1>2 DEF TypeInv, TypeOK
<1>5. \A x \in Objects : armed'[x] => nid'[x] # InvalidNID
  BY <1>1, ZenonT(40) DEF TypeInv, TypeOK, Named
<1>6. /\ held' \in [Objects -> [Slots -> Objects \cup {Nil}]]
      /\ stack' \in Seq(Objects \X (Slots \cup {Nil}))
      /\ \A k \in DOMAIN stack' : nid[stack'[k][1]] # InvalidNID
  <2>1. CASE stack' = <<>> /\ held' = held
    BY <2>1 DEF TypeInv, TypeOK
  <2>2. CASE /\ n \in Nat /\ n > 1
             /\ p \in Objects \X (Slots \cup {Nil})
             /\ held' = [held EXCEPT ![p[1]][p[2]] = Nil]
             /\ stack' \in Seq(Objects \X (Slots \cup {Nil}))
             /\ DOMAIN stack' = 1..(n - 1)
             /\ stack'[n - 1] = Frame(p[1])
             /\ \A k \in 1..(n - 2) : stack'[k] = stack[k]
    <3>1. held' \in [Objects -> [Slots -> Objects \cup {Nil}]]
      <4>1. p[1] \in Objects /\ held[p[1]] \in [Slots -> Objects \cup {Nil}]
        BY <2>2, ZenonT(40) DEF TypeInv, TypeOK
      <4>2. [held[p[1]] EXCEPT ![p[2]] = Nil] \in [Slots -> Objects \cup {Nil}]
        BY <4>1, ZenonT(40)
      <4> QED
        BY <2>2, <4>1, <4>2, ZenonT(40) DEF TypeInv, TypeOK
    <3>2. \A k \in 1..n : nid[stack[k][1]] # InvalidNID
      <4>1. DOMAIN stack = 1..n
        BY <1>1, TopFacts, ZenonT(40)
      <4> QED
        BY <4>1, ZenonT(40) DEF TypeInv, Named
    <3>0. n - 1 \in 1..n /\ 1..(n - 2) \subseteq 1..n /\ p = stack[n - 1]
      BY <2>2
    <3>3. Frame(p[1])[1] = p[1]
      BY ZenonT(40) DEF Frame
    <3>4. \A k \in 1..(n - 1) : k = n - 1 \/ k \in 1..(n - 2)
      BY <2>2
    <3>5. \A k \in 1..(n - 1) : nid[stack'[k][1]] # InvalidNID
      <4> HIDE DEF n, p
      <4> QED
        BY <2>2, <3>0, <3>2, <3>3, <3>4, ZenonT(40)
    <3> QED
      BY <2>2, <3>1, <3>5, ZenonT(40)
  <2> QED
    BY <2>1, <2>2, EndFacts, ZenonT(40)
<1>7. TypeOK'
  BY <1>1, <1>3, <1>4, <1>6, ZenonT(40) DEF TypeInv, TypeOK
<1>8. Named'
  BY <1>1, <1>5, <1>6, ZenonT(40) DEF Named
<1> QED
  BY <1>7, <1>8, ZenonT(40) DEF TypeInv

LEMMA SlotsFinite == IsFiniteSet(Slots)
<1>1. IsFiniteSet({} \cup {Input}) /\ {} \cup {Input} = {Input}
  BY FS_EmptySet, FS_AddElement, ZenonT(40)
<1>2. IsFiniteSet({Input} \cup {Output}) /\ {Input} \cup {Output} = Slots
  BY <1>1, FS_AddElement, ZenonT(40) DEF Slots
<1> QED
  BY <1>2, ZenonT(40)

LEMMA TakenType ==
  ASSUME NEW new, NEW y
  PROVE  Taken(new, y) \in Nat
<1>1. IsFiniteSet({t \in Slots : new[t] = y})
  BY SlotsFinite, FS_Subset, ZenonT(40)
<1> QED
  BY <1>1, FS_CardinalityType, ZenonT(40) DEF Taken

\* Every step keeps the types.
LEMMA TypeStep ==
  ASSUME TypeInv, [Next]_vars
  PROVE  TypeInv'
<1> USE ObjectsAssumption
<1>t. /\ refCount \in [Objects -> Nat] /\ open \in [Objects -> BOOLEAN]
      /\ held \in [Objects -> [Slots -> Objects \cup {Nil}]]
      /\ panicked \in BOOLEAN /\ stack \in Seq(Objects \X (Slots \cup {Nil}))
      /\ \A k \in DOMAIN stack : nid[stack[k][1]] # InvalidNID
  BY ZenonT(40) DEF TypeInv, TypeOK, Named
<1>s. Input \in Slots /\ Output \in Slots
  BY ZenonT(40) DEF Slots
<1>1. ASSUME NEW o \in Objects, NEW i \in Ids, PortCreate(o, i) PROVE TypeInv'
  <2>1. Insert(o, i) /\ UNCHANGED <<held, open, stack, phase, panicked>>
        /\ refCount' = [refCount EXCEPT ![o] = 1] /\ stack = <<>>
    BY <1>1, ZenonT(40) DEF PortCreate, Idle
  <2>2. refCount' \in [Objects -> Nat]
    BY <1>t, <2>1, ZenonT(40)
  <2>3. TypeOK'
    BY <2>1, <2>2, InsertType, ZenonT(40) DEF TypeInv, TypeOK
  <2>4. Named'
    BY <2>1, InsertType DEF Named
  <2> QED
    BY <2>3, <2>4, ZenonT(40) DEF TypeInv
<1>2. ASSUME NEW o \in Objects, NEW i \in Ids, NEW x \in Objects \cup {Nil},
             TableCreate(o, i, x)
      PROVE  TypeInv'
  <2>1. /\ Insert(o, i) /\ UNCHANGED <<open, stack, phase, panicked>>
        /\ held' = [held EXCEPT ![o][Input] = x] /\ stack = <<>>
        /\ refCount' = [y \in Objects |->
             CASE y = o -> 1 [] y = x -> refCount[y] + 1 [] OTHER -> refCount[y]]
    BY <1>2, ZenonT(40) DEF TableCreate, Idle
  <2>2. refCount' \in [Objects -> Nat]
    BY <1>t, <2>1
  <2>3. held' \in [Objects -> [Slots -> Objects \cup {Nil}]]
    BY <1>t, <1>s, <2>1, ZenonT(40)
  <2>4. TypeOK'
    BY <2>1, <2>2, <2>3, InsertType, ZenonT(40) DEF TypeInv, TypeOK
  <2>5. Named'
    BY <2>1, InsertType DEF Named
  <2> QED
    BY <2>4, <2>5, ZenonT(40) DEF TypeInv
<1>3. ASSUME NEW o \in Objects, NEW i \in Ids, NEW x \in Objects, TableCreateTaken(o, i, x)
      PROVE  TypeInv'
  <2>1. /\ held' = [held EXCEPT ![o][Input] = x]
        /\ refCount' = [refCount EXCEPT ![x] = @ + 1]
        /\ UNCHANGED <<ids, nids, free, last, nid, armed, open, stack, phase, panicked>>
    BY <1>3, ZenonT(40) DEF TableCreateTaken
  <2>2. refCount' \in [Objects -> Nat] /\ held' \in [Objects -> [Slots -> Objects \cup {Nil}]]
    BY <1>t, <1>s, <2>1, SMTT(30)
  <2> QED
    BY <1>t, <2>1, <2>2, LinkType, ZenonT(40)
<1>4. ASSUME NEW o \in Objects, NEW x \in Objects, EntryAdd(o, x) PROVE TypeInv'
  <2> DEFINE y == held[o][Output]
  <2>1. /\ held' = [held EXCEPT ![o][Output] = x] /\ stack = <<>>
        /\ IF y = Nil \/ y = x
           THEN /\ refCount' = [refCount EXCEPT ![x] = IF y = x THEN @ ELSE @ + 1]
                /\ stack' = stack
           ELSE /\ refCount' = [refCount EXCEPT ![x] = @ + 1, ![y] = Dec(@)]
                /\ stack' = StartedBy(y)
        /\ UNCHANGED <<ids, nids, free, last, nid, armed, open, phase, panicked>>
    BY <1>4, ZenonT(40) DEF EntryAdd, Idle
  <2>2. held' \in [Objects -> [Slots -> Objects \cup {Nil}]] /\ y \in Objects \cup {Nil}
    BY <1>t, <1>s, <2>1, SMTT(30)
  <2> HIDE DEF y
  <2>3. CASE y = Nil \/ y = x
    <3>1. refCount' \in [Objects -> Nat]
      BY <1>t, <2>1, <2>3
    <3> QED
      BY <1>t, <2>1, <2>2, <2>3, <3>1, LinkType, ZenonT(40)
  <2>4. CASE ~(y = Nil \/ y = x)
    <3>1. y \in Objects
      BY <2>2, <2>4, ZenonT(40)
    <3>2. refCount' \in [Objects -> Nat]
      <4> DEFINE r == [refCount EXCEPT ![x] = @ + 1]
      <4>1. r \in [Objects -> Nat]
        BY <1>t
      <4>2. refCount' = [r EXCEPT ![y] = Dec(@)]
        BY <2>1, <2>4, ZenonT(40)
      <4> HIDE DEF r
      <4> QED
        BY <3>1, <4>1, <4>2, DecType, ZenonT(40)
    <3>3. stack' = StartedBy(y)
      BY <2>1, <2>4, ZenonT(40)
    <3> QED
      BY <1>t, <2>1, <2>2, <3>1, <3>2, <3>3, StartedType, LinkType, ZenonT(40)
  <2> QED
    BY <2>3, <2>4, ZenonT(40)
<1>5. ASSUME NEW o \in Objects, EntryRemove(o) PROVE TypeInv'
  <2> DEFINE y == held[o][Output]
  <2>1. /\ held' = [held EXCEPT ![o][Output] = Nil] /\ y # Nil
        /\ refCount' = [refCount EXCEPT ![y] = Dec(@)] /\ stack' = StartedBy(y)
        /\ UNCHANGED <<ids, nids, free, last, nid, armed, open, phase, panicked>>
    BY <1>5, ZenonT(40) DEF EntryRemove
  <2>2. held' \in [Objects -> [Slots -> Objects \cup {Nil}]] /\ y \in Objects
    BY <1>t, <1>s, <2>1
  <2> HIDE DEF y
  <2>3. refCount' \in [Objects -> Nat]
    BY <1>t, <2>1, <2>2, DecType, ZenonT(40)
  <2> QED
    BY <1>t, <2>1, <2>2, <2>3, StartedType, LinkType, ZenonT(40)
<1>6. ASSUME NEW o \in Objects, NEW new \in [Slots -> Objects \cup {Nil}], PortUpdate(o, new)
      PROVE  TypeInv'
  <2>1. /\ held' = [held EXCEPT ![o] = new]
        /\ refCount' = [y \in Objects |-> refCount[y] + Taken(new, y)]
        /\ UNCHANGED <<ids, nids, free, last, nid, armed, open, stack, phase, panicked>>
    BY <1>6, ZenonT(40) DEF PortUpdate
  <2>2. refCount' \in [Objects -> Nat]
    BY <1>t, <2>1, TakenType
  <2>3. held' \in [Objects -> [Slots -> Objects \cup {Nil}]]
    BY <1>t, <2>1, ZenonT(40)
  <2> QED
    BY <1>t, <2>1, <2>2, <2>3, LinkType, ZenonT(40)
<1>7. ASSUME NEW o \in Objects, NEW y \in Objects \cup {Nil}, Idle, CleanupAfterError(o, y)
      PROVE  TypeInv'
  <2>1. /\ held' = [held EXCEPT ![o] = NoRefs]
        /\ open' = [open EXCEPT ![o] = FALSE]
        /\ panicked' = (o \in Devices /\ ~open[o])
        /\ UNCHANGED <<ids, nids, free, last, nid, armed, phase>>
    BY <1>7, ZenonT(40) DEF CleanupAfterError
  <2>2. held' \in [Objects -> [Slots -> Objects \cup {Nil}]]
    BY <1>t, <2>1, ZenonT(40) DEF NoRefs
  <2>3. open' \in [Objects -> BOOLEAN] /\ panicked' \in BOOLEAN
    BY <1>t, <2>1, ZenonT(40)
  <2>4. CASE y = Nil
    <3>1. refCount' = refCount /\ stack' = stack
      BY <1>7, <2>4, ZenonT(40) DEF CleanupAfterError
    <3> QED
      BY <1>t, <2>1, <2>2, <2>3, <3>1, LinkType, ZenonT(40)
  <2>5. CASE y # Nil
    <3>1. y \in Objects /\ refCount' = [refCount EXCEPT ![y] = Dec(@)] /\ stack' = StartedBy(y)
      BY <1>7, <2>5, ZenonT(40) DEF CleanupAfterError
    <3>2. refCount' \in [Objects -> Nat]
      BY <1>t, <3>1, DecType, ZenonT(40)
    <3> QED
      BY <2>1, <2>2, <2>3, <3>1, <3>2, StartedType, LinkType, ZenonT(40)
  <2> QED
    BY <2>4, <2>5, ZenonT(40)
<1>8. ASSUME NEW o \in Objects, PortUpdateFailsInput(o) \/ PortUpdateFailsOutput(o)
      PROVE  TypeInv'
  <2>1. held[o][Output] \in Objects \cup {Nil}
    BY <1>t, <1>s
  <2> QED
    BY <1>7, <1>8, <2>1, ZenonT(40) DEF PortUpdateFailsInput, PortUpdateFailsOutput
<1>9. ASSUME NEW x \in Objects, SwapOutput(x) PROVE TypeInv'
  <2>1. /\ refCount' = [refCount EXCEPT ![x] = @ + 1]
        /\ UNCHANGED <<ids, nids, free, last, nid, armed, held, open, stack, phase, panicked>>
    BY <1>9, ZenonT(40) DEF SwapOutput
  <2>2. refCount' \in [Objects -> Nat]
    BY <1>t, <2>1, SMTT(30)
  <2> QED
    BY <1>t, <2>1, <2>2, LinkType, ZenonT(40)
<1>10. ASSUME NEW i \in Ids, ObjectDelete(i) \/ ForceRemove(i) PROVE TypeInv'
  <2>1. /\ ids[i] # Nil
        /\ ids' = [ids EXCEPT ![i] = Nil]
        /\ refCount' = [refCount EXCEPT ![ids[i]] = Dec(@)]
        /\ UNCHANGED <<nids, free, last, nid, armed, held, open, phase, panicked>>
    BY <1>10, ZenonT(40) DEF ObjectDelete, ForceRemove
  <2>2. stack' \in {<<>>, <<Frame(ids[i])>>} /\ (stack' # <<>> => armed[ids[i]])
    BY <1>10, ZenonT(40) DEF ObjectDelete, ForceRemove, StartedBy
  <2> QED
    BY <2>1, <2>2, RemoveType, ZenonT(40)
<1>11. ASSUME ContextDelete \/ ContextDeleted PROVE TypeInv'
  <2>1. /\ UNCHANGED <<ids, nids, free, last, nid, refCount, armed, held, open, stack, panicked>>
        /\ phase' \in {"running", "deleting", "deleted"}
    BY <1>11, ZenonT(40) DEF ContextDelete, ContextDeleted, objectVars
  <2>2. TypeOK'
    BY <2>1, ZenonT(40) DEF TypeInv, TypeOK
  <2>3. Named'
    BY <2>1, ZenonT(40) DEF TypeInv, Named
  <2> QED
    BY <2>2, <2>3, ZenonT(40) DEF TypeInv
<1>12. ASSUME CleanupPanics PROVE TypeInv'
  <2>1. /\ UNCHANGED <<ids, nids, free, last, nid, refCount, armed, held, open, stack, phase>>
        /\ panicked' = TRUE
    BY <1>12, ZenonT(40) DEF CleanupPanics, objectVars
  <2>2. panicked' \in BOOLEAN
    BY <2>1, ZenonT(40)
  <2> QED
    BY <1>t, <2>1, <2>2, LinkType, ZenonT(40)
<1>13. CASE UNCHANGED vars
  <2>1. UNCHANGED <<ids, nids, free, last, nid, refCount, armed, held, open, stack, phase, panicked>>
    BY <1>13, ZenonT(40) DEF vars, objectVars
  <2> QED
    BY <1>t, <2>1, LinkType, ZenonT(40)
<1> QED
  BY <1>1, <1>2, <1>3, <1>4, <1>5, <1>6, <1>8, <1>9, <1>10, <1>11, <1>12, <1>13,
     SlotType, EndType, ZenonT(40) DEF Next, Cleanup

LEMMA TypeInit == Init => TypeInv
<1> SUFFICES ASSUME Init PROVE TypeInv
  BY ZenonT(40)
<1> USE ObjectsAssumption
<1>0. /\ ids \in [Ids -> Objects \cup {Nil}] /\ nids \in [1..MaxNid -> Objects \cup {Nil}]
      /\ held \in [Objects -> [Slots -> Objects \cup {Nil}]]
  BY ZenonT(40) DEF Init, NoRefs
<1>3. free \in Seq(1..MaxNid) /\ stack \in Seq(Objects \X (Slots \cup {Nil}))
  BY DEF Init
<1>4. last \in 0..MaxNid /\ nid \in [Objects -> 0..MaxNid] /\ refCount \in [Objects -> Nat]
  BY DEF Init, InvalidNID
<1>5. armed \in [Objects -> BOOLEAN] /\ open \in [Objects -> BOOLEAN] /\ panicked \in BOOLEAN
  <2>1. \A o \in Objects : (o \in Devices) \in BOOLEAN
    OBVIOUS
  <2>2. open = [o \in Objects |-> o \in Devices]
    BY ZenonT(40) DEF Init
  <2>3. open \in [Objects -> BOOLEAN]
    BY <2>1, <2>2, ZenonT(40)
  <2>4. armed \in [Objects -> BOOLEAN] /\ panicked \in BOOLEAN
    BY ZenonT(40) DEF Init
  <2> QED
    BY <2>3, <2>4, ZenonT(40)
<1>6. phase \in {"running", "deleting", "deleted"}
  BY ZenonT(40) DEF Init
<1>1. TypeOK
  BY <1>0, <1>3, <1>4, <1>5, <1>6, ZenonT(40) DEF TypeOK
<1>2. Named
  BY DEF Init, Named
<1> QED
  BY <1>1, <1>2, ZenonT(40) DEF TypeInv

\* The types of the object table hold for ever, for any objects, IDs and bounds.
THEOREM TypeCorrect == Spec => []TypeOK
<1>1. TypeInv /\ [Next]_vars => TypeInv'
  BY TypeStep, ZenonT(40)
<1>2. TypeInv => TypeOK
  BY ZenonT(40) DEF TypeInv
<1> QED
  BY TypeInit, <1>1, <1>2, PTL DEF Spec

-----------------------------------------------------------------------------
(* The invariant of the reference counts *)

\* All frames but the one on top are in the middle of a release.
Nested ==
  /\ stack # <<>> => stack[Len(stack)][2] = Nil
  /\ \A k \in 1..(Len(stack) - 1) : stack[k][2] \in Slots

\* What such a release is about to forget has no reference left.
Spent ==
  \A k \in 1..(Len(stack) - 1) :
    LET x == held[stack[k][1]][stack[k][2]] IN x # Nil => refCount[x] = 0

\* An object that was not inserted has no reference.
Unborn == \A o \in Objects : nid[o] = InvalidNID => refCount[o] = 0

\* An object has one ID.
OneId == \A i, j \in Ids : ids[i] # Nil /\ ids[i] = ids[j] => i = j

RefInv == TypeInv /\ Nested /\ Spent /\ Unborn /\ OneId /\ RefsCounted

-----------------------------------------------------------------------------
(* Cardinalities *)

LEMMA CardLe ==
  ASSUME NEW S, NEW T, IsFiniteSet(S), T \subseteq S
  PROVE  Cardinality(S) \in Nat /\ Cardinality(T) \in Nat /\ Cardinality(T) <= Cardinality(S)
BY FS_Subset, FS_CardinalityType, ZenonT(40)

LEMMA CardAdd ==
  ASSUME NEW S, NEW T, NEW h, IsFiniteSet(S), T \subseteq S \cup {h}
  PROVE  Cardinality(S) \in Nat /\ Cardinality(T) \in Nat /\ Cardinality(T) <= Cardinality(S) + 1
<1>1. /\ IsFiniteSet(S \cup {h}) /\ Cardinality(S) \in Nat
      /\ Cardinality(S \cup {h}) <= Cardinality(S) + 1
  BY FS_AddElement, FS_CardinalityType
<1>2. Cardinality(T) \in Nat /\ Cardinality(T) <= Cardinality(S \cup {h})
      /\ Cardinality(S \cup {h}) \in Nat
  BY <1>1, CardLe, ZenonT(40)
<1> QED
  BY <1>1, <1>2

LEMMA CardDel ==
  ASSUME NEW S, NEW T, NEW h, IsFiniteSet(S), h \in S, T \subseteq S \ {h}
  PROVE  Cardinality(S) \in Nat /\ Cardinality(T) \in Nat /\ Cardinality(T) <= Cardinality(S) - 1
<1>1. /\ IsFiniteSet(S \ {h}) /\ Cardinality(S) \in Nat
      /\ Cardinality(S \ {h}) = Cardinality(S) - 1
  BY FS_RemoveElement, FS_CardinalityType, ZenonT(40)
<1>2. Cardinality(T) \in Nat /\ Cardinality(T) <= Cardinality(S \ {h})
  BY <1>1, CardLe, ZenonT(40)
<1> QED
  BY <1>1, <1>2, ZenonT(40)

\* The holders of an object are finitely many, before and after a step.
LEMMA HoldersFinite ==
  ASSUME NEW x
  PROVE  /\ IsFiniteSet(Holders(x)) /\ IsFiniteSet(Holders(x)')
         /\ Cardinality(Holders(x)) \in Nat /\ Cardinality(Holders(x)') \in Nat
<1>1. IsFiniteSet(Objects \X Slots)
  BY ObjectsAssumption, SlotsFinite, FS_Product, ZenonT(40)
<1>2. Holders(x) \subseteq Objects \X Slots /\ Holders(x)' \subseteq Objects \X Slots
  BY ZenonT(40) DEF Holders
<1>3. IsFiniteSet(Holders(x)) /\ IsFiniteSet(Holders(x)')
  BY <1>1, <1>2, FS_Subset, ZenonT(40)
<1> QED
  BY <1>3, FS_CardinalityType, ZenonT(40)

\* Owed by cases.
LEMMA OwedCases ==
  ASSUME NEW x
  PROVE  /\ Indexed(x) => Owed(x) = Cardinality(Holders(x)) + 1
         /\ ~Indexed(x) => Owed(x) = Cardinality(Holders(x))
         /\ Indexed(x)' => Owed(x)' = Cardinality(Holders(x)') + 1
         /\ ~Indexed(x)' => Owed(x)' = Cardinality(Holders(x)')
<1>1. Cardinality(Holders(x)) \in Nat /\ Cardinality(Holders(x)') \in Nat
  BY HoldersFinite, ZenonT(40)
<1> QED
  BY <1>1 DEF Owed

\* The holders grow by at most one and so does the count.
LEMMA Grows ==
  ASSUME NEW x, NEW h, Holders(x)' \subseteq Holders(x) \cup {h}, Indexed(x)' => Indexed(x)
  PROVE  Owed(x) \in Nat /\ Owed(x)' \in Nat /\ Owed(x)' <= Owed(x) + 1
<1>1. Cardinality(Holders(x)) \in Nat /\ Cardinality(Holders(x)') \in Nat
      /\ Cardinality(Holders(x)') <= Cardinality(Holders(x)) + 1
  BY HoldersFinite, CardAdd, ZenonT(40)
<1> QED
  BY <1>1, OwedCases

LEMMA Stays ==
  ASSUME NEW x, Holders(x)' \subseteq Holders(x), Indexed(x)' => Indexed(x)
  PROVE  Owed(x) \in Nat /\ Owed(x)' \in Nat /\ Owed(x)' <= Owed(x)
<1>1. Cardinality(Holders(x)) \in Nat /\ Cardinality(Holders(x)') \in Nat
      /\ Cardinality(Holders(x)') <= Cardinality(Holders(x))
  BY HoldersFinite, CardLe, ZenonT(40)
<1> QED
  BY <1>1, OwedCases

LEMMA Shrinks ==
  ASSUME NEW x, NEW h, h \in Holders(x), Holders(x)' \subseteq Holders(x) \ {h},
         Indexed(x)' => Indexed(x)
  PROVE  Owed(x) \in Nat /\ Owed(x)' \in Nat /\ Owed(x)' <= Owed(x) - 1
<1>1. Cardinality(Holders(x)) \in Nat /\ Cardinality(Holders(x)') \in Nat
      /\ Cardinality(Holders(x)') <= Cardinality(Holders(x)) - 1
  BY HoldersFinite, CardDel, ZenonT(40)
<1> QED
  BY <1>1, OwedCases

-----------------------------------------------------------------------------
(* Requests: they find the stack empty and start at most one cleanup. *)

Short(t) == t = <<>> \/ \E y \in Objects : t = <<Frame(y)>>

LEMMA StartedShort == \A x \in Objects : Short(StartedBy(x))
BY ZenonT(40) DEF Short, StartedBy

LEMMA NoneInFlight ==
  ASSUME NEW t, Short(t), NEW h \in Objects \X Slots
  PROVE  h \notin {t[k] : k \in DOMAIN t}
<1>1. CASE t = <<>>
  BY <1>1
<1>2. CASE \E y \in Objects : t = <<Frame(y)>>
  <2>1. PICK y \in Objects : t = <<Frame(y)>>
    BY <1>2, ZenonT(40)
  <2>2. \A k \in DOMAIN t : t[k][2] = Nil
    BY <2>1 DEF Frame
  <2>3. h[2] # Nil
    BY ObjectsAssumption, ZenonT(40) DEF Slots, Input, Output
  <2> QED
    BY <2>2, <2>3, ZenonT(40)
<1> QED
  BY <1>1, <1>2, ZenonT(40) DEF Short

LEMMA ShortHolders ==
  ASSUME Short(stack), Short(stack'), NEW x
  PROVE  /\ Holders(x) = {h \in Objects \X Slots : held[h[1]][h[2]] = x}
         /\ Holders(x)' = {h \in Objects \X Slots : held'[h[1]][h[2]] = x}
<1>1. \A h \in Objects \X Slots : h \notin InFlight /\ h \notin InFlight'
  BY NoneInFlight, ZenonT(40) DEF InFlight
<1> QED
  BY <1>1, ZenonT(40) DEF Holders

LEMMA ShortNested ==
  ASSUME Short(stack') PROVE Nested' /\ Spent'
<1>1. CASE stack' = <<>>
  <2>1. Len(stack') - 1 < 1
    BY <1>1
  <2>2. 1..(Len(stack') - 1) = {}
    BY <1>1
  <2> QED
    BY <1>1, <2>2, ZenonT(40) DEF Nested, Spent
<1>2. CASE \E y \in Objects : stack' = <<Frame(y)>>
  <2>1. PICK y \in Objects : stack' = <<Frame(y)>>
    BY <1>2, ZenonT(40)
  <2>2. Len(stack') = 1 /\ stack'[1] = Frame(y) /\ Frame(y)[2] = Nil
    BY <2>1, ZenonT(40) DEF Frame
  <2>3. 1..(Len(stack') - 1) = {}
    BY <2>2
  <2> QED
    BY <2>2, <2>3, ZenonT(40) DEF Nested, Spent
<1> QED
  BY <1>1, <1>2, ZenonT(40) DEF Short

\* Requests that leave IDs alone and acquire only what has a reference.
LEMMA LinkStep ==
  ASSUME RefInv, TypeInv', Short(stack'), UNCHANGED <<ids, nid>>,
         \A x \in Objects : refCount[x] = 0 => refCount'[x] = 0,
         \A x \in Objects : refCount'[x] >= Owed(x)'
  PROVE  RefInv'
<1>1. Unborn'
  BY ZenonT(40) DEF RefInv, Unborn
<1>2. OneId'
  BY ZenonT(40) DEF RefInv, OneId
<1>3. RefsCounted'
  BY ZenonT(40) DEF RefsCounted
<1> QED
  BY <1>1, <1>2, <1>3, ShortNested, ZenonT(40) DEF RefInv

\* An object that is being built is not referenced.
LEMMA FreshUnused ==
  ASSUME RefInv, NEW o \in Objects, Fresh(o)
  PROVE  refCount[o] = 0 /\ ~Indexed(o) /\ Holders(o) = {}
<1>1. refCount[o] = 0
  BY ZenonT(40) DEF Fresh, RefInv, Unborn
<1>2. Cardinality(Holders(o)) \in Nat /\ refCount[o] >= Owed(o)
  BY HoldersFinite, ZenonT(40) DEF RefInv, RefsCounted
<1>3. ~Indexed(o) /\ Cardinality(Holders(o)) = 0
  BY <1>1, <1>2, OwedCases
<1> QED
  BY <1>1, <1>3, HoldersFinite, FS_EmptySet, ZenonT(40)

\* A reference on y that is held is counted.
LEMMA HeldCounted ==
  ASSUME RefInv, NEW y \in Objects, NEW h \in Holders(y)
  PROVE  refCount[y] \in Nat /\ refCount[y] >= 1
<1>1. Cardinality(Holders(y)) \in Nat /\ Cardinality(Holders(y)) # 0
  BY HoldersFinite, FS_EmptySet, ZenonT(40)
<1>2. refCount[y] >= Owed(y) /\ refCount[y] \in Nat
  BY ZenonT(40) DEF RefInv, RefsCounted, TypeInv, TypeOK
<1> QED
  BY <1>1, <1>2, OwedCases

\* The object at an ID has the ID's reference.
LEMMA IndexedCounted ==
  ASSUME RefInv, NEW y \in Objects, Indexed(y)
  PROVE  refCount[y] \in Nat /\ refCount[y] >= 1
<1>1. Cardinality(Holders(y)) \in Nat
  BY HoldersFinite, ZenonT(40)
<1>2. refCount[y] >= Owed(y) /\ refCount[y] \in Nat
  BY ZenonT(40) DEF RefInv, RefsCounted, TypeInv, TypeOK
<1> QED
  BY <1>1, <1>2, OwedCases

\* An object that is created, with a link from its slot Input to x or to none.
LEMMA CreateStep ==
  ASSUME RefInv, TypeInv', NEW o \in Objects, NEW i \in Ids, NEW x \in Objects \cup {Nil},
         stack = <<>>, stack' = stack, Fresh(o), Insert(o, i),
         x # Nil => refCount[x] > 0,
         held' = [held EXCEPT ![o][Input] = x],
         refCount' = [y \in Objects |->
           CASE y = o -> 1 [] y = x -> refCount[y] + 1 [] OTHER -> refCount[y]]
  PROVE  RefInv'
<1>t. /\ refCount \in [Objects -> Nat]
      /\ held \in [Objects -> [Slots -> Objects \cup {Nil}]] /\ Input \in Slots
      /\ ids \in [Ids -> Objects \cup {Nil}] /\ nid \in [Objects -> 0..MaxNid]
  BY ZenonT(40) DEF RefInv, TypeInv, TypeOK, Slots
<1>0. Nil \notin Objects
  BY ObjectsAssumption, ZenonT(40)
<1>1. refCount[o] = 0 /\ ~Indexed(o) /\ Holders(o) = {}
  BY FreshUnused, ZenonT(40)
<1>2. x # o
  BY <1>0, <1>1, <1>t
<1>3. Short(stack) /\ Short(stack')
  BY ZenonT(40) DEF Short
<1>4. \A y \in Objects :
        /\ Holders(y) = {h \in Objects \X Slots : held[h[1]][h[2]] = y}
        /\ Holders(y)' = {h \in Objects \X Slots : held'[h[1]][h[2]] = y}
  BY <1>3, ShortHolders, ZenonT(40)
<1>5. \A h \in Objects \X Slots :
        held'[h[1]][h[2]] = IF h = <<o, Input>> THEN x ELSE held[h[1]][h[2]]
  BY <1>t
<1>6. ids' = [ids EXCEPT ![i] = o] /\ ids[i] = Nil
      /\ nid' = [nid EXCEPT ![o] = NextNid] /\ NextNid \in 1..MaxNid
  BY InsertType, ZenonT(40) DEF Insert, RefInv
<1>7. \A y \in Objects : y # o => (Indexed(y)' => Indexed(y))
  BY <1>t, <1>6, ZenonT(40) DEF Indexed
<1>8. Unborn'
  <2> SUFFICES ASSUME NEW y \in Objects, nid'[y] = InvalidNID PROVE refCount'[y] = 0
    BY ZenonT(40) DEF Unborn
  <2>1. y # o /\ nid'[y] = nid[y]
    BY <1>t, <1>6 DEF InvalidNID
  <2>2. refCount[y] = 0
    BY <2>1, ZenonT(40) DEF RefInv, Unborn
  <2>3. y # x
    BY <1>0, <2>2
  <2> QED
    BY <2>1, <2>2, <2>3, ZenonT(40)
<1>9. OneId'
  BY <1>t, <1>1, <1>6, ZenonT(40) DEF RefInv, OneId, Indexed
<1>10. ASSUME NEW y \in Objects PROVE refCount'[y] >= Owed(y)'
  <2>1. refCount[y] \in Nat /\ refCount[y] >= Owed(y)
    BY <1>t, ZenonT(40) DEF RefInv, RefsCounted
  <2>2. CASE y = o
    <3>1. Holders(o)' = {}
      BY <1>1, <1>2, <1>4, <1>5
    <3>2. Cardinality(Holders(o)') = 0
      BY <3>1, FS_EmptySet, ZenonT(40)
    <3>3. Owed(y)' \in {0, 1}
      BY <2>2, <3>2, OwedCases
    <3>4. refCount'[y] = 1
      BY <1>2, <2>2, ZenonT(40)
    <3> QED
      BY <3>3, <3>4
  <2>3. CASE y = x
    <3>1. Holders(y)' \subseteq Holders(y) \cup {<<o, Input>>}
      BY <1>4, <1>5
    <3>2. refCount'[y] = refCount[y] + 1 /\ y # o
      BY <1>2, <2>3, ZenonT(40)
    <3>3. Owed(y) \in Nat /\ Owed(y)' \in Nat /\ Owed(y)' <= Owed(y) + 1
      BY <1>7, <3>1, <3>2, Grows, ZenonT(40)
    <3> QED
      BY <2>1, <3>2, <3>3
  <2>4. CASE y # o /\ y # x
    <3>1. Holders(y)' \subseteq Holders(y)
      BY <1>4, <1>5, <2>4
    <3>2. refCount'[y] = refCount[y]
      BY <2>4, ZenonT(40)
    <3> QED
      BY <1>7, <2>1, <2>4, <3>1, <3>2, Stays
  <2> QED
    BY <2>2, <2>3, <2>4, ZenonT(40)
<1>11. RefsCounted'
  BY <1>10, ZenonT(40) DEF RefsCounted
<1> QED
  BY <1>3, <1>8, <1>9, <1>11, ShortNested, ZenonT(40) DEF RefInv

\* The slot h of o comes to reference x, and the count of x grows.
LEMMA AcquireStep ==
  ASSUME RefInv, TypeInv', NEW o \in Objects, NEW s \in Slots, NEW x \in Objects,
         stack = <<>>, stack' = stack, UNCHANGED <<ids, nid>>, refCount[x] > 0,
         held' = [held EXCEPT ![o][s] = x] \/ held' = held,
         refCount' = [refCount EXCEPT ![x] = @ + 1]
  PROVE  RefInv'
<1>t. /\ refCount \in [Objects -> Nat]
      /\ held \in [Objects -> [Slots -> Objects \cup {Nil}]]
  BY ZenonT(40) DEF RefInv, TypeInv, TypeOK
<1>1. Short(stack) /\ Short(stack')
  BY ZenonT(40) DEF Short
<1>2. \A y \in Objects :
        /\ Holders(y) = {h \in Objects \X Slots : held[h[1]][h[2]] = y}
        /\ Holders(y)' = {h \in Objects \X Slots : held'[h[1]][h[2]] = y}
  BY <1>1, ShortHolders, ZenonT(40)
<1>3. \A h \in Objects \X Slots :
        h # <<o, s>> => held'[h[1]][h[2]] = held[h[1]][h[2]]
  BY <1>t
<1>4. held'[o][s] = x \/ held'[o][s] = held[o][s]
  BY <1>t, ZenonT(40)
<1>5. ASSUME NEW y \in Objects PROVE refCount'[y] >= Owed(y)'
  <2>1. refCount[y] \in Nat /\ refCount[y] >= Owed(y) /\ (Indexed(y)' => Indexed(y))
    BY <1>t, ZenonT(40) DEF RefInv, RefsCounted, Indexed
  <2>2. CASE y = x
    <3>1. Holders(y)' \subseteq Holders(y) \cup {<<o, s>>}
      BY <1>2, <1>3
    <3>2. refCount'[y] = refCount[y] + 1
      BY <1>t, <2>2, ZenonT(40)
    <3>3. Owed(y) \in Nat /\ Owed(y)' \in Nat /\ Owed(y)' <= Owed(y) + 1
      BY <2>1, <3>1, Grows, ZenonT(40)
    <3> QED
      BY <2>1, <3>2, <3>3
  <2>3. CASE y # x
    <3>1. Holders(y)' \subseteq Holders(y)
      BY <1>2, <1>3, <1>4, <2>3
    <3>2. refCount'[y] = refCount[y]
      BY <1>t, <2>3, ZenonT(40)
    <3> QED
      BY <2>1, <3>1, <3>2, Stays
  <2> QED
    BY <2>2, <2>3, ZenonT(40)
<1>6. \A y \in Objects : refCount[y] = 0 => refCount'[y] = 0
  BY <1>t
<1> QED
  BY <1>1, <1>5, <1>6, LinkStep, ZenonT(40)

\* A packet takes a reference, in the middle of a cleanup or not.
LEMMA SwapStep ==
  ASSUME RefInv, TypeInv', NEW x \in Objects, refCount[x] > 0,
         refCount' = [refCount EXCEPT ![x] = @ + 1], UNCHANGED <<stack, ids, nid, held>>
  PROVE  RefInv'
<1>t. refCount \in [Objects -> Nat]
  BY ZenonT(40) DEF RefInv, TypeInv, TypeOK
<1>1. \A y \in Objects : (refCount[y] = 0 => refCount'[y] = 0) /\ refCount'[y] >= refCount[y]
  BY <1>t
<1>2. Nested' /\ OneId'
  BY ZenonT(40) DEF RefInv, Nested, OneId
<1>3. Unborn'
  BY <1>1, ZenonT(40) DEF RefInv, Unborn
<1>4. Spent'
  <2> SUFFICES ASSUME NEW k \in 1..(Len(stack) - 1), held[stack[k][1]][stack[k][2]] # Nil
               PROVE  refCount'[held[stack[k][1]][stack[k][2]]] = 0
    BY ZenonT(40) DEF Spent
  <2>1. refCount[held[stack[k][1]][stack[k][2]]] = 0
    BY ZenonT(40) DEF RefInv, Spent
  <2>2. held[stack[k][1]][stack[k][2]] \in Objects
    <3>1. stack[k] \in Objects \X (Slots \cup {Nil}) /\ stack[k][2] \in Slots
      <4> DEFINE S == Objects \X (Slots \cup {Nil})
      <4>1. stack \in Seq(S)
        BY ZenonT(40) DEF RefInv, TypeInv, TypeOK
      <4>2. stack[k][2] \in Slots
        BY ZenonT(40) DEF RefInv, Nested
      <4> HIDE DEF S
      <4>3. stack[k] \in S
        BY <4>1
      <4> QED
        BY <4>2, <4>3, ZenonT(40) DEF S
    <3>2. held \in [Objects -> [Slots -> Objects \cup {Nil}]]
      BY ZenonT(40) DEF RefInv, TypeInv, TypeOK
    <3> QED
      BY <3>1, <3>2
  <2> QED
    BY <1>1, <2>1, <2>2, ZenonT(40)
<1>5. RefsCounted'
  <2>1. \A y \in Objects : Owed(y)' = Owed(y) /\ refCount[y] >= Owed(y)
    BY ZenonT(40) DEF RefInv, RefsCounted, Owed, Holders, InFlight, Indexed
  <2>2. ASSUME NEW y \in Objects PROVE Owed(y) \in Nat
    <3>1. Cardinality(Holders(y)) \in Nat
      BY HoldersFinite, ZenonT(40)
    <3> QED
      BY <3>1 DEF Owed
  <2>3. \A y \in Objects : refCount'[y] >= Owed(y)
    BY <1>1, <1>t, <2>1, <2>2
  <2> QED
    BY <2>1, <2>3, ZenonT(40) DEF RefsCounted
<1> QED
  BY <1>2, <1>3, <1>4, <1>5, ZenonT(40) DEF RefInv

LEMMA DecCases == \A n \in Nat : n >= 1 => Dec(n) = n - 1
BY DEF Dec

\* Links of o are dropped, one of them, to y, with a release of y.
LEMMA ReleaseStep ==
  ASSUME RefInv, TypeInv', NEW o \in Objects, NEW s \in Slots, NEW y \in Objects,
         stack = <<>>, stack' = StartedBy(y), UNCHANGED <<ids, nid>>,
         held[o][s] = y, held'[o][s] # y,
         \A h \in Objects \X Slots :
           held'[h[1]][h[2]] = held[h[1]][h[2]] \/ held'[h[1]][h[2]] = Nil,
         refCount' = [refCount EXCEPT ![y] = Dec(@)]
  PROVE  RefInv'
<1>t. refCount \in [Objects -> Nat] /\ Nil \notin Objects
  BY ObjectsAssumption, ZenonT(40) DEF RefInv, TypeInv, TypeOK
<1>1. Short(stack) /\ Short(stack')
  BY StartedShort, ZenonT(40) DEF Short
<1>2. \A x \in Objects :
        /\ Holders(x) = {h \in Objects \X Slots : held[h[1]][h[2]] = x}
        /\ Holders(x)' = {h \in Objects \X Slots : held'[h[1]][h[2]] = x}
  BY <1>1, ShortHolders, ZenonT(40)
<1>3. <<o, s>> \in Holders(y) /\ Holders(y)' \subseteq Holders(y) \ {<<o, s>>}
  BY <1>t, <1>2, SMTT(30)
<1>4. refCount[y] >= 1
  BY <1>3, HeldCounted, ZenonT(40)
<1>5. ASSUME NEW x \in Objects PROVE refCount'[x] >= Owed(x)'
  <2>1. refCount[x] \in Nat /\ refCount[x] >= Owed(x) /\ (Indexed(x)' => Indexed(x))
    BY <1>t, ZenonT(40) DEF RefInv, RefsCounted, Indexed
  <2>2. CASE x = y
    <3>1. refCount'[x] = refCount[x] - 1
      BY <1>t, <1>4, <2>2, DecCases, ZenonT(40)
    <3>2. Owed(x) \in Nat /\ Owed(x)' \in Nat /\ Owed(x)' <= Owed(x) - 1
      BY <1>3, <2>1, <2>2, Shrinks, ZenonT(40)
    <3> QED
      BY <2>1, <3>1, <3>2
  <2>3. CASE x # y
    <3>1. refCount'[x] = refCount[x]
      BY <1>t, <2>3, ZenonT(40)
    <3>2. Holders(x)' \subseteq Holders(x)
      BY <1>t, <1>2
    <3>3. Owed(x) \in Nat /\ Owed(x)' \in Nat /\ Owed(x)' <= Owed(x)
      BY <2>1, <3>2, Stays, ZenonT(40)
    <3> QED
      BY <2>1, <3>1, <3>3
  <2> QED
    BY <2>2, <2>3, ZenonT(40)
<1>6. \A x \in Objects : refCount[x] = 0 => refCount'[x] = 0
  BY <1>t, <1>4
<1> QED
  BY <1>1, <1>5, <1>6, LinkStep, ZenonT(40)

\* An entry of o that referenced y comes to reference x.
LEMMA ReplaceStep ==
  ASSUME RefInv, TypeInv', NEW o \in Objects, NEW s \in Slots,
         NEW x \in Objects, NEW y \in Objects, x # y,
         stack = <<>>, stack' = StartedBy(y), UNCHANGED <<ids, nid>>,
         held[o][s] = y, held' = [held EXCEPT ![o][s] = x], refCount[x] > 0,
         refCount' = [refCount EXCEPT ![x] = @ + 1, ![y] = Dec(@)]
  PROVE  RefInv'
<1>t. /\ refCount \in [Objects -> Nat]
      /\ held \in [Objects -> [Slots -> Objects \cup {Nil}]]
  BY ZenonT(40) DEF RefInv, TypeInv, TypeOK
<1>1. Short(stack) /\ Short(stack')
  BY StartedShort, ZenonT(40) DEF Short
<1>2. \A z \in Objects :
        /\ Holders(z) = {h \in Objects \X Slots : held[h[1]][h[2]] = z}
        /\ Holders(z)' = {h \in Objects \X Slots : held'[h[1]][h[2]] = z}
  BY <1>1, ShortHolders, ZenonT(40)
<1>3. /\ held'[o][s] = x
      /\ \A h \in Objects \X Slots : h # <<o, s>> => held'[h[1]][h[2]] = held[h[1]][h[2]]
  BY <1>t
<1>4. <<o, s>> \in Holders(y) /\ Holders(y)' \subseteq Holders(y) \ {<<o, s>>}
  BY <1>2, <1>3
<1>5. refCount[y] >= 1
  BY <1>4, HeldCounted, ZenonT(40)
<1>6. /\ refCount'[x] = refCount[x] + 1 /\ refCount'[y] = Dec(refCount[y])
      /\ \A z \in Objects : z # x /\ z # y => refCount'[z] = refCount[z]
  BY <1>t, ZenonT(40)
<1>7. ASSUME NEW z \in Objects PROVE refCount'[z] >= Owed(z)'
  <2>1. refCount[z] \in Nat /\ refCount[z] >= Owed(z) /\ (Indexed(z)' => Indexed(z))
    BY <1>t, ZenonT(40) DEF RefInv, RefsCounted, Indexed
  <2>2. CASE z = y
    <3>1. refCount'[z] = refCount[z] - 1
      BY <1>t, <1>5, <1>6, <2>2, DecCases, ZenonT(40)
    <3>2. Owed(z) \in Nat /\ Owed(z)' \in Nat /\ Owed(z)' <= Owed(z) - 1
      BY <1>4, <2>1, <2>2, Shrinks, ZenonT(40)
    <3> QED
      BY <2>1, <3>1, <3>2
  <2>3. CASE z = x
    <3>1. Holders(z)' \subseteq Holders(z) \cup {<<o, s>>}
      BY <1>2, <1>3
    <3>2. Owed(z) \in Nat /\ Owed(z)' \in Nat /\ Owed(z)' <= Owed(z) + 1
      BY <2>1, <3>1, Grows, ZenonT(40)
    <3>3. refCount'[z] = refCount[z] + 1
      BY <1>6, <2>3, ZenonT(40)
    <3> QED
      BY <2>1, <3>2, <3>3
  <2>4. CASE z # x /\ z # y
    <3>1. Holders(z)' \subseteq Holders(z)
      BY <1>2, <1>3, <2>4
    <3>2. Owed(z) \in Nat /\ Owed(z)' \in Nat /\ Owed(z)' <= Owed(z)
      BY <2>1, <3>1, Stays, ZenonT(40)
    <3>3. refCount'[z] = refCount[z]
      BY <1>6, <2>4, ZenonT(40)
    <3> QED
      BY <2>1, <3>2, <3>3
  <2> QED
    BY <2>2, <2>3, <2>4, ZenonT(40)
<1>8. \A z \in Objects : refCount[z] = 0 => refCount'[z] = 0
  BY <1>t, <1>5, <1>6
<1> QED
  BY <1>1, <1>7, <1>8, LinkStep, ZenonT(40)

\* The actions of a port are overwritten.
LEMMA UpdateStep ==
  ASSUME RefInv, TypeInv', NEW o \in Objects, NEW new \in [Slots -> Objects \cup {Nil}],
         Short(stack), PortUpdate(o, new)
  PROVE  RefInv'
<1>t. /\ refCount \in [Objects -> Nat]
      /\ held \in [Objects -> [Slots -> Objects \cup {Nil}]]
  BY ZenonT(40) DEF RefInv, TypeInv, TypeOK
<1>0. /\ \A s \in Slots : new[s] # Nil => refCount[new[s]] > 0
      /\ held' = [held EXCEPT ![o] = new]
      /\ refCount' = [y \in Objects |-> refCount[y] + Taken(new, y)]
      /\ UNCHANGED <<ids, nid, stack>>
  BY ZenonT(40) DEF PortUpdate, CanAcquire
<1>1. Short(stack) /\ Short(stack')
  BY <1>0, ZenonT(40)
<1>2. \A z \in Objects :
        /\ Holders(z) = {h \in Objects \X Slots : held[h[1]][h[2]] = z}
        /\ Holders(z)' = {h \in Objects \X Slots : held'[h[1]][h[2]] = z}
  BY <1>1, ShortHolders, ZenonT(40)
<1>3. ASSUME NEW y \in Objects PROVE refCount'[y] >= Owed(y)'
  <2> DEFINE S == {s \in Slots : new[s] = y}
             N == {o} \X S
  <2>1. refCount[y] \in Nat /\ refCount[y] >= Owed(y) /\ (Indexed(y)' <=> Indexed(y))
    BY <1>t, <1>0, ZenonT(40) DEF RefInv, RefsCounted, Indexed
  <2>2. IsFiniteSet(S) /\ Cardinality(S) = Taken(new, y) /\ Taken(new, y) \in Nat
    <3>1. S \in SUBSET Slots
      BY ZenonT(40)
    <3>2. IsFiniteSet(S)
      <4> HIDE DEF S
      <4> QED
        BY <3>1, SlotsFinite, FS_Subset, ZenonT(40)
    <3>3. Cardinality(S) = Taken(new, y)
      BY ZenonT(40) DEF Taken
    <3> QED
      BY <3>2, <3>3, TakenType, ZenonT(40)
  <2>3. IsFiniteSet({o}) /\ Cardinality({o}) = 1
    BY FS_Singleton, ZenonT(40)
  <2>4. IsFiniteSet(N) /\ Cardinality(N) = 1 * Cardinality(S)
    <3> HIDE DEF S
    <3> QED
      BY <2>2, <2>3, FS_Product, ZenonT(40)
  <2>5. Holders(y)' \subseteq Holders(y) \cup N
    <3> SUFFICES ASSUME NEW h \in Holders(y)', h \notin Holders(y) PROVE h \in N
      BY ZenonT(40)
    <3>1. h \in Objects \X Slots /\ held'[h[1]][h[2]] = y /\ held[h[1]][h[2]] # y
      BY <1>2, ZenonT(40)
    <3>2. h[1] = o
      BY <1>t, <1>0, <3>1, ZenonT(40)
    <3>3. new[h[2]] = y
      BY <1>t, <1>0, <3>1, <3>2, ZenonT(40)
    <3> QED
      BY <3>1, <3>2, <3>3, ZenonT(40)
  <2> HIDE DEF N, S
  <2>6. IsFiniteSet(Holders(y)) /\ Cardinality(Holders(y)) \in Nat /\ Cardinality(Holders(y)') \in Nat
    BY HoldersFinite, ZenonT(40)
  <2>7. IsFiniteSet(Holders(y) \cup N)
        /\ Cardinality(Holders(y) \cup N)
             = Cardinality(Holders(y)) + Cardinality(N) - Cardinality(Holders(y) \cap N)
        /\ Cardinality(Holders(y) \cap N) \in Nat
    BY <2>4, <2>6, FS_Union, FS_Intersection, FS_CardinalityType, ZenonT(40)
  <2>8. Cardinality(Holders(y)') <= Cardinality(Holders(y) \cup N)
    BY <2>5, <2>7, CardLe, ZenonT(40)
  <2>9. Cardinality(Holders(y)') <= Cardinality(Holders(y)) + Taken(new, y)
    BY <2>2, <2>4, <2>6, <2>7, <2>8
  <2>10. Owed(y) \in Nat /\ Owed(y)' \in Nat /\ Owed(y)' <= Owed(y) + Taken(new, y)
    BY <2>1, <2>2, <2>6, <2>9, OwedCases
  <2>11. refCount'[y] = refCount[y] + Taken(new, y)
    BY <1>0, ZenonT(40)
  <2> QED
    BY <2>1, <2>2, <2>10, <2>11
<1>4. ASSUME NEW y \in Objects, refCount[y] = 0 PROVE refCount'[y] = 0
  <2>1. {s \in Slots : new[s] = y} = {}
    BY <1>0, <1>4, ObjectsAssumption
  <2>2. Taken(new, y) = 0
    BY <2>1, FS_EmptySet, ZenonT(40) DEF Taken
  <2> QED
    BY <1>0, <1>4, <2>2
<1> QED
  BY <1>0, <1>1, <1>3, <1>4, LinkStep, ZenonT(40)

\* The object at an ID loses the ID and its reference.
LEMMA RemoveStep ==
  ASSUME RefInv, TypeInv', NEW i \in Ids, ids[i] # Nil, stack = <<>>, Short(stack'),
         ids' = [ids EXCEPT ![i] = Nil],
         refCount' = [refCount EXCEPT ![ids[i]] = Dec(@)],
         UNCHANGED <<nid, held>>
  PROVE  RefInv'
<1> DEFINE o == ids[i]
<1>t. /\ refCount \in [Objects -> Nat] /\ Nil \notin Objects
      /\ ids \in [Ids -> Objects \cup {Nil}] /\ o \in Objects
  BY ObjectsAssumption, ZenonT(40) DEF RefInv, TypeInv, TypeOK
<1>1. Short(stack)
  BY ZenonT(40) DEF Short
<1>2. \A z \in Objects : Holders(z)' = Holders(z)
  BY <1>1, ShortHolders, ZenonT(40)
<1>3. Indexed(o) /\ \A z \in Objects : (z = o => ~Indexed(z)') /\ (Indexed(z)' => Indexed(z))
  <2>1. \A j \in Ids : j # i => ids[j] # o
    BY ZenonT(40) DEF RefInv, OneId
  <2>2. \A j \in Ids : ids'[j] = IF j = i THEN Nil ELSE ids[j]
    BY <1>t, ZenonT(40)
  <2>3. Indexed(o)
    BY ZenonT(40) DEF Indexed
  <2>4. \A z \in Objects : z = o => ~Indexed(z)'
    BY <1>t, <2>1, <2>2, ZenonT(40) DEF Indexed
  <2>5. \A z \in Objects : Indexed(z)' => Indexed(z)
    BY <1>t, <2>2, ZenonT(40) DEF Indexed
  <2> QED
    BY <2>3, <2>4, <2>5, ZenonT(40)
<1>4. refCount[o] >= 1
  BY <1>t, <1>3, IndexedCounted, ZenonT(40)
<1>5. ASSUME NEW z \in Objects PROVE refCount'[z] >= Owed(z)'
  <2>1. refCount[z] \in Nat /\ refCount[z] >= Owed(z) /\ Cardinality(Holders(z)) \in Nat
    BY <1>t, HoldersFinite, ZenonT(40) DEF RefInv, RefsCounted
  <2>2. CASE z = o
    <3>1. refCount'[z] = refCount[z] - 1
      BY <1>t, <1>4, <2>2, DecCases, ZenonT(40)
    <3>2. Owed(z)' = Owed(z) - 1 /\ Owed(z) \in Nat
      <4>1. Indexed(z) /\ ~Indexed(z)' /\ Cardinality(Holders(z)') = Cardinality(Holders(z))
        BY <1>2, <1>3, <2>2, ZenonT(40)
      <4> QED
        BY <2>1, <4>1, OwedCases
    <3> QED
      BY <2>1, <3>1, <3>2
  <2>3. CASE z # o
    <3>1. refCount'[z] = refCount[z]
      BY <1>t, <2>3, ZenonT(40)
    <3>2. Owed(z) \in Nat /\ Owed(z)' \in Nat /\ Owed(z)' <= Owed(z)
      BY <1>2, <1>3, Stays, ZenonT(40)
    <3> QED
      BY <2>1, <3>1, <3>2
  <2> QED
    BY <2>2, <2>3, ZenonT(40)
<1>6. Unborn'
  BY <1>t, <1>4 DEF RefInv, Unborn
<1>7. OneId'
  BY <1>t, ZenonT(40) DEF RefInv, OneId
<1>8. RefsCounted'
  BY <1>5, ZenonT(40) DEF RefsCounted
<1> QED
  BY <1>6, <1>7, <1>8, ShortNested, ZenonT(40) DEF RefInv

-----------------------------------------------------------------------------
(* Cleanups: what a pending release is about to forget does not count. *)

\* A cleanup that releases a reference.
LEMMA SlotStep ==
  ASSUME RefInv, TypeInv', NEW s \in Slots, CleanupSlot(s)
  PROVE  RefInv'
<1> DEFINE o == Top[1]
           x == held[o][s]
           n == Len(stack)
           g == <<o, s>>
<1>1. stack # <<>> /\ Top[2] = Nil /\ UNCHANGED <<ids, nid>>
  BY ZenonT(40) DEF CleanupSlot
<1>2. n \in Nat \ {0} /\ DOMAIN stack = 1..n /\ o \in Objects /\ stack[n] = <<o, Nil>>
  BY <1>1, TopFacts, ZenonT(40) DEF RefInv
<1>3. x \in Objects /\ refCount' = [refCount EXCEPT ![x] = Dec(@)]
  BY SlotFacts, ZenonT(40) DEF RefInv
<1>t. /\ refCount \in [Objects -> Nat] /\ Nil \notin Objects /\ Nil \notin Slots
      /\ held \in [Objects -> [Slots -> Objects \cup {Nil}]]
  BY ObjectsAssumption, ZenonT(40) DEF RefInv, TypeInv, TypeOK, Slots, Input, Output
<1>4. x = held[o][s] /\ g = <<o, s>> /\ g \in Objects \X Slots /\ n = Len(stack)
  BY <1>2, ZenonT(40)
<1>5. \/ held' = [held EXCEPT ![o][s] = Nil] /\ stack' = stack
      \/ /\ held' = held /\ refCount[x] = 1
         /\ stack' = Append([stack EXCEPT ![n] = g], Frame(x))
  BY SlotFacts, ZenonT(40) DEF RefInv
<1> HIDE DEF o, x, n, g
<1>6. \A y \in Objects : refCount'[y] = IF y = x THEN Dec(refCount[y]) ELSE refCount[y]
  BY <1>t, <1>3, ZenonT(40)
<1>7. \A y \in Objects : refCount[y] = 0 => refCount'[y] = 0
  BY <1>t, <1>6, ZenonT(40) DEF Dec
<1>8. Unborn' /\ OneId'
  BY <1>1, <1>7, ZenonT(40) DEF RefInv, Unborn, OneId
<1>9. \A y \in Objects : Indexed(y)' => Indexed(y)
  BY <1>1, ZenonT(40) DEF Indexed
\* A release that is pending already has nothing left to release.
<1>10. g \in InFlight => refCount[x] = 0
  <2> SUFFICES ASSUME NEW k \in 1..n, stack[k] = g PROVE refCount[x] = 0
    BY <1>2, ZenonT(40) DEF InFlight
  <2>1. k # n
    <3>1. g[2] # Nil /\ stack[n][2] = Nil
      BY <1>t, <1>2, <1>4
    <3> QED
      BY <3>1, ZenonT(40)
  <2>2. k \in 1..(n - 1)
    BY <1>2, <2>1
  <2> QED
    BY <1>3, <1>4, <1>t, <2>2, SMTT(30) DEF RefInv, Spent
<1>11. CASE held' = [held EXCEPT ![o][s] = Nil] /\ stack' = stack
  <2>1. \A h \in Objects \X Slots :
          held'[h[1]][h[2]] = IF h = g THEN Nil ELSE held[h[1]][h[2]]
    BY <1>t, <1>2, <1>4, <1>11
  <2>2. InFlight' = InFlight
    BY <1>11, ZenonT(40) DEF InFlight
  <2>3. \A y \in Objects : Holders(y)' \subseteq Holders(y) \ {g}
    BY <1>t, <2>1, <2>2, ZenonT(40) DEF Holders
  <2>4. ASSUME NEW y \in Objects PROVE refCount'[y] >= Owed(y)'
    <3>1. refCount[y] \in Nat /\ refCount[y] >= Owed(y)
      BY <1>t, ZenonT(40) DEF RefInv, RefsCounted
    <3>2. Owed(y) \in Nat /\ Owed(y)' \in Nat /\ Owed(y)' <= Owed(y)
      <4>1. Holders(y)' \subseteq Holders(y)
        BY <2>3, ZenonT(40)
      <4> QED
        BY <1>9, <4>1, Stays, ZenonT(40)
    <3>3. CASE y # x \/ refCount[y] = 0
      <4>1. refCount'[y] = refCount[y]
        BY <1>6, <3>3, ZenonT(40) DEF Dec
      <4> QED
        BY <3>1, <3>2, <4>1
    <3>4. CASE y = x /\ refCount[y] # 0
      <4>1. g \in Holders(y)
        BY <1>4, <1>10, <3>4, ZenonT(40) DEF Holders
      <4>2. Owed(y)' <= Owed(y) - 1
        BY <1>9, <2>3, <4>1, Shrinks, ZenonT(40)
      <4>3. refCount'[y] = refCount[y] - 1
        BY <1>6, <3>1, <3>4, ZenonT(40) DEF Dec
      <4> QED
        BY <3>1, <3>2, <4>2, <4>3
    <3> QED
      BY <3>3, <3>4, ZenonT(40)
  <2>5. Nested'
    BY <1>11, ZenonT(40) DEF RefInv, Nested
  <2>6. Spent'
    <3> SUFFICES ASSUME NEW k \in 1..(n - 1), held'[stack[k][1]][stack[k][2]] # Nil
                 PROVE  refCount'[held'[stack[k][1]][stack[k][2]]] = 0
      BY <1>4, <1>11, ZenonT(40) DEF Spent
    <3>1. stack[k] \in Objects \X (Slots \cup {Nil}) /\ stack[k][2] \in Slots
      BY <1>2, <1>4, SMTT(30) DEF RefInv, Nested, TypeInv, TypeOK
    <3>2. stack[k] \in Objects \X Slots
      BY <3>1, ZenonT(40)
    <3>3. held'[stack[k][1]][stack[k][2]] = held[stack[k][1]][stack[k][2]]
      BY <2>1, <3>2, ZenonT(40)
    <3>4. held[stack[k][1]][stack[k][2]] \in Objects
      BY <1>t, <3>2, <3>3, SMTT(30)
    <3>5. refCount[held[stack[k][1]][stack[k][2]]] = 0
      BY <1>4, <1>t, <3>4, ZenonT(40) DEF RefInv, Spent
    <3> QED
      BY <1>7, <3>3, <3>4, <3>5, ZenonT(40)
  <2> QED
    BY <1>8, <2>4, <2>5, <2>6, ZenonT(40) DEF RefInv, RefsCounted
<1>12. CASE /\ held' = held /\ refCount[x] = 1
            /\ stack' = Append([stack EXCEPT ![n] = g], Frame(x))
  <2> DEFINE t == [stack EXCEPT ![n] = g]
  <2>0. /\ stack \in Seq(Objects \X (Slots \cup {Nil}))
        /\ g \in Objects \X (Slots \cup {Nil}) /\ Frame(x) \in Objects \X (Slots \cup {Nil})
    BY <1>3, <1>4, ZenonT(40) DEF RefInv, TypeInv, TypeOK, Frame
  <2>1. /\ t \in Seq(Objects \X (Slots \cup {Nil})) /\ Len(t) = n /\ t[n] = g
        /\ \A k \in 1..n : k # n => t[k] = stack[k]
    <3>1. t \in Seq(Objects \X (Slots \cup {Nil})) /\ Len(t) = n
      BY <1>2, <1>4, <2>0
    <3>2. n \in DOMAIN stack
      BY <1>2
    <3>3. t[n] = g /\ \A k \in DOMAIN stack : k # n => t[k] = stack[k]
      BY <3>2, ZenonT(40)
    <3> QED
      BY <1>2, <3>1, <3>3, ZenonT(40)
  <2>2. stack' = Append(t, Frame(x))
    BY <1>12, ZenonT(40)
  <2> HIDE DEF t
  <2>3. /\ stack' \in Seq(Objects \X (Slots \cup {Nil})) /\ DOMAIN stack' = 1..(n + 1)
        /\ stack'[n + 1] = Frame(x) /\ \A k \in 1..n : stack'[k] = t[k]
    BY <2>0, <2>1, <2>2, AppendFacts
  <2>4. Len(stack') = n + 1
    BY <1>2, <2>3
  <2>5. refCount'[x] = 0
    BY <1>3, <1>6, <1>12 DEF Dec
  <2>6. stack'[n] = g /\ \A k \in 1..(n - 1) : stack'[k] = stack[k]
    BY <1>2, <2>1, <2>3
  <2>7. Nested'
    <3>1. stack'[Len(stack')][2] = Nil
      BY <2>3, <2>4 DEF Frame
    <3>2. \A k \in 1..n : stack'[k][2] \in Slots
      <4> SUFFICES ASSUME NEW k \in 1..n PROVE stack'[k][2] \in Slots
        BY ZenonT(40)
      <4>1. CASE k = n
        BY <1>4, <2>6, <4>1, ZenonT(40)
      <4>2. CASE k # n
        <5>1. k \in 1..(n - 1)
          BY <1>2, <4>2
        <5> QED
          BY <1>4, <2>6, <5>1, ZenonT(40) DEF RefInv, Nested
      <4> QED
        BY <4>1, <4>2, ZenonT(40)
    <3>3. Len(stack') - 1 = n
      BY <1>2, <2>4
    <3> QED
      BY <3>1, <3>2, <3>3, ZenonT(40) DEF Nested
  <2>8. Spent'
    <3> SUFFICES ASSUME NEW k \in 1..n, held[stack'[k][1]][stack'[k][2]] # Nil
                 PROVE  refCount'[held[stack'[k][1]][stack'[k][2]]] = 0
      <4>1. Len(stack') - 1 = n
        BY <1>2, <2>4
      <4> QED
        BY <1>12, <4>1, ZenonT(40) DEF Spent
    <3>1. CASE k = n
      BY <1>4, <2>5, <2>6, <3>1, SMTT(30)
    <3>2. CASE k # n
      <4>1. k \in 1..(n - 1)
        BY <1>2, <3>2
      <4>2. stack'[k] = stack[k]
        BY <2>6, <4>1, ZenonT(40)
      <4>3. stack[k] \in Objects \X (Slots \cup {Nil}) /\ stack[k][2] \in Slots
        BY <1>2, <1>4, <4>1, SMTT(30) DEF RefInv, Nested, TypeInv, TypeOK
      <4>4. held[stack[k][1]][stack[k][2]] \in Objects
        BY <1>t, <4>2, <4>3
      <4>5. refCount[held[stack[k][1]][stack[k][2]]] = 0
        BY <1>4, <1>t, <4>1, <4>4, ZenonT(40) DEF RefInv, Spent
      <4> QED
        BY <1>7, <4>2, <4>4, <4>5, ZenonT(40)
    <3> QED
      BY <3>1, <3>2, ZenonT(40)
  <2>10. \A h \in Objects \X Slots : h \in InFlight \/ h = g <=> h \in InFlight'
    <3> SUFFICES ASSUME NEW h \in Objects \X Slots
                 PROVE  h \in InFlight \/ h = g <=> h \in InFlight'
      BY ZenonT(40)
    <3>1. h # <<o, Nil>> /\ h # Frame(x)
      BY <1>t DEF Frame
    <3>2. h \in InFlight <=> \E k \in 1..(n - 1) : stack[k] = h
      <4>1. \A k \in 1..n : k = n \/ k \in 1..(n - 1)
        BY <1>2
      <4>2. 1..(n - 1) \subseteq 1..n
        BY <1>2
      <4> QED
        BY <1>2, <3>1, <4>1, <4>2, ZenonT(40) DEF InFlight
    <3>3. h \in InFlight' <=> h = g \/ \E k \in 1..(n - 1) : stack[k] = h
      <4>1. \A k \in 1..(n + 1) : k = n + 1 \/ k = n \/ k \in 1..(n - 1)
        BY <1>2
      <4>2. 1..(n - 1) \subseteq 1..(n + 1) /\ n \in 1..(n + 1)
        BY <1>2
      <4>3. h \in InFlight' <=> \E k \in 1..(n + 1) : stack'[k] = h
        BY <2>3, ZenonT(40) DEF InFlight
      <4>4. stack'[n + 1] # h
        BY <2>3, <3>1, ZenonT(40)
      <4>5. (\E k \in 1..(n + 1) : stack'[k] = h) <=> (h = g \/ \E k \in 1..(n - 1) : stack[k] = h)
        BY <2>6, <4>1, <4>2, <4>4, ZenonT(40)
      <4> QED
        BY <4>3, <4>5, ZenonT(40)
    <3> QED
      BY <3>2, <3>3, ZenonT(40)
  <2>11. g \in Holders(x) /\ \A y \in Objects : Holders(y)' \subseteq Holders(y) \ {g}
    BY <1>4, <1>10, <1>12, <2>10 DEF Holders
  <2>12. ASSUME NEW y \in Objects PROVE refCount'[y] >= Owed(y)'
    <3>1. refCount[y] \in Nat /\ refCount[y] >= Owed(y)
      BY <1>t DEF RefInv, RefsCounted
    <3>2. CASE y = x
      <4>1. Owed(y) \in Nat /\ Owed(y)' \in Nat /\ Owed(y)' <= Owed(y) - 1
        BY <1>9, <2>11, <3>2, Shrinks, ZenonT(40)
      <4>2. refCount'[y] = refCount[y] - 1
        BY <1>12, <2>5, <3>2
      <4> QED
        BY <3>1, <4>1, <4>2
    <3>3. CASE y # x
      <4>1. Holders(y)' \subseteq Holders(y)
        BY <2>11, ZenonT(40)
      <4>2. Owed(y) \in Nat /\ Owed(y)' \in Nat /\ Owed(y)' <= Owed(y)
        BY <1>9, <4>1, Stays
      <4>3. refCount'[y] = refCount[y]
        BY <1>6, <3>3, ZenonT(40)
      <4> QED
        BY <3>1, <4>2, <4>3
    <3> QED
      BY <3>2, <3>3, ZenonT(40)
  <2> QED
    BY <1>8, <2>7, <2>8, <2>12, ZenonT(40) DEF RefInv, RefsCounted
<1> QED
  BY <1>5, <1>11, <1>12, ZenonT(40)

\* A cleanup that ends: the release below it forgets its reference.
LEMMA EndStep ==
  ASSUME RefInv, TypeInv', CleanupEnd
  PROVE  RefInv'
<1> DEFINE n == Len(stack)
           p == stack[n - 1]
<1>1. stack # <<>> /\ Top[2] = Nil /\ UNCHANGED <<ids, nid, refCount>>
  BY ZenonT(40) DEF CleanupEnd
<1>2. n \in Nat \ {0} /\ DOMAIN stack = 1..n /\ stack[n] = <<Top[1], Nil>>
  BY <1>1, TopFacts, ZenonT(40) DEF RefInv
<1>t. /\ refCount \in [Objects -> Nat] /\ Nil \notin Objects /\ Nil \notin Slots
      /\ held \in [Objects -> [Slots -> Objects \cup {Nil}]]
  BY ObjectsAssumption, ZenonT(40) DEF RefInv, TypeInv, TypeOK, Slots, Input, Output
<1>3. Unborn' /\ OneId'
  BY <1>1, ZenonT(40) DEF RefInv, Unborn, OneId
<1>4. \A y \in Objects : (Indexed(y)' => Indexed(y)) /\ refCount[y] >= Owed(y) /\ refCount[y] \in Nat
  BY <1>1, <1>t, ZenonT(40) DEF Indexed, RefInv, RefsCounted
<1>5. ASSUME NEW y \in Objects, Holders(y)' \subseteq Holders(y)
      PROVE  refCount'[y] >= Owed(y)'
  <2>1. Owed(y) \in Nat /\ Owed(y)' \in Nat /\ Owed(y)' <= Owed(y)
    BY <1>4, <1>5, Stays, ZenonT(40)
  <2> QED
    BY <1>1, <1>4, <2>1
<1>6. CASE n = 1 /\ stack' = <<>> /\ held' = held
  <2>1. \A h \in Objects \X Slots : h \notin InFlight
    <3>1. \A k \in DOMAIN stack : stack[k][2] = Nil
      BY <1>2, <1>6
    <3> QED
      BY <1>t, <3>1, ZenonT(40) DEF InFlight
  <2>2. \A y \in Objects : Holders(y)' \subseteq Holders(y)
    BY <1>6, <2>1, ZenonT(40) DEF Holders
  <2>3. RefsCounted'
    BY <1>5, <2>2, ZenonT(40) DEF RefsCounted
  <2>4. Short(stack')
    BY <1>6, ZenonT(40) DEF Short
  <2> QED
    BY <1>3, <2>3, <2>4, ShortNested, ZenonT(40) DEF RefInv
<1>7. CASE /\ n \in Nat /\ n > 1
           /\ p \in Objects \X (Slots \cup {Nil})
           /\ held' = [held EXCEPT ![p[1]][p[2]] = Nil]
           /\ Len(stack') = n - 1
           /\ DOMAIN stack' = 1..(n - 1)
           /\ stack'[n - 1] = Frame(p[1])
           /\ \A k \in 1..(n - 2) : stack'[k] = stack[k]
  <2>0. p = stack[n - 1] /\ n = Len(stack)
    BY ZenonT(40)
  <2> HIDE DEF n, p
  <2>1. n - 1 \in 1..(n - 1) /\ 1..(n - 2) \subseteq 1..(n - 1) /\ (n - 1) - 1 = n - 2
        /\ 1..(n - 1) \subseteq 1..n
        /\ (\A k \in 1..n : k = n \/ k = n - 1 \/ k \in 1..(n - 2))
        /\ (\A k \in 1..(n - 1) : k = n - 1 \/ k \in 1..(n - 2))
    BY <1>7
  <2>2. \A k \in 1..(n - 1) : stack[k][2] \in Slots /\ stack[k] \in Objects \X (Slots \cup {Nil})
    <3>1. \A k \in 1..(n - 1) : stack[k][2] \in Slots
      BY <2>0, ZenonT(40) DEF RefInv, Nested
    <3>2. stack \in Seq(Objects \X (Slots \cup {Nil}))
      BY ZenonT(40) DEF RefInv, TypeInv, TypeOK
    <3>3. \A k \in DOMAIN stack : stack[k] \in Objects \X (Slots \cup {Nil})
      BY <3>2
    <3> QED
      BY <1>2, <2>0, <2>1, <3>1, <3>3, ZenonT(40)
  <2>3. \A k \in 1..(n - 1) : stack[k] \in Objects \X Slots
    BY <2>2, ZenonT(40)
  <2>4. p \in Objects \X Slots
    BY <2>0, <2>1, <2>3, ZenonT(40)
  <2>5. \A h \in Objects \X Slots :
          held'[h[1]][h[2]] = IF h = p THEN Nil ELSE held[h[1]][h[2]]
    <3>1. held' = [held EXCEPT ![p[1]][p[2]] = Nil]
      BY <1>7, ZenonT(40)
    <3>2. p = <<p[1], p[2]>> /\ p[1] \in Objects /\ p[2] \in Slots
      BY <2>4
    <3>3. \A x \in Objects, i \in Slots :
            held'[x][i] = IF x = p[1] /\ i = p[2] THEN Nil ELSE held[x][i]
      BY <1>t, <3>1, <3>2, SMTT(30)
    <3> QED
      BY <3>2, <3>3, SMTT(30)
  <2>6. Nested'
    <3>1. stack'[Len(stack')][2] = Nil
      BY <1>7 DEF Frame
    <3>2. \A k \in 1..(n - 2) : stack'[k][2] \in Slots
      BY <1>7, <2>1, <2>2, ZenonT(40)
    <3> QED
      BY <1>7, <2>1, <3>1, <3>2, ZenonT(40) DEF Nested
  <2>7. Spent'
    <3>0. Len(stack') - 1 = n - 2 /\ refCount' = refCount /\ \A k \in 1..(n - 2) : stack'[k] = stack[k]
      BY <1>1, <1>7, <2>1, ZenonT(40)
    <3> SUFFICES ASSUME NEW k \in 1..(n - 2), held'[stack[k][1]][stack[k][2]] # Nil
                 PROVE  refCount[held'[stack[k][1]][stack[k][2]]] = 0
      BY <3>0, ZenonT(40) DEF Spent
    <3>1. held'[stack[k][1]][stack[k][2]] = held[stack[k][1]][stack[k][2]]
      BY <2>1, <2>3, <2>5, ZenonT(40)
    <3> QED
      BY <2>0, <2>1, <3>1, ZenonT(40) DEF RefInv, Spent
  <2>8. \A h \in Objects \X Slots : h \in InFlight => h = p \/ h \in InFlight'
    <3> SUFFICES ASSUME NEW h \in Objects \X Slots, NEW k \in 1..n, stack[k] = h, h # p
                 PROVE  h \in InFlight'
      BY <1>2, <2>0, ZenonT(40) DEF InFlight
    <3>1. k # n
      <4>1. h[2] # Nil /\ stack[n][2] = Nil
        BY <1>t, <1>2, <2>0
      <4> QED
        BY <4>1, ZenonT(40)
    <3>2. k \in 1..(n - 2)
      BY <2>0, <2>1, <3>1, ZenonT(40)
    <3>3. stack'[k] = h /\ k \in DOMAIN stack'
      BY <1>7, <2>1, <3>2, ZenonT(40)
    <3> QED
      BY <3>3, ZenonT(40) DEF InFlight
  <2>9. \A y \in Objects : Holders(y)' \subseteq Holders(y)
    BY <1>t, <2>5, <2>8, ZenonT(40) DEF Holders
  <2>10. RefsCounted'
    BY <1>5, <2>9 DEF RefsCounted
  <2> QED
    BY <1>3, <2>6, <2>7, <2>10, ZenonT(40) DEF RefInv
<1> QED
  BY <1>6, <1>7, EndFacts, ZenonT(40) DEF RefInv

\* Every step keeps references counted.
LEMMA RefStep ==
  ASSUME RefInv, [Next]_vars
  PROVE  RefInv'
<1>t. TypeInv' /\ Input \in Slots /\ Output \in Slots /\ Nil \notin Objects
      /\ held \in [Objects -> [Slots -> Objects \cup {Nil}]] /\ refCount \in [Objects -> Nat]
  BY TypeStep, ObjectsAssumption, ZenonT(40) DEF RefInv, Slots, TypeInv, TypeOK
<1>1. ASSUME NEW o \in Objects, NEW i \in Ids, PortCreate(o, i) PROVE RefInv'
  <2>1. /\ stack = <<>> /\ stack' = stack /\ Fresh(o) /\ Insert(o, i) /\ held' = held
        /\ refCount' = [refCount EXCEPT ![o] = 1]
    BY <1>1, ZenonT(40) DEF PortCreate, Idle
  <2>0. PICK x \in Objects \cup {Nil} : x = Nil
    BY ZenonT(40)
  <2>2. held' = [held EXCEPT ![o][Input] = x]
    BY <1>t, <2>0, <2>1, ZenonT(40) DEF Fresh, NoRefs
  <2>3. refCount' = [y \in Objects |->
           CASE y = o -> 1 [] y = x -> refCount[y] + 1 [] OTHER -> refCount[y]]
    BY <1>t, <2>0, <2>1, ZenonT(40)
  <2>4. x # Nil => refCount[x] > 0
    BY <2>0, ZenonT(40)
  <2> QED
    BY <1>t, <2>1, <2>2, <2>3, <2>4, CreateStep, ZenonT(40)
<1>2. ASSUME NEW o \in Objects, NEW i \in Ids, NEW x \in Objects \cup {Nil},
             TableCreate(o, i, x)
      PROVE  RefInv'
  <2>1. /\ stack = <<>> /\ stack' = stack /\ Fresh(o) /\ Insert(o, i)
        /\ x # Nil => refCount[x] > 0
        /\ held' = [held EXCEPT ![o][Input] = x]
        /\ refCount' = [y \in Objects |->
             CASE y = o -> 1 [] y = x -> refCount[y] + 1 [] OTHER -> refCount[y]]
    BY <1>2, ZenonT(40) DEF TableCreate, Idle, CanAcquire
  <2> QED
    BY <1>t, <2>1, CreateStep, ZenonT(40)
<1>3. ASSUME NEW o \in Objects, NEW i \in Ids, NEW x \in Objects, TableCreateTaken(o, i, x)
      PROVE  RefInv'
  <2>1. /\ stack = <<>> /\ UNCHANGED <<stack, ids, nid>> /\ refCount[x] > 0
        /\ held' = [held EXCEPT ![o][Input] = x]
        /\ refCount' = [refCount EXCEPT ![x] = @ + 1]
    BY <1>3, ZenonT(40) DEF TableCreateTaken, Idle, CanAcquire
  <2> QED
    BY <1>t, <2>1, AcquireStep, ZenonT(40)
<1>4. ASSUME NEW o \in Objects, NEW x \in Objects, EntryAdd(o, x) PROVE RefInv'
  <2> DEFINE y == held[o][Output]
  <2>1. /\ held' = [held EXCEPT ![o][Output] = x] /\ stack = <<>> /\ refCount[x] > 0
        /\ IF y = Nil \/ y = x
           THEN /\ refCount' = [refCount EXCEPT ![x] = IF y = x THEN @ ELSE @ + 1]
                /\ stack' = stack
           ELSE /\ refCount' = [refCount EXCEPT ![x] = @ + 1, ![y] = Dec(@)]
                /\ stack' = StartedBy(y)
        /\ UNCHANGED <<ids, nid>>
    BY <1>4, ZenonT(40) DEF EntryAdd, Idle, CanAcquire
  <2>2. y \in Objects \cup {Nil} /\ y = held[o][Output]
    BY <1>t, ZenonT(40)
  <2> HIDE DEF y
  <2>3. CASE y = x
    <3>1. held' = held
      <4>1. [held[o] EXCEPT ![Output] = x] = held[o]
        BY <1>t, <2>2, <2>3, ZenonT(40)
      <4>2. held' = [held EXCEPT ![o] = [held[o] EXCEPT ![Output] = x]]
        BY <2>1, ZenonT(40)
      <4> QED
        BY <1>t, <4>1, <4>2, ZenonT(40)
    <3>2. refCount' = refCount /\ stack' = stack
      BY <1>t, <2>1, <2>3, ZenonT(40)
    <3>3. Short(stack') /\ Short(stack)
      BY <2>1, <3>2, ZenonT(40) DEF Short
    <3>4. \A z \in Objects : Owed(z)' <= Owed(z) /\ Owed(z) \in Nat /\ Owed(z)' \in Nat
      <4>1. \A z \in Objects : Holders(z)' \subseteq Holders(z) /\ (Indexed(z)' => Indexed(z))
        BY <2>1, <3>1, <3>2, ZenonT(40) DEF Holders, InFlight, Indexed
      <4> QED
        BY <4>1, Stays, ZenonT(40)
    <3>5. \A z \in Objects : refCount'[z] >= Owed(z)'
      BY <1>t, <3>2, <3>4 DEF RefInv, RefsCounted
    <3> QED
      BY <1>t, <2>1, <3>2, <3>3, <3>5, LinkStep, ZenonT(40)
  <2>4. CASE y = Nil
    <3>1. refCount' = [refCount EXCEPT ![x] = @ + 1] /\ stack' = stack
      BY <1>t, <2>1, <2>4, ZenonT(40)
    <3> QED
      BY <1>t, <2>1, <3>1, AcquireStep, ZenonT(40)
  <2>5. CASE y # Nil /\ y # x
    <3>1. /\ y \in Objects /\ stack' = StartedBy(y)
          /\ refCount' = [refCount EXCEPT ![x] = @ + 1, ![y] = Dec(@)]
      BY <2>1, <2>2, <2>5, ZenonT(40)
    <3> QED
      BY <1>t, <2>1, <2>2, <2>5, <3>1, ReplaceStep, ZenonT(40)
  <2> QED
    BY <2>3, <2>4, <2>5, ZenonT(40)
<1>5. ASSUME NEW o \in Objects, EntryRemove(o) PROVE RefInv'
  <2> DEFINE y == held[o][Output]
  <2>1. /\ stack = <<>> /\ y # Nil /\ held' = [held EXCEPT ![o][Output] = Nil]
        /\ refCount' = [refCount EXCEPT ![y] = Dec(@)] /\ stack' = StartedBy(y)
        /\ UNCHANGED <<ids, nid>>
    BY <1>5, ZenonT(40) DEF EntryRemove, Idle
  <2>2. y \in Objects /\ y = held[o][Output]
    BY <1>t, <2>1, ZenonT(40)
  <2> HIDE DEF y
  <2>3. /\ held'[o][Output] = Nil
        /\ \A h \in Objects \X Slots :
             held'[h[1]][h[2]] = held[h[1]][h[2]] \/ held'[h[1]][h[2]] = Nil
    BY <1>t, <2>1, ZenonT(40)
  <2> QED
    BY <1>t, <2>1, <2>2, <2>3, ReleaseStep, ZenonT(40)
<1>6. ASSUME NEW o \in Objects, NEW new \in [Slots -> Objects \cup {Nil}], PortUpdate(o, new)
      PROVE  RefInv'
  <2>1. Short(stack)
    BY <1>6, ZenonT(40) DEF PortUpdate, Idle, Short
  <2> QED
    BY <1>t, <1>6, <2>1, UpdateStep, ZenonT(40)
<1>7. ASSUME NEW o \in Objects, NEW y \in Objects \cup {Nil}, Idle, CleanupAfterError(o, y),
             y = held[o][Output] \/ y = Nil
      PROVE  RefInv'
  <2>1. /\ held' = [held EXCEPT ![o] = NoRefs] /\ stack = <<>> /\ UNCHANGED <<ids, nid>>
    BY <1>7, ZenonT(40) DEF CleanupAfterError, Idle
  <2>2. \A h \in Objects \X Slots :
          held'[h[1]][h[2]] = held[h[1]][h[2]] \/ held'[h[1]][h[2]] = Nil
    BY <1>t, <2>1, ZenonT(40) DEF NoRefs
  <2>3. CASE y = Nil
    <3>1. refCount' = refCount /\ stack' = stack
      BY <1>7, <2>3, ZenonT(40) DEF CleanupAfterError
    <3>2. Short(stack') /\ Short(stack)
      BY <2>1, <3>1, ZenonT(40) DEF Short
    <3>3. \A z \in Objects : Holders(z)' \subseteq Holders(z) /\ (Indexed(z)' => Indexed(z))
      BY <1>t, <2>1, <2>2, <3>1, ZenonT(40) DEF Holders, InFlight, Indexed
    <3>4. \A z \in Objects : Owed(z)' <= Owed(z) /\ Owed(z) \in Nat /\ Owed(z)' \in Nat
      BY <3>3, Stays, ZenonT(40)
    <3>5. \A z \in Objects : refCount'[z] >= Owed(z)'
      BY <1>t, <3>1, <3>4 DEF RefInv, RefsCounted
    <3> QED
      BY <1>t, <2>1, <3>1, <3>2, <3>5, LinkStep, ZenonT(40)
  <2>4. CASE y # Nil
    <3>1. y \in Objects /\ refCount' = [refCount EXCEPT ![y] = Dec(@)] /\ stack' = StartedBy(y)
      BY <1>7, <2>4, ZenonT(40) DEF CleanupAfterError
    <3>2. held[o][Output] = y /\ held'[o][Output] # y
      BY <1>t, <1>7, <2>1, <2>4, ZenonT(40) DEF NoRefs
    <3> QED
      BY <1>t, <2>1, <2>2, <3>1, <3>2, ReleaseStep, ZenonT(40)
  <2> QED
    BY <2>3, <2>4, ZenonT(40)
<1>8. ASSUME NEW o \in Objects, PortUpdateFailsInput(o) \/ PortUpdateFailsOutput(o)
      PROVE  RefInv'
  <2>1. held[o][Output] \in Objects \cup {Nil}
    BY <1>t, ZenonT(40)
  <2> QED
    BY <1>7, <1>8, <2>1, ZenonT(40) DEF PortUpdateFailsInput, PortUpdateFailsOutput
<1>9. ASSUME NEW x \in Objects, SwapOutput(x) PROVE RefInv'
  <2>1. /\ UNCHANGED <<stack, ids, nid, held>> /\ refCount[x] > 0
        /\ refCount' = [refCount EXCEPT ![x] = @ + 1]
    BY <1>9, ZenonT(40) DEF SwapOutput, CanAcquire
  <2> QED
    BY <1>t, <2>1, SwapStep, ZenonT(40)
<1>10. ASSUME NEW i \in Ids, ObjectDelete(i) \/ ForceRemove(i) PROVE RefInv'
  <2>1. /\ ids[i] # Nil /\ stack = <<>>
        /\ ids' = [ids EXCEPT ![i] = Nil]
        /\ refCount' = [refCount EXCEPT ![ids[i]] = Dec(@)]
        /\ UNCHANGED <<nid, held>>
    BY <1>10, ZenonT(40) DEF ObjectDelete, ForceRemove, Idle
  <2>2. ids[i] \in Objects
    BY <2>1, ZenonT(40) DEF RefInv, TypeInv, TypeOK
  <2>3. Short(stack')
    BY <1>10, <2>2, ZenonT(40) DEF ObjectDelete, ForceRemove, StartedBy, Short
  <2> QED
    BY <1>t, <2>1, <2>3, RemoveStep, ZenonT(40)
<1>11. ASSUME UNCHANGED <<ids, nid, refCount, held, stack>> PROVE RefInv'
  <2>1. Nested' /\ Spent' /\ Unborn' /\ OneId'
    BY <1>11, ZenonT(40) DEF RefInv, Nested, Spent, Unborn, OneId
  <2>2. RefsCounted'
    BY <1>11, ZenonT(40) DEF RefInv, RefsCounted, Owed, Holders, InFlight, Indexed
  <2> QED
    BY <1>t, <2>1, <2>2, ZenonT(40) DEF RefInv
<1>12. ASSUME ContextDelete \/ ContextDeleted \/ CleanupPanics \/ UNCHANGED vars PROVE RefInv'
  BY <1>11, <1>12, ZenonT(40) DEF ContextDelete, ContextDeleted, CleanupPanics, objectVars, vars
<1> QED
  BY <1>1, <1>2, <1>3, <1>4, <1>5, <1>6, <1>8, <1>9, <1>10, <1>12, <1>t,
     SlotStep, EndStep, ZenonT(40) DEF Next, Cleanup

LEMMA RefInit == Init => RefInv
<1> SUFFICES ASSUME Init PROVE RefInv
  BY ZenonT(40)
<1>1. TypeInv
  BY TypeInit, ZenonT(40)
<1>2. Nested /\ Spent
  <2>1. stack = <<>> /\ 1..(Len(stack) - 1) = {}
    BY DEF Init
  <2> QED
    BY <2>1, ZenonT(40) DEF Nested, Spent
<1>3. Unborn /\ OneId
  BY ZenonT(40) DEF Init, Unborn, OneId
<1>4. ASSUME NEW x \in Objects PROVE refCount[x] >= Owed(x)
  <2>1. Holders(x) = {} /\ ~Indexed(x)
    BY ObjectsAssumption, ZenonT(40) DEF Init, Holders, Indexed, NoRefs
  <2>2. Owed(x) = 0
    BY <2>1, FS_EmptySet, OwedCases, ZenonT(40)
  <2> QED
    BY <2>2 DEF Init
<1> QED
  BY <1>1, <1>2, <1>3, <1>4, ZenonT(40) DEF RefInv, RefsCounted

\* The inductive invariant behind RefsCounted.
THEOREM RefInvariant == Spec => []RefInv
<1>1. RefInv /\ [Next]_vars => RefInv'
  BY RefStep, ZenonT(40)
<1> QED
  BY <1>1, RefInit, PTL DEF Spec

\* No reference goes uncounted, for any objects and links: refCount of Base
\* covers the ID and every action that references the object, also while
\* cleanups are in progress and while the context is deleted by force.
THEOREM ReferencesAreCounted == Spec => []RefsCounted
<1>1. RefInv => RefsCounted
  BY ZenonT(40) DEF RefInv
<1> QED
  BY <1>1, RefInvariant, PTL

-----------------------------------------------------------------------------
(* NIDs *)

\* The objects being cleaned up are distinct and have no reference left.
Unwinding ==
  /\ \A k \in DOMAIN stack : refCount[stack[k][1]] = 0 /\ armed[stack[k][1]]
  /\ \A j, k \in DOMAIN stack : stack[j][1] = stack[k][1] => j = k

\* An object with references has its cleanup still ahead of it.
Counted == \A x \in Objects : refCount[x] > 0 => armed[x]

\* An object has its NID until its cleanup ends.
ArmedLive == \A x \in Objects : armed[x] => Live(x)

\* The NIDs of the pool and the NIDs in use.
Pool ==
  /\ \A j, k \in DOMAIN free : free[j] = free[k] => j = k
  /\ \A k \in DOMAIN free : nids[free[k]] = Nil /\ free[k] <= last
  /\ \A n \in 1..MaxNid : nids[n] # Nil => n <= last

NidInv == phase = "running" => Unwinding /\ Counted /\ ArmedLive /\ Pool

-----------------------------------------------------------------------------
LEMMA FreeType ==
  ASSUME TypeInv, NEW k \in DOMAIN free
  PROVE  free[k] \in 1..MaxNid
<1> DEFINE S == 1..MaxNid
<1>1. free \in Seq(S)
  BY ZenonT(40) DEF TypeInv, TypeOK
<1> HIDE DEF S
<1>2. free[k] \in S
  BY <1>1
<1> QED
  BY <1>2, ZenonT(40) DEF S

\* A short stack unwinds if its object was released for the last time.
LEMMA ShortUnwinding ==
  ASSUME \/ stack' = <<>>
         \/ \E y \in Objects : stack' = <<Frame(y)>> /\ refCount'[y] = 0 /\ armed'[y]
  PROVE  Unwinding'
<1>1. CASE stack' = <<>>
  BY <1>1 DEF Unwinding
<1>2. CASE \E y \in Objects : stack' = <<Frame(y)>> /\ refCount'[y] = 0 /\ armed'[y]
  <2>1. PICK y \in Objects : stack' = <<Frame(y)>> /\ refCount'[y] = 0 /\ armed'[y]
    BY <1>2, ZenonT(40)
  <2>2. DOMAIN stack' = {1} /\ stack'[1][1] = y
    BY <2>1 DEF Frame
  <2> QED
    BY <2>1, <2>2, ZenonT(40) DEF Unwinding
<1> QED
  BY <1>1, <1>2, ZenonT(40)

\* What a release without force starts.
LEMMA StartedUnwinding ==
  ASSUME NEW y \in Objects, stack' = StartedBy(y), armed' = armed,
         refCount'[y] = Dec(refCount[y])
  PROVE  Unwinding'
<1>1. CASE refCount[y] = 1 /\ armed[y]
  <2>1. stack' = <<Frame(y)>>
    BY <1>1, ZenonT(40) DEF StartedBy
  <2>2. refCount'[y] = 0
    BY <1>1 DEF Dec
  <2> QED
    BY <1>1, <2>1, <2>2, ShortUnwinding, ZenonT(40)
<1>2. CASE ~(refCount[y] = 1 /\ armed[y])
  <2>1. stack' = <<>>
    BY <1>2, ZenonT(40) DEF StartedBy
  <2> QED
    BY <2>1, ShortUnwinding, ZenonT(40)
<1> QED
  BY <1>1, <1>2, ZenonT(40)

\* Steps that leave the pool alone and acquire only what has a reference.
LEMMA LinkNids ==
  ASSUME TypeInv, TypeInv', Counted, ArmedLive, Pool, Unwinding',
         UNCHANGED <<nids, free, last, nid, armed>>,
         \A x \in Objects : refCount[x] = 0 => refCount'[x] = 0
  PROVE  NidInv'
<1>1. Counted'
  <2> SUFFICES ASSUME NEW x \in Objects, refCount'[x] > 0 PROVE armed[x]
    BY ZenonT(40) DEF Counted
  <2>1. refCount[x] \in Nat /\ refCount[x] # 0
    BY DEF TypeInv, TypeOK
  <2>2. refCount[x] > 0
    BY <2>1
  <2> QED
    BY <2>2, ZenonT(40) DEF Counted
<1>2. ArmedLive' /\ Pool'
  BY ZenonT(40) DEF ArmedLive, Live, Pool
<1> QED
  BY <1>1, <1>2, ZenonT(40) DEF NidInv

\* The NID that Insert takes is not in use, and is taken from the pool.
LEMMA NextFree ==
  ASSUME TypeInv, Pool, NEW o \in Objects, NEW i \in Ids, Insert(o, i)
  PROVE  NextNid \in 1..MaxNid /\ nids[NextNid] = Nil
<1>1. NextNid \in 1..MaxNid
  BY InsertType, ZenonT(40)
<1>2. CASE free # <<>>
  <2>1. free \in Seq(1..MaxNid)
    BY ZenonT(40) DEF TypeInv, TypeOK
  <2>2. Len(free) \in DOMAIN free
    BY <1>2, <2>1
  <2> QED
    BY <1>1, <1>2, <2>2, ZenonT(40) DEF NextNid, Pool
<1>3. CASE free = <<>>
  <2>1. NextNid = last + 1 /\ last \in Nat
    BY <1>3, ObjectsAssumption DEF NextNid, TypeInv, TypeOK
  <2>2. ~(NextNid <= last)
    BY <2>1
  <2> QED
    BY <1>1, <2>2, ZenonT(40) DEF Pool
<1> QED
  BY <1>2, <1>3, ZenonT(40)

LEMMA InsertNids ==
  ASSUME TypeInv, TypeInv', Counted, ArmedLive, Pool, stack' = <<>>,
         NEW o \in Objects, NEW i \in Ids, Insert(o, i),
         \A x \in Objects : x # o /\ refCount[x] = 0 => refCount'[x] = 0
  PROVE  NidInv'
<1> DEFINE m == NextNid
<1>1. m \in 1..MaxNid /\ nids[m] = Nil
  BY NextFree, ZenonT(40)
<1>2. /\ nids' = [nids EXCEPT ![m] = o] /\ nid' = [nid EXCEPT ![o] = m]
      /\ armed' = [armed EXCEPT ![o] = TRUE]
  BY ZenonT(40) DEF Insert
<1>t. /\ nids \in [1..MaxNid -> Objects \cup {Nil}] /\ free \in Seq(1..MaxNid)
      /\ last \in Nat /\ nid \in [Objects -> 0..MaxNid] /\ armed \in [Objects -> BOOLEAN]
      /\ refCount \in [Objects -> Nat] /\ Nil \notin Objects
  <2>1. /\ nids \in [1..MaxNid -> Objects \cup {Nil}] /\ free \in Seq(1..MaxNid)
        /\ last \in 0..MaxNid /\ nid \in [Objects -> 0..MaxNid] /\ armed \in [Objects -> BOOLEAN]
        /\ refCount \in [Objects -> Nat] /\ Nil \notin Objects
    BY ObjectsAssumption, ZenonT(40) DEF TypeInv, TypeOK
  <2>2. last \in Nat
    BY <2>1
  <2> QED BY <2>1, <2>2, ZenonT(40)
<1>3. Unwinding'
  BY ShortUnwinding, ZenonT(40)
<1>4. Counted'
  <2> SUFFICES ASSUME NEW x \in Objects, refCount'[x] > 0, x # o PROVE armed'[x]
    BY <1>t, <1>2, ZenonT(40) DEF Counted
  <2>1. refCount[x] \in Nat /\ refCount[x] # 0
    BY <1>t
  <2>2. armed[x]
    BY <2>1 DEF Counted
  <2> QED
    BY <1>t, <1>2, <2>2, ZenonT(40)
<1>m. m = IF free # <<>> THEN free[Len(free)] ELSE last + 1
  BY ZenonT(40) DEF NextNid
<1> HIDE DEF m
<1>5. ArmedLive'
  <2> SUFFICES ASSUME NEW x \in Objects, armed'[x]
               PROVE  nid'[x] # InvalidNID /\ nids'[nid'[x]] = x
    BY ZenonT(40) DEF ArmedLive, Live
  <2>1. CASE x = o
    BY <1>t, <1>1, <1>2, <2>1 DEF InvalidNID
  <2>2. CASE x # o
    <3>1. armed[x] /\ nid'[x] = nid[x]
      BY <1>t, <1>2, <2>2, ZenonT(40)
    <3>2. nid[x] # InvalidNID /\ nids[nid[x]] = x
      BY <3>1, ZenonT(40) DEF ArmedLive, Live
    <3>3. nid[x] \in 1..MaxNid /\ nid[x] # m
      BY <1>t, <1>1, <3>2 DEF InvalidNID
    <3> QED
      BY <1>t, <1>2, <3>1, <3>2, <3>3, ZenonT(40)
  <2> QED
    BY <2>1, <2>2, ZenonT(40)
<1>6. Pool'
  <2>1. CASE free # <<>>
    <3> DEFINE l == Len(free)
    <3>1. l \in Nat \ {0} /\ DOMAIN free = 1..l /\ m = free[l] /\ l \in DOMAIN free
      BY <1>t, <1>m, <2>1
    <3>2. free' = SubSeq(free, 1, l - 1) /\ last' = last
      BY <2>1, ZenonT(40) DEF Insert, AcquireNid
    <3> HIDE DEF l
    <3>3. l - 1 \in 0..l /\ 1..(l - 1) \subseteq 1..l
      BY <3>1
    <3>4. DOMAIN free' = 1..(l - 1) /\ \A k \in 1..(l - 1) : free'[k] = free[k]
      BY <1>t, <3>1, <3>2, <3>3
    <3>5. \A k \in 1..(l - 1) : free[k] # m /\ free[k] \in 1..MaxNid
      <4> SUFFICES ASSUME NEW k \in 1..(l - 1) PROVE free[k] # m /\ free[k] \in 1..MaxNid
        BY ZenonT(40)
      <4>1. k # l /\ k \in DOMAIN free
        BY <3>1, <3>3
      <4>2. free[k] # free[l]
        BY <3>1, <4>1, ZenonT(40) DEF Pool
      <4>3. free[k] \in 1..MaxNid
        BY <4>1, FreeType, ZenonT(40)
      <4> QED
        BY <3>1, <4>2, <4>3, ZenonT(40)
    <3>6. \A k \in DOMAIN free' : nids'[free'[k]] = Nil /\ free'[k] <= last'
      BY <1>t, <1>2, <3>1, <3>2, <3>3, <3>4, <3>5, SMTT(30) DEF Pool
    <3>7. \A j, k \in DOMAIN free' : free'[j] = free'[k] => j = k
      BY <3>1, <3>3, <3>4, ZenonT(40) DEF Pool
    <3>8. \A n \in 1..MaxNid : nids'[n] # Nil => n <= last'
      BY <1>t, <1>2, <3>1, <3>2, ZenonT(40) DEF Pool
    <3> QED
      BY <3>6, <3>7, <3>8, ZenonT(40) DEF Pool
  <2>2. CASE free = <<>>
    <3>1. free' = <<>> /\ last' = last + 1 /\ m = last + 1
      BY <1>m, <2>2, ZenonT(40) DEF Insert, AcquireNid
    <3>2. \A n \in 1..MaxNid : nids'[n] # Nil => n <= last'
      <4> SUFFICES ASSUME NEW n \in 1..MaxNid, nids'[n] # Nil PROVE n <= last'
        BY ZenonT(40)
      <4>1. CASE n = m
        BY <1>t, <3>1, <4>1
      <4>2. CASE n # m
        <5>1. nids[n] # Nil
          BY <1>t, <1>2, <4>2, ZenonT(40)
        <5>2. n <= last
          BY <5>1, ZenonT(40) DEF Pool
        <5> QED
          BY <1>t, <3>1, <5>2
      <4> QED
        BY <4>1, <4>2, ZenonT(40)
    <3> QED
      BY <3>1, <3>2, SMTT(30) DEF Pool
  <2> QED
    BY <2>1, <2>2, ZenonT(40)
<1> QED
  BY <1>3, <1>4, <1>5, <1>6, ZenonT(40) DEF NidInv

-----------------------------------------------------------------------------
(* Cleanups *)

LEMMA SlotNids ==
  ASSUME RefInv, TypeInv', Unwinding, Counted, ArmedLive, Pool,
         NEW s \in Slots, CleanupSlot(s)
  PROVE  NidInv'
<1> DEFINE o == Top[1]
           x == held[o][s]
           n == Len(stack)
<1>1. stack # <<>> /\ Top[2] = Nil /\ UNCHANGED <<nids, free, last, nid, armed>>
  BY ZenonT(40) DEF CleanupSlot
<1>2. n \in Nat \ {0} /\ DOMAIN stack = 1..n /\ o \in Objects /\ stack[n] = <<o, Nil>>
  BY <1>1, TopFacts, ZenonT(40) DEF RefInv
<1>3. x \in Objects /\ refCount' = [refCount EXCEPT ![x] = Dec(@)]
  BY SlotFacts, ZenonT(40) DEF RefInv
<1>4. \/ stack' = stack
      \/ /\ refCount[x] = 1 /\ armed[x]
         /\ stack' = Append([stack EXCEPT ![n] = <<o, s>>], Frame(x))
  BY SlotFacts, ZenonT(40) DEF RefInv
<1>t. refCount \in [Objects -> Nat] /\ stack \in Seq(Objects \X (Slots \cup {Nil}))
  BY ZenonT(40) DEF RefInv, TypeInv, TypeOK
<1> HIDE DEF o, x, n
<1>5. \A y \in Objects : refCount[y] = 0 => refCount'[y] = 0
  BY <1>t, <1>3, ZenonT(40) DEF Dec
<1>6. \A k \in 1..n : stack[k][1] \in Objects
  BY <1>t, <1>2
<1>7. CASE stack' = stack
  <2>1. Unwinding'
    BY <1>1, <1>2, <1>5, <1>6, <1>7, ZenonT(40) DEF Unwinding
  <2> QED
    BY <1>1, <1>5, <2>1, LinkNids, ZenonT(40) DEF RefInv
<1>8. CASE /\ refCount[x] = 1 /\ armed[x]
           /\ stack' = Append([stack EXCEPT ![n] = <<o, s>>], Frame(x))
  <2> DEFINE t == [stack EXCEPT ![n] = <<o, s>>]
  <2>0. <<o, s>> \in Objects \X (Slots \cup {Nil}) /\ Frame(x) \in Objects \X (Slots \cup {Nil})
    BY <1>2, <1>3, ZenonT(40) DEF Frame
  <2>n. n = Len(stack)
    BY ZenonT(40) DEF n
  <2>1. t \in Seq(Objects \X (Slots \cup {Nil})) /\ Len(t) = n
    BY <1>t, <1>2, <2>0, <2>n
  <2>2. \A k \in 1..n : t[k][1] = stack[k][1]
    BY <1>2
  <2>3. stack' = Append(t, Frame(x))
    BY <1>8, ZenonT(40)
  <2> HIDE DEF t
  <2>4. /\ DOMAIN stack' = 1..(n + 1) /\ stack'[n + 1] = Frame(x)
        /\ \A k \in 1..n : stack'[k] = t[k]
    BY <2>0, <2>1, <2>3, AppendFacts
  <2>5. stack'[n + 1][1] = x /\ \A k \in 1..n : stack'[k][1] = stack[k][1]
    BY <2>2, <2>4 DEF Frame
  <2>6. \A k \in 1..n : refCount[stack[k][1]] = 0 /\ armed[stack[k][1]] /\ stack[k][1] # x
    BY <1>2, <1>8, SMTT(30) DEF Unwinding
  <2>7. refCount'[x] = 0
    BY <1>t, <1>3, <1>8 DEF Dec
  <2>8. \A k \in 1..(n + 1) : k = n + 1 \/ k \in 1..n
    BY <1>2
  <2>9. \A k \in DOMAIN stack' : refCount'[stack'[k][1]] = 0 /\ armed'[stack'[k][1]]
    <3> SUFFICES ASSUME NEW k \in 1..(n + 1)
                 PROVE  refCount'[stack'[k][1]] = 0 /\ armed[stack'[k][1]]
      BY <1>1, <2>4, ZenonT(40)
    <3>1. CASE k = n + 1
      BY <1>8, <2>5, <2>7, <3>1, ZenonT(40)
    <3>2. CASE k \in 1..n
      BY <1>5, <1>6, <2>5, <2>6, <3>2, ZenonT(40)
    <3> QED
      BY <2>8, <3>1, <3>2, ZenonT(40)
  <2>10. \A j, k \in DOMAIN stack' : stack'[j][1] = stack'[k][1] => j = k
    BY <1>2, <2>4, <2>5, <2>6, <2>8, SMTT(30) DEF Unwinding
  <2>11. Unwinding'
    BY <2>9, <2>10, ZenonT(40) DEF Unwinding
  <2> QED
    BY <1>1, <1>5, <2>11, LinkNids DEF RefInv
<1> QED
  BY <1>4, <1>7, <1>8, ZenonT(40)

\* What a cleanup gives back is the NID of its object, which has no reference.
LEMMA EndGives ==
  ASSUME RefInv, Unwinding, ArmedLive, CleanupEnd
  PROVE  /\ Top[1] \in Objects /\ nid[Top[1]] \in 1..MaxNid
         /\ nids[nid[Top[1]]] = Top[1]
         /\ refCount[Top[1]] = 0
         /\ nids' = [nids EXCEPT ![nid[Top[1]]] = Nil]
<1>1. stack # <<>> /\ Top[2] = Nil /\ nids' = [nids EXCEPT ![nid[Top[1]]] = Nil]
  BY ZenonT(40) DEF CleanupEnd
<1>2. /\ Len(stack) \in Nat \ {0} /\ DOMAIN stack = 1..Len(stack)
      /\ Top[1] \in Objects /\ nid[Top[1]] \in 1..MaxNid
  BY <1>1, TopFacts, ZenonT(40) DEF RefInv
<1>3. refCount[Top[1]] = 0 /\ armed[Top[1]]
  BY <1>2 DEF Unwinding, Top
<1>4. nids[nid[Top[1]]] = Top[1]
  BY <1>2, <1>3, ZenonT(40) DEF ArmedLive, Live
<1> QED
  BY <1>1, <1>2, <1>3, <1>4, ZenonT(40)

LEMMA EndNids ==
  ASSUME RefInv, TypeInv', Unwinding, Counted, ArmedLive, Pool, CleanupEnd
  PROVE  NidInv'
<1> DEFINE o == Top[1]
           n == Len(stack)
           m == nid[o]
<1>1. /\ stack # <<>> /\ Top[2] = Nil
      /\ free' = Append(free, m) /\ armed' = [armed EXCEPT ![o] = FALSE]
      /\ UNCHANGED <<last, nid, refCount>>
  BY ZenonT(40) DEF CleanupEnd
<1>2. n \in Nat \ {0} /\ DOMAIN stack = 1..n /\ stack[n] = <<o, Nil>>
  BY <1>1, TopFacts, ZenonT(40) DEF RefInv
<1>3. /\ o \in Objects /\ m \in 1..MaxNid /\ nids[m] = o /\ refCount[o] = 0
      /\ nids' = [nids EXCEPT ![m] = Nil]
  BY EndGives, ZenonT(40)
<1>t. /\ nids \in [1..MaxNid -> Objects \cup {Nil}] /\ free \in Seq(1..MaxNid)
      /\ last \in Nat /\ nid \in [Objects -> 0..MaxNid] /\ armed \in [Objects -> BOOLEAN]
      /\ refCount \in [Objects -> Nat] /\ Nil \notin Objects
  <2>1. /\ nids \in [1..MaxNid -> Objects \cup {Nil}] /\ free \in Seq(1..MaxNid)
        /\ last \in 0..MaxNid /\ nid \in [Objects -> 0..MaxNid] /\ armed \in [Objects -> BOOLEAN]
        /\ refCount \in [Objects -> Nat] /\ Nil \notin Objects
    BY ObjectsAssumption, ZenonT(40) DEF RefInv, TypeInv, TypeOK
  <2>2. last \in Nat
    BY <2>1
  <2> QED BY <2>1, <2>2, ZenonT(40)
<1>m. m = nid[o]
  BY ZenonT(40)
<1>n. n = Len(stack)
  BY ZenonT(40)
<1> HIDE DEF o, n, m
<1>4. Counted'
  BY <1>t, <1>1, <1>3, SMTT(30) DEF Counted
<1>5. ArmedLive'
  <2> SUFFICES ASSUME NEW y \in Objects, armed'[y]
               PROVE  nid[y] # InvalidNID /\ nids'[nid[y]] = y
    BY <1>1, ZenonT(40) DEF ArmedLive, Live
  <2>1. y # o /\ armed[y]
    BY <1>t, <1>1, ZenonT(40)
  <2>2. nid[y] # InvalidNID /\ nids[nid[y]] = y
    BY <2>1, ZenonT(40) DEF ArmedLive, Live
  <2>3. nid[y] \in 1..MaxNid /\ nid[y] # m
    BY <1>t, <1>3, <2>1, <2>2, SMTT(30) DEF InvalidNID
  <2> QED
    BY <1>t, <1>3, <2>2, <2>3, ZenonT(40)
<1>6. Pool'
  <2> DEFINE l == Len(free)
  <2>1. l \in Nat /\ DOMAIN free = 1..l
    BY <1>t
  <2>2. DOMAIN free' = 1..(l + 1) /\ free'[l + 1] = m /\ \A k \in 1..l : free'[k] = free[k]
    BY <1>t, <1>1, <1>3, AppendFacts, SMTT(30)
  <2> HIDE DEF l
  <2>3. \A k \in 1..l : free[k] # m /\ free[k] \in 1..MaxNid
    <3>1. \A k \in DOMAIN free : free[k] \in 1..MaxNid
      BY FreeType, ZenonT(40) DEF RefInv
    <3>2. \A k \in DOMAIN free : free[k] # m
      BY <1>t, <1>3, ZenonT(40) DEF Pool
    <3> QED
      BY <2>1, <3>1, <3>2, ZenonT(40)
  <2>4. \A k \in 1..(l + 1) : k = l + 1 \/ k \in 1..l
    BY <2>1
  <2>5. m <= last
    BY <1>t, <1>3, ZenonT(40) DEF Pool
  <2>6. \A j, k \in DOMAIN free' : free'[j] = free'[k] => j = k
    BY <2>1, <2>2, <2>3, <2>4, ZenonT(40) DEF Pool
  <2>7. \A k \in DOMAIN free' : nids'[free'[k]] = Nil /\ free'[k] <= last'
    <3> SUFFICES ASSUME NEW k \in 1..(l + 1) PROVE nids'[free'[k]] = Nil /\ free'[k] <= last
      BY <1>1, <2>2, ZenonT(40)
    <3>1. CASE k = l + 1
      BY <1>t, <1>3, <2>2, <2>5, <3>1, ZenonT(40)
    <3>2. CASE k \in 1..l
      BY <1>t, <1>3, <2>1, <2>2, <2>3, <3>2, ZenonT(40) DEF Pool
    <3> QED
      BY <2>4, <3>1, <3>2, ZenonT(40)
  <2>8. \A j \in 1..MaxNid : nids'[j] # Nil => j <= last'
    BY <1>t, <1>1, <1>3, ZenonT(40) DEF Pool
  <2> QED
    BY <2>6, <2>7, <2>8, ZenonT(40) DEF Pool
<1>7. Unwinding'
  <2>1. CASE stack' = <<>>
    BY <2>1, ShortUnwinding, ZenonT(40)
  <2>2. CASE /\ n > 1 /\ DOMAIN stack' = 1..(n - 1)
             /\ stack'[n - 1] = Frame(stack[n - 1][1])
             /\ \A k \in 1..(n - 2) : stack'[k] = stack[k]
    <3>1. /\ 1..(n - 1) \subseteq 1..n /\ n \notin 1..(n - 1) /\ n \in 1..n
          /\ \A k \in 1..(n - 1) : k = n - 1 \/ k \in 1..(n - 2)
      BY <1>2
    <3>2. \A k \in 1..(n - 1) : stack'[k][1] = stack[k][1]
      BY <2>2, <3>1, SMTT(30) DEF Frame
    <3>3. stack[n][1] = o
      BY <1>2
    <3>4. \A k \in 1..(n - 1) : stack[k][1] # o /\ stack[k][1] \in Objects
      <4> SUFFICES ASSUME NEW k \in 1..(n - 1) PROVE stack[k][1] # o /\ stack[k][1] \in Objects
        BY ZenonT(40)
      <4>1. k \in DOMAIN stack /\ n \in DOMAIN stack /\ k # n
        BY <1>2, <3>1, ZenonT(40)
      <4>2. stack \in Seq(Objects \X (Slots \cup {Nil}))
        BY ZenonT(40) DEF RefInv, TypeInv, TypeOK
      <4>3. stack[k] \in Objects \X (Slots \cup {Nil})
        BY <4>1, <4>2
      <4>4. stack[k][1] # stack[n][1]
        BY <4>1, ZenonT(40) DEF Unwinding
      <4> QED
        BY <3>3, <4>3, <4>4, ZenonT(40)
    <3>5. \A k \in DOMAIN stack' : refCount'[stack'[k][1]] = 0 /\ armed'[stack'[k][1]]
      <4> SUFFICES ASSUME NEW k \in 1..(n - 1)
                   PROVE  refCount[stack[k][1]] = 0 /\ armed'[stack[k][1]]
        BY <1>1, <2>2, <3>2, ZenonT(40)
      <4>1. refCount[stack[k][1]] = 0 /\ armed[stack[k][1]]
        BY <1>2, <3>1, ZenonT(40) DEF Unwinding
      <4> QED
        BY <1>t, <1>1, <3>4, <4>1, ZenonT(40)
    <3>6. \A j, k \in DOMAIN stack' : stack'[j][1] = stack'[k][1] => j = k
      BY <1>2, <2>2, <3>1, <3>2, SMTT(30) DEF Unwinding
    <3> QED
      BY <3>5, <3>6, ZenonT(40) DEF Unwinding
  <2> QED
    BY <1>n, <2>1, <2>2, EndFacts, ZenonT(40) DEF RefInv
<1> QED
  BY <1>4, <1>5, <1>6, <1>7, ZenonT(40) DEF NidInv

-----------------------------------------------------------------------------
LEMMA NidStep ==
  ASSUME RefInv, NidInv, [Next]_vars
  PROVE  NidInv'
<1>t. /\ TypeInv /\ TypeInv' /\ refCount \in [Objects -> Nat] /\ Nil \notin Objects
      /\ held \in [Objects -> [Slots -> Objects \cup {Nil}]] /\ Output \in Slots
      /\ ids \in [Ids -> Objects \cup {Nil}]
  BY TypeStep, ObjectsAssumption, ZenonT(40) DEF RefInv, TypeInv, TypeOK, Slots
<1>0. ASSUME NEW i \in Ids, ForceRemove(i) PROVE NidInv'
  <2>1. phase' # "running"
    BY <1>0, ZenonT(40) DEF ForceRemove
  <2> QED
    BY <2>1, ZenonT(40) DEF NidInv
<1>d. ASSUME ContextDelete \/ ContextDeleted PROVE NidInv'
  <2>1. phase' # "running"
    BY <1>d, ZenonT(40) DEF ContextDelete, ContextDeleted
  <2> QED
    BY <2>1, ZenonT(40) DEF NidInv
\* Every other step leaves the phase alone.
<1>p. ASSUME phase # "running", phase' = phase PROVE NidInv'
  BY <1>p, ZenonT(40) DEF NidInv
<1>1. ASSUME NEW o \in Objects, NEW i \in Ids, PortCreate(o, i), phase = "running" PROVE NidInv'
  <2>1. /\ stack' = <<>> /\ Insert(o, i)
        /\ refCount' = [refCount EXCEPT ![o] = 1]
    BY <1>1, ZenonT(40) DEF PortCreate, Idle
  <2>2. \A x \in Objects : x # o /\ refCount[x] = 0 => refCount'[x] = 0
    BY <1>t, <2>1, ZenonT(40)
  <2> QED
    BY <1>t, <1>1, <2>1, <2>2, InsertNids, ZenonT(40) DEF NidInv
<1>2. ASSUME NEW o \in Objects, NEW i \in Ids, NEW x \in Objects \cup {Nil},
             TableCreate(o, i, x), phase = "running"
      PROVE  NidInv'
  <2>1. /\ stack' = <<>> /\ Insert(o, i) /\ (x # Nil => refCount[x] > 0)
        /\ refCount' = [y \in Objects |->
             CASE y = o -> 1 [] y = x -> refCount[y] + 1 [] OTHER -> refCount[y]]
    BY <1>2, ZenonT(40) DEF TableCreate, Idle, CanAcquire
  <2>2. \A y \in Objects : y # o /\ refCount[y] = 0 => refCount'[y] = 0
    BY <1>t, <2>1
  <2> QED
    BY <1>t, <1>2, <2>1, <2>2, InsertNids, ZenonT(40) DEF NidInv
<1>3. ASSUME NEW x \in Objects, refCount[x] > 0, refCount' = [refCount EXCEPT ![x] = @ + 1],
             stack' = <<>> \/ UNCHANGED stack,
             UNCHANGED <<nids, free, last, nid, armed>>, phase = "running"
      PROVE  NidInv'
  <2>1. \A y \in Objects : refCount[y] = 0 => refCount'[y] = 0
    BY <1>t, <1>3
  <2>2. Unwinding'
    <3>1. CASE stack' = <<>>
      BY <3>1, ShortUnwinding, ZenonT(40)
    <3>2. CASE UNCHANGED stack
      <4> DEFINE S == Objects \X (Slots \cup {Nil})
      <4>1. stack \in Seq(S)
        BY <1>t, ZenonT(40) DEF TypeInv, TypeOK
      <4> HIDE DEF S
      <4>2. \A k \in DOMAIN stack : stack[k] \in S
        BY <4>1
      <4>3. \A k \in DOMAIN stack : stack[k][1] \in Objects
        BY <4>2 DEF S
      <4> QED
        BY <1>3, <2>1, <3>2, <4>3, ZenonT(40) DEF NidInv, Unwinding
    <3> QED
      BY <1>3, <3>1, <3>2, ZenonT(40)
  <2> QED
    BY <1>t, <1>3, <2>1, <2>2, LinkNids, ZenonT(40) DEF NidInv
<1>4. ASSUME NEW o \in Objects, NEW i \in Ids, NEW x \in Objects,
             TableCreateTaken(o, i, x), phase = "running"
      PROVE  NidInv'
  <2>1. /\ refCount[x] > 0 /\ refCount' = [refCount EXCEPT ![x] = @ + 1]
        /\ stack' = <<>> /\ UNCHANGED <<nids, free, last, nid, armed>>
    BY <1>4, ZenonT(40) DEF TableCreateTaken, Idle, CanAcquire
  <2> QED
    BY <1>3, <1>4, <2>1, ZenonT(40)
<1>s. ASSUME NEW x \in Objects, SwapOutput(x), phase = "running" PROVE NidInv'
  <2>1. /\ refCount[x] > 0 /\ refCount' = [refCount EXCEPT ![x] = @ + 1]
        /\ UNCHANGED <<stack, nids, free, last, nid, armed>>
    BY <1>s, ZenonT(40) DEF SwapOutput, CanAcquire
  <2> QED
    BY <1>3, <1>s, <2>1, ZenonT(40)
<1>5. ASSUME NEW y \in Objects, refCount' = [refCount EXCEPT ![y] = Dec(@)],
             stack' = StartedBy(y), UNCHANGED <<nids, free, last, nid, armed>>, phase = "running"
      PROVE  NidInv'
  <2>1. \A x \in Objects : refCount[x] = 0 => refCount'[x] = 0
    BY <1>t, <1>5, ZenonT(40) DEF Dec
  <2>2. refCount'[y] = Dec(refCount[y])
    BY <1>t, <1>5, ZenonT(40)
  <2>3. Unwinding'
    BY <1>5, <2>2, StartedUnwinding, ZenonT(40)
  <2> QED
    BY <1>t, <1>5, <2>1, <2>3, LinkNids, ZenonT(40) DEF NidInv
<1>6. ASSUME refCount' = refCount, stack' = stack, UNCHANGED <<nids, free, last, nid, armed>>,
             phase = "running"
      PROVE  NidInv'
  <2>1. Unwinding'
    BY <1>6, ZenonT(40) DEF NidInv, Unwinding
  <2> QED
    BY <1>t, <1>6, <2>1, LinkNids, ZenonT(40) DEF NidInv
<1>7. ASSUME NEW o \in Objects, NEW x \in Objects, EntryAdd(o, x), phase = "running" PROVE NidInv'
  <2> DEFINE y == held[o][Output]
  <2>1. /\ stack = <<>> /\ refCount[x] > 0 /\ UNCHANGED <<nids, free, last, nid, armed>>
        /\ IF y = Nil \/ y = x
           THEN /\ refCount' = [refCount EXCEPT ![x] = IF y = x THEN @ ELSE @ + 1]
                /\ stack' = stack
           ELSE /\ refCount' = [refCount EXCEPT ![x] = @ + 1, ![y] = Dec(@)]
                /\ stack' = StartedBy(y)
    BY <1>7, ZenonT(40) DEF EntryAdd, Idle, CanAcquire
  <2>2. y \in Objects \cup {Nil}
    BY <1>t, ZenonT(40)
  <2> HIDE DEF y
  <2>3. CASE y = x
    <3>1. refCount' = refCount /\ stack' = stack
      BY <1>t, <2>1, <2>3, ZenonT(40)
    <3> QED
      BY <1>6, <1>7, <2>1, <3>1, ZenonT(40)
  <2>4. CASE y = Nil
    <3>1. refCount' = [refCount EXCEPT ![x] = @ + 1] /\ stack' = <<>>
      BY <1>t, <2>1, <2>4, ZenonT(40)
    <3> QED
      BY <1>3, <1>7, <2>1, <3>1, ZenonT(40)
  <2>5. CASE y # Nil /\ y # x
    <3>1. /\ y \in Objects /\ stack' = StartedBy(y)
          /\ refCount' = [refCount EXCEPT ![x] = @ + 1, ![y] = Dec(@)]
      BY <2>1, <2>2, <2>5, ZenonT(40)
    <3>2. /\ refCount'[x] = refCount[x] + 1 /\ refCount'[y] = Dec(refCount[y])
          /\ \A z \in Objects : z # x /\ z # y => refCount'[z] = refCount[z]
      BY <1>t, <2>5, <3>1, ZenonT(40)
    <3>3. \A z \in Objects : refCount[z] = 0 => refCount'[z] = 0
      BY <1>t, <2>1, <3>2, SMTT(30) DEF Dec
    <3>4. Unwinding'
      BY <2>1, <3>1, <3>2, StartedUnwinding, ZenonT(40)
    <3> QED
      BY <1>t, <1>7, <2>1, <3>3, <3>4, LinkNids, ZenonT(40) DEF NidInv
  <2> QED
    BY <2>3, <2>4, <2>5, ZenonT(40)
<1>8. ASSUME NEW o \in Objects, EntryRemove(o), phase = "running" PROVE NidInv'
  <2>1. /\ held[o][Output] \in Objects /\ refCount' = [refCount EXCEPT ![held[o][Output]] = Dec(@)]
        /\ stack' = StartedBy(held[o][Output]) /\ UNCHANGED <<nids, free, last, nid, armed>>
    BY <1>t, <1>8, ZenonT(40) DEF EntryRemove
  <2> QED
    BY <1>5, <1>8, <2>1, ZenonT(40)
<1>9. ASSUME NEW o \in Objects, NEW y \in Objects \cup {Nil}, CleanupAfterError(o, y),
             phase = "running"
      PROVE  NidInv'
  <2>1. CASE y = Nil
    <3>1. refCount' = refCount /\ stack' = stack /\ UNCHANGED <<nids, free, last, nid, armed>>
      BY <1>9, <2>1, ZenonT(40) DEF CleanupAfterError
    <3> QED
      BY <1>6, <1>9, <3>1, ZenonT(40)
  <2>2. CASE y # Nil
    <3>1. /\ y \in Objects /\ refCount' = [refCount EXCEPT ![y] = Dec(@)]
          /\ stack' = StartedBy(y) /\ UNCHANGED <<nids, free, last, nid, armed>>
      BY <1>9, <2>2, ZenonT(40) DEF CleanupAfterError
    <3> QED
      BY <1>5, <1>9, <3>1, ZenonT(40)
  <2> QED
    BY <2>1, <2>2, ZenonT(40)
<1>10. ASSUME NEW o \in Objects, PortUpdateFailsInput(o) \/ PortUpdateFailsOutput(o),
              phase = "running"
       PROVE  NidInv'
  <2>1. held[o][Output] \in Objects \cup {Nil}
    BY <1>t, ZenonT(40)
  <2> QED
    BY <1>9, <1>10, <2>1, ZenonT(40) DEF PortUpdateFailsInput, PortUpdateFailsOutput
<1>11. ASSUME NEW o \in Objects, NEW new \in [Slots -> Objects \cup {Nil}], PortUpdate(o, new),
              phase = "running"
       PROVE  NidInv'
  <2>1. /\ \A s \in Slots : new[s] # Nil => refCount[new[s]] > 0
        /\ stack' = <<>> /\ UNCHANGED <<nids, free, last, nid, armed>>
        /\ refCount' = [y \in Objects |-> refCount[y] + Taken(new, y)]
    BY <1>11, ZenonT(40) DEF PortUpdate, CanAcquire, Idle
  <2>2. ASSUME NEW y \in Objects, refCount[y] = 0 PROVE refCount'[y] = 0
    <3>1. {s \in Slots : new[s] = y} = {}
      BY <1>t, <2>1, <2>2
    <3>2. Taken(new, y) = 0
      BY <3>1, FS_EmptySet, ZenonT(40) DEF Taken
    <3> QED
      BY <2>1, <2>2, <3>2
  <2>3. Unwinding'
    BY <2>1, ShortUnwinding, ZenonT(40)
  <2> QED
    BY <1>t, <1>11, <2>1, <2>2, <2>3, LinkNids, ZenonT(40) DEF NidInv
<1>12. ASSUME NEW i \in Ids, ObjectDelete(i), phase = "running" PROVE NidInv'
  <2>1. /\ ids[i] \in Objects /\ refCount' = [refCount EXCEPT ![ids[i]] = Dec(@)]
        /\ stack' = StartedBy(ids[i]) /\ UNCHANGED <<nids, free, last, nid, armed>>
    BY <1>t, <1>12, ZenonT(40) DEF ObjectDelete
  <2> QED
    BY <1>5, <1>12, <2>1, ZenonT(40)
<1>13. ASSUME CleanupPanics \/ UNCHANGED vars, phase = "running" PROVE NidInv'
  BY <1>6, <1>13, ZenonT(40) DEF CleanupPanics, objectVars, vars
<1>14. ASSUME NEW s \in Slots, CleanupSlot(s), phase = "running" PROVE NidInv'
  BY <1>t, <1>14, SlotNids, ZenonT(40) DEF NidInv
<1>15. ASSUME CleanupEnd, phase = "running" PROVE NidInv'
  BY <1>t, <1>15, EndNids, ZenonT(40) DEF NidInv
<1>16. \/ phase' = phase
       \/ ContextDelete \/ ContextDeleted
  BY ZenonT(40) DEF Next, Cleanup, PortCreate, TableCreate, TableCreateTaken, EntryAdd, EntryRemove,
         PortUpdate, PortUpdateFailsInput, PortUpdateFailsOutput, CleanupAfterError, SwapOutput,
         ObjectDelete, ForceRemove, CleanupSlot, CleanupEnd, CleanupPanics, vars
<1>17. CASE phase = "running"
  BY <1>0, <1>1, <1>2, <1>4, <1>7, <1>8, <1>10, <1>11, <1>12, <1>13, <1>14, <1>15, <1>17,
     <1>d, <1>s, ZenonT(40) DEF Next, Cleanup
<1> QED
  BY <1>16, <1>17, <1>d, <1>p, ZenonT(40)

LEMMA NidInit == Init => NidInv
<1> SUFFICES ASSUME Init PROVE Unwinding /\ Counted /\ ArmedLive /\ Pool
  BY ZenonT(40) DEF NidInv
<1>1. Unwinding
  BY DEF Init, Unwinding
<1>2. Counted
  BY DEF Init, Counted
<1>3. ArmedLive
  BY ZenonT(40) DEF Init, ArmedLive
<1>4. Pool
  BY DEF Init, Pool
<1> QED
  BY <1>1, <1>2, <1>3, <1>4, ZenonT(40)

LEMMA NidInvariant == Spec => [](RefInv /\ NidInv)
<1>1. RefInv /\ NidInv /\ [Next]_vars => RefInv' /\ NidInv'
  BY RefStep, NidStep, ZenonT(40)
<1> QED
  BY <1>1, RefInit, NidInit, PTL DEF Spec

\* What is owed to x is at least nothing, and at most its count.
LEMMA OwedBounded ==
  ASSUME RefInv, NEW x \in Objects
  PROVE  Owed(x) \in Nat /\ refCount[x] \in Nat /\ refCount[x] >= Owed(x)
<1>1. Cardinality(Holders(x)) \in Nat
  BY HoldersFinite, ZenonT(40)
<1>2. Owed(x) \in Nat
  BY <1>1, OwedCases
<1> QED
  BY <1>2, ZenonT(40) DEF RefInv, RefsCounted, TypeInv, TypeOK

\* What is in use is not cleaned up: an object that has an ID or that some
\* action references is found by its own NID until the context is deleted, for
\* any objects and links (Table.Remove, Base.Release).
THEOREM UsedStaysLive == Spec => []UsedIsLive
<1>1. RefInv /\ NidInv => UsedIsLive
  <2> SUFFICES ASSUME RefInv, NidInv, phase = "running", NEW x \in Objects, Owed(x) > 0
               PROVE  Live(x)
    BY ZenonT(40) DEF UsedIsLive
  <2>1. refCount[x] > 0
    BY OwedBounded
  <2> QED
    BY <2>1, ZenonT(40) DEF NidInv, Counted, ArmedLive
<1> QED
  BY <1>1, NidInvariant, PTL

\* Until the context is deleted the pool never hands out a NID that is in use
\* and holds each NID at most once (NIDPool.Acquire, NIDPool.Release).
THEOREM NidsAreDisjoint == Spec => []NidsDisjoint
<1>1. NidInv => NidsDisjoint
  BY ZenonT(40) DEF NidInv, NidsDisjoint, Pool, ArmedLive
<1> QED
  BY <1>1, NidInvariant, PTL

\* Until the context is deleted an object leaves nids only when nothing refers
\* to it any more (Base.Release and the closure of Table.Insert).
THEOREM FoundUntilTheLastRelease == Spec => FoundUntilReleased
<1> DEFINE Step == phase = "running" =>
             \A n \in 1..MaxNid : nids[n] # Nil /\ nids'[n] # nids[n] => Owed(nids[n]) = 0
<1>1. RefInv /\ NidInv /\ [Next]_vars => [Step]_vars
  <2> SUFFICES ASSUME RefInv, NidInv, Next, phase = "running", NEW n \in 1..MaxNid,
                      nids[n] # Nil, nids'[n] # nids[n]
               PROVE  Owed(nids[n]) = 0
    BY ZenonT(40)
  <2>t. nids \in [1..MaxNid -> Objects \cup {Nil}] /\ TypeInv /\ Pool /\ Unwinding /\ ArmedLive
    BY ZenonT(40) DEF RefInv, NidInv, TypeInv, TypeOK
  <2>1. ASSUME NEW o \in Objects, NEW i \in Ids, Insert(o, i) PROVE FALSE
    <3>1. NextNid \in 1..MaxNid /\ nids[NextNid] = Nil /\ nids' = [nids EXCEPT ![NextNid] = o]
      BY <2>t, <2>1, NextFree, ZenonT(40) DEF Insert
    <3> QED
      BY <2>t, <3>1, ZenonT(40)
  <2>2. CASE CleanupEnd
    <3>1. /\ Top[1] \in Objects /\ nid[Top[1]] \in 1..MaxNid /\ nids[nid[Top[1]]] = Top[1]
          /\ refCount[Top[1]] = 0 /\ nids' = [nids EXCEPT ![nid[Top[1]]] = Nil]
      BY <2>t, <2>2, EndGives, ZenonT(40)
    <3>2. n = nid[Top[1]]
      BY <2>t, <3>1, ZenonT(40)
    <3>3. nids[n] = Top[1] /\ nids[n] \in Objects /\ refCount[nids[n]] = 0
      BY <3>1, <3>2, ZenonT(40)
    <3> QED
      BY <3>3, OwedBounded
  <2>3. ASSUME nids' = nids PROVE FALSE
    BY <2>3, ZenonT(40)
  <2> QED
    BY <2>1, <2>2, <2>3, ZenonT(40)
    DEF Next, Cleanup, PortCreate, TableCreate, TableCreateTaken, EntryAdd, EntryRemove,
        PortUpdate, PortUpdateFailsInput, PortUpdateFailsOutput, CleanupAfterError, SwapOutput,
        ObjectDelete, ForceRemove, ContextDelete, ContextDeleted, CleanupSlot, CleanupPanics
<1> QED
  BY <1>1, NidInvariant, PTL DEF Spec, FoundUntilReleased
=============================================================================

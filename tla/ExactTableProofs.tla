------------------------- MODULE ExactTableProofs --------------------------
(***************************************************************************)
(* Proofs about ExactTable, for any keys, actions, hash function, timeouts *)
(* and number of entries: the hash chains and the stale list are doubly    *)
(* linked lists, ordered by a rank that grows along them, so that the      *)
(* table is a map from keys to actions and loses nothing but transient     *)
(* entries that nobody used in time.                                       *)
(***************************************************************************)
EXTENDS ExactTable, TLAPS

(***************************************************************************)
(* What the proofs need to know of numbers and of finite sets.  Lemmas take*)
(* it as an assumption, which the last section discharges: only there are  *)
(* the theorems of the library in scope, with which every step before it   *)
(* would take the provers several times as long.                           *)
(***************************************************************************)
Basics ==
  /\ \A T \in SUBSET Nat : T # {} => \E n \in T : \A m \in T : n <= m
  /\ Cardinality({}) = 0
  /\ \A S \in SUBSET Entries : Cardinality(S) \in Nat
  /\ \A S \in SUBSET Entries : \A e \in Entries \ S :
       Cardinality(S \cup {e}) = Cardinality(S) + 1

(***************************************************************************)
(* Walks                                                                   *)
(***************************************************************************)

\* Every non-empty set of naturals has a least member.
LEMMA Least ==
  ASSUME Basics, NEW T \in SUBSET Nat, T # {}
  PROVE  \E n \in T : \A m \in T : n <= m
BY ZenonT(40) DEF Basics

\* What has a rank can be ordered by it.
LEMMA LeastRank ==
  ASSUME Basics, NEW L \in SUBSET Entries, L # {}, NEW rank \in [Entries -> Nat]
  PROVE  \E e \in L : \A f \in L : rank[e] <= rank[f]
<1> DEFINE T == {rank[e] : e \in L}
<1>1. T \in SUBSET Nat /\ T # {}
  BY ZenonT(40)
<1>2. PICK n \in T : \A m \in T : n <= m
  BY <1>1, Least, ZenonT(40)
<1> QED BY <1>2, ZenonT(40)

\* A walk meets what is a root, or is a step away from something it meets.
LEMMA Reached ==
  ASSUME Basics, NEW roots, NEW step, NEW L \in SUBSET Entries, NEW rank \in [Entries -> Nat],
         \A e \in L : e \in roots \/ \E p \in L : rank[p] < rank[e] /\ e \in step[p]
  PROVE  \A e \in L : Meets(roots, step, e)
<1> SUFFICES ASSUME NEW e \in L, NEW S \in SUBSET (Entries \ {e}), roots \ {Nil} \subseteq S,
                    \A x \in S : step[x] \ {Nil} \subseteq S
             PROVE  FALSE
  BY ZenonT(40) DEF Meets
<1>1. L \ S \in SUBSET Entries /\ L \ S # {}
  BY ZenonT(40)
<1>2. PICK x \in L \ S : \A y \in L \ S : rank[x] <= rank[y]
  BY <1>1, LeastRank, ZenonT(40)
<1>3. x # Nil
  BY NilAssumption, ZenonT(40) DEF Entries
<1>4. PICK p \in L : rank[p] < rank[x] /\ x \in step[p]
  BY <1>2, <1>3, ZenonT(40)
<1>5. p \in S
  BY <1>2, <1>4
<1> QED BY <1>2, <1>3, <1>4, <1>5, ZenonT(40)

\* It meets nothing outside a set that holds the roots and that it does not leave.
LEMMA Enclosed ==
  ASSUME NEW roots, NEW step, NEW L \in SUBSET Entries, roots \ {Nil} \subseteq L,
         \A x \in L : step[x] \ {Nil} \subseteq L,
         NEW e \in Entries, Meets(roots, step, e)
  PROVE  e \in L
  BY ZenonT(40) DEF Meets

(***************************************************************************)
(* What the operators do to the fields of the entries                      *)
(***************************************************************************)
Heap == [entry : [Entries -> EntryType], entries : [Buckets -> Ref],
         head : Ref, tail : Ref, held : Int]

\* g has the chains of h, and its data.
SameHash(h, g) ==
  /\ g.entries = h.entries /\ g.held = h.held
  /\ \A x \in Entries : /\ g.entry[x].key = h.entry[x].key
                        /\ g.entry[x].hashNext = h.entry[x].hashNext
                        /\ g.entry[x].hashPrev = h.entry[x].hashPrev
SameData(h, g) ==
  \A x \in Entries : /\ g.entry[x].actions = h.entry[x].actions
                     /\ g.entry[x].transient = h.entry[x].transient

\* g has the stale list of h, if W are its entries.
SameStale(h, g, W) ==
  /\ g.head = h.head /\ g.tail = h.tail
  /\ \A x \in W : /\ g.entry[x].staleNext = h.entry[x].staleNext
                  /\ g.entry[x].stalePrev = h.entry[x].stalePrev
                  /\ g.entry[x].staleTime = h.entry[x].staleTime

LEMMA NilNoEntry == Nil \notin Entries
  BY NilAssumption, ZenonT(40) DEF Entries

\* g is h but for one entry; for the links of one entry; for what StaleRemove
\* and StaleAdd do to the list.
Puts(h, g, e, v) ==
  /\ g \in Heap /\ g.entries = h.entries /\ g.held = h.held
  /\ g.head = h.head /\ g.tail = h.tail
  /\ \A x \in Entries : g.entry[x] = IF x = e THEN v ELSE h.entry[x]
SetsPrev(h, g, e, p) ==
  /\ g \in Heap /\ SameHash(h, g) /\ SameData(h, g)
  /\ g.head = h.head /\ g.tail = h.tail
  /\ \A x \in Entries :
       /\ g.entry[x].staleNext = h.entry[x].staleNext
       /\ g.entry[x].stalePrev = IF x = e THEN p ELSE h.entry[x].stalePrev
       /\ g.entry[x].staleTime = h.entry[x].staleTime
SetsNext(h, g, e, n) ==
  /\ g \in Heap /\ SameHash(h, g) /\ SameData(h, g)
  /\ g.head = h.head /\ g.tail = h.tail
  /\ \A x \in Entries :
       /\ g.entry[x].staleNext = IF x = e THEN n ELSE h.entry[x].staleNext
       /\ g.entry[x].stalePrev = h.entry[x].stalePrev
       /\ g.entry[x].staleTime = h.entry[x].staleTime
Unlists(h, g, e) ==
  LET n == h.entry[e].staleNext  p == h.entry[e].stalePrev
  IN  /\ g \in Heap /\ SameHash(h, g) /\ SameData(h, g)
      /\ g.head = IF h.head = e THEN n ELSE h.head
      /\ g.tail = IF h.tail = e THEN p ELSE h.tail
      /\ \A x \in Entries :
           /\ g.entry[x].staleNext = IF x = p THEN n ELSE h.entry[x].staleNext
           /\ g.entry[x].stalePrev = IF x = n THEN p ELSE h.entry[x].stalePrev
           /\ g.entry[x].staleTime = h.entry[x].staleTime
Lists(h, g, e) ==
  /\ g \in Heap /\ SameHash(h, g) /\ SameData(h, g)
  /\ g.head = IF h.head = Nil THEN e ELSE h.head
  /\ g.tail = e
  /\ \A x \in Entries :
       /\ g.entry[x].staleNext = IF x = e THEN Nil
                                 ELSE IF x = h.tail /\ h.head # Nil THEN e
                                 ELSE h.entry[x].staleNext
       /\ g.entry[x].stalePrev = IF x = e THEN h.tail ELSE h.entry[x].stalePrev
       /\ g.entry[x].staleTime = IF x = e THEN now + Timeout ELSE h.entry[x].staleTime

LEMMA PutEntry ==
  ASSUME NEW h \in Heap, NEW e \in Entries, NEW v \in EntryType
  PROVE  Puts(h, [h EXCEPT !.entry[e] = v], e, v)
  BY ZenonT(40) DEF Heap, Puts

\* A free entry, and the fields of an entry.
LEMMA BlankType == Blank \in EntryType
<1>1. 0 \in 0..(MaxTime + Timeout)
  BY TimesAssumption
<1> QED BY <1>1, ZenonT(40) DEF Blank, EntryType, Ref

LEMMA SetPrevFacts ==
  ASSUME NEW h \in Heap, NEW e \in Ref, NEW p \in Ref
  PROVE  SetsPrev(h, SetPrev(h, e, p), e, p)
<1>1. CASE e = Nil
  BY <1>1, NilNoEntry, ZenonT(40) DEF SetPrev, SetsPrev, SameHash, SameData
<1>2. CASE e # Nil
  <2> DEFINE v == [h.entry[e] EXCEPT !.stalePrev = p]
             g == SetPrev(h, e, p)
  <2>1. e \in Entries /\ h.entry[e] \in EntryType
    BY <1>2, ZenonT(40) DEF Ref, Heap
  <2>2. v \in EntryType
    BY <2>1, ZenonT(40) DEF EntryType
  <2>3. g = [h EXCEPT !.entry[e] = v]
    BY <1>2, ZenonT(40) DEF SetPrev
  <2>5. /\ v.key = h.entry[e].key /\ v.actions = h.entry[e].actions
        /\ v.hashNext = h.entry[e].hashNext /\ v.hashPrev = h.entry[e].hashPrev
        /\ v.staleTime = h.entry[e].staleTime /\ v.staleNext = h.entry[e].staleNext
        /\ v.stalePrev = p /\ v.transient = h.entry[e].transient
    BY <2>1, ZenonT(40) DEF EntryType
  <2> HIDE DEF v, g
  <2>4. Puts(h, g, e, v)
    BY <2>1, <2>2, <2>3, PutEntry, ZenonT(40)
  <2>6. SetsPrev(h, g, e, p)
    BY <2>4, <2>5, ZenonT(40) DEF Puts, SetsPrev, SameHash, SameData
  <2> QED BY <2>6, ZenonT(40) DEF g
<1> QED BY <1>1, <1>2, ZenonT(40)

LEMMA SetNextFacts ==
  ASSUME NEW h \in Heap, NEW e \in Ref, NEW n \in Ref
  PROVE  SetsNext(h, SetNext(h, e, n), e, n)
<1>1. CASE e = Nil
  BY <1>1, NilNoEntry, ZenonT(40) DEF SetNext, SetsNext, SameHash, SameData
<1>2. CASE e # Nil
  <2> DEFINE v == [h.entry[e] EXCEPT !.staleNext = n]
             g == SetNext(h, e, n)
  <2>1. e \in Entries /\ h.entry[e] \in EntryType
    BY <1>2 DEF Ref, Heap
  <2>2. v \in EntryType
    BY <2>1, ZenonT(40) DEF EntryType
  <2>3. g = [h EXCEPT !.entry[e] = v]
    BY <1>2, ZenonT(40) DEF SetNext
  <2>5. /\ v.key = h.entry[e].key /\ v.actions = h.entry[e].actions
        /\ v.hashNext = h.entry[e].hashNext /\ v.hashPrev = h.entry[e].hashPrev
        /\ v.staleTime = h.entry[e].staleTime /\ v.stalePrev = h.entry[e].stalePrev
        /\ v.staleNext = n /\ v.transient = h.entry[e].transient
    BY <2>1, ZenonT(40) DEF EntryType
  <2> HIDE DEF v, g
  <2>4. Puts(h, g, e, v)
    BY <2>1, <2>2, <2>3, PutEntry, ZenonT(40)
  <2>6. SetsNext(h, g, e, n)
    BY <2>4, <2>5, ZenonT(40) DEF Puts, SetsNext, SameHash, SameData
  <2> QED BY <2>6 DEF g
<1> QED BY <1>1, <1>2

\* StaleRemove mends the links of e's neighbours, and the ends of the list.
LEMMA StaleRemoveFacts ==
  ASSUME NEW h \in Heap, NEW e \in Entries,
         h.entry[e].staleNext # e, h.entry[e].stalePrev # e
  PROVE  Unlists(h, StaleRemove(h, e), e)
<1> DEFINE n == h.entry[e].staleNext
           p == h.entry[e].stalePrev
           h1 == SetPrev(h, n, p)
           h2 == SetNext(h1, p, n)
           g == StaleRemove(h, e)
<1>0. h.entry[e] \in EntryType /\ h.head \in Ref /\ h.tail \in Ref
  BY ZenonT(40) DEF Heap
<1>1. n \in Ref /\ p \in Ref
  BY <1>0, ZenonT(40) DEF EntryType
<1>2. SetsPrev(h, h1, n, p)
  <2> HIDE DEF n, p
  <2> QED BY <1>1, SetPrevFacts, ZenonT(40)
<1>3. SetsNext(h1, h2, p, n)
  <2>1. h1 \in Heap
    BY <1>2, ZenonT(40) DEF SetsPrev
  <2> HIDE DEF n, p, h1
  <2> QED BY <2>1, <1>1, SetNextFacts, ZenonT(40)
<1>4. h1.entry[e].staleNext = n /\ h1.entry[e].stalePrev = p
  <2> HIDE DEF h1
  <2> QED BY <1>2, ZenonT(40) DEF SetsPrev
<1>5. h2.entry[e].staleNext = n /\ h2.entry[e].stalePrev = p
  <2> HIDE DEF h1, h2
  <2> QED BY <1>3, <1>4, ZenonT(40) DEF SetsNext
<1>6. g = [h2 EXCEPT !.tail = IF @ = e THEN p ELSE @, !.head = IF @ = e THEN n ELSE @]
  <2>1. g = [h2 EXCEPT !.tail = IF @ = e THEN h2.entry[e].stalePrev ELSE @,
                       !.head = IF @ = e THEN h2.entry[e].staleNext ELSE @]
    <3>1. g = LET f == SetNext(h1, h1.entry[e].stalePrev, h1.entry[e].staleNext)
              IN  [f EXCEPT !.tail = IF @ = e THEN f.entry[e].stalePrev ELSE @,
                            !.head = IF @ = e THEN f.entry[e].staleNext ELSE @]
      BY ZenonT(40) DEF StaleRemove
    <3> HIDE DEF h1, g
    <3> QED BY <3>1, <1>4, ZenonT(40)
  <2> HIDE DEF h2, g
  <2> QED BY <2>1, <1>5, ZenonT(40)
<1> HIDE DEF h1, h2, g
<1>7. h2 \in Heap /\ h2.head = h.head /\ h2.tail = h.tail
  BY <1>2, <1>3, ZenonT(40) DEF SetsPrev, SetsNext
<1> DEFINE a == IF h.tail = e THEN p ELSE h.tail
           b == IF h.head = e THEN n ELSE h.head
<1>8. g = [h2 EXCEPT !.tail = a, !.head = b]
  BY <1>6, <1>7, ZenonT(40) DEF Heap
<1>9. a \in Ref /\ b \in Ref
  BY <1>0, <1>1, ZenonT(40)
<1>10. /\ g \in Heap /\ g.tail = a /\ g.head = b
       /\ g.entry = h2.entry /\ g.entries = h2.entries /\ g.held = h2.held
  <2> HIDE DEF a, b
  <2> QED BY <1>7, <1>8, <1>9, ZenonT(40) DEF Heap
<1>11. SameHash(h, g) /\ SameData(h, g)
  <2> HIDE DEF n, p, a, b
  <2>1. SameHash(h, h1) /\ SameHash(h1, h2) /\ SameData(h, h1) /\ SameData(h1, h2)
    BY <1>2, <1>3, ZenonT(40) DEF SetsPrev, SetsNext
  <2> QED BY <2>1, <1>10, ZenonT(40) DEF SameHash, SameData
<1>12. \A x \in Entries :
         /\ g.entry[x].staleNext = IF x = p THEN n ELSE h.entry[x].staleNext
         /\ g.entry[x].stalePrev = IF x = n THEN p ELSE h.entry[x].stalePrev
         /\ g.entry[x].staleTime = h.entry[x].staleTime
  <2> HIDE DEF n, p, a, b
  <2> QED BY <1>2, <1>3, <1>10, ZenonT(40) DEF SetsPrev, SetsNext
<1>13. Unlists(h, g, e)
  BY <1>10, <1>11, <1>12, ZenonT(40) DEF Unlists
<1> QED BY <1>13, ZenonT(40) DEF g

\* StaleAdd appends e, with the time at which it will be stale.
LEMMA StaleAddFacts ==
  ASSUME NEW h \in Heap, NEW e \in Entries, h.tail # e, now \in 0..MaxTime
  PROVE  Lists(h, StaleAdd(h, e), e)
<1> DEFINE t == h.tail
           v == [h.entry[e] EXCEPT !.staleTime = now + Timeout, !.stalePrev = t, !.staleNext = Nil]
           h1 == [h EXCEPT !.entry[e] = v]
           h2 == IF h.head = Nil THEN [h1 EXCEPT !.head = e] ELSE SetNext(h1, t, e)
           g == StaleAdd(h, e)
<1>0. /\ h.entry[e] \in EntryType /\ h.head \in Ref /\ t \in Ref /\ e \in Ref /\ Nil \in Ref
      /\ h.entry \in [Entries -> EntryType]
  BY ZenonT(40) DEF Heap, Ref
<1>1. now + Timeout \in 0..(MaxTime + Timeout)
  BY TimesAssumption
<1>2. v \in EntryType
  BY <1>0, <1>1, ZenonT(40) DEF EntryType
<1>3. /\ v.key = h.entry[e].key /\ v.actions = h.entry[e].actions
      /\ v.hashNext = h.entry[e].hashNext /\ v.hashPrev = h.entry[e].hashPrev
      /\ v.staleTime = now + Timeout /\ v.stalePrev = t
      /\ v.staleNext = Nil /\ v.transient = h.entry[e].transient
  BY <1>0, ZenonT(40) DEF EntryType
<1>4. h1 = [h EXCEPT !.entry[e].staleTime = now + Timeout,
                     !.entry[e].stalePrev = t, !.entry[e].staleNext = Nil]
  BY <1>0, ZenonT(40) DEF Heap
<1>5. g = [h2 EXCEPT !.tail = e]
  <2>1. g = LET a == [h EXCEPT !.entry[e].staleTime = now + Timeout,
                               !.entry[e].stalePrev = t, !.entry[e].staleNext = Nil]
            IN  [(IF h.head = Nil THEN [a EXCEPT !.head = e] ELSE SetNext(a, t, e)) EXCEPT !.tail = e]
    BY ZenonT(40) DEF StaleAdd
  <2> HIDE DEF h1
  <2> QED BY <2>1, <1>4, ZenonT(40)
<1> HIDE DEF v, g
<1>6. Puts(h, h1, e, v)
  BY <1>2, PutEntry, ZenonT(40)
<1> HIDE DEF h1
<1>7. SameHash(h, h1) /\ SameData(h, h1) /\ h1 \in Heap /\ h1.head = h.head
  BY <1>3, <1>6, ZenonT(40) DEF SameHash, SameData, Puts
<1>8. /\ h2 \in Heap /\ SameHash(h1, h2) /\ SameData(h1, h2)
      /\ h2.head = IF h.head = Nil THEN e ELSE h.head
      /\ \A x \in Entries :
           /\ h2.entry[x].staleNext = IF x = t /\ h.head # Nil THEN e ELSE h1.entry[x].staleNext
           /\ h2.entry[x].stalePrev = h1.entry[x].stalePrev
           /\ h2.entry[x].staleTime = h1.entry[x].staleTime
  <2>1. CASE h.head = Nil
    <3>1. h2 = [h1 EXCEPT !.head = e]
      BY <2>1, ZenonT(40)
    <3>2. h2 \in Heap
      BY <3>1, <1>0, <1>7, ZenonT(40) DEF Heap
    <3>3. h2.entry = h1.entry /\ h2.entries = h1.entries /\ h2.held = h1.held /\ h2.head = e
      BY <3>1, <1>7, ZenonT(40) DEF Heap
    <3> HIDE DEF h2
    <3> QED BY <2>1, <3>2, <3>3, ZenonT(40) DEF SameHash, SameData
  <2>2. CASE h.head # Nil
    <3>1. SetsNext(h1, SetNext(h1, t, e), t, e)
      <4> HIDE DEF t
      <4> QED BY <1>0, <1>7, SetNextFacts, ZenonT(40)
    <3>2. SetsNext(h1, h2, t, e)
      BY <2>2, <3>1, ZenonT(40)
    <3> HIDE DEF h2
    <3> QED BY <3>2, <2>2, <1>7, ZenonT(40) DEF SetsNext
  <2> QED BY <2>1, <2>2, ZenonT(40)
<1> HIDE DEF h2
<1>9. g \in Heap /\ g.entry = h2.entry /\ g.entries = h2.entries /\ g.held = h2.held /\ g.head = h2.head
      /\ g.tail = e
  BY <1>0, <1>5, <1>8, ZenonT(40) DEF Heap
<1>10. SameHash(h, g) /\ SameData(h, g)
  <2>1. SameHash(h, h2)
    BY <1>7, <1>8, SMTT(30), ZenonT(40) DEF SameHash
  <2>2. SameData(h, h2)
    BY <1>7, <1>8, SMTT(30), ZenonT(40) DEF SameData
  <2>3. SameHash(h, g)
    BY <1>9, <2>1, ZenonT(40) DEF SameHash
  <2>4. SameData(h, g)
    BY <1>9, <2>2, ZenonT(40) DEF SameData
  <2> QED BY <2>3, <2>4, ZenonT(40)
<1>11. \A x \in Entries : h1.entry[x] = IF x = e THEN v ELSE h.entry[x]
  BY <1>6, ZenonT(40) DEF Puts
<1>12. \A x \in Entries :
         /\ g.entry[x].staleNext = IF x = e THEN Nil
                                   ELSE IF x = t /\ h.head # Nil THEN e
                                   ELSE h.entry[x].staleNext
         /\ g.entry[x].stalePrev = IF x = e THEN t ELSE h.entry[x].stalePrev
         /\ g.entry[x].staleTime = IF x = e THEN now + Timeout ELSE h.entry[x].staleTime
  BY <1>3, <1>8, <1>9, <1>11
<1>13. Lists(h, g, e)
  BY <1>8, <1>9, <1>10, <1>12, ZenonT(40) DEF Lists
<1> QED BY <1>13, ZenonT(40) DEF g

\* What Insert and Remove do to the chains; neither touches the stale list, but
\* for the fields of the new entry.
Inserts(h, g, e, k, a) ==
  LET first == h.entries[Bucket[k]]
  IN  /\ g \in Heap /\ g.head = h.head /\ g.tail = h.tail /\ g.held = h.held + 1
      /\ \A b \in Buckets : g.entries[b] = IF b = Bucket[k] THEN e ELSE h.entries[b]
      /\ \A x \in Entries :
           /\ g.entry[x].key = IF x = e THEN k ELSE h.entry[x].key
           /\ g.entry[x].actions = IF x = e THEN a ELSE h.entry[x].actions
           /\ g.entry[x].hashNext = IF x = e THEN first ELSE h.entry[x].hashNext
           /\ g.entry[x].hashPrev = IF x = e THEN Nil ELSE IF x = first THEN e ELSE h.entry[x].hashPrev
           /\ x # e => /\ g.entry[x].staleNext = h.entry[x].staleNext
                       /\ g.entry[x].stalePrev = h.entry[x].stalePrev
                       /\ g.entry[x].staleTime = h.entry[x].staleTime
                       /\ g.entry[x].transient = h.entry[x].transient
           /\ x \notin {e, first} => g.entry[x] = h.entry[x]
      /\ g.entry[e].staleNext = Nil /\ g.entry[e].stalePrev = Nil /\ ~g.entry[e].transient
Cuts(h, g, e) ==
  LET n == h.entry[e].hashNext  p == h.entry[e].hashPrev
  IN  /\ g \in Heap /\ SameStale(h, g, Entries) /\ SameData(h, g) /\ g.held = h.held - 1
      /\ \A b \in Buckets :
           g.entries[b] = IF p = Nil /\ b = Bucket[h.entry[e].key] THEN n ELSE h.entries[b]
      /\ \A x \in Entries :
           /\ g.entry[x].key = h.entry[x].key
           /\ g.entry[x].hashNext = IF x = p THEN n ELSE h.entry[x].hashNext
           /\ g.entry[x].hashPrev = IF x = n THEN p ELSE h.entry[x].hashPrev

LEMMA InsertFacts ==
  ASSUME NEW h \in Heap, NEW e \in Entries, e = New(h), NEW k \in Keys, NEW a \in Acts,
         h.entries[Bucket[k]] # e
  PROVE  Inserts(h, Insert(h, k, a), e, k, a)
<1> DEFINE first == h.entries[Bucket[k]]
           v == [Blank EXCEPT !.key = k, !.actions = a, !.hashNext = first]
           h0 == [h EXCEPT !.entry[e] = v]
           h1 == [h0 EXCEPT !.entries[Bucket[k]] = e, !.held = @ + 1]
           w == [h.entry[first] EXCEPT !.hashPrev = e]
           g == Insert(h, k, a)
<1>0. Bucket[k] \in Buckets /\ first \in Ref /\ e \in Ref /\ h.held \in Int /\ e # Nil
  BY NilNoEntry, ZenonT(40) DEF Buckets, Heap, Ref
<1>1. v \in EntryType
  BY <1>0, BlankType, ZenonT(40) DEF EntryType
<1>2. /\ v.key = k /\ v.actions = a /\ v.hashNext = first /\ v.hashPrev = Nil
      /\ v.staleNext = Nil /\ v.stalePrev = Nil /\ v.transient = FALSE
  BY ZenonT(40) DEF Blank
<1>3. g = IF first = Nil THEN h1 ELSE [h1 EXCEPT !.entry[first].hashPrev = e]
  <2>1. h1 = [h EXCEPT !.entry[e] = v, !.entries[Bucket[k]] = e, !.held = @ + 1]
    <3> HIDE DEF v, first
    <3> QED BY ZenonT(40) DEF Heap
  <2>2. g = LET f == [h EXCEPT !.entry[e] = v, !.entries[Bucket[k]] = e, !.held = @ + 1]
            IN  IF first = Nil THEN f ELSE [f EXCEPT !.entry[first].hashPrev = e]
    BY ZenonT(40) DEF Insert
  <2> HIDE DEF h1, v, first, g
  <2> QED BY <2>1, <2>2, ZenonT(40)
<1>4. Puts(h, h0, e, v)
  <2> HIDE DEF v
  <2> QED BY <1>1, PutEntry, ZenonT(40)
<1> HIDE DEF v, h0, g
<1>5. h0 \in Heap /\ h0.held = h.held /\ h0.entries = h.entries /\ h0.head = h.head /\ h0.tail = h.tail
  BY <1>4, ZenonT(40) DEF Puts
<1>6. h1 \in Heap
  <2> HIDE DEF first
  <2> DEFINE u == [h.entries EXCEPT ![Bucket[k]] = e]
  <2>1. u \in [Buckets -> Ref] /\ h.held + 1 \in Int
    BY <1>0 DEF Heap
  <2>2. h1 = [h0 EXCEPT !.entries = u, !.held = h.held + 1]
    BY <1>5, ZenonT(40) DEF Heap
  <2> HIDE DEF u, h1
  <2> QED BY <2>1, <2>2, <1>5, ZenonT(40) DEF Heap
<1>7. /\ h1.entry = h0.entry /\ h1.head = h.head /\ h1.tail = h.tail /\ h1.held = h.held + 1
      /\ \A b \in Buckets : h1.entries[b] = IF b = Bucket[k] THEN e ELSE h.entries[b]
  <2> HIDE DEF first
  <2> QED BY <1>0, <1>5, ZenonT(40) DEF Heap
<1> HIDE DEF h1
<1>8. CASE first = Nil
  <2>1. g = h1
    BY <1>3, <1>8, ZenonT(40)
  <2>2. \A x \in Entries : x # first
    BY <1>8, NilNoEntry, ZenonT(40)
  <2>3. \A x \in Entries : g.entry[x] = IF x = e THEN v ELSE h.entry[x]
    BY <2>1, <1>4, <1>7, ZenonT(40) DEF Puts
  <2> HIDE DEF first
  <2>4. /\ g \in Heap /\ g.head = h.head /\ g.tail = h.tail /\ g.held = h.held + 1
        /\ \A b \in Buckets : g.entries[b] = IF b = Bucket[k] THEN e ELSE h.entries[b]
    BY <2>1, <1>6, <1>7, ZenonT(40)
  <2>5. Inserts(h, g, e, k, a)
    BY <2>2, <2>3, <2>4, <1>2, ZenonT(40) DEF Inserts, first
  <2> QED BY <2>5, ZenonT(40) DEF g
<1>9. CASE first # Nil
  <2>1. first \in Entries /\ first # e
    BY <1>0, <1>9, ZenonT(40) DEF Ref
  <2> HIDE DEF first
  <2>2. h1.entry[first] = h.entry[first]
    BY <2>1, <1>4, <1>7, ZenonT(40) DEF Puts
  <2>3. h.entry[first] \in EntryType
    BY <2>1, ZenonT(40) DEF Heap
  <2>4. w \in EntryType
    BY <2>3, <1>0, ZenonT(40) DEF EntryType
  <2>5. /\ w.key = h.entry[first].key /\ w.actions = h.entry[first].actions
        /\ w.hashNext = h.entry[first].hashNext /\ w.hashPrev = e
        /\ w.staleTime = h.entry[first].staleTime /\ w.staleNext = h.entry[first].staleNext
        /\ w.stalePrev = h.entry[first].stalePrev /\ w.transient = h.entry[first].transient
    BY <2>3, ZenonT(40) DEF EntryType
  <2>6. g = [h1 EXCEPT !.entry[first] = w]
    BY <1>3, <1>9, <2>2, ZenonT(40)
  <2> HIDE DEF w
  <2>7. Puts(h1, g, first, w)
    BY <2>1, <2>4, <2>6, <1>6, PutEntry, ZenonT(40)
  <2>8. \A x \in Entries : g.entry[x] = IF x = first THEN w ELSE IF x = e THEN v ELSE h.entry[x]
    <3>1. \A x \in Entries : g.entry[x] = IF x = first THEN w ELSE h1.entry[x]
      BY <2>7, ZenonT(40) DEF Puts
    <3>2. \A x \in Entries : h0.entry[x] = IF x = e THEN v ELSE h.entry[x]
      BY <1>4, ZenonT(40) DEF Puts
    <3> QED BY <3>1, <3>2, <1>7
  <2>9. /\ g \in Heap /\ g.head = h.head /\ g.tail = h.tail /\ g.held = h.held + 1
        /\ \A b \in Buckets : g.entries[b] = IF b = Bucket[k] THEN e ELSE h.entries[b]
    BY <2>7, <1>7, ZenonT(40) DEF Puts
  <2>10. first # e /\ first = h.entries[Bucket[k]]
    BY <2>1, <1>2, ZenonT(40) DEF first
  <2>11. g.entry[e] = v /\ g.entry[first] = w
    BY <2>1, <2>8, <2>10, ZenonT(40)
  <2>12. \A x \in Entries : x \notin {e, first} => g.entry[x] = h.entry[x]
    BY <2>8, ZenonT(40)
  <2>13. ASSUME NEW x \in Entries
         PROVE  /\ g.entry[x].key = IF x = e THEN k ELSE h.entry[x].key
                /\ g.entry[x].actions = IF x = e THEN a ELSE h.entry[x].actions
                /\ g.entry[x].hashNext = IF x = e THEN first ELSE h.entry[x].hashNext
                /\ g.entry[x].hashPrev = IF x = e THEN Nil ELSE IF x = first THEN e ELSE h.entry[x].hashPrev
                /\ x # e => /\ g.entry[x].staleNext = h.entry[x].staleNext
                            /\ g.entry[x].stalePrev = h.entry[x].stalePrev
                            /\ g.entry[x].staleTime = h.entry[x].staleTime
                            /\ g.entry[x].transient = h.entry[x].transient
    <3>1. CASE x = e
      BY <3>1, <2>5, <2>10, <2>11, <1>2, SMTT(30), ZenonT(40)
    <3>2. CASE x = first
      BY <3>2, <2>5, <2>10, <2>11, SMTT(30), ZenonT(40)
    <3>3. CASE x \notin {e, first}
      BY <3>3, <2>12, SMTT(30), ZenonT(40)
    <3> QED BY <3>1, <3>2, <3>3, ZenonT(40)
  <2>14. g.entry[e].staleNext = Nil /\ g.entry[e].stalePrev = Nil /\ ~g.entry[e].transient
    BY <2>11, <1>2, SMTT(30), ZenonT(40)
  <2>15. Inserts(h, g, e, k, a)
    BY <2>9, <2>10, <2>12, <2>13, <2>14, SMTT(30), ZenonT(40) DEF Inserts
  <2> QED BY <2>15 DEF g
<1> QED BY <1>8, <1>9, ZenonT(40)

LEMMA RemoveFacts ==
  ASSUME NEW h \in Heap, NEW e \in Entries, h.entry[e].key \in Keys
  PROVE  Cuts(h, Remove(h, e), e)
<1> DEFINE n == h.entry[e].hashNext
           p == h.entry[e].hashPrev
           b == Bucket[h.entry[e].key]
           v == [h.entry[n] EXCEPT !.hashPrev = p]
           h1 == IF n = Nil THEN h ELSE [h EXCEPT !.entry[n].hashPrev = p]
           w == [h1.entry[p] EXCEPT !.hashNext = n]
           h2 == IF p = Nil THEN [h1 EXCEPT !.entries[b] = n] ELSE [h1 EXCEPT !.entry[p].hashNext = n]
           g == Remove(h, e)
<1>0. /\ h.entry[e] \in EntryType /\ b \in Buckets /\ h.entry \in [Entries -> EntryType]
      /\ h.held \in Int
  BY ZenonT(40) DEF Heap, Buckets
<1>1. n \in Ref /\ p \in Ref
  BY <1>0, ZenonT(40) DEF EntryType
<1>2. g = [h2 EXCEPT !.held = @ - 1]
  BY ZenonT(40) DEF Remove
<1> HIDE DEF n, p, b, g
<1>3. /\ h1 \in Heap /\ SameStale(h, h1, Entries) /\ SameData(h, h1)
      /\ h1.entries = h.entries /\ h1.held = h.held
      /\ \A x \in Entries : /\ h1.entry[x].key = h.entry[x].key
                            /\ h1.entry[x].hashNext = h.entry[x].hashNext
                            /\ h1.entry[x].hashPrev = IF x = n THEN p ELSE h.entry[x].hashPrev
  <2>1. CASE n = Nil
    BY <2>1, NilNoEntry, ZenonT(40) DEF SameStale, SameData
  <2>2. CASE n # Nil
    <3>1. n \in Entries /\ h.entry[n] \in EntryType
      BY <2>2, <1>0, <1>1, ZenonT(40) DEF Ref
    <3>2. v \in EntryType
      BY <3>1, <1>1, ZenonT(40) DEF EntryType
    <3>3. /\ v.key = h.entry[n].key /\ v.actions = h.entry[n].actions
          /\ v.hashNext = h.entry[n].hashNext /\ v.hashPrev = p
          /\ v.staleTime = h.entry[n].staleTime /\ v.staleNext = h.entry[n].staleNext
          /\ v.stalePrev = h.entry[n].stalePrev /\ v.transient = h.entry[n].transient
      BY <3>1, ZenonT(40) DEF EntryType
    <3>4. h1 = [h EXCEPT !.entry[n] = v]
      BY <2>2, ZenonT(40)
    <3> HIDE DEF h1, v
    <3>5. Puts(h, h1, n, v)
      BY <3>1, <3>2, <3>4, PutEntry, ZenonT(40)
    <3> QED BY <3>3, <3>5, ZenonT(40) DEF Puts, SameStale, SameData
  <2> QED BY <2>1, <2>2, ZenonT(40)
<1> HIDE DEF h1
<1>4. /\ h2 \in Heap /\ SameStale(h1, h2, Entries) /\ SameData(h1, h2) /\ h2.held = h1.held
      /\ \A c \in Buckets : h2.entries[c] = IF p = Nil /\ c = b THEN n ELSE h1.entries[c]
      /\ \A x \in Entries : /\ h2.entry[x].key = h1.entry[x].key
                            /\ h2.entry[x].hashNext = IF x = p THEN n ELSE h1.entry[x].hashNext
                            /\ h2.entry[x].hashPrev = h1.entry[x].hashPrev
  <2>1. CASE p = Nil
    <3>1. h2 = [h1 EXCEPT !.entries[b] = n]
      BY <2>1, ZenonT(40)
    <3>2. h2 \in Heap
      BY <3>1, <1>0, <1>1, <1>3, ZenonT(40) DEF Heap
    <3>3. /\ h2.entry = h1.entry /\ h2.head = h1.head /\ h2.tail = h1.tail /\ h2.held = h1.held
          /\ \A c \in Buckets : h2.entries[c] = IF c = b THEN n ELSE h1.entries[c]
      BY <3>1, <1>0, <1>3, ZenonT(40) DEF Heap
    <3> HIDE DEF h2
    <3> QED BY <2>1, <3>2, <3>3, NilNoEntry, ZenonT(40) DEF SameStale, SameData
  <2>2. CASE p # Nil
    <3>1. p \in Entries /\ h1.entry[p] \in EntryType
      BY <2>2, <1>1, <1>3, ZenonT(40) DEF Ref, Heap
    <3>2. w \in EntryType
      BY <3>1, <1>1, ZenonT(40) DEF EntryType
    <3>3. /\ w.key = h1.entry[p].key /\ w.actions = h1.entry[p].actions
          /\ w.hashNext = n /\ w.hashPrev = h1.entry[p].hashPrev
          /\ w.staleTime = h1.entry[p].staleTime /\ w.staleNext = h1.entry[p].staleNext
          /\ w.stalePrev = h1.entry[p].stalePrev /\ w.transient = h1.entry[p].transient
      BY <3>1, ZenonT(40) DEF EntryType
    <3>4. h2 = [h1 EXCEPT !.entry[p] = w]
      BY <2>2, ZenonT(40)
    <3> HIDE DEF h2, w
    <3>5. Puts(h1, h2, p, w)
      BY <3>1, <3>2, <3>4, <1>3, PutEntry, ZenonT(40)
    <3> QED BY <2>2, <3>3, <3>5, ZenonT(40) DEF Puts, SameStale, SameData
  <2> QED BY <2>1, <2>2, ZenonT(40)
<1> HIDE DEF h2
<1>5. /\ g \in Heap /\ g.entry = h2.entry /\ g.entries = h2.entries /\ g.head = h2.head /\ g.tail = h2.tail
      /\ g.held = h.held - 1
  BY <1>0, <1>2, <1>3, <1>4 DEF Heap
<1>6. SameStale(h, g, Entries) /\ SameData(h, g)
  <2>1. SameStale(h, h1, Entries) /\ SameData(h, h1) /\ SameStale(h1, h2, Entries) /\ SameData(h1, h2)
    BY <1>3, <1>4, ZenonT(40)
  <2> QED BY <2>1, <1>5, ZenonT(40) DEF SameStale, SameData
<1>7. \A c \in Buckets : g.entries[c] = IF p = Nil /\ c = b THEN n ELSE h.entries[c]
  BY <1>3, <1>4, <1>5, ZenonT(40)
<1>8. \A x \in Entries : /\ g.entry[x].key = h.entry[x].key
                         /\ g.entry[x].hashNext = IF x = p THEN n ELSE h.entry[x].hashNext
                         /\ g.entry[x].hashPrev = IF x = n THEN p ELSE h.entry[x].hashPrev
  BY <1>3, <1>4, <1>5, ZenonT(40)
<1>9. Cuts(h, g, e)
  BY <1>5, <1>6, <1>7, <1>8, ZenonT(40) DEF Cuts, n, p, b
<1> QED BY <1>9, ZenonT(40) DEF g

(***************************************************************************)
(* The shape of the lists.  L are the entries of the chains and W those of *)
(* the stale list; ranks that grow along the links exclude cycles, and tell*)
(* that every entry is reached from the head of its list.                  *)
(***************************************************************************)
Home(h, e) == Bucket[h.entry[e].key]

Linked(h, L, r) ==
  /\ \A e \in L : h.entry[e].key \in Keys
  /\ \A e, f \in L : h.entry[e].key = h.entry[f].key => e = f
  /\ \A e \in L : LET n == h.entry[e].hashNext
                  IN  n # Nil => /\ n \in L /\ h.entry[n].hashPrev = e
                                 /\ Home(h, n) = Home(h, e) /\ r[e] < r[n]
  /\ \A e \in L : LET p == h.entry[e].hashPrev
                  IN  IF p = Nil THEN h.entries[Home(h, e)] = e
                      ELSE p \in L /\ h.entry[p].hashNext = e
  /\ \A b \in Buckets : LET f == h.entries[b]
                        IN  f # Nil => f \in L /\ h.entry[f].hashPrev = Nil /\ Home(h, f) = b

Ordered(h, W, s, m) ==
  /\ \A e \in W : LET n == h.entry[e].staleNext
                  IN  IF n = Nil THEN h.tail = e
                      ELSE n \in W /\ h.entry[n].stalePrev = e /\ s[e] < s[n]
  /\ \A e \in W : LET p == h.entry[e].stalePrev
                  IN  IF p = Nil THEN h.head = e ELSE p \in W /\ h.entry[p].staleNext = e
  /\ h.head # Nil => h.head \in W /\ h.entry[h.head].stalePrev = Nil
  /\ h.tail # Nil => h.tail \in W /\ h.entry[h.tail].staleNext = Nil
  /\ h.head = Nil <=> h.tail = Nil
  /\ \A e \in W : s[e] <= m
  /\ \A e, f \in W : s[e] <= s[f] => h.entry[e].staleTime <= h.entry[f].staleTime

\* Both depend on the fields of their own entries only.
LEMMA LinkedOn ==
  ASSUME NEW h, NEW g, NEW L \in SUBSET Entries, NEW r, Linked(h, L, r), g.entries = h.entries,
         \A x \in L : /\ g.entry[x].key = h.entry[x].key
                      /\ g.entry[x].hashNext = h.entry[x].hashNext
                      /\ g.entry[x].hashPrev = h.entry[x].hashPrev
  PROVE  Linked(g, L, r)
<1>1. /\ g.entries = h.entries
      /\ \A x \in L : /\ g.entry[x].key = h.entry[x].key
                      /\ g.entry[x].hashNext = h.entry[x].hashNext
                      /\ g.entry[x].hashPrev = h.entry[x].hashPrev
                      /\ Home(g, x) = Home(h, x)
  BY ZenonT(40) DEF Home
<1>2. /\ \A e \in L : g.entry[e].key \in Keys
      /\ \A e, f \in L : g.entry[e].key = g.entry[f].key => e = f
  BY <1>1 DEF Linked
<1>3. \A e \in L : LET n == g.entry[e].hashNext
                  IN  n # Nil => /\ n \in L /\ g.entry[n].hashPrev = e
                                 /\ Home(g, n) = Home(g, e) /\ r[e] < r[n]
  BY <1>1 DEF Linked
<1>4. \A e \in L : LET p == g.entry[e].hashPrev
                  IN  IF p = Nil THEN g.entries[Home(g, e)] = e
                      ELSE p \in L /\ g.entry[p].hashNext = e
  BY <1>1 DEF Linked
<1>5. \A b \in Buckets : LET f == g.entries[b]
                        IN  f # Nil => f \in L /\ g.entry[f].hashPrev = Nil /\ Home(g, f) = b
  BY <1>1 DEF Linked
<1> QED BY <1>2, <1>3, <1>4, <1>5, ZenonT(40) DEF Linked

LEMMA LinkedFrame ==
  ASSUME NEW h, NEW g, NEW L \in SUBSET Entries, NEW r, Linked(h, L, r), SameHash(h, g)
  PROVE  Linked(g, L, r)
<1>1. /\ g.entries = h.entries
      /\ \A x \in L : /\ g.entry[x].key = h.entry[x].key
                      /\ g.entry[x].hashNext = h.entry[x].hashNext
                      /\ g.entry[x].hashPrev = h.entry[x].hashPrev
  BY ZenonT(40) DEF SameHash
<1> QED BY <1>1, LinkedOn, ZenonT(40)

LEMMA OrderedFrame ==
  ASSUME NEW h, NEW g, NEW W \in SUBSET Entries, NEW s, NEW m, Ordered(h, W, s, m), SameStale(h, g, W)
  PROVE  Ordered(g, W, s, m)
  BY SMTT(30), ZenonT(40) DEF Ordered, SameStale

\* The list is empty exactly when it has no head; the head is the first to be stale.
LEMMA HeadFirst ==
  ASSUME Basics, NEW h, NEW W \in SUBSET Entries, NEW s \in [Entries -> Nat], NEW m,
         Ordered(h, W, s, m), W # {}
  PROVE  /\ h.head \in W /\ h.head # Nil
         /\ \A e \in W : s[h.head] <= s[e] /\ h.entry[h.head].staleTime <= h.entry[e].staleTime
<1>1. PICK e \in W : \A f \in W : s[e] <= s[f]
  BY LeastRank, ZenonT(40)
<1>2. h.entry[e].stalePrev = Nil
  <2> SUFFICES ASSUME h.entry[e].stalePrev # Nil PROVE FALSE
    BY ZenonT(40)
  <2> DEFINE p == h.entry[e].stalePrev
  <2>1. p \in W /\ h.entry[p].staleNext = e /\ e # Nil
    BY NilNoEntry, ZenonT(40) DEF Ordered
  <2>2. s[p] < s[e]
    BY <2>1, ZenonT(40) DEF Ordered
  <2>3. s[e] <= s[p] /\ s[e] \in Nat /\ s[p] \in Nat
    BY <1>1, <2>1, ZenonT(40)
  <2> QED BY <2>2, <2>3
<1>3. h.head = e
  BY <1>2, ZenonT(40) DEF Ordered
<1> QED BY <1>1, <1>3, NilNoEntry DEF Ordered

\* Unlinking an entry of the stale list leaves a list of the others.
LEMMA UnlistOrdered ==
  ASSUME NEW h \in Heap, NEW W \in SUBSET Entries, NEW s \in [Entries -> Nat], NEW m \in Nat,
         Ordered(h, W, s, m), NEW e \in W
  PROVE  /\ Unlists(h, StaleRemove(h, e), e)
         /\ Ordered(StaleRemove(h, e), W \ {e}, s, m)
<1> DEFINE n == h.entry[e].staleNext
           p == h.entry[e].stalePrev
           g == StaleRemove(h, e)
           V == W \ {e}
<1>0. e # Nil /\ e \in Entries
  BY NilNoEntry, ZenonT(40)
<1>1. n # Nil => n \in V /\ h.entry[n].stalePrev = e /\ s[e] < s[n]
  BY DEF Ordered
<1>2. p # Nil => p \in V /\ h.entry[p].staleNext = e /\ s[p] < s[e]
  BY <1>0 DEF Ordered
<1>3. (n = Nil => h.tail = e) /\ (p = Nil => h.head = e)
  BY ZenonT(40) DEF Ordered
<1>4. Unlists(h, g, e)
  BY <1>0, <1>1, <1>2, StaleRemoveFacts
<1> HIDE DEF g
<1>5. /\ g.head = IF h.head = e THEN n ELSE h.head
      /\ g.tail = IF h.tail = e THEN p ELSE h.tail
      /\ \A x \in Entries :
           /\ g.entry[x].staleNext = IF x = p THEN n ELSE h.entry[x].staleNext
           /\ g.entry[x].stalePrev = IF x = n THEN p ELSE h.entry[x].stalePrev
           /\ g.entry[x].staleTime = h.entry[x].staleTime
  BY <1>4, ZenonT(40) DEF Unlists
<1>6. /\ (h.head = e) <=> (p = Nil)
      /\ (h.tail = e) <=> (n = Nil)
  BY <1>0, <1>3, ZenonT(40) DEF Ordered
<1>7. \A x \in V : LET y == g.entry[x].staleNext
                   IN  IF y = Nil THEN g.tail = x
                       ELSE y \in V /\ g.entry[y].stalePrev = x /\ s[x] < s[y]
  <2> SUFFICES ASSUME NEW x \in V
               PROVE  LET y == g.entry[x].staleNext
                      IN  IF y = Nil THEN g.tail = x
                          ELSE y \in V /\ g.entry[y].stalePrev = x /\ s[x] < s[y]
    BY ZenonT(40)
  <2>1. CASE x = p
    <3>1. g.entry[x].staleNext = n /\ s[p] \in Nat /\ s[e] \in Nat
      BY <2>1, <1>5, ZenonT(40)
    <3>2. CASE n = Nil
      BY <2>1, <3>1, <3>2, <1>5, <1>6, ZenonT(40)
    <3>3. CASE n # Nil
      BY <2>1, <3>1, <3>3, <1>0, <1>1, <1>2, <1>5, NilNoEntry
    <3> QED BY <3>2, <3>3, ZenonT(40)
  <2>2. CASE x # p
    <3> DEFINE y == h.entry[x].staleNext
    <3>1. g.entry[x].staleNext = y
      BY <2>2, <1>5, ZenonT(40)
    <3>2. CASE y = Nil
      BY <3>1, <3>2, <1>5, ZenonT(40) DEF Ordered
    <3>3. CASE y # Nil
      <4>1. y \in W /\ h.entry[y].stalePrev = x /\ s[x] < s[y]
        BY <3>3, ZenonT(40) DEF Ordered
      <4>2. y # e /\ y # n
        BY <4>1, <2>2, <1>1, <3>3, ZenonT(40)
      <4> QED BY <3>1, <3>3, <4>1, <4>2, <1>5
    <3> QED BY <3>2, <3>3, ZenonT(40)
  <2> QED BY <2>1, <2>2, ZenonT(40)
<1>8. \A x \in V : LET y == g.entry[x].stalePrev
                   IN  IF y = Nil THEN g.head = x ELSE y \in V /\ g.entry[y].staleNext = x
  <2> SUFFICES ASSUME NEW x \in V
               PROVE  LET y == g.entry[x].stalePrev
                      IN  IF y = Nil THEN g.head = x ELSE y \in V /\ g.entry[y].staleNext = x
    BY ZenonT(40)
  <2>1. CASE x = n
    <3>1. g.entry[x].stalePrev = p
      BY <2>1, <1>5, ZenonT(40)
    <3>2. CASE p = Nil
      BY <2>1, <3>1, <3>2, <1>5, <1>6, ZenonT(40)
    <3>3. CASE p # Nil
      BY <2>1, <3>1, <3>3, <1>2, <1>5, ZenonT(40)
    <3> QED BY <3>2, <3>3, ZenonT(40)
  <2>2. CASE x # n
    <3> DEFINE y == h.entry[x].stalePrev
    <3>1. g.entry[x].stalePrev = y
      BY <2>2, <1>5, ZenonT(40)
    <3>2. CASE y = Nil
      BY <3>1, <3>2, <1>5, ZenonT(40) DEF Ordered
    <3>3. CASE y # Nil
      <4>1. y \in W /\ h.entry[y].staleNext = x
        BY <3>3, ZenonT(40) DEF Ordered
      <4>2. y # e /\ y # p
        BY <4>1, <2>2, <1>2, <3>3, ZenonT(40)
      <4> QED BY <3>1, <3>3, <4>1, <4>2, <1>5
    <3> QED BY <3>2, <3>3, ZenonT(40)
  <2> QED BY <2>1, <2>2, ZenonT(40)
<1>9. g.head # Nil => g.head \in V /\ g.entry[g.head].stalePrev = Nil
  <2>1. CASE h.head = e
    BY <2>1, <1>1, <1>5, <1>6, ZenonT(40)
  <2>2. CASE h.head # e
    <3>1. h.head # Nil => h.head \in V /\ h.entry[h.head].stalePrev = Nil /\ h.head # n
      BY <2>2, <1>0, <1>1, ZenonT(40) DEF Ordered
    <3> QED BY <2>2, <3>1, <1>5
  <2> QED BY <2>1, <2>2, ZenonT(40)
<1>10. g.tail # Nil => g.tail \in V /\ g.entry[g.tail].staleNext = Nil
  <2>1. CASE h.tail = e
    BY <2>1, <1>2, <1>5, <1>6, ZenonT(40)
  <2>2. CASE h.tail # e
    <3>1. h.tail # Nil => h.tail \in V /\ h.entry[h.tail].staleNext = Nil /\ h.tail # p
      BY <2>2, <1>0, <1>2, ZenonT(40) DEF Ordered
    <3> QED BY <2>2, <3>1, <1>5
  <2> QED BY <2>1, <2>2, ZenonT(40)
<1>11. g.head = Nil <=> g.tail = Nil
  <2>1. h.head = Nil <=> h.tail = Nil
    BY ZenonT(40) DEF Ordered
  <2> QED BY <2>1, <1>0, <1>5, <1>6, ZenonT(40)
<1>12. /\ \A x \in V : s[x] <= m
       /\ \A x, y \in V : s[x] <= s[y] => g.entry[x].staleTime <= g.entry[y].staleTime
  BY <1>5 DEF Ordered
<1>13. Ordered(g, V, s, m)
  BY <1>7, <1>8, <1>9, <1>10, <1>11, <1>12, ZenonT(40) DEF Ordered
<1> QED BY <1>4, <1>13, ZenonT(40) DEF g

\* Appending an entry that is stale after the others keeps the list a list.
LEMMA ListOrdered ==
  ASSUME Basics, NEW h \in Heap, NEW W \in SUBSET Entries, NEW s \in [Entries -> Nat], NEW m \in Nat,
         Ordered(h, W, s, m), NEW e \in Entries, e \notin W, now \in 0..MaxTime,
         \A x \in W : h.entry[x].staleTime <= now + Timeout
  PROVE  /\ Lists(h, StaleAdd(h, e), e)
         /\ Ordered(StaleAdd(h, e), W \cup {e}, [s EXCEPT ![e] = m + 1], m + 1)
<1> DEFINE t == h.tail
           g == StaleAdd(h, e)
           V == W \cup {e}
           q == [s EXCEPT ![e] = m + 1]
<1>0. e # Nil /\ \A x \in W : x # Nil /\ x # e /\ x \in Entries
  BY NilNoEntry, ZenonT(40)
<1>1. t # e
  BY <1>0, ZenonT(40) DEF Ordered
<1>2. Lists(h, g, e)
  BY <1>1, StaleAddFacts, ZenonT(40)
<1> HIDE DEF g
<1>3. /\ g.head = IF h.head = Nil THEN e ELSE h.head
      /\ g.tail = e
      /\ \A x \in Entries :
           /\ g.entry[x].staleNext = IF x = e THEN Nil
                                     ELSE IF x = t /\ h.head # Nil THEN e
                                     ELSE h.entry[x].staleNext
           /\ g.entry[x].stalePrev = IF x = e THEN t ELSE h.entry[x].stalePrev
           /\ g.entry[x].staleTime = IF x = e THEN now + Timeout ELSE h.entry[x].staleTime
  BY <1>2, ZenonT(40) DEF Lists
<1>4. W # {} => h.head # Nil
  BY HeadFirst, ZenonT(40)
<1>5. h.head = Nil <=> t = Nil
  BY ZenonT(40) DEF Ordered
<1>6. t # Nil => t \in W /\ h.entry[t].staleNext = Nil
  BY ZenonT(40) DEF Ordered
<1>7. q[e] = m + 1 /\ \A x \in W : q[x] = s[x] /\ s[x] \in Nat /\ s[x] <= m
  BY <1>0, ZenonT(40) DEF Ordered
<1> HIDE DEF q, t
<1>8. \A x \in V : LET y == g.entry[x].staleNext
                   IN  IF y = Nil THEN g.tail = x
                       ELSE y \in V /\ g.entry[y].stalePrev = x /\ q[x] < q[y]
  <2> SUFFICES ASSUME NEW x \in V
               PROVE  LET y == g.entry[x].staleNext
                      IN  IF y = Nil THEN g.tail = x
                          ELSE y \in V /\ g.entry[y].stalePrev = x /\ q[x] < q[y]
    BY ZenonT(40)
  <2>1. CASE x = e
    BY <2>1, <1>3, ZenonT(40)
  <2>2. CASE x # e /\ x = t
    BY <2>2, <1>0, <1>3, <1>4, <1>7
  <2>3. CASE x # e /\ x # t
    <3> DEFINE y == h.entry[x].staleNext
    <3>1. x \in W /\ g.entry[x].staleNext = y
      BY <2>3, <1>0, <1>3, ZenonT(40)
    <3>2. y # Nil /\ y \in W /\ h.entry[y].stalePrev = x /\ s[x] < s[y]
      BY <2>3, <3>1, ZenonT(40) DEF Ordered, t
    <3> QED BY <3>1, <3>2, <1>0, <1>3, <1>7
  <2> QED BY <2>1, <2>2, <2>3, ZenonT(40)
<1>9. \A x \in V : LET y == g.entry[x].stalePrev
                   IN  IF y = Nil THEN g.head = x ELSE y \in V /\ g.entry[y].staleNext = x
  <2> SUFFICES ASSUME NEW x \in V
               PROVE  LET y == g.entry[x].stalePrev
                      IN  IF y = Nil THEN g.head = x ELSE y \in V /\ g.entry[y].staleNext = x
    BY ZenonT(40)
  <2>1. CASE x = e
    BY <2>1, <1>0, <1>3, <1>5, <1>6, ZenonT(40)
  <2>2. CASE x # e
    <3> DEFINE y == h.entry[x].stalePrev
    <3>1. x \in W /\ g.entry[x].stalePrev = y
      BY <2>2, <1>0, <1>3, ZenonT(40)
    <3>2. CASE y = Nil
      <4>1. h.head = x
        BY <3>1, <3>2, ZenonT(40) DEF Ordered
      <4> QED BY <3>1, <3>2, <4>1, <1>0, <1>3, ZenonT(40)
    <3>3. CASE y # Nil
      <4>1. y \in W /\ h.entry[y].staleNext = x
        BY <3>1, <3>3, ZenonT(40) DEF Ordered
      <4>2. y # t
        BY <4>1, <3>1, <3>3, <1>0, <1>6, ZenonT(40)
      <4> QED BY <3>1, <3>3, <4>1, <4>2, <1>0, <1>3
    <3> QED BY <3>2, <3>3, ZenonT(40)
  <2> QED BY <2>1, <2>2, ZenonT(40)
<1>10. g.head # Nil /\ g.head \in V /\ g.entry[g.head].stalePrev = Nil
  <2>1. CASE h.head = Nil
    BY <2>1, <1>0, <1>3, <1>5, ZenonT(40)
  <2>2. CASE h.head # Nil
    <3>1. h.head \in W /\ h.entry[h.head].stalePrev = Nil
      BY <2>2, ZenonT(40) DEF Ordered
    <3> QED BY <2>2, <3>1, <1>0, <1>3, ZenonT(40)
  <2> QED BY <2>1, <2>2, ZenonT(40)
<1>11. g.tail # Nil /\ g.tail \in V /\ g.entry[g.tail].staleNext = Nil
  BY <1>0, <1>3, ZenonT(40)
<1>12. \A x \in V : q[x] <= m + 1
  BY <1>7
<1>13. \A x, y \in V : q[x] <= q[y] => g.entry[x].staleTime <= g.entry[y].staleTime
  <2> SUFFICES ASSUME NEW x \in V, NEW y \in V, q[x] <= q[y]
               PROVE  g.entry[x].staleTime <= g.entry[y].staleTime
    BY ZenonT(40)
  <2>0. now + Timeout \in Int
    BY TimesAssumption
  <2>1. CASE x \in W /\ y \in W
    BY <2>1, <1>0, <1>3, <1>7 DEF Ordered
  <2>2. CASE y = e
    BY <2>0, <2>2, <1>0, <1>3
  <2>3. CASE x = e /\ y # e
    BY <2>3, <1>7
  <2> QED BY <2>1, <2>2, <2>3, ZenonT(40)
<1>14. Ordered(g, V, q, m + 1)
  BY <1>8, <1>9, <1>10, <1>11, <1>12, <1>13, ZenonT(40) DEF Ordered
<1> QED BY <1>2, <1>14, ZenonT(40) DEF g, q

\* Removing an entry from its chain leaves chains of the others.
LEMMA CutLinked ==
  ASSUME NEW h \in Heap, NEW L \in SUBSET Entries, NEW r \in [Entries -> Nat],
         Linked(h, L, r), NEW e \in L
  PROVE  /\ Cuts(h, Remove(h, e), e)
         /\ Linked(Remove(h, e), L \ {e}, r)
<1> DEFINE n == h.entry[e].hashNext
           p == h.entry[e].hashPrev
           d == Home(h, e)
           g == Remove(h, e)
           V == L \ {e}
<1>0. e # Nil /\ e \in Entries /\ h.entry[e].key \in Keys
  BY NilNoEntry, ZenonT(40) DEF Linked
<1>1. n # Nil => /\ n \in V /\ h.entry[n].hashPrev = e /\ Home(h, n) = d
                 /\ r[e] < r[n]
  BY DEF Linked
<1>2. p # Nil => p \in V /\ h.entry[p].hashNext = e /\ Home(h, p) = d /\ r[p] < r[e]
  BY <1>0 DEF Linked
<1>3. p = Nil <=> h.entries[d] = e
  <2>1. d \in Buckets
    BY <1>0, ZenonT(40) DEF Home, Buckets
  <2> QED BY <2>1, <1>0 DEF Linked
<1>4. Cuts(h, g, e)
  BY <1>0, RemoveFacts, ZenonT(40)
<1> HIDE DEF g
<1>5. /\ \A b \in Buckets : g.entries[b] = IF p = Nil /\ b = d THEN n ELSE h.entries[b]
      /\ \A x \in Entries :
           /\ g.entry[x].key = h.entry[x].key /\ Home(g, x) = Home(h, x)
           /\ g.entry[x].hashNext = IF x = p THEN n ELSE h.entry[x].hashNext
           /\ g.entry[x].hashPrev = IF x = n THEN p ELSE h.entry[x].hashPrev
  BY <1>4, ZenonT(40) DEF Cuts, Home
<1>6. \A x \in L : h.entry[x].key \in Keys /\ Home(h, x) \in Buckets /\ x \in Entries /\ r[x] \in Nat
  BY DEF Linked, Home, Buckets
<1> HIDE DEF d
<1>7. /\ \A x \in V : g.entry[x].key \in Keys
      /\ \A x, y \in V : g.entry[x].key = g.entry[y].key => x = y
  BY <1>5, <1>6 DEF Linked
<1>8. \A x \in V : LET y == g.entry[x].hashNext
                   IN  y # Nil => /\ y \in V /\ g.entry[y].hashPrev = x
                                  /\ Home(g, y) = Home(g, x) /\ r[x] < r[y]
  <2> SUFFICES ASSUME NEW x \in V, g.entry[x].hashNext # Nil
               PROVE  LET y == g.entry[x].hashNext
                      IN  /\ y \in V /\ g.entry[y].hashPrev = x
                          /\ Home(g, y) = Home(g, x) /\ r[x] < r[y]
    BY ZenonT(40)
  <2>1. CASE x = p
    <3>1. g.entry[x].hashNext = n /\ n # Nil /\ p # Nil
      BY <2>1, <1>5, NilNoEntry, ZenonT(40)
    <3>2. g.entry[n].hashPrev = p
      BY <3>1, <1>1, <1>5, ZenonT(40)
    <3> QED BY <2>1, <3>1, <3>2, <1>1, <1>2, <1>5, <1>6
  <2>2. CASE x # p
    <3> DEFINE y == h.entry[x].hashNext
    <3>1. g.entry[x].hashNext = y /\ y # Nil
      BY <2>2, <1>5, ZenonT(40)
    <3>2. y \in L /\ h.entry[y].hashPrev = x /\ Home(h, y) = Home(h, x) /\ r[x] < r[y]
      BY <3>1, ZenonT(40) DEF Linked
    <3>3. y # e /\ y # n
      BY <3>1, <3>2, <2>2, <1>1, ZenonT(40)
    <3> QED BY <3>1, <3>2, <3>3, <1>5
  <2> QED BY <2>1, <2>2, ZenonT(40)
<1>9. \A x \in V : LET y == g.entry[x].hashPrev
                   IN  IF y = Nil THEN g.entries[Home(g, x)] = x
                       ELSE y \in V /\ g.entry[y].hashNext = x
  <2> SUFFICES ASSUME NEW x \in V
               PROVE  LET y == g.entry[x].hashPrev
                      IN  IF y = Nil THEN g.entries[Home(g, x)] = x
                          ELSE y \in V /\ g.entry[y].hashNext = x
    BY ZenonT(40)
  <2>1. CASE x = n
    <3>1. g.entry[x].hashPrev = p /\ n # Nil /\ Home(g, x) = d /\ d \in Buckets
      BY <2>1, <1>1, <1>5, <1>6, NilNoEntry, ZenonT(40) DEF d
    <3>2. CASE p = Nil
      BY <2>1, <3>1, <3>2, <1>5, ZenonT(40)
    <3>3. CASE p # Nil
      BY <2>1, <3>1, <3>3, <1>2, <1>5, ZenonT(40)
    <3> QED BY <3>2, <3>3, ZenonT(40)
  <2>2. CASE x # n
    <3> DEFINE y == h.entry[x].hashPrev
    <3>1. g.entry[x].hashPrev = y /\ Home(g, x) = Home(h, x) /\ Home(h, x) \in Buckets
      BY <2>2, <1>5, <1>6, ZenonT(40)
    <3>2. CASE y = Nil
      <4>1. h.entries[Home(h, x)] = x
        BY <3>2, ZenonT(40) DEF Linked
      <4>2. ~(p = Nil /\ Home(h, x) = d)
        BY <4>1, <1>3, ZenonT(40)
      <4> QED BY <3>1, <3>2, <4>1, <4>2, <1>5, ZenonT(40)
    <3>3. CASE y # Nil
      <4>1. y \in L /\ h.entry[y].hashNext = x
        BY <3>3, ZenonT(40) DEF Linked
      <4>2. y # e /\ y # p
        BY <4>1, <2>2, <1>2, <3>3, ZenonT(40)
      <4> QED BY <3>1, <3>3, <4>1, <4>2, <1>5
    <3> QED BY <3>2, <3>3, ZenonT(40)
  <2> QED BY <2>1, <2>2, ZenonT(40)
<1>10. \A b \in Buckets : LET f == g.entries[b]
                          IN  f # Nil => f \in V /\ g.entry[f].hashPrev = Nil /\ Home(g, f) = b
  <2> SUFFICES ASSUME NEW b \in Buckets, g.entries[b] # Nil
               PROVE  LET f == g.entries[b] IN f \in V /\ g.entry[f].hashPrev = Nil /\ Home(g, f) = b
    BY ZenonT(40)
  <2>1. CASE p = Nil /\ b = d
    BY <2>1, <1>1, <1>5, ZenonT(40)
  <2>2. CASE ~(p = Nil /\ b = d)
    <3> DEFINE f == h.entries[b]
    <3>1. g.entries[b] = f /\ f # Nil
      BY <2>2, <1>5, ZenonT(40)
    <3>2. f \in L /\ h.entry[f].hashPrev = Nil /\ Home(h, f) = b
      BY <3>1, ZenonT(40) DEF Linked
    <3>3. f # e /\ f # n
      BY <2>2, <3>1, <3>2, <1>0, <1>1, ZenonT(40) DEF d
    <3> QED BY <3>1, <3>2, <3>3, <1>5
  <2> QED BY <2>1, <2>2, ZenonT(40)
<1>11. Linked(g, V, r)
  BY <1>7, <1>8, <1>9, <1>10, ZenonT(40) DEF Linked
<1> QED BY <1>4, <1>11, ZenonT(40) DEF g

\* A new entry becomes the head of its chain.
LEMMA InsertLinked ==
  ASSUME NEW h \in Heap, NEW L \in SUBSET Entries, NEW r \in [Entries -> Nat], Linked(h, L, r),
         NEW e \in Entries, e \notin L, e = New(h), NEW k \in Keys, NEW a \in Acts,
         \A x \in L : h.entry[x].key # k
  PROVE  /\ Inserts(h, Insert(h, k, a), e, k, a)
         /\ Linked(Insert(h, k, a), L \cup {e}, [x \in Entries |-> IF x = e THEN 0 ELSE r[x] + 1])
<1> DEFINE d == Bucket[k]
           first == h.entries[d]
           g == Insert(h, k, a)
           V == L \cup {e}
           q == [x \in Entries |-> IF x = e THEN 0 ELSE r[x] + 1]
<1>0. e # Nil /\ d \in Buckets /\ \A x \in L : x # Nil /\ x # e /\ x \in Entries
  BY NilNoEntry, ZenonT(40) DEF Buckets
<1>1. first # Nil => first \in L /\ h.entry[first].hashPrev = Nil /\ Home(h, first) = d
  BY <1>0, ZenonT(40) DEF Linked
<1>2. Inserts(h, g, e, k, a)
  BY <1>0, <1>1, InsertFacts, ZenonT(40)
<1> HIDE DEF g
<1>3. /\ \A b \in Buckets : g.entries[b] = IF b = d THEN e ELSE h.entries[b]
      /\ \A x \in Entries :
           /\ g.entry[x].key = IF x = e THEN k ELSE h.entry[x].key
           /\ g.entry[x].hashNext = IF x = e THEN first ELSE h.entry[x].hashNext
           /\ g.entry[x].hashPrev = IF x = e THEN Nil ELSE IF x = first THEN e ELSE h.entry[x].hashPrev
  BY <1>2, ZenonT(40) DEF Inserts
<1>4. Home(g, e) = d /\ \A x \in L : Home(g, x) = Home(h, x) /\ Home(h, x) \in Buckets
  BY <1>0, <1>3 DEF Home, Linked, Buckets
<1>5. q[e] = 0 /\ \A x \in L : q[x] = r[x] + 1 /\ r[x] \in Nat
  BY <1>0, ZenonT(40)
<1> HIDE DEF q, d, first
<1>6. /\ \A x \in V : g.entry[x].key \in Keys
      /\ \A x, y \in V : g.entry[x].key = g.entry[y].key => x = y
  BY <1>0, <1>3 DEF Linked
<1>7. \A x \in V : LET y == g.entry[x].hashNext
                   IN  y # Nil => /\ y \in V /\ g.entry[y].hashPrev = x
                                  /\ Home(g, y) = Home(g, x) /\ q[x] < q[y]
  <2> SUFFICES ASSUME NEW x \in V, g.entry[x].hashNext # Nil
               PROVE  LET y == g.entry[x].hashNext
                      IN  /\ y \in V /\ g.entry[y].hashPrev = x
                          /\ Home(g, y) = Home(g, x) /\ q[x] < q[y]
    BY ZenonT(40)
  <2>1. CASE x = e
    <3>1. g.entry[x].hashNext = first /\ first # Nil
      BY <2>1, <1>3, ZenonT(40)
    <3> QED BY <2>1, <3>1, <1>0, <1>1, <1>3, <1>4, <1>5
  <2>2. CASE x # e
    <3> DEFINE y == h.entry[x].hashNext
    <3>1. x \in L /\ g.entry[x].hashNext = y /\ y # Nil
      BY <2>2, <1>0, <1>3, ZenonT(40)
    <3>2. y \in L /\ h.entry[y].hashPrev = x /\ Home(h, y) = Home(h, x) /\ r[x] < r[y]
      BY <3>1, ZenonT(40) DEF Linked
    <3>3. y # e /\ y # first
      BY <3>1, <3>2, <1>0, <1>1, ZenonT(40)
    <3> QED BY <3>1, <3>2, <3>3, <1>0, <1>3, <1>4, <1>5
  <2> QED BY <2>1, <2>2, ZenonT(40)
<1>8. \A x \in V : LET y == g.entry[x].hashPrev
                   IN  IF y = Nil THEN g.entries[Home(g, x)] = x
                       ELSE y \in V /\ g.entry[y].hashNext = x
  <2> SUFFICES ASSUME NEW x \in V
               PROVE  LET y == g.entry[x].hashPrev
                      IN  IF y = Nil THEN g.entries[Home(g, x)] = x
                          ELSE y \in V /\ g.entry[y].hashNext = x
    BY ZenonT(40)
  <2>1. CASE x = e
    BY <2>1, <1>0, <1>3, <1>4, ZenonT(40)
  <2>2. CASE x # e /\ x = first
    BY <2>2, <1>0, <1>3, ZenonT(40)
  <2>3. CASE x # e /\ x # first
    <3> DEFINE y == h.entry[x].hashPrev
    <3>1. x \in L /\ g.entry[x].hashPrev = y
      BY <2>3, <1>0, <1>3, ZenonT(40)
    <3>2. CASE y = Nil
      <4>1. h.entries[Home(h, x)] = x
        BY <3>1, <3>2, ZenonT(40) DEF Linked
      <4>2. Home(h, x) # d
        BY <4>1, <2>3, ZenonT(40) DEF first
      <4> QED BY <3>1, <3>2, <4>1, <4>2, <1>3, <1>4
    <3>3. CASE y # Nil
      <4>1. y \in L /\ h.entry[y].hashNext = x
        BY <3>1, <3>3, ZenonT(40) DEF Linked
      <4> QED BY <3>1, <3>3, <4>1, <1>0, <1>3
    <3> QED BY <3>2, <3>3, ZenonT(40)
  <2> QED BY <2>1, <2>2, <2>3, ZenonT(40)
<1>9. \A b \in Buckets : LET f == g.entries[b]
                         IN  f # Nil => f \in V /\ g.entry[f].hashPrev = Nil /\ Home(g, f) = b
  <2> SUFFICES ASSUME NEW b \in Buckets, g.entries[b] # Nil
               PROVE  LET f == g.entries[b] IN f \in V /\ g.entry[f].hashPrev = Nil /\ Home(g, f) = b
    BY ZenonT(40)
  <2>1. CASE b = d
    BY <2>1, <1>3, <1>4, ZenonT(40)
  <2>2. CASE b # d
    <3> DEFINE f == h.entries[b]
    <3>1. g.entries[b] = f /\ f # Nil
      BY <2>2, <1>3, ZenonT(40)
    <3>2. f \in L /\ h.entry[f].hashPrev = Nil /\ Home(h, f) = b
      BY <3>1, ZenonT(40) DEF Linked
    <3>3. f # e /\ f # first
      BY <2>2, <3>1, <3>2, <1>0, <1>1, ZenonT(40)
    <3> QED BY <3>1, <3>2, <3>3, <1>0, <1>3, <1>4
  <2> QED BY <2>1, <2>2, ZenonT(40)
<1>10. Linked(g, V, q)
  BY <1>6, <1>7, <1>8, <1>9, ZenonT(40) DEF Linked
<1> QED BY <1>2, <1>10, ZenonT(40) DEF g, q

(***************************************************************************)
(* What the walks of the code find in a heap of this shape                 *)
(***************************************************************************)
Shaped(h, L, W, r, s, m) ==
  /\ h \in Heap /\ L \in SUBSET Entries /\ W \in SUBSET L
  /\ r \in [Entries -> Nat] /\ s \in [Entries -> Nat] /\ m \in Nat
  /\ Linked(h, L, r) /\ Ordered(h, W, s, m)
  /\ \A e \in L : e \in W <=> h.entry[e].transient
  /\ \A e \in L \ W : h.entry[e].staleNext = Nil /\ h.entry[e].stalePrev = Nil
Fit(h, L, W) == \E r, s \in [Entries -> Nat], m \in Nat : Shaped(h, L, W, r, s, m)

\* The chains hold L.
LEMMA PresentIsLinked ==
  ASSUME Basics, NEW h, NEW L \in SUBSET Entries, NEW r \in [Entries -> Nat], Linked(h, L, r)
  PROVE  Present(h) = L
<1> DEFINE roots == {h.entries[b] : b \in Buckets}
           step == [e \in Entries |-> {h.entry[e].hashNext}]
<1>0. \A e \in L : e \in Entries /\ e # Nil /\ step[e] = {h.entry[e].hashNext} /\ Home(h, e) \in Buckets
  BY NilNoEntry DEF Linked, Home, Buckets
<1>1. ASSUME NEW e \in L
      PROVE  e \in roots \/ \E p \in L : r[p] < r[e] /\ e \in step[p]
  <2>1. CASE h.entry[e].hashPrev = Nil
    BY <2>1, <1>0 DEF Linked
  <2>2. CASE h.entry[e].hashPrev # Nil
    <3> DEFINE p == h.entry[e].hashPrev
    <3>1. p \in L /\ h.entry[p].hashNext = e
      BY <2>2, ZenonT(40) DEF Linked
    <3>2. r[p] < r[e]
      BY <3>1, <1>0, ZenonT(40) DEF Linked
    <3> QED BY <3>1, <3>2, <1>0, ZenonT(40)
  <2> QED BY <2>1, <2>2, ZenonT(40)
<1>2. roots \ {Nil} \subseteq L
  BY DEF Linked
<1>3. \A x \in L : step[x] \ {Nil} \subseteq L
  BY <1>0 DEF Linked
<1>4. Present(h) = {e \in Entries : Meets(roots, step, e)}
  BY ZenonT(40) DEF Present, Visited
<1> HIDE DEF roots, step
<1>5. \A e \in L : Meets(roots, step, e)
  BY <1>1, Reached, ZenonT(40)
<1>6. \A e \in Entries : Meets(roots, step, e) => e \in L
  BY <1>2, <1>3, Enclosed, ZenonT(40)
<1> QED BY <1>4, <1>5, <1>6, ZenonT(40)

\* The stale list holds W.
LEMMA ListedIsOrdered ==
  ASSUME Basics, NEW h, NEW W \in SUBSET Entries, NEW s \in [Entries -> Nat], NEW m, Ordered(h, W, s, m)
  PROVE  Visited({h.head}, [e \in Entries |-> {h.entry[e].staleNext}]) = W
<1> DEFINE roots == {h.head}
           step == [e \in Entries |-> {h.entry[e].staleNext}]
<1>0. \A e \in W : e \in Entries /\ e # Nil /\ step[e] = {h.entry[e].staleNext}
  BY NilNoEntry, ZenonT(40)
<1>1. ASSUME NEW e \in W
      PROVE  e \in roots \/ \E p \in W : s[p] < s[e] /\ e \in step[p]
  <2>1. CASE h.entry[e].stalePrev = Nil
    BY <2>1, ZenonT(40) DEF Ordered
  <2>2. CASE h.entry[e].stalePrev # Nil
    <3> DEFINE p == h.entry[e].stalePrev
    <3>1. p \in W /\ h.entry[p].staleNext = e
      BY <2>2, ZenonT(40) DEF Ordered
    <3>2. s[p] < s[e]
      BY <3>1, <1>0, ZenonT(40) DEF Ordered
    <3> QED BY <3>1, <3>2, <1>0, ZenonT(40)
  <2> QED BY <2>1, <2>2, ZenonT(40)
<1>2. roots \ {Nil} \subseteq W
  BY ZenonT(40) DEF Ordered
<1>3. \A x \in W : step[x] \ {Nil} \subseteq W
  BY <1>0 DEF Ordered
<1>4. Visited({h.head}, step) = {e \in Entries : Meets(roots, step, e)}
  BY ZenonT(40) DEF Visited
<1> HIDE DEF roots
<1>5. \A e \in W : Meets(roots, step, e)
  <2> HIDE DEF step
  <2> QED BY <1>1, Reached, ZenonT(40)
<1>6. \A e \in Entries : Meets(roots, step, e) => e \in W
  <2> HIDE DEF step
  <2> QED BY <1>2, <1>3, Enclosed, ZenonT(40)
<1> HIDE DEF step
<1>7. Visited({h.head}, step) = W
  BY <1>4, <1>5, <1>6, ZenonT(40)
<1> QED BY <1>7, ZenonT(40) DEF step

\* A key's walk ends at the entry with the key, if there is one.
LEMMA FoundIsKeyed ==
  ASSUME Basics, NEW h, NEW L \in SUBSET Entries, NEW r \in [Entries -> Nat], Linked(h, L, r), NEW k \in Keys
  PROVE  Found(h, k) = {e \in L : h.entry[e].key = k}
<1> DEFINE roots == {h.entries[Bucket[k]]}
           step == [x \in Entries |-> IF h.entry[x].key = k THEN {} ELSE {h.entry[x].hashNext}]
<1>0. Bucket[k] \in Buckets
  BY ZenonT(40) DEF Buckets
<1>1. \A x \in L : x \in Entries /\ x # Nil /\ r[x] \in Nat
      /\ step[x] = IF h.entry[x].key = k THEN {} ELSE {h.entry[x].hashNext}
  BY NilNoEntry, ZenonT(40)
<1>2. roots \ {Nil} \subseteq L
  BY <1>0 DEF Linked
<1>3. \A x \in L : step[x] \ {Nil} \subseteq L
  BY <1>1 DEF Linked
<1>4. Found(h, k) = {e \in Entries : h.entry[e].key = k /\ Meets(roots, step, e)}
  BY ZenonT(40) DEF Found
<1>5. \A e \in Entries : Meets(roots, step, e) => e \in L
  <2> HIDE DEF roots, step
  <2> QED BY <1>2, <1>3, Enclosed, ZenonT(40)
<1>6. ASSUME NEW e \in L, h.entry[e].key = k
      PROVE  Meets(roots, step, e)
  <2> DEFINE M == {x \in L : Home(h, x) = Home(h, e) /\ r[x] <= r[e]}
  <2>1. ASSUME NEW x \in M
        PROVE  x \in roots \/ \E p \in M : r[p] < r[x] /\ x \in step[p]
    <3>0. x \in L /\ Home(h, x) = Home(h, e) /\ r[x] <= r[e] /\ x # Nil
      BY <1>1, ZenonT(40)
    <3>1. CASE h.entry[x].hashPrev = Nil
      BY <3>1, <1>6 DEF Linked, Home
    <3>2. CASE h.entry[x].hashPrev # Nil
      <4> DEFINE p == h.entry[x].hashPrev
      <4>1. p \in L /\ h.entry[p].hashNext = x
        BY <3>0, <3>2, ZenonT(40) DEF Linked
      <4>2. r[p] < r[x] /\ Home(h, p) = Home(h, x)
        <5> HIDE DEF M, step, roots
        <5> QED BY <3>0, <4>1, ZenonT(40) DEF Linked
      <4>3. p \in M /\ p # e
        BY <4>1, <4>2, <1>1
      <4>4. h.entry[p].key # k
        BY <4>1, <4>3, <1>6, ZenonT(40) DEF Linked
      <4>5. x \in step[p]
        BY <4>1, <4>4, <1>1, ZenonT(40)
      <4> HIDE DEF M, step, p
      <4> QED BY <4>2, <4>3, <4>5, ZenonT(40)
    <3> QED BY <3>1, <3>2, ZenonT(40)
  <2>2. M \in SUBSET Entries
    BY <1>1, ZenonT(40)
  <2>3. e \in M
    BY <1>1
  <2> HIDE DEF roots, step, M
  <2>4. \A x \in M : Meets(roots, step, x)
    BY <2>1, <2>2, Reached, ZenonT(40)
  <2> QED BY <2>3, <2>4, ZenonT(40)
<1> HIDE DEF roots, step
<1> QED BY <1>1, <1>4, <1>5, <1>6, ZenonT(40)

LEMMA FindFacts ==
  ASSUME Basics, NEW h, NEW L \in SUBSET Entries, NEW r \in [Entries -> Nat], Linked(h, L, r), NEW k \in Keys
  PROVE  /\ Find(h, k) = Nil => \A e \in L : h.entry[e].key # k
         /\ Find(h, k) # Nil => Find(h, k) \in L /\ h.entry[Find(h, k)].key = k
<1>1. Found(h, k) = {e \in L : h.entry[e].key = k}
  BY FoundIsKeyed
<1>2. CASE Found(h, k) = {}
  BY <1>1, <1>2, NilNoEntry, ZenonT(40) DEF Find
<1>3. CASE Found(h, k) # {}
  <2>1. Find(h, k) \in Found(h, k)
    BY <1>3, ZenonT(40) DEF Find
  <2> QED BY <1>1, <2>1, NilNoEntry, ZenonT(40)
<1> QED BY <1>2, <1>3, ZenonT(40)

\* Collected keeps the entries of the chains and frees all others.
Collects(h, g, L) ==
  /\ g \in Heap /\ g.entries = h.entries /\ g.head = h.head /\ g.tail = h.tail /\ g.held = h.held
  /\ \A x \in Entries : g.entry[x] = IF x \in L THEN h.entry[x] ELSE Blank

Anchors(h) == {h.entries[b] : b \in Buckets} \cup {h.head, h.tail}
Links(h) == [e \in Entries |-> {h.entry[e].hashNext, h.entry[e].hashPrev,
                                h.entry[e].staleNext, h.entry[e].stalePrev}]

LEMMA CollectedFacts ==
  ASSUME NEW h \in Heap
  PROVE  Collects(h, Collected(h), Visited(Anchors(h), Links(h)))
<1> DEFINE V == Visited(Anchors(h), Links(h))
           u == [e \in Entries |-> IF e \in V THEN h.entry[e] ELSE Blank]
<1>1. Collected(h) = [h EXCEPT !.entry = u]
  BY ZenonT(40) DEF Collected, Anchors, Links
<1> HIDE DEF V
<1>2. u \in [Entries -> EntryType]
  BY BlankType, ZenonT(40) DEF Heap
<1>3. \A x \in Entries : u[x] = IF x \in V THEN h.entry[x] ELSE Blank
  BY ZenonT(40)
<1> HIDE DEF u
<1>4. Collects(h, [h EXCEPT !.entry = u], V)
  BY <1>2, <1>3, ZenonT(40) DEF Heap, Collects
<1> QED BY <1>1, <1>4, ZenonT(40) DEF V

LEMMA CollectedIsLinked ==
  ASSUME Basics, NEW h, NEW L, NEW W, NEW r, NEW s, NEW m, Shaped(h, L, W, r, s, m)
  PROVE  Collects(h, Collected(h), L)
<1>0. /\ h \in Heap /\ L \in SUBSET Entries /\ W \in SUBSET L /\ r \in [Entries -> Nat]
      /\ Linked(h, L, r) /\ Ordered(h, W, s, m)
      /\ \A e \in L \ W : h.entry[e].staleNext = Nil /\ h.entry[e].stalePrev = Nil
  BY ZenonT(40) DEF Shaped
<1>1. \A e \in L : /\ e \in Entries /\ e # Nil /\ Home(h, e) \in Buckets
                   /\ Links(h)[e] = {h.entry[e].hashNext, h.entry[e].hashPrev,
                                     h.entry[e].staleNext, h.entry[e].stalePrev}
  BY <1>0, NilNoEntry DEF Linked, Home, Buckets, Links
<1>2. ASSUME NEW e \in L
      PROVE  e \in Anchors(h) \/ \E p \in L : r[p] < r[e] /\ e \in Links(h)[p]
  <2>1. CASE h.entry[e].hashPrev = Nil
    BY <2>1, <1>0, <1>1 DEF Linked, Anchors
  <2>2. CASE h.entry[e].hashPrev # Nil
    <3> DEFINE p == h.entry[e].hashPrev
    <3>1. p \in L /\ h.entry[p].hashNext = e
      BY <2>2, <1>0, ZenonT(40) DEF Linked
    <3>2. r[p] < r[e]
      BY <3>1, <1>0, <1>1, ZenonT(40) DEF Linked
    <3> QED BY <3>1, <3>2, <1>1, ZenonT(40)
  <2> QED BY <2>1, <2>2, ZenonT(40)
<1>3. Anchors(h) \ {Nil} \subseteq L
  BY <1>0 DEF Anchors, Linked, Ordered
<1>4. ASSUME NEW x \in L
      PROVE  Links(h)[x] \ {Nil} \subseteq L
  <2>1. /\ h.entry[x].hashNext \in L \cup {Nil}
        /\ h.entry[x].hashPrev \in L \cup {Nil}
    BY <1>0, ZenonT(40) DEF Linked
  <2>2. /\ h.entry[x].staleNext \in L \cup {Nil}
        /\ h.entry[x].stalePrev \in L \cup {Nil}
    BY <1>0, ZenonT(40) DEF Ordered
  <2> QED BY <2>1, <2>2, <1>1
<1>5. \A e \in L : Meets(Anchors(h), Links(h), e)
  BY <1>0, <1>2, Reached, ZenonT(40)
<1>6. \A e \in Entries : Meets(Anchors(h), Links(h), e) => e \in L
  BY <1>0, <1>3, <1>4, Enclosed, ZenonT(40)
<1>7. Visited(Anchors(h), Links(h)) = L
  BY <1>0, <1>5, <1>6, ZenonT(40) DEF Visited
<1> QED BY <1>0, <1>7, CollectedFacts, ZenonT(40)

(***************************************************************************)
(* What the requests make of a heap of this shape                          *)
(***************************************************************************)
\* The data of the entries in X are those they had.
Keeps(h, g, X) ==
  \A x \in X : /\ g.entry[x].key = h.entry[x].key
               /\ g.entry[x].actions = h.entry[x].actions
               /\ g.entry[x].transient = h.entry[x].transient
               /\ g.entry[x].staleTime = h.entry[x].staleTime

\* An entry has new actions; is new; is on the list from now on; is gone.
Refitted(h, g, L, W, e, a) ==
  /\ Fit(g, L, W) /\ g.held = h.held
  /\ g.entry[e].key = h.entry[e].key /\ g.entry[e].actions = a
  /\ g.entry[e].transient = h.entry[e].transient
  /\ Keeps(h, g, L \ {e})
  /\ \A x \in L : g.entry[x].staleTime = h.entry[x].staleTime
Entered(h, g, L, W, e, k, a) ==
  /\ e \in Entries /\ e \notin L
  /\ Fit(g, L \cup {e}, W) /\ g.held = h.held + 1
  /\ g.entry[e].key = k /\ g.entry[e].actions = a /\ ~g.entry[e].transient
  /\ Keeps(h, g, L)
Queued(h, g, L, W, e) ==
  /\ Fit(g, L, W \cup {e}) /\ g.held = h.held
  /\ g.entry[e].staleTime = now + Timeout /\ g.entry[e].transient
  /\ g.entry[e].key = h.entry[e].key /\ g.entry[e].actions = h.entry[e].actions
  /\ Keeps(h, g, L \ {e})
Dropped(h, g, L, W, e) ==
  /\ Fit(g, L \ {e}, W \ {e}) /\ g.held = h.held - 1
  /\ Keeps(h, g, L \ {e})

\* Updated changes the actions of an entry, and Watch marks one as transient.
Acted(h, g, e, a) ==
  /\ g \in Heap /\ SameHash(h, g) /\ SameStale(h, g, Entries)
  /\ \A x \in Entries : /\ g.entry[x].actions = IF x = e THEN a ELSE h.entry[x].actions
                        /\ g.entry[x].transient = h.entry[x].transient
Marked(h, g, e) ==
  /\ g \in Heap /\ SameHash(h, g) /\ SameStale(h, g, Entries)
  /\ \A x \in Entries : /\ g.entry[x].actions = h.entry[x].actions
                        /\ g.entry[x].transient = IF x = e THEN TRUE ELSE h.entry[x].transient

LEMMA UpdatedFacts ==
  ASSUME NEW h \in Heap, NEW e \in Entries, NEW a \in Acts
  PROVE  Acted(h, Updated(h, e, a), e, a)
<1> DEFINE v == [h.entry[e] EXCEPT !.actions = a]
           g == Updated(h, e, a)
<1>1. h.entry[e] \in EntryType
  BY ZenonT(40) DEF Heap
<1>2. v \in EntryType
  BY <1>1, ZenonT(40) DEF EntryType
<1>3. g = [h EXCEPT !.entry[e] = v]
  BY ZenonT(40) DEF Updated
<1>4. /\ v.key = h.entry[e].key /\ v.actions = a
      /\ v.hashNext = h.entry[e].hashNext /\ v.hashPrev = h.entry[e].hashPrev
      /\ v.staleTime = h.entry[e].staleTime /\ v.staleNext = h.entry[e].staleNext
      /\ v.stalePrev = h.entry[e].stalePrev /\ v.transient = h.entry[e].transient
  BY <1>1, ZenonT(40) DEF EntryType
<1> HIDE DEF v, g
<1>5. Puts(h, g, e, v)
  BY <1>2, <1>3, PutEntry, ZenonT(40)
<1>6. Acted(h, g, e, a)
  BY <1>4, <1>5, ZenonT(40) DEF Puts, Acted, SameHash, SameStale
<1> QED BY <1>6, ZenonT(40) DEF g

LEMMA MarkFacts ==
  ASSUME NEW h \in Heap, NEW e \in Entries
  PROVE  Marked(h, [h EXCEPT !.entry[e].transient = TRUE], e)
<1> DEFINE v == [h.entry[e] EXCEPT !.transient = TRUE]
           g == [h EXCEPT !.entry[e].transient = TRUE]
<1>1. h.entry[e] \in EntryType
  BY ZenonT(40) DEF Heap
<1>2. v \in EntryType
  BY <1>1, ZenonT(40) DEF EntryType
<1>3. g = [h EXCEPT !.entry[e] = v]
  BY ZenonT(40)
<1>4. /\ v.key = h.entry[e].key /\ v.actions = h.entry[e].actions
      /\ v.hashNext = h.entry[e].hashNext /\ v.hashPrev = h.entry[e].hashPrev
      /\ v.staleTime = h.entry[e].staleTime /\ v.staleNext = h.entry[e].staleNext
      /\ v.stalePrev = h.entry[e].stalePrev /\ v.transient = TRUE
  BY <1>1, ZenonT(40) DEF EntryType
<1> HIDE DEF v, g
<1>5. Puts(h, g, e, v)
  BY <1>2, <1>3, PutEntry, ZenonT(40)
<1>6. Marked(h, g, e)
  BY <1>4, <1>5, ZenonT(40) DEF Puts, Marked, SameHash, SameStale
<1> QED BY <1>6, ZenonT(40) DEF g

\* An entry is moved to the end of the stale list.
LEMMA UseShaped ==
  ASSUME Basics, NEW h, NEW L, NEW W, Fit(h, L, W), NEW e \in W, now \in 0..MaxTime,
         \A x \in W : h.entry[x].staleTime <= now + Timeout,
         NEW j \in Heap, Marked(StaleRemove(h, e), j, e)
  PROVE  Queued(h, StaleAdd(j, e), L, W, e)
<1> DEFINE i == StaleRemove(h, e)
           g == StaleAdd(j, e)
<1>p. PICK r \in [Entries -> Nat], s \in [Entries -> Nat], m \in Nat : Shaped(h, L, W, r, s, m)
  BY ZenonT(40) DEF Fit
<1>0. /\ h \in Heap /\ L \in SUBSET Entries /\ W \in SUBSET L /\ r \in [Entries -> Nat]
      /\ s \in [Entries -> Nat] /\ m \in Nat /\ Linked(h, L, r) /\ Ordered(h, W, s, m)
      /\ \A x \in L : x \in W <=> h.entry[x].transient
      /\ \A x \in L \ W : h.entry[x].staleNext = Nil /\ h.entry[x].stalePrev = Nil
  BY <1>p, ZenonT(40) DEF Shaped
<1>1. W \in SUBSET Entries /\ e \in Entries /\ e \in L /\ W \ {e} \in SUBSET Entries
  BY <1>0, ZenonT(40)
<1>2. Unlists(h, i, e) /\ Ordered(i, W \ {e}, s, m)
  BY <1>0, <1>1, UnlistOrdered, ZenonT(40)
<1>m. Marked(i, j, e)
  BY ZenonT(40)
<1> HIDE DEF i
<1>3. /\ i \in Heap /\ SameHash(h, i) /\ SameData(h, i)
      /\ \A x \in Entries : i.entry[x].staleTime = h.entry[x].staleTime
  BY <1>2, ZenonT(40) DEF Unlists
<1>4. \A x \in L \ W : i.entry[x].staleNext = Nil /\ i.entry[x].stalePrev = Nil
  <2> SUFFICES ASSUME NEW x \in L \ W
               PROVE  i.entry[x].staleNext = Nil /\ i.entry[x].stalePrev = Nil
    BY ZenonT(40)
  <2> DEFINE n == h.entry[e].staleNext
             p == h.entry[e].stalePrev
  <2>1. (n # Nil => n \in W) /\ (p # Nil => p \in W) /\ x \in Entries /\ x # Nil
    BY <1>0, <1>1, NilNoEntry DEF Ordered
  <2>2. /\ i.entry[x].staleNext = IF x = p THEN n ELSE h.entry[x].staleNext
        /\ i.entry[x].stalePrev = IF x = n THEN p ELSE h.entry[x].stalePrev
    BY <1>2, <2>1, ZenonT(40) DEF Unlists
  <2>3. x # n /\ x # p
    BY <2>1
  <2> QED BY <2>2, <2>3, <1>0, ZenonT(40)
<1>5. /\ SameHash(i, j) /\ SameStale(i, j, Entries)
      /\ \A x \in Entries : /\ j.entry[x].actions = i.entry[x].actions
                            /\ j.entry[x].transient = IF x = e THEN TRUE ELSE i.entry[x].transient
  BY <1>m, ZenonT(40) DEF Marked
<1>6. Ordered(j, W \ {e}, s, m)
  <2>1. SameStale(i, j, W \ {e})
    BY <1>1, <1>5, ZenonT(40) DEF SameStale
  <2> QED BY <2>1, <1>1, <1>2, OrderedFrame, ZenonT(40)
<1>7. \A x \in Entries : j.entry[x].staleTime = h.entry[x].staleTime
  BY <1>3, <1>5, ZenonT(40) DEF SameStale
<1> DEFINE q == [s EXCEPT ![e] = m + 1]
<1>8. q \in [Entries -> Nat] /\ m + 1 \in Nat /\ (W \ {e}) \cup {e} = W
  BY <1>0
<1>9. Lists(j, g, e) /\ Ordered(g, (W \ {e}) \cup {e}, q, m + 1)
  <2>1. \A x \in W \ {e} : j.entry[x].staleTime <= now + Timeout
    BY <1>1, <1>7, ZenonT(40)
  <2> HIDE DEF q
  <2>2. /\ Lists(j, StaleAdd(j, e), e)
        /\ Ordered(StaleAdd(j, e), (W \ {e}) \cup {e}, [s EXCEPT ![e] = m + 1], m + 1)
    BY <2>1, <1>0, <1>1, <1>6, ListOrdered, ZenonT(40)
  <2> QED BY <2>2, ZenonT(40) DEF q
<1> HIDE DEF q, g
<1>10. Ordered(g, W, q, m + 1)
  BY <1>8, <1>9, ZenonT(40)
<1>11. /\ g \in Heap /\ SameHash(j, g) /\ SameData(j, g)
       /\ \A x \in Entries :
            g.entry[x].staleTime = IF x = e THEN now + Timeout ELSE j.entry[x].staleTime
  BY <1>9, ZenonT(40) DEF Lists
<1>12. SameHash(h, g)
  BY <1>3, <1>5, <1>11, ZenonT(40) DEF SameHash
<1>13. Linked(g, L, r)
  BY <1>0, <1>12, LinkedFrame, ZenonT(40)
<1>14. \A x \in Entries : /\ g.entry[x].actions = h.entry[x].actions
                          /\ g.entry[x].transient = IF x = e THEN TRUE ELSE h.entry[x].transient
                          /\ g.entry[x].key = h.entry[x].key
                          /\ g.entry[x].staleTime = IF x = e THEN now + Timeout ELSE h.entry[x].staleTime
  <2>1. \A x \in Entries : /\ g.entry[x].actions = h.entry[x].actions
                           /\ g.entry[x].transient = IF x = e THEN TRUE ELSE h.entry[x].transient
    BY <1>3, <1>5, <1>11, ZenonT(40) DEF SameData
  <2>2. \A x \in Entries : g.entry[x].key = h.entry[x].key
    BY <1>12, ZenonT(40) DEF SameHash
  <2>3. \A x \in Entries : g.entry[x].staleTime = IF x = e THEN now + Timeout ELSE h.entry[x].staleTime
    BY <1>7, <1>11, ZenonT(40)
  <2> QED BY <2>1, <2>2, <2>3, ZenonT(40)
<1>15. \A x \in L : x \in W <=> g.entry[x].transient
  BY <1>0, <1>1, <1>14, ZenonT(40)
<1>16. \A x \in L \ W : g.entry[x].staleNext = Nil /\ g.entry[x].stalePrev = Nil
  <2> SUFFICES ASSUME NEW x \in L \ W
               PROVE  g.entry[x].staleNext = Nil /\ g.entry[x].stalePrev = Nil
    BY ZenonT(40)
  <2>1. x \in Entries /\ x # e /\ x # Nil
    BY <1>0, NilNoEntry, ZenonT(40)
  <2>2. x # j.tail
    BY <1>6, <2>1, ZenonT(40) DEF Ordered
  <2>3. /\ g.entry[x].staleNext = j.entry[x].staleNext
        /\ g.entry[x].stalePrev = j.entry[x].stalePrev
    BY <1>9, <2>1, <2>2, ZenonT(40) DEF Lists
  <2>4. j.entry[x].staleNext = Nil /\ j.entry[x].stalePrev = Nil
    BY <1>4, <1>5, <2>1, ZenonT(40) DEF SameStale
  <2> QED BY <2>3, <2>4, ZenonT(40)
<1>17. Shaped(g, L, W, r, q, m + 1)
  BY <1>0, <1>8, <1>10, <1>11, <1>13, <1>15, <1>16, ZenonT(40) DEF Shaped
<1>18. g.held = h.held
  BY <1>12, ZenonT(40) DEF SameHash
<1>19. Keeps(h, g, L \ {e})
  BY <1>0, <1>14, ZenonT(40) DEF Keeps
<1>20. Fit(g, L, W \cup {e})
  <2>1. W \cup {e} = W
    BY ZenonT(40)
  <2> QED BY <1>0, <1>8, <1>17, <2>1, ZenonT(40) DEF Fit
<1>21. Queued(h, g, L, W, e)
  BY <1>1, <1>14, <1>18, <1>19, <1>20, ZenonT(40) DEF Queued
<1> QED BY <1>21, ZenonT(40) DEF g

\* The actions of an entry are replaced.
LEMMA UpdateShaped ==
  ASSUME NEW h, NEW L, NEW W, Fit(h, L, W), NEW e \in L, NEW a \in Acts
  PROVE  Refitted(h, Updated(h, e, a), L, W, e, a)
<1> DEFINE g == Updated(h, e, a)
<1>p. PICK r \in [Entries -> Nat], s \in [Entries -> Nat], m \in Nat : Shaped(h, L, W, r, s, m)
  BY ZenonT(40) DEF Fit
<1>0. /\ h \in Heap /\ L \in SUBSET Entries /\ W \in SUBSET L /\ r \in [Entries -> Nat]
      /\ s \in [Entries -> Nat] /\ m \in Nat /\ Linked(h, L, r) /\ Ordered(h, W, s, m)
      /\ \A x \in L : x \in W <=> h.entry[x].transient
      /\ \A x \in L \ W : h.entry[x].staleNext = Nil /\ h.entry[x].stalePrev = Nil
  BY <1>p, ZenonT(40) DEF Shaped
<1>1. e \in Entries /\ W \in SUBSET Entries /\ \A x \in L : x \in Entries
  BY <1>0, ZenonT(40)
<1>2. Acted(h, g, e, a)
  BY <1>0, <1>1, UpdatedFacts, ZenonT(40)
<1> HIDE DEF g
<1>3. /\ g \in Heap /\ SameHash(h, g) /\ SameStale(h, g, Entries)
      /\ \A x \in Entries : /\ g.entry[x].actions = IF x = e THEN a ELSE h.entry[x].actions
                            /\ g.entry[x].transient = h.entry[x].transient
  BY <1>2, ZenonT(40) DEF Acted
<1>4. Linked(g, L, r)
  BY <1>0, <1>3, LinkedFrame, ZenonT(40)
<1>5. Ordered(g, W, s, m)
  <2>1. SameStale(h, g, W)
    BY <1>1, <1>3, ZenonT(40) DEF SameStale
  <2> QED BY <2>1, <1>0, <1>1, OrderedFrame, ZenonT(40)
<1>6. \A x \in L : g.entry[x].key = h.entry[x].key
  BY <1>1, <1>3, ZenonT(40) DEF SameHash
<1>7. \A x \in L : /\ g.entry[x].staleTime = h.entry[x].staleTime
                   /\ g.entry[x].staleNext = h.entry[x].staleNext
                   /\ g.entry[x].stalePrev = h.entry[x].stalePrev
  BY <1>1, <1>3, ZenonT(40) DEF SameStale
<1>8. \A x \in L : x \in W <=> g.entry[x].transient
  BY <1>0, <1>1, <1>3, ZenonT(40)
<1>9. Shaped(g, L, W, r, s, m)
  BY <1>0, <1>3, <1>4, <1>5, <1>7, <1>8, ZenonT(40) DEF Shaped
<1>10. g.held = h.held
  BY <1>3, ZenonT(40) DEF SameHash
<1>11. Keeps(h, g, L \ {e})
  BY <1>1, <1>3, <1>6, <1>7, ZenonT(40) DEF Keeps
<1>12. Fit(g, L, W)
  BY <1>0, <1>9, ZenonT(40) DEF Fit
<1>13. Refitted(h, g, L, W, e, a)
  BY <1>1, <1>3, <1>6, <1>7, <1>10, <1>11, <1>12, ZenonT(40) DEF Refitted
<1> QED BY <1>13, ZenonT(40) DEF g

\* A new static entry.
LEMMA InsertShaped ==
  ASSUME NEW h, NEW L, NEW W, Fit(h, L, W), NEW k \in Keys, NEW a \in Acts,
         \A x \in L : h.entry[x].key # k, Free(h) # {}
  PROVE  Entered(h, Insert(h, k, a), L, W, New(h), k, a)
<1> DEFINE e == New(h)
           g == Insert(h, k, a)
<1>p. PICK r \in [Entries -> Nat], s \in [Entries -> Nat], m \in Nat : Shaped(h, L, W, r, s, m)
  BY ZenonT(40) DEF Fit
<1>0. /\ h \in Heap /\ L \in SUBSET Entries /\ W \in SUBSET L /\ r \in [Entries -> Nat]
      /\ s \in [Entries -> Nat] /\ m \in Nat /\ Linked(h, L, r) /\ Ordered(h, W, s, m)
      /\ \A x \in L : x \in W <=> h.entry[x].transient
      /\ \A x \in L \ W : h.entry[x].staleNext = Nil /\ h.entry[x].stalePrev = Nil
  BY <1>p, ZenonT(40) DEF Shaped
<1>1. e \in Entries /\ h.entry[e] = Blank
  BY ZenonT(40) DEF New, Free
<1>2. e \notin L
  <2>1. h.entry[e].key = Nil
    BY <1>1 DEF Blank
  <2> QED BY <1>0, <2>1, NilAssumption, ZenonT(40) DEF Linked
<1>3. W \in SUBSET Entries /\ \A x \in L : x \in Entries /\ x # e
  BY <1>0, <1>2, ZenonT(40)
<1> DEFINE q == [x \in Entries |-> IF x = e THEN 0 ELSE r[x] + 1]
<1>4. Inserts(h, g, e, k, a) /\ Linked(g, L \cup {e}, q)
  <2>0. e = New(h)
    BY ZenonT(40)
  <2> HIDE DEF e
  <2>1. /\ Inserts(h, Insert(h, k, a), e, k, a)
        /\ Linked(Insert(h, k, a), L \cup {e}, [x \in Entries |-> IF x = e THEN 0 ELSE r[x] + 1])
    BY <2>0, <1>0, <1>1, <1>2, InsertLinked, SMTT(30), ZenonT(40)
  <2> QED BY <2>1, ZenonT(40)
<1>5. q \in [Entries -> Nat]
  BY <1>0
<1> HIDE DEF q, e, g
<1>6. /\ g \in Heap /\ g.head = h.head /\ g.tail = h.tail /\ g.held = h.held + 1
      /\ g.entry[e].key = k /\ g.entry[e].actions = a
      /\ g.entry[e].staleNext = Nil /\ g.entry[e].stalePrev = Nil /\ ~g.entry[e].transient
  BY <1>1, <1>4, ZenonT(40) DEF Inserts
<1>7. \A x \in L : /\ g.entry[x].key = h.entry[x].key
                   /\ g.entry[x].actions = h.entry[x].actions
                   /\ g.entry[x].staleNext = h.entry[x].staleNext
                   /\ g.entry[x].stalePrev = h.entry[x].stalePrev
                   /\ g.entry[x].staleTime = h.entry[x].staleTime
                   /\ g.entry[x].transient = h.entry[x].transient
  BY <1>3, <1>4, ZenonT(40) DEF Inserts
<1>8. Ordered(g, W, s, m)
  <2>1. SameStale(h, g, W)
    BY <1>0, <1>6, <1>7, ZenonT(40) DEF SameStale
  <2> QED BY <2>1, <1>0, <1>3, OrderedFrame, ZenonT(40)
<1>9. \A x \in L \cup {e} : x \in W <=> g.entry[x].transient
  BY <1>0, <1>2, <1>6, <1>7, ZenonT(40)
<1>10. \A x \in (L \cup {e}) \ W : g.entry[x].staleNext = Nil /\ g.entry[x].stalePrev = Nil
  <2>1. \A x \in L \ W : g.entry[x].staleNext = Nil /\ g.entry[x].stalePrev = Nil
    BY <1>0, <1>7, ZenonT(40)
  <2> QED BY <2>1, <1>6, ZenonT(40)
<1>11. L \cup {e} \in SUBSET Entries /\ W \in SUBSET (L \cup {e})
  BY <1>0, <1>1, ZenonT(40)
<1>12. Shaped(g, L \cup {e}, W, q, s, m)
  BY <1>0, <1>4, <1>5, <1>6, <1>8, <1>9, <1>10, <1>11, ZenonT(40) DEF Shaped
<1>13. Keeps(h, g, L)
  BY <1>7, ZenonT(40) DEF Keeps
<1>14. Fit(g, L \cup {e}, W)
  BY <1>0, <1>5, <1>12, ZenonT(40) DEF Fit
<1>15. Entered(h, g, L, W, e, k, a)
  BY <1>1, <1>2, <1>6, <1>13, <1>14, ZenonT(40) DEF Entered
<1> QED BY <1>15, ZenonT(40) DEF g, e

\* A static entry is marked and put on the stale list.
LEMMA WatchShaped ==
  ASSUME Basics, NEW h, NEW L, NEW W, Fit(h, L, W), NEW e \in L, e \notin W, now \in 0..MaxTime,
         \A x \in W : h.entry[x].staleTime <= now + Timeout,
         NEW j \in Heap, Marked(h, j, e)
  PROVE  Queued(h, StaleAdd(j, e), L, W, e)
<1> DEFINE g == StaleAdd(j, e)
<1>p. PICK r \in [Entries -> Nat], s \in [Entries -> Nat], m \in Nat : Shaped(h, L, W, r, s, m)
  BY ZenonT(40) DEF Fit
<1>0. /\ h \in Heap /\ L \in SUBSET Entries /\ W \in SUBSET L /\ r \in [Entries -> Nat]
      /\ s \in [Entries -> Nat] /\ m \in Nat /\ Linked(h, L, r) /\ Ordered(h, W, s, m)
      /\ \A x \in L : x \in W <=> h.entry[x].transient
      /\ \A x \in L \ W : h.entry[x].staleNext = Nil /\ h.entry[x].stalePrev = Nil
  BY <1>p, ZenonT(40) DEF Shaped
<1>1. e \in Entries /\ W \in SUBSET Entries /\ \A x \in L : x \in Entries
  BY <1>0, ZenonT(40)
<1>3. /\ j \in Heap /\ SameHash(h, j) /\ SameStale(h, j, Entries)
      /\ \A x \in Entries : /\ j.entry[x].actions = h.entry[x].actions
                            /\ j.entry[x].transient = IF x = e THEN TRUE ELSE h.entry[x].transient
  BY ZenonT(40) DEF Marked
<1>4. Ordered(j, W, s, m)
  <2>1. SameStale(h, j, W)
    BY <1>1, <1>3, ZenonT(40) DEF SameStale
  <2> QED BY <2>1, <1>0, <1>1, OrderedFrame, ZenonT(40)
<1>5. \A x \in Entries : /\ j.entry[x].staleTime = h.entry[x].staleTime
                         /\ j.entry[x].staleNext = h.entry[x].staleNext
                         /\ j.entry[x].stalePrev = h.entry[x].stalePrev
  BY <1>3, ZenonT(40) DEF SameStale
<1> DEFINE q == [s EXCEPT ![e] = m + 1]
<1>6. q \in [Entries -> Nat] /\ m + 1 \in Nat
  BY <1>0
<1>7. Lists(j, g, e) /\ Ordered(g, W \cup {e}, q, m + 1)
  <2>1. \A x \in W : j.entry[x].staleTime <= now + Timeout
    BY <1>1, <1>5, ZenonT(40)
  <2> HIDE DEF q
  <2>2. /\ Lists(j, StaleAdd(j, e), e)
        /\ Ordered(StaleAdd(j, e), W \cup {e}, [s EXCEPT ![e] = m + 1], m + 1)
    BY <2>1, <1>0, <1>1, <1>3, <1>4, ListOrdered, ZenonT(40)
  <2> QED BY <2>2, ZenonT(40) DEF q
<1> HIDE DEF q, g
<1>8. /\ g \in Heap /\ SameHash(j, g) /\ SameData(j, g)
      /\ \A x \in Entries :
           g.entry[x].staleTime = IF x = e THEN now + Timeout ELSE j.entry[x].staleTime
  BY <1>7, ZenonT(40) DEF Lists
<1>9. SameHash(h, g)
  BY <1>3, <1>8, ZenonT(40) DEF SameHash
<1>10. Linked(g, L, r)
  BY <1>0, <1>9, LinkedFrame, ZenonT(40)
<1>11. \A x \in Entries : /\ g.entry[x].actions = h.entry[x].actions
                          /\ g.entry[x].transient = IF x = e THEN TRUE ELSE h.entry[x].transient
  BY <1>3, <1>8, ZenonT(40) DEF SameData
<1>12. \A x \in Entries : g.entry[x].staleTime = IF x = e THEN now + Timeout ELSE h.entry[x].staleTime
  BY <1>5, <1>8, ZenonT(40)
<1>13. \A x \in Entries : g.entry[x].key = h.entry[x].key
  BY <1>9, ZenonT(40) DEF SameHash
<1>14. \A x \in L : x \in W \cup {e} <=> g.entry[x].transient
  BY <1>0, <1>1, <1>11, ZenonT(40)
<1>15. \A x \in L \ (W \cup {e}) : g.entry[x].staleNext = Nil /\ g.entry[x].stalePrev = Nil
  <2> SUFFICES ASSUME NEW x \in L \ (W \cup {e})
               PROVE  g.entry[x].staleNext = Nil /\ g.entry[x].stalePrev = Nil
    BY ZenonT(40)
  <2>1. x \in Entries /\ x # e /\ x # Nil
    BY <1>0, NilNoEntry, ZenonT(40)
  <2>2. x # j.tail
    BY <1>4, <2>1, ZenonT(40) DEF Ordered
  <2>3. /\ g.entry[x].staleNext = j.entry[x].staleNext
        /\ g.entry[x].stalePrev = j.entry[x].stalePrev
    BY <1>7, <2>1, <2>2, ZenonT(40) DEF Lists
  <2> QED BY <1>0, <1>5, <2>1, <2>3, ZenonT(40)
<1>16. W \cup {e} \in SUBSET L
  BY <1>0, ZenonT(40)
<1>17. Shaped(g, L, W \cup {e}, r, q, m + 1)
  BY <1>0, <1>6, <1>7, <1>8, <1>10, <1>14, <1>15, <1>16, ZenonT(40) DEF Shaped
<1>18. g.held = h.held
  BY <1>9, ZenonT(40) DEF SameHash
<1>19. Keeps(h, g, L \ {e})
  BY <1>1, <1>11, <1>12, <1>13, ZenonT(40) DEF Keeps
<1>20. Fit(g, L, W \cup {e})
  BY <1>0, <1>6, <1>17, ZenonT(40) DEF Fit
<1>21. Queued(h, g, L, W, e)
  BY <1>1, <1>11, <1>12, <1>13, <1>18, <1>19, <1>20, ZenonT(40) DEF Queued
<1> QED BY <1>21, ZenonT(40) DEF g

\* The collector changes nothing that can be reached.
LEMMA CollectShaped ==
  ASSUME Basics, NEW h, NEW L, NEW W, NEW r, NEW s, NEW m, Shaped(h, L, W, r, s, m),
         NEW g, g = Collected(h)
  PROVE  /\ Shaped(g, L, W, r, s, m) /\ g.held = h.held
         /\ \A x \in L : g.entry[x] = h.entry[x]
<1>0. /\ h \in Heap /\ L \in SUBSET Entries /\ W \in SUBSET L /\ r \in [Entries -> Nat]
      /\ s \in [Entries -> Nat] /\ m \in Nat /\ Linked(h, L, r) /\ Ordered(h, W, s, m)
      /\ \A x \in L : x \in W <=> h.entry[x].transient
      /\ \A x \in L \ W : h.entry[x].staleNext = Nil /\ h.entry[x].stalePrev = Nil
  BY ZenonT(40) DEF Shaped
<1>1. Collects(h, g, L)
  BY CollectedIsLinked, ZenonT(40)
<1>2. /\ g \in Heap /\ g.entries = h.entries /\ g.head = h.head /\ g.tail = h.tail /\ g.held = h.held
      /\ \A x \in L : g.entry[x] = h.entry[x]
  BY <1>0, <1>1, ZenonT(40) DEF Collects
<1>3. Linked(g, L, r)
  BY <1>0, <1>2, LinkedOn, ZenonT(40)
<1>4. Ordered(g, W, s, m)
  <2>1. SameStale(h, g, W) /\ W \in SUBSET Entries
    BY <1>0, <1>2, ZenonT(40) DEF SameStale
  <2> QED BY <2>1, <1>0, OrderedFrame, ZenonT(40)
<1>5. Shaped(g, L, W, r, s, m)
  BY <1>0, <1>2, <1>3, <1>4, ZenonT(40) DEF Shaped
<1> QED BY <1>2, <1>5, ZenonT(40)

\* An entry leaves its lists and is freed.
LEMMA DropShaped ==
  ASSUME Basics, NEW h, NEW L, NEW W, Fit(h, L, W), NEW e \in L
  PROVE  Dropped(h, Collected(Remove(IF e \in W THEN StaleRemove(h, e) ELSE h, e)), L, W, e)
<1> DEFINE i == IF e \in W THEN StaleRemove(h, e) ELSE h
           j == Remove(i, e)
           g == Collected(j)
<1>p. PICK r \in [Entries -> Nat], s \in [Entries -> Nat], m \in Nat : Shaped(h, L, W, r, s, m)
  BY ZenonT(40) DEF Fit
<1>0. /\ h \in Heap /\ L \in SUBSET Entries /\ W \in SUBSET L /\ r \in [Entries -> Nat]
      /\ s \in [Entries -> Nat] /\ m \in Nat /\ Linked(h, L, r) /\ Ordered(h, W, s, m)
      /\ \A x \in L : x \in W <=> h.entry[x].transient
      /\ \A x \in L \ W : h.entry[x].staleNext = Nil /\ h.entry[x].stalePrev = Nil
  BY <1>p, ZenonT(40) DEF Shaped
<1>1. /\ e \in Entries /\ W \in SUBSET Entries /\ L \ {e} \in SUBSET Entries
      /\ W \ {e} \in SUBSET (L \ {e}) /\ W \ {e} \in SUBSET Entries
      /\ \A x \in L : x \in Entries /\ x # Nil
  BY <1>0, NilNoEntry, ZenonT(40)
<1>2. /\ i \in Heap /\ SameHash(h, i) /\ SameData(h, i)
      /\ Ordered(i, W \ {e}, s, m)
      /\ \A x \in Entries : i.entry[x].staleTime = h.entry[x].staleTime
      /\ \A x \in L \ W : i.entry[x].staleNext = Nil /\ i.entry[x].stalePrev = Nil
  <2>1. CASE e \in W
    <3>1. i = StaleRemove(h, e)
      BY <2>1, ZenonT(40)
    <3> HIDE DEF i
    <3>2. Unlists(h, i, e) /\ Ordered(i, W \ {e}, s, m)
      BY <3>1, <2>1, <1>0, <1>1, UnlistOrdered, ZenonT(40)
    <3>3. /\ i \in Heap /\ SameHash(h, i) /\ SameData(h, i)
          /\ \A x \in Entries : i.entry[x].staleTime = h.entry[x].staleTime
      BY <3>2, ZenonT(40) DEF Unlists
    <3>4. ASSUME NEW x \in L \ W
          PROVE  i.entry[x].staleNext = Nil /\ i.entry[x].stalePrev = Nil
      <4> DEFINE n == h.entry[e].staleNext
                 p == h.entry[e].stalePrev
      <4>1. (n # Nil => n \in W) /\ (p # Nil => p \in W) /\ x \in Entries /\ x # Nil
        BY <1>0, <1>1, <2>1, ZenonT(40) DEF Ordered
      <4>2. /\ i.entry[x].staleNext = IF x = p THEN n ELSE h.entry[x].staleNext
            /\ i.entry[x].stalePrev = IF x = n THEN p ELSE h.entry[x].stalePrev
        BY <3>2, <4>1, ZenonT(40) DEF Unlists
      <4>3. x # n /\ x # p
        BY <4>1
      <4> QED BY <4>2, <4>3, <1>0, ZenonT(40)
    <3> QED BY <3>2, <3>3, <3>4, ZenonT(40)
  <2>2. CASE e \notin W
    <3>1. i = h /\ W \ {e} = W
      BY <2>2, ZenonT(40)
    <3> HIDE DEF i
    <3> QED BY <3>1, <1>0, ZenonT(40) DEF SameHash, SameData
  <2> QED BY <2>1, <2>2, ZenonT(40)
<1> HIDE DEF i
<1>3. Linked(i, L, r)
  BY <1>0, <1>2, LinkedFrame, ZenonT(40)
<1>4. Cuts(i, j, e) /\ Linked(j, L \ {e}, r)
  BY <1>0, <1>2, <1>3, CutLinked, ZenonT(40)
<1>5. g = Collected(j)
  BY ZenonT(40)
<1> HIDE DEF j, g
<1>6. /\ j \in Heap /\ SameStale(i, j, Entries) /\ SameData(i, j) /\ j.held = i.held - 1
      /\ \A x \in Entries : j.entry[x].key = i.entry[x].key
  BY <1>4, ZenonT(40) DEF Cuts
<1>7. Ordered(j, W \ {e}, s, m)
  <2>1. SameStale(i, j, W \ {e})
    BY <1>1, <1>6, ZenonT(40) DEF SameStale
  <2> QED BY <2>1, <1>1, <1>2, OrderedFrame, ZenonT(40)
<1>8. \A x \in Entries : j.entry[x].actions = h.entry[x].actions /\ j.entry[x].transient = h.entry[x].transient
  BY <1>2, <1>6, ZenonT(40) DEF SameData
<1>9. \A x \in Entries : j.entry[x].staleTime = h.entry[x].staleTime
  BY <1>2, <1>6, ZenonT(40) DEF SameStale
<1>10. (\A x \in Entries : j.entry[x].key = h.entry[x].key) /\ j.held = h.held - 1
  BY <1>2, <1>6, ZenonT(40) DEF SameHash
<1>11. \A x \in L \ {e} : x \in W \ {e} <=> j.entry[x].transient
  BY <1>0, <1>1, <1>8, ZenonT(40)
<1>12. \A x \in (L \ {e}) \ (W \ {e}) : j.entry[x].staleNext = Nil /\ j.entry[x].stalePrev = Nil
  <2> TAKE x \in (L \ {e}) \ (W \ {e})
  <2>1. x \in L \ W /\ x \in Entries
    BY <1>1, ZenonT(40)
  <2> QED BY <2>1, <1>2, <1>6, ZenonT(40) DEF SameStale
<1>13. Shaped(j, L \ {e}, W \ {e}, r, s, m)
  BY <1>0, <1>1, <1>4, <1>6, <1>7, <1>11, <1>12, ZenonT(40) DEF Shaped
<1>14. /\ Shaped(g, L \ {e}, W \ {e}, r, s, m) /\ g.held = j.held
       /\ \A x \in L \ {e} : g.entry[x] = j.entry[x]
  <2> DEFINE V == L \ {e}
             U == W \ {e}
  <2>1. Shaped(j, V, U, r, s, m)
    BY <1>13, ZenonT(40)
  <2> HIDE DEF V, U
  <2>2. /\ Shaped(g, V, U, r, s, m) /\ g.held = j.held
        /\ \A x \in V : g.entry[x] = j.entry[x]
    BY <2>1, <1>5, CollectShaped
  <2> QED BY <2>2, ZenonT(40) DEF V, U
<1>15. Keeps(h, g, L \ {e})
  BY <1>1, <1>8, <1>9, <1>10, <1>14, ZenonT(40) DEF Keeps
<1>16. Fit(g, L \ {e}, W \ {e})
  BY <1>0, <1>14, ZenonT(40) DEF Fit
<1>17. Dropped(h, g, L, W, e)
  BY <1>10, <1>14, <1>15, <1>16, ZenonT(40) DEF Dropped
<1> QED BY <1>17, ZenonT(40) DEF g, j, i

\* A table whose chains are emptied, with nothing on its stale list.
LEMMA EmptyShaped ==
  ASSUME NEW h \in Heap, h.entries = [b \in Buckets |-> Nil], h.head = Nil, h.tail = Nil
  PROVE  Fit(h, {}, {})
<1> DEFINE z == [x \in Entries |-> 0]
<1>1. z \in [Entries -> Nat] /\ 0 \in Nat
  BY ZenonT(40)
<1> HIDE DEF z
<1>2. \A b \in Buckets : h.entries[b] = Nil
  BY ZenonT(40)
<1>3. Linked(h, {}, z)
  BY <1>2, ZenonT(40) DEF Linked
<1>4. Ordered(h, {}, z, 0)
  BY ZenonT(40) DEF Ordered
<1>5. Shaped(h, {}, {}, z, z, 0)
  BY <1>1, <1>3, <1>4, ZenonT(40) DEF Shaped
<1> QED BY <1>1, <1>5, ZenonT(40) DEF Fit

(***************************************************************************)
(* Tables                                                                  *)
(***************************************************************************)
\* The table h, whose entries are L and whose transient entries are W.
Table(h, L, W) ==
  Fit(h, L, W) /\ h.held = Cardinality(L)

Moving(h) == {e \in Present(h) : h.entry[e].transient}

LEMMA TableIs ==
  ASSUME Basics, NEW h, NEW L, NEW W, Table(h, L, W)
  PROVE  /\ h \in Heap /\ L \in SUBSET Entries /\ W \in SUBSET L
         /\ Present(h) = L /\ Moving(h) = W
         /\ Cardinality(L) \in Nat
         /\ \A e \in L : h.entry[e].key \in Keys
         /\ \A e, f \in L : h.entry[e].key = h.entry[f].key => e = f
         /\ \A e \in L : e \in W <=> h.entry[e].transient
<1>1. PICK r \in [Entries -> Nat], s \in [Entries -> Nat], m \in Nat : Shaped(h, L, W, r, s, m)
  BY ZenonT(40) DEF Table, Fit
<1>2. /\ h \in Heap /\ L \in SUBSET Entries /\ W \in SUBSET L /\ Linked(h, L, r)
      /\ \A e \in L : e \in W <=> h.entry[e].transient
  BY <1>1, ZenonT(40) DEF Shaped
<1>3. Present(h) = L
  BY <1>2, PresentIsLinked, ZenonT(40)
<1>4. Moving(h) = W
  BY <1>2, <1>3, ZenonT(40) DEF Moving
<1>6. Cardinality(L) \in Nat
  BY <1>2, ZenonT(40) DEF Basics
<1>7. /\ \A e \in L : h.entry[e].key \in Keys
      /\ \A e, f \in L : h.entry[e].key = h.entry[f].key => e = f
  BY <1>2, ZenonT(40) DEF Linked
<1> QED BY <1>2, <1>3, <1>4, <1>6, <1>7, ZenonT(40)

\* Find tells whether a key has an entry, and which.
LEMMA TableFind ==
  ASSUME Basics, NEW h, NEW L, NEW W, Table(h, L, W), NEW k \in Keys
  PROVE  /\ Find(h, k) = Nil => \A e \in L : h.entry[e].key # k
         /\ Find(h, k) # Nil => Find(h, k) \in L /\ h.entry[Find(h, k)].key = k
         /\ Found(h, k) = {e \in L : h.entry[e].key = k}
<1>1. PICK r \in [Entries -> Nat], s \in [Entries -> Nat], m \in Nat : Shaped(h, L, W, r, s, m)
  BY ZenonT(40) DEF Table, Fit
<1>2. L \in SUBSET Entries /\ Linked(h, L, r)
  BY <1>1, ZenonT(40) DEF Shaped
<1>3. Found(h, k) = {e \in L : h.entry[e].key = k}
  BY <1>2, FoundIsKeyed
<1>4. /\ Find(h, k) = Nil => \A e \in L : h.entry[e].key # k
      /\ Find(h, k) # Nil => Find(h, k) \in L /\ h.entry[Find(h, k)].key = k
  BY <1>2, FindFacts, ZenonT(40)
<1> QED BY <1>3, <1>4, ZenonT(40)

\* A key whose entry e is new, has changed or has gone; the others stay.
LEMMA OneKey ==
  ASSUME Basics, NEW h, NEW L, NEW W, Table(h, L, W), NEW g, NEW V, NEW U, Table(g, V, U),
         NEW k \in Keys, NEW e \in Entries,
         \A x \in Entries : x # e => (x \in V <=> x \in L), Keeps(h, g, L \ {e}),
         e \in V => g.entry[e].key = k,
         e \notin V => e \in L /\ h.entry[e].key = k,
         \A x \in L : h.entry[x].key = k => x = e,
         e \in L => h.entry[e].key = k
  PROVE  Contents(g) = [Contents(h) EXCEPT ![k] = IF e \in V THEN {Cell(g, e)} ELSE {}]
<1>0. L \in SUBSET Entries /\ V \in SUBSET Entries
  BY TableIs, ZenonT(40)
<1>1. \A j \in Keys : Contents(h)[j] = {Cell(h, x) : x \in {y \in L : h.entry[y].key = j}}
  BY TableFind DEF Contents
<1>2. \A j \in Keys : Contents(g)[j] = {Cell(g, x) : x \in {y \in V : g.entry[y].key = j}}
  BY TableFind DEF Contents
<1>3. \A x \in L \ {e} : x \in V /\ g.entry[x].key = h.entry[x].key /\ Cell(g, x) = Cell(h, x)
  BY <1>0, ZenonT(40) DEF Keeps, Cell
<1>4. \A x \in V \ {e} : x \in L
  BY <1>0, ZenonT(40)
<1>5. {y \in V : g.entry[y].key = k} = IF e \in V THEN {e} ELSE {}
  BY <1>0, <1>3, <1>4, ZenonT(40)
<1>6. Contents(g)[k] = IF e \in V THEN {Cell(g, e)} ELSE {}
  <2>1. Contents(g)[k] = {Cell(g, x) : x \in (IF e \in V THEN {e} ELSE {})}
    BY <1>2, <1>5, ZenonT(40)
  <2> HIDE DEF Cell
  <2>2. CASE e \in V
    <3>1. Contents(g)[k] = {Cell(g, x) : x \in {e}}
      BY <2>1, <2>2, ZenonT(40)
    <3>2. {Cell(g, x) : x \in {e}} = {Cell(g, e)}
      OBVIOUS
    <3> QED BY <2>2, <3>1, <3>2, ZenonT(40)
  <2>3. CASE e \notin V
    <3>1. Contents(g)[k] = {Cell(g, x) : x \in {}}
      BY <2>1, <2>3, ZenonT(40)
    <3>2. {Cell(g, x) : x \in {}} = {}
      OBVIOUS
    <3> QED BY <2>3, <3>1, <3>2, ZenonT(40)
  <2> QED BY <2>2, <2>3, ZenonT(40)
<1>7. ASSUME NEW j \in Keys \ {k}
      PROVE  Contents(g)[j] = Contents(h)[j]
  <2>1. {y \in V : g.entry[y].key = j} = {y \in L : h.entry[y].key = j}
    BY <1>0, <1>3, <1>4, ZenonT(40)
  <2>2. \A x \in {y \in L : h.entry[y].key = j} : Cell(g, x) = Cell(h, x)
    BY <1>3, ZenonT(40)
  <2>3. Contents(g)[j] = {Cell(g, x) : x \in {y \in L : h.entry[y].key = j}}
    BY <1>2, <2>1, ZenonT(40)
  <2>4. Contents(h)[j] = {Cell(h, x) : x \in {y \in L : h.entry[y].key = j}}
    BY <1>1, ZenonT(40)
  <2> HIDE DEF Cell
  <2> QED BY <2>2, <2>3, <2>4
<1>8. Contents(g) = [j \in Keys |-> Contents(g)[j]] /\ Contents(h) = [j \in Keys |-> Contents(h)[j]]
  BY ZenonT(40) DEF Contents
<1> QED BY <1>6, <1>7, <1>8, ZenonT(40)

\* e is the entry of k, with what AddEntry was given.
AddedAs(h, g, L, W, e, k, a, t) ==
  /\ \A x \in L : h.entry[x].key = k => x = e
  /\ e \in L => h.entry[e].key = k
  /\ Table(g, L \cup {e}, IF t /\ stale THEN W \cup {e} ELSE W \ {e})
  /\ g.entry[e].key = k /\ g.entry[e].actions = a
  /\ g.entry[e].transient <=> t /\ stale
  /\ t /\ stale => g.entry[e].staleTime = now + Timeout
  /\ Keeps(h, g, L \ {e})

\* AddEntry that is not refused leaves one entry for the key.
LEMMA AddedTable ==
  ASSUME Basics, NEW h, NEW L, NEW W, Table(h, L, W), NEW k \in Keys, NEW a \in Acts, NEW t \in BOOLEAN,
         stale \in BOOLEAN, now \in 0..MaxTime, ~stale => W = {},
         \A x \in W : h.entry[x].staleTime <= now + Timeout,
         Find(h, k) = Nil => Free(h) # {},
         Find(h, k) # Nil /\ ~t => ~h.entry[Find(h, k)].transient,
         ~Refuses(h, Find(h, k), t)
  PROVE  \E e \in Entries : AddedAs(h, Added(h, k, a, t), L, W, e, k, a, t)
<1> DEFINE g == Added(h, k, a, t)
           w == t /\ stale
<1>0. Fit(h, L, W) /\ h.held = Cardinality(L)
  BY ZenonT(40) DEF Table
<1>1. /\ h \in Heap /\ L \in SUBSET Entries /\ W \in SUBSET L
      /\ Cardinality(L) \in Nat
      /\ \A x, y \in L : h.entry[x].key = h.entry[y].key => x = y
      /\ \A x \in L : x \in W <=> h.entry[x].transient
  BY TableIs, SMTT(30)
<1>2. CASE Find(h, k) = Nil
  <2> DEFINE e == New(h)
             i == Insert(h, k, a)
  <2>1. \A x \in L : h.entry[x].key # k
    BY <1>2, TableFind, ZenonT(40)
  <2>2. g = Watch(i, e, t)
    BY <1>2, ZenonT(40) DEF Added, Refuses
  <2>3. Entered(h, i, L, W, e, k, a)
    BY <1>0, <1>2, <2>1, InsertShaped, ZenonT(40)
  <2> HIDE DEF e, i, g
  <2>4. /\ e \in Entries /\ e \notin L
        /\ Fit(i, L \cup {e}, W) /\ i.held = h.held + 1
        /\ i.entry[e].key = k /\ i.entry[e].actions = a /\ ~i.entry[e].transient
        /\ Keeps(h, i, L)
    BY <2>3, ZenonT(40) DEF Entered
  <2>5. Cardinality(L \cup {e}) = Cardinality(L) + 1
    BY <1>1, <2>4, ZenonT(40) DEF Basics
  <2>6. (L \cup {e}) \ {e} = L /\ L \ {e} = L /\ W \ {e} = W /\ e \in L \cup {e} /\ e \notin W
    BY <1>1, <2>4, ZenonT(40)
  <2>7. CASE w
    <3> DEFINE j == [i EXCEPT !.entry[e].transient = TRUE]
    <3>1. g = StaleAdd(j, e)
      BY <2>2, <2>4, <2>7, ZenonT(40) DEF Watch
    <3>2. \A x \in W : i.entry[x].staleTime <= now + Timeout
      BY <1>1, <2>4, ZenonT(40) DEF Keeps
    <3>3. i \in Heap
      BY <2>4, ZenonT(40) DEF Fit, Shaped
    <3>4. Marked(i, j, e)
      BY <2>4, <3>3, MarkFacts, ZenonT(40)
    <3> HIDE DEF j
    <3>5. j \in Heap
      BY <3>4, ZenonT(40) DEF Marked
    <3> DEFINE V == L \cup {e}
    <3>6. Fit(i, V, W) /\ e \in V
      BY <2>4, ZenonT(40)
    <3> HIDE DEF V
    <3>7. Queued(i, g, V, W, e)
      BY <2>6, <3>1, <3>2, <3>4, <3>5, <3>6, WatchShaped, ZenonT(40)
    <3>8. /\ Fit(g, V, W \cup {e}) /\ g.held = i.held
          /\ g.entry[e].staleTime = now + Timeout /\ g.entry[e].transient
          /\ g.entry[e].key = k /\ g.entry[e].actions = a
          /\ Keeps(i, g, V \ {e})
      BY <2>4, <3>7, ZenonT(40) DEF Queued
    <3>9. Table(g, L \cup {e}, W \cup {e})
      <4>1. g.held = Cardinality(L \cup {e})
        BY <3>8, <2>4, <2>5, <1>0, ZenonT(40)
      <4> QED BY <4>1, <3>8, ZenonT(40) DEF Table, V
    <3>10. Keeps(h, g, L \ {e})
      <4>1. Keeps(i, g, L)
        BY <2>6, <3>8, ZenonT(40) DEF V
      <4> QED BY <4>1, <2>4, <2>6, ZenonT(40) DEF Keeps
    <3>a. AddedAs(h, g, L, W, e, k, a, t)
      BY <2>1, <2>4, <2>7, <3>8, <3>9, <3>10, ZenonT(40) DEF AddedAs
    <3> QED BY <2>4, <3>a, ZenonT(40) DEF g
  <2>8. CASE ~w
    <3>1. g = i
      BY <2>2, <2>4, <2>8, ZenonT(40) DEF Watch
    <3>2. Table(g, L \cup {e}, W)
      <4>1. g.held = Cardinality(L \cup {e})
        BY <3>1, <2>4, <2>5, <1>0, ZenonT(40)
      <4> QED BY <4>1, <3>1, <2>4, ZenonT(40) DEF Table
    <3>a. AddedAs(h, g, L, W, e, k, a, t)
      BY <2>1, <2>4, <2>6, <2>8, <3>1, <3>2, ZenonT(40) DEF AddedAs
    <3> QED BY <2>4, <3>a, ZenonT(40) DEF g
  <2> QED BY <2>7, <2>8, ZenonT(40)
<1>3. CASE Find(h, k) # Nil
  <2> DEFINE e == Find(h, k)
             i == Updated(h, e, a)
  <2>1. e \in L /\ h.entry[e].key = k
    BY <1>3, TableFind, ZenonT(40)
  <2>2. g = Watch(i, e, t)
    BY <1>3, ZenonT(40) DEF Added
  <2>3. t <=> h.entry[e].transient
    BY <1>3, ZenonT(40) DEF Refuses
  <2> HIDE DEF e
  <2>4. t <=> e \in W
    BY <1>1, <2>1, <2>3, ZenonT(40)
  <2>5. Refitted(h, i, L, W, e, a)
    BY <1>0, <2>1, UpdateShaped, ZenonT(40)
  <2> HIDE DEF i, g
  <2>6. /\ Fit(i, L, W) /\ i.held = h.held
        /\ i.entry[e].key = k /\ i.entry[e].actions = a
        /\ i.entry[e].transient = h.entry[e].transient
        /\ Keeps(h, i, L \ {e})
        /\ \A x \in L : i.entry[x].staleTime = h.entry[x].staleTime
    BY <2>1, <2>5, ZenonT(40) DEF Refitted
  <2>7. e \in Entries /\ L \cup {e} = L /\ \A x \in L : h.entry[x].key = k => x = e
    BY <1>1, <2>1, ZenonT(40)
  <2>8. CASE t
    <3>1. stale /\ e \in W /\ W \cup {e} = W
      BY <2>4, <2>8, ZenonT(40)
    <3> DEFINE b == StaleRemove(i, e)
               j == [b EXCEPT !.entry[e].transient = TRUE]
    <3>2. g = StaleAdd(j, e)
      BY <2>2, <2>3, <2>6, <2>8, <3>1, ZenonT(40) DEF Watch
    <3>3. b \in Heap
      <4>1. PICK r \in [Entries -> Nat], s \in [Entries -> Nat], m \in Nat : Shaped(i, L, W, r, s, m)
        BY <2>6, ZenonT(40) DEF Fit
      <4>2. i \in Heap /\ W \in SUBSET Entries /\ Ordered(i, W, s, m)
        BY <4>1, <1>1, ZenonT(40) DEF Shaped
      <4>3. Unlists(i, b, e)
        BY <4>2, <3>1, UnlistOrdered, ZenonT(40)
      <4> QED BY <4>3, ZenonT(40) DEF Unlists
    <3>4. Marked(b, j, e)
      <4> HIDE DEF b
      <4> QED BY <3>3, <2>7, MarkFacts, ZenonT(40)
    <3>5. j \in Heap
      <4> HIDE DEF b, j
      <4> QED BY <3>4, ZenonT(40) DEF Marked
    <3> HIDE DEF j
    <3>6. \A x \in W : i.entry[x].staleTime <= now + Timeout
      BY <1>1, <2>6, ZenonT(40)
    <3>7. Queued(i, g, L, W, e)
      BY <2>6, <3>1, <3>2, <3>4, <3>5, <3>6, UseShaped, ZenonT(40)
    <3> HIDE DEF b
    <3>8. /\ Fit(g, L, W \cup {e}) /\ g.held = i.held
          /\ g.entry[e].staleTime = now + Timeout /\ g.entry[e].transient
          /\ g.entry[e].key = k /\ g.entry[e].actions = a
          /\ Keeps(i, g, L \ {e})
      BY <2>6, <3>7, ZenonT(40) DEF Queued
    <3>9. Table(g, L \cup {e}, W \cup {e})
      BY <1>0, <2>6, <2>7, <3>8, ZenonT(40) DEF Table
    <3>10. Keeps(h, g, L \ {e})
      BY <2>6, <3>8, ZenonT(40) DEF Keeps
    <3>a. AddedAs(h, g, L, W, e, k, a, t)
      BY <2>1, <2>7, <2>8, <3>1, <3>8, <3>9, <3>10, ZenonT(40) DEF AddedAs
    <3> QED BY <2>7, <3>a, ZenonT(40) DEF g
  <2>9. CASE ~t
    <3>1. g = i
      BY <2>2, <2>3, <2>6, <2>9, ZenonT(40) DEF Watch
    <3>2. W \ {e} = W
      BY <2>4, <2>9, ZenonT(40)
    <3>3. Table(g, L \cup {e}, W \ {e})
      BY <3>1, <3>2, <1>0, <2>6, <2>7, ZenonT(40) DEF Table
    <3>4. ~g.entry[e].transient
      BY <3>1, <2>3, <2>6, <2>9, ZenonT(40)
    <3>a. AddedAs(h, g, L, W, e, k, a, t)
      BY <2>1, <2>6, <2>7, <2>9, <3>1, <3>3, <3>4, ZenonT(40) DEF AddedAs
    <3> QED BY <2>7, <3>a, ZenonT(40) DEF g
  <2> QED BY <2>8, <2>9, ZenonT(40)
<1> QED BY <1>2, <1>3, ZenonT(40)

(***************************************************************************)
(* The inductive invariant.  Until Cleanup the table is one, and no entry  *)
(* is on its list for longer than the timeout; the monitor sleeps no longer*)
(* than the timeout, or than the fixed sleep if it found the list empty.   *)
(***************************************************************************)
Inv ==
  /\ TypeOK
  /\ cleaned => ~stale /\ table.entries = [b \in Buckets |-> Nil] /\ table.held = 0
  /\ ~cleaned => /\ Table(table, Present(table), Watched) /\ stale = watched
                 /\ ~stale => Watched = {}
                 /\ \A e \in Watched : table.entry[e].staleTime <= now + Timeout
  /\ monitor = "process" => stale
  /\ stale /\ monitor \in {"unlocked", "sleep"} =>
       wake <= now + (IF idle THEN EmptySleep ELSE Timeout)
  /\ InTime

\* What a step must be for the map that the table implements.
MapStep == Map!MapNext \/ UNCHANGED Map!mapVars

LEMMA HeapType ==
  ASSUME NEW h, h \in Heap, h.held \in Nat
  PROVE  h \in [entry : [Entries -> EntryType], entries : [Buckets -> Ref],
                head : Ref, tail : Ref, held : Nat]
<1>1. h = [entry |-> h.entry, entries |-> h.entries, head |-> h.head, tail |-> h.tail, held |-> h.held]
  BY ZenonT(40) DEF Heap
<1>2. /\ h.entry \in [Entries -> EntryType] /\ h.entries \in [Buckets -> Ref]
      /\ h.head \in Ref /\ h.tail \in Ref
  BY ZenonT(40) DEF Heap
<1> QED BY <1>1, <1>2, ZenonT(40)

LEMMA TypeHeap ==
  ASSUME TypeOK
  PROVE  /\ table \in Heap /\ now \in 0..MaxTime /\ wake \in Nat
         /\ stale \in BOOLEAN /\ cleaned \in BOOLEAN /\ idle \in BOOLEAN /\ watched \in BOOLEAN
         /\ now \in Nat /\ now + Timeout \in Nat /\ now + EmptySleep \in Nat
<1>1. /\ table \in [entry : [Entries -> EntryType], entries : [Buckets -> Ref],
                    head : Ref, tail : Ref, held : Nat]
      /\ {stale, cleaned, idle, watched} \subseteq BOOLEAN
      /\ now \in 0..MaxTime /\ wake \in Nat
  BY ZenonT(40) DEF TypeOK
<1>2. table \in Heap
  BY <1>1 DEF Heap
<1>3. stale \in BOOLEAN /\ cleaned \in BOOLEAN /\ idle \in BOOLEAN /\ watched \in BOOLEAN
  BY <1>1, ZenonT(40)
<1>4. now \in Nat /\ now + Timeout \in Nat /\ now + EmptySleep \in Nat
  BY <1>1, TimesAssumption
<1> QED BY <1>1, <1>2, <1>3, <1>4, ZenonT(40)

\* A request that leaves a table, with entries that were listed or are listed now.
LEMMA TableStep ==
  ASSUME Basics, Inv, ~cleaned, UNCHANGED <<stale, cleaned, now, monitorVars, watched>>,
         NEW V, NEW U, Table(table', V, U), ~stale => U = {},
         \A e \in U : \/ e \in Watched /\ table'.entry[e].staleTime = table.entry[e].staleTime
                      \/ table'.entry[e].staleTime = now + Timeout
  PROVE  Inv'
<1>0. /\ TypeOK /\ stale = watched /\ InTime
      /\ \A e \in Watched : table.entry[e].staleTime <= now + Timeout
      /\ monitor = "process" => stale
      /\ stale /\ monitor \in {"unlocked", "sleep"} =>
           wake <= now + (IF idle THEN EmptySleep ELSE Timeout)
  BY ZenonT(40) DEF Inv
<1>1. UNCHANGED <<stale, cleaned, now, monitor, wake, idle, watched>>
  BY ZenonT(40) DEF monitorVars
<1>2. /\ table' \in Heap /\ Present(table') = V /\ Moving(table') = U
      /\ Cardinality(V) \in Nat
  BY TableIs, ZenonT(40)
<1>3. Watched' = U
  BY <1>2, ZenonT(40) DEF Watched, Moving
<1>4. /\ table \in Heap /\ now \in 0..MaxTime /\ wake \in Nat /\ stale \in BOOLEAN /\ idle \in BOOLEAN
      /\ now \in Nat /\ now + Timeout \in Nat /\ now + EmptySleep \in Nat
  BY <1>0, TypeHeap, ZenonT(40)
<1>5. TypeOK'
  <2>1. table' \in [entry : [Entries -> EntryType], entries : [Buckets -> Ref],
                    head : Ref, tail : Ref, held : Nat]
    BY <1>2, HeapType, ZenonT(40) DEF Table
  <2> QED BY <2>1, <1>0, <1>1, ZenonT(40) DEF TypeOK
<1>6. \A e \in U : table'.entry[e].staleTime <= now + Timeout
  BY <1>0, <1>4
<1>7. InTime'
  <2> SUFFICES ASSUME stale, monitor \in {"unlocked", "sleep"}, NEW e \in U
               PROVE  LET due == table'.entry[e].staleTime  used == due - Timeout
                      IN  wake <= due \/ (idle /\ wake <= used + EmptySleep)
    BY <1>1, <1>3, ZenonT(40) DEF InTime
  <2>1. wake <= now + (IF idle THEN EmptySleep ELSE Timeout)
    BY <1>0, ZenonT(40)
  <2>2. CASE e \in Watched /\ table'.entry[e].staleTime = table.entry[e].staleTime
    BY <2>2, <1>0, ZenonT(40) DEF InTime
  <2>3. CASE table'.entry[e].staleTime = now + Timeout
    BY <2>1, <2>3, <1>4, TimesAssumption
  <2> QED BY <2>2, <2>3, ZenonT(40)
<1>8. Table(table, Present(table), Watched)'
  BY <1>2, <1>3, ZenonT(40)
<1>9. (stale = watched)' /\ (~stale => Watched = {})' /\ (cleaned = FALSE)'
      /\ (\A e \in Watched : table.entry[e].staleTime <= now + Timeout)'
  BY <1>0, <1>1, <1>3, <1>6, TypeHeap
<1>10. /\ (monitor = "process" => stale)'
       /\ (stale /\ monitor \in {"unlocked", "sleep"} =>
             wake <= now + (IF idle THEN EmptySleep ELSE Timeout))'
  BY <1>0, <1>1
<1> QED BY <1>5, <1>7, <1>8, <1>9, <1>10, ZenonT(40) DEF Inv

\* A request that changes nothing but the map at one key.
LEMMA KeyStep ==
  ASSUME NEW k \in Keys, NEW X, UNCHANGED <<now, watched>>,
         Contents(table)' = [Contents(table) EXCEPT ![k] = X],
         Contents(table)' = [Contents(table) EXCEPT ![k] = X] => Map!Change(k)
  PROVE  MapStep
<1>1. CASE X = Contents(table)[k]
  <2>1. Contents(table)' = Contents(table)
    BY <1>1, ZenonT(40) DEF Contents
  <2> QED BY <2>1, ZenonT(40) DEF MapStep, Map!mapVars
<1>2. CASE X # Contents(table)[k]
  <2>1. Contents(table)'[k] = X
    BY ZenonT(40) DEF Contents
  <2> QED BY <1>2, <2>1, ZenonT(40) DEF MapStep, Map!MapNext
<1> QED BY <1>1, <1>2, ZenonT(40)

\* Before Cleanup, with the watched entries W.
LEMMA InvTable ==
  ASSUME Basics, Inv, ~cleaned
  PROVE  /\ Table(table, Present(table), Watched) /\ TypeOK /\ stale = watched
         /\ ~stale => Watched = {}
         /\ \A e \in Watched : table.entry[e].staleTime <= now + Timeout
         /\ now \in 0..MaxTime /\ stale \in BOOLEAN /\ watched \in BOOLEAN
         /\ Present(table) \in SUBSET Entries /\ Watched \in SUBSET Present(table)
         /\ \A e \in Present(table) : e \in Watched <=> table.entry[e].transient
         /\ \A e \in Present(table) : table.entry[e].staleTime \in Nat
         /\ \A e \in Present(table) : table.entry[e].key \in Keys
<1>1. /\ Table(table, Present(table), Watched) /\ TypeOK /\ stale = watched
      /\ ~stale => Watched = {}
      /\ \A e \in Watched : table.entry[e].staleTime <= now + Timeout
  BY ZenonT(40) DEF Inv
<1>2. now \in 0..MaxTime /\ stale \in BOOLEAN /\ watched \in BOOLEAN /\ table \in Heap
  BY <1>1, TypeHeap, ZenonT(40)
<1>3. /\ Present(table) \in SUBSET Entries /\ Watched \in SUBSET Present(table)
      /\ \A e \in Present(table) : e \in Watched <=> table.entry[e].transient
      /\ \A e \in Present(table) : table.entry[e].key \in Keys
  BY <1>1, TableIs, ZenonT(40)
<1>4. \A e \in Entries : table.entry[e].staleTime \in Nat
  <2>1. \A e \in Entries : table.entry[e].staleTime \in 0..(MaxTime + Timeout)
    BY <1>2, ZenonT(40) DEF Heap, EntryType
  <2> QED BY <2>1, TimesAssumption
<1>5. \A e \in Present(table) : table.entry[e].staleTime \in Nat
  BY <1>3, <1>4, ZenonT(40)
<1> QED BY <1>1, <1>2, <1>3, <1>5, ZenonT(40)

\* A key's cell is that of its entry.
LEMMA CellOf ==
  ASSUME Basics, NEW h, NEW L, NEW W, Table(h, L, W), NEW e \in L
  PROVE  Contents(h)[h.entry[e].key] = {Cell(h, e)}
<1> DEFINE k == h.entry[e].key
<1>1. /\ k \in Keys /\ \A x \in L : h.entry[x].key = k => x = e
  BY TableIs
<1>2. Found(h, k) = {x \in L : h.entry[x].key = k}
  BY <1>1, TableFind
<1>3. Found(h, k) = {e}
  BY <1>1, <1>2, ZenonT(40)
<1> HIDE DEF k
<1>4. Contents(h)[k] = {Cell(h, e)}
  BY <1>1, <1>3, ZenonT(40) DEF Contents
<1> QED BY <1>4, ZenonT(40) DEF k

LEMMA NoChains ==
  ASSUME Basics, NEW h, h.entries = [b \in Buckets |-> Nil]
  PROVE  Present(h) = {} /\ Contents(h) = [k \in Keys |-> {}]
<1> DEFINE z == [x \in Entries |-> 0]
<1>1. z \in [Entries -> Nat] /\ {} \in SUBSET Entries
  BY ZenonT(40)
<1> HIDE DEF z
<1>2. \A b \in Buckets : h.entries[b] = Nil
  BY ZenonT(40)
<1>3. Linked(h, {}, z)
  BY <1>2, ZenonT(40) DEF Linked
<1>4. Present(h) = {}
  BY <1>1, <1>3, PresentIsLinked, ZenonT(40)
<1>5. \A k \in Keys : Found(h, k) = {}
  <2> TAKE k \in Keys
  <2>1. Found(h, k) = {e \in {} : h.entry[e].key = k}
    BY <1>1, <1>3, FoundIsKeyed
  <2> QED BY <2>1, ZenonT(40)
<1>6. Contents(h) = [k \in Keys |-> {}]
  BY <1>5, ZenonT(40) DEF Contents
<1> QED BY <1>4, <1>6, ZenonT(40)

\* A step that leaves the table and the requests' variables.
LEMMA MonitorStep ==
  ASSUME Inv, UNCHANGED <<table, stale, cleaned, now, watched>>, TypeOK',
         (monitor = "process" => stale)',
         (stale /\ monitor \in {"unlocked", "sleep"} =>
            wake <= now + (IF idle THEN EmptySleep ELSE Timeout))',
         InTime'
  PROVE  Inv' /\ MapStep
<1>1. Present(table)' = Present(table) /\ Watched' = Watched
  BY ZenonT(40) DEF Watched
<1>2. /\ (cleaned => ~stale /\ table.entries = [b \in Buckets |-> Nil] /\ table.held = 0)'
      /\ (~cleaned => /\ Table(table, Present(table), Watched) /\ stale = watched
                      /\ ~stale => Watched = {}
                      /\ \A e \in Watched : table.entry[e].staleTime <= now + Timeout)'
  BY <1>1, ZenonT(40) DEF Inv
<1>3. Inv'
  BY <1>2, ZenonT(40) DEF Inv
<1>4. MapStep
  BY ZenonT(40) DEF MapStep, Map!mapVars
<1> QED BY <1>3, <1>4, ZenonT(40)

LEMMA PanicStep ==
  ASSUME Inv, Panic
  PROVE  Inv' /\ MapStep
<1>1. /\ UNCHANGED <<table, stale, cleaned, now, wake, idle, watched>>
      /\ monitor' = "panicked"
  BY ZenonT(40) DEF Panic
<1>2. TypeOK
  BY ZenonT(40) DEF Inv
<1>3. TypeOK'
  BY <1>1, <1>2, ZenonT(40) DEF TypeOK
<1>4. monitor' \notin {"process", "unlocked", "sleep"}
  BY <1>1, ZenonT(40)
<1>5. InTime'
  BY <1>4, ZenonT(40) DEF InTime
<1> QED BY <1>1, <1>3, <1>4, <1>5, MonitorStep, ZenonT(40)

LEMMA AddEntryStep ==
  ASSUME Basics, Inv, ~strayed', NEW k \in Keys, NEW a \in Acts, NEW t \in BOOLEAN, AddEntry(k, a, t),
         ~Panic
  PROVE  Inv' /\ MapStep
<1> DEFINE L == Present(table)
           W == Watched
           f == Find(table, k)
<1>0. /\ ~cleaned
      /\ f = Nil => Free(table) # {}
      /\ f # Nil /\ ~t => ~table.entry[f].transient
      /\ table' = Added(table, k, a, t)
      /\ UNCHANGED <<stale, cleaned, now, monitorVars, watched>>
  BY ZenonT(40) DEF AddEntry, Usable, Overrides
<1>1. /\ Table(table, L, W) /\ stale = watched /\ (~stale => W = {})
      /\ \A x \in W : table.entry[x].staleTime <= now + Timeout
      /\ now \in 0..MaxTime /\ stale \in BOOLEAN
      /\ L \in SUBSET Entries /\ W \in SUBSET L
      /\ \A x \in L : x \in W <=> table.entry[x].transient
      /\ \A x \in L : table.entry[x].staleTime \in Nat
  BY <1>0, InvTable, ZenonT(40)
<1>2. CASE Refuses(table, f, t)
  <2>1. table' = table
    BY <1>0, <1>2, ZenonT(40) DEF Added
  <2> HIDE DEF L, W, f
  <2>2. Inv'
    <3>1. Table(table', L, W) /\ \A e \in W : e \in Watched /\ table'.entry[e].staleTime = table.entry[e].staleTime
      BY <2>1, <1>1, ZenonT(40) DEF W
    <3> QED BY <3>1, <1>0, <1>1, TableStep, ZenonT(40)
  <2>3. MapStep
    BY <2>1, <1>0, ZenonT(40) DEF MapStep, Map!mapVars
  <2> QED BY <2>2, <2>3, ZenonT(40)
<1>3. CASE ~Refuses(table, f, t)
  <2> DEFINE g == Added(table, k, a, t)
  <2>p. PICK e \in Entries : AddedAs(table, g, L, W, e, k, a, t)
    <3> HIDE DEF L, W
    <3> QED BY <1>0, <1>1, <1>3, AddedTable, ZenonT(40)
  <2>1. /\ \A x \in L : table.entry[x].key = k => x = e
        /\ e \in L => table.entry[e].key = k
        /\ Table(g, L \cup {e}, IF t /\ stale THEN W \cup {e} ELSE W \ {e})
        /\ g.entry[e].key = k /\ g.entry[e].actions = a
        /\ g.entry[e].transient <=> t /\ stale
        /\ t /\ stale => g.entry[e].staleTime = now + Timeout
        /\ Keeps(table, g, L \ {e})
    <3> HIDE DEF L, W, g
    <3> QED BY <2>p, ZenonT(40) DEF AddedAs
  <2>2. g = table'
    BY <1>0, ZenonT(40)
  <2> HIDE DEF L, W, f, g
  <2> DEFINE U == IF t /\ stale THEN W \cup {e} ELSE W \ {e}
             V == L \cup {e}
  <2>3. Inv'
    <3>1. \A x \in U : \/ x \in Watched /\ table'.entry[x].staleTime = table.entry[x].staleTime
                       \/ table'.entry[x].staleTime = now + Timeout
      BY <2>1, <2>2, <1>1, ZenonT(40) DEF Keeps, W
    <3>2. Table(table', V, U) /\ (~stale => U = {})
      BY <2>1, <2>2, <1>1, ZenonT(40)
    <3> HIDE DEF U, V
    <3> QED BY <3>1, <3>2, <1>0, TableStep, ZenonT(40)
  <2>4. Contents(g) = [Contents(table) EXCEPT ![k] = {Cell(g, e)}]
    <3>1. Table(g, V, U) /\ e \in V /\ \A x \in Entries : x # e => (x \in V <=> x \in L)
      BY <2>1, ZenonT(40)
    <3> HIDE DEF U, V
    <3>2. Contents(g) = [Contents(table) EXCEPT ![k] = IF e \in V THEN {Cell(g, e)} ELSE {}]
      BY <3>1, <2>1, <1>1, OneKey
    <3> QED BY <3>1, <3>2, ZenonT(40)
  <2>5. Cell(g, e) = [acts |-> a, deadline |-> IF t /\ watched THEN now + Timeout ELSE -1]
    BY <2>1, <1>1, ZenonT(40) DEF Cell
  <2>6. ~(t /\ \E c \in Contents(table)[k] : c.deadline = -1)
    <3> SUFFICES ASSUME t, NEW c \in Contents(table)[k], c.deadline = -1
                 PROVE  FALSE
      BY ZenonT(40)
    <3>1. PICK x \in Found(table, k) : c = Cell(table, x)
      BY ZenonT(40) DEF Contents
    <3>2. x \in L /\ table.entry[x].key = k
      BY <3>1, <1>1, TableFind
    <3>3. ~table.entry[x].transient
      <4>1. table.entry[x].staleTime # -1
        BY <3>2, <1>1
      <4> QED BY <3>1, <4>1, ZenonT(40) DEF Cell
    <3>4. f # Nil => f = x
      BY <3>2, <1>1, TableFind, TableIs DEF f
    <3>5. f # Nil
      BY <3>2, <1>1, TableFind DEF f
    <3> QED BY <3>3, <3>4, <3>5, <1>3, ZenonT(40) DEF Refuses
  <2>7. Map!Put(k, a, t)
    <3>1. Contents(table)' = [Contents(table) EXCEPT ![k] =
            {[acts |-> a, deadline |-> IF t /\ watched THEN now + Timeout ELSE -1]}]
      BY <2>2, <2>4, <2>5, ZenonT(40)
    <3> QED BY <3>1, <2>6, <1>0, ZenonT(40) DEF Map!Put, Map!Static, Map!Deadline
  <2>8. MapStep
    <3>1. Map!Change(k)
      BY <2>7, ZenonT(40) DEF Map!Change
    <3>2. Contents(table)' = [Contents(table) EXCEPT ![k] = {Cell(g, e)}]
      BY <2>2, <2>4, ZenonT(40)
    <3> QED BY <3>1, <3>2, <1>0, KeyStep, ZenonT(40)
  <2> QED BY <2>3, <2>8, ZenonT(40)
<1> QED BY <1>2, <1>3, ZenonT(40)

\* An entry leaves both the chains and the list.
LEMMA DropStep ==
  ASSUME Basics, Inv, ~cleaned, NEW e \in Present(table),
         table' = Collected(Remove(IF e \in Watched THEN StaleRemove(table, e) ELSE table, e)),
         UNCHANGED <<stale, cleaned, now, monitorVars, watched>>
  PROVE  /\ Inv'
         /\ Contents(table)' = [Contents(table) EXCEPT ![table.entry[e].key] = {}]
<1> DEFINE L == Present(table)
           W == Watched
           V == L \ {e}
           U == W \ {e}
           k == table.entry[e].key
           g == Collected(Remove(IF e \in W THEN StaleRemove(table, e) ELSE table, e))
<1>1. /\ Table(table, L, W) /\ (~stale => W = {})
      /\ L \in SUBSET Entries /\ W \in SUBSET L /\ k \in Keys /\ e \in L
      /\ e \in Entries
  BY InvTable, ZenonT(40)
<1>2. /\ Cardinality(L) \in Nat
      /\ \A x \in L : table.entry[x].key = k => x = e
  BY <1>1, TableIs
<1> HIDE DEF L, W
<1>3. Fit(table, L, W) /\ table.held = Cardinality(L)
  BY <1>1, ZenonT(40) DEF Table
<1>4. Dropped(table, g, L, W, e)
  BY <1>1, <1>3, DropShaped, ZenonT(40)
<1>g. g = table'
  BY ZenonT(40) DEF W
<1> HIDE DEF g
<1>5. /\ Fit(g, V, U) /\ g.held = table.held - 1
      /\ Keeps(table, g, L \ {e})
  BY <1>4, ZenonT(40) DEF Dropped
<1>6. Table(g, V, U)
  <2>1. Cardinality(V) = Cardinality(L) - 1
    <3>1. V \in SUBSET Entries /\ e \in Entries \ V /\ V \cup {e} = L
      BY <1>1, ZenonT(40)
    <3> HIDE DEF V
    <3>2. Cardinality(L) = Cardinality(V) + 1 /\ Cardinality(V) \in Nat
      BY <3>1, ZenonT(40) DEF Basics
    <3> QED BY <3>2
  <2> QED BY <2>1, <1>3, <1>5, ZenonT(40) DEF Table
<1>7. /\ ~stale => U = {}
      /\ \A x \in U : x \in Watched /\ g.entry[x].staleTime = table.entry[x].staleTime
  BY <1>1, <1>5, ZenonT(40) DEF Keeps, W
<1>8. /\ e \notin V /\ \A x \in Entries : x # e => (x \in V <=> x \in L)
  BY ZenonT(40)
<1> HIDE DEF V, U, k
<1>9. Inv'
  <2>1. /\ Table(table', V, U)
        /\ \A x \in U : x \in Watched /\ table'.entry[x].staleTime = table.entry[x].staleTime
    BY <1>g, <1>6, <1>7, ZenonT(40)
  <2> QED BY <2>1, <1>7, TableStep, ZenonT(40)
<1>10. Contents(g) = [Contents(table) EXCEPT ![k] = IF e \in V THEN {Cell(g, e)} ELSE {}]
  <2>1. table.entry[e].key = k
    BY ZenonT(40) DEF k
  <2> QED BY <2>1, <1>1, <1>2, <1>5, <1>6, <1>8, OneKey
<1>11. Contents(table)' = [Contents(table) EXCEPT ![k] = {}]
  BY <1>g, <1>8, <1>10, ZenonT(40)
<1> QED BY <1>9, <1>11, ZenonT(40) DEF k

LEMMA RemoveEntryStep ==
  ASSUME Basics, Inv, NEW k \in Keys, RemoveEntry(k)
  PROVE  Inv' /\ MapStep
<1> DEFINE e == Find(table, k)
<1>0. /\ ~cleaned /\ e # Nil /\ table' = Collected(Removed(table, e))
      /\ UNCHANGED <<stale, cleaned, now, monitorVars, watched>>
  BY ZenonT(40) DEF RemoveEntry, Usable
<1>1. /\ Table(table, Present(table), Watched) /\ (~stale => Watched = {})
      /\ stale \in BOOLEAN
      /\ \A x \in Present(table) : x \in Watched <=> table.entry[x].transient
  BY <1>0, InvTable, ZenonT(40)
<1>2. e \in Present(table) /\ table.entry[e].key = k
  BY <1>0, <1>1, TableFind, ZenonT(40)
<1> HIDE DEF e
<1>3. stale /\ table.entry[e].transient <=> e \in Watched
  BY <1>1, <1>2, ZenonT(40)
<1>4. table' = Collected(Remove(IF e \in Watched THEN StaleRemove(table, e) ELSE table, e))
  BY <1>0, <1>3, ZenonT(40) DEF Removed
<1>5. /\ Inv'
      /\ Contents(table)' = [Contents(table) EXCEPT ![table.entry[e].key] = {}]
  BY <1>0, <1>2, <1>4, DropStep, ZenonT(40)
<1>6. Contents(table)' = [Contents(table) EXCEPT ![k] = {}]
  BY <1>2, <1>5, ZenonT(40)
<1>7. Contents(table)[k] = {Cell(table, e)}
  BY <1>1, <1>2, CellOf, ZenonT(40)
<1>8. Map!Del(k)
  BY <1>0, <1>6, <1>7, ZenonT(40) DEF Map!Del
<1>9. Map!Change(k)
  BY <1>8, ZenonT(40) DEF Map!Change
<1>10. MapStep
  BY <1>0, <1>6, <1>9, KeyStep, ZenonT(40)
<1> QED BY <1>5, <1>10, ZenonT(40)

LEMMA MonitorExpireStep ==
  ASSUME Basics, Inv, MonitorExpire
  PROVE  Inv' /\ MapStep
<1> DEFINE e == table.head
<1>0. /\ monitor = "process" /\ e # Nil /\ table.entry[e].staleTime < now
      /\ table' = Collected(Remove(StaleRemove(table, e), e))
      /\ UNCHANGED <<stale, cleaned, now, monitorVars, watched>>
  BY ZenonT(40) DEF MonitorExpire, IsStale
<1>1. ~cleaned
  BY <1>0, ZenonT(40) DEF Inv
<1>2. /\ Table(table, Present(table), Watched) /\ Watched \in SUBSET Present(table)
      /\ \A x \in Present(table) : x \in Watched <=> table.entry[x].transient
      /\ \A x \in Present(table) : table.entry[x].key \in Keys
      /\ \A x \in Present(table) : table.entry[x].staleTime \in Nat
  BY <1>1, InvTable, ZenonT(40)
<1>3. e \in Watched
  <2>1. PICK r \in [Entries -> Nat], s \in [Entries -> Nat], m \in Nat :
          Shaped(table, Present(table), Watched, r, s, m)
    BY <1>2, ZenonT(40) DEF Table, Fit
  <2>2. Ordered(table, Watched, s, m)
    BY <2>1, ZenonT(40) DEF Shaped
  <2> QED BY <2>2, <1>0, ZenonT(40) DEF Ordered
<1> HIDE DEF e
<1>4. e \in Present(table) /\ table.entry[e].transient
  BY <1>2, <1>3, ZenonT(40)
<1>5. table' = Collected(Remove(IF e \in Watched THEN StaleRemove(table, e) ELSE table, e))
  BY <1>0, <1>3, ZenonT(40)
<1>6. /\ Inv'
      /\ Contents(table)' = [Contents(table) EXCEPT ![table.entry[e].key] = {}]
  BY <1>0, <1>1, <1>4, <1>5, DropStep, ZenonT(40)
<1> DEFINE k == table.entry[e].key
<1>7. k \in Keys /\ Contents(table)[k] = {Cell(table, e)}
  BY <1>2, <1>4, CellOf, ZenonT(40)
<1>8. Cell(table, e).deadline # -1 /\ Cell(table, e).deadline < now
  <2>1. Cell(table, e).deadline = table.entry[e].staleTime
    BY <1>4, ZenonT(40) DEF Cell
  <2>2. table.entry[e].staleTime \in Nat
    BY <1>2, <1>4, ZenonT(40)
  <2> QED BY <2>1, <2>2, <1>0
<1>9. Contents(table)' = [Contents(table) EXCEPT ![k] = {}]
  BY <1>6, ZenonT(40)
<1> HIDE DEF k
<1>10. Map!Age(k)
  BY <1>0, <1>7, <1>8, <1>9, ZenonT(40) DEF Map!Age, Map!Overdue, Map!Static
<1>11. Map!Change(k)
  BY <1>10, ZenonT(40) DEF Map!Change
<1>12. MapStep
  BY <1>0, <1>7, <1>9, <1>11, KeyStep, ZenonT(40)
<1> QED BY <1>6, <1>12, ZenonT(40)

LEMMA ProcessStep ==
  ASSUME Basics, Inv, NEW k \in Keys, Process(k), ~Panic
  PROVE  Inv' /\ MapStep
<1> DEFINE e == Find(table, k)
           L == Present(table)
           W == Watched
<1>0. /\ ~cleaned /\ table' = Used(table, e)
      /\ UNCHANGED <<stale, cleaned, now, monitorVars, watched>>
  BY ZenonT(40) DEF Process, Usable
<1>1. /\ Table(table, L, W) /\ (~stale => W = {})
      /\ \A x \in W : table.entry[x].staleTime <= now + Timeout
      /\ now \in 0..MaxTime /\ stale \in BOOLEAN
      /\ L \in SUBSET Entries /\ W \in SUBSET L
      /\ \A x \in L : x \in W <=> table.entry[x].transient
      /\ \A x \in L : table.entry[x].staleTime \in Nat
  BY <1>0, InvTable, ZenonT(40)
<1>2. CASE ~(e # Nil /\ stale /\ table.entry[e].transient)
  <2>1. table' = table
    BY <1>0, <1>2, ZenonT(40) DEF Used, Uses
  <2> HIDE DEF L, W, e
  <2>2. Inv'
    <3>1. Table(table', L, W) /\ \A x \in W : x \in Watched /\ table'.entry[x].staleTime = table.entry[x].staleTime
      BY <2>1, <1>1, ZenonT(40) DEF W
    <3> QED BY <3>1, <1>0, <1>1, TableStep, ZenonT(40)
  <2>3. MapStep
    BY <2>1, <1>0, ZenonT(40) DEF MapStep, Map!mapVars
  <2> QED BY <2>2, <2>3, ZenonT(40)
<1>3. CASE e # Nil /\ stale /\ table.entry[e].transient
  <2>1. e \in L /\ table.entry[e].key = k
    BY <1>1, <1>3, TableFind, ZenonT(40)
  <2> DEFINE j == StaleRemove(table, e)
  <2>2. table' = StaleAdd(j, e)
    BY <1>0, <1>3, ZenonT(40) DEF Used, Uses, StaleUse
  <2> HIDE DEF L, W, e
  <2>3. e \in W /\ e \in Entries /\ W \in SUBSET Entries /\ W \cup {e} = W
    BY <1>1, <1>3, <2>1, ZenonT(40)
  <2>4. Fit(table, L, W) /\ table.held = Cardinality(L) /\ table \in Heap
    BY <1>1, ZenonT(40) DEF Table, Fit, Shaped
  <2>5. j \in Heap /\ SameData(table, j)
    <3>1. PICK r \in [Entries -> Nat], s \in [Entries -> Nat], m \in Nat : Shaped(table, L, W, r, s, m)
      BY <2>4, ZenonT(40) DEF Fit
    <3>2. Ordered(table, W, s, m)
      BY <3>1, ZenonT(40) DEF Shaped
    <3>3. Unlists(table, j, e)
      BY <3>2, <2>3, <2>4, UnlistOrdered, ZenonT(40)
    <3> HIDE DEF j
    <3> QED BY <3>3, ZenonT(40) DEF Unlists
  <2>6. Marked(j, j, e)
    <3> HIDE DEF j
    <3>1. j.entry[e].transient
      BY <2>3, <2>5, <1>3, ZenonT(40) DEF SameData
    <3> QED BY <3>1, <2>5, ZenonT(40) DEF Marked, SameHash, SameData, SameStale
  <2>7. Queued(table, StaleAdd(j, e), L, W, e)
    BY <1>1, <2>3, <2>4, <2>5, <2>6, UseShaped, ZenonT(40)
  <2> HIDE DEF j
  <2>8. /\ Fit(table', L, W) /\ table'.held = table.held
        /\ table'.entry[e].staleTime = now + Timeout /\ table'.entry[e].transient
        /\ table'.entry[e].key = k /\ table'.entry[e].actions = table.entry[e].actions
        /\ Keeps(table, table', L \ {e})
    BY <2>1, <2>2, <2>3, <2>7, ZenonT(40) DEF Queued
  <2>9. Table(table', L, W)
    BY <2>4, <2>8, ZenonT(40) DEF Table
  <2>10. Inv'
    <3>1. \A x \in W : \/ x \in Watched /\ table'.entry[x].staleTime = table.entry[x].staleTime
                       \/ table'.entry[x].staleTime = now + Timeout
      BY <2>8, <1>1, ZenonT(40) DEF Keeps, W
    <3> QED BY <3>1, <2>9, <1>0, <1>1, TableStep, ZenonT(40)
  <2>11. Contents(table') = [Contents(table) EXCEPT ![k] = {Cell(table', e)}]
    <3>1. \A x \in L : table.entry[x].key = k => x = e
      BY <2>1, <1>1, TableIs, ZenonT(40)
    <3>2. Contents(table') = [Contents(table) EXCEPT ![k] = IF e \in L THEN {Cell(table', e)} ELSE {}]
      BY <3>1, <2>1, <2>3, <2>8, <2>9, <1>1, OneKey
    <3> QED BY <2>1, <3>2, ZenonT(40)
  <2>12. Contents(table)[k] = {Cell(table, e)}
    BY <1>1, <2>1, CellOf, ZenonT(40)
  <2>13. /\ Cell(table', e) = [Cell(table, e) EXCEPT !.deadline = now + Timeout]
         /\ Cell(table, e).deadline # -1
    <3>1. table.entry[e].staleTime # -1
      BY <1>1, <2>1
    <3> QED BY <3>1, <2>8, <1>3 DEF Cell
  <2> HIDE DEF Cell
  <2>14. Map!Use(k)
    <3> DEFINE c == Cell(table, e)
               d == [c EXCEPT !.deadline = now + Timeout]
    <3>1. {[y EXCEPT !.deadline = now + Timeout] : y \in Contents(table)[k]} = {d}
      BY <2>12, ZenonT(40)
    <3>2. Contents(table)' = [Contents(table) EXCEPT ![k] =
            {[y EXCEPT !.deadline = now + Timeout] : y \in Contents(table)[k]}]
      BY <3>1, <2>11, <2>13, ZenonT(40)
    <3> QED BY <3>2, <2>12, <2>13, <1>0, ZenonT(40) DEF Map!Use, Map!Static, Map!Deadline
  <2>15. MapStep
    <3>1. Map!Change(k)
      BY <2>14, ZenonT(40) DEF Map!Change
    <3>2. Contents(table)' = [Contents(table) EXCEPT ![k] = {Cell(table', e)}]
      BY <2>11, ZenonT(40)
    <3> QED BY <3>1, <3>2, <1>0, KeyStep, ZenonT(40)
  <2> QED BY <2>10, <2>15
<1> QED BY <1>2, <1>3, ZenonT(40)

\* Clear and Cleanup empty the chains.
LEMMA EmptiedFacts ==
  ASSUME Basics, NEW h, NEW L, NEW W, Table(h, L, W)
  PROVE  /\ Collected(Emptied(h)) \in Heap
         /\ Collected(Emptied(h)).entries = [b \in Buckets |-> Nil]
         /\ Collected(Emptied(h)).held = 0
         /\ Collected(Emptied(h)).head = h.head /\ Collected(Emptied(h)).tail = h.tail
<1> DEFINE i == Emptied(h)
           g == Collected(i)
<1>1. h \in Heap /\ Present(h) = L /\ Cardinality(L) \in Nat
  BY TableIs, ZenonT(40)
<1>2. h.held = Cardinality(L)
  BY ZenonT(40) DEF Table
<1>3. /\ i.entry = h.entry /\ i.head = h.head /\ i.tail = h.tail
      /\ i.entries = [b \in Buckets |-> Nil] /\ i.held = h.held - Cardinality(L)
      /\ i = [entry |-> i.entry, entries |-> i.entries, head |-> i.head, tail |-> i.tail,
              held |-> i.held]
  <2>1. h = [entry |-> h.entry, entries |-> h.entries, head |-> h.head, tail |-> h.tail,
             held |-> h.held]
    BY <1>1, ZenonT(40) DEF Heap
  <2> DEFINE z == [b \in Buckets |-> Nil]
             n == h.held - Cardinality(L)
  <2>2. i = [h EXCEPT !.entries = z, !.held = n]
    BY <1>1, ZenonT(40) DEF Emptied
  <2> HIDE DEF i, z, n
  <2>3. i = [entry |-> h.entry, entries |-> z, head |-> h.head, tail |-> h.tail, held |-> n]
    BY <2>1, <2>2, ZenonT(40)
  <2> QED BY <2>3, ZenonT(40) DEF z, n
<1>4. i.held = 0
  BY <1>1, <1>2, <1>3
<1> HIDE DEF i
<1>5. i \in Heap
  <2>1. /\ h.entry \in [Entries -> EntryType] /\ h.head \in Ref /\ h.tail \in Ref
    BY <1>1, ZenonT(40) DEF Heap
  <2>2. [b \in Buckets |-> Nil] \in [Buckets -> Ref]
    BY ZenonT(40) DEF Ref
  <2> QED BY <1>3, <1>4, <2>1, <2>2 DEF Heap
<1>6. Collects(i, g, Visited(Anchors(i), Links(i)))
  BY <1>5, CollectedFacts, ZenonT(40)
<1> HIDE DEF g
<1>7. g \in Heap /\ g.entries = i.entries /\ g.head = i.head /\ g.tail = i.tail /\ g.held = i.held
  BY <1>6, ZenonT(40) DEF Collects
<1>8. /\ g \in Heap /\ g.entries = [b \in Buckets |-> Nil] /\ g.held = 0
      /\ g.head = h.head /\ g.tail = h.tail
  BY <1>3, <1>4, <1>7, ZenonT(40)
<1> QED BY <1>8, ZenonT(40) DEF g, i

LEMMA EmptyStep ==
  ASSUME Basics, UNCHANGED <<now, watched>>, table'.entries = [b \in Buckets |-> Nil]
  PROVE  MapStep
<1>1. Contents(table)' = [k \in Keys |-> {}]
  BY NoChains, ZenonT(40)
<1>2. Map!Empty
  BY <1>1, ZenonT(40) DEF Map!Empty
<1> QED BY <1>2, ZenonT(40) DEF MapStep, Map!MapNext

LEMMA ClearStep ==
  ASSUME Basics, Inv, ~strayed', Clear
  PROVE  Inv' /\ MapStep
<1>0. /\ ~cleaned /\ table.head = Nil /\ table' = Collected(Emptied(table))
      /\ UNCHANGED <<stale, cleaned, now, monitorVars, watched>>
  BY ZenonT(40) DEF Clear, Usable
<1>1. Table(table, Present(table), Watched)
  BY <1>0, InvTable, ZenonT(40)
<1>2. /\ table' \in Heap /\ table'.entries = [b \in Buckets |-> Nil] /\ table'.held = 0
      /\ table'.head = table.head /\ table'.tail = table.tail
  BY <1>0, <1>1, EmptiedFacts, ZenonT(40)
<1>3. table.tail = Nil
  <2>1. PICK r \in [Entries -> Nat], s \in [Entries -> Nat], m \in Nat :
          Shaped(table, Present(table), Watched, r, s, m)
    BY <1>1, ZenonT(40) DEF Table, Fit
  <2>2. Ordered(table, Watched, s, m)
    BY <2>1, ZenonT(40) DEF Shaped
  <2> QED BY <2>2, <1>0, ZenonT(40) DEF Ordered
<1>4. Fit(table', {}, {})
  BY <1>0, <1>2, <1>3, EmptyShaped, ZenonT(40)
<1>5. Table(table', {}, {})
  BY <1>2, <1>4, ZenonT(40) DEF Table, Basics
<1>6. Inv'
  BY <1>0, <1>5, TableStep
<1>7. MapStep
  BY <1>0, <1>2, EmptyStep, ZenonT(40)
<1> QED BY <1>6, <1>7, ZenonT(40)

LEMMA CleanupStep ==
  ASSUME Basics, Inv, Cleanup
  PROVE  Inv' /\ MapStep
<1>0. /\ ~cleaned /\ monitor # "process" /\ cleaned' = TRUE /\ stale' = FALSE
      /\ table' = Collected(Emptied(table))
      /\ UNCHANGED <<now, monitor, wake, idle, watched>>
  BY ZenonT(40) DEF Cleanup, Usable, Unlocked, monitorVars
<1>1. Table(table, Present(table), Watched) /\ TypeOK
  BY <1>0, InvTable, ZenonT(40)
<1>2. /\ table' \in Heap /\ table'.entries = [b \in Buckets |-> Nil] /\ table'.held = 0
  BY <1>0, <1>1, EmptiedFacts, ZenonT(40)
<1>3. TypeOK'
  <2>1. table' \in [entry : [Entries -> EntryType], entries : [Buckets -> Ref],
                    head : Ref, tail : Ref, held : Nat]
    BY <1>2, HeapType
  <2> QED BY <2>1, <1>0, <1>1, ZenonT(40) DEF TypeOK
<1>4. Inv'
  BY <1>0, <1>2, <1>3, ZenonT(40) DEF Inv, InTime
<1>5. MapStep
  BY <1>0, <1>2, EmptyStep, ZenonT(40)
<1> QED BY <1>4, <1>5, ZenonT(40)

LEMMA MonitorMoves ==
  ASSUME Inv, MonitorLock \/ MonitorSelect \/ MonitorWake \/ MonitorStop
  PROVE  Inv' /\ MapStep
<1>1. /\ UNCHANGED <<table, stale, cleaned, now, wake, idle, watched>>
      /\ monitor' \in {"off", "lock", "process", "unlocked", "sleep", "done", "panicked"}
      /\ monitor' = "process" => stale
      /\ monitor' \in {"unlocked", "sleep"} => monitor = "unlocked"
  BY ZenonT(40) DEF MonitorLock, MonitorSelect, MonitorWake, MonitorStop
<1>2. /\ TypeOK /\ InTime
      /\ stale /\ monitor \in {"unlocked", "sleep"} =>
           wake <= now + (IF idle THEN EmptySleep ELSE Timeout)
  BY ZenonT(40) DEF Inv
<1>3. TypeOK'
  BY <1>1, <1>2, ZenonT(40) DEF TypeOK
<1>4. InTime'
  BY <1>1, <1>2, ZenonT(40) DEF InTime, Watched
<1>5. /\ (monitor = "process" => stale)'
      /\ (stale /\ monitor \in {"unlocked", "sleep"} =>
            wake <= now + (IF idle THEN EmptySleep ELSE Timeout))'
  BY <1>1, <1>2, ZenonT(40)
<1> QED BY <1>1, <1>3, <1>4, <1>5, MonitorStep, ZenonT(40)

LEMMA MonitorProcessedStep ==
  ASSUME Basics, Inv, MonitorProcessed
  PROVE  Inv' /\ MapStep
<1> DEFINE e == table.head
<1>0. /\ monitor = "process" /\ ~IsStale(e) /\ monitor' = "unlocked"
      /\ wake' = now + (IF e = Nil THEN EmptySleep ELSE table.entry[e].staleTime - now)
      /\ idle' = (e = Nil)
      /\ UNCHANGED <<table, stale, cleaned, now, watched>>
  BY ZenonT(40) DEF MonitorProcessed
<1>1. ~cleaned /\ stale
  BY <1>0, ZenonT(40) DEF Inv
<1>2. /\ Table(table, Present(table), Watched) /\ Watched \in SUBSET Present(table)
      /\ Present(table) \in SUBSET Entries
      /\ TypeOK /\ now \in 0..MaxTime
      /\ \A x \in Watched : table.entry[x].staleTime <= now + Timeout
      /\ \A x \in Present(table) : table.entry[x].staleTime \in Nat
  BY <1>1, InvTable, ZenonT(40)
<1>3. /\ e # Nil => e \in Watched
      /\ e = Nil => Watched = {}
      /\ \A x \in Watched : table.entry[e].staleTime <= table.entry[x].staleTime
  <2>1. PICK r \in [Entries -> Nat], s \in [Entries -> Nat], m \in Nat :
          Shaped(table, Present(table), Watched, r, s, m)
    BY <1>2, ZenonT(40) DEF Table, Fit
  <2>2. Ordered(table, Watched, s, m)
    BY <2>1, ZenonT(40) DEF Shaped
  <2>3. e # Nil => e \in Watched
    BY <2>2, ZenonT(40) DEF Ordered
  <2>4. Watched \in SUBSET Entries
    BY <1>2, ZenonT(40)
  <2>5. Watched # {} => e # Nil /\ \A x \in Watched : table.entry[e].staleTime <= table.entry[x].staleTime
    BY <2>2, <2>4, HeadFirst, ZenonT(40)
  <2> QED BY <2>3, <2>5, ZenonT(40)
<1> HIDE DEF e
<1>4. CASE e = Nil
  <2>1. wake' = now + EmptySleep /\ idle' = TRUE /\ Watched = {} /\ wake' \in Nat
    BY <1>0, <1>2, <1>3, <1>4, TypeHeap, ZenonT(40)
  <2>2. TypeOK'
    BY <2>1, <1>0, <1>2, ZenonT(40) DEF TypeOK
  <2>3. InTime'
    BY <2>1, <1>0, ZenonT(40) DEF InTime, Watched
  <2>4. wake' <= now + EmptySleep
    BY <2>1, <1>2, TypeHeap
  <2> QED BY <2>1, <2>2, <2>3, <2>4, <1>0, MonitorStep, ZenonT(40)
<1>5. CASE e # Nil
  <2>1. table.entry[e].staleTime \in Nat /\ table.entry[e].staleTime <= now + Timeout
    BY <1>2, <1>3, <1>5, ZenonT(40)
  <2>2. wake' = table.entry[e].staleTime /\ idle' = FALSE
    <3>1. wake' = now + (table.entry[e].staleTime - now) /\ idle' = FALSE
      BY <1>0, <1>5, ZenonT(40)
    <3>2. now \in Nat
      BY <1>2, TypeHeap, ZenonT(40)
    <3> QED BY <3>1, <3>2, <2>1
  <2>3. TypeOK'
    BY <2>1, <2>2, <1>0, <1>2, ZenonT(40) DEF TypeOK
  <2>4. InTime'
    BY <2>2, <1>0, <1>3, ZenonT(40) DEF InTime, Watched
  <2> QED BY <2>1, <2>2, <2>3, <2>4, <1>0, <1>1, MonitorStep, ZenonT(40)
<1> QED BY <1>4, <1>5, ZenonT(40)

LEMMA TickStep ==
  ASSUME Basics, Inv, Tick
  PROVE  Inv' /\ MapStep
<1>0. /\ now < MaxTime /\ monitor # "process" /\ now' = now + 1
      /\ UNCHANGED <<table, stale, cleaned, monitor, wake, idle, watched>>
  BY ZenonT(40) DEF Tick, Unlocked, monitorVars
<1>1. TypeOK /\ InTime
  BY ZenonT(40) DEF Inv
<1>2. /\ table \in Heap /\ now \in 0..MaxTime /\ wake \in Nat /\ now' \in 0..MaxTime
      /\ now + Timeout \in Nat /\ now + EmptySleep \in Nat
      /\ now' + Timeout = now + Timeout + 1 /\ now' + EmptySleep = now + EmptySleep + 1
  BY <1>0, <1>1, TypeHeap, TimesAssumption
<1>3. TypeOK'
  BY <1>0, <1>1, <1>2, ZenonT(40) DEF TypeOK
<1>4. Present(table)' = Present(table) /\ Watched' = Watched
  BY <1>0, ZenonT(40) DEF Watched
<1>5. InTime'
  BY <1>0, <1>1, <1>4, ZenonT(40) DEF InTime
<1>6. \A e \in Entries : table.entry[e].staleTime \in Int
  <2>1. \A e \in Entries : table.entry[e].staleTime \in 0..(MaxTime + Timeout)
    BY <1>2, ZenonT(40) DEF Heap, EntryType
  <2> QED BY <2>1, TimesAssumption
<1>7. Watched \in SUBSET Entries
  BY ZenonT(40) DEF Watched, Present, Visited
<1>8. Inv'
  <2>a. CASE cleaned
    BY <1>0, <1>3, <1>5, <2>a, ZenonT(40) DEF Inv
  <2>b. CASE ~cleaned
    <3>1. (~cleaned => /\ Table(table, Present(table), Watched) /\ stale = watched
                       /\ ~stale => Watched = {})'
      BY <1>0, <1>4, <2>b, ZenonT(40) DEF Inv
    <3>2. (\A e \in Watched : table.entry[e].staleTime <= now + Timeout)'
      <4>1. \A e \in Watched : table.entry[e].staleTime <= now + Timeout
        BY <2>b, InvTable, ZenonT(40)
      <4> QED BY <4>1, <1>0, <1>2, <1>4, <1>6, <1>7
    <3>3. (stale /\ monitor \in {"unlocked", "sleep"} =>
             wake <= now + (IF idle THEN EmptySleep ELSE Timeout))'
      <4>1. stale /\ monitor \in {"unlocked", "sleep"} =>
              wake <= now + (IF idle THEN EmptySleep ELSE Timeout)
        BY ZenonT(40) DEF Inv
      <4> QED BY <4>1, <1>0, <1>2
    <3> QED BY <3>1, <3>2, <3>3, <1>0, <1>3, <1>5, <2>b, ZenonT(40) DEF Inv
  <2> QED BY <2>a, <2>b, ZenonT(40)
<1>10. MapStep
  <2>1. Map!Pass
    BY <1>0, ZenonT(40) DEF Map!Pass
  <2> QED BY <2>1, ZenonT(40) DEF MapStep, Map!MapNext
<1> QED BY <1>8, <1>10

\* Every step keeps the invariant and is a step of the map, or leaves the map alone.
LEMMA NextStep ==
  ASSUME Basics, Inv, ~strayed', [Next]_vars
  PROVE  Inv' /\ MapStep
<1>1. ASSUME NEW k \in Keys, NEW a \in Acts, NEW t \in BOOLEAN, AddEntry(k, a, t)
      PROVE  Inv' /\ MapStep
  BY <1>1, AddEntryStep, PanicStep, ZenonT(40)
<1>2. ASSUME NEW k \in Keys, RemoveEntry(k)
      PROVE  Inv' /\ MapStep
  BY <1>2, RemoveEntryStep, ZenonT(40)
<1>3. ASSUME NEW k \in Keys, Process(k)
      PROVE  Inv' /\ MapStep
  BY <1>3, ProcessStep, PanicStep, ZenonT(40)
<1>4. CASE Clear
  BY <1>4, ClearStep, ZenonT(40)
<1>5. CASE Cleanup
  BY <1>5, CleanupStep, ZenonT(40)
<1>6. CASE Monitor
  <2>1. CASE MonitorExpire
    BY <2>1, MonitorExpireStep
  <2>2. CASE MonitorProcessed
    BY <2>2, MonitorProcessedStep
  <2>3. CASE MonitorLock \/ MonitorSelect \/ MonitorWake \/ MonitorStop
    BY <2>3, MonitorMoves, ZenonT(40)
  <2> QED BY <1>6, <2>1, <2>2, <2>3, ZenonT(40) DEF Monitor
<1>7. CASE Tick
  BY <1>7, TickStep
<1>8. CASE UNCHANGED vars
  <2>1. UNCHANGED <<table, stale, cleaned, now, monitor, wake, idle, watched>>
    BY <1>8, ZenonT(40) DEF vars, monitorVars
  <2>2. /\ TypeOK /\ InTime /\ (monitor = "process" => stale)
        /\ stale /\ monitor \in {"unlocked", "sleep"} =>
             wake <= now + (IF idle THEN EmptySleep ELSE Timeout)
    BY ZenonT(40) DEF Inv
  <2>3. TypeOK'
    BY <2>1, <2>2, ZenonT(40) DEF TypeOK
  <2>4. InTime'
    BY <2>1, <2>2, ZenonT(40) DEF InTime, Watched
  <2> QED BY <2>1, <2>2, <2>3, <2>4, MonitorStep, ZenonT(40)
<1> QED BY <1>1, <1>2, <1>3, <1>4, <1>5, <1>6, <1>7, <1>8, ZenonT(40) DEF Next

LEMMA InitStep ==
  ASSUME Basics, Init
  PROVE  Inv /\ Map!MapInit
<1>0. /\ table = [entry |-> [e \in Entries |-> Blank], entries |-> [b \in Buckets |-> Nil],
                  head |-> Nil, tail |-> Nil, held |-> 0]
      /\ stale \in BOOLEAN /\ watched = stale /\ cleaned = FALSE /\ now = 0
      /\ monitor = (IF stale THEN "lock" ELSE "off") /\ wake = 0 /\ idle = FALSE
  BY ZenonT(40) DEF Init
<1>1. /\ table.entry = [e \in Entries |-> Blank] /\ table.entries = [b \in Buckets |-> Nil]
      /\ table.head = Nil /\ table.tail = Nil /\ table.held = 0
  BY <1>0, ZenonT(40)
<1>2. table \in Heap
  <2>1. [e \in Entries |-> Blank] \in [Entries -> EntryType]
    BY BlankType, ZenonT(40)
  <2>2. [b \in Buckets |-> Nil] \in [Buckets -> Ref] /\ Nil \in Ref
    BY ZenonT(40) DEF Ref
  <2> QED BY <1>0, <2>1, <2>2 DEF Heap
<1>3. TypeOK
  <2>1. table \in [entry : [Entries -> EntryType], entries : [Buckets -> Ref],
                   head : Ref, tail : Ref, held : Nat]
    BY <1>1, <1>2, HeapType
  <2>2. 0 \in 0..MaxTime
    BY TimesAssumption
  <2>3. monitor \in {"off", "lock", "process", "unlocked", "sleep", "done", "panicked"}
    BY <1>0, ZenonT(40)
  <2> QED BY <1>0, <2>1, <2>2, <2>3, ZenonT(40) DEF TypeOK
<1>4. Present(table) = {} /\ Contents(table) = [k \in Keys |-> {}]
  BY <1>1, NoChains, ZenonT(40)
<1>5. Watched = {}
  BY <1>4, ZenonT(40) DEF Watched
<1>6. Table(table, {}, {})
  <2>1. Fit(table, {}, {})
    BY <1>1, <1>2, EmptyShaped, ZenonT(40)
  <2> QED BY <1>1, <2>1, ZenonT(40) DEF Table, Basics
<1>7. monitor \notin {"process", "unlocked", "sleep"}
  BY <1>0, ZenonT(40)
<1>8. Inv
  <2>1. Table(table, Present(table), Watched)
    BY <1>4, <1>5, <1>6, ZenonT(40)
  <2> QED BY <1>0, <1>3, <1>5, <1>7, <2>1, ZenonT(40) DEF Inv, InTime
<1>9. Map!MapInit
  BY <1>0, <1>4, ZenonT(40) DEF Map!MapInit
<1> QED BY <1>8, <1>9, ZenonT(40)

LEMMA InvListIsExact ==
  ASSUME Basics, Inv
  PROVE  TypeOK /\ (stale => ListIsExact)
<1>1. TypeOK
  BY ZenonT(40) DEF Inv
<1>2. ASSUME stale
      PROVE  ListIsExact
  <2>1. ~cleaned
    BY <1>2, ZenonT(40) DEF Inv
  <2>2. Table(table, Present(table), Watched)
    BY <2>1, InvTable, ZenonT(40)
  <2>3. PICK r \in [Entries -> Nat], s \in [Entries -> Nat], m \in Nat :
          Shaped(table, Present(table), Watched, r, s, m)
    BY <2>2, ZenonT(40) DEF Table, Fit
  <2>4. /\ Ordered(table, Watched, s, m) /\ Watched \in SUBSET Present(table)
        /\ Present(table) \in SUBSET Entries
    BY <2>3, ZenonT(40) DEF Shaped
  <2>5. Watched \in SUBSET Entries
    BY <2>4, ZenonT(40)
  <2>6. Listed = Watched
    BY <2>4, <2>5, ListedIsOrdered, ZenonT(40) DEF Listed
  <2>7. /\ table.head = Nil => table.tail = Nil
        /\ table.head # Nil => table.entry[table.head].stalePrev = Nil
    BY <2>4, ZenonT(40) DEF Ordered
  <2>8. ASSUME NEW e \in Watched
        PROVE  LET n == table.entry[e].staleNext
               IN  IF n = Nil THEN table.tail = e
                   ELSE table.entry[n].stalePrev = e /\ table.entry[e].staleTime <= table.entry[n].staleTime
    <3> DEFINE n == table.entry[e].staleNext
    <3>1. IF n = Nil THEN table.tail = e
          ELSE n \in Watched /\ table.entry[n].stalePrev = e /\ s[e] < s[n]
      BY <2>4, ZenonT(40) DEF Ordered
    <3>2. \A f \in Watched : s[e] <= s[f] => table.entry[e].staleTime <= table.entry[f].staleTime
      BY <2>4, ZenonT(40) DEF Ordered
    <3>3. \A f \in Watched : s[e] < s[f] => s[e] <= s[f]
      BY <2>5
    <3> HIDE DEF n
    <3>4. IF n = Nil THEN table.tail = e
          ELSE table.entry[n].stalePrev = e /\ table.entry[e].staleTime <= table.entry[n].staleTime
      BY <3>1, <3>2, <3>3, ZenonT(40)
    <3> QED BY <3>4, ZenonT(40) DEF n
  <2> QED BY <2>6, <2>7, <2>8, ZenonT(40) DEF ListIsExact
<1> QED BY <1>1, <1>2, ZenonT(40)

LEMMA InvActionsBalanced ==
  ASSUME Basics, Inv
  PROVE  table.held = Cardinality(Present(table))
<1>1. CASE cleaned
  <2>1. table.entries = [b \in Buckets |-> Nil] /\ table.held = 0
    BY <1>1, ZenonT(40) DEF Inv
  <2> QED BY <2>1, NoChains, ZenonT(40) DEF Basics
<1>2. CASE ~cleaned
  BY <1>2, InvTable, ZenonT(40) DEF Table
<1> QED BY <1>1, <1>2, ZenonT(40)

(***************************************************************************)
(* Basics holds, by the library's theorems.  They come with a Cardinality  *)
(* of their own: Size, its definition, shows that the two are the same.    *)
(***************************************************************************)
Size(S) ==
  LET CS[T \in SUBSET S] == IF T = {} THEN 0 ELSE 1 + CS[T \ {CHOOSE x : x \in T}] IN CS[S]

LEMMA CardinalityIsSize ==
  ASSUME NEW S
  PROVE  Cardinality(S) = Size(S)
BY DEF Cardinality, Size

LEMMA BasicsOfSize ==
  ASSUME \A T \in SUBSET Nat : T # {} => \E n \in T : \A m \in T : n <= m,
         Size({}) = 0,
         \A S \in SUBSET Entries : Size(S) \in Nat,
         \A S \in SUBSET Entries : \A e \in Entries \ S : Size(S \cup {e}) = Size(S) + 1
  PROVE  Basics
BY CardinalityIsSize, ZenonT(40) DEF Basics

LOCAL INSTANCE WellFoundedInduction
LOCAL INSTANCE FiniteSetTheorems

LEMMA SizeIsCardinality ==
  ASSUME NEW S
  PROVE  Size(S) = Cardinality(S)
BY DEF Cardinality, Size

LEMMA BasicsHold == Basics
<1>1. ASSUME NEW T \in SUBSET Nat, T # {}
      PROVE  \E n \in T : \A m \in T : n <= m
  <2>1. PICK x \in T : \A y \in T : ~(<<y, x>> \in OpToRel(<, Nat))
    BY <1>1, WFMin, NatLessThanWellFounded, Zenon
  <2>2. \A y \in T : ~(y < x)
    BY <2>1, ZenonT(40) DEF OpToRel
  <2> QED BY <2>2
<1>2. Size({}) = 0
  BY SizeIsCardinality, FS_EmptySet
<1>3. ASSUME NEW S \in SUBSET Entries
      PROVE  IsFiniteSet(S) /\ Size(S) \in Nat
  <2>1. IsFiniteSet(Entries)
    BY EntriesAssumption, FS_Interval DEF Entries
  <2>2. IsFiniteSet(S)
    BY <2>1, FS_Subset, ZenonT(40)
  <2>3. Cardinality(S) \in Nat
    BY <2>2, FS_CardinalityType
  <2> QED BY <2>2, <2>3, SizeIsCardinality, ZenonT(40)
<1>4. ASSUME NEW S \in SUBSET Entries, NEW e \in Entries \ S
      PROVE  Size(S \cup {e}) = Size(S) + 1
  <2>1. Cardinality(S \cup {e}) = Cardinality(S) + 1
    BY <1>3, FS_AddElement
  <2> QED BY <2>1, SizeIsCardinality, ZenonT(40)
<1> QED BY <1>1, <1>2, <1>3, <1>4, BasicsOfSize, ZenonT(40)

(***************************************************************************)
(* The theorems, for every hash function, set of keys, timeout and bound.  *)
(* Every request is a step, also the two after which the code's list is    *)
(* wrong, a static entry that replaces a transient one and Clear with      *)
(* transient entries in the table: they set strayed, and the invariant     *)
(* holds until then.                                                       *)
(***************************************************************************)
Safe == ~strayed => Inv

LEMMA StrayedStays ==
  ASSUME strayed, [Next]_vars
  PROVE  strayed'
<1>1. ASSUME NEW k \in Keys, NEW a \in Acts, NEW t \in BOOLEAN, AddEntry(k, a, t)
      PROVE  strayed'
  BY <1>1, ZenonT(40) DEF AddEntry, Panic, history
<1>2. ASSUME NEW k \in Keys, RemoveEntry(k) \/ Process(k)
      PROVE  strayed'
  BY <1>2, ZenonT(40) DEF RemoveEntry, Process, Panic, history
<1>3. CASE Clear \/ Cleanup \/ Tick
  BY <1>3, ZenonT(40) DEF Clear, Cleanup, Tick, history
<1>4. CASE Monitor
  BY <1>4, ZenonT(40) DEF Monitor, MonitorLock, MonitorExpire, MonitorProcessed, MonitorSelect,
                          MonitorWake, MonitorStop, history
<1>5. CASE UNCHANGED vars
  BY <1>5, ZenonT(40) DEF vars, history
<1> QED BY <1>1, <1>2, <1>3, <1>4, <1>5, ZenonT(40) DEF Next

\* Requests, packets, the monitor and the clock keep the inductive invariant until
\* the list strays: the chains and the stale list are doubly linked lists without
\* cycles, in which every entry of the table occurs once.
THEOREM ExactTableInvariant == Spec => []Safe
<1>1. Init => Safe
  BY BasicsHold, InitStep, ZenonT(40) DEF Safe
<1>2. Safe /\ [Next]_vars => Safe'
  BY BasicsHold, NextStep, StrayedStays, ZenonT(40) DEF Safe
<1> QED BY <1>1, <1>2, PTL DEF Spec

\* Until the list strays it holds exactly the transient entries, linked both ways
\* and in the order in which they become stale, whatever add, remove, use and
\* process of exact.go did before.
THEOREM ExactTableListIsExact == Spec => []StaleListIsExact
<1>1. Safe => StaleListIsExact
  BY BasicsHold, InvListIsExact, ZenonT(40) DEF Safe, StaleListIsExact
<1> QED BY <1>1, ExactTableInvariant, PTL

\* Until then every list of actions made for an entry is cleaned up once: by
\* AddEntry that replaces it, by remove, or by Clear and Cleanup of the table.
THEOREM ExactTableActionsBalanced == Spec => []ActionsBalanced
<1>1. Safe => ActionsBalanced
  BY BasicsHold, InvActionsBalanced, ZenonT(40) DEF Safe, ActionsBalanced
<1> QED BY <1>1, ExactTableInvariant, PTL

\* Until then the timer with which staleMonitor sleeps is never later than the first
\* entry to become stale, but for one added since the monitor found the list empty.
THEOREM ExactTableMonitorInTime == Spec => []MonitorInTime
<1>1. Safe => MonitorInTime
  BY ZenonT(40) DEF Safe, Inv, MonitorInTime
<1> QED BY <1>1, ExactTableInvariant, PTL

\* Every step that does not stray is a step of the map: Find, AddEntry, RemoveEntry,
\* Clear and Process act on one entry per key, and the monitor takes only entries
\* past their deadline.
THEOREM ExactTableImplementsMap == Spec => ImplementsMap
<1>1. Init => Map!MapInit
  BY BasicsHold, InitStep, ZenonT(40)
<1>2. Safe /\ [Next]_vars => [strayed' \/ Map!MapNext]_(Map!mapVars)
  BY BasicsHold, NextStep, StrayedStays, ZenonT(40) DEF Safe, MapStep
<1> QED BY <1>1, <1>2, ExactTableInvariant, PTL DEF Spec, ImplementsMap
=============================================================================

---------------------------- MODULE QueueProofs ----------------------------
(***************************************************************************)
(* The safety of the queue for any number of writers, any capacity and any *)
(* number of Write calls.                                                  *)
(***************************************************************************)
EXTENDS Queue, FiniteSetTheorems, TLAPS

\* What the queue's invariants need to be inductive: a woken out goroutine
\* has something to find, an element in transit is a real one, and the
\* goroutines of Run start together.
Wakeful == outPc = "woken" => closed \/ elements # <<>>
Transit == inPc = "append" => inHand # None
Started == inPc = "off" => outPc = "off"

IInv == TypeOK /\ CountAccounting /\ CountersAgree /\ NoEmptyPop
        /\ Wakeful /\ Transit /\ Started

\* The writers blocked on q.in are finitely many, and one joining or leaving
\* them changes their number by one.
LEMMA OfferingFinite ==
  IsFiniteSet(Offering) /\ Cardinality(Offering) \in Nat
<1>1. Offering \subseteq Writers
  BY ZenonT(40) DEF Offering
<1>2. IsFiniteSet(Offering)
  BY <1>1, WritersAssumption, FS_Subset, ZenonT(40)
<1> QED
  BY <1>2, FS_CardinalityType, ZenonT(40)

LEMMA OfferingGrows ==
  ASSUME NEW w \in Writers, TypeOK, sending[w] = None, NEW e \in Elements,
         sending' = [sending EXCEPT ![w] = e]
  PROVE  Cardinality(Offering') = Cardinality(Offering) + 1
<1>1. Offering' = Offering \cup {w}
  BY DEF TypeOK, Offering, Elements, None
<1>2. w \notin Offering
  BY ZenonT(40) DEF Offering
<1> QED
  BY <1>1, <1>2, OfferingFinite, FS_AddElement, ZenonT(40)

LEMMA OfferingShrinks ==
  ASSUME NEW w \in Writers, TypeOK, sending[w] # None,
         sending' = [sending EXCEPT ![w] = None]
  PROVE  Cardinality(Offering') = Cardinality(Offering) - 1
<1>1. Offering' = Offering \ {w}
  BY ZenonT(40) DEF TypeOK, Offering
<1>2. w \in Offering
  BY ZenonT(40) DEF Offering
<1> QED
  BY <1>1, <1>2, OfferingFinite, FS_RemoveElement, ZenonT(40)

LEMMA OfferingSame ==
  ASSUME UNCHANGED sending
  PROVE  Offering' = Offering
BY ZenonT(40) DEF Offering

\* The queue is created empty and open (newQueue).
LEMMA InitIInv == Init => IInv
<1> SUFFICES ASSUME Init PROVE IInv
  BY ZenonT(40)
<1>1. TypeOK
  <2>1. elements \in Seq(Elements)
    BY DEF Init
  <2>2. sending \in [Writers -> Elements \cup {None}]
    BY ZenonT(40) DEF Init
  <2>3. closed \in BOOLEAN
    BY ZenonT(40) DEF Init
  <2>4. /\ count \in Int /\ enqueueCount \in Nat /\ dequeueCount \in Nat
        /\ writes \in 0..MaxWrites
    BY MaxWritesAssumption DEF Init
  <2>5. /\ inPc \in InPcs /\ inHand \in Elements \cup {None}
        /\ outPc \in OutPcs /\ outHand \in Elements \cup {None}
        /\ panic \in Panics
    BY ZenonT(40) DEF Init, InPcs, OutPcs, Panics
  <2>6. max \in Maxes
    BY ZenonT(40) DEF Init
  <2> QED
    BY <2>1, <2>2, <2>3, <2>4, <2>5, <2>6, ZenonT(40) DEF TypeOK
<1>2. Offering = {}
  BY ZenonT(40) DEF Init, Offering
<1>3. Cardinality(Offering) = 0
  BY <1>2, FS_EmptySet, ZenonT(40)
<1>4. CountAccounting
  BY <1>3, MaxesAssumption DEF Init, CountAccounting, InAppending, OutHolding
<1> QED
  BY <1>1, <1>4 DEF Init, IInv, CountersAgree, NoEmptyPop, Wakeful, Transit, Started

\* Every step of Write, Close, Run and the two goroutines keeps the types.
LEMMA TypeStep == IInv /\ [Next]_vars => TypeOK'
<1> SUFFICES ASSUME IInv, [Next]_vars PROVE TypeOK'
  BY ZenonT(40)
<1> USE MaxWritesAssumption DEF IInv, TypeOK, InPcs, OutPcs, Panics, writerVars, inVars, outVars, countVars
<1>1. ASSUME NEW w \in Writers, Write(w) PROVE TypeOK'
  <2>1. /\ count' \in Int /\ writes' \in 0..MaxWrites
    BY <1>1 DEF Write
  <2>2. writes + 1 \in Elements
    BY <1>1 DEF Write, Elements
  <2>3. sending' \in [Writers -> Elements \cup {None}]
    BY <1>1, <2>2, ZenonT(40) DEF Write
  <2>4. UNCHANGED <<max, closed, elements, enqueueCount, dequeueCount, inPc, inHand, outPc, outHand, panic>>
    BY <1>1, ZenonT(40) DEF Write
  <2> QED
    BY <2>1, <2>3, <2>4
<1>2. ASSUME NEW w \in Writers, SendOnClosed(w) PROVE TypeOK'
  BY <1>2, ZenonT(40) DEF SendOnClosed
<1>3. CASE Close
  BY <1>3 DEF Close, Signalled
<1>4. CASE Run
  BY <1>4, ZenonT(40) DEF Run
<1>5. ASSUME NEW w \in Writers, InRecv(w) PROVE TypeOK'
  BY <1>5, ZenonT(40) DEF InRecv, None
<1>6. CASE InClosed
  BY <1>6, ZenonT(40) DEF InClosed
<1>7. CASE InAppend
  <2>1. inHand \in Elements
    BY <1>7, ZenonT(40) DEF InAppend, InAppendWith, Transit
  <2>2. elements' \in Seq(Elements)
    BY <1>7, <2>1 DEF InAppend, InAppendWith
  <2> QED
    BY <1>7, <2>2 DEF InAppend, InAppendWith, Signalled, None
<1>8. CASE OutWait
  BY <1>8, ZenonT(40) DEF OutWait
<1>9. CASE OutTake
  BY <1>9 DEF OutTake
<1>10. CASE OutSend
  BY <1>10, ZenonT(40) DEF OutSend, None
<1>11. CASE OutCount
  BY <1>11 DEF OutCount
<1>12. CASE OutRelease
  BY <1>12 DEF OutRelease
<1>13. CASE UNCHANGED vars
  BY <1>13, SMTT(20) DEF vars
<1> QED
  BY <1>1, <1>2, <1>3, <1>4, <1>5, <1>6, <1>7, <1>8, <1>9, <1>10, <1>11, <1>12, <1>13, ZenonT(40)
  DEF Next, In, Out

\* q.count keeps accounting for every element in flight: Write books space
\* before it offers the element, and only the release after delivery gives it
\* back.
LEMMA AccountingStep == IInv /\ [Next]_vars => CountAccounting'
<1> SUFFICES ASSUME IInv, [Next]_vars PROVE CountAccounting'
  OBVIOUS
<1>a. max' = max
  BY ZenonT(40) DEF Next, In, Out, vars, Write, SendOnClosed, Close, Run, InRecv, InClosed, InAppend,
         InAppendWith, OutWait, OutTake, OutSend, OutCount, OutRelease
<1> SUFFICES ASSUME max # Unbounded PROVE CountAccounting'
  BY <1>a, ZenonT(40) DEF CountAccounting
<1>0. max \in Nat /\ Cardinality(Offering) \in Nat /\ Len(elements) \in Nat
  BY MaxesAssumption, OfferingFinite DEF IInv, TypeOK
<1> USE <1>0, <1>a DEF IInv, TypeOK, CountAccounting, InAppending, OutHolding,
                 writerVars, inVars, outVars, countVars
<1>1. ASSUME NEW w \in Writers, Write(w) PROVE CountAccounting'
  <2>1. CASE ~closed /\ HasSpace
    <3>1. writes + 1 \in Elements
      BY <1>1, MaxWritesAssumption DEF Write, Elements
    <3>2. Cardinality(Offering') = Cardinality(Offering) + 1
      BY <1>1, <2>1, <3>1, OfferingGrows, ZenonT(40) DEF Write
    <3>3. count < max /\ count' = count + 1
      BY <1>1, <2>1, ZenonT(40) DEF Write, HasSpace
    <3>4. UNCHANGED <<closed, elements, inPc, outPc>>
      BY <1>1, ZenonT(40) DEF Write
    <3> QED
      BY <2>1, <3>2, <3>3, <3>4, SMTT(30)
  <2>2. CASE ~(~closed /\ HasSpace)
    BY <1>1, <2>2, OfferingSame, ZenonT(40) DEF Write
  <2> QED
    BY <2>1, <2>2, ZenonT(40)
<1>2. ASSUME NEW w \in Writers, SendOnClosed(w) PROVE CountAccounting'
  BY <1>2, OfferingSame, ZenonT(40) DEF SendOnClosed
<1>3. CASE Close
  BY <1>3, OfferingSame, SMTT(30) DEF Close, Signalled
<1>4. CASE Run
  BY <1>4, OfferingSame, ZenonT(40) DEF Run, Started
<1>5. ASSUME NEW w \in Writers, InRecv(w) PROVE CountAccounting'
  <2>1. Cardinality(Offering') = Cardinality(Offering) - 1
    BY <1>5, OfferingShrinks, ZenonT(40) DEF InRecv
  <2> QED
    BY <1>5, <2>1, SMTT(30) DEF InRecv
<1>6. CASE InClosed
  BY <1>6, OfferingSame, ZenonT(40) DEF InClosed
<1>7. CASE InAppend
  <2>1. Len(Append(elements, inHand)) = Len(elements) + 1
    BY <1>7 DEF InAppend, InAppendWith, Transit
  <2>2. UNCHANGED <<closed, count, Offering, OutHolding>>
    BY <1>7, OfferingSame, ZenonT(40) DEF InAppend, InAppendWith, Signalled
  <2>3. CASE closed
    BY <1>7, <2>2, <2>3 DEF InAppend, InAppendWith
  <2>4. CASE ~closed
    <3>1. Len(elements)' + InAppending' = Len(elements) + InAppending
      BY <1>7, <2>1, <2>4 DEF InAppend, InAppendWith
    <3> QED
      BY <2>2, <3>1, SMTT(30)
  <2> QED
    BY <2>3, <2>4, ZenonT(40)
<1>8. CASE OutWait
  BY <1>8, OfferingSame, ZenonT(40) DEF OutWait
<1>9. CASE OutTake
  <2>1. elements # <<>> => Len(Tail(elements)) = Len(elements) - 1
    OBVIOUS
  <2>2. UNCHANGED <<closed, count, inPc, Offering>>
    BY <1>9, OfferingSame, ZenonT(40) DEF OutTake
  <2>3. Len(elements)' + OutHolding' = Len(elements) + OutHolding
    BY <1>9, <2>1, SMTT(30) DEF OutTake
  <2> QED
    BY <2>2, <2>3, SMTT(30)
<1>10. CASE OutSend
  BY <1>10, OfferingSame, ZenonT(40) DEF OutSend
<1>11. CASE OutCount
  BY <1>11, OfferingSame, ZenonT(40) DEF OutCount
<1>12. CASE OutRelease
  BY <1>12, OfferingSame, SMTT(30) DEF OutRelease
<1>13. CASE UNCHANGED vars
  BY <1>13, OfferingSame, ZenonT(40) DEF vars
<1> QED
  BY <1>1, <1>2, <1>3, <1>4, <1>5, <1>6, <1>7, <1>8, <1>9, <1>10, <1>11, <1>12, <1>13, ZenonT(40)
  DEF Next, In, Out

\* The enqueue and dequeue counters, the wake-up of the out goroutine and the
\* element in transit.
LEMMA RestStep ==
  IInv /\ [Next]_vars => (CountersAgree /\ NoEmptyPop /\ Wakeful /\ Transit /\ Started)'
<1> DEFINE Rest == CountersAgree /\ NoEmptyPop /\ Wakeful /\ Transit /\ Started
<1> SUFFICES ASSUME IInv, [Next]_vars PROVE Rest'
  BY ZenonT(40)
<1>0. Len(elements) \in Nat
  BY DEF IInv, TypeOK
<1> USE <1>0 DEF IInv, TypeOK, CountersAgree, NoEmptyPop, Wakeful, Transit, Started,
                 writerVars, inVars, outVars, countVars
<1>1. ASSUME NEW w \in Writers, Write(w) PROVE Rest'
  BY <1>1, ZenonT(40) DEF Write
<1>2. ASSUME NEW w \in Writers, SendOnClosed(w) PROVE Rest'
  BY <1>2, ZenonT(40) DEF SendOnClosed
<1>3. CASE Close
  BY <1>3 DEF Close, Signalled
<1>4. CASE Run
  BY <1>4, ZenonT(40) DEF Run
<1>5. ASSUME NEW w \in Writers, InRecv(w) PROVE Rest'
  BY <1>5, ZenonT(40) DEF InRecv
<1>6. CASE InClosed
  BY <1>6, ZenonT(40) DEF InClosed
<1>7. CASE InAppend
  <2>1. /\ Len(Append(elements, inHand)) = Len(elements) + 1
        /\ Append(elements, inHand) # <<>>
    BY <1>7 DEF InAppend, InAppendWith
  <2> QED
    BY <1>7, <2>1, SMTT(30) DEF InAppend, InAppendWith, Signalled
<1>8. CASE OutWait
  BY <1>8, ZenonT(40) DEF OutWait
<1>9. CASE OutTake
  <2>1. elements # <<>> => Len(Tail(elements)) = Len(elements) - 1
    OBVIOUS
  <2> QED
    BY <1>9, <2>1, SMTT(30) DEF OutTake
<1>10. CASE OutSend
  BY <1>10, ZenonT(40) DEF OutSend
<1>11. CASE OutCount
  BY <1>11 DEF OutCount
<1>12. CASE OutRelease
  BY <1>12, ZenonT(40) DEF OutRelease
<1>13. CASE UNCHANGED vars
  BY <1>13, ZenonT(40) DEF vars
<1> QED
  BY <1>1, <1>2, <1>3, <1>4, <1>5, <1>6, <1>7, <1>8, <1>9, <1>10, <1>11, <1>12, <1>13, ZenonT(40)
  DEF Next, In, Out

\* The strengthened invariant holds of every reachable state.
THEOREM Inductive == Spec => []IInv
<1>1. IInv /\ [Next]_vars => IInv'
  BY TypeStep, AccountingStep, RestStep, ZenonT(40) DEF IInv
<1> QED
  BY InitIInv, <1>1, PTL DEF Spec

\* Every state of the queue is well typed.
THEOREM TypeCorrect == Spec => []TypeOK
<1>1. IInv => TypeOK
  BY ZenonT(40) DEF IInv
<1> QED
  BY Inductive, <1>1, PTL

\* A bounded queue never holds more than max elements, and q.count is exactly
\* the number of elements in flight until Close, for any writers and any max.
THEOREM CountIsExact == Spec => []CountAccounting
<1>1. IInv => CountAccounting
  BY ZenonT(40) DEF IInv
<1> QED
  BY Inductive, <1>1, PTL

\* The out goroutine never indexes an empty slice, although an if guards its
\* Wait.
THEOREM PopIsSafe == Spec => []NoEmptyPop
<1>1. IInv => NoEmptyPop
  BY ZenonT(40) DEF IInv
<1> QED
  BY Inductive, <1>1, PTL

\* EnqueueCount() minus DequeueCount() is the number of undelivered elements
\* of an open queue.
THEOREM CountersAreExact == Spec => []CountersAgree
<1>1. IInv => CountersAgree
  BY ZenonT(40) DEF IInv
<1> QED
  BY Inductive, <1>1, PTL

(***************************************************************************)
(* The queue implements QueueFifo                                          *)
(***************************************************************************)

\* A goroutine has an element in hand exactly between taking it and passing it
\* on.
Hands ==
  /\ inHand # None => inPc = "append"
  /\ outHand # None <=> outPc = "send"

\* The abstract buffer.
Buffer == OutHand \o (IF closed THEN <<>> ELSE elements \o InHand)
fifoVars == <<max, Buffer, closed>>

\* The sequences the mapping is made of.
LEMMA Concatenation ==
  ASSUME NEW V, NEW s \in Seq(V), NEW t \in Seq(V), NEW v \in V
  PROVE  /\ s \o <<>> = s /\ s \o <<v>> = Append(s, v)
         /\ s \o Append(t, v) = Append(s \o t, v)
<1>1. s \o <<>> = s /\ s \o <<v>> = Append(s, v)
  OBVIOUS
<1>2. s \o Append(t, v) = Append(s \o t, v)
  OBVIOUS
<1> QED
  BY <1>1, <1>2, ZenonT(40)

LEMMA FirstOf ==
  ASSUME NEW V, NEW s \in Seq(V), NEW v \in V
  PROVE  SubSeq(<<v>> \o s, 1, 1) = <<v>> /\ SubSeq(s, 1, 0) = <<>>
<1>1. PICK t : t = <<v>> \o s
  BY ZenonT(40)
<1>2. t \in Seq(V) /\ Len(t) >= 1 /\ t[1] = v
  BY <1>1
<1>3. PICK u : u = SubSeq(t, 1, 1)
  BY ZenonT(40)
<1>4. u \in Seq(V) /\ Len(u) = 1 /\ u[1] = v
  BY <1>2, <1>3
<1>5. Len(<<v>>) = 1 /\ <<v>> \in Seq(V) /\ <<v>>[1] = v
  OBVIOUS
<1>6. u = <<v>>
  BY <1>4, <1>5
<1>7. SubSeq(s, 1, 0) = <<>>
  OBVIOUS
<1> QED
  BY <1>1, <1>3, <1>6, <1>7, ZenonT(40)

LEMMA BufferParts ==
  ASSUME TypeOK
  PROVE  /\ InHand \in Seq(Elements) /\ OutHand \in Seq(Elements)
         /\ elements \in Seq(Elements)
         /\ Buffer \in Seq(Elements)
BY DEF TypeOK, InHand, OutHand, Buffer

LEMMA FirstIsReal ==
  ASSUME TypeOK, elements # <<>>
  PROVE  Head(elements) # None
<1>1. Head(elements) \in Elements
  BY DEF TypeOK
<1> QED
  BY <1>1 DEF Elements, None

LEMMA HandsStep == IInv /\ Hands /\ [Next]_vars => Hands'
<1> SUFFICES ASSUME IInv, Hands, [Next]_vars PROVE Hands'
  BY ZenonT(40)
<1> USE DEF Hands, writerVars, inVars, outVars, countVars
<1>1. ASSUME NEW w \in Writers, Write(w) \/ SendOnClosed(w) PROVE Hands'
  BY <1>1, ZenonT(40) DEF Write, SendOnClosed
<1>2. CASE Close \/ Run
  BY <1>2, ZenonT(40) DEF Close, Run, Signalled, IInv, Started
<1>3. CASE In
  BY <1>3, ZenonT(40) DEF In, InRecv, InClosed, InAppend, InAppendWith, Signalled
<1>4. CASE OutTake
  <2>1. elements # <<>> => Head(elements) # None
    BY FirstIsReal, ZenonT(40) DEF IInv
  <2> QED
    BY <1>4, <2>1, ZenonT(40) DEF OutTake
<1>5. CASE OutWait \/ OutSend \/ OutCount \/ OutRelease
  BY <1>5, ZenonT(40) DEF OutWait, OutSend, OutCount, OutRelease
<1>6. CASE UNCHANGED vars
  BY <1>6, ZenonT(40) DEF vars
<1> QED
  BY <1>1, <1>2, <1>3, <1>4, <1>5, <1>6, ZenonT(40) DEF Next, Out

\* The in goroutine taking an element off q.in is a Put: q.count has booked
\* its space.
LEMMA RecvPuts ==
  ASSUME IInv, Hands, NEW w \in Writers, InRecv(w)
  PROVE  \E v \in Elements : Fifo!Put(v)
<1>t. TypeOK
  BY ZenonT(40) DEF IInv
<1>a. /\ inPc = "recv" /\ ~closed /\ sending[w] # None /\ inHand' = sending[w]
      /\ UNCHANGED <<max, closed, elements, outHand>>
  BY ZenonT(40) DEF InRecv, outVars
<1>1. PICK v \in Elements : v = sending[w]
  BY <1>t, <1>a, ZenonT(40) DEF TypeOK
<1>2. inHand = None /\ v # None
  BY <1>a, <1>1, ZenonT(40) DEF Hands
<1>3. Buffer = OutHand \o elements /\ Buffer' = OutHand \o Append(elements, v)
  <2>1. InHand = <<>> /\ InHand' = <<v>> /\ OutHand' = OutHand
    BY <1>a, <1>1, <1>2, ZenonT(40) DEF InHand, OutHand
  <2>2. elements \o <<>> = elements /\ elements \o <<v>> = Append(elements, v)
    BY <1>t, BufferParts, Concatenation
  <2> QED
    BY <1>a, <2>1, <2>2, ZenonT(40) DEF Buffer
<1>4. Buffer' = Append(Buffer, v)
  BY <1>t, <1>1, <1>3, BufferParts, Concatenation
<1>5. max >= 0 => Len(Buffer) < max
  <2> SUFFICES ASSUME max >= 0 PROVE Len(Buffer) < max
    BY ZenonT(40)
  <2>1. max \in Nat /\ max # Unbounded /\ Len(elements) \in Nat
    BY <1>t, MaxesAssumption DEF TypeOK, Unbounded
  <2>2. Cardinality(Offering) >= 1
    <3>1. w \in Offering
      BY <1>a, ZenonT(40) DEF Offering
    <3> QED
      BY <3>1, OfferingFinite, FS_EmptySet
  <2>3. Len(Buffer) = Len(OutHand) + Len(elements)
    BY <1>t, <1>3, BufferParts
  <2>4. Len(OutHand) <= OutHolding /\ Len(OutHand) \in Nat
    BY DEF OutHand, OutHolding, Hands
  <2> QED
    BY <1>a, <2>1, <2>2, <2>3, <2>4, OfferingFinite DEF IInv, CountAccounting, InAppending, OutHolding
<1> QED
  BY <1>1, <1>a, <1>4, <1>5, ZenonT(40) DEF Fifo!Put, Buffer

\* Passing an element from hand to hand leaves the buffer as it is.
LEMMA AppendKeeps ==
  ASSUME IInv, Hands, InAppend
  PROVE  UNCHANGED fifoVars
<1>t. TypeOK
  BY ZenonT(40) DEF IInv
<1>a. /\ inPc = "append" /\ inHand' = None /\ UNCHANGED <<max, closed, outHand>>
      /\ ~closed => elements' = Append(elements, inHand)
  BY ZenonT(40) DEF InAppend, InAppendWith, outVars
<1>1. inHand \in Elements /\ inHand # None
  BY <1>t, <1>a, ZenonT(40) DEF TypeOK, IInv, Transit
<1>2. OutHand' = OutHand /\ InHand = <<inHand>> /\ InHand' = <<>>
  BY <1>a, <1>1, ZenonT(40) DEF InHand, OutHand
<1>3. elements \o <<inHand>> = Append(elements, inHand)
  BY <1>t, <1>1, BufferParts
<1>4. Append(elements, inHand) \o <<>> = Append(elements, inHand)
  BY <1>t, <1>1, BufferParts
<1>5. Buffer' = Buffer
  BY <1>a, <1>2, <1>3, <1>4, ZenonT(40) DEF Buffer
<1> QED
  BY <1>a, <1>5, ZenonT(40) DEF fifoVars

LEMMA TakeKeeps ==
  ASSUME IInv, Hands, OutTake
  PROVE  UNCHANGED fifoVars
<1>t. TypeOK
  BY DEF IInv
<1>a. /\ outPc \in {"woken", "lock"} /\ UNCHANGED <<max, closed, inHand>>
      /\ \/ UNCHANGED <<elements, outHand>>
         \/ /\ ~closed /\ elements # <<>> /\ outHand' = Head(elements)
            /\ elements' = Tail(elements)
  BY ZenonT(40) DEF OutTake, inVars
<1>1. CASE UNCHANGED <<elements, outHand>>
  BY <1>a, <1>1, ZenonT(40) DEF fifoVars, Buffer, OutHand, InHand
<1>2. CASE /\ ~closed /\ elements # <<>> /\ outHand' = Head(elements)
           /\ elements' = Tail(elements)
  <2>1. Head(elements) # None
    BY <1>t, <1>2, FirstIsReal, ZenonT(40)
  <2>2. OutHand = <<>> /\ OutHand' = <<Head(elements)>> /\ InHand' = InHand
    BY <1>a, <1>2, <2>1, ZenonT(40) DEF Hands, OutHand, InHand
  <2>3. <<Head(elements)>> \o (Tail(elements) \o InHand) = elements \o InHand
    BY <1>t, <1>2, BufferParts, SMTT(30)
  <2>4. <<>> \o (elements \o InHand) = elements \o InHand
    BY <1>t, BufferParts
  <2>5. Buffer' = Buffer
    BY <1>a, <1>2, <2>2, <2>3, <2>4, ZenonT(40) DEF Buffer
  <2> QED
    BY <1>a, <2>5, ZenonT(40) DEF fifoVars
<1> QED
  BY <1>a, <1>1, <1>2, ZenonT(40)

\* The client receiving from q.out is a Get.
LEMMA SendGets ==
  ASSUME IInv, Hands, OutSend
  PROVE  Fifo!Get
<1>t. TypeOK
  BY DEF IInv
<1>a. outPc = "send" /\ outHand' = None /\ UNCHANGED <<max, closed, elements, inHand>>
  BY ZenonT(40) DEF OutSend, inVars
<1>1. outHand \in Elements /\ outHand # None
  BY <1>t, <1>a, ZenonT(40) DEF TypeOK, Hands
<1>2. OutHand = <<outHand>> /\ OutHand' = <<>> /\ InHand' = InHand
  BY <1>a, <1>1, ZenonT(40) DEF OutHand, InHand
<1>3. PICK rest \in Seq(Elements) : rest = IF closed THEN <<>> ELSE elements \o InHand
  <2>1. <<>> \in Seq(Elements) /\ elements \o InHand \in Seq(Elements)
    BY <1>t, BufferParts
  <2> QED
    BY <2>1, Zenon
<1>4. Buffer = <<outHand>> \o rest /\ Buffer' = <<>> \o rest
  BY <1>a, <1>2, <1>3, ZenonT(40) DEF Buffer
<1>5. Buffer # <<>> /\ Buffer' = Tail(Buffer)
  BY <1>1, <1>4
<1> QED
  BY <1>a, <1>5, ZenonT(40) DEF Fifo!Get, Buffer

\* Close drops all but the element the out goroutine has in hand.
LEMMA CloseShuts ==
  ASSUME IInv, Hands, Close
  PROVE  Fifo!Shut
<1>t. TypeOK
  BY DEF IInv
<1>a. ~closed /\ closed' = TRUE /\ UNCHANGED <<max, outHand, inHand>>
  BY ZenonT(40) DEF Close, inVars
<1>1. PICK rest \in Seq(Elements) : rest = elements \o InHand
  <2>1. elements \o InHand \in Seq(Elements)
    BY <1>t, BufferParts
  <2> QED
    BY <2>1, Zenon
<1>2. OutHand' = OutHand /\ Buffer = OutHand \o rest /\ Buffer' = OutHand
  <2>1. OutHand' = OutHand
    BY <1>a, ZenonT(40) DEF OutHand
  <2>2. OutHand \o <<>> = OutHand
    BY <1>t, BufferParts
  <2> QED
    BY <1>a, <1>1, <2>1, <2>2, ZenonT(40) DEF Buffer
<1>3. \E k \in 0..1 : k <= Len(Buffer) /\ Buffer' = SubSeq(Buffer, 1, k)
  <2>1. CASE outHand = None
    <3>1. Buffer \in Seq(Elements) /\ Buffer' = <<>> /\ Len(Buffer) >= 0
      BY <1>t, <1>2, <2>1, BufferParts DEF OutHand
    <3>2. SubSeq(Buffer, 1, 0) = <<>>
      BY <3>1
    <3> QED
      BY <3>1, <3>2
  <2>2. CASE outHand # None
    <3>1. outHand \in Elements /\ OutHand = <<outHand>>
      BY <1>t, <2>2, ZenonT(40) DEF TypeOK, OutHand
    <3>2. SubSeq(Buffer, 1, 1) = <<outHand>>
      BY <1>2, <3>1, FirstOf, ZenonT(40)
    <3>3. Len(Buffer) >= 1
      BY <1>2, <3>1
    <3> QED
      BY <1>2, <3>1, <3>2, <3>3
  <2> QED
    BY <2>1, <2>2, ZenonT(40)
<1> QED
  BY <1>a, <1>3, ZenonT(40) DEF Fifo!Shut, Buffer

\* Every step of the queue is a step of QueueFifo or leaves its variables alone.
LEMMA FifoStep ==
  ASSUME IInv, Hands, [Next]_vars
  PROVE  Fifo!Next \/ UNCHANGED fifoVars
<1> DEFINE Same == UNCHANGED <<max, closed, elements, inHand, outHand>>
<1>0. Same => UNCHANGED fifoVars
  BY DEF fifoVars, Buffer, InHand, OutHand
<1> USE DEF writerVars, inVars, outVars, countVars
<1>1. ASSUME NEW w \in Writers, Write(w) \/ SendOnClosed(w) PROVE Same
  BY <1>1, ZenonT(40) DEF Write, SendOnClosed
<1>2. CASE Run
  BY <1>0, <1>2, ZenonT(40) DEF Run
<1>3. CASE Close
  BY <1>3, CloseShuts, ZenonT(40) DEF Fifo!Next
<1>4. ASSUME NEW w \in Writers, InRecv(w) PROVE Fifo!Next
  BY <1>4, RecvPuts, ZenonT(40) DEF Fifo!Next
<1>5. CASE InClosed
  BY <1>0, <1>5, ZenonT(40) DEF InClosed
<1>6. CASE OutSend
  BY <1>6, SendGets, ZenonT(40) DEF Fifo!Next
<1>7. CASE OutWait \/ OutCount \/ OutRelease
  BY <1>0, <1>7, ZenonT(40) DEF OutWait, OutCount, OutRelease
<1>8. CASE UNCHANGED vars
  BY <1>0, <1>8, ZenonT(40) DEF vars
<1> QED
  BY <1>0, <1>1, <1>2, <1>3, <1>4, <1>5, <1>6, <1>7, <1>8, AppendKeeps, TakeKeeps, ZenonT(40)
  DEF Next, In, Out

\* Write, the two goroutines of Run and Close are together the FIFO channel that
\* the package comment promises, for any writers and any capacity.
THEOREM QueueIsFifo == Spec => ImplementsFifo
<1>1. Init => Hands /\ Fifo!Init
  <2> SUFFICES ASSUME Init PROVE Hands /\ Fifo!Init
    BY ZenonT(40)
  <2>1. Hands
    BY ZenonT(40) DEF Init, Hands
  <2>2. max \in Int
    BY MaxesAssumption DEF Init, Unbounded
  <2>3. Buffer = <<>>
    BY DEF Init, Buffer, OutHand, InHand
  <2> QED
    BY <2>1, <2>2, <2>3, ZenonT(40) DEF Init, Fifo!Init, Buffer
<1>2. IInv /\ Hands /\ [Next]_vars => Hands'
  BY HandsStep, ZenonT(40)
<1>3. IInv /\ Hands /\ [Next]_vars => [Fifo!Next]_fifoVars
  BY FifoStep, ZenonT(40)
<1>4. Spec => []IInv
  BY Inductive, ZenonT(40)
<1>5. Spec => Fifo!Init /\ [][Fifo!Next]_fifoVars
  BY <1>1, <1>2, <1>3, <1>4, PTL DEF Spec
<1> QED
  BY <1>5, ZenonT(40) DEF ImplementsFifo, Fifo!Spec, fifoVars, Buffer
=============================================================================

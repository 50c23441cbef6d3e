------------------------------- MODULE Queue -------------------------------
(***************************************************************************)
(* The element queue of the forwarding engine,                             *)
(* dataplane/forwarding/util/queue.  Writers call Write from any goroutine;*)
(* Run starts one goroutine that drains the unbuffered channel q.in into   *)
(* q.elements and one that hands elements to the client over q.out.  Every *)
(* critical section of q.ready.L is one action, every channel operation    *)
(* another; a send meets its receive in one step, as an unbuffered channel *)
(* makes it.                                                               *)
(*                                                                         *)
(* An element is the number of the Write call that brought it, so elements *)
(* are distinct and the calls are capped by MaxWrites.                     *)
(***************************************************************************)
EXTENDS Integers, Sequences, FiniteSets

CONSTANTS Writers,    \* the goroutines that call Write
          Maxes,      \* the capacities a queue may be created with
          MaxWrites   \* bound: the Write calls of one behaviour

Unbounded == -1

ASSUME WritersAssumption == IsFiniteSet(Writers)
ASSUME MaxesAssumption == Maxes \subseteq Nat \cup {Unbounded}
ASSUME MaxWritesAssumption == MaxWrites \in Nat

VARIABLES max,          \* q.max: the capacity, or Unbounded
          closed,       \* q.closed; q.in is closed in the same critical section
          count,        \* q.count
          elements,     \* q.elements
          enqueueCount, \* q.enqueueCount
          dequeueCount, \* q.dequeueCount
          sending,      \* per writer, the element it offers on q.in, or None
          inPc, inHand, \* the goroutine that drains q.in
          outPc, outHand, \* the goroutine that feeds q.out
          writes,       \* Write calls made so far
          panic         \* "no", or why the process died

None == 0
Elements == 1..MaxWrites

writerVars == <<sending, writes>>
inVars == <<inPc, inHand>>
outVars == <<outPc, outHand>>
countVars == <<enqueueCount, dequeueCount>>
vars == <<max, closed, count, elements, countVars, writerVars, inVars, outVars, panic>>

Init == /\ max \in Maxes
        /\ closed = FALSE
        /\ count = 0
        /\ elements = <<>>
        /\ enqueueCount = 0 /\ dequeueCount = 0
        /\ sending = [w \in Writers |-> None]
        /\ inPc = "off" /\ inHand = None
        /\ outPc = "off" /\ outHand = None
        /\ writes = 0
        /\ panic = "no"

Alive == panic = "no"

\* q.ready.Signal(): only the out goroutine ever waits on q.ready.
Signalled == IF outPc = "wait" THEN "woken" ELSE outPc

(***************************************************************************)
(* Write                                                                   *)
(***************************************************************************)
HasSpaceOffByOne == max = Unbounded \/ count <= max
HasSpace == max = Unbounded \/ count < max

\* The critical section of Write: refused when closed or full, and the space
\* is booked before the element is offered.
Write(w) ==
  /\ Alive
  /\ sending[w] = None
  /\ writes < MaxWrites
  /\ writes' = writes + 1
  /\ IF ~closed /\ HasSpace
       THEN /\ sending' = [sending EXCEPT ![w] = writes + 1]
            /\ count' = IF max = Unbounded THEN count ELSE count + 1
       ELSE UNCHANGED <<sending, count>>
  /\ UNCHANGED <<max, closed, elements, countVars, inVars, outVars, panic>>

\* q.in <- v on a channel that Close has closed meanwhile.
SendOnClosed(w) ==
  /\ Alive
  /\ sending[w] # None
  /\ closed
  /\ panic' = "sendOnClosed"
  /\ UNCHANGED <<max, closed, count, elements, countVars, writerVars, inVars, outVars>>

(***************************************************************************)
(* Close and Run                                                           *)
(***************************************************************************)
CloseNotMarked ==
  /\ Alive
  /\ ~closed
  /\ elements' = <<>>
  /\ outPc' = Signalled
  /\ UNCHANGED <<max, closed, count, countVars, writerVars, inVars, outHand, panic>>

Close ==
  /\ Alive
  /\ ~closed
  /\ closed' = TRUE
  /\ elements' = <<>>
  /\ outPc' = Signalled
  /\ UNCHANGED <<max, count, countVars, writerVars, inVars, outHand, panic>>

Run ==
  /\ Alive
  /\ inPc = "off"
  /\ inPc' = "recv"
  /\ outPc' = "lock"
  /\ UNCHANGED <<max, closed, count, elements, countVars, writerVars, inHand, outHand, panic>>

(***************************************************************************)
(* The goroutine that drains q.in                                          *)
(***************************************************************************)
InRecv(w) ==
  /\ Alive
  /\ inPc = "recv"
  /\ ~closed
  /\ sending[w] # None
  /\ inHand' = sending[w]
  /\ sending' = [sending EXCEPT ![w] = None]
  /\ inPc' = "append"
  /\ UNCHANGED <<max, closed, count, elements, countVars, writes, outVars, panic>>

InClosed ==
  /\ Alive
  /\ inPc = "recv"
  /\ closed
  /\ inPc' = "done"
  /\ UNCHANGED <<max, closed, count, elements, countVars, writerVars, inHand, outVars, panic>>

\* The critical section of the in goroutine, with the new elements, whether
\* it signals, and where it goes afterwards.
InAppendWith(elems, wake, next) ==
  /\ Alive
  /\ inPc = "append"
  /\ inHand' = None
  /\ IF closed
       THEN /\ inPc' = "done"
            /\ UNCHANGED <<elements, enqueueCount, outPc>>
       ELSE /\ elements' = elems
            /\ enqueueCount' = enqueueCount + 1
            /\ outPc' = wake
            /\ inPc' = next
  /\ UNCHANGED <<max, closed, count, dequeueCount, writerVars, outHand, panic>>

InPrepend == InAppendWith(<<inHand>> \o elements, Signalled, "recv")
InAppendOnce == InAppendWith(Append(elements, inHand), Signalled, "done")
InAppendSilently == InAppendWith(Append(elements, inHand), outPc, "recv")
InAppend == InAppendWith(Append(elements, inHand), Signalled, "recv")

(***************************************************************************)
(* The goroutine that feeds q.out                                          *)
(***************************************************************************)
OutWait ==
  /\ Alive
  /\ outPc = "lock"
  /\ ~closed
  /\ elements = <<>>
  /\ outPc' = "wait"
  /\ UNCHANGED <<max, closed, count, elements, countVars, writerVars, inVars, outHand, panic>>

\* The rest of the critical section: reached at once when there is something
\* to do, or after Wait returns.  Wait sits under an if, so nothing looks at
\* the elements again before q.elements[0].
OutTake ==
  /\ Alive
  /\ \/ outPc = "woken"
     \/ outPc = "lock" /\ (closed \/ elements # <<>>)
  /\ \/ /\ closed
        /\ outPc' = "done"
        /\ UNCHANGED <<elements, outHand, panic>>
     \/ /\ ~closed /\ elements # <<>>
        /\ outPc' = "send"
        /\ outHand' = Head(elements)
        /\ elements' = Tail(elements)
        /\ UNCHANGED panic
     \/ /\ ~closed /\ elements = <<>>
        /\ panic' = "indexOutOfRange"
        /\ UNCHANGED <<elements, outPc, outHand>>
  /\ UNCHANGED <<max, closed, count, countVars, writerVars, inVars>>

\* q.out <- v: the client receives.
OutSend ==
  /\ Alive
  /\ outPc = "send"
  /\ outPc' = "count"
  /\ outHand' = None
  /\ UNCHANGED <<max, closed, count, elements, countVars, writerVars, inVars, panic>>

OutCount ==
  /\ Alive
  /\ outPc = "count"
  /\ dequeueCount' = dequeueCount + 1
  /\ outPc' = IF max = Unbounded THEN "lock" ELSE "release"
  /\ UNCHANGED <<max, closed, count, elements, enqueueCount, writerVars, inVars, outHand, panic>>

OutRelease ==
  /\ Alive
  /\ outPc = "release"
  /\ count' = count - 1
  /\ outPc' = "lock"
  /\ UNCHANGED <<max, closed, elements, countVars, writerVars, inVars, outHand, panic>>

In == (\E w \in Writers : InRecv(w)) \/ InClosed \/ InAppend
Out == OutWait \/ OutTake \/ OutSend \/ OutCount \/ OutRelease

Next == \/ \E w \in Writers : Write(w) \/ SendOnClosed(w)
        \/ Close \/ Run
        \/ In \/ Out

\* The in goroutine and the writers keep running.  Nothing is assumed of the
\* out goroutine: the client may stop receiving.
Fairness == WF_vars(In)
            /\ \A w \in Writers : SF_vars(InRecv(w)) /\ WF_vars(SendOnClosed(w))

Spec == Init /\ [][Next]_vars /\ Fairness

(***************************************************************************)
(* Properties                                                              *)
(***************************************************************************)
InPcs == {"off", "recv", "append", "done"}
OutPcs == {"off", "lock", "wait", "woken", "send", "count", "release", "done"}
Panics == {"no", "sendOnClosed", "indexOutOfRange"}

\* The state of newQueue, Write, Close and Run stays within its types.
TypeOK == /\ max \in Maxes
          /\ closed \in BOOLEAN
          /\ count \in Int
          /\ elements \in Seq(Elements)
          /\ enqueueCount \in Nat /\ dequeueCount \in Nat
          /\ sending \in [Writers -> Elements \cup {None}]
          /\ inPc \in InPcs /\ inHand \in Elements \cup {None}
          /\ outPc \in OutPcs /\ outHand \in Elements \cup {None}
          /\ writes \in 0..MaxWrites
          /\ panic \in Panics

Offering == {w \in Writers : sending[w] # None}
InAppending == IF inPc = "append" THEN 1 ELSE 0
OutHolding == IF outPc \in {"send", "count", "release"} THEN 1 ELSE 0

\* q.count of a bounded queue is the number of elements between a successful
\* Write and the release after delivery, wherever they are: offered on q.in,
\* held by the in goroutine, in q.elements, or with the out goroutine.  Close
\* drops elements without giving their space back, so afterwards it may only
\* exceed that number.  Either way it stays within the capacity.
CountAccounting ==
  max # Unbounded =>
    /\ LET held == Cardinality(Offering) + InAppending + Len(elements) + OutHolding
       IN  count >= held /\ (~closed => count = held)
    /\ count <= max

\* q.elements[0] is never read from an empty slice: the out goroutine, woken
\* from a Wait that an if and not a loop guards, finds an element or a closed
\* queue, whatever Writes and Close did between the signal and its wake-up.
NoEmptyPop == panic # "indexOutOfRange"

\* The book-keeping counters of String(): enqueued minus dequeued elements is
\* what q.elements and the out goroutine hold, until Close drops elements.
CountersAgree ==
  LET undelivered == Len(elements) + (IF outPc \in {"send", "count"} THEN 1 ELSE 0)
  IN  /\ enqueueCount - dequeueCount >= undelivered
      /\ ~closed => enqueueCount - dequeueCount = undelivered

\* The abstract queue: the element with the out goroutine, then q.elements,
\* then the element with the in goroutine, which a closed queue drops.
InHand == IF inHand = None THEN <<>> ELSE <<inHand>>
OutHand == IF outHand = None THEN <<>> ELSE <<outHand>>
Fifo == INSTANCE QueueFifo
          WITH capacity <- max, Values <- Elements, isClosed <- closed,
               buffer <- OutHand \o (IF closed THEN <<>> ELSE elements \o InHand)

\* Write, the two goroutines and Close together are a FIFO channel of at most
\* max elements: the detailed queue implements QueueFifo.
ImplementsFifo == Fifo!Spec

\* "allowing non-blocking writes to the queue": once Run was called every
\* Write returns (or the process is dead), even if the client never receives.
WritesReturn ==
  \A w \in Writers :
    (inPc # "off" /\ sending[w] # None) ~> (sending[w] = None \/ ~Alive)

\* Every element the in goroutine took reaches the client, if the client keeps
\* receiving, unless the queue is closed or the process dies.
Delivered ==
  WF_vars(Out) =>
    \A e \in Elements : (inHand = e) ~> (outHand = e \/ closed \/ ~Alive)
=============================================================================

----------------------------- MODULE QueueFifo -----------------------------
(***************************************************************************)
(* What the package comment of dataplane/forwarding/util/queue promises: a *)
(* set of elements processed in FIFO order, bounded or not, that accepts   *)
(* elements until it is closed.                                            *)
(***************************************************************************)
EXTENDS Integers, Sequences

CONSTANT Values

VARIABLES capacity,  \* the bound, negative when there is none
          buffer, isClosed

Init == capacity \in Int /\ buffer = <<>> /\ isClosed = FALSE

Put(v) == /\ ~isClosed
          /\ capacity >= 0 => Len(buffer) < capacity
          /\ buffer' = Append(buffer, v)
          /\ UNCHANGED <<capacity, isClosed>>

Get == /\ buffer # <<>>
       /\ buffer' = Tail(buffer)
       /\ UNCHANGED <<capacity, isClosed>>

\* Close drops what is queued; the element already on its way to the client
\* may still reach it.
Shut == /\ ~isClosed
        /\ isClosed' = TRUE /\ UNCHANGED capacity
        /\ \E k \in 0..1 : k <= Len(buffer) /\ buffer' = SubSeq(buffer, 1, k)

Next == (\E v \in Values : Put(v)) \/ Get \/ Shut

Spec == Init /\ [][Next]_<<capacity, buffer, isClosed>>
=============================================================================

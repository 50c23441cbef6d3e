------------------------------- MODULE Reboot -------------------------------
(***************************************************************************)
(* The gNOI system service, gnoi/gnoi.go: Reboot, now or after a delay, and*)
(* CancelReboot.  Calls run concurrently.  A critical section of rebootMu  *)
(* is one action, every channel operation another; the buffered channel    *)
(* cancelReboot is a number of tokens, and a send on the unbuffered channel*)
(* cancelRebootFinish meets its receive in one step.                       *)
(*                                                                         *)
(* Each member of Reboots and of Cancels is one call, so the sets bound a  *)
(* behaviour.  A request with method POWERUP returns at once and is left   *)
(* out.  Time is the number of clock readings taken so far.                *)
(***************************************************************************)
EXTENDS Integers, FiniteSets

CONSTANTS Reboots,    \* the Reboot calls of one behaviour
          Cancels     \* the CancelReboot calls of one behaviour

ASSUME CallsAssumption == IsFiniteSet(Reboots) /\ IsFiniteSet(Cancels)

VARIABLES hasPendingReboot, \* s.hasPendingReboot
          cancelReboot,     \* tokens in s.cancelReboot, of capacity 1
          reboot,           \* per Reboot call, where its delayed reboot is
          stamp,            \* per Reboot call, the time it read before it boots
          cancel,           \* per CancelReboot call, its program counter
          before,           \* history: the reboots accepted before the cancel
          clock, bootTime   \* readings of the clock; the device's boot time

rebootVars == <<reboot, stamp>>
cancelVars == <<cancel, before>>
timeVars == <<clock, bootTime>>
vars == <<hasPendingReboot, cancelReboot, rebootVars, cancelVars, timeVars>>

Init == /\ hasPendingReboot = FALSE
        /\ cancelReboot = 0
        /\ reboot = [r \in Reboots |-> "new"]
        /\ stamp = [r \in Reboots |-> 0]
        /\ cancel = [c \in Cancels |-> "new"]
        /\ before = [c \in Cancels |-> {}]
        /\ clock = 0 /\ bootTime = 0

\* The delayed reboots whose goroutine has not come to its end.
Live == {r \in Reboots : reboot[r] \in {"wait", "boot", "clear", "finish"}}

(***************************************************************************)
(* Reboot                                                                  *)
(***************************************************************************)
RebootRefused(r) ==
  /\ reboot[r] = "new"
  /\ hasPendingReboot
  /\ reboot' = [reboot EXCEPT ![r] = "over"]
  /\ UNCHANGED <<hasPendingReboot, cancelReboot, stamp, cancelVars, timeVars>>

\* delay = 0: the boot time is written while rebootMu is held; the write may
\* fail, and the error is returned.
RebootNow(r) ==
  /\ reboot[r] = "new"
  /\ ~hasPendingReboot
  /\ reboot' = [reboot EXCEPT ![r] = "over"]
  /\ clock' = clock + 1
  /\ bootTime' \in {bootTime, clock + 1}
  /\ UNCHANGED <<hasPendingReboot, cancelReboot, stamp, cancelVars>>

RebootLater(r) ==
  /\ reboot[r] = "new"
  /\ ~hasPendingReboot
  /\ hasPendingReboot' = TRUE
  /\ reboot' = [reboot EXCEPT ![r] = "wait"]
  /\ UNCHANGED <<cancelReboot, stamp, cancelVars, timeVars>>

(***************************************************************************)
(* The goroutine of a delayed reboot                                       *)
(***************************************************************************)
\* The delay is over: the time is read.
GoOff(r) ==
  /\ reboot[r] = "wait"
  /\ reboot' = [reboot EXCEPT ![r] = "boot"]
  /\ clock' = clock + 1
  /\ stamp' = [stamp EXCEPT ![r] = clock + 1]
  /\ UNCHANGED <<hasPendingReboot, cancelReboot, cancelVars, bootTime>>

\* fakedevice.Reboot, outside rebootMu; a failure is only logged.
Boot(r) ==
  /\ reboot[r] = "boot"
  /\ reboot' = [reboot EXCEPT ![r] = "clear"]
  /\ bootTime' \in {bootTime, stamp[r]}
  /\ UNCHANGED <<hasPendingReboot, cancelReboot, stamp, cancelVars, clock>>

ClearPending(r) ==
  /\ reboot[r] = "clear"
  /\ reboot' = [reboot EXCEPT ![r] = "over"]
  /\ hasPendingReboot' = FALSE
  /\ UNCHANGED <<cancelReboot, stamp, cancelVars, timeVars>>

\* <-s.cancelReboot: the goroutine then offers cancelRebootFinish.
TakeToken(r) ==
  /\ reboot[r] = "wait"
  /\ cancelReboot > 0
  /\ cancelReboot' = cancelReboot - 1
  /\ reboot' = [reboot EXCEPT ![r] = "finish"]
  /\ UNCHANGED <<hasPendingReboot, stamp, cancelVars, timeVars>>

(***************************************************************************)
(* CancelReboot                                                            *)
(***************************************************************************)
\* The first critical section: nothing to do when no reboot is pending.
CancelBegin(c) ==
  /\ cancel[c] = "new"
  /\ cancel' = [cancel EXCEPT ![c] = IF hasPendingReboot THEN "signal" ELSE "returned"]
  /\ before' = [before EXCEPT ![c] = {r \in Reboots : reboot[r] # "new"}]
  /\ UNCHANGED <<hasPendingReboot, cancelReboot, rebootVars, timeVars>>

Signal(c) ==
  /\ cancel[c] = "signal"
  /\ cancelReboot < 1
  /\ cancelReboot' = cancelReboot + 1
  /\ cancel' = [cancel EXCEPT ![c] = "select"]
  /\ UNCHANGED <<hasPendingReboot, rebootVars, before, timeVars>>

\* cancelRebootFinish: the goroutine of r ends, and c goes for the lock.
Finish(r, c) ==
  /\ reboot[r] = "finish"
  /\ cancel[c] = "select"
  /\ reboot' = [reboot EXCEPT ![r] = "over"]
  /\ cancel' = [cancel EXCEPT ![c] = "clear"]
  /\ UNCHANGED <<hasPendingReboot, cancelReboot, stamp, before, timeVars>>

CancelClearForgotten(c) ==
  /\ cancel[c] = "clear"
  /\ cancel' = [cancel EXCEPT ![c] = "returned"]
  /\ UNCHANGED <<hasPendingReboot, cancelReboot, rebootVars, before, timeVars>>

CancelClear(c) ==
  /\ cancel[c] = "clear"
  /\ hasPendingReboot' = FALSE
  /\ cancel' = [cancel EXCEPT ![c] = "returned"]
  /\ UNCHANGED <<cancelReboot, rebootVars, before, timeVars>>

PollUnchecked(c) ==
  /\ cancel[c] = "select"
  /\ cancel' = [cancel EXCEPT ![c] = "drain"]
  /\ UNCHANGED <<hasPendingReboot, cancelReboot, rebootVars, before, timeVars>>

\* A second has passed; while a reboot is pending the loop goes round.
Poll(c) ==
  /\ cancel[c] = "select"
  /\ ~hasPendingReboot
  /\ cancel' = [cancel EXCEPT ![c] = "drain"]
  /\ UNCHANGED <<hasPendingReboot, cancelReboot, rebootVars, before, timeVars>>

DrainSkipped(c) ==
  /\ cancel[c] = "drain"
  /\ cancel' = [cancel EXCEPT ![c] = "returned"]
  /\ UNCHANGED <<hasPendingReboot, cancelReboot, rebootVars, before, timeVars>>

\* The token is taken back, since the reboot went off and nobody else will.
Drain(c) ==
  /\ cancel[c] = "drain"
  /\ cancelReboot > 0
  /\ cancelReboot' = cancelReboot - 1
  /\ cancel' = [cancel EXCEPT ![c] = "returned"]
  /\ UNCHANGED <<hasPendingReboot, rebootVars, before, timeVars>>

RebootCall(r) == RebootRefused(r) \/ RebootNow(r) \/ RebootLater(r)
Goroutine(r) == GoOff(r) \/ Boot(r) \/ ClearPending(r) \/ TakeToken(r)
CancelCall(c) == Signal(c) \/ CancelClear(c) \/ Poll(c) \/ Drain(c)

Next == \/ \E r \in Reboots : RebootCall(r) \/ Goroutine(r)
        \/ \E c \in Cancels : CancelBegin(c) \/ CancelCall(c)
        \/ \E r \in Reboots, c \in Cancels : Finish(r, c)

Spec == Init /\ [][Next]_vars

\* Goroutines that can run do run, and timers expire.  Nobody need ever call.
FairSpec == /\ Spec
            /\ \A r \in Reboots : WF_vars(Goroutine(r))
            /\ \A c \in Cancels : WF_vars(CancelCall(c))
            /\ \A r \in Reboots, c \in Cancels : WF_vars(Finish(r, c))

(***************************************************************************)
(* Properties                                                              *)
(***************************************************************************)
\* The types of the service's state; cancelReboot holds one token at most.
TypeOK ==
  /\ hasPendingReboot \in BOOLEAN
  /\ cancelReboot \in 0..1
  /\ reboot \in [Reboots -> {"new", "wait", "boot", "clear", "finish", "over"}]
  /\ stamp \in [Reboots -> Nat]
  /\ cancel \in [Cancels -> {"new", "signal", "select", "clear", "drain", "returned"}]
  /\ before \in [Cancels -> SUBSET Reboots]
  /\ clock \in Nat /\ bootTime \in Nat

\* hasPendingReboot is set exactly while one delayed reboot is outstanding, or
\* its cancel is about to clear it: the flag is written by three goroutines.
PendingIsExact ==
  LET owners == Cardinality(Live) + Cardinality({c \in Cancels : cancel[c] = "clear"})
  IN  owners = IF hasPendingReboot THEN 1 ELSE 0

\* CancelReboot blocks until what it cancels is over: once it has returned, no
\* reboot that had been accepted when it was called can still go off.
CancelIsBlocking ==
  \A c \in Cancels : cancel[c] = "returned" => before[c] \cap Live = {}

\* Every cancel that left a token, and has not got its answer, owns either the
\* token or the goroutine that took one: no token outlives the cancels, so a
\* reboot accepted after they returned cannot be cancelled by them.
TokensAreOwned ==
  LET owed == {c \in Cancels : cancel[c] \in {"select", "drain"}}
  IN  cancelReboot + Cardinality({r \in Reboots : reboot[r] = "finish"}) = Cardinality(owed)

\* The boot time never goes back, although a delayed reboot reads the clock and
\* writes the boot time without holding rebootMu.
BootTimeMonotone == [][bootTime' >= bootTime]_vars

\* A cancel that polled "not pending" and a later reboot that took its token.
Crossed == /\ cancelReboot = 0
           /\ \E c \in Cancels : cancel[c] = "drain"
           /\ \E r \in Reboots : reboot[r] = "finish"

\* CancelReboot returns, and a delayed reboot that was accepted comes to its end,
\* whether it goes off or is cancelled, unless a reboot accepted after the poll of
\* a cancel takes the token that the cancel goes on to take back.
CallsEndUnlessCrossed ==
  /\ \A c \in Cancels : (cancel[c] = "signal") ~> (cancel[c] = "returned" \/ Crossed)
  /\ \A r \in Reboots : (reboot[r] = "wait") ~> (reboot[r] = "over" \/ Crossed)
=============================================================================

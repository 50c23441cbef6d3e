---------------------------- MODULE RebootProofs ----------------------------
(***************************************************************************)
(* Proofs about the gNOI system service, for any number of calls.          *)
(*                                                                         *)
(* The argument: hasPendingReboot is a lock that is handed from the Reboot *)
(* call to its goroutine and, through cancelRebootFinish, to a cancel.  So *)
(* whoever sees it clear, or is the one to clear it, knows that no delayed *)
(* reboot is outstanding.                                                  *)
(***************************************************************************)
EXTENDS Reboot, FiniteSetTheorems, TLAPS

Clearing(c) == cancel[c] = "clear"

\* hasPendingReboot has an owner exactly when it is set.
FlagOwned ==
  /\ \A r \in Live : hasPendingReboot
  /\ \A c \in Cancels : Clearing(c) => hasPendingReboot
  /\ hasPendingReboot => Live # {} \/ \E c \in Cancels : Clearing(c)

\* It never has two.
OneOwner ==
  /\ \A r, s \in Live : r = s
  /\ \A c, d \in Cancels : Clearing(c) /\ Clearing(d) => c = d
  /\ \A r \in Live, c \in Cancels : ~Clearing(c)

\* What a cancel found accepted is over as soon as it knows of no reboot.
CancelKnows ==
  /\ \A c \in Cancels, r \in Reboots : r \in before[c] => reboot[r] # "new"
  /\ \A c \in Cancels : cancel[c] \in {"drain", "returned"} => before[c] \cap Live = {}

\* A reading of the clock that is still to be written is the latest one used.
TimesOrdered ==
  /\ bootTime <= clock
  /\ \A r \in Reboots : reboot[r] = "boot" => bootTime <= stamp[r] /\ stamp[r] <= clock

IInv == TypeOK /\ FlagOwned /\ OneOwner /\ CancelKnows /\ TimesOrdered

USE DEF Live, Clearing

\* The initial state satisfies the invariant.
LEMMA InitIInv == Init => IInv
<1> SUFFICES ASSUME Init PROVE IInv
  OBVIOUS
<1> USE DEF Init
<1>1. TypeOK
  <2>1. hasPendingReboot \in BOOLEAN
    BY ZenonT(40)
  <2>2. before \in [Cancels -> SUBSET Reboots]
    OBVIOUS
  <2>. QED
    BY <2>1, <2>2 DEF TypeOK
<1>2. Live = {} /\ \A c \in Cancels : ~Clearing(c)
  OBVIOUS
<1>3. FlagOwned /\ OneOwner
  BY <1>2 DEF FlagOwned, OneOwner
<1>4. CancelKnows /\ TimesOrdered
  BY <1>2 DEF CancelKnows, TimesOrdered
<1>. QED
  BY <1>1, <1>3, <1>4 DEF IInv

\* Every step keeps the types.
LEMMA TypeStep == TypeOK /\ [Next]_vars => TypeOK'
<1> SUFFICES ASSUME TypeOK, [Next]_vars PROVE TypeOK'
  OBVIOUS
<1> USE DEF TypeOK, rebootVars, cancelVars, timeVars
<1>1. ASSUME NEW r \in Reboots, RebootCall(r) PROVE TypeOK'
  <2>1. CASE RebootRefused(r)
    BY <2>1 DEF RebootRefused
  <2>2. CASE RebootNow(r)
    BY <2>2 DEF RebootNow
  <2>3. CASE RebootLater(r)
    BY <2>3 DEF RebootLater
  <2>. QED
    BY <1>1, <2>1, <2>2, <2>3 DEF RebootCall
<1>2. ASSUME NEW r \in Reboots, Goroutine(r) PROVE TypeOK'
  <2>1. CASE GoOff(r)
    BY <2>1 DEF GoOff
  <2>2. CASE Boot(r)
    BY <2>2 DEF Boot
  <2>3. CASE ClearPending(r)
    BY <2>3, ZenonT(40) DEF ClearPending
  <2>4. CASE TakeToken(r)
    BY <2>4 DEF TakeToken
  <2>. QED
    BY <1>2, <2>1, <2>2, <2>3, <2>4 DEF Goroutine
<1>3. ASSUME NEW c \in Cancels, CancelBegin(c) PROVE TypeOK'
  BY <1>3 DEF CancelBegin
<1>4. ASSUME NEW c \in Cancels, CancelCall(c) PROVE TypeOK'
  <2>1. CASE Signal(c)
    BY <2>1 DEF Signal
  <2>2. CASE CancelClear(c)
    BY <2>2, ZenonT(40) DEF CancelClear
  <2>3. CASE Poll(c)
    BY <2>3 DEF Poll
  <2>4. CASE Drain(c)
    BY <2>4 DEF Drain
  <2>. QED
    BY <1>4, <2>1, <2>2, <2>3, <2>4 DEF CancelCall
<1>5. ASSUME NEW r \in Reboots, NEW c \in Cancels, Finish(r, c) PROVE TypeOK'
  BY <1>5 DEF Finish
<1>6. CASE UNCHANGED vars
  BY <1>6 DEF vars
<1>. QED
  BY <1>1, <1>2, <1>3, <1>4, <1>5, <1>6 DEF Next

\* Every step keeps the invariant.
LEMMA IInvStep == IInv /\ [Next]_vars => IInv'
<1> SUFFICES ASSUME IInv, [Next]_vars PROVE IInv'
  OBVIOUS
<1>0. TypeOK /\ TypeOK'
  BY TypeStep DEF IInv
<1> DEFINE Goal == FlagOwned' /\ OneOwner' /\ CancelKnows' /\ TimesOrdered'
<1> USE DEF rebootVars, cancelVars, timeVars, FlagOwned, OneOwner, CancelKnows, TimesOrdered
<1>1. ASSUME NEW r \in Reboots, RebootRefused(r) PROVE Goal
  BY <1>0, <1>1 DEF IInv, RebootRefused, TypeOK
<1>2. ASSUME NEW r \in Reboots, RebootNow(r) PROVE Goal
  BY <1>0, <1>2 DEF IInv, RebootNow, TypeOK
<1>3. ASSUME NEW r \in Reboots, RebootLater(r) PROVE Goal
  BY <1>0, <1>3 DEF IInv, RebootLater, TypeOK
<1>4. ASSUME NEW r \in Reboots, GoOff(r) PROVE Goal
  BY <1>0, <1>4 DEF IInv, GoOff, TypeOK
<1>5. ASSUME NEW r \in Reboots, Boot(r) PROVE Goal
  BY <1>0, <1>5 DEF IInv, Boot, TypeOK
<1>6. ASSUME NEW r \in Reboots, ClearPending(r) PROVE Goal
  BY <1>0, <1>6 DEF IInv, ClearPending, TypeOK
<1>7. ASSUME NEW r \in Reboots, TakeToken(r) PROVE Goal
  BY <1>0, <1>7 DEF IInv, TakeToken, TypeOK
<1>8. ASSUME NEW c \in Cancels, CancelBegin(c) PROVE Goal
  BY <1>0, <1>8 DEF IInv, CancelBegin, TypeOK
<1>9. ASSUME NEW c \in Cancels, Signal(c) PROVE Goal
  BY <1>0, <1>9 DEF IInv, Signal, TypeOK
<1>10. ASSUME NEW c \in Cancels, CancelClear(c) PROVE Goal
  BY <1>0, <1>10 DEF IInv, CancelClear, TypeOK
<1>11. ASSUME NEW c \in Cancels, Poll(c) PROVE Goal
  BY <1>0, <1>11 DEF IInv, Poll, TypeOK
<1>12. ASSUME NEW c \in Cancels, Drain(c) PROVE Goal
  BY <1>0, <1>12 DEF IInv, Drain, TypeOK
<1>13. ASSUME NEW r \in Reboots, NEW c \in Cancels, Finish(r, c) PROVE Goal
  BY <1>0, <1>13 DEF IInv, Finish, TypeOK
<1>14. ASSUME UNCHANGED vars PROVE Goal
  BY <1>0, <1>14 DEF IInv, vars, TypeOK
<1> HIDE DEF Goal, rebootVars, cancelVars, timeVars, FlagOwned, OneOwner, CancelKnows, TimesOrdered, Live, Clearing
<1>15. ASSUME NEW r \in Reboots, RebootCall(r) \/ Goroutine(r) PROVE Goal
  BY <1>15, <1>1, <1>2, <1>3, <1>4, <1>5, <1>6, <1>7 DEF RebootCall, Goroutine
<1>16. ASSUME NEW c \in Cancels, CancelBegin(c) \/ CancelCall(c) PROVE Goal
  BY <1>16, <1>8, <1>9, <1>10, <1>11, <1>12 DEF CancelCall
<1>17. ASSUME Next PROVE Goal
  BY <1>17, <1>13, <1>15, <1>16, Zenon DEF Next
<1>18. Goal
  BY <1>14, <1>17
<1>. QED
  BY <1>0, <1>18 DEF IInv, Goal

\* The inductive invariant holds throughout.
LEMMA Inductive == Spec => []IInv
BY InitIInv, IInvStep, PTL DEF Spec

\* The service's state keeps its types, for any number of calls.
THEOREM TypeCorrect == Spec => []TypeOK
<1>1. IInv => TypeOK
  BY DEF IInv
<1>. QED
  BY <1>1, Inductive, PTL

\* hasPendingReboot is set exactly while one delayed reboot, or the cancel that
\* finished it, is outstanding (gnoi.go, Reboot and CancelReboot).
THEOREM FlagIsExact == Spec => []PendingIsExact
<1> DEFINE clearing == {c \in Cancels : Clearing(c)}
<1>1. ASSUME IInv PROVE PendingIsExact
  <2>0. FlagOwned /\ OneOwner
    BY <1>1 DEF IInv
  <2> SUFFICES Cardinality(Live) + Cardinality(clearing) = IF hasPendingReboot THEN 1 ELSE 0
    BY DEF PendingIsExact, Clearing
  <2>1. CASE ~hasPendingReboot
    <3>1. Live = {} /\ clearing = {}
      BY <2>0, <2>1 DEF FlagOwned
    <3>. QED
      BY <2>1, <3>1, FS_EmptySet
  <2>2. ASSUME hasPendingReboot, NEW r \in Live
        PROVE  Cardinality(Live) + Cardinality(clearing) = 1
    <3>1. Live = {r} /\ clearing = {}
      BY <2>0, <2>2 DEF OneOwner
    <3>2. Cardinality(Live) = 1 /\ Cardinality(clearing) = 0
      BY <3>1, FS_EmptySet, FS_Singleton, ZenonT(40)
    <3>. QED
      BY <3>2
  <2>3. ASSUME hasPendingReboot, Live = {}, NEW c \in clearing
        PROVE  Cardinality(Live) + Cardinality(clearing) = 1
    <3>1. clearing = {c}
      BY <2>0, <2>3 DEF OneOwner
    <3>2. Cardinality(Live) = 0 /\ Cardinality(clearing) = 1
      BY <2>3, <3>1, FS_EmptySet, FS_Singleton, ZenonT(40)
    <3>. QED
      BY <3>2
  <2>4. hasPendingReboot => Live # {} \/ clearing # {}
    BY <2>0 DEF FlagOwned
  <2>. QED
    BY <2>1, <2>2, <2>3, <2>4
<1>. QED
  BY <1>1, Inductive, PTL

\* Once CancelReboot has returned, no reboot that had been accepted before it was
\* called can still go off (the comment on the channels, gnoi.go:94).
THEOREM CancelBlocks == Spec => []CancelIsBlocking
<1>1. IInv => CancelIsBlocking
  BY DEF IInv, CancelKnows, CancelIsBlocking
<1>. QED
  BY <1>1, Inductive, PTL

\* The boot time never goes back, although a delayed reboot reads the clock and
\* writes the boot time without holding rebootMu.
THEOREM BootTimeNeverGoesBack == Spec => BootTimeMonotone
<1>1. ASSUME IInv, [Next]_vars PROVE [bootTime' >= bootTime]_vars
  <2>0. TypeOK /\ TimesOrdered
    BY <1>1 DEF IInv
  <2> USE DEF TypeOK, TimesOrdered, timeVars
  <2>1. ASSUME NEW r \in Reboots, RebootNow(r) PROVE bootTime' >= bootTime
    BY <2>0, <2>1 DEF RebootNow
  <2>2. ASSUME NEW r \in Reboots, Boot(r) PROVE bootTime' >= bootTime
    BY <2>0, <2>2 DEF Boot
  <2>3. ASSUME NEW r \in Reboots, RebootRefused(r) \/ RebootLater(r) \/ GoOff(r) \/ ClearPending(r) \/ TakeToken(r)
        PROVE  bootTime' >= bootTime
    BY <2>0, <2>3 DEF RebootRefused, RebootLater, GoOff, ClearPending, TakeToken
  <2>4. ASSUME NEW c \in Cancels, CancelBegin(c) \/ CancelCall(c)
        PROVE  bootTime' >= bootTime
    BY <2>0, <2>4 DEF CancelBegin, CancelCall, Signal, CancelClear, Poll, Drain
  <2>5. ASSUME NEW r \in Reboots, NEW c \in Cancels, Finish(r, c) PROVE bootTime' >= bootTime
    BY <2>0, <2>5 DEF Finish
  <2>. QED
    BY <1>1, <2>1, <2>2, <2>3, <2>4, <2>5 DEF Next, RebootCall, Goroutine
<1>. QED
  BY <1>1, Inductive, PTL DEF Spec, BootTimeMonotone

Owed == {c \in Cancels : cancel[c] \in {"select", "drain"}}
Finishing == {r \in Reboots : reboot[r] = "finish"}

\* A step that changes neither set of owners nor the tokens keeps the account.
LEMMA SameOwners ==
  ASSUME TokensAreOwned, Owed' = Owed, Finishing' = Finishing, cancelReboot' = cancelReboot
  PROVE  TokensAreOwned'
BY DEF TokensAreOwned, Owed, Finishing

\* Every step keeps the tokens accounted for.
LEMMA TokensStep == TypeOK /\ TokensAreOwned /\ [Next]_vars => TokensAreOwned'
<1> SUFFICES ASSUME TypeOK, TokensAreOwned, [Next]_vars PROVE TokensAreOwned'
  OBVIOUS
<1> HIDE DEF Live, Clearing
<1> USE DEF rebootVars, cancelVars, timeVars
<1>0. /\ cancelReboot + Cardinality(Finishing) = Cardinality(Owed)
      /\ IsFiniteSet(Owed) /\ IsFiniteSet(Finishing)
      /\ cancelReboot \in Nat /\ Cardinality(Owed) \in Nat /\ Cardinality(Finishing) \in Nat
  <2>1. IsFiniteSet(Owed) /\ IsFiniteSet(Finishing)
    BY CallsAssumption, FS_Subset DEF Owed, Finishing
  <2>. QED
    BY <2>1, FS_CardinalityType DEF TokensAreOwned, Owed, Finishing, TypeOK
<1> DEFINE Goal == cancelReboot' + Cardinality(Finishing') = Cardinality(Owed')
<1>1. ASSUME NEW c \in Cancels, Signal(c) PROVE Goal
  <2>1. c \notin Owed /\ Owed' = Owed \cup {c} /\ Finishing' = Finishing /\ cancelReboot' = cancelReboot + 1
    BY <1>1 DEF Signal, Owed, Finishing, TypeOK
  <2>2. Cardinality(Owed') = Cardinality(Owed) + 1
    BY <1>0, <2>1, FS_AddElement, ZenonT(40)
  <2>. QED
    BY <1>0, <2>1, <2>2
<1>2. ASSUME NEW r \in Reboots, TakeToken(r) PROVE Goal
  <2>1. r \notin Finishing /\ Finishing' = Finishing \cup {r} /\ Owed' = Owed /\ cancelReboot' = cancelReboot - 1
    BY <1>2 DEF TakeToken, Owed, Finishing, TypeOK
  <2>2. Cardinality(Finishing') = Cardinality(Finishing) + 1
    BY <1>0, <2>1, FS_AddElement, ZenonT(40)
  <2>. QED
    BY <1>0, <2>1, <2>2
<1>3. ASSUME NEW c \in Cancels, Drain(c) PROVE Goal
  <2>1. c \in Owed /\ Owed' = Owed \ {c} /\ Finishing' = Finishing /\ cancelReboot' = cancelReboot - 1
    BY <1>3 DEF Drain, Owed, Finishing, TypeOK
  <2>2. Cardinality(Owed') = Cardinality(Owed) - 1
    BY <1>0, <2>1, FS_RemoveElement, ZenonT(40)
  <2>. QED
    BY <1>0, <2>1, <2>2
<1>4. ASSUME NEW r \in Reboots, NEW c \in Cancels, Finish(r, c) PROVE Goal
  <2>1. /\ c \in Owed /\ Owed' = Owed \ {c}
        /\ r \in Finishing /\ Finishing' = Finishing \ {r} /\ cancelReboot' = cancelReboot
    BY <1>4 DEF Finish, Owed, Finishing, TypeOK
  <2>2. Cardinality(Owed') = Cardinality(Owed) - 1 /\ Cardinality(Finishing') = Cardinality(Finishing) - 1
    BY <1>0, <2>1, FS_RemoveElement, ZenonT(40)
  <2>. QED
    BY <1>0, <2>1, <2>2
<1> DEFINE Same == Owed' = Owed /\ Finishing' = Finishing /\ cancelReboot' = cancelReboot
<1>5. ASSUME NEW r \in Reboots, RebootCall(r) PROVE Same
  BY <1>5 DEF RebootCall, RebootRefused, RebootNow, RebootLater, Owed, Finishing, TypeOK
<1>6. ASSUME NEW r \in Reboots, GoOff(r) \/ Boot(r) \/ ClearPending(r) PROVE Same
  BY <1>6 DEF GoOff, Boot, ClearPending, Owed, Finishing, TypeOK
<1>7. ASSUME NEW c \in Cancels, CancelBegin(c) \/ CancelClear(c) \/ Poll(c) PROVE Same
  BY <1>7 DEF CancelBegin, CancelClear, Poll, Owed, Finishing, TypeOK
<1>8. ASSUME UNCHANGED vars PROVE Same
  BY <1>8 DEF vars, Owed, Finishing
<1>9. Goal => TokensAreOwned'
  BY DEF TokensAreOwned, Owed, Finishing
<1>10. Same => TokensAreOwned'
  BY SameOwners
<1> HIDE DEF Goal, Same
<1>11. ASSUME NEW r \in Reboots, RebootCall(r) \/ Goroutine(r) PROVE TokensAreOwned'
  BY <1>11, <1>2, <1>5, <1>6, <1>9, <1>10 DEF Goroutine
<1>12. ASSUME NEW c \in Cancels, CancelBegin(c) \/ CancelCall(c) PROVE TokensAreOwned'
  BY <1>12, <1>1, <1>3, <1>7, <1>9, <1>10 DEF CancelCall
<1>13. ASSUME Next PROVE TokensAreOwned'
  BY <1>13, <1>4, <1>9, <1>11, <1>12, Zenon DEF Next
<1>. QED
  BY <1>8, <1>10, <1>13

\* Tokens and the goroutines that took one are exactly the cancels that still
\* wait for an answer: no token outlives the calls (gnoi.go:162 and 174).
THEOREM TokensNeverOutliveCancels == Spec => []TokensAreOwned
<1>1. Init => TokensAreOwned
  <2> SUFFICES ASSUME Init PROVE TokensAreOwned
    OBVIOUS
  <2>1. Owed = {} /\ Finishing = {} /\ cancelReboot = 0
    BY DEF Init, Owed, Finishing
  <2>. QED
    BY <2>1, FS_EmptySet DEF TokensAreOwned, Owed, Finishing
<1>. QED
  BY <1>1, TokensStep, TypeCorrect, PTL DEF Spec
=============================================================================

---------------------------- MODULE TransientMap ----------------------------
(***************************************************************************)
(* What an exact-match table promises: a map from keys to actions in which *)
(* a transient entry has a deadline that every use puts off, and from which*)
(* time takes the transient entries that are past their deadline and       *)
(* nothing else.                                                           *)
(***************************************************************************)
EXTENDS Integers

CONSTANTS Keys, Acts, Timeout

VARIABLES map,      \* per key no cell, or one with its actions and its deadline
          ageing,   \* whether the table watches transient entries
          now

mapVars == <<map, ageing, now>>

Static == -1
Deadline == now + Timeout

MapInit == /\ map = [k \in Keys |-> {}]
           /\ ageing \in BOOLEAN
           /\ now = 0

\* A transient entry never replaces a static one.
Put(k, a, transient) ==
  /\ ~(transient /\ \E c \in map[k] : c.deadline = Static)
  /\ map' = [map EXCEPT ![k] =
               {[acts |-> a, deadline |-> IF transient /\ ageing THEN Deadline ELSE Static]}]
  /\ UNCHANGED <<ageing, now>>

Del(k) ==
  /\ map[k] # {}
  /\ map' = [map EXCEPT ![k] = {}]
  /\ UNCHANGED <<ageing, now>>

Use(k) ==
  /\ \E c \in map[k] : c.deadline # Static
  /\ map' = [map EXCEPT ![k] = {[c EXCEPT !.deadline = Deadline] : c \in @}]
  /\ UNCHANGED <<ageing, now>>

Overdue(k) == \E c \in map[k] : c.deadline # Static /\ c.deadline < now

Age(k) ==
  /\ Overdue(k)
  /\ map' = [map EXCEPT ![k] = {}]
  /\ UNCHANGED <<ageing, now>>

Empty == /\ map' = [k \in Keys |-> {}]
         /\ UNCHANGED <<ageing, now>>

Pass == now' = now + 1 /\ UNCHANGED <<map, ageing>>

\* One key changes, or all are emptied, or time passes.
Change(k) == \/ \E a \in Acts, t \in BOOLEAN : Put(k, a, t)
             \/ Del(k) \/ Use(k) \/ Age(k)

MapNext == \/ \E k \in Keys : map'[k] # map[k] /\ Change(k)
           \/ Empty \/ Pass

MapSpec == MapInit /\ [][MapNext]_mapVars
=============================================================================

------------------------------ MODULE PrefixMap ------------------------------
(***************************************************************************)
(* What a longest-prefix-match table promises: a map from prefixes to      *)
(* actions, as a set of pairs.  Only the removal of a prefix that is not   *)
(* there may be answered "not found".                                      *)
(***************************************************************************)
CONSTANTS Keys, Acts

VARIABLES map,      \* the pairs <<prefix, actions>>
          outcome   \* of the last request

Without(p) == {e \in map : e[1] # p}

MapInit == map = {} /\ outcome = "ok"

Put(p, a) == outcome' = "ok" /\ map' = Without(p) \cup {<<p, a>>}

Del(p) == /\ outcome' = "ok" \/ (outcome' = "not found" /\ map = Without(p))
          /\ map' = Without(p)

Empty == UNCHANGED outcome /\ map' = {}

MapNext == \/ \E p \in Keys : Del(p) \/ \E a \in Acts : Put(p, a)
           \/ Empty

MapSpec == MapInit /\ [][MapNext]_<<map, outcome>>
=============================================================================

----------------------------- MODULE MCGnmiSet -----------------------------
(***************************************************************************)
(* A config leaf that refers to another, one with a default, and two state *)
(* leaves, in two notifications.  Updates and deletes of one leaf, updates *)
(* and replaces of several, with old, current and future timestamps.  The  *)
(* second user may not write the referring leaf.                           *)
(***************************************************************************)
EXTENDS GnmiSet, TLC

CONSTANTS p1, p2, ref, target, def, s1, s2, v1, v2

MCProcs == {p1, p2}
MCConfig == {ref, target, def}
MCState == {s1, s2}
MCVals == {v1, v2}
MCDefaults == (def :> v1) @@ [l \in {ref, target} |-> Nil]
MCRefs == {<<ref, target>>}
MCDenied == {<<p2, ref>>}
MCParts == {{ref, s1}, {target, def, s2}}

Request(m, ts, updates, write) == [mode |-> m, ts |-> ts, updates |-> updates, write |-> write]

Put(m, l, v, ts) == Request(m, ts, TRUE, l :> v)
Delete(m, l, ts) == Request(m, ts, FALSE, l :> Nil)
Replace(m, f, ts) == Request(m, ts, FALSE, f @@ [x \in Of(m) |-> Nil])

MCRequests ==
  {Put("config", target, v1, 0), Put("config", def, v2, 0), Delete("config", target, 0),
   Delete("config", def, 0), Replace("config", (ref :> v1) @@ (target :> v1), 0)}
  \cup {Put("config", ref, v, ts) : v \in Vals, ts \in {0, 1}}
  \cup {Replace("config", l :> v2, 0) : l \in Config}
  \cup {Put("state", s1, v, ts) : v \in Vals, ts \in 0..MaxTime}
  \cup {Replace("state", (s1 :> v1) @@ (s2 :> v), ts) : v \in Vals, ts \in {0, 1}}
  \cup {Delete("state", s1, 0), Request("state", 0, TRUE, (s1 :> v2) @@ (s2 :> v2))}
=============================================================================

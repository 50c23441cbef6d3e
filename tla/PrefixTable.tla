---------------------------- MODULE PrefixTable ----------------------------
(***************************************************************************)
(* A longest-prefix-match table, dataplane/forwarding/fwdtable/prefix: a   *)
(* binary trie whose levels hold several bits each, split on insertion and *)
(* merged on removal.  Requests run under the context's write lock, so each*)
(* is one action.                                                          *)
(*                                                                         *)
(* A key is a sequence of bits.  A level is an object with pointers to its *)
(* parent and its children; splitting and merging change the bits it holds *)
(* and not the prefix it stands for, so that prefix names the object.      *)
(* Levels no pointer reaches are dropped.                                  *)
(*                                                                         *)
(* Keys have at least one bit.  That is so in the two tables the SAI       *)
(* server creates (VRF, then destination address: only the last field of a *)
(* key can have a mask), and not in a table with a single field.           *)
(***************************************************************************)
EXTENDS Integers, Sequences, SequencesExt, FiniteSets

CONSTANTS Width,       \* bits of a packet's key
          Keys,        \* the prefixes that requests name
          Acts,        \* the lists of actions an entry can have
          NoActions,   \* the empty one, which NewActions returns as nil
          Default,     \* the actions of the table
          MaxEntries,  \* bound: the entries stored at one time
          Nil

ASSUME PrefixBounds ==
  /\ Width \in Nat /\ MaxEntries \in Nat
  /\ \A k \in Keys : Len(k) \in 1..Width /\ \A i \in 1..Len(k) : k[i] \in {0, 1}

VARIABLES level,   \* the levels that exist, by name
          held,    \* how many lists of actions were made and not cleaned up
          outcome  \* of the last request

vars == <<level, held, outcome>>

Bit == {0, 1}
Packets == [1..Width -> Bit]
Root == <<>>

\* A level has a result when its actions are not Nil; a result can be NoActions.
newLevel(prefix, parent) ==
  [prefix |-> prefix, actions |-> Nil, child |-> [b \in Bit |-> Nil], parent |-> parent]

EmptyTrie == Root :> newLevel(<<>>, Nil)

Init == level = EmptyTrie /\ held = 0 /\ outcome = "ok"

(***************************************************************************)
(* Keys                                                                    *)
(***************************************************************************)
HasPrefix(s, q) == IsPrefix(q, s)
TrimPrefix(s, q) == SubSeq(s, Len(q) + 1, Len(s))
prefixKey(s, q) == LongestCommonPrefix({s, q})

(***************************************************************************)
(* The loops over the trie t.  At the start of each iteration curr is a    *)
(* prefix of key, what is left of the key asked for.                       *)
(***************************************************************************)
getResult(t, l) == t[l].actions # Nil

RECURSIVE MatchShortest(_, _, _, _)
MatchShortest(t, curr, key, found) ==
  LET a == IF getResult(t, curr) /\ found = Nil THEN t[curr].actions ELSE found
      rest == TrimPrefix(key, t[curr].prefix)
      child == t[curr].child[rest[1]]
  IN  IF key = t[curr].prefix \/ child = Nil THEN a
      ELSE IF ~HasPrefix(rest, t[child].prefix) THEN a
      ELSE MatchShortest(t, child, rest, a)

RECURSIVE match(_, _, _, _)
match(t, curr, key, found) ==
  LET a == IF getResult(t, curr) THEN t[curr].actions ELSE found
      rest == TrimPrefix(key, t[curr].prefix)
      child == t[curr].child[rest[1]]
  IN  IF key = t[curr].prefix \/ child = Nil THEN a
      ELSE IF ~HasPrefix(rest, t[child].prefix) THEN a
      ELSE match(t, child, rest, a)

\* The actions for a packet: no entry, or one without actions, means the default.
Process(t, key) ==
  LET a == match(t, Root, key, Nil)
  IN  IF a \in {Nil, NoActions} THEN Default ELSE a

\* t with a new level for prefix below l.
WithLevel(t, l, prefix) ==
  [t EXCEPT ![l].child[prefix[1]] = l \o prefix] @@ (l \o prefix :> newLevel(prefix, l))

SplitOldParent(t, l, child, p) ==
  LET rest == TrimPrefix(t[child].prefix, p)
  IN  [WithLevel(t, l, p) EXCEPT ![child].prefix = rest,
                                 ![l \o p].child[rest[1]] = child]

\* A level for the shared prefix p comes between l and its child.
Split(t, l, child, p) ==
  LET rest == TrimPrefix(t[child].prefix, p)
  IN  [WithLevel(t, l, p) EXCEPT ![child].prefix = rest,
                                 ![l \o p].child[rest[1]] = child,
                                 ![child].parent = l \o p]

\* The loop of add: the trie with a level for the key, and that level.
RECURSIVE Place(_, _, _)
Place(t, curr, key) ==
  IF key = t[curr].prefix THEN [trie |-> t, at |-> curr]
  ELSE LET rest == TrimPrefix(key, t[curr].prefix)
           child == t[curr].child[rest[1]]
       IN  IF child = Nil THEN [trie |-> WithLevel(t, curr, rest), at |-> curr \o rest]
           ELSE IF HasPrefix(rest, t[child].prefix) THEN Place(t, child, rest)
           ELSE LET p == prefixKey(t[child].prefix, rest)
                IN  Place(Split(t, curr, child, p), curr \o p, rest)

\* The search of remove: the level of the key, or Nil.
RECURSIVE Find(_, _, _)
Find(t, curr, key) ==
  IF key = t[curr].prefix THEN curr
  ELSE LET rest == TrimPrefix(key, t[curr].prefix)
           child == t[curr].child[rest[1]]
       IN  IF child = Nil THEN Nil
           ELSE IF ~HasPrefix(rest, t[child].prefix) THEN Nil
           ELSE Find(t, child, rest)

\* t without the level l, which is replaced by its child heir (Nil: by nothing).
Bypass(t, l, heir) ==
  LET up == t[l].parent
      cut == [t EXCEPT ![up].child[t[l].prefix[1]] = heir]
      kept == IF heir = Nil THEN cut
              ELSE [cut EXCEPT ![heir].prefix = t[l].prefix \o @, ![heir].parent = up]
  IN  [k \in DOMAIN t \ {l} |-> kept[k]]

Children(t, l) == {t[l].child[b] : b \in Bit} \ {Nil}

RECURSIVE CompressThroughResults(_, _)
CompressThroughResults(t, curr) ==
  IF t[curr].parent = Root \/ Cardinality(Children(t, curr)) = 2 THEN t
  ELSE LET heir == IF Children(t, curr) = {} THEN Nil ELSE CHOOSE c \in Children(t, curr) : TRUE
       IN  CompressThroughResults(Bypass(t, curr, heir), t[curr].parent)

\* The loop that compresses the trie from curr towards the root.
RECURSIVE Compress(_, _)
Compress(t, curr) ==
  IF t[curr].parent = Root \/ getResult(t, curr) \/ Cardinality(Children(t, curr)) = 2 THEN t
  ELSE LET heir == IF Children(t, curr) = {} THEN Nil ELSE CHOOSE c \in Children(t, curr) : TRUE
       IN  Compress(Bypass(t, curr, heir), t[curr].parent)

\* The levels Clear and Entries walk, from l down.
RECURSIVE Below(_, _)
Below(t, l) == {l} \cup UNION {Below(t, c) : c \in Children(t, l)}

\* The entries listed from l down, each under the prefixes combined on the way.
RECURSIVE entries(_, _, _)
entries(t, l, parent) ==
  LET prefix == parent \o t[l].prefix
  IN  (IF getResult(t, l) THEN {<<prefix, t[l].actions>>} ELSE {})
        \cup UNION {entries(t, c, prefix) : c \in Children(t, l)}

Entries == entries(level, Root, <<>>)

CleanNothing(t, ls) == 0
\* How many lists of actions clearing the results of the levels ls cleans up.
Cleaned(t, ls) == Cardinality({l \in ls : getResult(t, l)})

(***************************************************************************)
(* Requests.  One whose description of the entry or of its actions is not  *)
(* valid returns before anything changes: a stuttering step.               *)
(***************************************************************************)
AddEntry(key, a) ==
  LET p == Place(level, Root, key)
  IN  /\ Cardinality(Entries) < MaxEntries \/ \E e \in Entries : e[1] = key
      /\ level' = [p.trie EXCEPT ![p.at].actions = a]
      /\ held' = held + 1 - Cleaned(p.trie, {p.at})
      /\ outcome' = "ok"

RemoveEntry(key) ==
  LET l == Find(level, Root, key)
  IN  IF l = Nil THEN outcome' = "not found" /\ UNCHANGED <<level, held>>
      ELSE /\ level' = Compress([level EXCEPT ![l].actions = Nil], l)
           /\ held' = held - Cleaned(level, {l})
           /\ outcome' = "ok"

Clear == /\ level' = EmptyTrie
         /\ held' = held - Cleaned(level, Below(level, Root))
         /\ UNCHANGED outcome

Next == \/ \E key \in Keys, a \in Acts : AddEntry(key, a)
        \/ \E key \in Keys : RemoveEntry(key)
        \/ Clear

Spec == Init /\ [][Next]_vars

(***************************************************************************)
(* Properties                                                              *)
(***************************************************************************)
Paths == UNION {[1..n -> Bit] : n \in 0..Width}
Levels == [prefix : Paths, actions : Acts \cup {Nil},
           child : [Bit -> Paths \cup {Nil}], parent : Paths \cup {Nil}]

\* Every level of the trie is a level as newLevel makes it, the root exists, and
\* the count of lists of actions never falls below zero.
TypeOK == /\ DOMAIN level \subseteq Paths
          /\ Root \in DOMAIN level
          /\ \A l \in DOMAIN level : level[l] \in Levels
          /\ held \in Nat
          /\ outcome \in {"ok", "not found"}

\* Levels keep their types, and the pointers agree after any sequence of splits
\* and merges: a level is the child of its parent under its own first bit, and the
\* bits on the way down to it spell the prefix it stands for.  The loops of add
\* and remove follow child pointers down and parent pointers up and rely on both.
WellLinked ==
  TypeOK /\ \A l \in DOMAIN level \ {Root} :
    LET up == level[l].parent
    IN  /\ up \in DOMAIN level
        /\ level[l].prefix # <<>>
        /\ level[up].child[level[l].prefix[1]] = l
        /\ up \o level[l].prefix = l

\* The walk of match from the root finds, for every packet, the actions of the
\* longest listed prefix of its key, whatever levels without a result earlier
\* insertions and removals left behind; no prefix, or an entry without actions,
\* gives the default.
LongestMatchWins ==
  \A key \in Packets :
    LET matching == {e \in Entries : IsPrefix(e[1], key)}
        best == CHOOSE e \in matching : \A f \in matching : Len(f[1]) <= Len(e[1])
    IN  Process(level, key) =
          IF matching = {} THEN Default
          ELSE IF best[2] = NoActions THEN Default ELSE best[2]

\* Each list of actions made for an entry is cleaned up once and no later than
\* the entry goes: what setResult, clearResult and Clear leave uncleaned are the
\* lists of the entries that Entries lists.
ActionsReleased == held = Cardinality(Entries)

AsMap == INSTANCE PrefixMap WITH map <- Entries

\* The trie is a map: a request changes the entry of its own key and no other,
\* the removal of an entry that is there succeeds, and an entry is listed once.
ImplementsPrefixMap == AsMap!MapSpec
=============================================================================

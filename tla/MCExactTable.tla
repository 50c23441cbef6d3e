---------------------------- MODULE MCExactTable ----------------------------
(* Three keys that share a bucket, and two lists of actions.               *)
EXTENDS ExactTable, TLC

CONSTANTS k1, k2, k3, b, x, y
MCKeys == {k1, k2, k3}
MCActs == {x, y}
MCBucket == [k \in MCKeys |-> b]
MCOneKey == {k1}
MCOneBucket == [k \in MCOneKey |-> b]

\* The properties say nothing of a table that has strayed, and it never recovers:
\* its states are not explored further.
NotStrayed == ~strayed
MCSymmetry == Permutations(MCKeys) \cup Permutations(MCActs)
=============================================================================

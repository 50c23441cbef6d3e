--------------------------- MODULE MCPrefixTable ---------------------------
(***************************************************************************)
(* Instance of PrefixTable: all prefixes of up to three bits that begin    *)
(* with 0 (one VRF) and one that begins with 1 (another), and two lists of *)
(* actions, one of them empty.                                             *)
(***************************************************************************)
EXTENDS PrefixTable

CONSTANT a1

MCActs == {a1, NoActions}
MCKeys == {<<0>> \o s : s \in UNION {[1..n -> {0, 1}] : n \in 0..2}} \cup {<<1, 0>>}
=============================================================================

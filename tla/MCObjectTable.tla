--------------------------- MODULE MCObjectTable ---------------------------
(***************************************************************************)
(* Instances of ObjectTable: a device port and two tables, enough for      *)
(* links in both directions, for cycles and for a table built at a taken   *)
(* ID.                                                                     *)
(***************************************************************************)
EXTENDS ObjectTable, TLC

CONSTANTS port, table1, table2, id1, id2

MCObjects == {port, table1, table2}
MCPorts == {port}
MCIds == {id1, id2}
=============================================================================

------------------------------ MODULE MCQueue ------------------------------
(* The queue with two writers.                                             *)
EXTENDS Queue

CONSTANTS w1, w2
MCWriters == {w1, w2}
MCMaxes == {Unbounded, 1, 2}
=============================================================================

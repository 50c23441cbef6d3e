------------------------------ MODULE MCReboot ------------------------------
(* Three Reboot calls and two CancelReboot calls, in any order.            *)
EXTENDS Reboot

CONSTANTS r1, r2, r3, c1, c2
MCReboots == {r1, r2, r3}
MCCancels == {c1, c2}
=============================================================================

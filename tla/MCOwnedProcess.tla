----------------------------- MODULE MCOwnedProcess ----------------------------
(* Three PIDs and up to four processes: a child, a stranger on the leader's PID, *)
(* and a stranger's child.                                                       *)
EXTENDS OwnedProcess, TLC
CONSTANTS p1, p2, p3
================================================================================

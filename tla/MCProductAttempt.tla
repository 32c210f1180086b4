---------------------------- MODULE MCProductAttempt ---------------------------
(* Four PIDs; before the launch a stranger (PID 1) ran below another (PID 3).     *)
EXTENDS ProductAttempt, TLC
MCOthers == 1 :> 3 @@ 3 :> 0
MCLevels == {[main |-> 100, total |-> 400], [main |-> 102, total |-> 402]}
================================================================================

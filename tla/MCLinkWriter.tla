----------------------------- MODULE MCLinkWriter ------------------------------
(* A frame of two bytes, one of one byte, a third of two bytes, and an oversized *)
(* one, all on one link with a deadline of two ticks.                            *)
EXTENDS LinkWriter, TLC
CONSTANTS ping, quit, echo, big
MCSize == ping :> 1 @@ quit :> 2 @@ echo :> 2 @@ big :> 3
================================================================================

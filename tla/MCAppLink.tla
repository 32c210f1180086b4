------------------------------- MODULE MCAppLink -------------------------------
(* Small app-links: the stock application alone, and an application that echoes  *)
(* from a second task while the first waits.                                     *)
EXTENDS AppLink, TLC
CONSTANTS main, worker
StockProgram  == main :> <<"echo", "lifecycle">>
SharedProgram == main :> <<"echo", "lifecycle">> @@ worker :> <<"echo", "echo">>
Raw == [EventFrame("ready") EXCEPT !.flags = 1]
StrayFrames == {HelloFrame, Raw, EventFrame("unknown"),
                Frame("REPLY", "echo", 1, "garbled", NoCall),
                Frame("REPLY", "lifecycle", 2, "refused", NoCall)}
================================================================================

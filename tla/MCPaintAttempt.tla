----------------------------- MODULE MCPaintAttempt ----------------------------
(* Up to four requests, good, early and wrong ones, in a short attempt.          *)
EXTENDS PaintAttempt, TLC
================================================================================

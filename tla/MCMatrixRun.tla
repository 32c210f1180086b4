------------------------------ MODULE MCMatrixRun ------------------------------
(* One backend with both styles and one mitigation.                              *)
EXTENDS MatrixRun
MCCells == {[backend |-> "x11", style |-> s] : s \in {"opaque", "transparent"}}
================================================================================

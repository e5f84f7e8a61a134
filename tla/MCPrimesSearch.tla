---------------------------- MODULE MCPrimesSearch ---------------------------
(* PrimesSearch on small instances: the marks of a finished build, and the *)
(* ones of a detector that was never built.                                *)
EXTENDS PrimesSearch

MCInputs == {-1, 1, 3, 4, 5, 6}
MCBuilt == {0, 1, 2, 3, 5}
MCUnbuilt == 0..5
=============================================================================

----------------------------- MODULE MCMCPClient -----------------------------
(* Instances of MCPClient for TLC.  Callers are interchangeable, which only  *)
(* the runs without liveness properties use.                                 *)
EXTENDS MCPClient, TLC

Symmetry == Permutations(Callers)
=============================================================================

--------------------------- MODULE MCSessionCache ---------------------------
(* Instances of SessionCache for TLC.  Goroutines are interchangeable.     *)
EXTENDS SessionCache, TLC

Symmetry == Permutations(Callers)
=============================================================================

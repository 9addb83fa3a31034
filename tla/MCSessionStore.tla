--------------------------- MODULE MCSessionStore ---------------------------
(* Instances of SessionStore for TLC.  Goroutines are interchangeable.     *)
EXTENDS SessionStore, TLC

Symmetry == Permutations(Handlers) \union Permutations(Jobs)
=============================================================================

--------------------------- MODULE MCGBrainBridge ---------------------------
(* Instances of GBrainBridge for TLC.  Names of goroutines are             *)
(* interchangeable; the liveness runs do without symmetry.                 *)
EXTENDS GBrainBridge, TLC

Symmetry == Permutations(Restarters)
=============================================================================

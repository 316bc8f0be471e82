--------------------------- MODULE MCGoliveCache ---------------------------
(* Instances of GoliveCache for TLC. *)
EXTENDS GoliveCache, TLC
=============================================================================

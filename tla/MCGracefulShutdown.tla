------------------------- MODULE MCGracefulShutdown -------------------------
(* Small instances of GracefulShutdown for TLC.                            *)
EXTENDS GracefulShutdown, TLC

Symmetry == Permutations(Channels)
=============================================================================

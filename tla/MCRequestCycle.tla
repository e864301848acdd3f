--------------------------- MODULE MCRequestCycle ---------------------------
(* Small instances of RequestCycle for TLC.                                *)
EXTENDS RequestCycle, TLC

Symmetry == Permutations(Channels) \cup Permutations(Threads)
=============================================================================

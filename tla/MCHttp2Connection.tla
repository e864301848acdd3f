------------------------- MODULE MCHttp2Connection -------------------------
(* Small instances of Http2Connection for TLC.                             *)
EXTENDS Http2Connection, TLC

Symmetry == Permutations(Threads)
=============================================================================

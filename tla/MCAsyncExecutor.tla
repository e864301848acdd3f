-------------------------- MODULE MCAsyncExecutor --------------------------
(* Small instances of AsyncExecutor for TLC.                               *)
EXTENDS AsyncExecutor, TLC

Symmetry == Permutations(Callers)
=============================================================================

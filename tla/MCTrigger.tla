----------------------------- MODULE MCTrigger -----------------------------
(* Small instances of Trigger for TLC.                                     *)
EXTENDS Trigger, TLC
CONSTANTS w1, w2, m

Symmetry == Permutations({w1, w2})
=============================================================================

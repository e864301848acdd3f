--------------------------- MODULE MCFutureAnswers ---------------------------
(* Small instances of FutureAnswers for TLC.                                *)
EXTENDS FutureAnswers

\* Two tasks collected by the first call, one by the second.
TwoThenOne == <<{2}, {1}>>
=============================================================================

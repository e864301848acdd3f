---- MODULE MCSharedState ----
(* Two workers and one name, which the master has registered. *)
EXTENDS SharedState

MCEarly == <<"a">>
====

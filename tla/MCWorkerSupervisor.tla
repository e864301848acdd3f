------------------------- MODULE MCWorkerSupervisor -------------------------
(* Small instances of WorkerSupervisor for TLC.                            *)
EXTENDS WorkerSupervisor
=============================================================================

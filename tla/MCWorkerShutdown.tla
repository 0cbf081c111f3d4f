-------------------------- MODULE MCWorkerShutdown --------------------------
(* Small instances of WorkerShutdown for TLC.                              *)
EXTENDS WorkerShutdown, TLC

Symmetric == Permutations(Workers) \cup Permutations(Slots)
=============================================================================

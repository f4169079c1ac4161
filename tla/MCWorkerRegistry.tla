-------------------------- MODULE MCWorkerRegistry --------------------------
(* Small instances of WorkerRegistry for TLC. *)
EXTENDS WorkerRegistry, TLC

(* Worker ids and handler tasks are interchangeable. *)
Symmetric == Permutations(Workers) \cup Permutations(Callers)
=============================================================================

----------------------------- MODULE MCRecovery -----------------------------
(* A small instance of Recovery for TLC. *)
EXTENDS Recovery

CONSTANTS Brief, Full   \* two states of the coordinator

(* The text of a state with an active scenario is the longer one. *)
Lengths == [v \in States |-> IF v = Full THEN 2 ELSE 1]
=============================================================================

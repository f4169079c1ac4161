------------------------------ MODULE Recovery ------------------------------
(***************************************************************************)
(* The cluster together with the checkpoint file of its coordinator.  The  *)
(* file is the only thing on disk: it outlives the process, while the      *)
(* registry and every save under way end with it.  CoordinatorState holds  *)
(* counts and scenario names, no workers, so a restarted coordinator that  *)
(* loads it still starts with an empty registry (Cluster!CoordRestart).    *)
(***************************************************************************)
EXTENDS Cluster, Checkpoint

recoveryVars == <<vars, checkpointVars>>

RecoveryInit == Init /\ CheckpointInit

(* Tasks of the coordinator save while its process runs; the crash of the
   coordinator kills their saves, nothing else in the cluster touches them. *)
RecoveryNext ==
    \/ coord = "up" /\ Save /\ UNCHANGED vars
    \/ Next /\ IF CoordCrash THEN Killed ELSE UNCHANGED checkpointVars

RecoverySpec == RecoveryInit /\ [][RecoveryNext]_recoveryVars /\ Fairness

(***************************************************************************)
(* Properties                                                              *)
(***************************************************************************)

(* A save that returned Ok without meeting another one is what `load` returns,
   through crashes and restarts of the coordinator, until the next save begins
   (fault_tolerance.rs:156-173). *)
SavedIsLoadable == settled # Nothing => Loaded = settled

=============================================================================

----------------------------- MODULE Checkpoint -----------------------------
(***************************************************************************)
(* CoordinatorCheckpoint (fault_tolerance.rs): `save` writes the state of  *)
(* the coordinator to one file, `load` reads it back.  Nothing in the      *)
(* repository calls them yet: any task of the coordinator may, at any      *)
(* time, and nothing keeps two saves apart.                                *)
(*                                                                         *)
(* tokio::fs::write opens the file, which empties it, and then writes the  *)
(* text with one write(2) at its start: the system does that whole or, on  *)
(* a full disk or when the process is killed before, not at all.  A text   *)
(* matters by the state it is of and by its length; it is parsed only as a *)
(* whole, with nothing behind it (serde_json::from_str).                   *)
(***************************************************************************)
EXTENDS Naturals, FiniteSetsExt

CONSTANTS
    Savers,   \* tasks that call save
    States,   \* values of CoordinatorState
    Size,     \* how long the text of each is
    Nothing   \* no state

ASSUME CheckpointAssumption ==
    /\ Size \in [States -> Nat \ {0}]
    /\ Nothing \notin States

VARIABLES
    file,     \* what is at checkpoint_path: whose text comes first, and the length
    saving,   \* the state each task is saving, between opening and writing
    crossed,  \* the tasks whose save under way has met another one
    settled   \* the state of a save that returned Ok, met no other, and is the last begun

checkpointVars == <<file, saving, crossed, settled>>

CheckpointTypeOK ==
    /\ file \in [first : States \cup {Nothing}, length : Nat]
    /\ saving \in [Savers -> States \cup {Nothing}]
    /\ crossed \subseteq Savers
    /\ settled \in States \cup {Nothing}

(* There is no file, or one with nothing in it: neither can be loaded. *)
Empty == [first |-> Nothing, length |-> 0]

Saving == {s \in Savers : saving[s] # Nothing}

(* Faulty variant: opened for writing without emptying it. *)
SaveOpensAsIs(s, v) ==
    /\ saving[s] = Nothing
    /\ saving' = [saving EXCEPT ![s] = v]
    /\ crossed' = IF Saving = {} THEN {} ELSE Saving \cup {s}
    /\ settled' = Nothing
    /\ UNCHANGED file

(* save: the state is turned into text, and the file is opened, which empties it. *)
SaveOpens(s, v) ==
    /\ saving[s] = Nothing
    /\ file' = Empty
    /\ saving' = [saving EXCEPT ![s] = v]
    /\ crossed' = IF Saving = {} THEN {} ELSE Saving \cup {s}
    /\ settled' = Nothing

(* ... the text is written over what another save may have put there, Ok(()). *)
SaveWrites(s) ==
    /\ saving[s] # Nothing
    /\ file' = [first |-> saving[s], length |-> Max({file.length, Size[saving[s]]})]
    /\ saving' = [saving EXCEPT ![s] = Nothing]
    /\ crossed' = crossed \ {s}
    /\ settled' = IF s \in crossed THEN Nothing ELSE saving[s]

(* ... or the write fails, and `?` returns the error. *)
SaveFails(s) ==
    /\ saving[s] # Nothing
    /\ saving' = [saving EXCEPT ![s] = Nothing]
    /\ crossed' = crossed \ {s}
    /\ UNCHANGED <<file, settled>>

(* The process is killed: its saves go no further. *)
Killed ==
    /\ saving' = [s \in Savers |-> Nothing]
    /\ crossed' = {}
    /\ UNCHANGED <<file, settled>>

(* load: the state whose whole text the file is, or an error. *)
Loaded ==
    IF file.first # Nothing /\ file.length = Size[file.first] THEN file.first ELSE Nothing

CheckpointInit ==
    /\ file = Empty
    /\ saving = [s \in Savers |-> Nothing]
    /\ crossed = {}
    /\ settled = Nothing

Save ==
    \E s \in Savers :
        \/ \E v \in States : SaveOpens(s, v)
        \/ SaveWrites(s) \/ SaveFails(s)

=============================================================================

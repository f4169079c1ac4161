----------------------------- MODULE BotState -----------------------------
(***************************************************************************)
(* The lives of bots as the state machine of bot/src/state.rs allows them. *)
(* The Rust types give each state the methods that lead out of it, and no  *)
(* others; each method notes where it came from and where it went.         *)
(***************************************************************************)
EXTENDS Naturals, Sequences

CONSTANT Bots

VARIABLES
    current,  \* each bot's state
    history   \* the transitions it made

life == <<current, history>>

Transition(b, from, to) ==
    /\ current[b] = from
    /\ current' = [current EXCEPT ![b] = to]
    /\ history' = [history EXCEPT ![b] = Append(@, [from |-> from, to |-> to])]

Initialize(b) == Transition(b, "created", "initializing")
Start(b)      == Transition(b, "initializing", "running")
Pause(b)      == Transition(b, "running", "paused")
Resume(b)     == Transition(b, "paused", "running")
Stop(b)       == \E from \in {"running", "paused"} : Transition(b, from, "stopping")
Complete(b)   == Transition(b, "stopping", "stopped")
Fail(b)       == \E from \in {"initializing", "running"} : Transition(b, from, "error")

Init ==
    /\ current = [b \in Bots |-> "created"]
    /\ history = [b \in Bots |-> <<>>]

Next == \E b \in Bots :
    Initialize(b) \/ Start(b) \/ Pause(b) \/ Resume(b) \/ Stop(b) \/ Complete(b) \/ Fail(b)

Spec == Init /\ [][Next]_life

============================================================================

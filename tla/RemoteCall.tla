----------------------------- MODULE RemoteCall -----------------------------
(***************************************************************************)
(* What a caller of a service may rely on, with no requests, answers or    *)
(* timers: a call takes effect at most once; Ok means that it has; a call  *)
(* that never left never takes effect; and an error says nothing more: the *)
(* effect may have come before it, may come after it, or not at all.       *)
(***************************************************************************)
EXTENDS Naturals

CONSTANT Calls

VARIABLES
    outcome,  \* what the caller of each call knows
    effects   \* how often each call has taken effect at the service

Init ==
    /\ outcome = [c \in Calls |-> "new"]
    /\ effects = [c \in Calls |-> 0]

Become(c, from, to) ==
    /\ outcome[c] = from
    /\ outcome' = [outcome EXCEPT ![c] = to]
    /\ UNCHANGED effects

Begin(c) == Become(c, "new", "open")

Refuse(c) == Become(c, "new", "refused")

TakeEffect(c) ==
    /\ outcome[c] \in {"open", "error"} /\ effects[c] = 0
    /\ effects' = [effects EXCEPT ![c] = 1]
    /\ UNCHANGED outcome

Succeed(c) == effects[c] = 1 /\ Become(c, "open", "ok")

Fail(c) == Become(c, "open", "error")

Next ==
    \E c \in Calls :
        Begin(c) \/ Refuse(c) \/ TakeEffect(c) \/ Succeed(c) \/ Fail(c)

Spec == Init /\ [][Next]_<<outcome, effects>>

=============================================================================

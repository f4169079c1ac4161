------------------------------ MODULE BotRun ------------------------------
(***************************************************************************)
(* A run of bots on one machine, as the command line starts it             *)
(* (cli/src/main.rs): all bots are set up, then each executes a behaviour, *)
(* then all are torn down, one call after the other.  The other way is the *)
(* simple-transfer test, which does the same with one bot and gives up at  *)
(* the first error.                                                        *)
(*                                                                         *)
(* The runner calls the bots through the Bot trait (bot/src/actor.rs): a   *)
(* call may succeed or fail, whatever the present roles do.  The program   *)
(* keeps no state of a bot; the trail records what the calls amount to in  *)
(* the terms of bot/src/state.rs, whose machine they are held against.     *)
(*                                                                         *)
(* While a run lasts, the behaviours of a bot use its wallet               *)
(* (bot/src/wallet.rs), each call under the wallet's lock; they are not in *)
(* the repository yet, and may use it in any way it allows.                *)
(***************************************************************************)
EXTENDS Naturals, Sequences

CONSTANTS
    BotCount,            \* bots of a scenario
    Tokens,              \* AX, SAX, DX
    MaxAmount,           \* the largest balance (2^128 - 1)
    MaxTraded, MaxOps    \* bounds: amount credited, pending operations

ASSUME RunAssumption ==
    /\ BotCount \in Nat \ {0}
    /\ MaxAmount \in Nat /\ MaxTraded \in Nat /\ MaxOps \in Nat

VARIABLES
    mode,      \* what was started: a scenario, or the test
    pc,        \* where the runner is
    turn,      \* the bot whose turn it is
    trail,     \* the states each bot went through
    wallet,    \* balances of each bot
    pending,   \* pending operations of each bot
    credited,  \* all that was credited
    debited    \* all that was debited

runnerVars == <<mode, pc, turn, trail>>
walletVars == <<wallet, pending, credited, debited>>
vars == <<runnerVars, walletVars>>

Bots == 1..(IF mode = "test" THEN 1 ELSE BotCount)

States == {"created", "initializing", "running", "paused", "stopping", "stopped", "error"}

(* An amount of one token: a u128. *)
Balance == 0..MaxAmount

TypeOK ==
    /\ mode \in {"scenario", "test"}
    /\ pc \in {"setup", "setting up", "execute", "executing", "teardown", "tearing down", "done", "failed"}
    /\ turn \in 1..BotCount + 1
    /\ pc \in {"setting up", "executing", "tearing down"} => turn \in Bots
    /\ trail \in [1..BotCount -> Seq(States) \ {<<>>}]
    /\ wallet \in [1..BotCount -> [Tokens -> Balance]]
    /\ pending \in [1..BotCount -> 0..MaxOps]
    /\ credited \in [1..BotCount -> [Tokens -> Nat]]
    /\ debited \in [1..BotCount -> [Tokens -> Nat]]

State(b) == trail[b][Len(trail[b])]

(***************************************************************************)
(* The runner                                                              *)
(***************************************************************************)

(* The bot whose turn it is changes its state.                             *)
Moves(to) == trail' = [trail EXCEPT ![turn] = Append(@, to)]

(* One of the runner's loops over the bots: a call for the next one, or on *)
(* to what follows.                                                        *)
Call(loop, calling) ==
    /\ pc = loop /\ turn \in Bots
    /\ pc' = calling
    /\ UNCHANGED <<mode, turn, walletVars>>

LoopEnds(loop, next) ==
    /\ pc = loop /\ turn \notin Bots
    /\ pc' = next
    /\ turn' = 1
    /\ UNCHANGED <<mode, trail, walletVars>>

(* A call has returned, and the loop goes on, or the runner gives up.      *)
GoesOn(calling, loop) ==
    /\ pc = calling
    /\ pc' = loop
    /\ turn' = turn + 1
    /\ UNCHANGED <<mode, walletVars>>

GivesUp(calling) ==
    /\ pc = calling
    /\ pc' = "failed"
    /\ UNCHANGED <<mode, turn, walletVars>>

Setup == Call("setup", "setting up") /\ Moves("initializing")

SetupOk == GoesOn("setting up", "setup") /\ Moves("running")

(* Faulty variant: notes the error, and goes on with the next bot. *)
SetupErrIgnored == GoesOn("setting up", "setup") /\ Moves("error")

(* `?`: the run ends, and no bot is torn down.                             *)
SetupErr == GivesUp("setting up") /\ Moves("error")

SetupEnds == LoopEnds("setup", "execute")

ExecuteBehavior == Call("execute", "executing") /\ UNCHANGED trail

(* The result may report success or not: the runner only prints it.        *)
ExecuteOk == GoesOn("executing", "execute") /\ UNCHANGED trail

ExecuteErr ==
    /\ IF mode = "test" THEN GivesUp("executing") ELSE GoesOn("executing", "execute")
    /\ UNCHANGED trail

ExecuteEnds == LoopEnds("execute", "teardown")

Teardown == Call("teardown", "tearing down") /\ Moves("stopping")

TeardownOk == GoesOn("tearing down", "teardown") /\ Moves("stopped")

(* Faulty variant: `?` in the scenario too. *)
TeardownErrFatal == GivesUp("tearing down") /\ UNCHANGED trail

TeardownErr ==
    /\ IF mode = "test" THEN GivesUp("tearing down") ELSE GoesOn("tearing down", "teardown")
    /\ UNCHANGED trail

TeardownEnds == LoopEnds("teardown", "done")

Runner ==
    \/ Setup \/ SetupOk \/ SetupErr \/ SetupEnds
    \/ ExecuteBehavior \/ ExecuteOk \/ ExecuteErr \/ ExecuteEnds
    \/ Teardown \/ TeardownOk \/ TeardownErr \/ TeardownEnds

(***************************************************************************)
(* Wallets                                                                 *)
(***************************************************************************)

(* The bot has its context, and the program still runs.                    *)
HasWallet(b) == Len(trail[b]) > 1 /\ pc \notin {"done", "failed"}

(* Faulty variant: an addition nobody checks. *)
CreditUnchecked(b, t, n) ==
    /\ HasWallet(b) /\ credited[b][t] + n <= MaxTraded
    /\ wallet' = [wallet EXCEPT ![b][t] = @ + n]
    /\ credited' = [credited EXCEPT ![b][t] = @ + n]
    /\ UNCHANGED <<runnerVars, pending, debited>>

(* credit: refuses what would overflow the balance.                        *)
Credit(b, t, n) ==
    /\ HasWallet(b) /\ credited[b][t] + n <= MaxTraded
    /\ wallet[b][t] + n <= MaxAmount
    /\ wallet' = [wallet EXCEPT ![b][t] = @ + n]
    /\ credited' = [credited EXCEPT ![b][t] = @ + n]
    /\ UNCHANGED <<runnerVars, pending, debited>>

(* Faulty variant: a saturating subtraction. *)
DebitSaturating(b, t, n) ==
    /\ HasWallet(b) /\ debited[b][t] + n <= MaxTraded
    /\ wallet' = [wallet EXCEPT ![b][t] = IF n <= @ THEN @ - n ELSE 0]
    /\ debited' = [debited EXCEPT ![b][t] = @ + n]
    /\ UNCHANGED <<runnerVars, pending, credited>>

(* debit: refuses what the balance does not cover, whatever has_balance    *)
(* said before.                                                            *)
Debit(b, t, n) ==
    /\ HasWallet(b)
    /\ n <= wallet[b][t]
    /\ wallet' = [wallet EXCEPT ![b][t] = @ - n]
    /\ debited' = [debited EXCEPT ![b][t] = @ + n]
    /\ UNCHANGED <<runnerVars, pending, credited>>

AddPendingOp(b) ==
    /\ HasWallet(b) /\ pending[b] < MaxOps
    /\ pending' = [pending EXCEPT ![b] = @ + 1]
    /\ UNCHANGED <<runnerVars, wallet, credited, debited>>

ClearPendingOps(b) ==
    /\ HasWallet(b)
    /\ pending' = [pending EXCEPT ![b] = 0]
    /\ UNCHANGED <<runnerVars, wallet, credited, debited>>

(* The bots are made, and none has a wallet yet.                           *)
Init ==
    /\ mode \in {"scenario", "test"}
    /\ pc = "setup" /\ turn = 1
    /\ trail = [b \in 1..BotCount |-> <<"created">>]
    /\ wallet = [b \in 1..BotCount |-> [t \in Tokens |-> 0]]
    /\ pending = [b \in 1..BotCount |-> 0]
    /\ credited = [b \in 1..BotCount |-> [t \in Tokens |-> 0]]
    /\ debited = [b \in 1..BotCount |-> [t \in Tokens |-> 0]]

Next ==
    \/ Runner
    \/ \E b \in Bots, t \in Tokens, n \in 1..MaxTraded : Credit(b, t, n) \/ Debit(b, t, n)
    \/ \E b \in Bots : AddPendingOp(b) \/ ClearPendingOps(b)

Spec == Init /\ [][Next]_vars

(* The runner is never stuck between calls, and every call returns.        *)
FairSpec == Spec /\ WF_vars(Runner)

(***************************************************************************)
(* Properties                                                              *)
(***************************************************************************)

(* Each bot goes through the states that state.rs allows, in their order   *)
(* and whatever its calls return: a bot whose setup failed is not made to  *)
(* run, none is set up twice or torn down before it ran                    *)
(* (main.rs:191-250; state.rs:92-200).                                     *)
Steps(s) == [i \in 1..Len(s) - 1 |-> [from |-> s[i], to |-> s[i + 1]]]

Lives == INSTANCE BotState WITH
    Bots <- 1..BotCount,
    current <- [b \in 1..BotCount |-> State(b)],
    history <- [b \in 1..BotCount |-> Steps(trail[b])]
LivesAreLegal == Lives!Spec

(* Once every bot of a scenario is set up, every one is torn down, whatever*)
(* its own or another's calls return (main.rs:217-250).                    *)
TornDown(b) == State(b) \in {"stopping", "stopped"}
AllTornDown ==
    mode = "scenario" /\ pc = "execute" ~> pc = "done" /\ \A b \in Bots : TornDown(b)

(* What AllTornDown does not owe to fairness, and how a scenario fails: it *)
(* is done only when every bot was torn down, and it fails only because a  *)
(* setup did, which leaves the bots set up before running (main.rs:191-212,*)
(* 229-246).                                                               *)
EndsAreClean ==
    /\ pc = "done" => \A b \in Bots : TornDown(b)
    /\ pc = "failed" /\ mode = "scenario" =>
          \A b \in Bots : State(b) = CASE b < turn -> "running"
                                       [] b = turn -> "error"
                                       [] OTHER    -> "created"

(* A balance is what was credited less what was debited: no refused call   *)
(* leaves a trace, and no bot spends from another's wallet                 *)
(* (wallet.rs:136-149; main.rs:194, 206).                                  *)
BooksBalance ==
    \A b \in 1..BotCount, t \in Tokens : wallet[b][t] + debited[b][t] = credited[b][t]

============================================================================

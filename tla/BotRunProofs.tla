--------------------------- MODULE BotRunProofs ---------------------------
(***************************************************************************)
(* Theorems about BotRun.  Where the runner stands says in which state     *)
(* each bot is: before its turn in a loop as the previous loop left it,    *)
(* after it as this loop does.                                             *)
(*                                                                         *)
(* And about ServiceCalls, the calls bots make of services while they run: *)
(* the two share no state, and each theorem is about one of them.          *)
(***************************************************************************)
EXTENDS BotRun, ServiceCalls, TLAPS

USE DEF Balance

LEMMA BotsType == \E n \in 1..BotCount : Bots = 1..n
BY RunAssumption DEF Bots

(***************************************************************************)
(* Types                                                                   *)
(***************************************************************************)

(* A loop ends one past the last bot.                                      *)
InTurn == turn \in Bots \/ \A b \in Bots : b < turn

TypeInv == TypeOK /\ InTurn

LEMMA TypeInit == Init => TypeInv
<1> SUFFICES ASSUME Init PROVE TypeInv
  OBVIOUS
<1>1. <<"created">> \in Seq(States) \ {<<>>}
  BY DEF States
<1>2. 1 \in Bots /\ 1 \in 1..BotCount + 1
  BY BotsType, RunAssumption
<1> QED
  BY <1>1, <1>2, RunAssumption DEF Init, TypeInv, TypeOK, InTurn

(* What a move does to the trails.                                         *)
LEMMA MoveEffect ==
    ASSUME TypeInv, NEW to \in States, Moves(to), turn \in Bots
    PROVE  /\ trail' \in [1..BotCount -> Seq(States) \ {<<>>}]
           /\ trail'[turn] = Append(trail[turn], to)
           /\ \A b \in 1..BotCount : b # turn => trail'[b] = trail[b]
<1>1. turn \in 1..BotCount
  BY BotsType, RunAssumption
<1>2. trail[turn] \in Seq(States)
  BY <1>1 DEF TypeInv, TypeOK
<1>3. /\ Append(trail[turn], to) \in Seq(States)
      /\ Len(Append(trail[turn], to)) = Len(trail[turn]) + 1 /\ Len(trail[turn]) \in Nat
  BY <1>2
<1>4. Append(trail[turn], to) # <<>>
  BY <1>3
<1> QED
  BY <1>1, <1>3, <1>4 DEF TypeInv, TypeOK, Moves

LEMMA WalletTypes ==
    ASSUME TypeInv, NEW b \in 1..BotCount, NEW t \in Tokens
    PROVE  wallet[b][t] \in 0..MaxAmount /\ debited[b][t] \in Nat /\ credited[b][t] \in Nat
<1>1. wallet[b] \in [Tokens -> 0..MaxAmount] /\ debited[b] \in [Tokens -> Nat] /\ credited[b] \in [Tokens -> Nat]
  BY DEF TypeInv, TypeOK
<1> QED
  BY <1>1

(* A map of maps changed at one place.                                     *)
LEMMA NestedExcept ==
    ASSUME NEW A, NEW B, NEW S, NEW f \in [A -> [B -> S]], NEW a \in A, NEW b \in B, NEW x \in S
    PROVE  [f EXCEPT ![a][b] = x] \in [A -> [B -> S]]
OBVIOUS

(* The turn after a bot's is another bot's, or past the last.              *)
LEMMA NextTurn ==
    ASSUME NEW n \in 1..BotCount, NEW t \in 1..n
    PROVE  t + 1 \in 1..BotCount + 1 /\ (t + 1 \in 1..n \/ \A b \in 1..n : b < t + 1)
<1>1. n \in Nat /\ t \in Nat /\ BotCount \in Nat /\ 1 <= t /\ t <= n /\ n <= BotCount
  BY RunAssumption
<1>2. t + 1 \in 1..BotCount + 1
  BY <1>1
<1>3. CASE t = n
  BY <1>1, <1>2, <1>3
<1>4. CASE t < n
  BY <1>1, <1>2, <1>4
<1> QED
  BY <1>1, <1>3, <1>4

LEMMA TypeStep == TypeInv /\ [Next]_vars => TypeInv'
<1> SUFFICES ASSUME TypeInv, [Next]_vars PROVE TypeInv'
  OBVIOUS
<1> USE DEF TypeInv
<1>b. ASSUME mode' = mode PROVE Bots' = Bots
  BY <1>b DEF Bots
<1>m. ASSUME TRUE PROVE {"initializing", "running", "error", "stopping", "stopped"} \subseteq States
  BY DEF States
<1>1. ASSUME NEW loop, NEW calling \in {"setting up", "executing", "tearing down"}, Call(loop, calling),
             trail' \in [1..BotCount -> Seq(States) \ {<<>>}]
      PROVE  TypeInv'
  BY <1>b, <1>1 DEF Call, walletVars, TypeOK, InTurn
<1>2. ASSUME NEW loop, NEW next \in {"execute", "teardown", "done"}, LoopEnds(loop, next)
      PROVE  TypeInv'
  <2>1. 1 \in Bots /\ 1 \in 1..BotCount + 1
    BY BotsType, RunAssumption
  <2> QED
    BY <1>b, <1>2, <2>1 DEF LoopEnds, walletVars, TypeOK, InTurn
<1>3. ASSUME NEW calling \in {"setting up", "executing", "tearing down"},
             NEW loop \in {"setup", "execute", "teardown"}, GoesOn(calling, loop),
             trail' \in [1..BotCount -> Seq(States) \ {<<>>}]
      PROVE  TypeInv'
  <2>1. turn \in Bots /\ turn' = turn + 1 /\ Bots' = Bots
    BY <1>b, <1>3 DEF GoesOn, TypeOK
  <2>2. PICK n \in 1..BotCount : Bots = 1..n
    BY BotsType
  <2>3. turn + 1 \in 1..BotCount + 1 /\ (turn + 1 \in 1..n \/ \A b \in 1..n : b < turn + 1)
    BY <2>1, <2>2, NextTurn, RunAssumption
  <2>4. turn' \in 1..BotCount + 1 /\ (turn' \in Bots' \/ \A b \in Bots' : b < turn')
    BY <2>1, <2>2, <2>3
  <2> QED
    BY <1>3, <2>1, <2>4 DEF GoesOn, walletVars, TypeOK, InTurn
<1>4. ASSUME NEW calling, GivesUp(calling), trail' \in [1..BotCount -> Seq(States) \ {<<>>}]
      PROVE  TypeInv'
  BY <1>b, <1>4 DEF GivesUp, walletVars, TypeOK, InTurn
<1>5. CASE Runner
  <2>1. trail' \in [1..BotCount -> Seq(States) \ {<<>>}]
    <3>1. CASE UNCHANGED trail
      BY <3>1 DEF TypeOK
    <3>2. CASE \E to \in {"initializing", "running", "error", "stopping", "stopped"} : Moves(to) /\ turn \in Bots
      BY <1>m, <3>2, MoveEffect
    <3> QED
      BY <1>5, <3>1, <3>2
         DEF Runner, Setup, SetupOk, SetupErr, SetupEnds, ExecuteBehavior, ExecuteOk,
         ExecuteErr, ExecuteEnds, Teardown, TeardownOk, TeardownErr, TeardownEnds,
         Call, GoesOn, GivesUp, LoopEnds, TypeOK
  <2>2. CASE Setup
    BY <1>1, <2>1, <2>2 DEF Setup
  <2>3. CASE SetupOk
    BY <1>3, <2>1, <2>3 DEF SetupOk
  <2>4. CASE SetupErr
    BY <1>4, <2>1, <2>4 DEF SetupErr
  <2>5. CASE SetupEnds
    BY <1>2, <2>5 DEF SetupEnds
  <2>6. CASE ExecuteBehavior
    BY <1>1, <2>1, <2>6 DEF ExecuteBehavior
  <2>7. CASE ExecuteOk
    BY <1>3, <2>1, <2>7 DEF ExecuteOk
  <2>8. CASE ExecuteErr
    BY <1>3, <1>4, <2>1, <2>8 DEF ExecuteErr
  <2>9. CASE ExecuteEnds
    BY <1>2, <2>9 DEF ExecuteEnds
  <2>10. CASE Teardown
    BY <1>1, <2>1, <2>10 DEF Teardown
  <2>11. CASE TeardownOk
    BY <1>3, <2>1, <2>11 DEF TeardownOk
  <2>12. CASE TeardownErr
    BY <1>3, <1>4, <2>1, <2>12 DEF TeardownErr
  <2>13. CASE TeardownEnds
    BY <1>2, <2>13 DEF TeardownEnds
  <2> QED
    BY <1>5, <2>2, <2>3, <2>4, <2>5, <2>6, <2>7, <2>8, <2>9, <2>10, <2>11, <2>12, <2>13
       DEF Runner
<1>6. ASSUME NEW b \in Bots, NEW t \in Tokens, NEW n \in 1..MaxTraded, Credit(b, t, n) PROVE TypeInv'
  <2>1. b \in 1..BotCount /\ n \in Nat
    BY BotsType, RunAssumption
  <2>2. wallet[b][t] + n \in 0..MaxAmount /\ credited[b][t] + n \in Nat
    BY <1>6, <2>1, WalletTypes, RunAssumption DEF Credit
  <2>3. /\ wallet' \in [1..BotCount -> [Tokens -> 0..MaxAmount]]
        /\ credited' \in [1..BotCount -> [Tokens -> Nat]]
    BY <1>6, <2>1, <2>2 DEF Credit, TypeOK
  <2> QED
    BY <1>b, <1>6, <2>3 DEF Credit, runnerVars, TypeOK, InTurn
<1>7. ASSUME NEW b \in Bots, NEW t \in Tokens, NEW n \in 1..MaxTraded, Debit(b, t, n) PROVE TypeInv'
  <2>1. b \in 1..BotCount /\ n \in Nat
    BY BotsType, RunAssumption
  <2>2. wallet[b][t] - n \in 0..MaxAmount /\ debited[b][t] + n \in Nat
    BY <1>7, <2>1, WalletTypes, RunAssumption DEF Debit
  <2>3. /\ wallet' \in [1..BotCount -> [Tokens -> 0..MaxAmount]]
        /\ debited' \in [1..BotCount -> [Tokens -> Nat]]
    BY <1>7, <2>1, <2>2 DEF Debit, TypeOK
  <2> QED
    BY <1>b, <1>7, <2>3 DEF Debit, runnerVars, TypeOK, InTurn
<1>8. ASSUME NEW b \in Bots, AddPendingOp(b) \/ ClearPendingOps(b) PROVE TypeInv'
  <2>1. b \in 1..BotCount
    BY BotsType, RunAssumption
  <2>2. pending[b] \in Nat /\ (pending[b] < MaxOps => pending[b] + 1 \in 0..MaxOps) /\ 0 \in 0..MaxOps
    <3>1. pending[b] \in 0..MaxOps
      BY <2>1 DEF TypeOK
    <3> QED
      BY <3>1, RunAssumption
  <2>3. pending' \in [1..BotCount -> 0..MaxOps]
    BY <1>8, <2>1, <2>2 DEF AddPendingOp, ClearPendingOps, TypeOK
  <2> QED
    BY <1>b, <1>8, <2>3 DEF AddPendingOp, ClearPendingOps, runnerVars, TypeOK, InTurn
<1>9. CASE UNCHANGED vars
  BY <1>b, <1>9 DEF vars, runnerVars, walletVars, TypeOK, InTurn
<1> QED
  BY <1>5, <1>6, <1>7, <1>8, <1>9 DEF Next

(* Every reachable state of the runner, its bots and their wallets is      *)
(* well-typed; no balance exceeds what it can hold (wallet.rs:68-80).      *)
THEOREM RunTypes == Spec => []TypeOK
<1>1. TypeInv => TypeOK
  BY DEF TypeInv
<1> QED
  BY <1>1, TypeInit, TypeStep, PTL DEF Spec

(***************************************************************************)
(* Wallets                                                                 *)
(***************************************************************************)

(* For any number of bots, tokens and amounts, and whatever behaviours ask *)
(* for: a balance is what was credited less what was debited               *)
(* (wallet.rs:136-149).                                                    *)
THEOREM BooksAreKept == Spec => []BooksBalance
<1>1. Init => BooksBalance
  BY DEF Init, BooksBalance
<1>2. TypeInv /\ BooksBalance /\ [Next]_vars => BooksBalance'
  <2> SUFFICES ASSUME TypeInv, BooksBalance, [Next]_vars PROVE BooksBalance'
    OBVIOUS
  <2>t. \A b \in 1..BotCount, t \in Tokens :
           wallet[b][t] \in Nat /\ debited[b][t] \in Nat /\ credited[b][t] \in Nat
    BY WalletTypes, RunAssumption
  <2>1. ASSUME NEW b \in Bots, NEW t \in Tokens, NEW n \in 1..MaxTraded, Credit(b, t, n)
        PROVE  BooksBalance'
    <3>1. b \in 1..BotCount /\ n \in Nat
      BY BotsType, RunAssumption
    <3>2. /\ wallet'[b][t] = wallet[b][t] + n /\ credited'[b][t] = credited[b][t] + n
          /\ \A c \in 1..BotCount, u \in Tokens : c # b \/ u # t =>
                wallet'[c][u] = wallet[c][u] /\ credited'[c][u] = credited[c][u]
          /\ debited' = debited
      BY <2>1, <3>1 DEF Credit, TypeInv, TypeOK
    <3> QED
      BY <2>t, <3>1, <3>2 DEF BooksBalance
  <2>2. ASSUME NEW b \in Bots, NEW t \in Tokens, NEW n \in 1..MaxTraded, Debit(b, t, n)
        PROVE  BooksBalance'
    <3>1. b \in 1..BotCount /\ n \in Nat
      BY BotsType, RunAssumption
    <3>2. /\ wallet'[b][t] = wallet[b][t] - n /\ debited'[b][t] = debited[b][t] + n
          /\ \A c \in 1..BotCount, u \in Tokens : c # b \/ u # t =>
                wallet'[c][u] = wallet[c][u] /\ debited'[c][u] = debited[c][u]
          /\ credited' = credited
      BY <2>2, <3>1 DEF Debit, TypeInv, TypeOK
    <3> QED
      BY <2>t, <3>1, <3>2 DEF BooksBalance
  <2>3. CASE UNCHANGED <<wallet, credited, debited>>
    BY <2>3 DEF BooksBalance
  <2>4. Runner => UNCHANGED <<wallet, credited, debited>>
    BY DEF Runner, Setup, SetupOk, SetupErr, SetupEnds, ExecuteBehavior, ExecuteOk,
       ExecuteErr, ExecuteEnds, Teardown, TeardownOk, TeardownErr, TeardownEnds,
       Call, GoesOn, GivesUp, LoopEnds, walletVars
  <2> QED
    BY <2>1, <2>2, <2>3, <2>4 DEF Next, AddPendingOp, ClearPendingOps, vars, walletVars
<1> QED
  BY <1>1, <1>2, TypeInit, TypeStep, PTL DEF Spec

(***************************************************************************)
(* Lives                                                                   *)
(***************************************************************************)

(* Where the runner stands, and in which state each bot is then.           *)
PhaseInv ==
    /\ pc \in {"setup", "setting up"} =>
          \A b \in Bots : (b < turn => State(b) = "running") /\ (b > turn => State(b) = "created")
    /\ pc = "setup" => \A b \in Bots : b = turn => State(b) = "created"
    /\ pc = "setting up" => \A b \in Bots : b = turn => State(b) = "initializing"
    /\ pc \in {"execute", "executing"} => \A b \in Bots : State(b) = "running"
    /\ pc \in {"teardown", "tearing down"} => \A b \in Bots : b > turn => State(b) = "running"
    /\ pc = "teardown" => \A b \in Bots : b = turn => State(b) = "running"
    /\ pc = "tearing down" => \A b \in Bots : b = turn => State(b) = "stopping"

LivesInv == TypeInv /\ PhaseInv

(* A longer trail has one transition more.                                 *)
LEMMA StepsAppend ==
    ASSUME NEW s \in Seq(States), s # <<>>, NEW to \in States
    PROVE  Steps(Append(s, to)) = Append(Steps(s), [from |-> s[Len(s)], to |-> to])
<1>1. PICK n \in Nat : n = Len(s) - 1
  OBVIOUS
<1>2. PICK R : R = [from : States, to : States]
  OBVIOUS
<1>3. PICK x : x = [from |-> s[Len(s)], to |-> to]
  OBVIOUS
<1>4. /\ Len(s) = n + 1 /\ Len(Append(s, to)) = n + 2
      /\ \A i \in 1..n + 1 : Append(s, to)[i] = s[i] /\ s[i] \in States
      /\ Append(s, to)[n + 2] = to
  BY <1>1
<1>5. x \in R
  BY <1>2, <1>3, <1>4
<1>6. Steps(s) = [i \in 1..n |-> [from |-> s[i], to |-> s[i + 1]]]
  BY <1>4 DEF Steps
<1>7. \A i \in 1..n : [from |-> s[i], to |-> s[i + 1]] \in R
  BY <1>2, <1>4
<1>8. Steps(s) \in Seq(R) /\ Len(Steps(s)) = n
  BY <1>6, <1>7
<1>9. /\ Append(Steps(s), x) \in Seq(R) /\ Len(Append(Steps(s), x)) = n + 1
      /\ \A i \in 1..n : Append(Steps(s), x)[i] = Steps(s)[i]
      /\ Append(Steps(s), x)[n + 1] = x
  BY <1>5, <1>8
<1>10. Steps(Append(s, to)) = [i \in 1..n + 1 |-> [from |-> Append(s, to)[i], to |-> Append(s, to)[i + 1]]]
  BY <1>4 DEF Steps
<1>11. Append(Steps(s), x) = [i \in 1..n + 1 |-> Append(Steps(s), x)[i]]
  <2>1. PICK q : q = Append(Steps(s), x)
    OBVIOUS
  <2>2. q \in Seq(R) /\ Len(q) = n + 1
    BY <1>9, <2>1
  <2>3. q = [i \in 1..n + 1 |-> q[i]]
    BY <2>2
  <2> QED
    BY <2>1, <2>3
<1>12. \A i \in 1..n + 1 : [from |-> Append(s, to)[i], to |-> Append(s, to)[i + 1]] = Append(Steps(s), x)[i]
  <2> SUFFICES ASSUME NEW i \in 1..n + 1
               PROVE  [from |-> Append(s, to)[i], to |-> Append(s, to)[i + 1]] = Append(Steps(s), x)[i]
    OBVIOUS
  <2>1. CASE i = n + 1
    BY <1>3, <1>4, <1>9, <2>1
  <2>2. CASE i # n + 1
    <3>1. i \in 1..n /\ i + 1 \in 1..n + 1
      BY <2>2
    <3>2. Append(Steps(s), x)[i] = [from |-> s[i], to |-> s[i + 1]]
      BY <1>6, <1>9, <3>1
    <3> QED
      BY <1>4, <3>1, <3>2
  <2> QED
    BY <2>1, <2>2
<1> QED
  BY <1>3, <1>10, <1>11, <1>12

(* A move is a transition of the bot whose turn it is.                     *)
LEMMA MoveIsTransition ==
    ASSUME TypeInv, NEW to \in States, Moves(to), NEW b, b = turn, b \in Bots
    PROVE  /\ Lives!Transition(b, State(b), to)
           /\ State(b)' = to
           /\ \A c \in 1..BotCount : c # b => State(c)' = State(c)
<1>1. b \in 1..BotCount
  BY BotsType, RunAssumption
<1>2. /\ trail'[b] = Append(trail[b], to)
      /\ \A c \in 1..BotCount : c # b => trail'[c] = trail[c]
  BY MoveEffect
<1>3. trail[b] \in Seq(States) /\ trail[b] # <<>>
  BY <1>1 DEF TypeInv, TypeOK
<1>4. /\ Len(Append(trail[b], to)) = Len(trail[b]) + 1 /\ Len(trail[b]) \in Nat
      /\ Append(trail[b], to)[Len(trail[b]) + 1] = to
  BY <1>3
<1>5. State(b)' = to
  BY <1>2, <1>4 DEF State
<1>6. \A c \in 1..BotCount : c # b => State(c)' = State(c)
  BY <1>2 DEF State
<1>7. Steps(trail[b])' = Append(Steps(trail[b]), [from |-> State(b), to |-> to])
  <2>1. Steps(Append(trail[b], to)) = Append(Steps(trail[b]), [from |-> State(b), to |-> to])
    BY <1>3, StepsAppend DEF State
  <2>2. Steps(trail[b])' = Steps(Append(trail[b], to))
    BY <1>2 DEF Steps
  <2> QED
    BY <2>1, <2>2
<1>8. \A c \in 1..BotCount : c # b => Steps(trail[c])' = Steps(trail[c])
  BY <1>2 DEF Steps
<1>9. Lives!Transition(b, State(b), to)
  <2>1. [c \in 1..BotCount |-> State(c)][b] = State(b)
    BY <1>1
  <2>2. [c \in 1..BotCount |-> State(c)]' = [[c \in 1..BotCount |-> State(c)] EXCEPT ![b] = to]
    BY <1>1, <1>5, <1>6
  <2>3. [c \in 1..BotCount |-> Steps(trail[c])]'
           = [[c \in 1..BotCount |-> Steps(trail[c])] EXCEPT ![b] = Append(@, [from |-> State(b), to |-> to])]
    BY <1>1, <1>7, <1>8
  <2> QED
    BY <2>1, <2>2, <2>3 DEF Lives!Transition
<1> QED
  BY <1>5, <1>6, <1>9

LEMMA PhaseInit == Init => PhaseInv
<1> SUFFICES ASSUME Init PROVE PhaseInv
  OBVIOUS
<1>1. \A b \in Bots : b \in 1..BotCount /\ b >= 1
  BY BotsType, RunAssumption
<1>2. \A b \in Bots : State(b) = "created"
  BY <1>1 DEF Init, State
<1> QED
  BY <1>1, <1>2 DEF Init, PhaseInv

(* What the phases and the lives have in common: a step of the runner      *)
(* moves the bot whose turn it is, or none.                                *)
LEMMA LivesStep == LivesInv /\ [Next]_vars => LivesInv' /\ [Lives!Next]_(Lives!life)
<1> SUFFICES ASSUME LivesInv, [Next]_vars PROVE LivesInv' /\ [Lives!Next]_(Lives!life)
  OBVIOUS
<1>t. TypeInv /\ TypeInv'
  BY TypeStep DEF LivesInv
<1>p. PhaseInv
  BY DEF LivesInv
<1> SUFFICES PhaseInv' /\ [Lives!Next]_(Lives!life)
  BY <1>t DEF LivesInv
<1>b. ASSUME mode' = mode PROVE Bots' = Bots
  BY <1>b DEF Bots
<1>n. PICK n \in 1..BotCount : Bots = 1..n
  BY BotsType
<1>k. turn \in Nat /\ \A c \in Bots : c \in 1..BotCount /\ c \in Nat
  <2>1. turn \in 1..BotCount + 1
    BY <1>t DEF TypeInv, TypeOK
  <2> QED
    BY <1>n, <2>1, RunAssumption
<1>e. turn \notin Bots => \A c \in Bots : c < turn
  BY <1>t DEF TypeInv, InTurn
<1>s. ASSUME UNCHANGED trail
      PROVE  [Lives!Next]_(Lives!life) /\ \A c \in Bots : State(c)' = State(c)
  BY <1>s DEF Lives!life, State, Steps
<1>m. ASSUME NEW b, b = turn, b \in Bots, NEW from, from = State(b), NEW to \in States, Moves(to),
             <<from, to>> \in {<<"created", "initializing">>, <<"initializing", "running">>,
                               <<"initializing", "error">>, <<"running", "stopping">>,
                               <<"stopping", "stopped">>}
      PROVE  /\ [Lives!Next]_(Lives!life)
             /\ State(b)' = to
             /\ \A c \in Bots : c # b => State(c)' = State(c)
  <2>1. /\ Lives!Transition(b, from, to)
        /\ State(b)' = to
        /\ \A c \in 1..BotCount : c # b => State(c)' = State(c)
    BY <1>t, <1>m, MoveIsTransition
  <2>2. b \in 1..BotCount
    BY <1>m, <1>k
  <2>3. Lives!Initialize(b) \/ Lives!Start(b) \/ Lives!Fail(b) \/ Lives!Stop(b) \/ Lives!Complete(b)
    BY <1>m, <2>1 DEF Lives!Initialize, Lives!Start, Lives!Fail, Lives!Stop, Lives!Complete
  <2>4. Lives!Next
    BY <2>2, <2>3 DEF Lives!Next
  <2> QED
    BY <1>k, <2>1, <2>4
<1>1. CASE Setup
  <2>1. /\ pc = "setup" /\ pc' = "setting up" /\ turn' = turn /\ mode' = mode
        /\ Moves("initializing") /\ turn \in Bots
    BY <1>1 DEF Setup, Call
  <2>2. PICK b : b = turn
    OBVIOUS
  <2>3. State(b) = "created" /\ "initializing" \in States
    BY <1>p, <2>1, <2>2 DEF PhaseInv, States
  <2>4. /\ [Lives!Next]_(Lives!life)
        /\ State(b)' = "initializing"
        /\ \A c \in Bots : c # b => State(c)' = State(c)
    BY <1>m, <2>1, <2>2, <2>3
  <2> QED
    BY <1>b, <1>k, <1>p, <2>1, <2>2, <2>4 DEF PhaseInv
<1>2. CASE SetupOk
  <2>1. pc = "setting up" /\ pc' = "setup" /\ mode' = mode /\ Moves("running")
    BY <1>2 DEF SetupOk, GoesOn
  <2>2. PICK b : b = turn
    OBVIOUS
  <2>3. turn \in Bots
    BY <1>t, <2>1 DEF TypeInv, TypeOK
  <2>4. State(b) = "initializing" /\ "running" \in States
    BY <1>p, <2>1, <2>2, <2>3 DEF PhaseInv, States
  <2>5. /\ [Lives!Next]_(Lives!life)
        /\ State(b)' = "running"
        /\ \A c \in Bots : c # b => State(c)' = State(c)
    BY <1>m, <2>1, <2>2, <2>3, <2>4
  <2>6. \A c \in Bots : (c < b => State(c) = "running") /\ (c > b => State(c) = "created")
    BY <1>p, <2>1, <2>2 DEF PhaseInv
  <2>7. b \in Nat /\ turn' = b + 1
    BY <1>2, <1>k, <2>2 DEF SetupOk, GoesOn
  <2>8. ASSUME NEW c \in Bots
        PROVE  (c < b + 1 => State(c)' = "running") /\ (c >= b + 1 => State(c)' = "created")
    <3>1. c \in Nat /\ (c < b \/ c = b \/ c > b)
      BY <1>k, <2>7
    <3>2. (c < b + 1 => ~(c > b)) /\ (c >= b + 1 => c > b)
      BY <2>7, <3>1
    <3>3. c < b => c # b
      BY <2>7, <3>1
    <3>4. c > b => c # b
      BY <2>7, <3>1
    <3> QED
      BY <2>5, <2>6, <3>1, <3>2, <3>3, <3>4
  <2>9. ASSUME NEW c \in Bots
        PROVE  /\ c < turn' => State(c)' = "running"
               /\ c > turn' => State(c)' = "created"
               /\ c = turn' => State(c)' = "created"
    <3>1. c \in Nat /\ b \in Nat /\ (c > b + 1 => c >= b + 1) /\ (c = b + 1 => c >= b + 1)
      BY <1>k, <2>7
    <3> QED
      BY <2>7, <2>8, <3>1
  <2> QED
    BY <1>b, <2>1, <2>5, <2>9 DEF PhaseInv
<1>3. CASE SetupErr
  <2>1. pc = "setting up" /\ pc' = "failed" /\ Moves("error")
    BY <1>3 DEF SetupErr, GivesUp
  <2>2. PICK b : b = turn
    OBVIOUS
  <2>3. turn \in Bots
    BY <1>t, <2>1 DEF TypeInv, TypeOK
  <2>4. State(b) = "initializing" /\ "error" \in States
    BY <1>p, <2>1, <2>2, <2>3 DEF PhaseInv, States
  <2>5. [Lives!Next]_(Lives!life)
    BY <1>m, <2>1, <2>2, <2>3, <2>4
  <2> QED
    BY <2>1, <2>5 DEF PhaseInv
<1>4. CASE SetupEnds
  <2>1. /\ pc = "setup" /\ pc' = "execute" /\ mode' = mode /\ trail' = trail /\ turn \notin Bots
    BY <1>4 DEF SetupEnds, LoopEnds
  <2>2. \A c \in Bots : State(c) = "running"
    BY <1>e, <1>p, <2>1 DEF PhaseInv
  <2> QED
    BY <1>b, <1>s, <2>1, <2>2 DEF PhaseInv
<1>5. CASE ExecuteBehavior \/ ExecuteOk \/ ExecuteErr
  <2>1. /\ pc \in {"execute", "executing"} /\ pc' \in {"execute", "executing", "failed"}
        /\ mode' = mode /\ trail' = trail
    BY <1>5 DEF ExecuteBehavior, ExecuteOk, ExecuteErr, Call, GoesOn, GivesUp
  <2> QED
    BY <1>b, <1>p, <1>s, <2>1 DEF PhaseInv
<1>6. CASE ExecuteEnds
  <2>1. pc = "execute" /\ pc' = "teardown" /\ mode' = mode /\ trail' = trail
    BY <1>6 DEF ExecuteEnds, LoopEnds
  <2> QED
    BY <1>b, <1>p, <1>s, <2>1 DEF PhaseInv
<1>7. CASE Teardown
  <2>1. /\ pc = "teardown" /\ pc' = "tearing down" /\ turn' = turn /\ mode' = mode
        /\ Moves("stopping") /\ turn \in Bots
    BY <1>7 DEF Teardown, Call
  <2>2. PICK b : b = turn
    OBVIOUS
  <2>3. State(b) = "running" /\ "stopping" \in States
    BY <1>p, <2>1, <2>2 DEF PhaseInv, States
  <2>4. /\ [Lives!Next]_(Lives!life)
        /\ State(b)' = "stopping"
        /\ \A c \in Bots : c # b => State(c)' = State(c)
    BY <1>m, <2>1, <2>2, <2>3
  <2>5. ASSUME NEW c \in Bots, c > turn' PROVE State(c)' = "running"
    <3>1. c \in Nat /\ turn \in Nat /\ c > turn
      BY <1>k, <2>1, <2>5
    <3>2. c # turn
      BY <3>1
    <3> QED
      BY <1>p, <2>1, <2>2, <2>4, <3>1, <3>2 DEF PhaseInv
  <2> QED
    BY <1>b, <2>1, <2>2, <2>4, <2>5 DEF PhaseInv
<1>8. CASE TeardownOk
  <2>1. pc = "tearing down" /\ pc' = "teardown" /\ mode' = mode /\ Moves("stopped")
    BY <1>8 DEF TeardownOk, GoesOn
  <2>2. PICK b : b = turn
    OBVIOUS
  <2>3. turn \in Bots
    BY <1>t, <2>1 DEF TypeInv, TypeOK
  <2>4. State(b) = "stopping" /\ "stopped" \in States
    BY <1>p, <2>1, <2>2, <2>3 DEF PhaseInv, States
  <2>5. /\ [Lives!Next]_(Lives!life)
        /\ \A c \in Bots : c # b => State(c)' = State(c)
    BY <1>m, <2>1, <2>2, <2>3, <2>4
  <2>6. b \in Nat /\ turn' = b + 1
    BY <1>8, <1>k, <2>2 DEF TeardownOk, GoesOn
  <2>7. ASSUME NEW c \in Bots, c > turn' \/ c = turn' PROVE State(c)' = "running"
    <3>1. c \in Nat /\ c > b
      BY <1>k, <2>6, <2>7
    <3>2. c # b
      BY <2>6, <3>1
    <3> QED
      BY <1>p, <2>1, <2>2, <2>5, <3>1, <3>2 DEF PhaseInv
  <2> QED
    BY <1>b, <2>1, <2>5, <2>7 DEF PhaseInv
<1>9. CASE TeardownErr
  <2>1. pc = "tearing down" /\ mode' = mode /\ trail' = trail
    BY <1>9 DEF TeardownErr, GoesOn, GivesUp
  <2>2. [Lives!Next]_(Lives!life) /\ \A c \in Bots : State(c)' = State(c)
    BY <1>s, <2>1
  <2>3. CASE pc' = "failed"
    BY <2>2, <2>3 DEF PhaseInv
  <2>4. CASE pc' = "teardown" /\ turn' = turn + 1
    <3>1. ASSUME NEW c \in Bots, c > turn' \/ c = turn' PROVE State(c)' = "running"
      <4>1. c > turn
        BY <1>k, <2>4, <3>1
      <4> QED
        BY <1>p, <2>1, <2>2, <4>1 DEF PhaseInv
    <3> QED
      BY <1>b, <2>1, <2>2, <2>4, <3>1 DEF PhaseInv
  <2> QED
    BY <1>9, <2>3, <2>4 DEF TeardownErr, GoesOn, GivesUp
<1>10. CASE TeardownEnds
  <2>1. pc' = "done" /\ trail' = trail
    BY <1>10 DEF TeardownEnds, LoopEnds
  <2> QED
    BY <1>s, <2>1 DEF PhaseInv
<1>11. CASE UNCHANGED runnerVars
  BY <1>b, <1>p, <1>s, <1>11 DEF PhaseInv, runnerVars
<1> QED
  BY <1>1, <1>2, <1>3, <1>4, <1>5, <1>6, <1>7, <1>8, <1>9, <1>10, <1>11
     DEF Next, Runner, Credit, Debit, AddPendingOp, ClearPendingOps, vars

(* For any number of bots, and whatever their calls return, each goes      *)
(* through the states as the state machine allows: a bot whose setup       *)
(* failed is not made to run, none is set up twice (main.rs:191-250).      *)
THEOREM LivesFollowTheStateMachine == Spec => LivesAreLegal
<1>1. Init => Lives!Init
  <2> SUFFICES ASSUME Init PROVE Lives!Init
    OBVIOUS
  <2>1. \A b \in 1..BotCount : State(b) = "created" /\ Steps(trail[b]) = <<>>
    BY DEF Init, State, Steps
  <2> QED
    BY <2>1 DEF Lives!Init
<1>2. Init => LivesInv
  BY TypeInit, PhaseInit DEF LivesInv
<1> QED
  BY <1>1, <1>2, LivesStep, PTL DEF Spec, LivesAreLegal, Lives!Spec

(* How a run ends.  What a teardown has passed is torn down, and stays so. *)
EndsInv ==
    /\ pc \in {"teardown", "tearing down"} => \A b \in Bots : b < turn => TornDown(b)
    /\ EndsAreClean

LEMMA CleanEndStep ==
    ASSUME LivesInv, EndsInv, [Next]_vars
    PROVE  EndsInv'
<1>t. TypeInv /\ PhaseInv
  BY DEF LivesInv
<1>b. ASSUME mode' = mode PROVE Bots' = Bots
  BY <1>b DEF Bots
<1>n. PICK n \in 1..BotCount : Bots = 1..n
  BY BotsType
<1>k. turn \in Nat /\ \A c \in Bots : c \in 1..BotCount /\ c \in Nat /\ c >= 1
  <2>1. turn \in 1..BotCount + 1
    BY <1>t DEF TypeInv, TypeOK
  <2> QED
    BY <1>n, <2>1, RunAssumption
<1>s. ASSUME UNCHANGED trail PROVE \A c \in 1..BotCount : State(c)' = State(c) /\ TornDown(c)' = TornDown(c)
  BY <1>s DEF State, TornDown
<1>m. ASSUME NEW to \in {"stopping", "stopped"}, Moves(to), NEW b, b = turn, b \in Bots
      PROVE  TornDown(b)' /\ \A c \in Bots : c # b => TornDown(c)' = TornDown(c)
  <2>1. to \in States
    BY DEF States
  <2>2. State(b)' = to /\ \A c \in 1..BotCount : c # b => State(c)' = State(c)
    BY <1>t, <1>m, <2>1, MoveIsTransition
  <2> QED
    BY <1>k, <2>2 DEF TornDown
<1>1. CASE Setup \/ SetupOk \/ SetupEnds \/ ExecuteBehavior \/ ExecuteOk
  <2>1. pc' \in {"setup", "setting up", "execute", "executing"}
    BY <1>1 DEF Setup, SetupOk, SetupEnds, ExecuteBehavior, ExecuteOk, Call, GoesOn, LoopEnds
  <2> QED
    BY <2>1 DEF EndsInv, EndsAreClean
<1>2. CASE SetupErr
  <2>1. pc = "setting up" /\ pc' = "failed" /\ turn' = turn /\ mode' = mode /\ Moves("error")
    BY <1>2 DEF SetupErr, GivesUp
  <2>2. PICK b : b = turn
    OBVIOUS
  <2>3. b \in Bots /\ b \in Nat
    BY <1>k, <1>t, <2>1, <2>2 DEF TypeInv, TypeOK
  <2>4. State(b)' = "error" /\ \A c \in Bots : c # b => State(c)' = State(c)
    <3>1. "error" \in States
      BY DEF States
    <3>2. State(b)' = "error" /\ \A c \in 1..BotCount : c # b => State(c)' = State(c)
      BY <1>t, <2>1, <2>2, <2>3, <3>1, MoveIsTransition
    <3> QED
      BY <1>k, <3>2
  <2>5. \A c \in Bots : (c < b => State(c) = "running") /\ (c > b => State(c) = "created")
    BY <1>t, <2>1, <2>2 DEF PhaseInv
  <2>6. ASSUME NEW c \in Bots
        PROVE  State(c)' = CASE c < b -> "running" [] c = b -> "error" [] OTHER -> "created"
    <3>0. c \in Nat
      BY <1>k
    <3>1. CASE c < b
      BY <2>3, <2>4, <2>5, <3>0, <3>1
    <3>2. CASE c = b
      <4>1. ~(c < b)
        BY <2>3, <3>2
      <4> QED
        BY <2>4, <3>2, <4>1
    <3>3. CASE c > b
      <4>1. c # b /\ ~(c < b)
        BY <2>3, <3>0, <3>3
      <4> QED
        BY <2>4, <2>5, <3>3, <4>1
    <3> QED
      BY <2>3, <3>0, <3>1, <3>2, <3>3
  <2> QED
    BY <1>b, <2>1, <2>2, <2>6 DEF EndsInv, EndsAreClean
<1>3. CASE ExecuteErr
  <2>1. pc' = "execute" \/ (pc' = "failed" /\ mode' = "test")
    BY <1>3 DEF ExecuteErr, GoesOn, GivesUp
  <2> QED
    BY <2>1 DEF EndsInv, EndsAreClean
<1>4. CASE ExecuteEnds
  <2>1. pc' = "teardown" /\ turn' = 1 /\ mode' = mode
    BY <1>4 DEF ExecuteEnds, LoopEnds
  <2>2. \A c \in Bots : ~(c < 1)
    BY <1>k
  <2> QED
    BY <1>b, <2>1, <2>2 DEF EndsInv, EndsAreClean
<1>5. CASE Teardown
  <2>1. pc = "teardown" /\ pc' = "tearing down" /\ turn' = turn /\ mode' = mode /\ Moves("stopping") /\ turn \in Bots
    BY <1>5 DEF Teardown, Call
  <2>2. PICK b : b = turn
    OBVIOUS
  <2>3. TornDown(b)' /\ \A c \in Bots : c # b => TornDown(c)' = TornDown(c)
    BY <1>m, <2>1, <2>2
  <2>4. \A c \in Bots : c < turn => c # b
    BY <1>k, <2>2
  <2>5. \A c \in Bots : c < turn => TornDown(c)'
    BY <2>1, <2>3, <2>4 DEF EndsInv
  <2> QED
    BY <1>b, <2>1, <2>5 DEF EndsInv, EndsAreClean
<1>6. CASE TeardownOk
  <2>1. pc = "tearing down" /\ pc' = "teardown" /\ turn' = turn + 1 /\ mode' = mode /\ Moves("stopped")
    BY <1>6 DEF TeardownOk, GoesOn
  <2>2. PICK b : b = turn
    OBVIOUS
  <2>3. b \in Bots
    BY <1>t, <2>1, <2>2 DEF TypeInv, TypeOK
  <2>4. TornDown(b)' /\ \A c \in Bots : c # b => TornDown(c)' = TornDown(c)
    BY <1>m, <2>1, <2>2, <2>3
  <2>5. \A c \in Bots : c < turn + 1 => c < turn \/ c = b
    BY <1>k, <2>2
  <2>6. \A c \in Bots : c < turn + 1 => TornDown(c)'
    BY <2>1, <2>4, <2>5 DEF EndsInv
  <2> QED
    BY <1>b, <2>1, <2>6 DEF EndsInv, EndsAreClean
<1>7. CASE TeardownErr
  <2>1. pc = "tearing down" /\ mode' = mode /\ trail' = trail
    BY <1>7 DEF TeardownErr, GoesOn, GivesUp
  <2>2. CASE mode = "test" /\ pc' = "failed"
    BY <2>1, <2>2 DEF EndsInv, EndsAreClean
  <2>3. CASE pc' = "teardown" /\ turn' = turn + 1
    <3>1. turn \in Bots
      BY <1>t, <2>1 DEF TypeInv, TypeOK
    <3>2. TornDown(turn)
      BY <1>t, <2>1, <3>1 DEF PhaseInv, TornDown
    <3>3. \A c \in Bots : c < turn + 1 => c < turn \/ c = turn
      BY <1>k
    <3>4. \A c \in Bots : c < turn + 1 => TornDown(c)'
      BY <1>k, <1>s, <2>1, <3>2, <3>3 DEF EndsInv
    <3> QED
      BY <1>b, <2>1, <2>3, <3>4 DEF EndsInv, EndsAreClean
  <2> QED
    BY <1>7, <2>2, <2>3 DEF TeardownErr, GoesOn, GivesUp
<1>8. CASE TeardownEnds
  <2>1. pc = "teardown" /\ pc' = "done" /\ mode' = mode /\ trail' = trail /\ turn \notin Bots
    BY <1>8 DEF TeardownEnds, LoopEnds
  <2>2. \A c \in Bots : TornDown(c)
    BY <1>t, <2>1 DEF TypeInv, InTurn, EndsInv
  <2> QED
    BY <1>b, <1>k, <1>s, <2>1, <2>2 DEF EndsInv, EndsAreClean
<1>9. CASE UNCHANGED runnerVars
  <2>1. UNCHANGED <<mode, pc, turn, trail>>
    BY <1>9 DEF runnerVars
  <2>2. Bots' = Bots /\ \A c \in Bots : State(c)' = State(c) /\ TornDown(c)' = TornDown(c)
    BY <1>b, <1>k, <1>s, <2>1
  <2> QED
    BY <2>1, <2>2 DEF EndsInv, EndsAreClean
<1> QED
  BY <1>1, <1>2, <1>3, <1>4, <1>5, <1>6, <1>7, <1>8, <1>9
     DEF Next, Runner, Credit, Debit, AddPendingOp, ClearPendingOps, vars

(* However many bots a scenario has and whatever their calls return: it is *)
(* done only when every bot was torn down, and fails only because a setup  *)
(* did, leaving the bots before that one running (main.rs:191-250).        *)
THEOREM RunsEndCleanly == Spec => []EndsAreClean
<1>1. Init => LivesInv /\ EndsInv
  BY TypeInit, PhaseInit DEF LivesInv, EndsInv, EndsAreClean, Init
<1>2. LivesInv /\ EndsInv /\ [Next]_vars => LivesInv' /\ EndsInv'
  BY LivesStep, CleanEndStep
<1>3. EndsInv => EndsAreClean
  BY DEF EndsInv
<1> QED
  BY <1>1, <1>2, <1>3, PTL DEF Spec

(***************************************************************************)
(* The calls bots make of services: ServiceCalls, for any set of calls     *)
(***************************************************************************)

(* A step that only ends a call: to an error, or to the result of an answer. *)
LEMMA EndStep ==
    ASSUME CallsInv, NEW c \in Calls, NEW result \in {"ok", "error"},
           phase[c] \in {"sent", "answered"}, End(c, result),
           result = "ok" => done[c] = 1
    PROVE  CallsInv' /\ Remote!Next
  <1>1. CallsTypeOK'
    BY DEF CallsInv, CallsTypeOK, End, Phase
  <1>2. WireIsOpen' /\ SuccessIsDone' /\ NothingUnasked'
    BY DEF CallsInv, CallsTypeOK, WireIsOpen, SuccessIsDone, NothingUnasked, End
  <1>3. /\ Outcome[c] = "open"
        /\ Outcome' = [Outcome EXCEPT ![c] = result]
    BY DEF CallsInv, CallsTypeOK, Outcome, End
  <1>4. CASE result = "ok"
    <2>1. Remote!Succeed(c)
      BY <1>3, <1>4 DEF Remote!Succeed, Remote!Become, End
    <2> QED  BY <1>1, <1>2, <2>1 DEF CallsInv, Remote!Next
  <1>5. CASE result = "error"
    <2>1. Remote!Fail(c)
      BY <1>3, <1>5 DEF Remote!Fail, Remote!Become, End
    <2> QED  BY <1>1, <1>2, <2>1 DEF CallsInv, Remote!Next
  <1> QED  BY <1>4, <1>5

(* What a call returns is Ok only for an answer that reports success. *)
LEMMA ResultOfSuccess ==
    ASSUME NEW r, NEW success \in BOOLEAN, NEW fits \in BOOLEAN
    PROVE  /\ Result(r, success, fits) \in {"ok", "error"}
           /\ Result(r, success, fits) = "ok" => success
  BY DEF Result

(* Every step of the clients, the network and the services keeps the invariant
   and is a step of a RemoteCall, or changes nothing of it. *)
LEMMA CallsStep ==
    ASSUME CallsInv, [CallsNext]_callVars
    PROVE  CallsInv' /\ [Remote!Next]_<<Outcome, done>>
  <1> USE DEF CallsInv, CallsTypeOK, WireIsOpen, SuccessIsDone, NothingUnasked
  <1>1. ASSUME NEW c \in Calls, NEW r \in Request, SendRequest(c, r)
        PROVE  CallsInv' /\ Remote!Next
    <2>1. CallsInv'
      BY <1>1 DEF SendRequest, Phase
    <2>2. /\ Outcome[c] = "new"
          /\ Outcome' = [Outcome EXCEPT ![c] = "open"]
      BY <1>1 DEF SendRequest, Outcome
    <2>3. Remote!Begin(c)
      BY <1>1, <2>2 DEF SendRequest, Remote!Begin, Remote!Become
    <2> QED  BY <2>1, <2>3 DEF Remote!Next
  <1>2. ASSUME NEW c \in Calls, NEW r \in Request, CallRefused(c, r)
        PROVE  CallsInv' /\ Remote!Next
    <2>1. CallsInv'
      BY <1>2 DEF CallRefused, Phase
    <2>2. /\ Outcome[c] = "new"
          /\ Outcome' = [Outcome EXCEPT ![c] = "refused"]
      BY <1>2 DEF CallRefused, Outcome
    <2>3. Remote!Refuse(c)
      BY <1>2, <2>2 DEF CallRefused, Remote!Refuse, Remote!Become
    <2> QED  BY <2>1, <2>3 DEF Remote!Next
  <1>3. ASSUME NEW c \in Calls, NEW fits \in BOOLEAN, HandleResponse(c, fits)
        PROVE  CallsInv' /\ Remote!Next
    BY <1>3, EndStep, ResultOfSuccess DEF HandleResponse
  <1>4. ASSUME NEW c \in Calls, BreakConnection(c) \/ Timeout(c)
        PROVE  CallsInv' /\ Remote!Next
    BY <1>4, EndStep DEF BreakConnection, Timeout
  <1>5. ASSUME NEW c \in Calls, NEW success \in BOOLEAN, NEW fits \in BOOLEAN,
               CommandEnds(c, success, fits)
        PROVE  CallsInv' /\ Remote!Next
    BY <1>5, EndStep, ResultOfSuccess DEF CommandEnds
  <1>6. ASSUME NEW c \in Calls, CarryOut(c)
        PROVE  CallsInv' /\ Remote!Next
    <2>1. CallsInv'
      BY <1>6 DEF CarryOut
    <2>2. Outcome[c] \in {"open", "error"} /\ Outcome' = Outcome
      BY <1>6 DEF CarryOut, Outcome
    <2>3. done[c] = 0
      BY <1>6 DEF CarryOut
    <2>4. done' = [done EXCEPT ![c] = 1]
      <3>1. done' = [done EXCEPT ![c] = done[c] + 1]
        BY <1>6 DEF CarryOut
      <3> QED  BY <2>3, <3>1
    <2>5. Remote!TakeEffect(c)
      BY <2>2, <2>3, <2>4, Zenon DEF Remote!TakeEffect
    <2> QED  BY <2>1, <2>5 DEF Remote!Next
  <1>7. ASSUME NEW c \in Calls, Drop(c)
        PROVE  CallsInv' /\ UNCHANGED <<Outcome, done>>
    BY <1>7 DEF Drop, Outcome
  <1>8. ASSUME NEW c \in Calls, NEW success \in BOOLEAN, Answer(c, success)
        PROVE  CallsInv' /\ UNCHANGED <<Outcome, done>>
    <2>1. CallsInv'
      BY <1>8 DEF Answer, Phase
    <2>2. UNCHANGED Outcome
      BY <1>8 DEF Answer, Outcome
    <2> QED  BY <1>8, <2>1, <2>2 DEF Answer
  <1>9. CASE UNCHANGED callVars
    BY <1>9 DEF callVars, Outcome
  <1> HIDE DEF CallsInv, CallsTypeOK, WireIsOpen, SuccessIsDone, NothingUnasked
  <1> QED
    BY <1>1, <1>2, <1>3, <1>4, <1>5, <1>6, <1>7, <1>8, <1>9 DEF CallsNext

(* Before the first call nothing is under way and nothing has happened. *)
LEMMA CallsStart ==
    ASSUME CallsInit
    PROVE  CallsInv /\ Remote!Init
  BY DEF CallsInit, CallsInv, CallsTypeOK, Phase, Request, HttpRequest, WireIsOpen, SuccessIsDone,
         NothingUnasked, Outcome, Remote!Init

(* Calls, requests and answers are always those the clients know, and no
   request is carried out twice. *)
THEOREM CallsTypes == CallsSpec => []CallsTypeOK
  <1>1. CallsInv => CallsTypeOK
    BY DEF CallsInv
  <1> QED  BY <1>1, CallsStart, CallsStep, PTL DEF CallsSpec

(* However many calls there are, an order whose cancel has returned Ok is
   closed. *)
THEOREM CancelsClose == CallsSpec => []OkCancelCloses
  <1>1. CallsInv => OkCancelCloses
    BY DEF CallsInv, SuccessIsDone, OkCancelCloses, Open, Closed
  <1> QED  BY <1>1, CallsStart, CallsStep, PTL DEF CallsSpec

(* Every call over HTTP or by command, whatever times out, breaks or comes
   late, takes effect at most once, and has done so when it returns Ok. *)
THEOREM CallsAreRemoteCalls == CallsSpec => ImplementsRemoteCall
  <1> QED
    BY CallsStart, CallsStep, PTL DEF CallsSpec, ImplementsRemoteCall, Remote!Spec

============================================================================

---------------------------- MODULE BotPlacement ----------------------------
(***************************************************************************)
(* Placing the bots of a scenario on workers: the four strategies of       *)
(* AdvancedScheduler (scheduling.rs), one iteration of their loop per      *)
(* action.  Coordinator::distribute_scenario (coordinator.rs:190) and      *)
(* BotMigration::redistribute_bots (fault_tolerance.rs:73) are the round   *)
(* robin loop once more.                                                   *)
(*                                                                         *)
(* IsolationPolicy (scheduling.rs:269) places the bots that must be kept   *)
(* apart, one call per bot, from whatever list_workers returns by then.    *)
(* Nothing in the repository calls it: it is asked here for each bot of a  *)
(* request that requires isolation, in their order.                        *)
(*                                                                         *)
(* Every strategy starts from one call of list_workers: the healthy        *)
(* workers, each once, in the arbitrary order of a HashMap.  Bots are      *)
(* numbered in the order of the request.  The arithmetic is that of usize, *)
(* with WordSize in place of 2^64.                                         *)
(***************************************************************************)
EXTENDS Integers, FiniteSets, Sequences

CONSTANTS
    Workers,        \* worker ids
    NumBots,        \* bots of the request
    Strategies,     \* strategies considered
    Roles,          \* roles of bots; a role is named after the capability it needs
    GeneralUser,    \* the capability a role falls back to
    MaxCapacity,    \* bound: largest max_bots a worker reports
    WordSize,       \* number of values of a usize
    Builds          \* builds considered; TRUE: debug, a subtraction that wraps panics

Bots == 1..NumBots

(* Affinity { group_by }: "role", "scenario" or any other text. *)
Affinities == {"AffinityByRole", "AffinityByScenario", "AffinityByOther"}

(* What the tags of a bot may say that matters here. *)
Tags == {"none", "scenario", "adversarial"}

ASSUME PlacementAssumption ==
    /\ IsFiniteSet(Workers)
    /\ NumBots \in Nat /\ MaxCapacity \in Nat /\ GeneralUser \in Roles
    /\ WordSize \in Nat /\ WordSize > MaxCapacity + NumBots
    /\ Strategies \subseteq {"RoundRobin", "RoleBased", "LoadBalanced", "Isolation"}
                               \cup Affinities
    /\ Builds \subseteq BOOLEAN

VARIABLES
    request,  \* the strategy, the listed workers and what is known of bots and workers
    placed,   \* worker -> the bots assigned to it, oldest first
    idx,      \* worker_idx: loop iterations done
    isolated, \* isolated_workers of the policy
    status    \* "running", or how the call ended

vars == <<request, placed, idx, isolated, status>>

(* The results list_workers may have: distinct healthy workers in some order. *)
Listings == {s \in UNION {[1..n -> Workers] : n \in 0..Cardinality(Workers)} :
               \A i, j \in DOMAIN s : s[i] = s[j] => i = j}

(* The requests of one strategy; what it does not read is left fixed. *)
RequestsOf(strategy, bots, caps, capacities, builds) ==
    [strategy : Strategies \cap {strategy}, listed : Listings, bot : bots,
     caps : caps, maxBots : capacities, checked : builds]

Requests ==
    LET someBots(roles, tags) == [Bots -> [role : roles, tag : tags]]
        sameBots == someBots({GeneralUser}, {"none"})
        someCaps == [Workers -> SUBSET Roles]   noCaps == [Workers -> {{}}]
        someRoom == [Workers -> 0..MaxCapacity] noRoom == [Workers -> {0}]
        ignoring(strategy, bots) == RequestsOf(strategy, bots, noCaps, noRoom, {FALSE})
    IN  ignoring("RoundRobin", sameBots)
        \cup RequestsOf("RoleBased", someBots(Roles, {"none"}), someCaps, noRoom, {FALSE})
        \cup RequestsOf("LoadBalanced", sameBots, noCaps, someRoom, Builds)
        \cup ignoring("AffinityByRole", someBots(Roles, {"none"}))
        \cup ignoring("AffinityByScenario", someBots({GeneralUser}, {"none", "scenario"}))
        \cup ignoring("AffinityByOther", sameBots)
        \cup ignoring("Isolation", someBots({GeneralUser}, {"none", "adversarial"}))

TypeOK ==
    /\ request \in Requests
    /\ placed \in [Workers -> Seq(Bots)]
    /\ idx \in 0..NumBots
    /\ isolated \in {<<>>} \cup {<<w>> : w \in Workers}
    /\ status \in {"running", "done", "failed", "panicked"}

Listed == {request.listed[i] : i \in DOMAIN request.listed}

(* Where a listed worker stands in the listing. *)
Position(w) == CHOOSE i \in DOMAIN request.listed : request.listed[i] = w

Load(w) == Len(placed[w])

(* The bots of s go to worker w in one iteration of the loop. *)
Place(w, s) ==
    /\ placed' = [placed EXCEPT ![w] = @ \o s]
    /\ idx' = idx + 1
    /\ UNCHANGED <<request, isolated, status>>

End(result) ==
    /\ status' = result
    /\ UNCHANGED <<request, placed, idx, isolated>>

Loop(strategy) ==
    /\ status = "running" /\ request.strategy = strategy
    /\ request.listed # <<>>

(* bail!("No workers available") *)
NoWorkers ==
    /\ status = "running" /\ request.strategy # "Isolation"
    /\ request.listed = <<>>
    /\ End("failed")

(* Faulty variant: the index is clamped to the listing instead of wrapping. *)
LastInTurn == request.listed[IF idx < Len(request.listed) THEN idx + 1
                                                          ELSE Len(request.listed)]

(* The worker whose turn it is. *)
NextInTurn == request.listed[(idx % Len(request.listed)) + 1]

(* schedule_round_robin *)
PlaceRoundRobin ==
    /\ Loop("RoundRobin") /\ idx < NumBots
    /\ Place(NextInTurn, <<idx + 1>>)

(* Faulty variant: general users compete with the workers that have the capability. *)
EligibleOrGeneral(role) == {w \in Listed : {role, GeneralUser} \cap request.caps[w] # {}}

(* capability_map.get(required), or else the general users. *)
Eligible(role) ==
    LET able(c) == {w \in Listed : c \in request.caps[w]}
    IN  IF able(role) # {} THEN able(role) ELSE able(GeneralUser)

(* Faulty variant: the first eligible worker. *)
FirstEligible(S) == CHOOSE w \in S : \A v \in S : Position(w) <= Position(v)

(* find_least_loaded_worker: min_by_key returns the first minimum. *)
LeastLoaded(S) ==
    CHOOSE w \in S : \A v \in S :
        Load(w) < Load(v) \/ (Load(w) = Load(v) /\ Position(w) <= Position(v))

(* Faulty variant: the index of the bot before. *)
PlacePreviousByRole ==
    /\ Loop("RoleBased") /\ idx < NumBots
    /\ Eligible(request.bot[idx + 1].role) # {}
    /\ Place(LeastLoaded(Eligible(request.bot[idx + 1].role)), <<idx>>)

(* schedule_role_based *)
PlaceByRole ==
    /\ Loop("RoleBased") /\ idx < NumBots
    /\ Eligible(request.bot[idx + 1].role) # {}
    /\ Place(LeastLoaded(Eligible(request.bot[idx + 1].role)), <<idx + 1>>)

(* "No workers with capability": the assignments made so far are dropped. *)
NoCapability ==
    /\ Loop("RoleBased") /\ idx < NumBots
    /\ Eligible(request.bot[idx + 1].role) = {}
    /\ End("failed")

(* Faulty variant: what is assigned in this call is not subtracted. *)
Reported(w) == request.maxBots[w]

(* worker.max_bots as usize - assigned *)
Available(w) == (request.maxBots[w] - Load(w)) % WordSize

(* Some key of find_most_available_worker is a negative difference. *)
Wraps == \E w \in Listed : Load(w) > request.maxBots[w]

(* find_most_available_worker: max_by_key returns the last maximum. *)
MostAvailable ==
    CHOOSE w \in Listed : \A v \in Listed :
        \/ Available(w) > Available(v)
        \/ Available(w) = Available(v) /\ Position(w) >= Position(v)

(* schedule_load_balanced *)
PlaceByLoad ==
    /\ Loop("LoadBalanced") /\ idx < NumBots
    /\ ~(Wraps /\ request.checked)
    /\ Place(MostAvailable, <<idx + 1>>)

PanicByLoad ==
    /\ Loop("LoadBalanced") /\ idx < NumBots
    /\ Wraps /\ request.checked
    /\ End("panicked")

PlacedBots == {b \in Bots : \E w \in Workers : \E i \in DOMAIN placed[w] : placed[w][i] = b}

(* extract_affinity_key; keys of scenario tags start with "scenario:". *)
AffinityKey(b) ==
    CASE request.strategy = "AffinityByRole" -> request.bot[b].role
      [] request.strategy = "AffinityByScenario" /\ request.bot[b].tag = "scenario" -> "scenario"
      [] OTHER -> "default"

Group(b) == {c \in Bots : AffinityKey(c) = AffinityKey(b)}

(* The bots of S in the order of the request: the one sequence of them all that
   rises. *)
InOrder(S) ==
    {s \in [1..Cardinality(S) -> S] : \A i, j \in DOMAIN s : i < j => s[i] < s[j]}

(* Faulty variant: the bots of a group are placed one by one. *)
PlaceOneOfGroup(b) ==
    /\ Loop(request.strategy) /\ request.strategy \in Affinities
    /\ b \notin PlacedBots
    /\ Place(NextInTurn, <<b>>)

(* schedule_affinity, for the group of bot b: a HashMap yields the groups in any
   order, each with its bots in the order of the request. *)
PlaceGroup(b) ==
    /\ Loop(request.strategy) /\ request.strategy \in Affinities
    /\ b \notin PlacedBots /\ \A c \in Group(b) : b <= c
    /\ \E s \in InOrder(Group(b)) : Place(NextInTurn, s)

(* requires_isolation *)
RequiresIsolation(b) == request.bot[b].tag = "adversarial"

Isolating == status = "running" /\ request.strategy = "Isolation" /\ idx < NumBots

(* The registry's listing is another one by the next call. *)
Relist ==
    /\ Isolating
    /\ \E listed \in Listings : request' = [request EXCEPT !.listed = listed]
    /\ UNCHANGED <<placed, idx, isolated, status>>

(* A bot that does not require isolation is left to the strategies. *)
NotIsolated ==
    /\ Isolating /\ ~RequiresIsolation(idx + 1)
    /\ idx' = idx + 1
    /\ UNCHANGED <<request, placed, isolated, status>>

(* Faulty variant: the policy does not remember the worker it has taken. *)
IsolateAnywhere ==
    /\ Isolating /\ RequiresIsolation(idx + 1) /\ request.listed # <<>>
    /\ Place(request.listed[1], <<idx + 1>>)

(* get_isolated_worker: the worker taken first, listed or not; or else the first
   of the listing, which is remembered.  Without either the answer is None, and
   the bot waits for another listing. *)
Isolate ==
    /\ Isolating /\ RequiresIsolation(idx + 1)
    /\ isolated # <<>> \/ request.listed # <<>>
    /\ isolated' = IF isolated # <<>> THEN isolated ELSE <<request.listed[1]>>
    /\ placed' = [placed EXCEPT ![isolated'[1]] = Append(@, idx + 1)]
    /\ idx' = idx + 1
    /\ UNCHANGED <<request, status>>

(* The bots a call is to place. *)
Wanted ==
    {b \in Bots : request.strategy = "Isolation" => RequiresIsolation(b)}

Finished ==
    IF request.strategy \in Affinities THEN PlacedBots = Bots ELSE idx = NumBots

(* Faulty variant: the loop ends one bot early. *)
ReturnEarly ==
    /\ Loop(request.strategy)
    /\ Finished \/ idx + 1 = NumBots
    /\ End("done")

(* The loop is over. *)
Return ==
    /\ status = "running" /\ Finished
    /\ request.strategy = "Isolation" \/ request.listed # <<>>
    /\ End("done")

Init ==
    /\ request \in Requests
    /\ placed = [w \in Workers |-> <<>>]
    /\ idx = 0
    /\ isolated = <<>>
    /\ status = "running"

Next ==
    \/ NoWorkers \/ PlaceRoundRobin \/ PlaceByRole \/ NoCapability
    \/ PlaceByLoad \/ PanicByLoad
    \/ \E b \in Bots : PlaceGroup(b)
    \/ Relist \/ NotIsolated \/ Isolate
    \/ Return

Spec == Init /\ [][Next]_vars

(***************************************************************************)
(* Properties                                                              *)
(***************************************************************************)

(* The places of bot b in the assignments. *)
PlacesOf(b) == {p \in Workers \X Bots :
                  p[2] \in DOMAIN placed[p[1]] /\ placed[p[1]][p[2]] = b}

(* No strategy loses or duplicates a bot, or uses a worker that was not
   listed: what distribute_scenario promises with success: true.  (An isolated
   worker was listed when it was taken, and need not be any more.) *)
AssignedOnce ==
    /\ \A b \in Bots : Cardinality(PlacesOf(b)) <= 1
    /\ status = "done" => PlacedBots = Wanted
    /\ request.strategy # "Isolation" => \A w \in Workers \ Listed : placed[w] = <<>>

(* scheduling.rs:34 "Distribute evenly across all workers": round robin keeps
   the bots, and affinity the groups, of any two listed workers within one of
   each other, at every step. *)
Turns(w) ==
    IF request.strategy \in Affinities
    THEN Cardinality({AffinityKey(placed[w][i]) : i \in DOMAIN placed[w]})
    ELSE Load(w)

EvenTurns ==
    request.strategy \in {"RoundRobin"} \cup Affinities =>
        \A w, v \in Listed : Turns(w) - Turns(v) <= 1

(* Role based: a bot goes to a worker with its capability, or to a general user
   only if nobody listed has it. *)
CapabilityRespected ==
    request.strategy = "RoleBased" =>
        \A w \in Workers : \A i \in DOMAIN placed[w] :
            \/ request.bot[placed[w][i]].role \in request.caps[w]
            \/ /\ GeneralUser \in request.caps[w]
               /\ \A v \in Listed : request.bot[placed[w][i]].role \notin request.caps[v]

(* Role based: no bot is worse off than its role requires.  The bots that were
   on its worker before it are never more than those on any other worker
   eligible for it, then or later, though roles share workers. *)
NoEnvyByRole ==
    request.strategy = "RoleBased" =>
        \A w \in Workers : \A i \in DOMAIN placed[w] :
            \A v \in Eligible(request.bot[placed[w][i]].role) : i - 1 <= Load(v)

(* Load balanced: a worker is loaded beyond the max_bots it reported only when
   every listed worker is full, even after the subtraction has wrapped. *)
OverloadOnlyWhenAllFull ==
    request.strategy = "LoadBalanced" =>
        \A w \in Listed : Load(w) > request.maxBots[w] =>
            \A v \in Listed : Load(v) >= request.maxBots[v]

(* Affinity: the bots of one group are never on two workers; isolation: nor are
   the bots that require it, however often the listing has changed between the
   calls, so that at most one worker is exposed to them. *)
KeptTogether ==
    \A w, v \in Workers : \A i \in DOMAIN placed[w], j \in DOMAIN placed[v] :
        \/ request.strategy = "Isolation"
        \/ /\ request.strategy \in Affinities
           /\ AffinityKey(placed[w][i]) = AffinityKey(placed[v][j])
        => w = v

(***************************************************************************)
(* The inductive invariant behind them                                     *)
(***************************************************************************)

(* No bot is in two places. *)
OnePlace ==
    \A w, v \in Workers : \A i \in DOMAIN placed[w], j \in DOMAIN placed[v] :
        placed[w][i] = placed[v][j] => w = v /\ i = j

(* The loops go through the bots in their order; affinity through the groups,
   of which there are no more than bots. *)
InStep ==
    IF request.strategy \in Affinities
    THEN /\ \A b \in PlacedBots : Group(b) \subseteq PlacedBots
         /\ idx <= Cardinality(PlacedBots)
    ELSE PlacedBots = {b \in Wanted : b <= idx}

(* Only listed workers are used, and only one of them to isolate. *)
OnListed ==
    \A w \in Workers : placed[w] # <<>> =>
        IF request.strategy = "Isolation" THEN isolated = <<w>> ELSE w \in Listed

(* Each listed worker has had its turn in every round, and in the round under
   way if it stands before the next one. *)
TakesTurns ==
    request.strategy \in {"RoundRobin"} \cup Affinities =>
        \A w \in Listed :
            LET n == Len(request.listed)
            IN  Turns(w) = (idx \div n) + (IF Position(w) <= idx % n THEN 1 ELSE 0)

Complete == status = "done" => PlacedBots = Wanted

PlacementInv ==
    /\ TypeOK /\ OnePlace /\ InStep /\ OnListed /\ Complete /\ TakesTurns
    /\ CapabilityRespected /\ NoEnvyByRole /\ OverloadOnlyWhenAllFull
    /\ KeptTogether

=============================================================================

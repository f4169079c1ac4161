------------------------------ MODULE Cluster ------------------------------
(***************************************************************************)
(* The cluster: worker processes running the loop of worker.rs, the        *)
(* coordinator process answering register_worker and heartbeat             *)
(* (coordinator.rs) from its in-memory registry (registry.rs), and the     *)
(* fault detector sweeping it (fault_tolerance.rs), over a network that    *)
(* may break connections, lose replies and let a request take effect after *)
(* its sender has given it up; processes crash and are restarted by        *)
(* systemd, as often as their units allow (src/systemd/).                  *)
(*                                                                         *)
(* One action is one stretch of code between two awaits.  Calls into the   *)
(* registry are atomic here; WorkerRegistry takes them apart.  The         *)
(* registry keeps last_heartbeat_ms only to compute now - last: an entry   *)
(* here holds that difference, its age, which stops at MaxAge.  One unit   *)
(* of time is one heartbeat interval (5 s).                                *)
(*                                                                         *)
(* `stable` is the usual global stabilisation time: faults happen before   *)
(* it, and after it calls are answered within one unit of time.            *)
(***************************************************************************)
EXTENDS Naturals, FiniteSets

CONSTANTS
    Workers,          \* worker ids
    Timeout,          \* heartbeat_timeout of the detector
    CheckInterval,    \* check_interval of the detector
    BeatInterval,     \* the worker's heartbeat_interval
    MaxAge,           \* bound: ages are not counted beyond it
    MaxBacklog,       \* bound: heartbeat ticks a blocked worker accumulates
    StartBurst,       \* StartLimitBurst of a worker's unit
    DetectorAttached  \* TRUE: a FaultDetector runs on the coordinator's registry

ASSUME ClusterAssumption ==
    /\ Timeout \in Nat /\ CheckInterval \in Nat \ {0} /\ BeatInterval \in Nat \ {0}
    /\ MaxAge \in Nat /\ MaxAge > Timeout + CheckInterval
    /\ MaxBacklog \in Nat \ {0}
    /\ StartBurst \in Nat \ {0}
    /\ DetectorAttached \in BOOLEAN

VARIABLES
    coord,       \* the coordinator process
    entries,     \* worker id -> [age, healthy]: the registry
    sinceCheck,  \* time since the detector's last sweep
    late,        \* requests given up by their sender that will still run
    loop,        \* where each worker's `run` is
    call,        \* the one RPC each worker awaits
    timer,       \* time since the worker's last heartbeat tick fell due
    starts,      \* starts of each worker within the present StartLimitInterval
    stable       \* no more faults

coordVars  == <<coord, entries, sinceCheck, late>>
workerVars == <<loop, call, timer>>
vars       == <<coord, entries, sinceCheck, late, loop, call, timer, starts, stable>>

Entry == [age : 0..MaxAge, healthy : BOOLEAN]

Request == [kind : {"register", "heartbeat"}, from : Workers]

Maps(S, T) == UNION {[D -> T] : D \in SUBSET S}

LoopState == {"down", "exited", "failed", "connect", "register", "idle",
              "beat", "reconnect", "reregister"}

CallState == {"none", "sent", "ok", "failed"}

TypeOK ==
    /\ coord \in {"up", "down", "failed"}
    /\ entries \in Maps(Workers, Entry)
    /\ sinceCheck \in 0..CheckInterval
    /\ late \subseteq Request
    /\ loop \in [Workers -> LoopState]
    /\ call \in [Workers -> CallState]
    /\ timer \in [Workers -> 0..MaxBacklog * BeatInterval]
    /\ starts \in [Workers -> 1..StartBurst]
    /\ stable \in BOOLEAN

(* Processes that are gone: a crashed one, and one systemd no longer starts. *)
Dead == {w \in Workers : loop[w] \in {"down", "failed"}}

HealthyWorkers == {w \in DOMAIN entries : entries[w].healthy}

(***************************************************************************)
(* The coordinator's registry                                              *)
(***************************************************************************)

(* WorkerRegistry::register: a fresh entry in place of whatever was there. *)
Registered(w) ==
    [v \in DOMAIN entries \cup {w} |->
        IF v = w THEN [age |-> 0, healthy |-> TRUE] ELSE entries[v]]

(* WorkerRegistry::update_heartbeat of a known worker. *)
Heard(w) == [entries EXCEPT ![w] = [age |-> 0, healthy |-> TRUE]]

(* register_worker answers a request that is still awaited. *)
HandleRegister(w) ==
    /\ coord = "up" /\ call[w] = "sent" /\ loop[w] \in {"register", "reregister"}
    /\ entries' = Registered(w)
    /\ call' = [call EXCEPT ![w] = "ok"]
    /\ UNCHANGED <<coord, sinceCheck, late, loop, timer, starts, stable>>

(* heartbeat answers a known worker. *)
HandleHeartbeat(w) ==
    /\ coord = "up" /\ call[w] = "sent" /\ loop[w] = "beat"
    /\ w \in DOMAIN entries
    /\ entries' = Heard(w)
    /\ call' = [call EXCEPT ![w] = "ok"]
    /\ UNCHANGED <<coord, sinceCheck, late, loop, timer, starts, stable>>

(* heartbeat does not know the worker: Status::internal("Worker not found"). *)
RejectHeartbeat(w) ==
    /\ coord = "up" /\ call[w] = "sent" /\ loop[w] = "beat"
    /\ w \notin DOMAIN entries
    /\ call' = [call EXCEPT ![w] = "failed"]
    /\ UNCHANGED <<coordVars, loop, timer, starts, stable>>

(* Faulty variant: a request that ran late is kept and runs again. *)
RunLateAgain(m) ==
    /\ coord = "up" /\ m \in late
    /\ entries' = IF m.kind = "register" THEN Registered(m.from)
                  ELSE IF m.from \in DOMAIN entries THEN Heard(m.from)
                  ELSE entries
    /\ UNCHANGED <<coord, sinceCheck, late, workerVars, starts, stable>>

(* The handler of a request whose sender is gone or has given it up runs. *)
RunLate(m) ==
    /\ coord = "up" /\ m \in late
    /\ late' = late \ {m}
    /\ entries' = IF m.kind = "register" THEN Registered(m.from)
                  ELSE IF m.from \in DOMAIN entries THEN Heard(m.from)
                  ELSE entries
    /\ UNCHANGED <<coord, sinceCheck, workerVars, starts, stable>>

(* Faulty variants of the sweep: one unit too late and one too early. *)
SweepTooLate ==
    /\ DetectorAttached /\ coord = "up" /\ sinceCheck = CheckInterval
    /\ sinceCheck' = 0
    /\ entries' = [w \in DOMAIN entries |->
                     [entries[w] EXCEPT !.healthy = @ /\ entries[w].age <= Timeout + 1]]
    /\ UNCHANGED <<coord, late, workerVars, starts, stable>>

SweepTooEarly ==
    /\ DetectorAttached /\ coord = "up" /\ sinceCheck = CheckInterval
    /\ sinceCheck' = 0
    /\ entries' = [w \in DOMAIN entries |->
                     [entries[w] EXCEPT !.healthy = @ /\ entries[w].age < Timeout]]
    /\ UNCHANGED <<coord, late, workerVars, starts, stable>>

(* FaultDetector::check_stale_workers when its ticker is due. *)
Sweep ==
    /\ DetectorAttached /\ coord = "up" /\ sinceCheck = CheckInterval
    /\ sinceCheck' = 0
    /\ entries' = [w \in DOMAIN entries |->
                     IF entries[w].age > Timeout
                     THEN [entries[w] EXCEPT !.healthy = FALSE]
                     ELSE entries[w]]
    /\ UNCHANGED <<coord, late, workerVars, starts, stable>>

(* Whether the coordinator may be started: after RestartSec by systemd, or by
   an operator when systemd has left its unit failed. *)
CoordStartable == coord = "down" \/ (coord = "failed" /\ ~stable)

(* Faulty variant: restart restores every worker as healthy. *)
RestartTrustsAll ==
    /\ CoordStartable
    /\ coord' = "up"
    /\ entries' = [w \in Workers |-> [age |-> 0, healthy |-> TRUE]]
    /\ UNCHANGED <<sinceCheck, late, workerVars, starts, stable>>

(* The process restarts with an empty registry, and a detector whose first
   tick is immediate. *)
CoordRestart ==
    /\ CoordStartable
    /\ coord' = "up"
    /\ UNCHANGED <<entries, sinceCheck, late, workerVars, starts, stable>>

(* The start limit refuses the restart, and the unit is left failed.  Starts of
   the coordinator are not counted: any of its restarts may be the one refused. *)
CoordGivesUp ==
    /\ coord = "down"
    /\ coord' = "failed"
    /\ UNCHANGED <<entries, sinceCheck, late, workerVars, starts, stable>>

(***************************************************************************)
(* The worker's `run`                                                      *)
(***************************************************************************)

(* Worker w moves to position `pos`; its RPC becomes c. *)
Goto(w, pos, c) ==
    /\ loop' = [loop EXCEPT ![w] = pos]
    /\ call' = [call EXCEPT ![w] = c]

(* A request finds the coordinator, or its connection is refused. *)
Sent == IF coord = "up" THEN "sent" ELSE "failed"

(* What may be started: what has exited, after RestartSec, by systemd; what
   crashed with its machine or has failed, by the machine or an operator. *)
Startable(w) == loop[w] = "exited" \/ (loop[w] \in {"down", "failed"} /\ ~stable)

(* w is started once more: within the present StartLimitInterval, if the limit
   allows it, or as the first start of a new one. *)
CountStart(w) ==
    \/ starts[w] < StartBurst /\ starts' = [starts EXCEPT ![w] = @ + 1]
    \/ starts' = [starts EXCEPT ![w] = 1]

(* Faulty variant: a unit without StartLimitBurst. *)
StartUnlimited(w) ==
    /\ Startable(w)
    /\ starts' = [starts EXCEPT ![w] = @ + 1]
    /\ Goto(w, "connect", "none")
    /\ UNCHANGED <<coordVars, timer, stable>>

(* The process starts. *)
Start(w) ==
    /\ Startable(w)
    /\ CountStart(w)
    /\ Goto(w, "connect", "none")
    /\ UNCHANGED <<coordVars, timer, stable>>

(* systemd refuses the restart: the unit is left failed. *)
GivesUp(w) ==
    /\ loop[w] = "exited" /\ starts[w] = StartBurst
    /\ Goto(w, "failed", "none")
    /\ UNCHANGED <<coordVars, timer, starts, stable>>

(* connect(..).await? and the register call. *)
Connect(w) ==
    /\ loop[w] = "connect" /\ coord = "up"
    /\ Goto(w, "register", "sent")
    /\ UNCHANGED <<coordVars, timer, starts, stable>>

(* connect(..).await? fails: run returns and the process exits. *)
ConnectFails(w) ==
    /\ loop[w] = "connect" /\ (coord # "up" \/ ~stable)
    /\ Goto(w, "exited", "none")
    /\ UNCHANGED <<coordVars, timer, starts, stable>>

(* register(..).await? returns; the interval's first tick is immediate. *)
RegisterReturns(w) ==
    /\ loop[w] = "register" /\ call[w] = "ok"
    /\ Goto(w, "idle", "none")
    /\ timer' = [timer EXCEPT ![w] = BeatInterval]
    /\ UNCHANGED <<coordVars, starts, stable>>

RegisterFails(w) ==
    /\ loop[w] = "register" /\ call[w] = "failed"
    /\ Goto(w, "exited", "none")
    /\ UNCHANGED <<coordVars, timer, starts, stable>>

(* heartbeat_interval.tick().await completes (ticks missed while the loop was
   blocked complete one after the other) and the heartbeat is sent. *)
Beat(w) ==
    /\ loop[w] = "idle" /\ timer[w] >= BeatInterval
    /\ Goto(w, "beat", Sent)
    /\ timer' = [timer EXCEPT ![w] = @ - BeatInterval]
    /\ UNCHANGED <<coordVars, starts, stable>>

BeatReturns(w) ==
    /\ loop[w] = "beat" /\ call[w] = "ok"
    /\ Goto(w, "idle", "none")
    /\ UNCHANGED <<coordVars, timer, starts, stable>>

(* Faulty variant: the loop only logs the failure and waits for the next tick. *)
BeatFailureIgnored(w) ==
    /\ loop[w] = "beat" /\ call[w] = "failed"
    /\ Goto(w, "idle", "none")
    /\ UNCHANGED <<coordVars, timer, starts, stable>>

BeatFails(w) ==
    /\ loop[w] = "beat" /\ call[w] = "failed"
    /\ Goto(w, "reconnect", "none")
    /\ UNCHANGED <<coordVars, timer, starts, stable>>

(* if let Ok(new_client) = connect(..).await { let _ = self.register(..) } *)
Reconnect(w) ==
    /\ loop[w] = "reconnect" /\ coord = "up"
    /\ Goto(w, "reregister", "sent")
    /\ UNCHANGED <<coordVars, timer, starts, stable>>

ReconnectFails(w) ==
    /\ loop[w] = "reconnect" /\ (coord # "up" \/ ~stable)
    /\ Goto(w, "idle", "none")
    /\ UNCHANGED <<coordVars, timer, starts, stable>>

(* The result of registering again is ignored. *)
ReregisterReturns(w) ==
    /\ loop[w] = "reregister" /\ call[w] \in {"ok", "failed"}
    /\ Goto(w, "idle", "none")
    /\ UNCHANGED <<coordVars, timer, starts, stable>>

(***************************************************************************)
(* Faults                                                                  *)
(***************************************************************************)

Outstanding(w) ==
    [kind |-> IF loop[w] = "beat" THEN "heartbeat" ELSE "register", from |-> w]

(* A request that has left its sender is lost, or still takes effect later. *)
LostOrLate(w) == late' \in {late, late \cup {Outstanding(w)}}

(* The connection breaks before the request is answered. *)
BreakCall(w) ==
    /\ ~stable /\ call[w] = "sent"
    /\ call' = [call EXCEPT ![w] = "failed"]
    /\ LostOrLate(w)
    /\ UNCHANGED <<coord, entries, sinceCheck, loop, timer, starts, stable>>

(* The request was carried out, its reply is lost. *)
LoseReply(w) ==
    /\ ~stable /\ call[w] = "ok"
    /\ call' = [call EXCEPT ![w] = "failed"]
    /\ UNCHANGED <<coordVars, loop, timer, starts, stable>>

WorkerCrash(w) ==
    /\ ~stable /\ loop[w] # "down"
    /\ IF call[w] = "sent" THEN LostOrLate(w) ELSE UNCHANGED late
    /\ Goto(w, "down", "none")
    /\ timer' = [timer EXCEPT ![w] = 0]
    /\ UNCHANGED <<coord, entries, sinceCheck, starts, stable>>

(* The registry is in memory: it is gone with the process, and so are the
   requests the process had received. *)
CoordCrash ==
    /\ ~stable /\ coord = "up"
    /\ coord' = "down"
    /\ entries' = [w \in {} |-> 0]
    /\ sinceCheck' = CheckInterval
    /\ late' = {}
    /\ call' = [w \in Workers |-> IF call[w] = "sent" THEN "failed" ELSE call[w]]
    /\ UNCHANGED <<loop, timer, starts, stable>>

Stabilise ==
    /\ ~stable
    /\ stable' = TRUE
    /\ UNCHANGED <<coordVars, workerVars, starts>>

(***************************************************************************)
(* Time                                                                    *)
(***************************************************************************)

(* A worker that awaits nothing but its next tick or its restart. *)
Settled(w) ==
    \/ loop[w] \in {"down", "exited", "failed"}
    \/ loop[w] = "idle" /\ timer[w] < BeatInterval

(* Time passes.  The detector's ticker is on time while the coordinator is up;
   after stabilisation a worker's calls end before the next unit. *)
Tick ==
    /\ coord = "up" /\ DetectorAttached => sinceCheck < CheckInterval
    /\ stable => \A w \in Workers : Settled(w)
    /\ entries' = [w \in DOMAIN entries |->
                     [entries[w] EXCEPT !.age = IF @ < MaxAge THEN @ + 1 ELSE @]]
    /\ sinceCheck' = IF sinceCheck < CheckInterval THEN sinceCheck + 1 ELSE sinceCheck
    /\ timer' = [w \in Workers |->
                   IF loop[w] \notin {"down", "exited", "failed", "connect", "register"}
                      /\ timer[w] < MaxBacklog * BeatInterval
                   THEN timer[w] + 1 ELSE timer[w]]
    /\ UNCHANGED <<coord, late, loop, call, starts, stable>>

(***************************************************************************)
(* The specification                                                       *)
(***************************************************************************)

Init ==
    /\ coord = "up"
    /\ entries = [w \in {} |-> 0]
    /\ sinceCheck = CheckInterval
    /\ late = {}
    /\ loop = [w \in Workers |-> "connect"]
    /\ call = [w \in Workers |-> "none"]
    /\ timer = [w \in Workers |-> 0]
    /\ starts = [w \in Workers |-> 1]
    /\ stable = FALSE

Handle(w) == HandleRegister(w) \/ HandleHeartbeat(w) \/ RejectHeartbeat(w)

Run(w) ==
    \/ Start(w) \/ GivesUp(w) \/ Connect(w) \/ ConnectFails(w)
    \/ RegisterReturns(w) \/ RegisterFails(w)
    \/ Beat(w) \/ BeatReturns(w) \/ BeatFails(w)
    \/ Reconnect(w) \/ ReconnectFails(w) \/ ReregisterReturns(w)

Fault ==
    \/ \E w \in Workers : BreakCall(w) \/ LoseReply(w) \/ WorkerCrash(w)
    \/ CoordCrash
    \/ Stabilise

Next ==
    \/ \E w \in Workers : Handle(w) \/ Run(w)
    \/ \E m \in late : RunLate(m)
    \/ Sweep
    \/ CoordRestart \/ CoordGivesUp
    \/ Fault
    \/ Tick

(* tokio polls every task that is ready, a broken TCP connection is noticed,
   time passes, and systemd either restarts what has ended (Restart=always) or,
   once the start limit is reached, leaves it failed (GivesUp, CoordGivesUp).
   No fault has to happen, stabilisation need not come, no interval of a start
   limit has to end, and nobody has to start a failed unit. *)
Fairness ==
    /\ \A w \in Workers : WF_vars(Handle(w)) /\ WF_vars(Run(w))
    /\ WF_vars(\E m \in late : RunLate(m))
    /\ WF_vars(Sweep) /\ WF_vars(CoordRestart \/ CoordGivesUp) /\ WF_vars(Tick)

Spec == Init /\ [][Next]_vars /\ Fairness

(***************************************************************************)
(* Properties                                                              *)
(***************************************************************************)

(* No worker is offered as healthy when the coordinator last heard from it
   longer than the timeout and one check interval ago, whatever crashed and
   whichever request ran late. *)
DetectionBound ==
    DetectorAttached =>
        \A w \in HealthyWorkers : entries[w].age <= Timeout + CheckInterval

(* Only a request it had sent before can make a worker look healthy again that
   has crashed or that systemd has given up: a new entry needs a process that
   registers or beats. *)
DeadStaySuspected ==
    [][\A w \in Workers :
          /\ w \in Dead /\ w \notin HealthyWorkers
          /\ \A m \in late : m.from # w
          => w \notin HealthyWorkers']_vars

(* A worker that has registered once never exits by itself: it is in the loop. *)
InLoop(w) == loop[w] \in {"idle", "beat", "reconnect", "reregister"}

(* docs/DEPLOYMENT.md:521 "Workers will reconnect automatically".  Once faults
   stop, a worker in its loop gets registered and healthy and stays so, although
   the coordinator forgot it in a restart, unless systemd leaves the coordinator
   failed.  So does a worker that has yet to register, or exited since it could
   not, if the coordinator is up and the limit leaves the worker a start.
   Nothing is claimed of a worker that has used up its starts, five within 300 s
   while the coordinator is away: it may stay failed. *)
LiveWorkersRejoin ==
    \A w \in Workers :
        /\ stable
        /\ \/ coord # "failed" /\ InLoop(w)
           \/ coord = "up" /\ w \notin Dead /\ starts[w] < StartBurst
        ~> ([](w \in HealthyWorkers) \/ coord = "failed")

(* docs/DEPLOYMENT.md:469: a worker that is down is detected; once faults stop
   it is never again offered as healthy from some moment on.  So is one that
   systemd has given up. *)
DeadWorkersDetected ==
    \A w \in Workers :
        (stable /\ w \in Dead) ~> [](w \notin HealthyWorkers)

(* Without a detector, which is how serve starts (coordinator.rs:41-55), whoever
   has registered is offered as healthy, dead or alive, as long as the process of
   the coordinator lives. *)
AsServedNobodyIsSuspected ==
    /\ [](~DetectorAttached => HealthyWorkers = DOMAIN entries)
    /\ [][~DetectorAttached /\ coord' = "up" => DOMAIN entries \subseteq DOMAIN entries']_vars

(* Through all crashes, the coordinator's view of the workers is one that
   HeartbeatMonitor allows. *)
Sightings == [w \in DOMAIN entries |->
                [silence |-> entries[w].age, suspected |-> ~entries[w].healthy]]

Monitor == INSTANCE HeartbeatMonitor WITH
    MaxSilence <- MaxAge, MaxLag <- 0, view <- Sightings

ImplementsMonitor == Monitor!Spec

(***************************************************************************)
(* The inductive invariant behind DetectionBound                           *)
(***************************************************************************)

(* The registry does not survive the coordinator's process. *)
RegistryInMemory == coord # "up" => DOMAIN entries = {}

(* What a sweep leaves healthy ages no faster than the time since the sweep. *)
SweptFresh ==
    DetectorAttached =>
        \A w \in HealthyWorkers : entries[w].age <= Timeout + sinceCheck

ClusterInv == TypeOK /\ RegistryInMemory /\ SweptFresh

=============================================================================

# Verification of the AC/DC bot network

TLA+ models of `alpha-delta-network/acdc-botnet`, a distributed test network in which a
coordinator spreads bots over worker machines and the bots exercise the AlphaOS, DeltaOS
and AdNet services. The directory holds the models, the TLC instances that check them and
the TLAPS proofs about them. `PROJECT.json` maps every definition to the lines it models
(paths below are relative to `src/crates/` unless they start with `docs/`).

    tlc -workers 2 -config cluster.cfg MCRecovery.tla           # any run of the table below
    tlapm ClusterProofs.tla                                     # any *Proofs module

## 1. Inventory

### Components

**Worker registry** (`distributed/src/registry.rs`). State: a map from worker id to
`WorkerEntry` (info, `last_heartbeat_ms`, `healthy`) behind one `RwLock`. Operations:
`register`, `update_heartbeat`, `check_stale_workers`, `remove_worker`, and the readers,
which all filter on `healthy`. Called by RPC handlers, the fault detector, bot migration and
the scheduler. Hard: `register` and `check_stale_workers` read the clock *before* they take
the lock, so old times meet newer entries; counts are taken in separate critical sections.
Correct when: a silent worker is suspected within a bound, a live one is not, and no call
takes a worker's heartbeat back by more than a pause.

**Fault detector** (`distributed/src/fault_tolerance.rs:9-48`). State: a ticker (10 s), a
timeout (15 s). Operation: sweep the registry, then log the difference of two counts.
Hard: ticker and timeout add up; the subtraction is in `usize`.

**Coordinator** (`distributed/src/coordinator.rs`). State: a registry and a metrics channel
of 1000, both in memory. Operations: `register_worker`, `heartbeat`, `distribute_scenario`,
`stream_metrics`, and three stubs (`spawn_bot`, `stop_bot`, `get_bot_status`) that answer
without contacting a worker. Hard: everything is lost with the process; a request whose
sender has died may still be carried out. Correct when workers come back by themselves and
dead workers are detected.

**Checkpoint** (`fault_tolerance.rs:145-202`). State: one file. Operations: `save`, `load`.
Hard: opening the file empties it before anything is written, and nothing keeps two saves
apart. Correct when what a finished save wrote is what the next `load` returns, also after
a crash. Nothing in the repository calls it yet.

**Worker** (`distributed/src/worker.rs`). State: the position of `run` and one gRPC client.
Operations: connect, register, beat every 5 s, reconnect and register again after a failed
beat; `run` returns, and the process exits, when the first connection or registration
fails. Hard: a failing call at every await; the result of registering again is ignored; a
blocked loop accumulates ticks.

**Service units** (`src/systemd/`). State: the starts of each unit within its
`StartLimitInterval`. Operations: start an exited process again (`Restart=always`, after 10
or 15 s), or refuse to after `StartLimitBurst` starts and leave the unit failed. Hard: a
worker that finds no coordinator at its start spends its five starts in about 75 s.

**Scheduler of bots on workers** (`distributed/src/scheduling.rs`). No state between calls.
Operations: round robin, role based, load balanced, affinity; `distribute_scenario` and
`redistribute_bots` are the round-robin loop again; `IsolationPolicy` remembers isolated
workers. Hard: greedy choices over overlapping sets, arbitrary `HashMap` order, a `usize`
subtraction that goes negative. Correct when no bot is lost or placed twice, and each
strategy keeps the fairness it is named for.

**Metrics aggregator and exporter** (`metrics/src/aggregator.rs`, `prometheus.rs`). State:
counters, per-bot and per-behaviour maps, active bots, a window, all behind one
`parking_lot::RwLock`. Operations: `process_event`, `process_batch`, `window_tps`, `reset`,
getters, `snapshot`. Bots write, scrapes read, a controller resets. Hard: `snapshot` takes
the read lock again while it holds it; `reset` clears some counters and keeps others.
Correct when one snapshot's numbers belong together, counters agree with each other across
resets, and scrapes and events do not stop each other.

**Task scheduler of a bot** (`bot/src/scheduler.rs`). State: a task list and a shutdown
flag, each behind its own mutex; one tokio task per delayed or recurring task. Operations:
`schedule_*`, `run`, `shutdown`. Hard: the flag is read and released before a task is
called; `run` works on a copy of the list and can be called again. Correct when a run
reaches exactly the tasks of its list, and a shutdown ends everything with a bounded number
of late starts.

**Event recorder** (`metrics/src/recorder.rs`), **metrics buffer**
(`fault_tolerance.rs:106-143`), **metrics stream** (`coordinator.rs:24-34, 154-170`). State:
two bounded logs and a channel. Hard: sliding windows at capacity; a flush that empties
before it sends; back-pressure. Correct when what survives is the newest, in order, and
every loss is one of the declared ones.

**Message bus** (`bot/src/communication.rs`). State: a channel of 100 per registered bot and
a broadcast channel of 1000. Operations: `register_bot`, `unregister_bot`, `send`,
`subscribe_broadcast`. Hard: re-registration replaces a channel under a live receiver; a
slow receiver loses the oldest messages while `send` reports success. Correct when former
and new receiver of a bot never share messages, no loss goes unreported, and whoever is cut
off is told.

**Wallet, bot state machine** (`bot/src/wallet.rs`, `state.rs`), **local run of a scenario**
(`cli/src/main.rs`, `roles/`). State: balances behind a lock shared by a bot's behaviours; a
typestate and its history; the bots of a run. Operations: credit, debit, pending operations;
one method per transition; set up, execute, tear down. Hard: an unchecked sum, a setup that fails after others succeeded, a teardown that fails before others.
Correct when balances account for every credit and debit, no bot runs that was not set up,
and every bot that ran is torn down.

**Integration clients** (`integration/src/`). No state: one HTTP request, with a timeout of
30 s, or one command per call, no retries. Hard: a submission that timed out may still be
carried out; an error may be reported of what was done; a service may stop in the middle of
its answer. Correct when a call has at most one effect, `Ok` only after it, and an end.

Behaviours (`behaviors/`), the scenario crate and the metrics exporter are stubs; identities
are cryptography and formatting; the scenario YAML and the research notes are data.

### Interactions

    bots --events--> aggregator <--snapshot-- exporter (Prometheus)
    worker --register, heartbeat (gRPC)--> coordinator --> registry <--sweep-- fault detector
    coordinator --save, load--> checkpoint file
    bots --one request per call--> AlphaOS, DeltaOS (HTTP), adnet (command)
    scenario --> coordinator.distribute_scenario / AdvancedScheduler --list_workers--> registry
    worker --metrics--> buffer --> stream_metrics --> channel --> (to do in the source)
    bot <--tasks-- scheduler ;  bot <--messages--> bus ;  behaviours --debit--> wallet

`PROJECT.json` "hazards" lists, line by line, where these can go wrong in a way a test would
hardly reach, and the property that watches each place.

## 2. Modules

| Module | Models | Abstracts |
|---|---|---|
| `HeartbeatMonitor` | what the coordinator promises about its workers: silence and suspicion | everything else |
| `WorkerRegistry` | registry and fault detector, one action per critical section or clock read | payload of a registration |
| `Cluster` | worker loops, coordinator handlers, registry, detector, network, crashes, restarts, time | registry calls are atomic here |
| `Checkpoint` | the checkpoint file: a save in its two steps, its failures, load | what a state says |
| `Recovery` | `Cluster` and `Checkpoint` together, under the crashes of one coordinator | |
| `BotPlacement` | the four strategies and the isolation policy, one loop iteration per action | bot and worker data beyond role, capability, capacity |
| `MetricsAggregator` | the aggregator under writers, controllers and scrapes, lock by lock | names, worker and scenario gauges; the histogram is its number of samples |
| `TaskScheduler` | the scheduler, its runs and its tokio tasks | durations |
| `SlidingWindow` | what a bounded log promises: an unbroken run that ends with the latest | everything else |
| `Telemetry` | event recorder, metrics buffer, `stream_metrics` with its tasks and channel | what events and samples contain |
| `MessageBus` | the bus: registration, sends, broadcasts, the receivers and tokio channels behind them | content of messages |
| `RemoteCall` | what a call to a service promises: at most one effect, and what a result says of it | everything else |
| `ServiceCalls` | calls of the three clients, the requests they leave behind and the services | URLs, arguments, fields of answers |
| `BotState` | the typestate machine of a bot and the history it keeps | times and messages of transitions |
| `BotRun` | `run_local_scenario` and the simple-transfer test, the `Bot` trait, wallets | what a behaviour is |
| `WorkerRegistryProofs`, `ClusterProofs`, `BotPlacementProofs`, `MetricsAggregatorProofs`, `TaskSchedulerProofs`, `TelemetryProofs`, `MessageBusProofs`, `BotRunProofs` | theorems; those of `ServiceCalls` are in the last, which extends it beside `BotRun` | |
| `MC*` | symmetry sets and the values of constants for TLC | |

`WorkerRegistry` and `Cluster` both state `ImplementsMonitor`, the refinement of
`HeartbeatMonitor`, under two mappings: the registry computes silence as clock minus last
heartbeat, the cluster keeps the difference itself as an age. Together they are the argument
that the cluster's atomic registry stands for the locked one.

How state and actions correspond to the code:

* **WorkerRegistry.** `workers` is the map; `pending` are `register` calls between the clock
  read (`registry.rs:35`) and the lock; `check` is the detector's task between its critical
  sections; `nextCheck` its ticker. `MaxLag` bounds a pause between a clock read and the lock
  it is for. That assumption is the only one on timing, and every bound names it.
* **Cluster.** `loop[w]` is the await at which `Worker::run` stands, `call[w]` the RPC it
  awaits, `timer[w]` its 5 s interval with the ticks it owes, `entries` the registry, `late`
  the requests whose sender gave up but whose handler will still run. Faults: a connection
  breaks before or after the request was carried out, workers and the coordinator crash at
  any step. systemd starts an exited worker again as often as the limit of its unit allows
  (`starts`, `CountStart`: each start falls into the present interval or begins a new one)
  and then leaves it failed (`GivesUp`). Of the coordinator the starts are not counted: any
  restart may be the one that the limit refuses (`CoordGivesUp`), which allows everything a
  count would. `Dead` are the workers that crashed with their machine and those given up;
  until `stable` a machine or an operator may start them.
* **Checkpoint, Recovery.** `file` is what is at the path: whose text comes first and how
  long it is, which is what tells a loadable file from one that is cut short or has the tail
  of another text behind it. `saving[s]` is a save between its open and its write; a crash
  of the coordinator (`Killed`) ends all of them. `crossed` and `settled` record which saves
  under way met another one and what the last undisturbed one wrote. The file outlives the process,
  the registry does not.
* **BotPlacement.** `request` is the input of one call, `placed` the assignments, `idx` the
  loop counter. With the isolation policy the call is `get_isolated_worker` once per bot,
  `isolated` the worker it remembers, and `Relist` a change of the listing in between.
  Affinity groups by role, by scenario, or by anything else, which puts all bots into one
  group (`AffinityKey`). `WordSize` stands for 2^64 in the subtraction at `scheduling.rs:244`, and
  `Builds` chooses between panic (debug) and wrap (release).
* **MetricsAggregator.** `claimed` and `readers` are the lock: a writer first claims it,
  which stops new readers, and enters when the old ones have left, as parking_lot does. `todo`
  holds the calls a writer has still to make, `snapshot` what a scrape has read so far. A
  latency over the histogram's limit leaves no sample (`Recorded`) although its operation
  counts. A percentile is modelled by the number of samples it was computed from.
* **TaskScheduler.** `copy` and `next` are one run's copy of the list and its place in it,
  `waiter` the tokio task between its sleep, its look at the flag and its call. `run` clones
  a `Vec<Task>` although `Task` does not derive `Clone`; the model takes the copy intended.
* **Telemetry.** `events` and `buffer` are the two `Vec`s, with the numbers of what they
  hold; `batch` is what a `record_batch` that holds the lock has still to push. `reader[s]`
  is the await at which the task of stream `s` stands, `queue` the channel. The repository
  has no client of the buffer yet: `Send`, `Close` and `Break` model one that sends what
  `flush` returned, and a network that may fail. What a broken stream had not delivered is
  lost, as in the code. `RecorderWindow` and `BufferWindow` map the two logs to
  `SlidingWindow`.
* **MessageBus.** `channels` is the map of the bus: for each bot id the receiver whose
  sending side it holds. `register_bot` and `subscribe_broadcast` each make one receiver;
  `queue[r]` is what tokio's channel still has for it and `lapse[r]` what was overwritten
  since it last looked. `got`, `told` and `due` record what the receiver was given, was told
  it missed and should have had. Sends the bus refuses change nothing and are not actions.
  A broadcast reaches those who subscribed and no others, as in the code.
* **ServiceCalls.** `phase[c]` is the await at which call `c` stands, or its result; `wire`
  holds the requests that may still be carried out, also those whose caller has given up;
  `done` counts how often each took effect. Methods are told apart by what they do at the
  service and what they read: an id of what was submitted, nothing (over HTTP the body must
  then be `null`), or a value. Services are external and assumed honest in one direction
  only: success is reported of nothing that was not done, errors of anything. A request that
  was sent is not sent again by the HTTP library.
* **BotRun.** `pc` and `turn` are the runner's place in its three loops; a call and its
  return are two actions, with the wallet calls of behaviours in between. The roles of the
  repository never fail and leave the wallet alone; the trait allows more, and so does the
  model. The program keeps no state of a bot (`Bot::state` always answers "running"): `trail`
  records what the runner's calls amount to in the terms of `state.rs`, and `Lives` holds it
  against `BotState`. A failed `teardown` leaves its bot in "stopping", from where
  `state.rs` has no way to "error".

## 3. Runs

| Run | Instance | Shows | Distinct states |
|---|---|---|---|
| `registry` | 2 workers, 2 overlapping registrations, clock to 8 | typing; `DetectionBound`; `HeartbeatBarelyRegresses`; `ImplementsMonitor` | 40,953 |
| `registry_unhealthy_count` | the same, debug build | **violation**: the detector's subtraction of two counts can be negative (`fault_tolerance.rs:42`) | |
| `cluster` | 1 worker at the real ratio 5 : 10 : 15 s, 2 starts within an interval, 2 tasks that save one of 2 states, with fairness | typing; `DetectionBound`; `DeadStaySuspected`; `ImplementsMonitor`; `SavedIsLoadable`; `LiveWorkersRejoin`; `DeadWorkersDetected` | 271,112 |
| `cluster_as_served` | as `Coordinator::serve` starts it, without a detector | **violation**: a dead worker is offered as healthy for ever | |
| `placement` | every strategy and the isolation policy, up to 3 workers, 5 bots, 2 roles, capacities 0..2 | typing; `AssignedOnce`, `EvenTurns`, `CapabilityRespected`, `NoEnvyByRole`, `OverloadOnlyWhenAllFull`, `KeptTogether` | 206,177 |
| `metrics` | 2 bots, 1 controller, 1 scrape | typing; `SnapshotAddsUp`, `CountersAgree`, `ActiveIsRunning` | 1,556,620 (up to symmetry) |
| `metrics_scrape` | 1 of each, with fairness | **violation**: a scrape and a writer wait for each other for ever (`aggregator.rs:238`) | |
| `tasks` | 1 run, an immediate, a delayed and two recurring tasks, with fairness | `AtMostOneLateStart`, `RunCoversItsList`, `QuietAfterShutdown` | 144,218 |
| `telemetry` | 2 streams, a channel of 1, logs of 2 with 3 items each, with fairness | `RecorderIsWindow`, `BufferIsWindow`, `OnePlace`, `StreamInOrder`, `StreamsDrain` | 157,140 |
| `bus` | 1 bot id, 3 receivers, channels of 1 and 2, 3 messages, with fairness | `CleanHandover`, `ClosedIsLast`, `CutOffAreTold` | 298,658 |
| `services` | 3 calls over HTTP or by command, with fairness | `OkCancelCloses`, `ImplementsRemoteCall` (refinement of `RemoteCall`), `HttpCallsReturn` | 92,503 |
| `bot_run` | 2 bots, 2 tokens, amounts to 2 with balances to 1, with fairness | typing; `BooksBalance`, `LivesAreLegal` (refinement of `BotState`), `AllTornDown` | 55,752 |

Each property of a passing run has a mutant in `PROJECT.json`: a faulty variant of one
definition, kept beside it in the module, with which TLC finds the property violated. The
type invariants of `tasks`, `telemetry`, `bus` and `services` are theorems (section 4) and
not among the runs' properties.

**Bounds.** Time is counted in heartbeat intervals. `MaxClock = 8` lets the detector sweep
four times after a heartbeat was due; `MaxAge = Timeout + CheckInterval + 1` is the first
value that would break `DetectionBound`, so a larger age tells nothing apart. Two workers
of `registry` show what one worker's calls do to another's entry; `cluster`, where calls are
atomic and each touches its own worker's entry only, has one, and its safety theorems hold of
any number. Two registrations overlap on the same id; two bots and a controller give a writer
between any two read locks of a scrape, and a second scrape adds only readers that do not
keep each other out (`SnapshotsAddUp` is proved for any number). Two saves overlap in every
order, with a shorter and a longer text; a third one could only cover what one of them left.
`StartBurst = 2` instead of 5 has a start that succeeds, one that fails with starts left and
one that is refused; more only delay the refusal. A counter limited to 2 has seen a reset,
an event before it and one after it. Five bots over
at most three workers overfill every capacity map. `starts` and `late` saturate at 2, the
first value that breaks their properties. A log of 2 that is given 3 items has been
full and past it, and a batch of 2 fills it from any state; two streams on a channel of 1
make each task wait for the other. Three receivers are a former and a new owner of a
bot id and a bystander, or three owners in a row; three messages overflow the bot's channel
twice and the broadcast channel once. Three calls are a submit, a cancel of it and a third
that races both. A balance that holds 1 when 2 are traded is full and
empty on the way, and two bots are one before and one after whatever fails. The runs whose instances end (clock, request,
counters at their bound, a scheduler that has finished, an aggregator that really locks up)
set `CHECK_DEADLOCK FALSE`.

**Fairness.** `Cluster` assumes weak fairness of handlers, of each worker's loop, of late
requests, of the due sweep, of "restarts or gives up" and of time: tokio polls what is
ready, systemd starts what has exited or leaves it failed, and clocks run. A restart alone
is not fair: both units stop after five starts within 300 s
(`acdc-botnet-worker@.service:48-51`, `acdc-botnet-coordinator.service:42-45`), no interval
has to end, and nobody has to start a failed unit. `LiveWorkersRejoin` therefore speaks of
workers in their loop, which never exit by themselves, and of those that may still be
started while the coordinator is up, and says nothing once systemd has given up the
coordinator. No fault is required to happen, and liveness is claimed from `stable` on only,
after which calls end within a time unit: no RPC of the code has a timeout
(`worker.rs:117`), so without that assumption nothing could be promised. `MetricsAggregator`
assumes that an enabled thread runs, and strong fairness of getting the lock, which
favours the code: the scrape is stuck nevertheless. `TaskScheduler` assumes that timers go
off and that ready tasks run; nobody is required to call `run` or `shutdown`. `Telemetry`
assumes weak fairness of the reading tasks and the processor, and strong fairness of a
send into the channel: tokio's `mpsc` admits waiting senders in the order they came.
`MessageBus` assumes that whoever made a receiver goes on receiving until it is closed or
dropped; nobody is required to send, unregister or drop. `ServiceCalls` assumes only that the 30 s timer of a call
over HTTP runs out: neither a service nor a command has to answer. `BotRun` assumes that
the runner goes on and that every call returns (the roles return at once); no outcome is required.

**What the violations mean.** `docs/DEPLOYMENT.md:469` promises detection of a dead worker
"after 3 missed heartbeats (15s)". With a detector the true bound is `Timeout +
CheckInterval` (25 s), which `DetectionBound` states and the proofs establish; `serve`,
however, starts none. The count difference and the recursive read lock are defects of the
code in the sense of its own documents ("Zero Unwrap/Panic", `docs/DESIGN.md:338`;
"Thread-safe with `parking_lot::RwLock`", `docs/DESIGN.md:394`).

## 4. Theorems

For every value of the constants that satisfies the modules' `ASSUME`s:

| Module | Theorem | Statement |
|---|---|---|
| `WorkerRegistryProofs` | `RegistryTypes` | `Spec => []TypeOK` |
| | `DetectionIsBounded` | `Spec => []DetectionBound` |
| | `RegressIsBounded` | `Spec => HeartbeatBarelyRegresses` |
| | `RegistryImplementsMonitor` | `Spec => ImplementsMonitor` |
| `ClusterProofs` | `ClusterTypes` | `Spec => []TypeOK` |
| | `ClusterDetects` | `Spec => []DetectionBound` |
| | `DeadAreNotRevived` | `Spec => DeadStaySuspected` |
| | `ClusterImplementsMonitor` | `Spec => ImplementsMonitor` |
| | `RecoveryIsCluster` | `RecoverySpec => Spec` |
| | `CheckpointSurvives` | `RecoverySpec => []SavedIsLoadable` |
| | `AsServedAllAreHealthy` | `Spec => AsServedNobodyIsSuspected` |
| `BotPlacementProofs` | `PlacementInductive` | `Spec => []PlacementInv` |
| | `PlacementTypes` | `Spec => []TypeOK` |
| | `PlacementAssignedOnce` | `Spec => []AssignedOnce` |
| | `PlacementEven` | `Spec => []EvenTurns` |
| | `PlacementCapability` | `Spec => []CapabilityRespected` |
| | `PlacementNoEnvy` | `Spec => []NoEnvyByRole` |
| | `PlacementOverload` | `Spec => []OverloadOnlyWhenAllFull` |
| | `PlacementTogether` | `Spec => []KeptTogether` |
| `MetricsAggregatorProofs` | `MetricsTypes` | `Spec => []TypeOK` |
| | `SnapshotsAddUp` | `Spec => []SnapshotAddsUp` |
| | `ActiveBotsAreRunning` | `Spec => []ActiveIsRunning` |
| | `CountersTellOneStory` | `Spec => []CountersAgree` |
| | `LockUpsAreForever` | `Spec => LockUpIsForever` |
| `TaskSchedulerProofs` | `SchedulerTypes` | `Spec => []TypeOK` |
| | `LateStartsBounded` | `Spec => []AtMostOneLateStart` |
| | `RunsCoverTheirLists` | `Spec => []RunCoversItsList` |
| `TelemetryProofs` | `TelemetryTypes` | `Spec => []TypeOK` |
| | `RecorderKeepsTheLatest` | `Spec => RecorderIsWindow` |
| | `BufferKeepsTheLatest` | `Spec => BufferIsWindow` |
| | `StreamsAreInOrder` | `Spec => StreamInOrder` |
| | `SamplesHaveOnePlace` | `Spec => []OnePlace` |
| | `ClosedStreamsLoseNothing` | `Spec => []NothingLostOfClosed` |
| `MessageBusProofs` | `BusTypes` | `Spec => []TypeOK` |
| | `HandoverIsClean` | `Spec => []CleanHandover` |
| | `NothingIsLostSilently` | `Spec => []ClosedIsLast` |
| `BotRunProofs` | `RunTypes` | `Spec => []TypeOK` |
| | `BooksAreKept` | `Spec => []BooksBalance` |
| | `LivesFollowTheStateMachine` | `Spec => LivesAreLegal` |
| | `RunsEndCleanly` | `Spec => []EndsAreClean` |
| | `CallsTypes` | `CallsSpec => []CallsTypeOK` |
| | `CancelsClose` | `CallsSpec => []OkCancelCloses` |
| | `CallsAreRemoteCalls` | `CallsSpec => ImplementsRemoteCall` |

The arguments:

* `RegistryInv`. `DetectionBound` is not inductive: nothing in it says that a sweep is due
  soon. `OnSchedule` keeps the detector on its ticker and every pause within `MaxLag`, and
  `SweptFresh` says that what is healthy was not stale at the last completed sweep. The
  bound is their sum. A registration inserts a time at most `MaxLag` old, which is why
  `MaxLag <= CheckInterval` is assumed.
* `ClusterInv`. The same with ages: `SweptFresh` bounds an age by `Timeout` plus the time
  since the sweep, and `RegistryInMemory` restarts the argument after a crash.
* `DeadStaySuspected` is an action property: the proof goes through every action and shows
  that only a handler or a late request of the worker itself makes an entry healthy.
* `MonitorStep`. A sweep of the cluster is the abstract monitor's sweep of the same ages, a
  crash of the coordinator its loss of all knowledge; whatever a worker does on its own
  changes nothing the monitor sees. Needs no more than the types.
* `RecoveryIsCluster`. A step of a save leaves the cluster's variables alone, so a behaviour
  of both is one of the cluster: its theorems carry over.
* `CheckpointInv`. A save that has met no other is alone and the file still as its opening
  left it, so its write makes the file its whole text, nothing behind it.
* `PlacementInv`. None of the properties of a plan is inductive by itself. `InStep` says
  which bots have been placed when the loop is at its `idx`, so that the next one is new:
  with it `OnePlace` (the inductive form of `AssignedOnce`) survives a push. Affinity has
  no such index; there the bots placed are whole groups, and there are at most as many
  groups as bots, which bounds the turn. `TakesTurns` gives the number of turns of a worker
  exactly, from the quotient and remainder of `idx` and its position in the listing;
  `EvenTurns` is a difference of two such numbers. `NoEnvyByRole` needs only that the worker
  chosen is least loaded among the eligible ones (`LeastLoadedFacts`: a set of naturals has
  a minimum) and that loads only grow. `OverloadOnlyWhenAllFull` is inductive because a subtraction
  that wraps comes after the fact: as long as no worker is over its capacity none wraps, so
  the worker chosen has the most room left (`MostAvailableFacts`) and is filled beyond its
  capacity only if that room is 0 on all of them; from then on all stay full, whichever is
  chosen. `OnListed` keeps isolated bots on the one worker remembered, which is all that
  survives a change of the listing.
* `SnapshotCurrent`. What a scrape has read so far is what the getters would return now,
  because a reader keeps writers out of `Write`. Two readings of one state then agree.
* `LastSignal`. `ActiveIsRunning` speaks of bots with nothing to hand over and is not
  inductive: while a start and a stop wait in one batch, only the last of them says what the
  bot does. With none waiting `active_bots` says it, and no event of another bot, no reset
  and no window touches that.
* `Agree`. `CountersAgree` is inductive; the work is in what `SumFunction` does when one
  counter grows. Its definition is a fold, a `CHOOSE` of a recursive function, for which the
  library's induction theorems cannot be used here. `NoLeastSet` is induction over finite
  sets in first-order form (a set of counterexamples that has a smaller one for each member
  is empty, from the well-foundedness of the subset order), `TableExists` shows that the
  recursive function exists, and `SumZero`, `SumOneMore` and `SumType` are what the actions
  need: sums start at 0, grow by one with one counter, and are natural numbers. For that the bots and
  behaviours are assumed finite, as the keys of a `HashMap` are.
* `LateInv`. A list holds a task once, so a run passes it once; a tokio task that started
  late is asleep or at its end, and the next look at the flag ends it.
* `CoverInv`. What a run has passed is exactly what it started or has a tokio task for. Runs
  share nothing but the list, which they copy, and the flag: the instance has one run, the
  theorem any number.
* `WindowInv`. Both logs are runs of numbers that end with the latest. From that, draining
  `len - max + 1` items and pushing, removing one and pushing, and taking all are each a
  step of `SlidingWindow`, which is the refinement.
* `QueueInv`. For each stream the positions in the channel are the unbroken run between what
  was processed and what was read (less the sample its task still holds). Other streams'
  samples in between do not matter, whatever the channel's size.
* `PlaceInv`. `OnePlace` needs to know that a new sample is new: every number in any place
  is at most `sampled`, and by `WindowInv` the buffer holds none twice.
* `HandoverInv`. Messages are numbered as the bus accepts them, so that a receiver made
  later holds only later ones *if* the earlier receiver gets no more: `PresentIsLater` says
  of the receiver whose sending side the bus holds that all others of the bot hold earlier
  messages only, which `register_bot` establishes by replacing that side.
* `AccountInv`. For every receiver, what is due is what it got, has waiting, was told of and
  is yet to be told of; got and waiting do not overlap because the queue is `Rising` and
  beyond all that was received. A closed receiver has nothing waiting and nothing untold.
* `CallsInv`. A request under way has had no effect yet and its caller has not returned
  `Ok`; success is reported of what was done only; nothing is done for a call that never
  left. A cancel that returned `Ok` was therefore carried out, and stays so.
* `PhaseInv`. Where the runner stands says in which state each bot is: bots before its turn
  as this loop leaves them, those after it as the last one did. Each move is then a
  transition `state.rs` has. The trail is the history the machine would keep.
* `EndsInv`. The bots before the turn of the teardown loop are torn down. With `PhaseInv`,
  which says what a failing setup leaves behind, this gives the end of every run.

Four theorems are about what the temporal runs show on one instance, less the part that
needs fairness. They are stated by no run of their own; TLC found each to hold on the
instance of the run named here before it was proved.

* `AsServedAllAreHealthy` (`cluster_as_served`). Without a detector only a worker's own
  requests write `healthy`, and they write `TRUE`; only a crash of the coordinator removes
  an entry. That a dead worker stays on offer is so for any workers and intervals.
* `LockUpsAreForever` (`metrics_scrape`). A claim can only be used when no reader is left,
  and the reader between two getters cannot read on while there is a claim.
* `ClosedStreamsLoseNothing` (`telemetry`, `StreamsDrain`). By `EndInv` the task of a closed
  stream ends only when all was read, and by `QueueInv` what was read and is not processed
  is in the channel.
* `RunsEndCleanly` (`bot_run`, `AllTornDown`), from `EndsInv`.

Only model-checked: liveness, which is out of the prover's reach (`LiveWorkersRejoin`,
`DeadWorkersDetected`, `StreamsDrain`, `CutOffAreTold`, `QuietAfterShutdown`, `AllTornDown`,
`HttpCallsReturn`). Every invariant, every action property and every refinement that a
passing run checks is a theorem. `PlacementInv` and `LastSignal` were model-checked on the
instances of `placement.cfg` and `metrics.cfg` before they were proved.

## 5. What is not modelled, and the plan

Done, in the order planned: registry and detector; the cluster around them; placement;
aggregator; task scheduler; telemetry; message bus; bot life cycle and wallets; then the
checkpoint and its composition with the cluster, the isolation policy and the other affinity
keys in `BotPlacement`, the latency histogram, and the integration clients with their
abstract specification; then the proofs, ending with placement and the counters of the
aggregator. Next, in this order:

1. **The locked registry implements the one of `Cluster`**: each critical section of
   `WorkerRegistry`, with a clock read before it, as a step of the cluster's entries, which
   would make a theorem of what the two refinements of `HeartbeatMonitor` now argue.
2. **The handover of the checkpoint**: a coordinator that loads its state at a restart, once
   `serve` does so.

What the models show, or the reading found, that no run states as a violation:

* `docs/DEPLOYMENT.md:521` says that after a restart of the coordinator "Workers will
  reconnect automatically". That holds of running workers (`LiveWorkersRejoin`). A worker
  that is *started* while the coordinator is away exits (`worker.rs:52,55`), is started
  again every 15 s, and after five starts stays failed until an operator starts it, however
  soon the coordinator is back after that.
* The units run `acdc-botnet coordinator start` and `acdc-botnet worker start` with options
  such as `--checkpointing` and `--capabilities`; the parser of `main.rs` defines the
  commands `coordinator` and `worker` without either, and its binary is `adnet-testbots`.
  The model takes the processes the units mean to run.
* `main.rs:238` reads `bots.len()` inside a loop over `bots.iter_mut()`, which the borrow
  checker refuses; `BotRun` models the loop as it reads.

* `IMPLEMENTATION_SUMMARY.md:310` lists "Checkpoint corruption handling with fallback",
  and `docs/DEPLOYMENT.md` describes recovery of the coordinator; the code has one file, no
  fallback, no caller, and a `CoordinatorState` of counts and names. `SavedIsLoadable` says
  what does hold; between the two steps of a save nothing can be loaded.
* `docs/DESIGN.md:154,305` puts Byzantine bots on isolated, dedicated workers;
  `IsolationPolicy` has no caller, keeps its worker when it is no longer listed, and leaves
  it among the workers other bots are placed on. `KeptTogether` says what it does achieve:
  isolated bots share one worker.
* `docs/DESIGN.md:230` describes retry logic; the clients have none, which is what makes
  `ImplementsRemoteCall` true of them.
* A behaviour that has only failed has no success rate at all (`aggregator.rs:242` goes
  through the successes), and `error_rate`, documented as 0.0 to 1.0 (`prometheus.rs:140`),
  exceeds 1 when errors without operations outnumber the operations.
* `set_active_scenario` keeps the progress of the scenario before (`aggregator.rs:269`).
* A broadcast does not reach the registered bots; a scenario whose setup fails leaves the
  bots set up before it as they are; samples of a broken stream are lost; `total_value` adds
  balances without a check (`wallet.rs:174`, only reports use it).
* `IdentityGenerator::generate` ignores the seed of `with_seed` (TODO, `identity.rs:120`).

Assumed throughout: `SystemTime` does not jump. The code has no defence against a clock that
is set (`registry.rs:134`), and every bound on silence would be off by the jump.

Left out for good: the three RPC stubs and the stub crates (they change no state),
identities (cryptography and encoding), the HTTP text and the socket loop of the exporter and
the parsing of scenario files (formatting, I/O), and the gauges of the aggregator that are
set and exported unchanged.

------------------------- MODULE MetricsAggregator -------------------------
(***************************************************************************)
(* MetricsAggregator (metrics/src/aggregator.rs) under its users: bots     *)
(* that hand it their events, a controller that resets it and reads its    *)
(* window, and the tasks of the Prometheus exporter (prometheus.rs) that   *)
(* take snapshots, all through one parking_lot::RwLock.                    *)
(*                                                                         *)
(* That lock lets a waiting writer claim it while readers still hold it;   *)
(* from then on no new read lock is granted.  `snapshot` takes the read    *)
(* lock once and then, still holding it, once more for each getter it      *)
(* calls.  A getter's own lock is taken and dropped in one action: nobody  *)
(* can tell the difference, because the outer one keeps writers out.       *)
(*                                                                         *)
(* Of the latency histogram the number of its samples is kept, which tells *)
(* whether two percentiles were read from the same one.  The role names    *)
(* and the scenario and worker gauges are left out.                        *)
(***************************************************************************)
EXTENDS Naturals, FiniteSets, Sequences, Functions

CONSTANTS
    Bots,         \* each one's events are handed over by one task, in order
    Controllers,  \* tasks that call reset and window_tps
    Exporters,    \* connection tasks of the exporter
    Behaviors,
    Nobody,       \* no writer
    MaxCount,     \* bound: no new event once a counter has reached it
    MaxPending    \* bound: events a bot has ready and not yet processed

ASSUME MetricsAssumption ==
    /\ IsFiniteSet(Bots) /\ IsFiniteSet(Behaviors)
    /\ Nobody \notin Bots \cup Controllers
    /\ Bots \cap Controllers = {}

VARIABLES
    state,     \* AggregatorState
    claimed,   \* the writer that holds or has claimed the lock
    readers,   \* exporters that hold a read lock
    todo,      \* the calls each writer has still to make
    snapshot,  \* the snapshot each exporter is taking
    running    \* the bots that have said they started and not that they stopped

vars == <<state, claimed, readers, todo, snapshot, running>>

Writers == Bots \cup Controllers

(* The events that count: the others of BotEvent change nothing.  A latency *)
(* is too long when it is over the 60 s the histogram can hold.            *)
Outcome == [kind : {"succeeded", "failed"}, behavior : Behaviors, tooLong : BOOLEAN]
Timing  == [kind : {"confirmed", "response"}, tooLong : BOOLEAN]
Plain   == [kind : {"started", "stopped", "error"}]
Event   == Outcome \cup Timing \cup Plain
Order   == [kind : {"reset"}] \cup [kind : {"window_tps"}, expired : BOOLEAN]

(* What `snapshot` reads after its own lock, in its order. *)
Getters == <<"tps", "latency_p50", "latency_p95", "latency_p99", "error_rate",
             "total_operations", "total_errors", "active_bot_count">>

(* What a getter can return. *)
Reading == [ops : Nat] \cup [errors : Nat] \cup [errors : Nat, ops : Nat]
           \cup [bots : SUBSET Bots] \cup [samples : Nat]

NoSnapshot == <<>>

State == [ops : Nat, errors : Nat, window : Nat, samples : Nat, botOps : [Bots -> Nat],
          successes : [Behaviors -> Nat], failures : [Behaviors -> Nat],
          active : SUBSET Bots, roles : Nat]


TypeOK ==
    /\ state \in State
    /\ claimed \in Writers \cup {Nobody}
    /\ claimed # Nobody => todo[claimed] # <<>>
    /\ readers \subseteq Exporters
    /\ todo \in [Writers -> Seq(Event) \cup Seq(Order)]
    /\ \A b \in Bots : todo[b] \in Seq(Event)
    /\ \A c \in Controllers : todo[c] \in Seq(Order)
    /\ snapshot \in [Exporters -> Seq(Reading)]
    /\ running \subseteq Bots

(***************************************************************************)
(* The critical sections                                                   *)
(***************************************************************************)

New == [ops |-> 0, errors |-> 0, window |-> 0, samples |-> 0, botOps |-> [b \in Bots |-> 0],
        successes |-> [v \in Behaviors |-> 0], failures |-> [v \in Behaviors |-> 0],
        active |-> {}, roles |-> 0]

(* latency_histogram.record, whose error is ignored. *)
Recorded(s, ev) == IF ev.tooLong THEN s ELSE [s EXCEPT !.samples = @ + 1]

(* total_operations and window_operations, and the latency of the operation. *)
Counted(s, ev) == [Recorded(s, ev) EXCEPT !.ops = @ + 1, !.window = @ + 1]

(* process_event, for an event of bot b.  `roles` adds up bots_by_role,    *)
(* which counts the starts: a stopping bot does not leave its role.        *)
Processed(s, b, ev) ==
    CASE ev.kind = "started"   -> [s EXCEPT !.active = @ \cup {b}, !.roles = @ + 1]
      [] ev.kind = "stopped"   -> [s EXCEPT !.active = @ \ {b}]
      [] ev.kind = "succeeded" -> [Counted(s, ev) EXCEPT !.botOps[b] = @ + 1,
                                                         !.successes[ev.behavior] = @ + 1]
      [] ev.kind = "failed"    -> [Counted(s, ev) EXCEPT !.botOps[b] = @ + 1,
                                                         !.failures[ev.behavior] = @ + 1,
                                                         !.errors = @ + 1]
      [] ev.kind = "confirmed" -> Counted(s, ev)
      [] ev.kind = "response"  -> Recorded(s, ev)
      [] ev.kind = "error"     -> [s EXCEPT !.errors = @ + 1]

(* Faulty variant: the reset forgets behavior_failures. *)
ResetButFailures(s) == [New EXCEPT !.active = s.active, !.failures = s.failures]

(* Faulty variant: the reset empties active_bots too. *)
ResetAll(s) == New

(* reset: the bots that are active, the scenario and the workers stay. *)
Reset(s) == [New EXCEPT !.active = s.active]

(* window_tps starts a new window when the current one has expired. *)
Windowed(s, expired) == IF expired THEN [s EXCEPT !.window = 0] ELSE s

(* Faulty variant: a bot that stops leaves its role, which a reset may     *)
(* have emptied.                                                           *)
AfterLeavingRole(s, w, call) ==
    CASE call.kind = "reset"      -> Reset(s)
      [] call.kind = "window_tps" -> Windowed(s, call.expired)
      [] call.kind = "stopped"    -> [s EXCEPT !.active = @ \ {w}, !.roles = @ - 1]
      [] OTHER                    -> Processed(s, w, call)

After(s, w, call) ==
    CASE call.kind = "reset"      -> Reset(s)
      [] call.kind = "window_tps" -> Windowed(s, call.expired)
      [] OTHER                    -> Processed(s, w, call)

(* What a getter reads. *)
Value(s, getter) ==
    CASE getter = "tps"              -> [ops |-> s.ops]
      [] getter = "error_rate"       -> [errors |-> s.errors, ops |-> s.ops]
      [] getter = "total_operations" -> [ops |-> s.ops]
      [] getter = "total_errors"     -> [errors |-> s.errors]
      [] getter = "active_bot_count" -> [bots |-> s.active]
      [] OTHER                       -> [samples |-> s.samples]

(***************************************************************************)
(* The lock                                                                *)
(***************************************************************************)

CanRead == claimed = Nobody

(* RwLock::write, first half: keep every new reader out. *)
Claim(w) ==
    /\ claimed = Nobody
    /\ todo[w] # <<>>
    /\ claimed' = w
    /\ UNCHANGED <<state, readers, todo, snapshot, running>>

(* The second half, once the readers have left: the critical section, unlock. *)
Write(w) ==
    /\ claimed = w
    /\ readers = {}
    /\ state' = After(state, w, Head(todo[w]))
    /\ todo' = [todo EXCEPT ![w] = Tail(@)]
    /\ claimed' = Nobody
    /\ UNCHANGED <<readers, snapshot, running>>

(***************************************************************************)
(* The users                                                               *)
(***************************************************************************)

(* A bot adds an event to the batch it is handing over. *)
Emit(b, ev) ==
    /\ Len(todo[b]) < MaxPending
    /\ state.ops < MaxCount /\ state.errors < MaxCount
    /\ state.roles < MaxCount /\ state.samples < MaxCount
    /\ (ev.kind = "started") <=> (b \notin running)
    /\ running' = CASE ev.kind = "started" -> running \cup {b}
                    [] ev.kind = "stopped" -> running \ {b}
                    [] OTHER               -> running
    /\ todo' = [todo EXCEPT ![b] = Append(@, ev)]
    /\ UNCHANGED <<state, claimed, readers, snapshot>>

Request(c, call) ==
    /\ todo[c] = <<>>
    /\ todo' = [todo EXCEPT ![c] = <<call>>]
    /\ UNCHANGED <<state, claimed, readers, snapshot, running>>

(* generate_metrics_text calls snapshot, which locks and copies the maps. *)
SnapshotStart(e) ==
    /\ e \notin readers /\ snapshot[e] = NoSnapshot
    /\ CanRead
    /\ readers' = readers \cup {e}
    /\ UNCHANGED <<state, claimed, todo, snapshot, running>>

(* Faulty variant: only the maps are copied under the lock, and the        *)
(* getters run without it.                                                 *)
SnapshotGetUnlocked(e) ==
    /\ e \in readers \/ snapshot[e] # NoSnapshot
    /\ Len(snapshot[e]) < Len(Getters) /\ CanRead
    /\ snapshot' = [snapshot EXCEPT ![e] = Append(@, Value(state, Getters[Len(@) + 1]))]
    /\ readers' = readers \ {e}
    /\ UNCHANGED <<state, claimed, todo, running>>

(* ... calls the next getter, which locks again ... *)
SnapshotGet(e) ==
    /\ e \in readers /\ Len(snapshot[e]) < Len(Getters)
    /\ CanRead
    /\ snapshot' = [snapshot EXCEPT ![e] = Append(@, Value(state, Getters[Len(@) + 1]))]
    /\ UNCHANGED <<state, claimed, readers, todo, running>>

(* ... and returns, unlocking; the text is written to the socket. *)
SnapshotEnd(e) ==
    /\ Len(snapshot[e]) = Len(Getters)
    /\ readers' = readers \ {e}
    /\ snapshot' = [snapshot EXCEPT ![e] = NoSnapshot]
    /\ UNCHANGED <<state, claimed, todo, running>>

Init ==
    /\ state = New
    /\ claimed = Nobody
    /\ readers = {}
    /\ todo = [w \in Writers |-> <<>>]
    /\ snapshot = [e \in Exporters |-> NoSnapshot]
    /\ running = {}

Next ==
    \/ \E w \in Writers : Claim(w) \/ Write(w)
    \/ \E b \in Bots, ev \in Event : Emit(b, ev)
    \/ \E c \in Controllers, call \in Order : Request(c, call)
    \/ \E e \in Exporters : SnapshotStart(e) \/ SnapshotGet(e) \/ SnapshotEnd(e)

(* Every thread runs, and a lock that is free again and again is got. *)
Fairness ==
    /\ \A w \in Writers : SF_vars(Claim(w)) /\ WF_vars(Write(w))
    /\ \A e \in Exporters : SF_vars(SnapshotGet(e)) /\ WF_vars(SnapshotEnd(e))

Spec == Init /\ [][Next]_vars
FairSpec == Spec /\ Fairness

(***************************************************************************)
(* Properties                                                              *)
(***************************************************************************)

(* While it lasts, a snapshot holds what the getters would still return:   *)
(* the lock its exporter holds keeps the writers out.                      *)
SnapshotCurrent ==
    \A e \in Exporters :
        /\ snapshot[e] # NoSnapshot => e \in readers
        /\ Len(snapshot[e]) <= Len(Getters)
        /\ \A i \in 1..Len(snapshot[e]) : snapshot[e][i] = Value(state, Getters[i])

(* What one snapshot exports adds up, however events and resets interleave *)
(* with the eight locks it takes: the rates are those of the totals beside *)
(* them, and the three percentiles those of one histogram, so that p50 is  *)
(* not above p95 nor p95 above p99 (aggregator.rs:237-266).                *)
SnapshotAddsUp ==
    \A e \in Exporters :
        Len(snapshot[e]) = Len(Getters) =>
            LET s == snapshot[e]
            IN  /\ s[5].ops = s[1].ops /\ s[6].ops = s[1].ops
                /\ s[7].errors = s[5].errors
                /\ s[2].samples = s[3].samples /\ s[3].samples = s[4].samples

(* The counters tell one story, also across resets: operations counted per *)
(* bot are those counted per behaviour, all are among the total, failures  *)
(* are among the errors, and the window holds no more than the total.      *)
CountersAgree ==
    /\ SumFunction(state.botOps) = SumFunction(state.successes) + SumFunction(state.failures)
    /\ SumFunction(state.botOps) <= state.ops
    /\ SumFunction(state.failures) <= state.errors
    /\ state.window <= state.ops

(* A bot whose events have all been processed is counted as active exactly *)
(* if it is running, resets or not (active_bots, aggregator.rs:84-93, 289). *)
ActiveIsRunning ==
    \A b \in Bots : todo[b] = <<>> => (b \in state.active <=> b \in running)

(* The inductive form of it: with starts or stops still to be processed,   *)
(* the last of them says what the bot does, and without it is active_bots. *)
Signals(b) == {i \in DOMAIN todo[b] : todo[b][i].kind \in {"started", "stopped"}}

LastSignal ==
    \A b \in Bots :
        /\ Signals(b) = {} => (b \in state.active <=> b \in running)
        /\ \A i \in Signals(b) : (\A j \in Signals(b) : j <= i) =>
              (todo[b][i].kind = "started" <=> b \in running)

(* Once a writer has claimed the lock while a snapshot is between two of   *)
(* its getters, it stays so: nobody gets the lock again, nothing is        *)
(* counted any more and no scrape begins (aggregator.rs:238, 250-260).     *)
LockedUp == claimed # Nobody /\ \E e \in readers : Len(snapshot[e]) < Len(Getters)

LockUpIsForever ==
    /\ [](LockedUp => []LockedUp)
    /\ [][LockedUp => UNCHANGED <<state, claimed>> /\ readers' \subseteq readers]_vars

(* docs/DESIGN.md:394 and docs/PROMETHEUS.md:98: the aggregator is thread-safe, *)
(* and a scrape that has started is answered.                              *)
ScrapeAnswered == \A e \in Exporters : e \in readers ~> e \notin readers

============================================================================

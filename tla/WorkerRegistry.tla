--------------------------- MODULE WorkerRegistry ---------------------------
(***************************************************************************)
(* The coordinator's worker registry (registry.rs) and the fault detector  *)
(* that sweeps it (fault_tolerance.rs), at the granularity of the lock:    *)
(* one action is one critical section of the RwLock, or one read of the    *)
(* system clock made outside of it.                                        *)
(*                                                                         *)
(*  - `register` reads the clock BEFORE it takes the lock (registry.rs:35  *)
(*    and :39): a call can insert a time that is already old.              *)
(*  - `check_stale_workers` reads `now` before the lock (:60, :61) too.    *)
(*  - the detector counts all workers and the healthy ones in two separate *)
(*    critical sections and subtracts (fault_tolerance.rs:42).             *)
(*                                                                         *)
(* Time is an integer in units of the heartbeat interval (5 s).  The only  *)
(* timing assumption is MaxLag: a call that has read the clock takes its   *)
(* lock within MaxLag units, and the detector's timer wakes it on time.    *)
(***************************************************************************)
EXTENDS Integers, FiniteSets

CONSTANTS
    Workers,        \* worker ids
    Callers,        \* RPC handlers that may be inside the registry at a time
    Timeout,        \* heartbeat_timeout: 15 s
    CheckInterval,  \* check_interval: 10 s
    MaxLag,         \* longest pause between a clock read and the lock
    MaxClock,       \* bound: the clock stops here
    OverflowChecks  \* TRUE: debug build, a usize subtraction that wraps panics

ASSUME RegistryAssumption ==
    /\ Timeout \in Nat /\ CheckInterval \in Nat \ {0} /\ MaxClock \in Nat
    /\ MaxLag \in Nat /\ MaxLag <= CheckInterval /\ MaxLag <= Timeout
    /\ OverflowChecks \in BOOLEAN
    /\ IsFiniteSet(Workers)

VARIABLES
    workers,    \* worker id -> WorkerEntry: the map behind the lock
    clock,      \* the system clock (current_time_ms)
    pending,    \* caller -> register call that has read the clock, not yet inserted
    nextCheck,  \* when the detector's ticker completes next
    check       \* the detector's task: position, the `now` it read, its count

vars == <<workers, clock, pending, nextCheck, check>>

Time == 0..MaxClock

WorkerEntry == [last : Time, healthy : BOOLEAN]

Registration == [id : Workers, at : Time]

CheckPc == {"wait", "sweep", "count", "compare", "panicked"}

(* A partial function from S: a HashMap. *)
Maps(S, T) == UNION {[D -> T] : D \in SUBSET S}

TypeOK ==
    /\ workers \in Maps(Workers, WorkerEntry)
    /\ clock \in Time
    /\ pending \in Maps(Callers, Registration)
    /\ nextCheck \in Nat
    /\ check \in [pc : CheckPc, now : Time, counted : Nat]

(* The ids that the healthy filter keeps; every reader of the registry
   (list_workers, find_available_worker, the counts) goes through it. *)
HealthyWorkers == {w \in DOMAIN workers : workers[w].healthy}

(***************************************************************************)
(* Calls of the RPC handlers                                               *)
(***************************************************************************)

(* WorkerRegistry::register, up to the clock read. *)
RegisterStart(c, w) ==
    /\ c \notin DOMAIN pending
    /\ pending' = [d \in DOMAIN pending \cup {c} |->
                     IF d = c THEN [id |-> w, at |-> clock] ELSE pending[d]]
    /\ UNCHANGED <<workers, clock, nextCheck, check>>

(* Faulty variant: the entry waits for its first heartbeat with a default time. *)
InsertDefaultEntry(c) ==
    /\ c \in DOMAIN pending
    /\ workers' = [w \in DOMAIN workers \cup {pending[c].id} |->
                     IF w = pending[c].id THEN [last |-> 0, healthy |-> TRUE]
                                          ELSE workers[w]]
    /\ pending' = [d \in DOMAIN pending \ {c} |-> pending[d]]
    /\ UNCHANGED <<clock, nextCheck, check>>

(* WorkerRegistry::register, the insert under the write lock: a new entry
   replaces the old one, whatever it was. *)
RegisterInsert(c) ==
    /\ c \in DOMAIN pending
    /\ workers' = [w \in DOMAIN workers \cup {pending[c].id} |->
                     IF w = pending[c].id
                     THEN [last |-> pending[c].at, healthy |-> TRUE]
                     ELSE workers[w]]
    /\ pending' = [d \in DOMAIN pending \ {c} |-> pending[d]]
    /\ UNCHANGED <<clock, nextCheck, check>>

(* Faulty variant: the entry stores its expiry instead of the heartbeat's time. *)
StoreExpiry(w, well) ==
    /\ w \in DOMAIN workers
    /\ workers' = [workers EXCEPT ![w] = [last |-> clock + Timeout, healthy |-> well]]
    /\ UNCHANGED <<clock, pending, nextCheck, check>>

(* WorkerRegistry::update_heartbeat: the clock is read inside the lock.  An
   unknown worker is an error and changes nothing. *)
UpdateHeartbeat(w, well) ==
    /\ w \in DOMAIN workers
    /\ workers' = [workers EXCEPT ![w] = [last |-> clock, healthy |-> well]]
    /\ UNCHANGED <<clock, pending, nextCheck, check>>

(* WorkerRegistry::remove_worker *)
RemoveWorker(w) ==
    /\ w \in DOMAIN workers
    /\ workers' = [v \in DOMAIN workers \ {w} |-> workers[v]]
    /\ UNCHANGED <<clock, pending, nextCheck, check>>

(***************************************************************************)
(* The fault detector                                                      *)
(***************************************************************************)

(* ticker.tick() completes (the first one at once, a late one is not
   skipped), and check_stale_workers reads `now`. *)
CheckTick ==
    /\ check.pc = "wait" /\ clock >= nextCheck
    /\ nextCheck' = nextCheck + CheckInterval
    /\ check' = [check EXCEPT !.pc = "sweep", !.now = clock]
    /\ UNCHANGED <<workers, clock, pending>>

(* Faulty variants of the comparison, one unit too late and one too early. *)
StaleTooLate(entry, now) == now - entry.last - 1 > Timeout
StaleTooEarly(entry, now) == now - entry.last >= Timeout

Stale(entry, now) == now - entry.last > Timeout

(* WorkerRegistry::check_stale_workers under the write lock. *)
Sweep ==
    /\ check.pc = "sweep"
    /\ workers' = [w \in DOMAIN workers |->
                     IF Stale(workers[w], check.now)
                     THEN [workers[w] EXCEPT !.healthy = FALSE]
                     ELSE workers[w]]
    /\ check' = [check EXCEPT !.pc = "count"]
    /\ UNCHANGED <<clock, pending, nextCheck>>

(* The left operand of the subtraction: worker_count(). *)
CountAll ==
    /\ check.pc = "count"
    /\ check' = [check EXCEPT !.pc = "compare", !.counted = Cardinality(DOMAIN workers)]
    /\ UNCHANGED <<workers, clock, pending, nextCheck>>

(* The right operand, healthy_worker_count(), and the subtraction in usize: a
   negative result panics in a debug build and wraps in a release build, where
   it only makes the logged number wrong. *)
CountHealthy ==
    /\ check.pc = "compare"
    /\ LET wraps == check.counted < Cardinality(HealthyWorkers)
       IN  check' = [check EXCEPT
                       !.pc = IF wraps /\ OverflowChecks THEN "panicked" ELSE "wait",
                       !.counted = 0]
    /\ UNCHANGED <<workers, clock, pending, nextCheck>>

(***************************************************************************)
(* Time                                                                    *)
(***************************************************************************)

(* The clock advances unless the ticker is due or a pause would exceed MaxLag. *)
Tick ==
    /\ clock < MaxClock
    /\ check.pc = "wait" => clock < nextCheck
    /\ check.pc \in {"sweep", "count", "compare"} => clock < check.now + MaxLag
    /\ \A c \in DOMAIN pending : clock < pending[c].at + MaxLag
    /\ clock' = clock + 1
    /\ UNCHANGED <<workers, pending, nextCheck, check>>

Init ==
    /\ workers = [w \in {} |-> 0]
    /\ clock = 0
    /\ pending = [c \in {} |-> 0]
    /\ nextCheck = 0
    /\ check = [pc |-> "wait", now |-> 0, counted |-> 0]

Detect == CheckTick \/ Sweep \/ CountAll \/ CountHealthy

Next ==
    \/ \E c \in Callers, w \in Workers : RegisterStart(c, w)
    \/ \E c \in Callers : RegisterInsert(c)
    \/ \E w \in Workers, well \in BOOLEAN : UpdateHeartbeat(w, well)
    \/ \E w \in Workers : RemoveWorker(w)
    \/ Detect
    \/ Tick

Spec == Init /\ [][Next]_vars

(***************************************************************************)
(* Properties                                                              *)
(***************************************************************************)

(* While the detector's task lives, no worker is offered as healthy once the
   heartbeat on record is older than the timeout, one check interval and one
   pause: what the strict comparison in check_stale_workers and the 10 s
   ticker of FaultDetector::run add up to. *)
DetectionBound ==
    check.pc # "panicked" =>
        \A w \in HealthyWorkers :
            clock - workers[w].last <= Timeout + CheckInterval + MaxLag

(* register replaces an entry with a time read before the lock, so a heartbeat
   on record can be overwritten by an older one, but never by one more than
   MaxLag older. *)
HeartbeatBarelyRegresses ==
    [][\A w \in DOMAIN workers \cap DOMAIN workers' :
          workers'[w].last >= workers[w].last - MaxLag]_vars

(* The registry, seen as sightings of workers, does only what HeartbeatMonitor
   allows: a worker is suspected by its own report or for silence, and a sweep
   spares nobody that is late. *)
Sightings == [w \in DOMAIN workers |->
                [silence |-> clock - workers[w].last,
                 suspected |-> ~workers[w].healthy]]

Monitor == INSTANCE HeartbeatMonitor WITH
    MaxSilence <- MaxClock, view <- Sightings

ImplementsMonitor == Monitor!Spec

(* fault_tolerance.rs:41 "Log any unhealthy workers": the subtraction the log
   relies on is never negative. *)
UnhealthyCountDefined ==
    check.pc = "compare" => check.counted >= Cardinality(HealthyWorkers)

(***************************************************************************)
(* The inductive invariant behind DetectionBound                           *)
(***************************************************************************)

(* The scheduled time of the last sweep that has been carried out. *)
SweptAt == IF check.pc = "sweep" THEN nextCheck - 2 * CheckInterval
                                 ELSE nextCheck - CheckInterval

(* No time on record lies in the future, no pause exceeds MaxLag, and the
   detector is never later than its schedule. *)
OnSchedule ==
    /\ \A w \in DOMAIN workers : workers[w].last <= clock
    /\ \A c \in DOMAIN pending :
          pending[c].at <= clock /\ clock <= pending[c].at + MaxLag
    /\ check.pc = "wait" =>
          nextCheck - CheckInterval <= clock /\ clock <= nextCheck
    /\ check.pc \in {"sweep", "count", "compare"} =>
          /\ check.now = nextCheck - CheckInterval
          /\ check.now <= clock /\ clock <= check.now + MaxLag

(* A healthy worker's heartbeat was not stale at the last sweep. *)
SweptFresh ==
    check.pc # "panicked" =>
        \A w \in HealthyWorkers : workers[w].last >= SweptAt - Timeout

RegistryInv == TypeOK /\ OnSchedule /\ SweptFresh

=============================================================================

------------------------ MODULE WorkerRegistryProofs ------------------------
(***************************************************************************)
(* Proofs about WorkerRegistry, for every set of workers and callers and   *)
(* every Timeout, CheckInterval and MaxLag allowed by RegistryAssumption.  *)
(***************************************************************************)
EXTENDS WorkerRegistry, FiniteSetTheorems, TLAPS

-----------------------------------------------------------------------------
(* Partial functions *)

(* Membership in Maps, without the UNION: how every lemma uses it. *)
LEMMA MapsMember ==
    ASSUME NEW S, NEW T, NEW f
    PROVE  f \in Maps(S, T) <=> /\ f \in [DOMAIN f -> T]
                                /\ DOMAIN f \subseteq S
  BY DEF Maps

(* The number of registered workers is a natural number: they are finitely
   many. *)
LEMMA RegisteredFinite ==
    ASSUME TypeOK
    PROVE  Cardinality(DOMAIN workers) \in Nat
  <1>1. DOMAIN workers \subseteq Workers  BY MapsMember DEF TypeOK
  <1>2. IsFiniteSet(DOMAIN workers)  BY <1>1, RegistryAssumption, FS_Subset
  <1> QED  BY <1>2, FS_CardinalityType

-----------------------------------------------------------------------------
(* The type invariant *)

(* TypeOK with its two maps spelt out. *)
TypeParts ==
    /\ workers \in [DOMAIN workers -> WorkerEntry] /\ DOMAIN workers \subseteq Workers
    /\ pending \in [DOMAIN pending -> Registration] /\ DOMAIN pending \subseteq Callers
    /\ clock \in Time
    /\ nextCheck \in Nat
    /\ check \in [pc : CheckPc, now : Time, counted : Nat]

(* Every step keeps every variable in its type. *)
LEMMA TypeStep ==
    ASSUME TypeOK, [Next]_vars
    PROVE  TypeOK'
  <1> USE RegistryAssumption
  <1>a. TypeParts
    BY MapsMember DEF TypeOK, TypeParts
  <1> SUFFICES TypeParts'
    BY MapsMember DEF TypeOK, TypeParts
  <1>1. ASSUME NEW c \in Callers, NEW w \in Workers, RegisterStart(c, w)
        PROVE  TypeParts'
    BY <1>1, <1>a DEF RegisterStart, TypeParts, Registration
  <1>2. ASSUME NEW c \in Callers, RegisterInsert(c)
        PROVE  TypeParts'
    <2>1. pending[c].id \in Workers /\ pending[c].at \in Time
      BY <1>2, <1>a DEF RegisterInsert, TypeParts, Registration
    <2>2. workers' \in [DOMAIN workers' -> WorkerEntry] /\ DOMAIN workers' \subseteq Workers
      BY <1>2, <1>a, <2>1 DEF RegisterInsert, TypeParts, WorkerEntry
    <2>3. pending' \in [DOMAIN pending' -> Registration] /\ DOMAIN pending' \subseteq Callers
      BY <1>2, <1>a DEF RegisterInsert, TypeParts
    <2> QED  BY <1>2, <1>a, <2>2, <2>3 DEF RegisterInsert, TypeParts
  <1>3. ASSUME NEW w \in Workers, NEW well \in BOOLEAN, UpdateHeartbeat(w, well)
        PROVE  TypeParts'
    BY <1>3, <1>a DEF UpdateHeartbeat, TypeParts, WorkerEntry
  <1>4. ASSUME NEW w \in Workers, RemoveWorker(w)
        PROVE  TypeParts'
    BY <1>4, <1>a DEF RemoveWorker, TypeParts
  <1>5. CASE CheckTick
    <2>1. nextCheck' \in Nat
      BY <1>5, <1>a DEF CheckTick, TypeParts
    <2>2. check' \in [pc : CheckPc, now : Time, counted : Nat]
      BY <1>5, <1>a DEF CheckTick, TypeParts, CheckPc
    <2> QED  BY <1>5, <1>a, <2>1, <2>2 DEF CheckTick, TypeParts
  <1>6. CASE Sweep
    <2>1. ASSUME NEW w \in DOMAIN workers
          PROVE  [workers[w] EXCEPT !.healthy = FALSE] \in WorkerEntry
      BY <1>a DEF WorkerEntry, TypeParts
    <2>2. workers' \in [DOMAIN workers' -> WorkerEntry] /\ DOMAIN workers' \subseteq Workers
      BY <1>6, <1>a, <2>1 DEF Sweep, TypeParts
    <2>3. check' \in [pc : CheckPc, now : Time, counted : Nat]
      BY <1>6, <1>a DEF Sweep, TypeParts, CheckPc
    <2> QED  BY <1>6, <1>a, <2>2, <2>3 DEF Sweep, TypeParts
  <1>7. CASE CountAll
    BY <1>7, <1>a, RegisteredFinite DEF CountAll, TypeParts, CheckPc
  <1>8. CASE CountHealthy
    BY <1>8, <1>a DEF CountHealthy, TypeParts, CheckPc
  <1>9. CASE Tick
    BY <1>9, <1>a DEF Tick, TypeParts, Time
  <1>10. CASE UNCHANGED vars
    BY <1>10, <1>a DEF vars, TypeParts
  <1> QED
    BY <1>1, <1>2, <1>3, <1>4, <1>5, <1>6, <1>7, <1>8, <1>9, <1>10
       DEF Next, Detect

(* The registry, the calls in progress and the detector's task always have
   the types of registry.rs and fault_tolerance.rs. *)
THEOREM RegistryTypes == Spec => []TypeOK
  <1>1. Init => TypeParts
    BY RegistryAssumption DEF Init, TypeParts, CheckPc, Time
  <1>2. Init => TypeOK
    BY <1>1, MapsMember DEF TypeOK, TypeParts
  <1> QED  BY <1>2, TypeStep, PTL DEF Spec

-----------------------------------------------------------------------------
(* The detection bound *)

(* Removing entries or changing anything but an entry's time keeps the
   schedule; the steps that write a time write one that is not in the future. *)
LEMMA ScheduleStep ==
    ASSUME TypeOK, OnSchedule, [Next]_vars
    PROVE  OnSchedule'
  <1> USE RegistryAssumption DEF OnSchedule
  <1>a. TypeParts
    BY MapsMember DEF TypeOK, TypeParts
  <1>b. /\ clock \in Int /\ nextCheck \in Int /\ check.now \in Int
        /\ \A w \in DOMAIN workers : workers[w].last \in Int
        /\ \A c \in DOMAIN pending : pending[c].at \in Int
    BY <1>a DEF TypeParts, Time, WorkerEntry, Registration
  <1>1. ASSUME NEW c \in Callers, NEW w \in Workers, RegisterStart(c, w)
        PROVE  OnSchedule'
    BY <1>1, <1>b DEF RegisterStart
  <1>2. ASSUME NEW c \in Callers, RegisterInsert(c)
        PROVE  OnSchedule'
    BY <1>2, <1>b DEF RegisterInsert
  <1>3. ASSUME NEW w \in Workers, NEW well \in BOOLEAN, UpdateHeartbeat(w, well)
        PROVE  OnSchedule'
    BY <1>3, <1>a, <1>b DEF UpdateHeartbeat, TypeParts
  <1>4. ASSUME NEW w \in Workers, RemoveWorker(w)
        PROVE  OnSchedule'
    BY <1>4, <1>b DEF RemoveWorker
  <1>5. CASE CheckTick
    <2>1. clock = nextCheck
      BY <1>5, <1>b DEF CheckTick
    <2>2. check'.pc = "sweep" /\ check'.now = clock
      BY <1>5, <1>a DEF CheckTick, TypeParts
    <2> QED  BY <1>5, <1>b, <2>1, <2>2 DEF CheckTick
  <1>6. CASE Sweep
    <2>1. /\ DOMAIN workers' = DOMAIN workers
          /\ \A w \in DOMAIN workers : workers'[w].last = workers[w].last
      BY <1>6, <1>a DEF Sweep, TypeParts, WorkerEntry
    <2>2. check'.pc = "count" /\ check'.now = check.now /\ check.pc = "sweep"
      BY <1>6, <1>a DEF Sweep, TypeParts
    <2> QED  BY <1>6, <1>b, <2>1, <2>2 DEF Sweep
  <1>7. CASE CountAll
    <2>1. check'.pc = "compare" /\ check'.now = check.now /\ check.pc = "count"
      BY <1>7, <1>a DEF CountAll, TypeParts
    <2> QED  BY <1>7, <1>b, <2>1 DEF CountAll
  <1>8. CASE CountHealthy
    <2>1. /\ check'.pc \in {"wait", "panicked"} /\ check'.now = check.now
          /\ check.pc = "compare"
      BY <1>8, <1>a DEF CountHealthy, TypeParts
    <2>2. nextCheck - CheckInterval <= clock /\ clock <= nextCheck
      BY <1>b, <2>1
    <2> QED  BY <1>8, <1>b, <2>1, <2>2 DEF CountHealthy
  <1>9. CASE Tick
    BY <1>9, <1>a, <1>b DEF Tick, TypeParts, CheckPc
  <1>10. CASE UNCHANGED vars
    BY <1>10 DEF vars
  <1> QED
    BY <1>1, <1>2, <1>3, <1>4, <1>5, <1>6, <1>7, <1>8, <1>9, <1>10
       DEF Next, Detect

(* A healthy entry was fresh at the last sweep: a sweep leaves no other, and
   what is written since cannot be older, for MaxLag <= Timeout. *)
LEMMA FreshStep ==
    ASSUME TypeOK, OnSchedule, SweptFresh, [Next]_vars
    PROVE  SweptFresh'
  <1> USE RegistryAssumption DEF SweptFresh, HealthyWorkers, SweptAt
  <1>a. TypeParts
    BY MapsMember DEF TypeOK, TypeParts
  <1>b. /\ clock \in Int /\ nextCheck \in Int /\ check.now \in Int
        /\ \A w \in DOMAIN workers : workers[w].last \in Int
        /\ \A c \in DOMAIN pending : pending[c].at \in Int
    BY <1>a DEF TypeParts, Time, WorkerEntry, Registration
  <1>c. check.pc # "panicked" => SweptAt <= clock /\ SweptAt \in Int
    BY <1>a, <1>b DEF OnSchedule, TypeParts, CheckPc
  <1>1. ASSUME NEW c \in Callers, NEW w \in Workers, RegisterStart(c, w)
        PROVE  SweptFresh'
    BY <1>1 DEF RegisterStart
  <1>2. ASSUME NEW c \in Callers, RegisterInsert(c)
        PROVE  SweptFresh'
    <2>1. clock <= pending[c].at + MaxLag
      BY <1>2 DEF RegisterInsert, OnSchedule
    <2>2. check.pc # "panicked" => pending[c].at >= SweptAt - Timeout
      BY <1>2, <1>b, <1>c, <2>1 DEF RegisterInsert
    <2> QED  BY <1>2, <2>2 DEF RegisterInsert
  <1>3. ASSUME NEW w \in Workers, NEW well \in BOOLEAN, UpdateHeartbeat(w, well)
        PROVE  SweptFresh'
    <2>1. check.pc # "panicked" => clock >= SweptAt - Timeout
      BY <1>b, <1>c
    <2> QED  BY <1>3, <1>a, <2>1 DEF UpdateHeartbeat, TypeParts
  <1>4. ASSUME NEW w \in Workers, RemoveWorker(w)
        PROVE  SweptFresh'
    BY <1>4 DEF RemoveWorker
  <1>5. CASE CheckTick
    <2>1. check'.pc = "sweep" /\ check.pc = "wait"
      BY <1>5, <1>a DEF CheckTick, TypeParts
    <2>2. SweptAt' = SweptAt
      BY <1>5, <1>b, <2>1 DEF CheckTick
    <2> QED  BY <1>5, <2>1, <2>2 DEF CheckTick
  <1>6. CASE Sweep
    <2>1. check'.pc = "count" /\ check.now = nextCheck - CheckInterval
      BY <1>6, <1>a DEF Sweep, TypeParts, OnSchedule
    <2>2. ASSUME NEW w \in DOMAIN workers', workers'[w].healthy
          PROVE  workers'[w].last >= check.now - Timeout
      <3>1. w \in DOMAIN workers /\ workers[w] \in WorkerEntry
        BY <1>6, <1>a DEF Sweep, TypeParts
      <3>2. ~Stale(workers[w], check.now)
        BY <1>6, <2>2, <3>1 DEF Sweep, WorkerEntry
      <3>3. workers'[w].last = workers[w].last
        BY <1>6, <3>1, <3>2 DEF Sweep
      <3> QED  BY <1>b, <3>1, <3>2, <3>3 DEF Stale
    <2> QED  BY <1>6, <2>1, <2>2 DEF Sweep
  <1>7. CASE CountAll
    <2>1. check'.pc = "compare" /\ check.pc = "count"
      BY <1>7, <1>a DEF CountAll, TypeParts
    <2> QED  BY <1>7, <2>1 DEF CountAll
  <1>8. CASE CountHealthy
    <2>1. check'.pc \in {"wait", "panicked"} /\ check.pc = "compare"
      BY <1>8, <1>a DEF CountHealthy, TypeParts
    <2> QED  BY <1>8, <2>1 DEF CountHealthy
  <1>9. CASE Tick
    BY <1>9 DEF Tick
  <1>10. CASE UNCHANGED vars
    BY <1>10 DEF vars
  <1> QED
    BY <1>1, <1>2, <1>3, <1>4, <1>5, <1>6, <1>7, <1>8, <1>9, <1>10
       DEF Next, Detect

(* The invariant is inductive. *)
LEMMA RegistryInvariant == Spec => []RegistryInv
  <1>1. Init => RegistryInv
    <2> SUFFICES ASSUME Init PROVE RegistryInv
      OBVIOUS
    <2>1. TypeParts
      BY RegistryAssumption DEF Init, TypeParts, CheckPc, Time
    <2>2. TypeOK
      BY <2>1, MapsMember DEF TypeOK, TypeParts
    <2> QED
      BY <2>2, RegistryAssumption
         DEF Init, RegistryInv, OnSchedule, SweptFresh, HealthyWorkers, SweptAt
  <1>2. RegistryInv /\ [Next]_vars => RegistryInv'
    BY TypeStep, ScheduleStep, FreshStep DEF RegistryInv
  <1> QED  BY <1>1, <1>2, PTL DEF Spec

(* While the detector lives, a healthy worker was heard from at most
   Timeout + CheckInterval + MaxLag ago, for every choice of the three. *)
THEOREM DetectionIsBounded == Spec => []DetectionBound
  <1>1. RegistryInv => DetectionBound
    <2> SUFFICES ASSUME RegistryInv, check.pc # "panicked",
                        NEW w \in HealthyWorkers
                 PROVE  clock - workers[w].last <= Timeout + CheckInterval + MaxLag
      BY DEF DetectionBound
    <2>a. TypeParts
      BY MapsMember DEF RegistryInv, TypeOK, TypeParts
    <2>1. /\ clock \in Int /\ nextCheck \in Int /\ check.now \in Int
          /\ workers[w].last \in Int /\ check.pc \in CheckPc
      BY <2>a DEF TypeParts, HealthyWorkers, Time, WorkerEntry
    <2>2. workers[w].last >= SweptAt - Timeout
      BY DEF RegistryInv, SweptFresh
    <2>3. CASE check.pc = "wait"
      BY <2>1, <2>2, <2>3, RegistryAssumption DEF RegistryInv, OnSchedule, SweptAt
    <2>4. CASE check.pc \in {"sweep", "count", "compare"}
      BY <2>1, <2>2, <2>4, RegistryAssumption DEF RegistryInv, OnSchedule, SweptAt
    <2> QED  BY <2>1, <2>3, <2>4 DEF CheckPc
  <1> QED  BY <1>1, RegistryInvariant, PTL

(* A registration overwrites a later heartbeat by at most MaxLag, whatever
   the handlers that overlap. *)
THEOREM RegressIsBounded == Spec => HeartbeatBarelyRegresses
  <1> DEFINE Regress == \A w \in DOMAIN workers \cap DOMAIN workers' :
                          workers'[w].last >= workers[w].last - MaxLag
  <1>1. RegistryInv /\ [Next]_vars => [Regress]_vars
    <2> SUFFICES ASSUME RegistryInv, Next PROVE Regress
      OBVIOUS
    <2> USE RegistryAssumption
    <2>a. TypeParts
      BY MapsMember DEF RegistryInv, TypeOK, TypeParts
    <2>b. /\ clock \in Int
          /\ \A w \in DOMAIN workers : workers[w].last \in Int /\ workers[w].last <= clock
          /\ \A c \in DOMAIN pending : /\ pending[c].at \in Int
                                       /\ clock <= pending[c].at + MaxLag
      BY <2>a DEF TypeParts, Time, WorkerEntry, Registration, RegistryInv, OnSchedule
    <2>1. ASSUME UNCHANGED workers PROVE Regress
      BY <2>1, <2>b
    <2>2. ASSUME NEW c \in Callers, RegisterInsert(c) PROVE Regress
      BY <2>2, <2>b DEF RegisterInsert
    <2>3. ASSUME NEW w \in Workers, NEW well \in BOOLEAN, UpdateHeartbeat(w, well)
          PROVE  Regress
      BY <2>3, <2>a, <2>b DEF UpdateHeartbeat, TypeParts
    <2>4. ASSUME NEW w \in Workers, RemoveWorker(w) PROVE Regress
      BY <2>4, <2>b DEF RemoveWorker
    <2>5. ASSUME Sweep PROVE Regress
      BY <2>5, <2>a, <2>b DEF Sweep, TypeParts, WorkerEntry
    <2> HIDE DEF Regress
    <2> QED
      BY <2>1, <2>2, <2>3, <2>4, <2>5
         DEF Next, Detect, RegisterStart, CheckTick, CountAll, CountHealthy, Tick
  <1> QED  BY <1>1, RegistryInvariant, PTL DEF Spec, HeartbeatBarelyRegresses

-----------------------------------------------------------------------------
(* The registry implements HeartbeatMonitor *)

(* Every critical section of the lock is a step of the monitor or leaves what
   the monitor shows unchanged. *)
LEMMA MonitorStep ==
    ASSUME RegistryInv, [Next]_vars
    PROVE  [Monitor!Next]_Sightings
  <1> USE RegistryAssumption DEF Sightings
  <1>a. TypeParts
    BY MapsMember DEF RegistryInv, TypeOK, TypeParts
  <1>b. /\ clock \in Int /\ nextCheck \in Int /\ check.now \in Int
        /\ \A w \in DOMAIN workers : /\ workers[w].last \in Nat
                                     /\ workers[w].healthy \in BOOLEAN
                                     /\ workers[w].last <= clock
        /\ \A c \in DOMAIN pending : pending[c].at \in Int
    BY <1>a DEF TypeParts, Time, WorkerEntry, Registration, RegistryInv, OnSchedule
  <1>0. ASSUME UNCHANGED <<workers, clock>>
        PROVE  UNCHANGED Sightings
    BY <1>0
  <1>1. ASSUME NEW c \in Callers, RegisterInsert(c)
        PROVE  Monitor!Next
    <2> DEFINE lag == clock - pending[c].at
    <2>1. lag \in 0..MaxLag /\ pending[c].id \in Workers
      BY <1>1, <1>a, <1>b
         DEF RegisterInsert, RegistryInv, OnSchedule, TypeParts, Registration
    <2>2. Monitor!Hear(pending[c].id, lag, TRUE)
      BY <1>1, <1>b DEF RegisterInsert, Monitor!Hear
    <2> HIDE DEF lag
    <2> QED  BY <2>1, <2>2 DEF Monitor!Next
  <1>2. ASSUME NEW w \in Workers, NEW well \in BOOLEAN, UpdateHeartbeat(w, well)
        PROVE  Monitor!Next
    <2>1. Monitor!Hear(w, 0, well)
      <3>1. DOMAIN workers' = DOMAIN workers /\ w \in DOMAIN workers /\ clock' = clock
        BY <1>2, <1>a DEF UpdateHeartbeat, TypeParts
      <3>2. workers'[w].last = clock /\ workers'[w].healthy = well
        BY <1>2, <1>a DEF UpdateHeartbeat, TypeParts
      <3>3. \A v \in DOMAIN workers : v # w => workers'[v] = workers[v]
        BY <1>2, <1>a DEF UpdateHeartbeat, TypeParts
      <3>4. clock - clock = 0
        BY <1>b
      <3>5. DOMAIN Sightings \cup {w} = DOMAIN workers'
        BY <3>1
      <3> QED  BY <3>1, <3>2, <3>3, <3>4, <3>5, Zenon DEF Monitor!Hear
    <2>2. 0 \in 0..MaxLag
      OBVIOUS
    <2> QED  BY <2>1, <2>2 DEF Monitor!Next
  <1>3. ASSUME NEW w \in Workers, RemoveWorker(w)
        PROVE  Monitor!Next
    <2>1. Monitor!Forget({w})
      BY <1>3 DEF RemoveWorker, Monitor!Forget
    <2> QED  BY <2>1 DEF Monitor!Next
  <1>4. ASSUME Sweep
        PROVE  Monitor!Next
    <2>1. PICK lag \in 0..MaxLag : lag = clock - check.now
      BY <1>4, <1>b DEF Sweep, RegistryInv, OnSchedule
    <2>2. ASSUME NEW w \in DOMAIN workers
          PROVE  Sightings[w].silence > Timeout + lag <=> Stale(workers[w], check.now)
      BY <1>b, <2>1, <2>2 DEF Stale
    <2>3. ASSUME NEW w \in DOMAIN workers
          PROVE  Sightings'[w] = IF Stale(workers[w], check.now)
                                 THEN [Sightings[w] EXCEPT !.suspected = TRUE]
                                 ELSE Sightings[w]
      <3>1. /\ DOMAIN workers' = DOMAIN workers /\ clock' = clock
            /\ workers'[w].last = workers[w].last
            /\ workers'[w] = IF Stale(workers[w], check.now)
                             THEN [workers[w] EXCEPT !.healthy = FALSE]
                             ELSE workers[w]
        BY <1>4, <1>a DEF Sweep, TypeParts, WorkerEntry
      <3>2. CASE Stale(workers[w], check.now)
        <4>1. workers'[w].healthy = FALSE
          BY <3>1, <3>2, <1>a DEF TypeParts, WorkerEntry
        <4> QED  BY <3>1, <3>2, <4>1
      <3>3. CASE ~Stale(workers[w], check.now)
        BY <3>1, <3>3
      <3> QED  BY <3>2, <3>3
    <2>4. DOMAIN Sightings' = DOMAIN workers /\ DOMAIN Sightings = DOMAIN workers
      BY <1>4 DEF Sweep
    <2>5. Monitor!Suspect(lag)
      BY <2>2, <2>3, <2>4 DEF Monitor!Suspect
    <2> QED  BY <2>5 DEF Monitor!Next
  <1>5. ASSUME Tick
        PROVE  Monitor!Next
    <2>1. \A w \in DOMAIN workers :
             /\ clock - workers[w].last < MaxClock
             /\ clock' - workers[w].last = (clock - workers[w].last) + 1
      BY <1>5, <1>a, <1>b DEF Tick, TypeParts, Time
    <2>2. Monitor!Pass
      BY <1>5, <1>b, <2>1 DEF Tick, Monitor!Pass
    <2> QED  BY <2>2 DEF Monitor!Next
  <1> HIDE DEF Sightings
  <1>6. CASE UNCHANGED vars
    BY <1>0, <1>6 DEF vars
  <1> QED
    BY <1>0, <1>1, <1>2, <1>3, <1>4, <1>5, <1>6
       DEF Next, Detect, RegisterStart, CheckTick, CountAll, CountHealthy

(* The registry with its detector implements HeartbeatMonitor: suspicion
   comes from a worker's own report or from silence, and never for some of
   the silent workers only. *)
THEOREM RegistryImplementsMonitor == Spec => ImplementsMonitor
  <1>1. Init => Monitor!Init
    BY DEF Init, Monitor!Init, Sightings
  <1>2. RegistryInv /\ [Next]_vars => [Monitor!Next]_Sightings
    BY MonitorStep
  <1> QED
    BY <1>1, <1>2, RegistryInvariant, PTL DEF Spec, ImplementsMonitor, Monitor!Spec

=============================================================================

--------------------------- MODULE ClusterProofs ---------------------------
(***************************************************************************)
(* Proofs about Cluster, for every set of workers, every Timeout,          *)
(* CheckInterval and BeatInterval, and any number of crashes, broken calls *)
(* and requests that run late; and about Recovery, which adds the          *)
(* checkpoint file, for any number of tasks that save.                     *)
(***************************************************************************)
EXTENDS Recovery, TLAPS

-----------------------------------------------------------------------------
(* The type invariant *)

(* Membership in Maps, without the UNION. *)
LEMMA MapsMember ==
    ASSUME NEW S, NEW T, NEW f
    PROVE  f \in Maps(S, T) <=> /\ f \in [DOMAIN f -> T]
                                /\ DOMAIN f \subseteq S
  BY DEF Maps

(* The registry, as TypeOK says it with its map spelt out. *)
EntriesOK == entries \in [DOMAIN entries -> Entry] /\ DOMAIN entries \subseteq Workers

(* What is left of TypeOK. *)
RestOK ==
    /\ coord \in {"up", "down", "failed"}
    /\ sinceCheck \in 0..CheckInterval
    /\ late \subseteq Request
    /\ loop \in [Workers -> LoopState]
    /\ call \in [Workers -> CallState]
    /\ timer \in [Workers -> 0..MaxBacklog * BeatInterval]
    /\ starts \in [Workers -> 1..StartBurst]
    /\ stable \in BOOLEAN

(* Registering or hearing from a worker leaves a well-formed registry. *)
LEMMA RegistryCalls ==
    ASSUME EntriesOK, NEW w \in Workers
    PROVE  /\ Registered(w) \in [DOMAIN entries \cup {w} -> Entry]
           /\ w \in DOMAIN entries => Heard(w) \in [DOMAIN entries -> Entry]
  <1>1. [age |-> 0, healthy |-> TRUE] \in Entry
    BY ClusterAssumption DEF Entry
  <1> QED  BY <1>1 DEF EntriesOK, Registered, Heard

(* Every step keeps the registry well-formed. *)
LEMMA EntriesStep ==
    ASSUME EntriesOK, RestOK, [Next]_vars
    PROVE  EntriesOK'
  <1> USE ClusterAssumption
  <1>0. ASSUME UNCHANGED entries PROVE EntriesOK'
    BY <1>0 DEF EntriesOK
  <1>1. ASSUME NEW w \in Workers, entries' = Registered(w) PROVE EntriesOK'
    <2>1. DOMAIN entries' = DOMAIN entries \cup {w}
      BY <1>1 DEF Registered
    <2> QED  BY <1>1, <2>1, RegistryCalls DEF EntriesOK
  <1>2. ASSUME NEW w \in DOMAIN entries, entries' = Heard(w) PROVE EntriesOK'
    <2>1. DOMAIN entries' = DOMAIN entries
      BY <1>2 DEF Heard
    <2> QED  BY <1>2, <2>1, RegistryCalls DEF EntriesOK
  <1>3. ASSUME NEW m \in late, RunLate(m) PROVE EntriesOK'
    <2>1. m.from \in Workers
      BY <1>3 DEF RestOK, Request
    <2> QED  BY <1>0, <1>1, <1>2, <1>3, <2>1 DEF RunLate
  <1>4. ASSUME Sweep PROVE EntriesOK'
    BY <1>4 DEF Sweep, EntriesOK, Entry
  <1>5. ASSUME CoordCrash PROVE EntriesOK'
    BY <1>5 DEF CoordCrash, EntriesOK
  <1>6. ASSUME Tick PROVE EntriesOK'
    <2>1. ASSUME NEW w \in DOMAIN entries
          PROVE  [entries[w] EXCEPT !.age = IF @ < MaxAge THEN @ + 1 ELSE @] \in Entry
      BY DEF EntriesOK, Entry
    <2> QED  BY <1>6, <2>1 DEF Tick, EntriesOK
  <1>7. ASSUME NEW w \in Workers, Handle(w) PROVE EntriesOK'
    BY <1>0, <1>1, <1>2, <1>7
       DEF Handle, HandleRegister, HandleHeartbeat, RejectHeartbeat, coordVars
  <1>8. ASSUME NEW w \in Workers, Run(w) PROVE EntriesOK'
    BY <1>0, <1>8
       DEF Run, Start, GivesUp, Connect, ConnectFails, RegisterReturns, RegisterFails, Beat,
           BeatReturns, BeatFails, Reconnect, ReconnectFails, ReregisterReturns, coordVars
  <1>9. ASSUME NEW w \in Workers, BreakCall(w) \/ LoseReply(w) \/ WorkerCrash(w)
        PROVE  EntriesOK'
    BY <1>0, <1>9 DEF BreakCall, LoseReply, WorkerCrash, coordVars
  <1>10. ASSUME CoordRestart \/ CoordGivesUp \/ Stabilise \/ UNCHANGED vars PROVE EntriesOK'
    BY <1>0, <1>10 DEF CoordRestart, CoordGivesUp, Stabilise, coordVars, vars
  <1> QED
    BY <1>3, <1>4, <1>5, <1>6, <1>7, <1>8, <1>9, <1>10 DEF Next, Fault

(* A worker's step moves its program position, its call and its timer only to
   values they may have. *)
LEMMA GotoTypes ==
    ASSUME RestOK, NEW w \in Workers, NEW pos \in LoopState, NEW c \in CallState,
           Goto(w, pos, c)
    PROVE  loop' \in [Workers -> LoopState] /\ call' \in [Workers -> CallState]
  BY DEF RestOK, Goto

(* Every step keeps the processes, the calls and the network in their types. *)
LEMMA RestStep ==
    ASSUME RestOK, [Next]_vars
    PROVE  RestOK'
  <1> USE ClusterAssumption
  <1>0. MaxBacklog * BeatInterval \in Nat /\ MaxBacklog * BeatInterval >= BeatInterval
    OBVIOUS
  <1>1. ASSUME NEW w \in Workers, Handle(w) PROVE RestOK'
    BY <1>1 DEF Handle, HandleRegister, HandleHeartbeat, RejectHeartbeat, coordVars,
                RestOK, CallState
  <1>2. ASSUME NEW w \in Workers, Run(w) PROVE RestOK'
    <2>1. UNCHANGED <<coord, sinceCheck, late, stable>>
      BY <1>2
         DEF Run, Start, GivesUp, Connect, ConnectFails, RegisterReturns, RegisterFails, Beat,
             BeatReturns, BeatFails, Reconnect, ReconnectFails, ReregisterReturns, coordVars
    <2>2. \E pos \in LoopState, c \in CallState : Goto(w, pos, c)
      BY <1>2
         DEF Run, Start, GivesUp, Connect, ConnectFails, RegisterReturns, RegisterFails, Beat,
             BeatReturns, BeatFails, Reconnect, ReconnectFails, ReregisterReturns,
             LoopState, CallState, Sent
    <2>3. loop' \in [Workers -> LoopState] /\ call' \in [Workers -> CallState]
      BY <2>2, GotoTypes
    <2>4. timer' \in [Workers -> 0..MaxBacklog * BeatInterval]
      <3>1. CASE RegisterReturns(w)
        BY <1>0, <3>1 DEF RegisterReturns, RestOK
      <3>2. CASE Beat(w)
        BY <1>0, <3>2 DEF Beat, RestOK
      <3>3. CASE UNCHANGED timer
        BY <3>3 DEF RestOK
      <3> QED
        BY <1>2, <3>1, <3>2, <3>3
           DEF Run, Start, GivesUp, Connect, ConnectFails, RegisterFails, BeatReturns,
               BeatFails, Reconnect, ReconnectFails, ReregisterReturns
    <2>5. starts' \in [Workers -> 1..StartBurst]
      <3>1. CASE Start(w)
        BY <3>1 DEF Start, CountStart, RestOK
      <3>2. CASE UNCHANGED starts
        BY <3>2 DEF RestOK
      <3> QED
        BY <1>2, <3>1, <3>2
           DEF Run, GivesUp, Connect, ConnectFails, RegisterReturns, RegisterFails, Beat,
               BeatReturns, BeatFails, Reconnect, ReconnectFails, ReregisterReturns
    <2> QED  BY <2>1, <2>3, <2>4, <2>5 DEF RestOK
  <1>3. ASSUME NEW m \in late, RunLate(m) PROVE RestOK'
    BY <1>3 DEF RunLate, RestOK, workerVars
  <1>4. ASSUME Sweep \/ CoordRestart \/ CoordGivesUp \/ Stabilise \/ UNCHANGED vars PROVE RestOK'
    <2>1. CASE Sweep
      BY <2>1 DEF Sweep, RestOK, workerVars
    <2>2. CASE CoordRestart \/ CoordGivesUp
      BY <2>2 DEF CoordRestart, CoordGivesUp, RestOK, workerVars
    <2>3. CASE Stabilise
      BY <2>3 DEF Stabilise, RestOK, coordVars, workerVars
    <2>4. CASE UNCHANGED vars
      BY <2>4 DEF RestOK, vars
    <2> QED  BY <1>4, <2>1, <2>2, <2>3, <2>4
  <1>5. ASSUME NEW w \in Workers PROVE Outstanding(w) \in Request
    BY DEF Outstanding, Request
  <1>6. ASSUME NEW w \in Workers, BreakCall(w) \/ LoseReply(w) \/ WorkerCrash(w)
        PROVE  RestOK'
    <2>1. CASE BreakCall(w)
      BY <1>5, <2>1 DEF BreakCall, LostOrLate, RestOK, CallState
    <2>2. CASE LoseReply(w)
      BY <2>2 DEF LoseReply, RestOK, CallState, coordVars
    <2>3. CASE WorkerCrash(w)
      <3>1. loop' \in [Workers -> LoopState] /\ call' \in [Workers -> CallState]
        BY <2>3, GotoTypes DEF WorkerCrash, LoopState, CallState
      <3>2. late' \subseteq Request
        BY <1>5, <2>3 DEF WorkerCrash, LostOrLate, RestOK
      <3>3. timer' \in [Workers -> 0..MaxBacklog * BeatInterval]
        BY <1>0, <2>3 DEF WorkerCrash, RestOK
      <3> QED  BY <2>3, <3>1, <3>2, <3>3 DEF WorkerCrash, RestOK
    <2> QED  BY <1>6, <2>1, <2>2, <2>3
  <1>7. ASSUME CoordCrash PROVE RestOK'
    BY <1>7 DEF CoordCrash, RestOK, CallState
  <1>8. ASSUME Tick PROVE RestOK'
    <2>1. timer' \in [Workers -> 0..MaxBacklog * BeatInterval]
      BY <1>0, <1>8 DEF Tick, RestOK
    <2>2. sinceCheck' \in 0..CheckInterval
      BY <1>8 DEF Tick, RestOK
    <2> QED  BY <1>8, <2>1, <2>2 DEF Tick, RestOK
  <1> QED
    BY <1>1, <1>2, <1>3, <1>4, <1>6, <1>7, <1>8 DEF Next, Fault

(* The initial state is well-formed. *)
LEMMA InitTypes ==
    ASSUME Init
    PROVE  EntriesOK /\ RestOK
  <1>1. MaxBacklog * BeatInterval \in Nat
    BY ClusterAssumption
  <1>2. timer \in [Workers -> 0..MaxBacklog * BeatInterval]
    BY <1>1 DEF Init
  <1>3. sinceCheck \in 0..CheckInterval
    BY ClusterAssumption DEF Init
  <1>4. EntriesOK
    BY DEF Init, EntriesOK
  <1>5. starts \in [Workers -> 1..StartBurst]
    BY ClusterAssumption DEF Init
  <1> QED  BY <1>2, <1>3, <1>4, <1>5 DEF Init, RestOK, LoopState, CallState

(* Processes, requests and registry entries always have the types of
   worker.rs, coordinator.rs and registry.rs. *)
THEOREM ClusterTypes == Spec => []TypeOK
  <1> DEFINE Typed == EntriesOK /\ RestOK
  <1>1. Init => Typed
    BY InitTypes
  <1>2. Typed /\ [Next]_vars => Typed'
    BY EntriesStep, RestStep
  <1>3. Typed => TypeOK
    BY MapsMember DEF TypeOK, EntriesOK, RestOK
  <1> QED  BY <1>1, <1>2, <1>3, PTL DEF Spec

-----------------------------------------------------------------------------
(* The detection bound *)

(* The registry is empty while there is no process to hold it. *)
LEMMA InMemoryStep ==
    ASSUME EntriesOK, RestOK, RegistryInMemory, [Next]_vars
    PROVE  RegistryInMemory'
  <1> USE DEF RegistryInMemory
  <1>1. ASSUME coord' = "up" PROVE RegistryInMemory'
    BY <1>1
  <1>2. ASSUME coord' = coord, DOMAIN entries' = DOMAIN entries PROVE RegistryInMemory'
    BY <1>2
  <1>3. ASSUME NEW w \in Workers, Handle(w) PROVE RegistryInMemory'
    BY <1>1, <1>3 DEF Handle, HandleRegister, HandleHeartbeat, RejectHeartbeat, coordVars
  <1>4. ASSUME NEW w \in Workers, Run(w) PROVE RegistryInMemory'
    BY <1>2, <1>4
       DEF Run, Start, GivesUp, Connect, ConnectFails, RegisterReturns, RegisterFails, Beat,
           BeatReturns, BeatFails, Reconnect, ReconnectFails, ReregisterReturns, coordVars
  <1>5. ASSUME NEW m \in late, RunLate(m) PROVE RegistryInMemory'
    BY <1>1, <1>5 DEF RunLate
  <1>6. ASSUME Sweep \/ CoordRestart \/ CoordGivesUp PROVE RegistryInMemory'
    BY <1>1, <1>6 DEF Sweep, CoordRestart, CoordGivesUp
  <1>7. ASSUME NEW w \in Workers, BreakCall(w) \/ LoseReply(w) \/ WorkerCrash(w)
        PROVE  RegistryInMemory'
    BY <1>2, <1>7 DEF BreakCall, LoseReply, WorkerCrash, coordVars
  <1>8. ASSUME CoordCrash PROVE RegistryInMemory'
    BY <1>8 DEF CoordCrash
  <1>9. ASSUME Tick \/ Stabilise \/ UNCHANGED vars PROVE RegistryInMemory'
    BY <1>2, <1>9 DEF Tick, Stabilise, coordVars, vars
  <1> QED
    BY <1>3, <1>4, <1>5, <1>6, <1>7, <1>8, <1>9 DEF Next, Fault

(* Between two sweeps an entry and the detector's ticker age together; every
   other step writes age 0 or keeps the ages. *)
LEMMA FreshStep ==
    ASSUME EntriesOK, RestOK, RegistryInMemory, SweptFresh, [Next]_vars
    PROVE  SweptFresh'
  <1> USE ClusterAssumption DEF SweptFresh, HealthyWorkers
  <1>a. /\ sinceCheck \in Nat
        /\ \A w \in DOMAIN entries :
              entries[w].age \in Nat /\ entries[w].healthy \in BOOLEAN
    BY DEF EntriesOK, RestOK, Entry
  <1>0. ASSUME UNCHANGED <<entries, sinceCheck>> PROVE SweptFresh'
    BY <1>0
  <1>1. ASSUME NEW w \in Workers, entries' = Registered(w), UNCHANGED sinceCheck
        PROVE  SweptFresh'
    BY <1>a, <1>1 DEF Registered
  <1>2. ASSUME NEW w \in DOMAIN entries, entries' = Heard(w), UNCHANGED sinceCheck
        PROVE  SweptFresh'
    <2>1. /\ DOMAIN entries' = DOMAIN entries
          /\ entries'[w].age = 0
          /\ \A v \in DOMAIN entries : v # w => entries'[v] = entries[v]
      BY <1>2 DEF Heard, EntriesOK
    <2> QED  BY <1>a, <1>2, <2>1
  <1>3. ASSUME NEW w \in Workers, Handle(w) PROVE SweptFresh'
    BY <1>0, <1>1, <1>2, <1>3
       DEF Handle, HandleRegister, HandleHeartbeat, RejectHeartbeat, coordVars
  <1>4. ASSUME NEW w \in Workers, Run(w) PROVE SweptFresh'
    BY <1>0, <1>4
       DEF Run, Start, GivesUp, Connect, ConnectFails, RegisterReturns, RegisterFails, Beat,
           BeatReturns, BeatFails, Reconnect, ReconnectFails, ReregisterReturns, coordVars
  <1>5. ASSUME NEW m \in late, RunLate(m) PROVE SweptFresh'
    <2>1. m.from \in Workers
      BY <1>5 DEF RestOK, Request
    <2> QED  BY <1>0, <1>1, <1>2, <1>5, <2>1 DEF RunLate
  <1>6. ASSUME Sweep PROVE SweptFresh'
    <2>1. ASSUME NEW w \in DOMAIN entries', entries'[w].healthy
          PROVE  entries'[w].age <= Timeout
      <3>1. w \in DOMAIN entries
        BY <1>6 DEF Sweep
      <3>2. entries[w].age <= Timeout
        BY <1>6, <1>a, <2>1, <3>1 DEF Sweep, EntriesOK, Entry
      <3> QED  BY <1>6, <1>a, <3>1, <3>2 DEF Sweep
    <2> QED  BY <1>6, <2>1 DEF Sweep
  <1>7. ASSUME CoordRestart \/ CoordGivesUp \/ Stabilise \/ UNCHANGED vars PROVE SweptFresh'
    BY <1>0, <1>7 DEF CoordRestart, CoordGivesUp, Stabilise, coordVars, vars
  <1>8. ASSUME NEW w \in Workers, BreakCall(w) \/ LoseReply(w) \/ WorkerCrash(w)
        PROVE  SweptFresh'
    BY <1>0, <1>8 DEF BreakCall, LoseReply, WorkerCrash, coordVars
  <1>9. ASSUME CoordCrash PROVE SweptFresh'
    BY <1>9 DEF CoordCrash
  <1>10. ASSUME Tick, DetectorAttached PROVE SweptFresh'
    <2>1. CASE coord # "up"
      BY <1>10, <2>1 DEF Tick, RegistryInMemory
    <2>2. CASE coord = "up"
      <3>1. sinceCheck' = sinceCheck + 1
        BY <1>10, <2>2 DEF Tick
      <3>2. ASSUME NEW w \in DOMAIN entries
            PROVE  /\ entries'[w].age <= entries[w].age + 1
                   /\ entries'[w].healthy = entries[w].healthy
        BY <1>10, <1>a, <3>2 DEF Tick, EntriesOK, Entry
      <3>3. DOMAIN entries' = DOMAIN entries
        BY <1>10 DEF Tick
      <3>4. ASSUME NEW w \in DOMAIN entries', entries'[w].healthy
            PROVE  entries'[w].age <= Timeout + sinceCheck'
        <4>1. entries'[w].age \in Nat
          BY EntriesStep, <3>4 DEF EntriesOK, Entry
        <4>2. entries[w].age <= Timeout + sinceCheck
          BY <1>10, <3>2, <3>3, <3>4
        <4> QED  BY <1>a, <3>1, <3>2, <3>3, <4>1, <4>2
      <3> QED  BY <3>4
    <2> QED  BY <2>1, <2>2 DEF RestOK
  <1>11. ASSUME Tick, ~DetectorAttached PROVE SweptFresh'
    BY <1>11
  <1> QED
    BY <1>3, <1>4, <1>5, <1>6, <1>7, <1>8, <1>9, <1>10, <1>11 DEF Next, Fault

(* Whatever crashes, breaks or runs late, no healthy worker has been silent
   for longer than Timeout + CheckInterval. *)
THEOREM ClusterDetects == Spec => []DetectionBound
  <1> DEFINE Inv == EntriesOK /\ RestOK /\ RegistryInMemory /\ SweptFresh
  <1>1. Init => Inv
    BY InitTypes DEF Init, RegistryInMemory, SweptFresh, HealthyWorkers
  <1>2. Inv /\ [Next]_vars => Inv'
    BY EntriesStep, RestStep, InMemoryStep, FreshStep
  <1>3. Inv => DetectionBound
    <2> SUFFICES ASSUME Inv, DetectorAttached, NEW w \in HealthyWorkers
                 PROVE  entries[w].age <= Timeout + CheckInterval
      BY DEF DetectionBound
    <2>1. /\ entries[w].age \in Nat /\ sinceCheck \in Nat
          /\ sinceCheck <= CheckInterval
      BY ClusterAssumption DEF HealthyWorkers, EntriesOK, RestOK, Entry
    <2>2. entries[w].age <= Timeout + sinceCheck
      BY DEF SweptFresh
    <2> QED  BY <2>1, <2>2, ClusterAssumption
  <1> QED  BY <1>1, <1>2, <1>3, PTL DEF Spec

-----------------------------------------------------------------------------
(* The dead *)

(* A worker that has crashed or been given up, and has no request left in the
   network, is made healthy by nobody. *)
THEOREM DeadAreNotRevived == Spec => DeadStaySuspected
  <1> DEFINE Typed == EntriesOK /\ RestOK
             Quiet(w) == /\ w \in Dead /\ w \notin HealthyWorkers
                         /\ \A m \in late : m.from # w
             Step == \A w \in Workers : Quiet(w) => w \notin HealthyWorkers'
  <1>1. Init => Typed
    BY InitTypes
  <1>2. Typed /\ [Next]_vars => Typed'
    BY EntriesStep, RestStep
  <1>3. Typed /\ [Next]_vars => [Step]_vars
    <2> SUFFICES ASSUME Typed, Next, NEW w \in Workers, Quiet(w)
                 PROVE  w \notin HealthyWorkers'
      OBVIOUS
    <2> USE DEF HealthyWorkers
    <2>0. ASSUME UNCHANGED entries PROVE w \notin HealthyWorkers'
      BY <2>0
    <2>1. ASSUME NEW v \in Workers, v # w, entries' = Registered(v)
          PROVE  w \notin HealthyWorkers'
      BY <2>1 DEF Registered
    <2>2. ASSUME NEW v \in DOMAIN entries, v # w, entries' = Heard(v)
          PROVE  w \notin HealthyWorkers'
      BY <2>2 DEF Heard
    <2>3. ASSUME NEW v \in Workers, Handle(v) PROVE w \notin HealthyWorkers'
      BY <2>0, <2>1, <2>2, <2>3
         DEF Handle, HandleRegister, HandleHeartbeat, RejectHeartbeat, coordVars, Dead
    <2>4. ASSUME NEW v \in Workers, Run(v) PROVE w \notin HealthyWorkers'
      BY <2>0, <2>4
         DEF Run, Start, GivesUp, Connect, ConnectFails, RegisterReturns, RegisterFails, Beat,
             BeatReturns, BeatFails, Reconnect, ReconnectFails, ReregisterReturns, coordVars
    <2>5. ASSUME NEW m \in late, RunLate(m) PROVE w \notin HealthyWorkers'
      <3>1. m.from \in Workers /\ m.from # w
        BY <2>5 DEF RestOK, Request
      <3> QED  BY <2>0, <2>1, <2>2, <2>5, <3>1 DEF RunLate
    <2>6. ASSUME Sweep PROVE w \notin HealthyWorkers'
      BY <2>6 DEF Sweep, EntriesOK, Entry
    <2>7. ASSUME NEW v \in Workers, BreakCall(v) \/ LoseReply(v) \/ WorkerCrash(v)
          PROVE  w \notin HealthyWorkers'
      BY <2>0, <2>7 DEF BreakCall, LoseReply, WorkerCrash, coordVars
    <2>8. ASSUME CoordCrash PROVE w \notin HealthyWorkers'
      BY <2>8 DEF CoordCrash
    <2>9. ASSUME Tick PROVE w \notin HealthyWorkers'
      BY <2>9 DEF Tick, EntriesOK, Entry
    <2>10. ASSUME CoordRestart \/ CoordGivesUp \/ Stabilise PROVE w \notin HealthyWorkers'
      BY <2>0, <2>10 DEF CoordRestart, CoordGivesUp, Stabilise, coordVars
    <2> QED
      BY <2>3, <2>4, <2>5, <2>6, <2>7, <2>8, <2>9, <2>10 DEF Next, Fault
  <1> QED  BY <1>1, <1>2, <1>3, PTL DEF Spec, DeadStaySuspected

-----------------------------------------------------------------------------
(* The coordinator as it is served *)

(* Without a detector nothing but an entry's own worker writes `healthy`, and it
   only ever writes TRUE; nobody but a crash takes an entry away. *)
LEMMA AsServedStep ==
    ASSUME EntriesOK, RestOK, ~DetectorAttached, HealthyWorkers = DOMAIN entries, Next
    PROVE  /\ (HealthyWorkers = DOMAIN entries)'
           /\ coord' = "up" => DOMAIN entries \subseteq DOMAIN entries'
  <1> DEFINE Goal == /\ (HealthyWorkers = DOMAIN entries)'
                     /\ coord' = "up" => DOMAIN entries \subseteq DOMAIN entries'
  <1> USE DEF HealthyWorkers
  <1>0. ASSUME UNCHANGED entries PROVE Goal
    BY <1>0
  <1>1. ASSUME NEW w \in Workers, entries' = Registered(w) PROVE Goal
    BY <1>1 DEF Registered
  <1>2. ASSUME NEW w \in DOMAIN entries, entries' = Heard(w) PROVE Goal
    BY <1>2 DEF Heard
  <1>3. ASSUME NEW w \in Workers, Handle(w) PROVE Goal
    BY <1>0, <1>1, <1>2, <1>3
       DEF Handle, HandleRegister, HandleHeartbeat, RejectHeartbeat, coordVars
  <1>4. ASSUME NEW w \in Workers, Run(w) PROVE Goal
    BY <1>0, <1>4
       DEF Run, Start, GivesUp, Connect, ConnectFails, RegisterReturns, RegisterFails, Beat,
           BeatReturns, BeatFails, Reconnect, ReconnectFails, ReregisterReturns, coordVars
  <1>5. ASSUME NEW m \in late, RunLate(m) PROVE Goal
    <2>1. m.from \in Workers
      BY <1>5 DEF RestOK, Request
    <2> QED  BY <1>0, <1>1, <1>2, <1>5, <2>1 DEF RunLate
  <1>6. ~Sweep
    BY DEF Sweep
  <1>7. ASSUME NEW w \in Workers, BreakCall(w) \/ LoseReply(w) \/ WorkerCrash(w) PROVE Goal
    BY <1>0, <1>7 DEF BreakCall, LoseReply, WorkerCrash, coordVars
  <1>8. ASSUME CoordCrash PROVE Goal
    BY <1>8 DEF CoordCrash
  <1>9. ASSUME Tick PROVE Goal
    <2>1. DOMAIN entries' = DOMAIN entries
      BY <1>9 DEF Tick
    <2>2. \A w \in DOMAIN entries : entries[w] \in Entry
      BY DEF EntriesOK
    <2>3. \A w \in DOMAIN entries : entries'[w].healthy = entries[w].healthy
      BY <1>9, <2>2 DEF Tick, Entry
    <2> QED  BY <2>1, <2>3
  <1>10. ASSUME CoordRestart \/ CoordGivesUp \/ Stabilise PROVE Goal
    BY <1>0, <1>10 DEF CoordRestart, CoordGivesUp, Stabilise, coordVars
  <1> QED
    BY <1>3, <1>4, <1>5, <1>6, <1>7, <1>8, <1>9, <1>10 DEF Next, Fault

(* Why a dead worker is never detected (run cluster_as_served), and not a matter
   of its instance: as served, every worker that has ever registered with this
   process of the coordinator is offered as healthy until the process ends. *)
THEOREM AsServedAllAreHealthy == Spec => AsServedNobodyIsSuspected
  <1> DEFINE Typed == EntriesOK /\ RestOK
             AllHealthy == ~DetectorAttached => HealthyWorkers = DOMAIN entries
             Step == ~DetectorAttached /\ coord' = "up" =>
                         DOMAIN entries \subseteq DOMAIN entries'
  <1>1. Init => Typed /\ AllHealthy
    BY InitTypes DEF Init, HealthyWorkers
  <1>2. Typed /\ [Next]_vars => Typed'
    BY EntriesStep, RestStep
  <1>3. Typed /\ AllHealthy /\ [Next]_vars => AllHealthy' /\ [Step]_vars
    <2>1. CASE UNCHANGED vars
      BY <2>1 DEF vars, HealthyWorkers
    <2> QED  BY <2>1, AsServedStep
  <1> QED  BY <1>1, <1>2, <1>3, PTL DEF Spec, AsServedNobodyIsSuspected

-----------------------------------------------------------------------------
(* The abstract monitor *)

(* Every step of the cluster is a step of the monitor or leaves what the
   monitor shows unchanged. *)
LEMMA MonitorStep ==
    ASSUME EntriesOK, RestOK, [Next]_vars
    PROVE  [Monitor!Next]_Sightings
  <1> USE DEF Sightings
  <1>a. DOMAIN Sightings = DOMAIN entries /\ DOMAIN Sightings' = DOMAIN entries'
    OBVIOUS
  <1>b. 0 \in 0..0
    OBVIOUS
  <1>0. ASSUME UNCHANGED entries PROVE UNCHANGED Sightings
    BY <1>0
  <1>1. ASSUME NEW w \in Workers, entries' = Registered(w) PROVE Monitor!Next
    <2>1. Monitor!Hear(w, 0, TRUE)
      BY <1>1 DEF Registered, Monitor!Hear
    <2> QED  BY <1>b, <2>1, Zenon DEF Monitor!Next
  <1>2. ASSUME NEW w \in DOMAIN entries, entries' = Heard(w) PROVE Monitor!Next
    <2>1. Monitor!Hear(w, 0, TRUE)
      BY <1>2 DEF Heard, Monitor!Hear, EntriesOK
    <2>2. w \in Workers
      BY DEF EntriesOK
    <2> QED  BY <1>b, <2>1, <2>2, Zenon DEF Monitor!Next
  <1>3. ASSUME Sweep PROVE Monitor!Next
    <2>1. DOMAIN entries' = DOMAIN entries
      BY <1>3 DEF Sweep
    <2>2. ASSUME NEW w \in DOMAIN entries
          PROVE  Sightings'[w] = IF Sightings[w].silence > Timeout + 0
                                 THEN [Sightings[w] EXCEPT !.suspected = TRUE]
                                 ELSE Sightings[w]
      <3>1. entries[w] \in Entry /\ Timeout + 0 = Timeout
        BY ClusterAssumption DEF EntriesOK
      <3> QED  BY <1>3, <2>1, <3>1 DEF Sweep, Entry
    <2>3. Monitor!Suspect(0)
      BY <1>a, <2>1, <2>2 DEF Monitor!Suspect
    <2> QED  BY <2>3 DEF Monitor!Next
  <1>4. ASSUME CoordCrash PROVE Monitor!Next
    <2>1. DOMAIN entries \subseteq Workers
      BY DEF EntriesOK
    <2>2. Monitor!Forget(Workers)
      BY <1>4, <2>1 DEF CoordCrash, Monitor!Forget
    <2> QED  BY <2>2 DEF Monitor!Next
  <1>5. ASSUME Tick PROVE Monitor!Next
    <2>1. DOMAIN entries' = DOMAIN entries
      BY <1>5 DEF Tick
    <2>2. ASSUME NEW w \in DOMAIN entries
          PROVE  Sightings'[w] = [Sightings[w] EXCEPT !.silence =
                                    IF @ < MaxAge THEN @ + 1 ELSE @]
      <3>1. entries[w] \in Entry
        BY DEF EntriesOK
      <3> QED  BY <1>5, <2>1, <3>1 DEF Tick, Entry
    <2>3. Monitor!Pass
      BY <1>a, <2>1, <2>2 DEF Monitor!Pass
    <2> QED  BY <2>3 DEF Monitor!Next
  <1> HIDE DEF Sightings
  <1>6. ASSUME NEW w \in Workers, Handle(w) PROVE [Monitor!Next]_Sightings
    BY <1>0, <1>1, <1>2, <1>6
       DEF Handle, HandleRegister, HandleHeartbeat, RejectHeartbeat, coordVars
  <1>7. ASSUME NEW w \in Workers, Run(w) PROVE UNCHANGED Sightings
    BY <1>0, <1>7
       DEF Run, Start, GivesUp, Connect, ConnectFails, RegisterReturns, RegisterFails, Beat,
           BeatReturns, BeatFails, Reconnect, ReconnectFails, ReregisterReturns, coordVars
  <1>8. ASSUME NEW m \in late, RunLate(m) PROVE [Monitor!Next]_Sightings
    <2>1. m.from \in Workers
      BY <1>8 DEF RestOK, Request
    <2> QED  BY <1>0, <1>1, <1>2, <1>8, <2>1 DEF RunLate
  <1>9. ASSUME NEW w \in Workers, BreakCall(w) \/ LoseReply(w) \/ WorkerCrash(w)
        PROVE  UNCHANGED Sightings
    BY <1>0, <1>9 DEF BreakCall, LoseReply, WorkerCrash, coordVars
  <1>10. ASSUME CoordRestart \/ CoordGivesUp \/ Stabilise \/ UNCHANGED vars PROVE UNCHANGED Sightings
    BY <1>0, <1>10 DEF CoordRestart, CoordGivesUp, Stabilise, coordVars, vars
  <1> QED
    BY <1>3, <1>4, <1>5, <1>6, <1>7, <1>8, <1>9, <1>10 DEF Next, Fault

(* The coordinator's view of its workers implements HeartbeatMonitor through
   all crashes, restarts and late requests: a worker is suspected for silence
   only, and never just some of the silent ones. *)
THEOREM ClusterImplementsMonitor == Spec => ImplementsMonitor
  <1> DEFINE Typed == EntriesOK /\ RestOK
  <1>1. Init => Typed /\ Monitor!Init
    BY InitTypes DEF Init, Monitor!Init, Sightings
  <1>2. Typed /\ [Next]_vars => Typed'
    BY EntriesStep, RestStep
  <1>3. Typed /\ [Next]_vars => [Monitor!Next]_Sightings
    BY MonitorStep
  <1> QED  BY <1>1, <1>2, <1>3, PTL DEF Spec, ImplementsMonitor, Monitor!Spec

-----------------------------------------------------------------------------
(* The checkpoint file *)

(* Saving takes nothing from the cluster: whatever holds of Cluster holds with
   the checkpoint as well. *)
THEOREM RecoveryIsCluster == RecoverySpec => Spec
  <1>1. RecoveryInit => Init
    BY DEF RecoveryInit
  <1>2. [RecoveryNext]_recoveryVars => [Next]_vars
    BY DEF RecoveryNext, recoveryVars
  <1> QED  BY <1>1, <1>2, PTL DEF RecoverySpec, Spec

(* A save that has met no other is the only one under way, and the file it
   opened is still empty. *)
Alone(s) ==
    saving[s] # Nothing /\ s \notin crossed =>
        /\ file = Empty
        /\ \A t \in Savers : t # s => saving[t] = Nothing

CheckpointInv ==
    /\ CheckpointTypeOK
    /\ SavedIsLoadable
    /\ \A s \in Savers : Alone(s)

(* Opening, writing, failing and being killed keep the file loadable for the
   save that has ended alone. *)
LEMMA CheckpointStep ==
    ASSUME CheckpointInv, Save \/ Killed \/ UNCHANGED checkpointVars
    PROVE  CheckpointInv'
  <1> USE CheckpointAssumption
      DEF CheckpointInv, CheckpointTypeOK, SavedIsLoadable, Alone, Loaded, Empty
  <1>1. ASSUME NEW s \in Savers, NEW v \in States, SaveOpens(s, v)
        PROVE  CheckpointInv'
    BY <1>1 DEF SaveOpens, Saving
  <1>2. ASSUME NEW s \in Savers, SaveWrites(s)
        PROVE  CheckpointInv'
    <2> DEFINE v == saving[s]
    <2>1. v \in States /\ Size[v] \in Nat \ {0} /\ file.length \in Nat
      BY <1>2 DEF SaveWrites
    <2>2. Max({file.length, Size[v]}) \in {file.length, Size[v]}
      BY <2>1 DEF Max
    <2>3. file.length = 0 => Max({file.length, Size[v]}) = Size[v]
      BY <2>1 DEF Max
    <2>4. CheckpointTypeOK'
      BY <1>2, <2>1, <2>2 DEF SaveWrites
    <2>5. s \notin crossed => file.length = 0
      BY <1>2 DEF SaveWrites
    <2>6. SavedIsLoadable'
      BY <1>2, <2>1, <2>3, <2>5 DEF SaveWrites
    <2>7. ASSUME NEW t \in Savers PROVE Alone(t)'
      BY <1>2, <2>7 DEF SaveWrites
    <2> QED  BY <2>4, <2>6, <2>7
  <1>3. ASSUME NEW s \in Savers, SaveFails(s)
        PROVE  CheckpointInv'
    BY <1>3 DEF SaveFails
  <1>4. ASSUME Killed PROVE CheckpointInv'
    BY <1>4 DEF Killed
  <1>5. ASSUME UNCHANGED checkpointVars PROVE CheckpointInv'
    BY <1>5 DEF checkpointVars
  <1> QED  BY <1>1, <1>2, <1>3, <1>4, <1>5 DEF Save

(* Whatever crashes, what the last undisturbed save wrote is what load finds. *)
THEOREM CheckpointSurvives == RecoverySpec => []SavedIsLoadable
  <1>1. RecoveryInit => CheckpointInv
    BY CheckpointAssumption
       DEF RecoveryInit, CheckpointInit, CheckpointInv, CheckpointTypeOK, SavedIsLoadable,
           Alone, Empty
  <1>2. CheckpointInv /\ [RecoveryNext]_recoveryVars => CheckpointInv'
    BY CheckpointStep DEF RecoveryNext, recoveryVars
  <1>3. CheckpointInv => SavedIsLoadable
    BY DEF CheckpointInv
  <1> QED  BY <1>1, <1>2, <1>3, PTL DEF RecoverySpec

=============================================================================

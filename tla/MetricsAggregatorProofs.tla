---------------------- MODULE MetricsAggregatorProofs ----------------------
(***************************************************************************)
(* Proofs about MetricsAggregator, for any number of bots, controllers,    *)
(* exporters, behaviours and events.                                       *)
(***************************************************************************)
EXTENDS MetricsAggregator, FiniteSetTheorems, SequenceTheorems, WellFoundedInduction, TLAPS

-----------------------------------------------------------------------------
(* The critical sections and the getters *)

(* Recording a latency and counting an operation leave a state of the      *)
(* aggregator, and what they do not count as it was.                       *)
LEMMA CountedType ==
    ASSUME NEW s \in State, NEW ev
    PROVE  /\ Recorded(s, ev) \in State
           /\ Counted(s, ev) \in State
           /\ Counted(s, ev).botOps = s.botOps /\ Counted(s, ev).errors = s.errors
           /\ Counted(s, ev).successes = s.successes
           /\ Counted(s, ev).failures = s.failures
  <1> DEFINE r == Recorded(s, ev)
             t == [r EXCEPT !.ops = r.ops + 1]
  <1>1. /\ r \in State /\ r.botOps = s.botOps /\ r.errors = s.errors
        /\ r.successes = s.successes /\ r.failures = s.failures
    BY DEF Recorded, State
  <1>2. Counted(s, ev) = [t EXCEPT !.window = r.window + 1]
    BY DEF Counted, Recorded, State
  <1> HIDE DEF r
  <1>3. /\ t \in State /\ t.botOps = s.botOps /\ t.errors = s.errors
        /\ t.successes = s.successes /\ t.failures = s.failures
        /\ r.window + 1 \in Nat
    BY <1>1 DEF State
  <1> HIDE DEF t
  <1> QED  BY <1>1, <1>2, <1>3 DEF State, r

(* An event of a bot leaves a state of the aggregator. *)
LEMMA ProcessedType ==
    ASSUME NEW s \in State, NEW b \in Bots, NEW ev \in Event
    PROVE  Processed(s, b, ev) \in State
  <1>0. /\ s.errors + 1 \in Nat /\ s.roles + 1 \in Nat
        /\ s.active \cup {b} \in SUBSET Bots
        /\ [s.botOps EXCEPT ![b] = @ + 1] \in [Bots -> Nat]
    BY DEF State
  <1> DEFINE counted == Counted(s, ev)
             owned == [counted EXCEPT !.botOps = [s.botOps EXCEPT ![b] = @ + 1]]
  <1>a. /\ counted \in State /\ counted.botOps = s.botOps /\ counted.errors = s.errors
        /\ counted.successes = s.successes /\ counted.failures = s.failures
    BY CountedType
  <1>b. Processed(s, b, ev) =
          CASE ev.kind = "started"   -> [s EXCEPT !.active = @ \cup {b}, !.roles = @ + 1]
            [] ev.kind = "stopped"   -> [s EXCEPT !.active = @ \ {b}]
            [] ev.kind = "succeeded" -> [counted EXCEPT !.botOps[b] = @ + 1,
                                                        !.successes[ev.behavior] = @ + 1]
            [] ev.kind = "failed"    -> [counted EXCEPT !.botOps[b] = @ + 1,
                                                        !.failures[ev.behavior] = @ + 1,
                                                        !.errors = @ + 1]
            [] ev.kind = "confirmed" -> counted
            [] ev.kind = "response"  -> Recorded(s, ev)
            [] ev.kind = "error"     -> [s EXCEPT !.errors = @ + 1]
    BY DEF Processed
  <1> HIDE DEF counted
  <1>c. /\ owned \in State /\ owned.successes = s.successes
        /\ owned.failures = s.failures /\ owned.errors = s.errors
    BY <1>0, <1>a DEF State, owned
  <1>1. CASE ev.kind = "started"
    <2> DEFINE t == [s EXCEPT !.active = s.active \cup {b}]
    <2>1. t \in State /\ t.roles = s.roles  BY <1>0 DEF State
    <2>2. [t EXCEPT !.roles = s.roles + 1] \in State  BY <1>0, <2>1 DEF State
    <2> QED  BY <1>1, <1>b, <2>1, <2>2
  <1>2. CASE ev.kind = "stopped"  BY <1>2, <1>b DEF State
  <1>3. CASE ev.kind = "succeeded"
    <2> DEFINE t == [owned EXCEPT !.successes = [s.successes EXCEPT ![ev.behavior] = @ + 1]]
    <2>1. [s.successes EXCEPT ![ev.behavior] = @ + 1] \in [Behaviors -> Nat]
      BY <1>3 DEF State, Event, Outcome, Timing, Plain
    <2>2. t \in State  BY <1>c, <2>1 DEF State
    <2>3. Processed(s, b, ev) = t  BY <1>3, <1>a, <1>b, <1>c DEF owned
    <2> QED  BY <2>2, <2>3
  <1>4. CASE ev.kind = "failed"
    <2> DEFINE t == [owned EXCEPT !.failures = [s.failures EXCEPT ![ev.behavior] = @ + 1]]
               u == [t EXCEPT !.errors = s.errors + 1]
    <2>1. [s.failures EXCEPT ![ev.behavior] = @ + 1] \in [Behaviors -> Nat]
      BY <1>4 DEF State, Event, Outcome, Timing, Plain
    <2>2. t \in State  BY <1>c, <2>1 DEF State
    <2>3. u \in State  BY <1>0, <2>2 DEF State
    <2>4. Processed(s, b, ev) = u  BY <1>4, <1>a, <1>b, <1>c DEF owned
    <2> QED  BY <2>3, <2>4
  <1>5. CASE ev.kind = "confirmed"  BY <1>5, <1>a, <1>b
  <1>6. CASE ev.kind = "response"  BY <1>6, <1>b, CountedType
  <1>7. CASE ev.kind = "error"  BY <1>7, <1>b DEF State
  <1>8. ev.kind \in {"started", "stopped", "succeeded", "failed", "confirmed", "response",
                     "error"}
    BY DEF Event, Outcome, Timing, Plain
  <1> QED  BY <1>1, <1>2, <1>3, <1>4, <1>5, <1>6, <1>7, <1>8

(* So does an order of a controller. *)
LEMMA OrderedType ==
    ASSUME NEW s \in State, NEW c, NEW call \in Order
    PROVE  After(s, c, call) \in State
  <1>1. New \in State /\ Reset(s) \in State  BY DEF New, Reset, State
  <1>2. CASE call.kind = "reset"  BY <1>1, <1>2 DEF After
  <1>3. CASE call.kind = "window_tps"
    <2>1. Windowed(s, call.expired) \in State  BY DEF Windowed, State
    <2> QED  BY <1>3, <2>1 DEF After
  <1> QED  BY <1>2, <1>3 DEF Order

(* What a getter reads is one of the readings. *)
LEMMA ValueType ==
    ASSUME NEW s \in State, NEW getter
    PROVE  Value(s, getter) \in Reading
  BY DEF Value, Reading, State

-----------------------------------------------------------------------------
(* The type invariant *)

(* Every step keeps every variable in its type. *)
LEMMA TypeStep ==
    ASSUME TypeOK, [Next]_vars
    PROVE  TypeOK'
  <1> USE MetricsAssumption DEF Writers
  <1>1. ASSUME NEW w \in Writers, Claim(w)
        PROVE  TypeOK'
    BY <1>1 DEF Claim, TypeOK
  <1>2. ASSUME NEW w \in Writers, Write(w)
        PROVE  TypeOK'
    <2>1. todo[w] # <<>>  BY <1>2 DEF Write, TypeOK
    <2>2. state' \in State
      <3>1. CASE w \in Bots
        <4>1. Head(todo[w]) \in Event  BY <2>1, <3>1 DEF TypeOK
        <4>2. Head(todo[w]).kind \notin {"reset", "window_tps"}
          BY <4>1 DEF Event, Outcome, Timing, Plain
        <4> QED  BY <1>2, <3>1, <4>1, <4>2, ProcessedType DEF Write, After, TypeOK
      <3>2. CASE w \in Controllers
        <4>1. Head(todo[w]) \in Order  BY <2>1, <3>2 DEF TypeOK
        <4> QED  BY <1>2, <4>1, OrderedType DEF Write, TypeOK
      <3> QED  BY <3>1, <3>2
    <2>3. /\ todo' \in [Writers -> Seq(Event) \cup Seq(Order)]
          /\ \A b \in Bots : todo'[b] \in Seq(Event)
          /\ \A c \in Controllers : todo'[c] \in Seq(Order)
      <3>1. \A x \in Writers : todo'[x] = IF x = w THEN Tail(todo[w]) ELSE todo[x]
        BY <1>2 DEF Write, TypeOK
      <3>2. /\ w \in Bots => Tail(todo[w]) \in Seq(Event)
            /\ w \in Controllers => Tail(todo[w]) \in Seq(Order)
        BY <2>1 DEF TypeOK
      <3>3. DOMAIN todo' = Writers /\ todo' = [x \in Writers |-> todo'[x]]
        BY <1>2 DEF Write, TypeOK
      <3> QED  BY <3>1, <3>2, <3>3 DEF TypeOK
    <2> QED  BY <1>2, <2>2, <2>3 DEF Write, TypeOK
  <1>3. ASSUME NEW b \in Bots, NEW ev \in Event, Emit(b, ev)
        PROVE  TypeOK'
    <2>1. Append(todo[b], ev) \in Seq(Event)  BY DEF TypeOK
    <2>2. running' \subseteq Bots  BY <1>3 DEF Emit, TypeOK
    <2> QED  BY <1>3, <2>1, <2>2 DEF Emit, TypeOK
  <1>4. ASSUME NEW c \in Controllers, NEW call \in Order, Request(c, call)
        PROVE  TypeOK'
    <2>1. <<call>> \in Seq(Order)  OBVIOUS
    <2> QED  BY <1>4, <2>1 DEF Request, TypeOK
  <1>5. ASSUME NEW e \in Exporters, SnapshotStart(e)
        PROVE  TypeOK'
    BY <1>5 DEF SnapshotStart, TypeOK
  <1>6. ASSUME NEW e \in Exporters, SnapshotGet(e)
        PROVE  TypeOK'
    <2>1. Append(snapshot[e], Value(state, Getters[Len(snapshot[e]) + 1])) \in Seq(Reading)
      BY ValueType DEF TypeOK
    <2> QED  BY <1>6, <2>1 DEF SnapshotGet, TypeOK
  <1>7. ASSUME NEW e \in Exporters, SnapshotEnd(e)
        PROVE  TypeOK'
    BY <1>7 DEF SnapshotEnd, NoSnapshot, TypeOK
  <1>8. CASE UNCHANGED vars
    BY <1>8 DEF vars, TypeOK
  <1> QED  BY <1>1, <1>2, <1>3, <1>4, <1>5, <1>6, <1>7, <1>8 DEF Next

(* The aggregator's counters never leave the naturals, its bots are known, *)
(* and calls and snapshots are well formed, for any number of users.       *)
THEOREM MetricsTypes == Spec => []TypeOK
  <1>1. Init => TypeOK
    BY DEF Init, TypeOK, New, State, NoSnapshot, Writers
  <1> QED  BY <1>1, TypeStep, PTL DEF Spec

-----------------------------------------------------------------------------
(* Snapshots *)

(* The readers' lock keeps a snapshot in progress current.  Only Write     *)
(* changes what the getters return, and it waits until nobody reads.       *)
LEMMA CurrentStep ==
    ASSUME TypeOK, SnapshotCurrent, [Next]_vars
    PROVE  SnapshotCurrent'
  <1>1. ASSUME NEW w \in Writers, Claim(w)
        PROVE  SnapshotCurrent'
    BY <1>1 DEF Claim, SnapshotCurrent
  <1>2. ASSUME NEW w \in Writers, Write(w)
        PROVE  SnapshotCurrent'
    <2>1. \A e \in Exporters : snapshot'[e] = <<>>
      BY <1>2 DEF Write, SnapshotCurrent, NoSnapshot
    <2> QED  BY <2>1 DEF SnapshotCurrent, NoSnapshot, Getters
  <1>3. ASSUME NEW b \in Bots, NEW ev \in Event, Emit(b, ev)
        PROVE  SnapshotCurrent'
    BY <1>3 DEF Emit, SnapshotCurrent
  <1>4. ASSUME NEW c \in Controllers, NEW call \in Order, Request(c, call)
        PROVE  SnapshotCurrent'
    BY <1>4 DEF Request, SnapshotCurrent
  <1>5. ASSUME NEW e \in Exporters, SnapshotStart(e)
        PROVE  SnapshotCurrent'
    BY <1>5 DEF SnapshotStart, SnapshotCurrent
  <1>6. ASSUME NEW e \in Exporters, SnapshotGet(e)
        PROVE  SnapshotCurrent'
    <2> DEFINE old == snapshot[e]
               new == Value(state, Getters[Len(old) + 1])
    <2>1. old \in Seq(Reading) /\ Len(old) \in Nat  BY DEF TypeOK
    <2>2. new \in Reading  BY ValueType DEF TypeOK
    <2>3. /\ snapshot'[e] = Append(old, new)
          /\ \A x \in Exporters \ {e} : snapshot'[x] = snapshot[x]
          /\ state' = state /\ readers' = readers /\ e \in readers
          /\ Len(old) < Len(Getters)
      BY <1>6 DEF SnapshotGet, TypeOK
    <2> HIDE DEF old, new
    <2>4. /\ Len(Append(old, new)) = Len(old) + 1
          /\ Append(old, new)[Len(old) + 1] = new
          /\ \A i \in 1..Len(old) : Append(old, new)[i] = old[i]
      BY <2>1, <2>2, AppendProperties
    <2>5. \A i \in 1..(Len(old) + 1) : Append(old, new)[i] = Value(state, Getters[i])
      <3>1. \A i \in 1..Len(old) : old[i] = Value(state, Getters[i])
        BY DEF SnapshotCurrent, old
      <3>2. new = Value(state, Getters[Len(old) + 1])  BY DEF old, new
      <3> QED  BY <2>1, <2>4, <3>1, <3>2
    <2>6. Len(Getters) \in Nat  BY DEF Getters
    <2>7. Len(old) + 1 <= Len(Getters)  BY <2>1, <2>3, <2>6
    <2> QED
      <3> SUFFICES ASSUME NEW x \in Exporters
                   PROVE  /\ snapshot'[x] # NoSnapshot => x \in readers'
                          /\ Len(snapshot'[x]) <= Len(Getters)
                          /\ \A i \in 1..Len(snapshot'[x]) :
                                snapshot'[x][i] = Value(state', Getters[i])
        BY DEF SnapshotCurrent, Value
      <3>1. CASE x = e  BY <2>3, <2>4, <2>5, <2>7, <3>1
      <3>2. CASE x # e  BY <2>3, <3>2 DEF SnapshotCurrent
      <3> QED  BY <3>1, <3>2
  <1>7. ASSUME NEW e \in Exporters, SnapshotEnd(e)
        PROVE  SnapshotCurrent'
    <2>1. /\ \A x \in Exporters : snapshot'[x] = IF x = e THEN <<>> ELSE snapshot[x]
          /\ state' = state /\ readers' = readers \ {e}
      BY <1>7 DEF SnapshotEnd, NoSnapshot, TypeOK
    <2> QED  BY <2>1 DEF SnapshotCurrent, NoSnapshot, Getters
  <1>8. CASE UNCHANGED vars
    BY <1>8 DEF vars, SnapshotCurrent
  <1> QED  BY <1>1, <1>2, <1>3, <1>4, <1>5, <1>6, <1>7, <1>8 DEF Next

(* A finished snapshot that is current adds up. *)
LEMMA CurrentAddsUp ==
    ASSUME SnapshotCurrent
    PROVE  SnapshotAddsUp
  <1> SUFFICES ASSUME NEW e \in Exporters, Len(snapshot[e]) = Len(Getters)
               PROVE  /\ snapshot[e][5].ops = snapshot[e][1].ops
                      /\ snapshot[e][6].ops = snapshot[e][1].ops
                      /\ snapshot[e][7].errors = snapshot[e][5].errors
                      /\ snapshot[e][2].samples = snapshot[e][3].samples
                      /\ snapshot[e][3].samples = snapshot[e][4].samples
    BY DEF SnapshotAddsUp
  <1>1. \A i \in 1..8 : snapshot[e][i] = Value(state, Getters[i])
    BY DEF SnapshotCurrent, Getters
  <1>2. /\ snapshot[e][1] = [ops |-> state.ops]
        /\ snapshot[e][5] = [errors |-> state.errors, ops |-> state.ops]
        /\ snapshot[e][6] = [ops |-> state.ops]
        /\ snapshot[e][7] = [errors |-> state.errors]
        /\ \A i \in 2..4 : snapshot[e][i] = [samples |-> state.samples]
    BY <1>1 DEF Value, Getters
  <1> QED  BY <1>2

(* Every snapshot any exporter exports adds up, however many bots and      *)
(* resets run beside it.                                                   *)
THEOREM SnapshotsAddUp == Spec => []SnapshotAddsUp
  <1>1. Init => SnapshotCurrent
    BY DEF Init, SnapshotCurrent, NoSnapshot, Getters
  <1> QED  BY <1>1, CurrentStep, CurrentAddsUp, MetricsTypes, PTL DEF Spec

-----------------------------------------------------------------------------
(* Active bots *)

(* What the calls of others, and a call that is no start or stop, leave of *)
(* active_bots.                                                            *)
LEMMA ActiveAfter ==
    ASSUME NEW s \in State, NEW w, NEW call \in Event \cup Order
    PROVE  /\ call.kind = "started" => After(s, w, call).active = s.active \cup {w}
           /\ call.kind = "stopped" => After(s, w, call).active = s.active \ {w}
           /\ call.kind \notin {"started", "stopped"} => After(s, w, call).active = s.active
  <1>1. Recorded(s, call) \in State /\ Recorded(s, call).active = s.active
    BY DEF Recorded, State
  <1>2. Counted(s, call) \in State /\ Counted(s, call).active = s.active
    <2> DEFINE r == Recorded(s, call)
    <2>1. Counted(s, call) = [r EXCEPT !.ops = @ + 1, !.window = @ + 1]
      BY DEF Counted
    <2>2. r \in State /\ r.active = s.active
      BY <1>1
    <2> HIDE DEF r
    <2>3. [r EXCEPT !.ops = @ + 1, !.window = @ + 1].active = r.active
      BY <2>2 DEF State
    <2> QED  BY <2>1, <2>2, <2>3, CountedType
  <1> DEFINE c == Counted(s, call)
  <1>3. CASE call.kind \in {"succeeded", "failed"}
    <2>1. c \in State /\ c.active = s.active
      BY <1>2
    <2>2. \/ After(s, w, call) = [c EXCEPT !.botOps[w] = @ + 1,
                                          !.successes[call.behavior] = @ + 1]
          \/ After(s, w, call) = [c EXCEPT !.botOps[w] = @ + 1,
                                          !.failures[call.behavior] = @ + 1,
                                          !.errors = @ + 1]
      BY <1>3 DEF After, Processed
    <2> HIDE DEF c
    <2> QED  BY <1>3, <2>1, <2>2 DEF State
  <1>4. CASE call.kind \in {"started", "stopped", "confirmed", "response", "error"}
    BY <1>1, <1>2, <1>4 DEF After, Processed, State
  <1>5. CASE call.kind \in {"reset", "window_tps"}
    BY <1>5 DEF After, Reset, New, Windowed, State
  <1>6. call.kind \in {"started", "stopped", "succeeded", "failed", "confirmed", "response",
                       "error", "reset", "window_tps"}
    BY DEF Event, Outcome, Timing, Plain, Order
  <1> QED  BY <1>3, <1>4, <1>5, <1>6

(* LastSignal is inductive: a start or stop is processed by removing the   *)
(* first one, and there is a newer one or what it says is what the bot     *)
(* does.                                                                   *)
LEMMA LastSignalStep ==
    ASSUME TypeOK, LastSignal, [Next]_vars
    PROVE  LastSignal'
  <1> DEFINE Says(b) == /\ Signals(b) = {} => (b \in state.active <=> b \in running)
                        /\ \A i \in Signals(b) : (\A j \in Signals(b) : j <= i) =>
                              (todo[b][i].kind = "started" <=> b \in running)
  <1>0. ASSUME NEW b \in Bots PROVE /\ Says(b) /\ todo[b] \in Seq(Event)
                                    /\ b \in Writers /\ state \in State
    BY DEF LastSignal, TypeOK, Writers
  <1> SUFFICES ASSUME NEW b \in Bots PROVE Says(b)'
    BY DEF LastSignal
  <1>a. ASSUME todo'[b] = todo[b], b \in state'.active <=> b \in state.active,
               b \in running' <=> b \in running
        PROVE  Says(b)'
    <2>1. Signals(b)' = Signals(b)
      BY <1>a DEF Signals
    <2> QED  BY <1>0, <1>a, <2>1
  <1>1. ASSUME NEW w \in Writers, Write(w), w = b PROVE Says(b)'
    <2> DEFINE t == todo[b]
               k == Head(t).kind
    <2>1. t # <<>> /\ t \in Seq(Event)
      BY <1>0, <1>1, MetricsAssumption
        DEF Write, TypeOK, Writers, MetricsAssumption
    <2>2. /\ Len(t) \in Nat /\ DOMAIN t = 1..Len(t) /\ Len(t) >= 1
          /\ Head(t) = t[1] /\ Head(t) \in Event
          /\ DOMAIN Tail(t) = 1..(Len(t) - 1)
          /\ \A i \in 1..(Len(t) - 1) : Tail(t)[i] = t[i + 1]
      BY <2>1, HeadTailProperties, LenProperties
    <2>3. todo'[b] = Tail(t) /\ running' = running
          /\ state' = After(state, b, Head(t))
      BY <1>0, <1>1 DEF Write, TypeOK
    <2>4. /\ k = "started" => state'.active = state.active \cup {b}
          /\ k = "stopped" => state'.active = state.active \ {b}
          /\ k \notin {"started", "stopped"} => state'.active = state.active
      BY <1>0, <2>2, <2>3, ActiveAfter
    <2>5. Signals(b) = {i \in 1..Len(t) : t[i].kind \in {"started", "stopped"}}
      BY <2>2 DEF Signals
    <2>6. Signals(b)' = {i \in 1..(Len(t) - 1) : t[i + 1].kind \in {"started", "stopped"}}
      BY <2>2, <2>3 DEF Signals
    <2>7. k = t[1].kind
      BY <2>2
    <2>8. /\ Signals(b) = {} => (b \in state.active <=> b \in running)
          /\ \A i \in Signals(b) : (\A j \in Signals(b) : j <= i) =>
                (t[i].kind = "started" <=> b \in running)
      BY <1>0
    <2>9. \A i \in Signals(b)' : todo'[b][i] = t[i + 1]
      BY <2>2, <2>3, <2>6
    <2> HIDE DEF t, k
    <2>10. ASSUME Signals(b)' = {}
           PROVE  b \in state'.active <=> b \in running'
      <3>1. \A i \in 2..Len(t) : t[i].kind \notin {"started", "stopped"}
        <4> SUFFICES ASSUME NEW i \in 2..Len(t)
                     PROVE  t[i].kind \notin {"started", "stopped"}
          OBVIOUS
        <4>1. i - 1 \in 1..(Len(t) - 1) /\ (i - 1) + 1 = i
          BY <2>2
        <4> QED  BY <2>6, <2>10, <4>1
      <3>2. Signals(b) \subseteq {1}
        BY <2>2, <2>5, <3>1
      <3>3. CASE k \in {"started", "stopped"}
        <4>1. 1 \in Signals(b)
          BY <2>2, <2>5, <2>7, <3>3
        <4>2. k = "started" <=> b \in running
          BY <2>7, <2>8, <3>2, <4>1
        <4> QED  BY <2>3, <2>4, <3>3, <4>2
      <3>4. CASE k \notin {"started", "stopped"}
        <4>1. Signals(b) = {}
          BY <2>5, <2>7, <3>2, <3>4
        <4> QED  BY <2>3, <2>4, <2>8, <3>4, <4>1
      <3> QED  BY <3>3, <3>4
    <2>11. ASSUME NEW i \in Signals(b)', \A j \in Signals(b)' : j <= i
           PROVE  todo'[b][i].kind = "started" <=> b \in running'
      <3>1. i \in Nat /\ i + 1 \in Signals(b)
        BY <2>2, <2>5, <2>6
      <3>2. ASSUME NEW j \in Signals(b) PROVE j <= i + 1
        <4>1. CASE j = 1
          BY <3>1, <4>1
        <4>2. CASE j # 1
          <5>1. j \in Nat /\ j - 1 \in 1..(Len(t) - 1) /\ (j - 1) + 1 = j
            BY <2>2, <2>5, <4>2
          <5>2. j - 1 \in Signals(b)'
            BY <2>5, <2>6, <5>1
          <5>3. j - 1 <= i
            BY <2>11, <5>2
          <5> QED  BY <3>1, <5>1, <5>3
        <4> QED  BY <4>1, <4>2
      <3>3. t[i + 1].kind = "started" <=> b \in running
        BY <2>8, <3>1, <3>2
      <3> QED  BY <2>3, <2>9, <3>3
    <2> QED  BY <2>10, <2>11
  <1>2. ASSUME NEW w \in Writers, Write(w), w # b PROVE Says(b)'
    <2>1. todo'[b] = todo[b] /\ running' = running
          /\ state' = After(state, w, Head(todo[w]))
      BY <1>0, <1>2 DEF Write, TypeOK
    <2>2. Head(todo[w]) \in Event \cup Order
      <3>1. todo[w] # <<>> /\ todo[w] \in Seq(Event) \cup Seq(Order)
        BY <1>0, <1>2, MetricsAssumption DEF Write, TypeOK, Writers, MetricsAssumption
      <3> QED  BY <3>1
    <2>3. b \in state'.active <=> b \in state.active
      BY <1>0, <1>2, <2>1, <2>2, ActiveAfter
    <2> QED  BY <1>a, <2>1, <2>3
  <1>3. ASSUME NEW c \in Bots, NEW ev \in Event, Emit(c, ev), c = b PROVE Says(b)'
    <2> DEFINE t == todo[b]
               n == Len(t)
    <2>1. t \in Seq(Event) /\ n \in Nat /\ DOMAIN t = 1..n
      BY <1>0, LenProperties
    <2>2. todo'[b] = Append(t, ev) /\ state' = state
      BY <1>0, <1>3 DEF Emit, TypeOK
    <2>3. /\ DOMAIN Append(t, ev) = 1..(n + 1) /\ Append(t, ev)[n + 1] = ev
          /\ \A i \in 1..n : Append(t, ev)[i] = t[i]
      BY <2>1, AppendProperties, LenProperties
    <2>4. Signals(b) = {i \in 1..n : t[i].kind \in {"started", "stopped"}}
      BY <2>1 DEF Signals
    <2>5. Signals(b)' = {i \in 1..(n + 1) :
                            Append(t, ev)[i].kind \in {"started", "stopped"}}
      BY <2>2, <2>3 DEF Signals
    <2>6. /\ Signals(b) = {} => (b \in state.active <=> b \in running)
          /\ \A i \in Signals(b) : (\A j \in Signals(b) : j <= i) =>
                (t[i].kind = "started" <=> b \in running)
      BY <1>0
    <2> HIDE DEF t, n
    <2>7. CASE ev.kind \in {"started", "stopped"}
      <3>1. ev.kind = "started" <=> b \in running'
        BY <1>3, <2>7 DEF Emit
      <3>2. n + 1 \in Signals(b)'
        BY <2>1, <2>3, <2>5, <2>7
      <3>3. ASSUME NEW i \in Signals(b)', \A j \in Signals(b)' : j <= i
            PROVE  todo'[b][i].kind = "started" <=> b \in running'
        <4>1. i = n + 1
          BY <2>1, <2>5, <3>2, <3>3
        <4> QED  BY <2>2, <2>3, <3>1, <4>1
      <3> QED  BY <3>2, <3>3
    <2>8. CASE ev.kind \notin {"started", "stopped"}
      <3>1. running' = running
        BY <1>3, <2>8 DEF Emit
      <3>2. Signals(b)' = Signals(b)
        BY <2>1, <2>3, <2>4, <2>5, <2>8
      <3>3. \A i \in Signals(b) : todo'[b][i] = t[i]
        BY <2>2, <2>3, <2>4
      <3> QED  BY <2>2, <2>6, <3>1, <3>2, <3>3
    <2> QED  BY <2>7, <2>8
  <1>4. ASSUME NEW c \in Bots, NEW ev \in Event, Emit(c, ev), c # b PROVE Says(b)'
    BY <1>0, <1>a, <1>4 DEF Emit, TypeOK
  <1>5. ASSUME NEW c \in Controllers, NEW call \in Order, Request(c, call) PROVE Says(b)'
    <2>1. c # b
      BY MetricsAssumption
    <2> QED  BY <1>0, <1>a, <1>5, <2>1 DEF Request, TypeOK
  <1>6. ASSUME UNCHANGED <<state, todo, running>> PROVE Says(b)'
    BY <1>a, <1>6
  <1>7. ASSUME NEW w \in Writers, Claim(w) PROVE Says(b)'
    BY <1>6, <1>7 DEF Claim
  <1>8. ASSUME NEW e \in Exporters, SnapshotStart(e) \/ SnapshotGet(e) \/ SnapshotEnd(e)
        PROVE  Says(b)'
    BY <1>6, <1>8 DEF SnapshotStart, SnapshotGet, SnapshotEnd
  <1>9. CASE UNCHANGED vars
    BY <1>6, <1>9 DEF vars
  <1> HIDE DEF Says
  <1> QED
    BY <1>1, <1>2, <1>3, <1>4, <1>5, <1>7, <1>8, <1>9 DEF Next

(* However many bots start, stop and are processed late, and however often *)
(* the aggregator is reset, active_bots is right for every bot with no     *)
(* event waiting.                                                          *)
THEOREM ActiveBotsAreRunning == Spec => []ActiveIsRunning
  <1>1. Init => LastSignal
    BY DEF Init, LastSignal, Signals, New, Writers
  <1>2. LastSignal => ActiveIsRunning
    <2> SUFFICES ASSUME LastSignal, NEW b \in Bots, todo[b] = <<>>
                 PROVE  b \in state.active <=> b \in running
      BY DEF ActiveIsRunning
    <2>1. Signals(b) = {}
      BY DEF Signals
    <2> QED  BY <2>1 DEF LastSignal
  <1> QED  BY <1>1, <1>2, LastSignalStep, MetricsTypes, PTL DEF Spec

-----------------------------------------------------------------------------
(* The lock *)

(* However many bots, controllers and scrapes there are, a writer and a    *)
(* scrape that wait for each other do so for ever, and all others wait for *)
(* the two: what the run metrics_scrape shows of one of each.              *)
THEOREM LockUpsAreForever == Spec => LockUpIsForever
  <1>1. TypeOK /\ LockedUp /\ [Next]_vars =>
            LockedUp' /\ UNCHANGED <<state, claimed>> /\ readers' \subseteq readers
    <2> SUFFICES ASSUME TypeOK, LockedUp, [Next]_vars
                 PROVE  LockedUp' /\ UNCHANGED <<state, claimed>> /\ readers' \subseteq readers
      OBVIOUS
    <2>1. claimed # Nobody
      BY DEF LockedUp
    <2>2. PICK e \in readers : Len(snapshot[e]) < Len(Getters)
      BY DEF LockedUp
    <2>3. ASSUME NEW w \in Writers, Claim(w) \/ Write(w) PROVE FALSE
      BY <2>1, <2>2, <2>3 DEF Claim, Write
    <2>4. ASSUME NEW f \in Exporters, SnapshotStart(f) \/ SnapshotGet(f) PROVE FALSE
      BY <2>1, <2>4 DEF SnapshotStart, SnapshotGet, CanRead
    <2>5. ASSUME NEW f \in Exporters, SnapshotEnd(f)
          PROVE  LockedUp' /\ UNCHANGED <<state, claimed>> /\ readers' \subseteq readers
      <3>1. f # e
        <4>1. Len(Getters) = 8
          BY DEF Getters
        <4>2. Len(snapshot[f]) = 8 /\ Len(snapshot[e]) < 8
          BY <2>2, <2>5, <4>1, Zenon DEF SnapshotEnd
        <4>3. ASSUME f = e PROVE FALSE
          <5>1. Len(snapshot[e]) = 8
            BY <4>2, <4>3
          <5> QED  BY <4>2, <5>1
        <4> QED  BY <4>3
      <3>2. e \in Exporters /\ snapshot \in [Exporters -> Seq(Reading)]
        BY DEF TypeOK
      <3>3. e \in readers' /\ snapshot'[e] = snapshot[e] /\ claimed' = claimed
        BY <2>5, <3>1, <3>2 DEF SnapshotEnd
      <3> QED  BY <2>1, <2>2, <2>5, <3>3 DEF SnapshotEnd, LockedUp
    <2>6. ASSUME UNCHANGED <<state, claimed, readers, snapshot>>
          PROVE  LockedUp' /\ UNCHANGED <<state, claimed>> /\ readers' \subseteq readers
      BY <2>6 DEF LockedUp
    <2>7. CASE UNCHANGED vars
      BY <2>6, <2>7 DEF vars
    <2>8. ASSUME NEW b \in Bots, NEW ev \in Event, Emit(b, ev)
          PROVE  UNCHANGED <<state, claimed, readers, snapshot>>
      BY <2>8 DEF Emit
    <2>9. ASSUME NEW c \in Controllers, NEW call \in Order, Request(c, call)
          PROVE  UNCHANGED <<state, claimed, readers, snapshot>>
      BY <2>9 DEF Request
    <2> QED  BY <2>3, <2>4, <2>5, <2>6, <2>7, <2>8, <2>9 DEF Next
  <1> QED  BY <1>1, MetricsTypes, PTL DEF Spec, LockUpIsForever

-----------------------------------------------------------------------------
(* Sums *)

(* A set of subsets of a finite set that has with each of its members a smaller
   one is empty: induction over finite sets, without an operator. *)
LEMMA NoLeastSet ==
    ASSUME NEW S, IsFiniteSet(S), NEW Bad \in SUBSET (SUBSET S),
           \A s \in Bad : \E t \in Bad : t \subseteq s /\ t # s
    PROVE  Bad = {}
  <1> DEFINE R == StrictSubsetOrdering(S)
  <1>1. IsWellFoundedOn(R, SUBSET S)
    <2>1. IsWellFoundedOn(R, FiniteSubsetsOf(S))
      BY FS_StrictSubsetOrderingWellFounded
    <2>2. FiniteSubsetsOf(S) = SUBSET S
      BY FS_FiniteSubsetsOfFinite
    <2> QED  BY <2>1, <2>2
  <1>2. \A s, t \in SUBSET S : t \subseteq s /\ t # s => <<t, s>> \in R
    BY DEF StrictSubsetOrdering
  <1> HIDE DEF R
  <1> SUFFICES ASSUME Bad # {} PROVE FALSE
    OBVIOUS
  <1>3. PICK s \in Bad : \A t \in Bad : <<t, s>> \notin R
    BY <1>1, WFMin
  <1> QED  BY <1>2, <1>3

(* The element a fold takes first, and the value of the sum over s by those of
   the smaller sets, as FoldFunction computes it. *)
Pick(s) == CHOOSE x \in s : TRUE

Row(f, g, s) == IF s = {} THEN 0 ELSE f[Pick(s)] + g[s \ {Pick(s)}]

Table(f, g) == g = [s \in SUBSET DOMAIN f |-> Row(f, g, s)]

LEMMA PickFacts ==
    ASSUME NEW s, s # {}
    PROVE  Pick(s) \in s
  BY DEF Pick

LEMMA SumUnfold ==
    ASSUME NEW f
    PROVE  SumFunction(f) = (CHOOSE g : Table(f, g))[DOMAIN f]
  BY DEF SumFunction, SumFunctionOnSet, FoldFunctionOnSet, MapThenFoldSet, Row, Pick, Table

(* There is such a table: by induction on the number of elements up to which its
   rows are right. *)
LEMMA TableExists ==
    ASSUME NEW S, IsFiniteSet(S), NEW f \in [S -> Nat]
    PROVE  \E g : Table(f, g)
  <1> DEFINE Right(g, n) == \A s \in SUBSET S : Cardinality(s) < n => g[s] = Row(f, g, s)
             Wrong == {n \in Nat : ~ \E g \in [SUBSET S -> Nat] : Right(g, n)}
             R == {ss \in Nat \X Nat : ss[1] < ss[2]}
  <1>0. \A s \in SUBSET S : IsFiniteSet(s) /\ Cardinality(s) \in Nat
    BY FS_Subset, FS_CardinalityType
  <1>1. 0 \notin Wrong
    <2> DEFINE g == [s \in SUBSET S |-> 0]
    <2>1. g \in [SUBSET S -> Nat] /\ Right(g, 0)
      BY <1>0
    <2> QED  BY <2>1
  <1>2. ASSUME NEW n \in Nat, n \notin Wrong PROVE n + 1 \notin Wrong
    <2>1. PICK g \in [SUBSET S -> Nat] : Right(g, n)
      BY <1>2
    <2> DEFINE h == [s \in SUBSET S |-> Row(f, g, s)]
    <2>2. \A s \in SUBSET S : Row(f, g, s) \in Nat
      <3> SUFFICES ASSUME NEW s \in SUBSET S, s # {} PROVE Row(f, g, s) \in Nat
        BY DEF Row
      <3>1. Pick(s) \in S /\ s \ {Pick(s)} \in SUBSET S
        BY PickFacts
      <3> QED  BY <3>1 DEF Row
    <2>3. h \in [SUBSET S -> Nat]
      BY <2>2
    <2>4. \A s \in SUBSET S : Cardinality(s) < n => h[s] = g[s]
      BY <2>1
    <2>5. ASSUME NEW s \in SUBSET S, Cardinality(s) < n + 1
          PROVE  h[s] = Row(f, h, s)
      <3>1. CASE s = {}
        BY <3>1 DEF Row
      <3>2. CASE s # {}
        <4> DEFINE t == s \ {Pick(s)}
        <4>1. t \in SUBSET S /\ Cardinality(t) < n
          <5>1. Pick(s) \in s
            BY <3>2, PickFacts
          <5>2. Cardinality(t) = Cardinality(s) - 1
            BY <1>0, <5>1, FS_RemoveElement
          <5> QED  BY <1>0, <2>5, <5>2
        <4>2. h[t] = g[t]
          BY <2>4, <4>1
        <4> QED  BY <3>2, <4>2 DEF Row
      <3> QED  BY <3>1, <3>2
    <2> HIDE DEF h
    <2>6. Right(h, n + 1)
      BY <2>5
    <2> QED  BY <2>3, <2>6
  <1> HIDE DEF Wrong
  <1>3. Wrong = {}
    <2> SUFFICES ASSUME Wrong # {} PROVE FALSE
      OBVIOUS
    <2>1. Wrong \subseteq Nat
      BY DEF Wrong
    <2>2. IsWellFoundedOn(R, Nat)
      BY NatLessThanWellFounded DEF OpToRel
    <2>3. \A i, j \in Nat : i < j => <<i, j>> \in R
      OBVIOUS
    <2> HIDE DEF R
    <2>4. PICK m \in Wrong : \A n \in Wrong : <<n, m>> \notin R
      BY <2>1, <2>2, WFMin
    <2>5. m \in Nat /\ m # 0
      BY <1>1, <2>1, <2>4
    <2>6. m - 1 \in Nat /\ m - 1 < m /\ (m - 1) + 1 = m
      BY <2>5
    <2>7. m - 1 \notin Wrong
      BY <2>3, <2>4, <2>5, <2>6
    <2> QED  BY <1>2, <2>4, <2>6, <2>7
  <1>4. Cardinality(S) + 1 \in Nat
    BY FS_CardinalityType
  <1>5. PICK g \in [SUBSET S -> Nat] : Right(g, Cardinality(S) + 1)
    BY <1>3, <1>4 DEF Wrong
  <1>6. \A s \in SUBSET S : g[s] = Row(f, g, s)
    <2>1. \A s \in SUBSET S : Cardinality(s) < Cardinality(S) + 1
      BY <1>0, FS_Subset, FS_CardinalityType
    <2> QED  BY <1>5, <2>1
  <1>7. g = [s \in SUBSET S |-> Row(f, g, s)]
    BY <1>6
  <1> QED  BY <1>7 DEF Table

(* A sum and the sums over the subsets that it comes from. *)
Sums(f, g, S) ==
    /\ SumFunction(f) = g[S] /\ g[{}] = 0
    /\ \A s \in SUBSET S : s # {} => g[s] = f[Pick(s)] + g[s \ {Pick(s)}]
    /\ \A s \in SUBSET S : g[s] \in Nat

LEMMA SumTable ==
    ASSUME NEW S, IsFiniteSet(S), NEW f \in [S -> Nat]
    PROVE  \E g : Sums(f, g, S)
  <1> DEFINE g == CHOOSE h : Table(f, h)
  <1>1. Table(f, g)
    BY TableExists
  <1>2. SumFunction(f) = g[S]
    BY SumUnfold
  <1> HIDE DEF g
  <1>3. \A s \in SUBSET S : g[s] = Row(f, g, s)
    <2>1. DOMAIN f = S
      OBVIOUS
    <2> DEFINE h == [s \in SUBSET S |-> Row(f, g, s)]
    <2>2. g = h
      BY <1>1, <2>1 DEF Table
    <2>3. \A s \in SUBSET S : h[s] = Row(f, g, s)
      OBVIOUS
    <2> HIDE DEF h
    <2> QED  BY <2>2, <2>3
  <1>4. g[{}] = 0 /\ \A s \in SUBSET S : s # {} => g[s] = f[Pick(s)] + g[s \ {Pick(s)}]
    BY <1>3 DEF Row
  <1>5. \A s \in SUBSET S : g[s] \in Nat
    <2> DEFINE Bad == {s \in SUBSET S : g[s] \notin Nat}
    <2>1. ASSUME NEW s \in Bad PROVE \E t \in Bad : t \subseteq s /\ t # s
      <3>0. s \in SUBSET S /\ s # {}
        <4>1. g[{}] \in Nat
          BY <1>4
        <4> QED  BY <4>1
      <3>1. Pick(s) \in s /\ Pick(s) \in S
        BY <3>0, PickFacts
      <3>2. g[s] = f[Pick(s)] + g[s \ {Pick(s)}] /\ f[Pick(s)] \in Nat
        BY <1>4, <3>0, <3>1
      <3>3. s \ {Pick(s)} \in Bad
        BY <3>0, <3>2
      <3> QED  BY <3>1, <3>3
    <2>2. Bad = {}
      <3> HIDE DEF Bad
      <3>1. Bad \in SUBSET (SUBSET S)
        BY DEF Bad
      <3> QED  BY <2>1, <3>1, NoLeastSet
    <2> QED  BY <2>2
  <1>6. Sums(f, g, S)
    BY <1>2, <1>4, <1>5 DEF Sums
  <1> QED  BY <1>6

(* The sum of zeros. *)
LEMMA SumZero ==
    ASSUME NEW S, IsFiniteSet(S), NEW f \in [S -> Nat], \A x \in S : f[x] = 0
    PROVE  SumFunction(f) = 0
  <1>0. PICK g : Sums(f, g, S)
    BY SumTable
  <1>1. /\ SumFunction(f) = g[S] /\ g[{}] = 0
        /\ \A s \in SUBSET S : s # {} => g[s] = f[Pick(s)] + g[s \ {Pick(s)}]
        /\ \A s \in SUBSET S : g[s] \in Nat
    BY <1>0 DEF Sums
  <1> DEFINE Bad == {s \in SUBSET S : g[s] # 0}
  <1>2. ASSUME NEW s \in Bad PROVE \E t \in Bad : t \subseteq s /\ t # s
    <2>1. s # {} /\ Pick(s) \in s /\ Pick(s) \in S
      BY <1>1, PickFacts
    <2>2. g[s] = f[Pick(s)] + g[s \ {Pick(s)}] /\ f[Pick(s)] = 0
      BY <1>1, <2>1
    <2>3. s \ {Pick(s)} \in Bad
      BY <1>1, <2>2
    <2> QED  BY <2>1, <2>3
  <1>3. Bad = {}
    <2> HIDE DEF Bad
    <2>1. Bad \in SUBSET (SUBSET S)
      BY DEF Bad
    <2> QED  BY <1>2, <2>1, NoLeastSet
  <1> QED  BY <1>1, <1>3

(* One more of one thing is one more of all. *)
LEMMA SumOneMore ==
    ASSUME NEW S, IsFiniteSet(S), NEW f \in [S -> Nat], NEW a \in S
    PROVE  SumFunction([f EXCEPT ![a] = @ + 1]) = SumFunction(f) + 1
  <1> DEFINE e == [f EXCEPT ![a] = @ + 1]
  <1>1. e \in [S -> Nat] /\ \A x \in S : e[x] = IF x = a THEN f[x] + 1 ELSE f[x]
    OBVIOUS
  <1> HIDE DEF e
  <1>a. PICK g : Sums(f, g, S)
    BY SumTable
  <1>b. PICK h : Sums(e, h, S)
    BY <1>1, SumTable
  <1>2. /\ SumFunction(f) = g[S] /\ g[{}] = 0
        /\ \A s \in SUBSET S : s # {} => g[s] = f[Pick(s)] + g[s \ {Pick(s)}]
        /\ \A s \in SUBSET S : g[s] \in Nat
    BY <1>a DEF Sums
  <1>3. /\ SumFunction(e) = h[S] /\ h[{}] = 0
        /\ \A s \in SUBSET S : s # {} => h[s] = e[Pick(s)] + h[s \ {Pick(s)}]
        /\ \A s \in SUBSET S : h[s] \in Nat
    BY <1>b DEF Sums
  <1> DEFINE Bad == {s \in SUBSET S : h[s] # g[s] + (IF a \in s THEN 1 ELSE 0)}
  <1>4. ASSUME NEW s \in Bad PROVE \E t \in Bad : t \subseteq s /\ t # s
    <2> DEFINE p == Pick(s)
               t == s \ {p}
    <2>1. s # {} /\ s \in SUBSET S
      <3>1. g[{}] = 0 /\ h[{}] = 0
        BY <1>2, <1>3
      <3>2. h[{}] = g[{}] + (IF a \in {} THEN 1 ELSE 0)
        BY <3>1
      <3> QED  BY <3>2
    <2>2. p \in s /\ p \in S /\ t \in SUBSET S
      BY <2>1, PickFacts
    <2>3. g[s] = f[p] + g[t] /\ h[s] = e[p] + h[t]
      BY <1>2, <1>3, <2>1
    <2>4. f[p] \in Nat /\ e[p] = IF p = a THEN f[p] + 1 ELSE f[p]
      BY <1>1, <2>2
    <2>5. g[s] \in Nat /\ h[s] \in Nat /\ g[t] \in Nat /\ h[t] \in Nat
      BY <1>2, <1>3, <2>1, <2>2
    <2>6. a \in s <=> (a \in t \/ p = a)
      BY <2>2
    <2>7. p = a => a \notin t
      OBVIOUS
    <2> HIDE DEF p, t
    <2>8. h[s] # g[s] + (IF a \in s THEN 1 ELSE 0)
      BY <1>4
    <2>9. h[t] # g[t] + (IF a \in t THEN 1 ELSE 0)
      BY <2>3, <2>4, <2>5, <2>6, <2>7, <2>8
    <2>10. t \in Bad
      BY <2>2, <2>9
    <2> QED  BY <2>2, <2>10 DEF t
  <1>5. Bad = {}
    <2> HIDE DEF Bad
    <2>1. Bad \in SUBSET (SUBSET S)
      BY DEF Bad
    <2> QED  BY <1>4, <2>1, NoLeastSet
  <1>6. h[S] = g[S] + 1
    BY <1>5
  <1> QED  BY <1>2, <1>3, <1>6 DEF e

(* A sum of natural numbers is one. *)
LEMMA SumType ==
    ASSUME NEW S, IsFiniteSet(S), NEW f \in [S -> Nat]
    PROVE  SumFunction(f) \in Nat
  <1>1. PICK g : Sums(f, g, S)
    BY SumTable
  <1> QED  BY <1>1 DEF Sums

-----------------------------------------------------------------------------
(* The counters *)

(* CountersAgree, of one state of the aggregator. *)
Agree(s) ==
    /\ SumFunction(s.botOps) = SumFunction(s.successes) + SumFunction(s.failures)
    /\ SumFunction(s.botOps) <= s.ops
    /\ SumFunction(s.failures) <= s.errors
    /\ s.window <= s.ops

(* The sums of a state are natural numbers. *)
LEMMA StateSums ==
    ASSUME NEW s \in State
    PROVE  /\ SumFunction(s.botOps) \in Nat /\ SumFunction(s.successes) \in Nat
           /\ SumFunction(s.failures) \in Nat
           /\ s.ops \in Nat /\ s.errors \in Nat /\ s.window \in Nat
  <1>1. /\ s.botOps \in [Bots -> Nat] /\ s.successes \in [Behaviors -> Nat]
        /\ s.failures \in [Behaviors -> Nat]
        /\ s.ops \in Nat /\ s.errors \in Nat /\ s.window \in Nat
    BY DEF State
  <1> QED  BY <1>1, SumType, MetricsAssumption

(* The counters an operation is counted in. *)
LEMMA CountedCounts ==
    ASSUME NEW s \in State, NEW ev
    PROVE  /\ Counted(s, ev).ops = s.ops + 1 /\ Counted(s, ev).window = s.window + 1
           /\ Recorded(s, ev).ops = s.ops /\ Recorded(s, ev).window = s.window
  <1> DEFINE r == Recorded(s, ev)
  <1>1. r \in State /\ r.ops = s.ops /\ r.window = s.window
    BY DEF Recorded, State
  <1>2. Counted(s, ev) = [r EXCEPT !.ops = @ + 1, !.window = @ + 1]
    BY DEF Counted
  <1> HIDE DEF r
  <1>3. /\ [r EXCEPT !.ops = @ + 1, !.window = @ + 1].ops = r.ops + 1
        /\ [r EXCEPT !.ops = @ + 1, !.window = @ + 1].window = r.window + 1
    BY <1>1 DEF State
  <1> QED  BY <1>1, <1>2, <1>3 DEF r

(* Events keep the counters in agreement: an operation of a bot is counted *)
(* once per bot and once per behaviour, and its failure once more.         *)
LEMMA ProcessedAgrees ==
    ASSUME NEW s \in State, Agree(s), NEW b \in Bots, NEW ev \in Event
    PROVE  Agree(Processed(s, b, ev))
  <1> DEFINE c == Counted(s, ev)
             p == Processed(s, b, ev)
  <1>1. /\ c \in State /\ c.botOps = s.botOps /\ c.errors = s.errors
        /\ c.successes = s.successes /\ c.failures = s.failures
        /\ c.ops = s.ops + 1 /\ c.window = s.window + 1
    BY CountedType, CountedCounts
  <1>2. /\ SumFunction(s.botOps) \in Nat /\ SumFunction(s.successes) \in Nat
        /\ SumFunction(s.failures) \in Nat
        /\ s.ops \in Nat /\ s.errors \in Nat /\ s.window \in Nat
    BY StateSums
  <1>3. /\ SumFunction(s.botOps) = SumFunction(s.successes) + SumFunction(s.failures)
        /\ SumFunction(s.botOps) <= s.ops /\ SumFunction(s.failures) <= s.errors
        /\ s.window <= s.ops
    BY DEF Agree
  <1>4. SumFunction([s.botOps EXCEPT ![b] = @ + 1]) = SumFunction(s.botOps) + 1
    BY SumOneMore, MetricsAssumption DEF State
  <1>5. CASE ev.kind = "succeeded"
    <2>1. p = [c EXCEPT !.botOps[b] = @ + 1, !.successes[ev.behavior] = @ + 1]
      BY <1>5 DEF Processed
    <2>2. ev.behavior \in Behaviors
      BY <1>5 DEF Event, Outcome, Timing, Plain
    <2> HIDE DEF c, p
    <2>3. /\ p.botOps = [s.botOps EXCEPT ![b] = @ + 1]
          /\ p.successes = [s.successes EXCEPT ![ev.behavior] = @ + 1]
          /\ p.failures = s.failures /\ p.errors = s.errors
          /\ p.ops = s.ops + 1 /\ p.window = s.window + 1
      BY <1>1, <2>1 DEF State
    <2>4. SumFunction([s.successes EXCEPT ![ev.behavior] = @ + 1])
             = SumFunction(s.successes) + 1
      BY <2>2, SumOneMore, MetricsAssumption DEF State
    <2> QED  BY <1>2, <1>3, <1>4, <2>3, <2>4 DEF Agree, p
  <1>6. CASE ev.kind = "failed"
    <2>1. p = [c EXCEPT !.botOps[b] = @ + 1, !.failures[ev.behavior] = @ + 1,
                        !.errors = @ + 1]
      BY <1>6 DEF Processed
    <2>2. ev.behavior \in Behaviors
      BY <1>6 DEF Event, Outcome, Timing, Plain
    <2> HIDE DEF c, p
    <2>3. /\ p.botOps = [s.botOps EXCEPT ![b] = @ + 1]
          /\ p.failures = [s.failures EXCEPT ![ev.behavior] = @ + 1]
          /\ p.successes = s.successes /\ p.errors = s.errors + 1
          /\ p.ops = s.ops + 1 /\ p.window = s.window + 1
      BY <1>1, <2>1 DEF State
    <2>4. SumFunction([s.failures EXCEPT ![ev.behavior] = @ + 1])
             = SumFunction(s.failures) + 1
      BY <2>2, SumOneMore, MetricsAssumption DEF State
    <2> QED  BY <1>2, <1>3, <1>4, <2>3, <2>4 DEF Agree, p
  <1>7. CASE ev.kind = "confirmed"
    <2>1. p = c
      BY <1>7 DEF Processed
    <2> HIDE DEF c, p
    <2> QED  BY <1>1, <1>2, <1>3, <2>1 DEF Agree, p
  <1>8. CASE ev.kind = "response"
    <2>1. p = Recorded(s, ev)
      BY <1>8 DEF Processed
    <2>2. /\ p.botOps = s.botOps /\ p.errors = s.errors /\ p.successes = s.successes
          /\ p.failures = s.failures /\ p.ops = s.ops /\ p.window = s.window
      BY <2>1 DEF Recorded, State
    <2> HIDE DEF p
    <2> QED  BY <1>3, <2>2 DEF Agree, p
  <1>9. CASE ev.kind \in {"started", "stopped", "error"}
    <2>1. \/ p = [s EXCEPT !.active = @ \cup {b}, !.roles = @ + 1]
          \/ p = [s EXCEPT !.active = @ \ {b}]
          \/ p = [s EXCEPT !.errors = @ + 1]
      BY <1>9 DEF Processed
    <2> HIDE DEF p
    <2>2. /\ p.botOps = s.botOps /\ p.successes = s.successes
          /\ p.failures = s.failures /\ p.ops = s.ops /\ p.window = s.window
          /\ p.errors \in {s.errors, s.errors + 1}
      BY <2>1 DEF State
    <2> QED  BY <1>2, <1>3, <2>2 DEF Agree, p
  <1>10. ev.kind \in {"started", "stopped", "succeeded", "failed", "confirmed", "response",
                      "error"}
    BY DEF Event, Outcome, Timing, Plain
  <1> QED  BY <1>5, <1>6, <1>7, <1>8, <1>9, <1>10

(* A reset clears them all. *)
LEMMA NewAgrees ==
    ASSUME NEW s, s.botOps = New.botOps, s.successes = New.successes,
           s.failures = New.failures, s.ops = 0, s.errors = 0, s.window = 0
    PROVE  Agree(s)
  <1>1. /\ New.botOps \in [Bots -> Nat] /\ \A b \in Bots : New.botOps[b] = 0
        /\ New.successes \in [Behaviors -> Nat]
        /\ \A v \in Behaviors : New.successes[v] = 0
        /\ New.failures \in [Behaviors -> Nat]
        /\ \A v \in Behaviors : New.failures[v] = 0
    BY DEF New
  <1>2. SumFunction(s.botOps) = 0
    BY <1>1, SumZero, MetricsAssumption
  <1>3. SumFunction(s.successes) = 0 /\ SumFunction(s.failures) = 0
    BY <1>1, SumZero, MetricsAssumption
  <1> QED  BY <1>2, <1>3 DEF Agree

(* An order of a controller keeps them in agreement. *)
LEMMA OrderedAgrees ==
    ASSUME NEW s \in State, Agree(s), NEW c, NEW call \in Order
    PROVE  Agree(After(s, c, call))
  <1>1. CASE call.kind = "reset"
    <2>1. After(s, c, call) = [New EXCEPT !.active = s.active]
      BY <1>1 DEF After, Reset
    <2> DEFINE r == [New EXCEPT !.active = s.active]
    <2>2. /\ r.botOps = New.botOps /\ r.successes = New.successes
          /\ r.failures = New.failures /\ r.ops = 0 /\ r.errors = 0 /\ r.window = 0
      BY DEF New
    <2> HIDE DEF r
    <2>3. Agree(r)
      BY <2>2, NewAgrees
    <2> QED  BY <2>1, <2>3 DEF r
  <1>2. CASE call.kind = "window_tps"
    <2> DEFINE r == [s EXCEPT !.window = 0]
    <2>1. After(s, c, call) \in {s, r}
      BY <1>2 DEF After, Windowed
    <2>2. /\ r.botOps = s.botOps /\ r.successes = s.successes
          /\ r.failures = s.failures /\ r.ops = s.ops /\ r.errors = s.errors
          /\ r.window = 0
      BY DEF State
    <2> HIDE DEF r
    <2>3. s.ops \in Nat
      BY StateSums
    <2>4. Agree(r)
      BY <2>2, <2>3 DEF Agree
    <2> QED  BY <2>1, <2>4
  <1> QED  BY <1>1, <1>2 DEF Order

(* Whatever events are processed in whatever order, and however often the  *)
(* aggregator is reset between them, its counters tell one story.          *)
THEOREM CountersTellOneStory == Spec => []CountersAgree
  <1>1. CountersAgree <=> Agree(state)
    BY DEF CountersAgree, Agree
  <1>2. Init => Agree(state)
    <2> SUFFICES ASSUME Init PROVE Agree(state)
      OBVIOUS
    <2>1. state = New /\ New.ops = 0 /\ New.errors = 0 /\ New.window = 0
      BY DEF Init, New
    <2> QED  BY <2>1, NewAgrees
  <1>3. TypeOK /\ Agree(state) /\ [Next]_vars => Agree(state)'
    <2> SUFFICES ASSUME TypeOK, Agree(state), [Next]_vars PROVE Agree(state')
      BY DEF Agree
    <2>1. ASSUME NEW w \in Writers, Write(w) PROVE Agree(state')
      <3>1. state' = After(state, w, Head(todo[w])) /\ todo[w] # <<>> /\ state \in State
        BY <2>1, MetricsAssumption DEF Write, TypeOK, Writers, MetricsAssumption
      <3>2. CASE w \in Bots
        <4>1. Head(todo[w]) \in Event
          BY <3>1, <3>2 DEF TypeOK
        <4>2. Head(todo[w]).kind \notin {"reset", "window_tps"}
          BY <4>1 DEF Event, Outcome, Timing, Plain
        <4>3. state' = Processed(state, w, Head(todo[w]))
          BY <3>1, <4>2 DEF After
        <4> QED  BY <3>1, <3>2, <4>1, <4>3, ProcessedAgrees
      <3>3. CASE w \in Controllers
        <4>1. Head(todo[w]) \in Order
          BY <3>1, <3>3 DEF TypeOK
        <4> QED  BY <3>1, <4>1, OrderedAgrees
      <3> QED  BY <3>2, <3>3 DEF Writers
    <2>2. ASSUME UNCHANGED state PROVE Agree(state')
      BY <2>2
    <2>3. ASSUME NEW w \in Writers, Claim(w) PROVE Agree(state')
      BY <2>2, <2>3 DEF Claim
    <2>4. ASSUME NEW b \in Bots, NEW ev \in Event, Emit(b, ev) PROVE Agree(state')
      BY <2>2, <2>4 DEF Emit
    <2>5. ASSUME NEW c \in Controllers, NEW call \in Order, Request(c, call)
          PROVE  Agree(state')
      BY <2>2, <2>5 DEF Request
    <2>6. ASSUME NEW e \in Exporters, SnapshotStart(e) \/ SnapshotGet(e) \/ SnapshotEnd(e)
          PROVE  Agree(state')
      BY <2>2, <2>6 DEF SnapshotStart, SnapshotGet, SnapshotEnd
    <2>7. CASE UNCHANGED vars
      BY <2>2, <2>7 DEF vars
    <2> QED  BY <2>1, <2>3, <2>4, <2>5, <2>6, <2>7 DEF Next
  <1> QED  BY <1>1, <1>2, <1>3, MetricsTypes, PTL DEF Spec

============================================================================

-------------------------- MODULE TelemetryProofs --------------------------
(***************************************************************************)
(* Theorems about Telemetry, for every capacity, any number of streams and *)
(* any number of events and samples.                                       *)
(***************************************************************************)
EXTENDS Telemetry, TLAPS

(***************************************************************************)
(* Types                                                                   *)
(***************************************************************************)

(* A batch ends within the bound, and a sample that is being sent into the *)
(* channel has been read.                                                  *)
InFlight ==
    /\ recorded + batch <= LastEvent
    /\ \A s \in Streams : reader[s] = "sending" => read[s] > 0

TypeInv == TypeOK /\ InFlight

LEMMA TypeInit == Init => TypeInv
BY TelemetryAssumption DEF Init, TypeInv, TypeOK, InFlight

LEMMA Appended ==
    ASSUME NEW S, NEW s \in Seq(S), NEW x \in S
    PROVE  /\ Append(s, x) \in Seq(S) /\ Len(Append(s, x)) = Len(s) + 1
           /\ Append(s, x)[Len(s) + 1] = x
           /\ \A i \in 1..Len(s) : Append(s, x)[i] = s[i]
OBVIOUS

LEMMA Heads ==
    ASSUME NEW S, NEW q \in Seq(S), q # <<>>
    PROVE  /\ Head(q) \in S /\ Tail(q) \in Seq(S) /\ Len(q) \in Nat \ {0}
           /\ Len(Tail(q)) = Len(q) - 1 /\ Head(q) = q[1]
           /\ \A i \in 1..Len(q) - 1 : Tail(q)[i] = q[i + 1]
OBVIOUS

(* Putting an item at the end of a full or a half-full log.                *)
LEMMA Pushed ==
    ASSUME NEW S, NEW max \in Nat \ {0}, NEW s \in Seq(S), Len(s) <= max, NEW x \in S, NEW p,
           Len(s) < max => p = Append(s, x),
           Len(s) = max => p = Append(Tail(s), x)
    PROVE  /\ p \in Seq(S) /\ Len(p) <= max
           /\ p[Len(p)] = x
           /\ Len(s) < max => Len(p) = Len(s) + 1 /\ \A i \in 1..Len(s) : p[i] = s[i]
           /\ Len(s) = max => Len(p) = max /\ \A i \in 1..max - 1 : p[i] = s[i + 1]
<1>0. Len(s) \in Nat
  OBVIOUS
<1>1. CASE Len(s) < max
  <2>0. p = Append(s, x)
    BY <1>1
  <2> QED
    BY <1>0, <1>1, <2>0, Appended
<1>2. CASE Len(s) = max
  <2>0. p = Append(Tail(s), x)
    BY <1>2
  <2>1. s # <<>>
    BY <1>2
  <2>2. PICK t \in Seq(S) : t = Tail(s)
    BY <2>1, Heads
  <2>3. Len(t) = max - 1 /\ \A i \in 1..max - 1 : t[i] = s[i + 1]
    BY <1>2, <2>1, <2>2, Heads
  <2>4. /\ p \in Seq(S) /\ Len(p) = Len(t) + 1 /\ p[Len(t) + 1] = x
        /\ \A i \in 1..Len(t) : p[i] = t[i]
    BY <2>0, <2>2, Appended
  <2> QED
    BY <1>2, <2>3, <2>4
<1> QED
  BY <1>0, <1>1, <1>2

(* record drains one event at most: its log is never over its capacity.    *)
LEMMA Drained1 ==
    ASSUME NEW n \in Nat, NEW max \in Nat \ {0}, NEW s \in Seq(1..n), Len(s) <= max,
           NEW excess, excess = IF Len(s) >= max THEN Len(s) - max + 1 ELSE 0
    PROVE  SubSeq(s, excess + 1, Len(s)) = IF Len(s) >= max THEN Tail(s) ELSE s
<1>0. Len(s) \in Nat
  OBVIOUS
<1>1. CASE ~(Len(s) >= max)
  <2>1. SubSeq(s, 1, Len(s)) = s
    OBVIOUS
  <2>2. excess + 1 = 1
    BY <1>1
  <2> QED
    BY <1>1, <2>1, <2>2
<1>2. CASE Len(s) >= max
  <2>1. SubSeq(s, 2, Len(s)) = Tail(s)
    BY <1>2
  <2>2. excess + 1 = 2
    <3>1. Len(s) = max /\ Len(s) - max + 1 = 1
      BY <1>0, <1>2
    <3> QED
      BY <1>2, <3>1
  <2> QED
    BY <1>2, <2>1, <2>2
<1> QED
  BY <1>1, <1>2

(* record and record_batch make room in different ways, with one outcome.  *)
LEMMA RecordPushes ==
    ASSUME TypeOK, Record
    PROVE  events' = Append(IF Len(events) >= MaxEvents THEN Tail(events) ELSE events, recorded + 1)
<1>1. PICK excess : excess = IF Len(events) >= MaxEvents THEN Len(events) - MaxEvents + 1 ELSE 0
  OBVIOUS
<1>2. SubSeq(events, excess + 1, Len(events)) = IF Len(events) >= MaxEvents THEN Tail(events) ELSE events
  BY <1>1, Drained1, TelemetryAssumption DEF TypeOK
<1> QED
  BY <1>1, <1>2 DEF Record

LEMMA TypeStep == TypeInv /\ [Next]_vars => TypeInv'
<1> SUFFICES ASSUME TypeInv, [Next]_vars PROVE TypeInv'
  OBVIOUS
<1> USE TelemetryAssumption
<1>0. CASE UNCHANGED vars
  BY <1>0 DEF TypeInv, TypeOK, InFlight, vars, recorderVars, bufferVars, clientVars, coordinatorVars
<1>1. CASE Record
  <2>1. recorded + 1 \in 1..LastEvent /\ batch = 0
    BY <1>1 DEF Record, TypeInv, TypeOK
  <2>2. events' = Append(IF Len(events) >= MaxEvents THEN Tail(events) ELSE events, recorded + 1)
    BY <1>1, RecordPushes DEF TypeInv
  <2>3. events \in Seq(1..LastEvent) /\ Len(events) <= MaxEvents /\ LastEvent \in Nat /\ MaxEvents \in Nat \ {0}
    BY DEF TypeInv, TypeOK
  <2>4. /\ Len(events) < MaxEvents => events' = Append(events, recorded + 1)
        /\ Len(events) = MaxEvents => events' = Append(Tail(events), recorded + 1)
    BY <2>2, <2>3
  <2>5. PICK S : S = 1..LastEvent
    OBVIOUS
  <2>7. events \in Seq(S) /\ recorded + 1 \in S /\ Len(events) <= MaxEvents /\ MaxEvents \in Nat \ {0}
    BY <2>1, <2>3, <2>5
  <2>8. events' \in Seq(S) /\ Len(events') <= MaxEvents
    BY <2>4, <2>7, Pushed
  <2>9. events' \in Seq(1..LastEvent) /\ Len(events') <= MaxEvents
    BY <2>5, <2>8
  <2> QED
    BY <1>1, <2>1, <2>9 DEF Record, TypeInv, TypeOK, InFlight, bufferVars, clientVars, coordinatorVars
<1>2. CASE RecordNext
  <2>1. recorded + 1 \in 1..LastEvent /\ batch \in Nat \ {0} /\ recorded \in Nat
    BY <1>2 DEF RecordNext, TypeInv, TypeOK, InFlight
  <2>3. events \in Seq(1..LastEvent) /\ Len(events) <= MaxEvents /\ LastEvent \in Nat /\ MaxEvents \in Nat \ {0}
    BY DEF TypeInv, TypeOK
  <2>4. /\ Len(events) < MaxEvents => events' = Append(events, recorded + 1)
        /\ Len(events) = MaxEvents => events' = Append(Tail(events), recorded + 1)
    BY <1>2, <2>3 DEF RecordNext
  <2>5. PICK S : S = 1..LastEvent
    OBVIOUS
  <2>7. events \in Seq(S) /\ recorded + 1 \in S /\ Len(events) <= MaxEvents /\ MaxEvents \in Nat \ {0}
    BY <2>1, <2>3, <2>5
  <2>8. events' \in Seq(S) /\ Len(events') <= MaxEvents
    BY <2>4, <2>7, Pushed
  <2>9. events' \in Seq(1..LastEvent) /\ Len(events') <= MaxEvents
    BY <2>5, <2>8
  <2> QED
    BY <1>2, <2>1, <2>9 DEF RecordNext, TypeInv, TypeOK, InFlight, bufferVars, clientVars, coordinatorVars
<1>3. CASE Clear
  BY <1>3 DEF Clear, TypeInv, TypeOK, InFlight, bufferVars, clientVars, coordinatorVars
<1>4. ASSUME NEW n \in 1..MaxBatch, RecordBatch(n) PROVE TypeInv'
  BY <1>4 DEF RecordBatch, TypeInv, TypeOK, InFlight, bufferVars, clientVars, coordinatorVars
<1>5. CASE Buffer
  <2>1. sampled + 1 \in 1..LastSample
    BY <1>5 DEF Buffer, TypeInv, TypeOK
  <2>3. buffer \in Seq(1..LastSample) /\ Len(buffer) <= MaxBufferSize /\ LastSample \in Nat /\ MaxBufferSize \in Nat \ {0}
    BY DEF TypeInv, TypeOK
  <2>4. /\ Len(buffer) < MaxBufferSize => buffer' = Append(buffer, sampled + 1)
        /\ Len(buffer) = MaxBufferSize => buffer' = Append(Tail(buffer), sampled + 1)
    BY <1>5, <2>3 DEF Buffer
  <2>5. PICK S : S = 1..LastSample
    OBVIOUS
  <2>7. buffer \in Seq(S) /\ sampled + 1 \in S /\ Len(buffer) <= MaxBufferSize /\ MaxBufferSize \in Nat \ {0}
    BY <2>1, <2>3, <2>5
  <2>8. buffer' \in Seq(S) /\ Len(buffer') <= MaxBufferSize
    BY <2>4, <2>7, Pushed
  <2>9. buffer' \in Seq(1..LastSample) /\ Len(buffer') <= MaxBufferSize
    BY <2>5, <2>8
  <2> QED
    BY <1>5, <2>1, <2>9 DEF Buffer, TypeInv, TypeOK, InFlight, recorderVars, clientVars, coordinatorVars
<1>6. CASE Flush
  BY <1>6 DEF Flush, TypeInv, TypeOK, InFlight, recorderVars, coordinatorVars
<1>7. ASSUME NEW s \in Streams, Send(s) PROVE TypeInv'
  <2>1. Head(hand) \in 1..LastSample /\ Tail(hand) \in Seq(1..LastSample) /\ Len(Tail(hand)) = Len(hand) - 1
    <3>1. PICK S, q : S = 1..LastSample /\ q = hand
      OBVIOUS
    <3>2. q \in Seq(S) /\ q # <<>>
      BY <1>7, <3>1 DEF Send, TypeInv, TypeOK
    <3>3. Head(q) \in S /\ Tail(q) \in Seq(S) /\ Len(Tail(q)) = Len(q) - 1
      BY <3>2
    <3> QED
      BY <3>1, <3>3
  <2>0. sent[s] \in Seq(1..LastSample)
    BY DEF TypeInv, TypeOK
  <2>2. Append(sent[s], Head(hand)) \in Seq(1..LastSample) /\ Len(Append(sent[s], Head(hand))) = Len(sent[s]) + 1
    <3>1. PICK S, q, x : S = 1..LastSample /\ q = sent[s] /\ x = Head(hand)
      OBVIOUS
    <3>2. q \in Seq(S) /\ x \in S
      BY <2>0, <2>1, <3>1
    <3>3. Append(q, x) \in Seq(S) /\ Len(Append(q, x)) = Len(q) + 1
      BY <3>2
    <3> QED
      BY <3>1, <3>3
  <2>3. sent' \in [Streams -> Seq(1..LastSample)] /\ \A t \in Streams : Len(sent[t]) \in Nat /\ Len(sent'[t]) >= Len(sent[t])
    <3>1. sent' = [sent EXCEPT ![s] = Append(sent[s], Head(hand))] /\ sent \in [Streams -> Seq(1..LastSample)]
      BY <1>7 DEF Send, TypeInv, TypeOK
    <3>2. \A t \in Streams : sent'[t] = IF t = s THEN Append(sent[s], Head(hand)) ELSE sent[t]
      BY <3>1
    <3>3. \A t \in Streams : Len(sent[t]) \in Nat
      BY <3>1
    <3> QED
      BY <2>2, <3>1, <3>2, <3>3
  <2>4. \A t \in Streams : Len(sent'[t]) \in Nat
    BY <2>3
  <2>5. \A t \in Streams : read[t] <= Len(sent'[t])
    <3>1. \A t \in Streams : read[t] \in Nat /\ read[t] <= Len(sent[t])
      BY DEF TypeInv, TypeOK
    <3> QED
      BY <2>3, <2>4, <3>1
  <2>9. hand' \in Seq(1..LastSample) /\ Len(hand') <= MaxBufferSize
    BY <1>7, <2>1 DEF Send, TypeInv, TypeOK
  <2> QED
    BY <1>7, <2>3, <2>5, <2>9 DEF Send, TypeInv, TypeOK, InFlight, recorderVars, bufferVars, coordinatorVars
<1>8. ASSUME NEW s \in Streams, Close(s) \/ Break(s) PROVE TypeInv'
  BY <1>8 DEF Close, Break, TypeInv, TypeOK, InFlight, recorderVars, bufferVars, coordinatorVars
<1>9. ASSUME NEW s \in Streams, StreamMetrics(s) PROVE TypeInv'
  BY <1>9 DEF StreamMetrics, TypeInv, TypeOK, InFlight, recorderVars, bufferVars
<1>10. ASSUME NEW s \in Streams, Read(s) PROVE TypeInv'
  <2>1. \A t \in Streams : Len(sent[t]) \in Nat
    BY DEF TypeInv, TypeOK
  <2>0. read \in [Streams -> Nat] /\ read[s] + 1 \in Nat
    BY DEF TypeInv, TypeOK
  <2>2. read' \in [Streams -> Nat] /\ read'[s] = read[s] + 1 /\ \A t \in Streams \ {s} : read'[t] = read[t]
    BY <1>10, <2>0 DEF Read
  <2>3. read'[s] <= Len(sent[s])
    <3>1. read[s] < Len(sent[s]) /\ read[s] \in Nat /\ Len(sent[s]) \in Nat
      BY <1>10, <2>0, <2>1 DEF Read
    <3> QED
      BY <2>2, <3>1
  <2>4. \A t \in Streams : read'[t] <= Len(sent'[t])
    BY <1>10, <2>2, <2>3 DEF Read, TypeInv, TypeOK, clientVars
  <2>5. \A t \in Streams : reader'[t] = "sending" => read'[t] > 0
    <3>1. read'[s] > 0
      BY <2>0, <2>2
    <3>2. \A t \in Streams \ {s} : reader'[t] = reader[t]
      BY <1>10 DEF Read, TypeInv, TypeOK
    <3>3. \A t \in Streams : reader[t] = "sending" => read[t] > 0
      BY DEF TypeInv, InFlight
    <3> QED
      BY <2>2, <3>1, <3>2, <3>3
  <2> QED
    BY <1>10, <2>2, <2>4, <2>5 DEF Read, TypeInv, TypeOK, InFlight, recorderVars, bufferVars, clientVars
<1>11. ASSUME NEW s \in Streams, End(s) PROVE TypeInv'
  BY <1>11 DEF End, TypeInv, TypeOK, InFlight, recorderVars, bufferVars, clientVars
<1>12. ASSUME NEW s \in Streams, Enqueue(s) PROVE TypeInv'
  <2>1. <<s, read[s]>> \in Streams \X (Nat \ {0})
    BY <1>12 DEF Enqueue, TypeInv, TypeOK, InFlight
  <2>2. queue' \in Seq(Streams \X (Nat \ {0})) /\ Len(queue') <= ChannelSize
    BY <1>12, <2>1 DEF Enqueue, TypeInv, TypeOK
  <2> QED
    BY <1>12, <2>2 DEF Enqueue, TypeInv, TypeOK, InFlight, recorderVars, bufferVars, clientVars
<1>13. CASE Process
  <2>1. Head(queue) \in Streams \X (Nat \ {0}) /\ Tail(queue) \in Seq(Streams \X (Nat \ {0}))
    BY <1>13, Heads DEF Process, TypeInv, TypeOK
  <2>2. Len(queue') <= ChannelSize
    BY <1>13 DEF Process, TypeInv, TypeOK
  <2>3. got' \in [Streams -> Nat]
    BY <1>13, <2>1 DEF Process, TypeInv, TypeOK
  <2> QED
    BY <1>13, <2>1, <2>2, <2>3 DEF Process, TypeInv, TypeOK, InFlight, recorderVars, bufferVars, clientVars
<1> QED
  BY <1>0, <1>1, <1>2, <1>3, <1>4, <1>5, <1>6, <1>7, <1>8, <1>9, <1>10, <1>11, <1>12, <1>13 DEF Next

(* Recorder, buffer, streams and channel are well-typed and within their   *)
(* capacities in every reachable state.                                    *)
THEOREM TelemetryTypes == Spec => []TypeOK
<1>1. TypeInv => TypeOK
  BY DEF TypeInv
<1> QED
  BY TypeInit, TypeStep, <1>1, PTL DEF Spec

LEMMA TypeInvHolds == Spec => []TypeInv
BY TypeInit, TypeStep, PTL DEF Spec

(***************************************************************************)
(* The windows                                                             *)
(***************************************************************************)

(* A log that ends with the number m and has no gap.                       *)
Ends(s, m) == \A i \in 1..Len(s) : s[i] = m - Len(s) + i

RecorderEnds == Ends(events, recorded)
BufferEnds == Ends(buffer, sampled)

WindowInv == TypeInv /\ RecorderEnds /\ BufferEnds

RunTo(n, m) == [i \in 1..n |-> m - n + i]

LEMMA Run ==
    ASSUME NEW S, NEW p \in Seq(S), NEW m \in Nat, Ends(p, m)
    PROVE  p = RunTo(Len(p), m)
<1>1. p = [i \in 1..Len(p) |-> p[i]]
  OBVIOUS
<1> QED
  BY <1>1 DEF Ends, RunTo

LEMMA WindowPut ==
    ASSUME NEW S, NEW max \in Nat \ {0}, NEW s \in Seq(S), Len(s) <= max,
           NEW m \in Nat, NEW x \in S, x = m + 1, Ends(s, m), NEW p,
           Len(s) < max => p = Append(s, x),
           Len(s) = max => p = Append(Tail(s), x)
    PROVE  /\ Ends(p, x)
           /\ Len(s) < max => p = RunTo(Len(s) + 1, x)
           /\ Len(s) = max => p = RunTo(max, x)
<1>3. /\ p \in Seq(S) /\ Len(p) <= max
      /\ p[Len(p)] = x
      /\ Len(s) < max => Len(p) = Len(s) + 1 /\ \A i \in 1..Len(s) : p[i] = s[i]
      /\ Len(s) = max => Len(p) = max /\ \A i \in 1..max - 1 : p[i] = s[i + 1]
  BY Pushed
<1>4. Len(s) \in Nat /\ \A i \in 1..Len(s) : s[i] = m - Len(s) + i
  BY DEF Ends
<1>5. CASE Len(s) < max
  <2>1. ASSUME NEW i \in 1..Len(p) PROVE p[i] = x - Len(p) + i
    <3>1. CASE i = Len(p)
      BY <1>3, <3>1
    <3>2. CASE i < Len(p)
      <4>1. i \in 1..Len(s) /\ p[i] = s[i] /\ Len(p) = Len(s) + 1
        BY <1>3, <1>4, <1>5, <3>2
      <4>2. s[i] = m - Len(s) + i
        BY <1>4, <4>1
      <4> QED
        BY <1>4, <4>1, <4>2
    <3> QED
      BY <1>3, <1>4, <1>5, <3>1, <3>2
  <2>2. Ends(p, x)
    BY <2>1 DEF Ends
  <2> QED
    BY <1>3, <1>5, <2>2, Run
<1>6. CASE Len(s) = max
  <2>1. ASSUME NEW i \in 1..Len(p) PROVE p[i] = x - Len(p) + i
    <3>1. CASE i = Len(p)
      BY <1>3, <3>1
    <3>2. CASE i < Len(p)
      <4>1. PICK j \in 1..Len(s) : j = i + 1
        BY <1>3, <1>4, <1>6, <3>2
      <4>2. p[i] = s[j] /\ s[j] = m - Len(s) + j
        BY <1>3, <1>4, <1>6, <3>2, <4>1
      <4>3. Len(p) = Len(s)
        BY <1>3, <1>6
      <4> QED
        BY <1>4, <4>1, <4>2, <4>3
    <3> QED
      BY <1>3, <1>4, <1>6, <3>1, <3>2
  <2>2. Ends(p, x)
    BY <2>1 DEF Ends
  <2>3. x \in Nat /\ Len(p) = max
    BY <1>3, <1>6
  <2>4. p = RunTo(Len(p), x)
    BY <1>3, <2>2, <2>3, Run
  <2> QED
    BY <1>4, <1>6, <2>2, <2>3, <2>4
<1> QED
  BY <1>4, <1>5, <1>6

LEMMA WindowInit == Init => WindowInv
BY TypeInit DEF Init, WindowInv, RecorderEnds, BufferEnds, Ends

LEMMA RecorderPut ==
    ASSUME WindowInv, Record \/ RecordNext
    PROVE  RecorderEnds' /\ RecorderWindow!Put
<1>1. /\ events \in Seq(1..LastEvent) /\ Len(events) <= MaxEvents /\ Len(events) \in Nat
      /\ MaxEvents \in Nat \ {0} /\ LastEvent \in Nat
      /\ recorded \in Nat /\ Ends(events, recorded)
  BY TelemetryAssumption DEF WindowInv, TypeInv, TypeOK, RecorderEnds
<1>2. recorded + 1 \in 1..LastEvent /\ recorded' = recorded + 1
  <2>1. CASE Record
    BY <1>1, <2>1 DEF Record
  <2>2. CASE RecordNext
    BY <1>1, <2>2 DEF RecordNext, WindowInv, TypeInv, TypeOK, InFlight
  <2> QED
    BY <2>1, <2>2
<1>3. events' = Append(IF Len(events) >= MaxEvents THEN Tail(events) ELSE events, recorded + 1)
  BY RecordPushes DEF RecordNext, WindowInv, TypeInv
<1>4. /\ Len(events) < MaxEvents => events' = Append(events, recorded + 1)
      /\ Len(events) = MaxEvents => events' = Append(Tail(events), recorded + 1)
  BY <1>1, <1>3
<1>5. PICK S, x : S = 1..LastEvent /\ x = recorded + 1
  OBVIOUS
<1>6. /\ events \in Seq(S) /\ x \in S /\ x = recorded + 1 /\ Len(events) <= MaxEvents /\ MaxEvents \in Nat \ {0}
      /\ recorded \in Nat /\ Ends(events, recorded)
  BY <1>1, <1>2, <1>5
<1>7. PICK s, p : s = events /\ p = events'
  OBVIOUS
<1>11. /\ s \in Seq(S) /\ Len(s) <= MaxEvents /\ Ends(s, recorded)
       /\ Len(s) < MaxEvents => p = Append(s, x)
       /\ Len(s) = MaxEvents => p = Append(Tail(s), x)
  BY <1>4, <1>5, <1>6, <1>7
<1>12. /\ Ends(p, x)
       /\ Len(s) < MaxEvents => p = RunTo(Len(s) + 1, x)
       /\ Len(s) = MaxEvents => p = RunTo(MaxEvents, x)
  BY <1>6, <1>11, WindowPut
<1>8. /\ Ends(events', x)
      /\ Len(events) < MaxEvents => events' = RunTo(Len(events) + 1, x)
      /\ Len(events) = MaxEvents => events' = RunTo(MaxEvents, x)
  BY <1>7, <1>12
<1>9. RecorderEnds'
  BY <1>2, <1>5, <1>8 DEF RecorderEnds, Ends
<1>10. events' = RecorderWindow!Latest(IF Len(events) < MaxEvents THEN Len(events) + 1 ELSE MaxEvents, recorded + 1)
  <2>1. CASE Len(events) < MaxEvents
    BY <1>5, <1>8, <2>1 DEF RecorderWindow!Latest, RunTo
  <2>2. CASE Len(events) = MaxEvents
    BY <1>1, <1>5, <1>8, <2>2 DEF RecorderWindow!Latest, RunTo
  <2> QED
    BY <1>1, <2>1, <2>2
<1> QED
  BY <1>2, <1>9, <1>10 DEF RecorderWindow!Put

LEMMA BufferPut ==
    ASSUME WindowInv, Buffer
    PROVE  BufferEnds' /\ BufferWindow!Put
<1>1. /\ buffer \in Seq(1..LastSample) /\ Len(buffer) <= MaxBufferSize /\ Len(buffer) \in Nat
      /\ MaxBufferSize \in Nat \ {0} /\ LastSample \in Nat
      /\ sampled \in Nat /\ Ends(buffer, sampled)
  BY TelemetryAssumption DEF WindowInv, TypeInv, TypeOK, BufferEnds
<1>2. sampled + 1 \in 1..LastSample /\ sampled' = sampled + 1
  BY TelemetryAssumption DEF Buffer, WindowInv, TypeInv, TypeOK
<1>4. /\ Len(buffer) < MaxBufferSize => buffer' = Append(buffer, sampled + 1)
      /\ Len(buffer) = MaxBufferSize => buffer' = Append(Tail(buffer), sampled + 1)
  BY <1>1 DEF Buffer
<1>5. PICK S, x : S = 1..LastSample /\ x = sampled + 1
  OBVIOUS
<1>6. /\ buffer \in Seq(S) /\ x \in S /\ x = sampled + 1 /\ Len(buffer) <= MaxBufferSize /\ MaxBufferSize \in Nat \ {0}
      /\ sampled \in Nat /\ Ends(buffer, sampled)
  BY <1>1, <1>2, <1>5
<1>7. PICK s, p : s = buffer /\ p = buffer'
  OBVIOUS
<1>11. /\ s \in Seq(S) /\ Len(s) <= MaxBufferSize /\ Ends(s, sampled)
       /\ Len(s) < MaxBufferSize => p = Append(s, x)
       /\ Len(s) = MaxBufferSize => p = Append(Tail(s), x)
  BY <1>4, <1>5, <1>6, <1>7
<1>12. /\ Ends(p, x)
       /\ Len(s) < MaxBufferSize => p = RunTo(Len(s) + 1, x)
       /\ Len(s) = MaxBufferSize => p = RunTo(MaxBufferSize, x)
  BY <1>6, <1>11, WindowPut
<1>8. /\ Ends(buffer', x)
      /\ Len(buffer) < MaxBufferSize => buffer' = RunTo(Len(buffer) + 1, x)
      /\ Len(buffer) = MaxBufferSize => buffer' = RunTo(MaxBufferSize, x)
  BY <1>7, <1>12
<1>9. BufferEnds'
  BY <1>2, <1>5, <1>8 DEF BufferEnds, Ends
<1>10. buffer' = BufferWindow!Latest(IF Len(buffer) < MaxBufferSize THEN Len(buffer) + 1 ELSE MaxBufferSize, sampled + 1)
  <2>1. CASE Len(buffer) < MaxBufferSize
    BY <1>5, <1>8, <2>1 DEF BufferWindow!Latest, RunTo
  <2>2. CASE Len(buffer) = MaxBufferSize
    BY <1>1, <1>5, <1>8, <2>2 DEF BufferWindow!Latest, RunTo
  <2> QED
    BY <1>1, <2>1, <2>2
<1> QED
  BY <1>2, <1>9, <1>10 DEF BufferWindow!Put

LEMMA WindowStep ==
    WindowInv /\ [Next]_vars =>
        /\ WindowInv'
        /\ [RecorderWindow!Next]_(RecorderWindow!window)
        /\ [BufferWindow!Next]_(BufferWindow!window)
<1> SUFFICES ASSUME WindowInv, [Next]_vars
             PROVE  /\ RecorderEnds' /\ BufferEnds'
                    /\ [RecorderWindow!Next]_(RecorderWindow!window)
                    /\ [BufferWindow!Next]_(BufferWindow!window)
  BY TypeStep DEF WindowInv
<1> DEFINE Recorder == RecorderEnds' /\ [RecorderWindow!Next]_(RecorderWindow!window)
           Buffered == BufferEnds' /\ [BufferWindow!Next]_(BufferWindow!window)
<1>a. UNCHANGED <<events, recorded>> => Recorder
  BY DEF WindowInv, RecorderEnds, Ends, RecorderWindow!window
<1>b. UNCHANGED <<buffer, sampled>> => Buffered
  BY DEF WindowInv, BufferEnds, Ends, BufferWindow!window
<1>c. Len(events) \in Nat /\ Len(buffer) \in Nat /\ recorded \in Nat /\ sampled \in Nat
  BY DEF WindowInv, TypeInv, TypeOK
<1>d. ASSUME Record \/ RecordNext PROVE Recorder
  BY <1>d, RecorderPut DEF RecorderWindow!Next
<1>e. ASSUME Clear PROVE Recorder
  <2>1. RecorderEnds'
    BY <1>e DEF Clear, RecorderEnds, Ends
  <2>2. CASE Len(events) = 0
    BY <1>a, <1>e, <2>2 DEF Clear, WindowInv, TypeInv, TypeOK
  <2>3. CASE Len(events) > 0
    <3>1. RecorderWindow!Take(Len(events))
      BY <1>c, <1>e DEF Clear, RecorderWindow!Take, RecorderWindow!Latest
    <3> QED
      BY <1>c, <2>1, <2>3, <3>1 DEF RecorderWindow!Next
  <2> QED
    BY <1>c, <2>2, <2>3
<1>f. ASSUME Buffer PROVE Buffered
  BY <1>f, BufferPut DEF WindowInv, BufferWindow!Next
<1>g. ASSUME Flush PROVE Buffered
  <2>1. BufferEnds'
    BY <1>g DEF Flush, BufferEnds, Ends
  <2>2. Len(buffer) > 0
    BY <1>c, <1>g DEF Flush, WindowInv, TypeInv, TypeOK
  <2>3. BufferWindow!Take(Len(buffer))
    BY <1>c, <1>g DEF Flush, BufferWindow!Take, BufferWindow!Latest
  <2> QED
    BY <1>c, <2>1, <2>2, <2>3 DEF BufferWindow!Next
<1>h. Recorder /\ Buffered
  <2> HIDE DEF Recorder, Buffered
  <2>0. CASE UNCHANGED vars
    BY <1>a, <1>b, <2>0 DEF vars, recorderVars, bufferVars
  <2>1. CASE Record \/ RecordNext
    BY <1>b, <1>d, <2>1 DEF Record, RecordNext, bufferVars
  <2>2. CASE Clear
    BY <1>b, <1>e, <2>2 DEF Clear, bufferVars
  <2>3. CASE \E n \in 1..MaxBatch : RecordBatch(n)
    BY <1>a, <1>b, <2>3 DEF RecordBatch, bufferVars
  <2>4. CASE Buffer
    BY <1>a, <1>f, <2>4 DEF Buffer, recorderVars
  <2>5. CASE Flush
    BY <1>a, <1>g, <2>5 DEF Flush, recorderVars
  <2>6. CASE \E s \in Streams : Send(s) \/ Close(s) \/ Break(s) \/ StreamMetrics(s)
    BY <1>a, <1>b, <2>6 DEF Send, Close, Break, StreamMetrics, recorderVars, bufferVars
  <2>7. CASE (\E s \in Streams : Read(s) \/ End(s) \/ Enqueue(s)) \/ Process
    BY <1>a, <1>b, <2>7 DEF Read, End, Enqueue, Process, recorderVars, bufferVars
  <2> QED
    BY <2>0, <2>1, <2>2, <2>3, <2>4, <2>5, <2>6, <2>7 DEF Next
<1> QED
  BY <1>h

LEMMA WindowInvHolds == Spec => []WindowInv
BY WindowInit, WindowStep, PTL DEF Spec

(* The recorder's log is always the unbroken run of the latest events, as  *)
(* long as its capacity allows since it was cleared.                       *)
THEOREM RecorderKeepsTheLatest == Spec => RecorderIsWindow
<1>1. Init => RecorderWindow!Init
  BY DEF Init, RecorderWindow!Init
<1> QED
  BY <1>1, WindowInit, WindowStep, PTL DEF Spec, RecorderIsWindow, RecorderWindow!Spec

(* So is the buffer's of the latest samples, since it was flushed.         *)
THEOREM BufferKeepsTheLatest == Spec => BufferIsWindow
<1>1. Init => BufferWindow!Init
  BY DEF Init, BufferWindow!Init
<1> QED
  BY <1>1, WindowInit, WindowStep, PTL DEF Spec, BufferIsWindow, BufferWindow!Spec

(***************************************************************************)
(* Streams                                                                 *)
(***************************************************************************)

(* How much of a stream its task has sent into the channel.                *)
Passed(s) == IF reader[s] = "sending" THEN read[s] - 1 ELSE read[s]

(* The channel holds, of each stream, what was passed on and not yet       *)
(* processed, in order.                                                    *)
QueueInv ==
    /\ \A s \in Streams : stream[s] = "none" => reader[s] = "none"
    /\ \A s \in Streams : got[s] <= Passed(s)
    /\ \A i \in 1..Len(queue) : \A s \in Streams :
          queue[i][1] = s => queue[i][2] > got[s] /\ queue[i][2] <= Passed(s)
    /\ \A i, j \in 1..Len(queue) : i < j /\ queue[i][1] = queue[j][1] => queue[i][2] < queue[j][2]
    /\ \A s \in Streams : \A k \in got[s] + 1..Passed(s) : \E i \in 1..Len(queue) : queue[i] = <<s, k>>

StreamInv == TypeInv /\ QueueInv

LEMMA PassedType == TypeInv => \A s \in Streams : Passed(s) \in Nat
BY DEF TypeInv, TypeOK, InFlight, Passed

LEMMA PassedPrimed == TypeInv' => \A s \in Streams : Passed(s)' \in Nat
BY DEF TypeInv, TypeOK, InFlight, Passed

LEMMA QueuePlaces ==
    ASSUME TypeInv
    PROVE  /\ Len(queue) \in Nat
           /\ \A i \in 1..Len(queue) : queue[i][1] \in Streams /\ queue[i][2] \in Nat \ {0}
                                       /\ queue[i] = <<queue[i][1], queue[i][2]>>
<1>1. PICK S : S = Streams \X (Nat \ {0})
  OBVIOUS
<1>2. queue \in Seq(S)
  BY <1>1 DEF TypeInv, TypeOK
<1>3. Len(queue) \in Nat /\ \A i \in 1..Len(queue) : queue[i] \in S
  BY <1>2
<1> QED
  BY <1>1, <1>3

(* A step that leaves the channel, and what was passed on, alone.          *)
LEMMA QueueUnchanged ==
    ASSUME QueueInv, UNCHANGED <<queue, got>>,
           \A s \in Streams : Passed(s)' = Passed(s),
           \A s \in Streams : stream'[s] = "none" => reader'[s] = "none",
           TypeInv
    PROVE  QueueInv'
<1>1. \A i \in 1..Len(queue) : queue[i][1] \in Streams
  BY QueuePlaces
<1> QED
  BY <1>1 DEF QueueInv

LEMMA StreamStep == StreamInv /\ [Next]_vars => StreamInv' /\ [InOrder]_vars
<1> SUFFICES ASSUME StreamInv, [Next]_vars PROVE QueueInv' /\ [InOrder]_vars
  BY TypeStep DEF StreamInv
<1> USE DEF StreamInv
<1>t. TypeInv' /\ TypeInv
  BY TypeStep
<1>p. \A s \in Streams : Passed(s) \in Nat
  BY PassedType
<1>q. got \in [Streams -> Nat] /\ reader \in [Streams -> {"none", "reading", "sending", "ended"}]
      /\ read \in [Streams -> Nat] /\ queue \in Seq(Streams \X (Nat \ {0}))
  BY DEF TypeInv, TypeOK
<1>0. CASE UNCHANGED <<stream, reader, read, queue, got>>
  <2>1. \A s \in Streams : Passed(s)' = Passed(s)
    BY <1>0 DEF Passed
  <2> QED
    BY <1>0, <1>q, <2>1, QueueUnchanged DEF QueueInv, InOrder
<1>1. ASSUME NEW s \in Streams, Close(s) \/ Break(s) PROVE QueueInv' /\ InOrder
  <2>1. \A t \in Streams : Passed(t)' = Passed(t)
    BY <1>1 DEF Close, Break, coordinatorVars, Passed
  <2>2. \A t \in Streams : stream'[t] = "none" => reader'[t] = "none"
    BY <1>1 DEF Close, Break, coordinatorVars, QueueInv, TypeInv, TypeOK
  <2> QED
    BY <1>1, <1>q, <2>1, <2>2, QueueUnchanged DEF Close, Break, coordinatorVars, InOrder
<1>2. ASSUME NEW s \in Streams, StreamMetrics(s) PROVE QueueInv' /\ InOrder
  <2>1. reader[s] = "none" /\ reader' = [reader EXCEPT ![s] = "reading"]
    BY <1>2 DEF StreamMetrics, QueueInv
  <2>2. \A t \in Streams : Passed(t)' = Passed(t)
    BY <1>2, <1>q, <2>1 DEF StreamMetrics, Passed
  <2>3. \A t \in Streams : stream'[t] = "none" => reader'[t] = "none"
    BY <1>2, <1>q, <2>1 DEF StreamMetrics, QueueInv, TypeInv, TypeOK
  <2> QED
    BY <1>2, <1>q, <2>2, <2>3, QueueUnchanged DEF StreamMetrics, InOrder
<1>3. ASSUME NEW s \in Streams, Read(s) \/ End(s) PROVE QueueInv' /\ InOrder
  <2>1. \A t \in Streams : Passed(t)' = Passed(t)
    <3>1. CASE Read(s)
      <4>1. read'[s] = read[s] + 1 /\ reader'[s] = "sending" /\ reader[s] = "reading" /\ read[s] \in Nat
        BY <1>q, <3>1 DEF Read
      <4>2. \A t \in Streams \ {s} : read'[t] = read[t] /\ reader'[t] = reader[t]
        BY <1>q, <3>1 DEF Read
      <4> QED
        BY <4>1, <4>2 DEF Passed
    <3>2. CASE End(s)
      BY <1>q, <3>2 DEF End, Passed
    <3> QED
      BY <1>3, <3>1, <3>2
  <2>2. \A t \in Streams : stream'[t] = "none" => reader'[t] = "none"
    BY <1>3, <1>q DEF Read, End, clientVars, QueueInv
  <2> QED
    BY <1>3, <1>q, <2>1, <2>2, QueueUnchanged DEF Read, End, InOrder
<1>4. ASSUME NEW s \in Streams, Enqueue(s) PROVE QueueInv' /\ InOrder
  <2>1. Passed(s)' = Passed(s) + 1 /\ Passed(s)' = read[s] /\ \A t \in Streams \ {s} : Passed(t)' = Passed(t)
    BY <1>4, <1>q DEF Enqueue, Passed
  <2>2. read[s] \in Nat \ {0}
    BY <1>4, <1>q DEF Enqueue, TypeInv, InFlight
  <2>3. PICK m : m = <<s, read[s]>>
    OBVIOUS
  <2>4. m \in Streams \X (Nat \ {0}) /\ m[1] = s /\ m[2] = Passed(s) + 1
    BY <2>1, <2>2, <2>3
  <2>5. PICK S : S = Streams \X (Nat \ {0})
    OBVIOUS
  <2>6. queue \in Seq(S) /\ m \in S /\ queue' = Append(queue, m)
    BY <1>4, <1>q, <2>3, <2>4, <2>5 DEF Enqueue
  <2>7. /\ Len(queue') = Len(queue) + 1 /\ Len(queue) \in Nat
        /\ queue'[Len(queue) + 1] = m /\ \A i \in 1..Len(queue) : queue'[i] = queue[i]
    BY <2>6
  <2>8. UNCHANGED <<stream, got>>
    BY <1>4 DEF Enqueue, clientVars
  <2>9. \A t \in Streams : stream'[t] = "none" => reader'[t] = "none"
    BY <1>4, <1>q, <2>8 DEF Enqueue, QueueInv
  <2>14. \A t \in Streams : Passed(t)' >= Passed(t)
    BY <1>p, <2>1
  <2>10. ASSUME NEW t \in Streams PROVE got'[t] <= Passed(t)'
    <3>1. got[t] <= Passed(t) /\ Passed(t) \in Nat /\ got[t] \in Nat /\ Passed(t)' >= Passed(t) /\ got'[t] = got[t]
      BY <1>p, <1>q, <2>8, <2>14 DEF QueueInv
    <3> QED
      BY <3>1, <1>t, PassedPrimed
  <2>11. ASSUME NEW i \in 1..Len(queue'), NEW t \in Streams, queue'[i][1] = t
         PROVE queue'[i][2] > got'[t] /\ queue'[i][2] <= Passed(t)'
    <3>1. CASE i = Len(queue) + 1
      <4>1. t = s /\ queue'[i][2] = Passed(s) + 1
        BY <2>4, <2>7, <2>11, <3>1
      <4>2. got[s] <= Passed(s) /\ Passed(s) \in Nat /\ got[s] \in Nat /\ got'[s] = got[s]
        BY <1>p, <1>q, <2>8 DEF QueueInv
      <4> QED
        BY <2>1, <4>1, <4>2
    <3>2. CASE i \in 1..Len(queue)
      <4>1. queue'[i] = queue[i] /\ queue[i][2] \in Nat /\ queue[i][2] > got[t] /\ queue[i][2] <= Passed(t)
        BY <2>7, <2>11, <3>2, QueuePlaces DEF QueueInv
      <4>2. got'[t] = got[t] /\ Passed(t)' >= Passed(t) /\ Passed(t) \in Nat /\ Passed(t)' \in Nat
        BY <1>p, <1>t, <2>8, <2>14, PassedPrimed
      <4> QED
        BY <4>1, <4>2
    <3> QED
      BY <2>7, <3>1, <3>2
  <2>12. ASSUME NEW i \in 1..Len(queue'), NEW j \in 1..Len(queue'), i < j, queue'[i][1] = queue'[j][1]
         PROVE queue'[i][2] < queue'[j][2]
    <3>1. i \in 1..Len(queue) /\ queue'[i] = queue[i]
      BY <2>7, <2>12
    <3>2. CASE j = Len(queue) + 1
      <4>1. queue[i][1] = s /\ queue[i][2] <= Passed(s) /\ queue[i][2] \in Nat
        BY <2>4, <2>7, <2>12, <3>1, <3>2, QueuePlaces DEF QueueInv
      <4> QED
        BY <1>p, <2>4, <2>7, <3>1, <3>2, <4>1
    <3>3. CASE j \in 1..Len(queue)
      BY <2>7, <2>12, <3>1, <3>3 DEF QueueInv
    <3> QED
      BY <2>7, <3>2, <3>3
  <2>13. ASSUME NEW t \in Streams, NEW k \in got'[t] + 1..Passed(t)'
         PROVE \E i \in 1..Len(queue') : queue'[i] = <<t, k>>
    <3>1. CASE k <= Passed(t)
      <4>1. k \in got[t] + 1..Passed(t)
        BY <1>p, <1>q, <2>8, <2>13, <3>1
      <4>2. PICK i \in 1..Len(queue) : queue[i] = <<t, k>>
        BY <4>1 DEF QueueInv
      <4> QED
        BY <2>7, <4>2
    <3>2. CASE ~(k <= Passed(t))
      <4>1. t = s /\ k = read[s]
        BY <1>p, <1>q, <2>1, <2>2, <2>8, <2>13, <3>2
      <4> QED
        BY <2>3, <2>7, <4>1
    <3> QED
      BY <3>1, <3>2
  <2> QED
    BY <1>q, <2>8, <2>9, <2>10, <2>11, <2>12, <2>13 DEF QueueInv, InOrder
<1>5. CASE Process
  <2>1. PICK S : S = Streams \X (Nat \ {0})
    OBVIOUS
  <2>2. queue \in Seq(S) /\ queue # <<>> /\ queue' = Tail(queue)
    BY <1>5, <1>q, <2>1 DEF Process
  <2>3. /\ Len(queue) \in Nat \ {0} /\ Len(queue') = Len(queue) - 1 /\ Head(queue) = queue[1]
        /\ \A i \in 1..Len(queue) - 1 : queue'[i] = queue[i + 1]
    BY <2>2, Heads
  <2>4. PICK s \in Streams, k \in Nat : s = queue[1][1] /\ k = queue[1][2]
    BY <2>3, QueuePlaces
  <2>5. got' = [got EXCEPT ![s] = k] /\ UNCHANGED <<stream, reader, read>>
    BY <1>5, <2>3, <2>4 DEF Process, clientVars
  <2>6. got'[s] = k /\ \A t \in Streams \ {s} : got'[t] = got[t]
    BY <1>q, <2>5
  <2>7. k > got[s] /\ k <= Passed(s)
    BY <2>3, <2>4 DEF QueueInv
  <2>8. k = got[s] + 1
    <3>1. got[s] + 1 \in got[s] + 1..Passed(s)
      BY <1>p, <1>q, <2>7
    <3>2. PICK i \in 1..Len(queue) : queue[i] = <<s, got[s] + 1>>
      BY <3>1 DEF QueueInv
    <3>3. CASE i = 1
      BY <2>4, <3>2, <3>3
    <3>4. CASE i > 1
      <4>1. 1 \in 1..Len(queue) /\ queue[1][1] = queue[i][1] /\ queue[i][2] = got[s] + 1
        BY <2>3, <2>4, <3>2
      <4>2. k < got[s] + 1
        BY <2>4, <3>4, <4>1 DEF QueueInv
      <4> QED
        BY <1>q, <2>7, <4>2
    <3> QED
      BY <2>3, <3>3, <3>4
  <2>9. InOrder
    BY <2>6, <2>8 DEF InOrder
  <2>10. \A t \in Streams : Passed(t)' = Passed(t)
    BY <2>5 DEF Passed
  <2>11. \A t \in Streams : got'[t] <= Passed(t)'
    BY <1>p, <1>q, <2>6, <2>7, <2>10 DEF QueueInv
  <2>12. ASSUME NEW i \in 1..Len(queue'), NEW t \in Streams, queue'[i][1] = t
         PROVE queue'[i][2] > got'[t] /\ queue'[i][2] <= Passed(t)'
    <3>1. PICK j \in 1..Len(queue) : j = i + 1 /\ queue'[i] = queue[j] /\ 1 < j
      BY <2>3
    <3>2. PICK l \in Nat : l = queue[j][2]
      BY QueuePlaces
    <3>3. queue[j][1] = t /\ l > got[t] /\ l <= Passed(t)
      BY <2>12, <3>1, <3>2 DEF QueueInv
    <3>4. t = s => k < l
      <4>1. 1 \in 1..Len(queue)
        BY <2>3
      <4> QED
        BY <2>4, <3>1, <3>2, <3>3, <4>1 DEF QueueInv
    <3> QED
      BY <2>6, <2>10, <3>1, <3>2, <3>3, <3>4
  <2>13. ASSUME NEW i \in 1..Len(queue'), NEW j \in 1..Len(queue'), i < j, queue'[i][1] = queue'[j][1]
         PROVE queue'[i][2] < queue'[j][2]
    <3>1. PICK a \in 1..Len(queue), b \in 1..Len(queue) :
              a = i + 1 /\ b = j + 1 /\ queue'[i] = queue[a] /\ queue'[j] = queue[b]
      BY <2>3
    <3> QED
      BY <2>13, <3>1 DEF QueueInv
  <2>14. ASSUME NEW t \in Streams, NEW l \in got'[t] + 1..Passed(t)'
         PROVE \E i \in 1..Len(queue') : queue'[i] = <<t, l>>
    <3>1. l \in got[t] + 1..Passed(t) /\ (t = s => l # k)
      BY <1>p, <1>q, <2>6, <2>7, <2>10, <2>14
    <3>2. PICK j \in 1..Len(queue) : queue[j] = <<t, l>>
      BY <3>1 DEF QueueInv
    <3>3. j # 1
      BY <2>4, <3>1, <3>2
    <3>4. PICK i \in 1..Len(queue') : i + 1 = j
      BY <2>3, <3>3
    <3> QED
      BY <2>3, <3>2, <3>4
  <2> QED
    BY <1>q, <2>5, <2>9, <2>11, <2>12, <2>13, <2>14 DEF QueueInv
<1> QED
  <2>0. ASSUME UNCHANGED vars PROVE QueueInv' /\ UNCHANGED vars
    BY <1>0, <2>0 DEF vars, clientVars, coordinatorVars
  <2>1. CASE Record \/ RecordNext \/ Clear \/ \E n \in 1..MaxBatch : RecordBatch(n)
    BY <1>0, <2>1 DEF Record, RecordNext, Clear, RecordBatch, clientVars, coordinatorVars
  <2>2. CASE Buffer \/ Flush \/ \E s \in Streams : Send(s)
    BY <1>0, <2>2 DEF Buffer, Flush, Send, clientVars, coordinatorVars
  <2> QED
    BY <1>1, <1>2, <1>3, <1>4, <1>5, <2>0, <2>1, <2>2 DEF Next

(* Of each stream the processor gets the samples in the order sent, none   *)
(* left out and none twice, for any number of streams and any capacity.    *)
THEOREM StreamsAreInOrder == Spec => StreamInOrder
<1>1. Init => StreamInv
  BY TypeInit DEF Init, StreamInv, QueueInv, Passed
<1> QED
  BY <1>1, StreamStep, PTL DEF Spec, StreamInOrder

(* The task of a stream ends after the stream did, and not before it has   *)
(* read all of it unless the stream broke.                                 *)
EndInv ==
    \A s \in Streams :
        reader[s] = "ended" =>
            \/ stream[s] = "broken"
            \/ stream[s] = "closed" /\ read[s] = Len(sent[s])

LEMMA EndStep ==
    ASSUME StreamInv, EndInv, [Next]_vars
    PROVE  EndInv'
<1> SUFFICES ASSUME NEW s \in Streams, reader'[s] = "ended"
             PROVE  \/ stream'[s] = "broken"
                    \/ stream'[s] = "closed" /\ read'[s] = Len(sent'[s])
  BY DEF EndInv
<1>t. /\ stream \in [Streams -> {"none", "open", "closed", "broken"}]
      /\ reader \in [Streams -> {"none", "reading", "sending", "ended"}]
      /\ DOMAIN sent = Streams /\ read \in [Streams -> Nat]
  BY DEF StreamInv, TypeInv, TypeOK
<1>e. reader[s] = "ended" =>
          \/ stream[s] = "broken"
          \/ stream[s] = "closed" /\ read[s] = Len(sent[s])
  BY DEF EndInv
<1>0. CASE UNCHANGED <<stream, sent, reader, read>>
  BY <1>e, <1>0
<1>1. ASSUME NEW t \in Streams, Send(t) PROVE stream'[s] = "broken" \/ (stream'[s] = "closed" /\ read'[s] = Len(sent'[s]))
  <2>1. stream[t] = "open" /\ stream' = stream /\ reader' = reader /\ read' = read
    BY <1>1 DEF Send, coordinatorVars
  <2>2. t # s
    BY <1>e, <2>1
  <2>3. sent'[s] = sent[s]
    BY <1>1, <1>t, <2>2 DEF Send
  <2> QED
    BY <1>e, <2>1, <2>3
<1>2. ASSUME NEW t \in Streams, Close(t) \/ Break(t) PROVE stream'[s] = "broken" \/ (stream'[s] = "closed" /\ read'[s] = Len(sent'[s]))
  BY <1>2, <1>t, <1>e DEF Close, Break, coordinatorVars
<1>3. ASSUME NEW t \in Streams, StreamMetrics(t) PROVE stream'[s] = "broken" \/ (stream'[s] = "closed" /\ read'[s] = Len(sent'[s]))
  BY <1>3, <1>t, <1>e DEF StreamMetrics
<1>4. ASSUME NEW t \in Streams, Read(t) \/ Enqueue(t) PROVE stream'[s] = "broken" \/ (stream'[s] = "closed" /\ read'[s] = Len(sent'[s]))
  BY <1>4, <1>t, <1>e DEF Read, Enqueue, clientVars
<1>5. ASSUME NEW t \in Streams, End(t) PROVE stream'[s] = "broken" \/ (stream'[s] = "closed" /\ read'[s] = Len(sent'[s]))
  BY <1>5, <1>t, <1>e DEF End, clientVars
<1>6. CASE Record \/ RecordNext \/ Clear \/ (\E n \in 1..MaxBatch : RecordBatch(n))
           \/ Buffer \/ Flush \/ Process \/ UNCHANGED vars
  BY <1>0, <1>6 DEF Record, RecordNext, Clear, RecordBatch, Buffer, Flush, Process,
     clientVars, coordinatorVars, vars
<1> QED
  BY <1>1, <1>2, <1>3, <1>4, <1>5, <1>6 DEF Next

(* However many streams share the channel, of one that its client closed   *)
(* and that did not break nothing is lost: what was sent on it is in the   *)
(* hands of its task, in the channel, or processed.                        *)
THEOREM ClosedStreamsLoseNothing == Spec => []NothingLostOfClosed
<1>1. Init => StreamInv /\ EndInv
  BY TypeInit DEF Init, StreamInv, QueueInv, Passed, EndInv
<1>2. StreamInv /\ EndInv => NothingLostOfClosed
  <2> SUFFICES ASSUME StreamInv, EndInv, NEW s \in Streams,
                      reader[s] = "ended", stream[s] = "closed",
                      \A i \in 1..Len(queue) : queue[i][1] # s
               PROVE  got[s] = Len(sent[s])
    BY DEF NothingLostOfClosed
  <2>1. Passed(s) = Len(sent[s])
    BY DEF EndInv, Passed
  <2>2. got[s] <= Passed(s) /\ got[s] \in Nat /\ Passed(s) \in Nat
    BY PassedType DEF StreamInv, QueueInv, TypeInv, TypeOK
  <2>3. ASSUME got[s] # Passed(s) PROVE FALSE
    <3>1. Passed(s) \in got[s] + 1..Passed(s)
      BY <2>2, <2>3
    <3>2. PICK i \in 1..Len(queue) : queue[i] = <<s, Passed(s)>>
      BY <3>1 DEF StreamInv, QueueInv
    <3> QED
      BY <3>2
  <2> QED
    BY <2>1, <2>3
<1> QED
  BY <1>1, <1>2, StreamStep, EndStep, PTL DEF Spec

(***************************************************************************)
(* Samples                                                                 *)
(***************************************************************************)

(* What is flushed or sent was sampled before.                             *)
Sampled ==
    /\ \A i \in 1..Len(hand) : hand[i] <= sampled
    /\ \A s \in Streams : \A i \in 1..Len(sent[s]) : sent[s][i] <= sampled

PlaceInv == WindowInv /\ OnePlace /\ Sampled

LEMMA PlaceTypes ==
    ASSUME WindowInv
    PROVE  /\ sampled \in Nat /\ Len(buffer) \in Nat /\ Len(hand) \in Nat
           /\ \A i \in 1..Len(buffer) : buffer[i] \in Nat
           /\ \A i \in 1..Len(hand) : hand[i] \in Nat
           /\ \A s \in Streams : Len(sent[s]) \in Nat /\ \A i \in 1..Len(sent[s]) : sent[s][i] \in Nat
<1>1. PICK S : S = 1..LastSample
  OBVIOUS
<1>2. buffer \in Seq(S) /\ hand \in Seq(S) /\ \A s \in Streams : sent[s] \in Seq(S)
  BY <1>1 DEF WindowInv, TypeInv, TypeOK
<1>3. S \subseteq Nat
  BY <1>1
<1>4. sampled \in Nat
  BY DEF WindowInv, TypeInv, TypeOK
<1>5. Len(buffer) \in Nat /\ \A i \in 1..Len(buffer) : buffer[i] \in S
  BY <1>2
<1>6. Len(hand) \in Nat /\ \A i \in 1..Len(hand) : hand[i] \in S
  BY <1>2
<1>7. \A s \in Streams : Len(sent[s]) \in Nat /\ \A i \in 1..Len(sent[s]) : sent[s][i] \in S
  BY <1>2
<1> QED
  BY <1>3, <1>4, <1>5, <1>6, <1>7

(* What a push leaves in the buffer was there before, or is the new sample.*)
LEMMA BufferKept ==
    ASSUME WindowInv, Buffer, NEW n, Occurs(n, buffer')
    PROVE  n = sampled + 1 \/ Occurs(n, buffer)
<1>1. PICK S, x : S = 1..LastSample /\ x = sampled + 1
  OBVIOUS
<1>2. /\ buffer \in Seq(S) /\ x \in S /\ Len(buffer) <= MaxBufferSize /\ MaxBufferSize \in Nat \ {0}
      /\ Len(buffer) \in Nat
  BY <1>1, TelemetryAssumption DEF Buffer, WindowInv, TypeInv, TypeOK
<1>3. PICK p : p = buffer'
  OBVIOUS
<1>4. /\ Len(buffer) < MaxBufferSize => p = Append(buffer, x)
      /\ Len(buffer) = MaxBufferSize => p = Append(Tail(buffer), x)
  BY <1>1, <1>2, <1>3 DEF Buffer
<1>5. /\ p \in Seq(S) /\ p[Len(p)] = x
      /\ Len(buffer) < MaxBufferSize => Len(p) = Len(buffer) + 1 /\ \A i \in 1..Len(buffer) : p[i] = buffer[i]
      /\ Len(buffer) = MaxBufferSize => Len(p) = MaxBufferSize /\ \A i \in 1..MaxBufferSize - 1 : p[i] = buffer[i + 1]
  BY <1>2, <1>4, Pushed
<1>6. PICK i \in 1..Len(p) : p[i] = n
  BY <1>3 DEF Occurs
<1>7. CASE i = Len(p)
  BY <1>1, <1>5, <1>6, <1>7
<1>8. CASE i # Len(p) /\ Len(buffer) < MaxBufferSize
  <2>1. i \in 1..Len(buffer)
    BY <1>2, <1>5, <1>8
  <2> QED
    BY <1>5, <1>6, <1>8, <2>1 DEF Occurs
<1>9. CASE i # Len(p) /\ Len(buffer) = MaxBufferSize
  <2>1. i \in 1..MaxBufferSize - 1
    BY <1>2, <1>5, <1>9
  <2>2. PICK j \in 1..Len(buffer) : j = i + 1
    BY <1>2, <1>9, <2>1
  <2> QED
    BY <1>5, <1>6, <1>9, <2>1, <2>2 DEF Occurs
<1> QED
  BY <1>2, <1>7, <1>8, <1>9

LEMMA PlaceStep == PlaceInv /\ [Next]_vars => PlaceInv'
<1> SUFFICES ASSUME PlaceInv, [Next]_vars PROVE OnePlace' /\ Sampled'
  BY WindowStep DEF PlaceInv
<1>t. WindowInv
  BY DEF PlaceInv
<1>0. CASE UNCHANGED <<buffer, sampled, hand, sent>>
  BY <1>0 DEF PlaceInv, OnePlace, Sampled, Occurs
<1>1. CASE Buffer
  <2>1. UNCHANGED <<hand, sent>> /\ sampled' = sampled + 1
    BY <1>1 DEF Buffer, clientVars
  <2>2. \A i \in 1..Len(hand) : ~Occurs(hand[i], buffer')
    BY <1>1, <1>t, BufferKept, PlaceTypes DEF PlaceInv, OnePlace, Sampled
  <2>3. \A s \in Streams : \A i \in 1..Len(sent[s]) : ~Occurs(sent[s][i], buffer')
    BY <1>1, <1>t, BufferKept, PlaceTypes DEF PlaceInv, OnePlace, Sampled
  <2>4. OnePlace'
    BY <2>1, <2>2, <2>3 DEF PlaceInv, OnePlace, Occurs
  <2>5. Sampled'
    BY <1>t, <2>1, PlaceTypes DEF PlaceInv, Sampled
  <2> QED
    BY <2>4, <2>5
<1>2. CASE Flush
  <2>1. hand' = buffer /\ buffer' = <<>> /\ UNCHANGED <<sampled, sent>>
    BY <1>2 DEF Flush
  <2>2. \A i \in 1..Len(buffer) : buffer[i] = sampled - Len(buffer) + i
    BY <1>t DEF WindowInv, BufferEnds, Ends
  <2>3. \A n : ~Occurs(n, buffer')
    BY <2>1 DEF Occurs
  <2>4. \A i, j \in 1..Len(buffer) : buffer[i] = buffer[j] => i = j
    BY <1>t, <2>2, PlaceTypes
  <2>5. \A s \in Streams : \A i \in 1..Len(sent[s]) : ~Occurs(sent[s][i], buffer)
    BY DEF PlaceInv, OnePlace
  <2>6. OnePlace'
    BY <2>1, <2>3, <2>4, <2>5 DEF PlaceInv, OnePlace, Occurs
  <2>7. \A i \in 1..Len(buffer) : buffer[i] <= sampled
    BY <1>t, <2>2, PlaceTypes
  <2>8. Sampled'
    BY <2>1, <2>7 DEF PlaceInv, Sampled
  <2> QED
    BY <2>6, <2>8
<1>3. ASSUME NEW s \in Streams, Send(s) PROVE OnePlace' /\ Sampled'
  <2>1. PICK S : S = 1..LastSample
    OBVIOUS
  <2>2. hand \in Seq(S) /\ hand # <<>> /\ sent \in [Streams -> Seq(S)] /\ hand' = Tail(hand)
        /\ UNCHANGED <<buffer, sampled>>
    BY <1>3, <1>t, <2>1 DEF Send, bufferVars, WindowInv, TypeInv, TypeOK
  <2>3. PICK n \in S : n = Head(hand)
    BY <2>2, Heads
  <2>4. /\ n = hand[1] /\ Len(hand) \in Nat \ {0} /\ Len(hand') = Len(hand) - 1
        /\ \A i \in 1..Len(hand) - 1 : hand'[i] = hand[i + 1]
    BY <2>2, <2>3, Heads
  <2>5. PICK longer : longer = Append(sent[s], n)
    OBVIOUS
  <2>6. /\ Len(sent[s]) \in Nat /\ Len(longer) = Len(sent[s]) + 1
        /\ longer[Len(sent[s]) + 1] = n /\ \A i \in 1..Len(sent[s]) : longer[i] = sent[s][i]
    BY <2>2, <2>5, Appended
  <2>7. sent'[s] = longer /\ \A t \in Streams \ {s} : sent'[t] = sent[t]
    BY <1>3, <2>2, <2>3, <2>5 DEF Send
  <2>8. ~Occurs(n, buffer) /\ n <= sampled /\ \A t \in Streams : \A i \in 1..Len(sent[t]) : sent[t][i] # n
    <3>1. 1 \in 1..Len(hand)
      BY <2>4
    <3>2. Occurs(n, hand)
      BY <2>4, <3>1 DEF Occurs
    <3> QED
      BY <2>4, <3>1, <3>2 DEF PlaceInv, OnePlace, Sampled
  <2>9. \A t \in Streams : \A i \in 1..Len(sent'[t]) :
            \/ i \in 1..Len(sent[t]) /\ sent'[t][i] = sent[t][i]
            \/ t = s /\ i = Len(sent[s]) + 1 /\ sent'[t][i] = n
    BY <2>6, <2>7
  <2>10. ASSUME NEW i \in 1..Len(hand') PROVE \E j \in 1..Len(hand) : j = i + 1 /\ hand'[i] = hand[j] /\ hand'[i] # n
    <3>1. PICK j \in 1..Len(hand) : j = i + 1 /\ hand'[i] = hand[j] /\ j # 1 /\ 1 \in 1..Len(hand)
      BY <2>4
    <3>2. hand[j] # hand[1]
      BY <3>1 DEF PlaceInv, OnePlace
    <3> QED
      BY <2>4, <3>1, <3>2
  <2>11. \A i, j \in 1..Len(hand') : hand'[i] = hand'[j] => i = j
    <3> SUFFICES ASSUME NEW i \in 1..Len(hand'), NEW j \in 1..Len(hand'), hand'[i] = hand'[j] PROVE i = j
      OBVIOUS
    <3>1. PICK a \in 1..Len(hand), b \in 1..Len(hand) : a = i + 1 /\ b = j + 1 /\ hand'[i] = hand[a] /\ hand'[j] = hand[b]
      BY <2>10
    <3>2. a = b
      BY <3>1 DEF PlaceInv, OnePlace
    <3> QED
      BY <2>4, <3>1, <3>2
  <2>12. \A m : Occurs(m, hand') => Occurs(m, hand) /\ m # n
    BY <2>10 DEF Occurs
  <2>13. \A i \in 1..Len(hand') : ~Occurs(hand'[i], buffer') /\ hand'[i] <= sampled'
    <3> SUFFICES ASSUME NEW i \in 1..Len(hand') PROVE ~Occurs(hand'[i], buffer) /\ hand'[i] <= sampled
      BY <2>2 DEF Occurs
    <3>1. PICK j \in 1..Len(hand) : hand'[i] = hand[j]
      BY <2>10
    <3> QED
      BY <3>1 DEF PlaceInv, OnePlace, Sampled
  <2>14. \A t \in Streams : \A i \in 1..Len(sent'[t]) :
             ~Occurs(sent'[t][i], buffer') /\ ~Occurs(sent'[t][i], hand') /\ sent'[t][i] <= sampled'
    <3> SUFFICES ASSUME NEW t \in Streams, NEW i \in 1..Len(sent'[t])
                 PROVE  ~Occurs(sent'[t][i], buffer) /\ ~Occurs(sent'[t][i], hand') /\ sent'[t][i] <= sampled
      BY <2>2 DEF Occurs
    <3>1. CASE i \in 1..Len(sent[t]) /\ sent'[t][i] = sent[t][i]
      BY <2>12, <3>1 DEF PlaceInv, OnePlace, Sampled
    <3>2. CASE sent'[t][i] = n
      BY <2>8, <2>12, <3>2
    <3> QED
      BY <2>9, <3>1, <3>2
  <2>15. \A t, u \in Streams : \A i \in 1..Len(sent'[t]), j \in 1..Len(sent'[u]) :
             sent'[t][i] = sent'[u][j] => t = u /\ i = j
    <3> SUFFICES ASSUME NEW t \in Streams, NEW u \in Streams, NEW i \in 1..Len(sent'[t]), NEW j \in 1..Len(sent'[u]),
                        sent'[t][i] = sent'[u][j]
                 PROVE  t = u /\ i = j
      OBVIOUS
    <3>1. CASE sent'[t][i] = n
      <4>1. t = s /\ i = Len(sent[s]) + 1 /\ u = s /\ j = Len(sent[s]) + 1
        BY <2>8, <2>9, <3>1
      <4> QED
        BY <4>1
    <3>2. CASE sent'[t][i] # n
      <4>1. i \in 1..Len(sent[t]) /\ j \in 1..Len(sent[u]) /\ sent[t][i] = sent[u][j]
        BY <2>9, <3>2
      <4> QED
        BY <4>1 DEF PlaceInv, OnePlace
    <3> QED
      BY <3>1, <3>2
  <2>16. OnePlace'
    BY <2>11, <2>13, <2>14, <2>15 DEF OnePlace, Occurs
  <2> QED
    BY <2>13, <2>14, <2>16 DEF Sampled
<1> QED
  <2>0. CASE UNCHANGED vars
    BY <1>0, <2>0 DEF vars, bufferVars, clientVars
  <2>1. CASE Record \/ RecordNext \/ Clear \/ \E n \in 1..MaxBatch : RecordBatch(n)
    BY <1>0, <2>1 DEF Record, RecordNext, Clear, RecordBatch, bufferVars, clientVars
  <2>2. CASE \E s \in Streams : Close(s) \/ Break(s) \/ StreamMetrics(s)
    BY <1>0, <2>2 DEF Close, Break, StreamMetrics, bufferVars
  <2>3. CASE (\E s \in Streams : Read(s) \/ End(s) \/ Enqueue(s)) \/ Process
    BY <1>0, <2>3 DEF Read, End, Enqueue, Process, bufferVars, clientVars
  <2> QED
    BY <1>1, <1>2, <1>3, <2>0, <2>1, <2>2, <2>3 DEF Next

(* No sample is buffered, flushed or sent twice.                           *)
THEOREM SamplesHaveOnePlace == Spec => []OnePlace
<1>1. Init => PlaceInv
  BY WindowInit DEF Init, PlaceInv, OnePlace, Sampled, Occurs
<1>2. PlaceInv => OnePlace
  BY DEF PlaceInv
<1> QED
  BY <1>1, <1>2, PlaceStep, PTL DEF Spec

============================================================================

------------------------- MODULE MessageBusProofs -------------------------
(***************************************************************************)
(* Theorems about MessageBus.  What a receiver holds, received or queued,  *)
(* lies below the next message number, and what the former receivers of a  *)
(* bot hold lies below what the present one holds.                         *)
(***************************************************************************)
EXTENDS MessageBus, FiniteSetTheorems, TLAPS

USE DEF Messages

(***************************************************************************)
(* Types                                                                   *)
(***************************************************************************)

(* A receiver nobody has yet is empty.                                     *)
NewIsEmpty ==
    \A r \in Receivers : status[r] = "new" =>
        /\ topic[r] = None /\ queue[r] = <<>> /\ got[r] = {}
        /\ lapse[r] = 0 /\ told[r] = 0 /\ due[r] = 0

TypeInv == TypeOK /\ NewIsEmpty

LEMMA TypeInit == Init => TypeInv
<1> SUFFICES ASSUME Init PROVE TypeInv
  OBVIOUS
<1>1. <<>> \in Seq(1..LastMessage) /\ Len(<<>>) = 0
  OBVIOUS
<1> QED
  BY <1>1, BusAssumption DEF Init, TypeInv, TypeOK, NewIsEmpty

LEMMA Capacities == \A r \in Receivers : Capacity(r) \in Nat \ {0}
BY BusAssumption DEF Capacity

(* A message pushed keeps the channel within its capacity.                 *)
LEMMA PushedType ==
    ASSUME TypeInv, accepted < LastMessage, NEW r \in Receivers, topic[r] \in Bots \cup {Broadcast}
    PROVE  Pushed(r) \in Seq(1..LastMessage) /\ Len(Pushed(r)) <= Capacity(r)
<1>1. PICK S : S = 1..LastMessage
  OBVIOUS
<1>2. queue[r] \in Seq(S) /\ accepted + 1 \in S /\ Len(queue[r]) \in Nat
  BY <1>1, BusAssumption DEF TypeInv, TypeOK
<1>3. Capacity(r) \in Nat \ {0}
  BY Capacities
<1>4. Len(queue[r]) <= Capacity(r)
  BY BusAssumption DEF TypeInv, TypeOK, Capacity
<1>5. CASE Len(queue[r]) < Capacity(r)
  <2>1. Pushed(r) = Append(queue[r], accepted + 1)
    BY <1>5 DEF Pushed
  <2>2. Append(queue[r], accepted + 1) \in Seq(S) /\ Len(Append(queue[r], accepted + 1)) = Len(queue[r]) + 1
    BY <1>2
  <2> QED
    BY <1>1, <1>2, <1>3, <1>5, <2>1, <2>2
<1>6. CASE ~(Len(queue[r]) < Capacity(r))
  <2>1. Pushed(r) = Append(Tail(queue[r]), accepted + 1)
    BY <1>6 DEF Pushed
  <2>2. queue[r] # <<>>
    BY <1>2, <1>3, <1>6
  <2>3. Tail(queue[r]) \in Seq(S) /\ Len(Tail(queue[r])) = Len(queue[r]) - 1
    BY <1>2, <2>2
  <2>4. /\ Append(Tail(queue[r]), accepted + 1) \in Seq(S)
        /\ Len(Append(Tail(queue[r]), accepted + 1)) = Len(Tail(queue[r])) + 1
    BY <1>2, <2>3
  <2> QED
    BY <1>1, <1>2, <1>3, <1>4, <2>1, <2>3, <2>4
<1> QED
  BY <1>5, <1>6

(* What a send does to each receiver.                                      *)
LEMMA SendEffect ==
    ASSUME TypeInv, NEW t \in Bots \cup {Broadcast}, Send(t)
    PROVE  /\ accepted' = accepted + 1 /\ accepted < LastMessage
           /\ \A r \in Receivers :
                 /\ r \in Reached(t) =>
                       /\ queue'[r] = Pushed(r) /\ lapse'[r] = Overrun(r)
                       /\ due'[r] = due[r] + 1 /\ topic[r] = t /\ status[r] = "open"
                       /\ t \in Bots => channels[t] = r
                 /\ r \notin Reached(t) =>
                       queue'[r] = queue[r] /\ lapse'[r] = lapse[r] /\ due'[r] = due[r]
           /\ UNCHANGED <<up, channels, topic, status, got, told>>
<1>1. \A r \in Reached(t) : t \in Bots => channels[t] = r
  BY BusAssumption DEF Reached, HasSender
<1> QED
  BY <1>1 DEF Send, Reached

(* A map changed at one place, and the shape of the others.                *)
LEMMA TypeStep == TypeInv /\ [Next]_vars => TypeInv'
<1> SUFFICES ASSUME TypeInv, [Next]_vars PROVE TypeInv'
  OBVIOUS
<1> USE DEF TypeInv
<1>1. ASSUME NEW b \in Bots, UnregisterBot(b) PROVE TypeInv'
  <2>1. channels' \in [Bots -> Receivers \cup {None}]
    BY <1>1 DEF UnregisterBot, TypeOK
  <2>2. UNCHANGED <<up, accepted, topic, status, queue, lapse, got, told, due>>
    BY <1>1 DEF UnregisterBot, receiverVars
  <2> QED
    BY <2>1, <2>2 DEF TypeOK, NewIsEmpty
<1>2. ASSUME NEW r \in Receivers, NEW t \in Bots \cup {Broadcast}, up, Made(r, t),
             UNCHANGED <<up, accepted>>, channels' \in [Bots -> Receivers \cup {None}]
      PROVE  TypeInv'
  <2>1. /\ topic' \in [Receivers -> Bots \cup {Broadcast, None}]
        /\ status' \in [Receivers -> {"new", "open", "closed", "dropped"}]
    BY <1>2 DEF Made, TypeOK
  <2>2. \A s \in Receivers : s # r => topic'[s] = topic[s] /\ status'[s] = status[s]
    BY <1>2 DEF Made, TypeOK
  <2>3. status'[r] = "open" /\ queue[r] = <<>>
    BY <1>2 DEF Made, TypeOK, NewIsEmpty
  <2>4. UNCHANGED <<queue, lapse, got, told, due>>
    BY <1>2 DEF Made
  <2>5. Len(<<>>) = 0
    OBVIOUS
  <2>6. NewIsEmpty'
    BY <2>2, <2>3, <2>4 DEF NewIsEmpty
  <2>7. \A s \in Receivers :
           /\ topic'[s] \in Bots => Len(queue[s]) <= BotCapacity
           /\ topic'[s] = Broadcast => Len(queue[s]) <= BroadcastCapacity
           /\ topic'[s] = None => queue[s] = <<>>
    <3>1. 0 <= BotCapacity /\ 0 <= BroadcastCapacity
      BY BusAssumption
    <3>2. Len(queue[r]) = 0
      BY <2>3, <2>5
    <3>3. \A s \in Receivers : s # r =>
              /\ topic[s] \in Bots => Len(queue[s]) <= BotCapacity
              /\ topic[s] = Broadcast => Len(queue[s]) <= BroadcastCapacity
              /\ topic[s] = None => queue[s] = <<>>
      BY DEF TypeOK
    <3> QED
      BY <2>2, <2>3, <3>1, <3>2, <3>3
  <2> QED
    BY <1>2, <2>1, <2>4, <2>6, <2>7 DEF TypeOK
<1>3. ASSUME NEW b \in Bots, NEW r \in Receivers, RegisterBot(r, b) PROVE TypeInv'
  <2>1. channels' \in [Bots -> Receivers \cup {None}]
    BY <1>3 DEF RegisterBot, TypeOK
  <2> QED
    BY <1>2, <1>3, <2>1 DEF RegisterBot
<1>4. ASSUME NEW r \in Receivers, SubscribeBroadcast(r) PROVE TypeInv'
  <2>1. channels' \in [Bots -> Receivers \cup {None}]
    BY <1>4 DEF SubscribeBroadcast, busVars, TypeOK
  <2> QED
    BY <1>2, <1>4, <2>1 DEF SubscribeBroadcast, busVars
<1>5. ASSUME NEW t \in Bots \cup {Broadcast}, Send(t) PROVE TypeInv'
  <2>e. /\ accepted' = accepted + 1 /\ accepted < LastMessage
        /\ \A r \in Receivers :
              /\ r \in Reached(t) =>
                    /\ queue'[r] = Pushed(r) /\ lapse'[r] = Overrun(r)
                    /\ due'[r] = due[r] + 1 /\ topic[r] = t /\ status[r] = "open"
              /\ r \notin Reached(t) =>
                    queue'[r] = queue[r] /\ lapse'[r] = lapse[r] /\ due'[r] = due[r]
        /\ UNCHANGED <<up, channels, topic, status, got, told>>
    BY <1>5, SendEffect
  <2>1. \A r \in Receivers :
           /\ queue'[r] \in Seq(1..LastMessage)
           /\ topic[r] \in Bots => Len(queue'[r]) <= BotCapacity
           /\ topic[r] = Broadcast => Len(queue'[r]) <= BroadcastCapacity
           /\ topic[r] = None => queue'[r] = <<>>
    <3> SUFFICES ASSUME NEW r \in Receivers
                 PROVE  /\ queue'[r] \in Seq(1..LastMessage)
                        /\ topic[r] \in Bots => Len(queue'[r]) <= BotCapacity
                        /\ topic[r] = Broadcast => Len(queue'[r]) <= BroadcastCapacity
                        /\ topic[r] = None => queue'[r] = <<>>
      OBVIOUS
    <3>1. CASE r \in Reached(t)
      <4>1. queue'[r] = Pushed(r) /\ topic[r] = t
        BY <2>e, <3>1
      <4>2. Pushed(r) \in Seq(1..LastMessage) /\ Len(Pushed(r)) <= Capacity(r)
        BY <2>e, <4>1, PushedType
      <4> QED
        BY <4>1, <4>2, BusAssumption DEF Capacity
    <3>2. CASE r \notin Reached(t)
      BY <2>e, <3>2 DEF TypeOK
    <3> QED
      BY <3>1, <3>2
  <2>2. \A r \in Receivers : lapse'[r] \in Nat /\ due'[r] \in Nat
    <3>1. \A r \in Receivers : lapse[r] \in Nat /\ due[r] \in Nat
      BY DEF TypeOK
    <3>2. \A r \in Receivers : Overrun(r) \in Nat
      BY <3>1 DEF Overrun
    <3> QED
      BY <2>e, <3>1, <3>2
  <2>3. /\ queue' \in [Receivers -> Seq(1..LastMessage)]
        /\ lapse' \in [Receivers -> Nat] /\ due' \in [Receivers -> Nat]
    <3>1. /\ queue' = [r \in Receivers |-> queue'[r]]
          /\ lapse' = [r \in Receivers |-> lapse'[r]]
          /\ due' = [r \in Receivers |-> due'[r]]
      BY <1>5 DEF Send
    <3> QED
      BY <2>1, <2>2, <3>1
  <2>4. accepted' \in 0..LastMessage
    BY <2>e, BusAssumption DEF TypeOK
  <2>5. NewIsEmpty'
    BY <2>e DEF NewIsEmpty
  <2> QED
    BY <2>e, <2>1, <2>3, <2>4, <2>5 DEF TypeOK
<1>6. CASE DropBus
  <2>1. up' \in BOOLEAN
    BY <1>6 DEF DropBus
  <2> QED
    BY <1>6, <2>1 DEF DropBus, receiverVars, TypeOK, NewIsEmpty
<1>7. ASSUME NEW r \in Receivers, Lagged(r) PROVE TypeInv'
  <2>1. /\ told' \in [Receivers -> Nat] /\ lapse' \in [Receivers -> Nat]
        /\ status[r] = "open"
        /\ \A s \in Receivers : s # r => told'[s] = told[s] /\ lapse'[s] = lapse[s]
    BY <1>7 DEF Lagged, TypeOK
  <2>2. UNCHANGED <<up, channels, accepted, topic, status, queue, got, due>>
    BY <1>7 DEF Lagged, busVars
  <2> QED
    BY <2>1, <2>2 DEF TypeOK, NewIsEmpty
<1>8. ASSUME NEW r \in Receivers, Receive(r) PROVE TypeInv'
  <2>1. PICK S : S = 1..LastMessage
    OBVIOUS
  <2>2. queue[r] \in Seq(S) /\ queue[r] # <<>> /\ status[r] = "open"
    BY <1>8, <2>1 DEF Receive, TypeOK
  <2>3. /\ Tail(queue[r]) \in Seq(S) /\ Head(queue[r]) \in S
        /\ Len(Tail(queue[r])) = Len(queue[r]) - 1 /\ Len(queue[r]) \in Nat
    BY <2>2
  <2>4. /\ queue'[r] = Tail(queue[r])
        /\ \A s \in Receivers : s # r => queue'[s] = queue[s] /\ got'[s] = got[s]
    BY <1>8 DEF Receive, TypeOK
  <2>5. queue' \in [Receivers -> Seq(S)] /\ got' \in [Receivers -> SUBSET S]
    BY <1>8, <2>1, <2>3 DEF Receive, TypeOK
  <2>6. UNCHANGED <<up, channels, accepted, topic, status, lapse, told, due>>
    BY <1>8 DEF Receive, busVars
  <2>7. \A s \in Receivers :
           /\ topic[s] \in Bots => Len(queue'[s]) <= BotCapacity
           /\ topic[s] = Broadcast => Len(queue'[s]) <= BroadcastCapacity
           /\ topic[s] = None => queue'[s] = <<>>
    <3>1. \A s \in Receivers :
              /\ topic[s] \in Bots => Len(queue[s]) <= BotCapacity
              /\ topic[s] = Broadcast => Len(queue[s]) <= BroadcastCapacity
              /\ topic[s] = None => queue[s] = <<>>
      BY DEF TypeOK
    <3>2. BotCapacity \in Nat /\ BroadcastCapacity \in Nat
      BY BusAssumption
    <3>3. PICK k \in Nat : k = Len(queue[r])
      BY <2>3
    <3>4. Len(queue'[r]) = k - 1
      BY <2>3, <2>4, <3>3
    <3>5. /\ topic[r] \in Bots => Len(queue'[r]) <= BotCapacity
          /\ topic[r] = Broadcast => Len(queue'[r]) <= BroadcastCapacity
      <4>1. /\ topic[r] \in Bots => k <= BotCapacity
            /\ topic[r] = Broadcast => k <= BroadcastCapacity
        BY <3>1, <3>3
      <4> QED
        BY <3>2, <3>4, <4>1
    <3>6. topic[r] # None
      BY <2>2, <3>1
    <3> QED
      BY <2>4, <3>1, <3>5, <3>6
  <2>8. NewIsEmpty'
    BY <2>2, <2>4, <2>6 DEF NewIsEmpty
  <2> QED
    BY <2>1, <2>5, <2>6, <2>7, <2>8 DEF TypeOK
<1>9. ASSUME NEW r \in Receivers, Closed(r) \/ Drop(r) PROVE TypeInv'
  <2>1. /\ status' \in [Receivers -> {"new", "open", "closed", "dropped"}]
        /\ status'[r] # "new" /\ \A s \in Receivers : s # r => status'[s] = status[s]
    BY <1>9 DEF Closed, Drop, TypeOK
  <2>2. UNCHANGED <<up, channels, accepted, topic, queue, lapse, got, told, due>>
    BY <1>9 DEF Closed, Drop, busVars
  <2> QED
    BY <2>1, <2>2 DEF TypeOK, NewIsEmpty
<1>10. CASE UNCHANGED vars
  BY <1>10 DEF vars, busVars, receiverVars, TypeOK, NewIsEmpty
<1> QED
  BY <1>1, <1>3, <1>4, <1>5, <1>6, <1>7, <1>8, <1>9, <1>10 DEF Next

(* Every reachable state of the bus and its receivers is well-typed; no    *)
(* channel holds more than its capacity (communication.rs:89, 99).         *)
THEOREM BusTypes == Spec => []TypeOK
<1>1. TypeInv => TypeOK
  BY DEF TypeInv
<1> QED
  BY <1>1, TypeInit, TypeStep, PTL DEF Spec

(***************************************************************************)
(* Handover                                                                *)
(***************************************************************************)

(* What is held was accepted, and what a former receiver of a bot holds    *)
(* was accepted before all that the present one holds.                     *)
HeldAccepted == \A r \in Receivers : \A m \in Held(r) : m <= accepted

PresentIsLater ==
    \A b \in Bots : \A r, s \in Receivers :
        channels[b] = r /\ s # r /\ topic[s] = b =>
            \A m \in Held(s) : \A n \in Held(r) : m < n

HandoverInv == TypeInv /\ HeldAccepted /\ PresentIsLater /\ CleanHandover

LEMMA HeldTypes ==
    ASSUME TypeInv, NEW r \in Receivers
    PROVE  Held(r) \subseteq Nat
<1>1. PICK S : S = 1..LastMessage
  OBVIOUS
<1>2. queue[r] \in Seq(S) /\ got[r] \subseteq S /\ S \subseteq Nat
  BY <1>1 DEF TypeInv, TypeOK
<1>3. \A i \in 1..Len(queue[r]) : queue[r][i] \in S
  BY <1>2
<1> QED
  BY <1>2, <1>3 DEF Held

(* A send adds its number to what it reaches, and nothing else.            *)
LEMMA HeldPushed ==
    ASSUME TypeInv, NEW r \in Receivers, queue'[r] = Pushed(r), got' = got
    PROVE  Held(r)' \subseteq Held(r) \cup {accepted + 1}
<1>1. PICK S : S = 1..LastMessage
  OBVIOUS
<1>2. PICK x : x = accepted + 1
  OBVIOUS
<1>3. queue[r] \in Seq(S) /\ Len(queue[r]) \in Nat
  BY <1>1 DEF TypeInv, TypeOK
<1>4. \A i \in 1..Len(queue'[r]) : queue'[r][i] = x \/ \E j \in 1..Len(queue[r]) : queue'[r][i] = queue[r][j]
  <2>1. CASE Len(queue[r]) < Capacity(r)
    <3>1. queue'[r] = Append(queue[r], x)
      BY <1>2, <2>1 DEF Pushed
    <3>2. /\ Len(Append(queue[r], x)) = Len(queue[r]) + 1
          /\ \A i \in 1..Len(queue[r]) : Append(queue[r], x)[i] = queue[r][i]
          /\ Append(queue[r], x)[Len(queue[r]) + 1] = x
      BY <1>3
    <3> QED
      BY <1>3, <3>1, <3>2
  <2>2. CASE ~(Len(queue[r]) < Capacity(r))
    <3>1. queue'[r] = Append(Tail(queue[r]), x)
      BY <1>2, <2>2 DEF Pushed
    <3>2. queue[r] # <<>>
      BY <1>3, <2>2, Capacities
    <3>3. /\ Tail(queue[r]) \in Seq(S) /\ Len(Tail(queue[r])) = Len(queue[r]) - 1
          /\ \A i \in 1..Len(queue[r]) - 1 : Tail(queue[r])[i] = queue[r][i + 1]
      BY <1>3, <3>2
    <3>4. /\ Len(Append(Tail(queue[r]), x)) = Len(Tail(queue[r])) + 1
          /\ \A i \in 1..Len(Tail(queue[r])) : Append(Tail(queue[r]), x)[i] = Tail(queue[r])[i]
          /\ Append(Tail(queue[r]), x)[Len(Tail(queue[r])) + 1] = x
      BY <3>3
    <3> QED
      BY <1>3, <3>1, <3>3, <3>4
  <2> QED
    BY <2>1, <2>2
<1> QED
  BY <1>2, <1>4 DEF Held

(* A receive moves a number, and adds none.                                *)
LEMMA HeldReceived ==
    ASSUME TypeInv, NEW r \in Receivers, Receive(r)
    PROVE  \A s \in Receivers : Held(s)' \subseteq Held(s)
<1>1. PICK S : S = 1..LastMessage
  OBVIOUS
<1>2. queue[r] \in Seq(S) /\ Len(queue[r]) \in Nat /\ queue[r] # <<>>
  BY <1>1 DEF Receive, TypeInv, TypeOK
<1>3. /\ Len(Tail(queue[r])) = Len(queue[r]) - 1
      /\ \A i \in 1..Len(queue[r]) - 1 : Tail(queue[r])[i] = queue[r][i + 1]
      /\ Head(queue[r]) = queue[r][1]
  BY <1>2
<1>4. /\ queue'[r] = Tail(queue[r]) /\ got'[r] = got[r] \cup {Head(queue[r])}
      /\ \A s \in Receivers : s # r => queue'[s] = queue[s] /\ got'[s] = got[s]
  BY DEF Receive, TypeInv, TypeOK
<1>5. Held(r)' \subseteq Held(r)
  <2>1. \A i \in 1..Len(queue'[r]) : \E j \in 1..Len(queue[r]) : queue'[r][i] = queue[r][j]
    BY <1>2, <1>3, <1>4
  <2>2. \E j \in 1..Len(queue[r]) : Head(queue[r]) = queue[r][j]
    BY <1>2, <1>3
  <2> QED
    BY <1>4, <2>1, <2>2 DEF Held
<1>6. \A s \in Receivers : s # r => Held(s)' = Held(s)
  BY <1>4 DEF Held
<1> QED
  BY <1>5, <1>6

(* Where nothing is added and no channel changes hands, all stays apart.   *)
LEMMA HeldShrinks ==
    ASSUME HandoverInv, UNCHANGED <<topic, accepted>>,
           \A r \in Receivers : Held(r)' \subseteq Held(r),
           \A b \in Bots : channels'[b] \in {channels[b], None}
    PROVE  HeldAccepted' /\ PresentIsLater' /\ CleanHandover'
<1>1. HeldAccepted'
  BY DEF HandoverInv, HeldAccepted
<1>2. \A b \in Bots : channels[b] \in Receivers \cup {None}
  BY DEF HandoverInv, TypeInv, TypeOK
<1>3. PresentIsLater'
  BY <1>2, BusAssumption DEF HandoverInv, PresentIsLater
<1>4. CleanHandover'
  BY DEF HandoverInv, CleanHandover, Apart
<1> QED
  BY <1>1, <1>3, <1>4

LEMMA HandoverStep == HandoverInv /\ [Next]_vars => HandoverInv'
<1> SUFFICES ASSUME HandoverInv, [Next]_vars
             PROVE  HeldAccepted' /\ PresentIsLater' /\ CleanHandover'
  BY TypeStep DEF HandoverInv
<1>t. TypeInv
  BY DEF HandoverInv
<1>h. \A r \in Receivers : Held(r) \subseteq Nat
  BY <1>t, HeldTypes
<1>a. accepted \in Nat
  BY <1>t DEF TypeInv, TypeOK
<1>1. ASSUME NEW b \in Bots, UnregisterBot(b)
      PROVE  HeldAccepted' /\ PresentIsLater' /\ CleanHandover'
  <2>1. UNCHANGED <<topic, accepted, queue, got>>
    BY <1>1 DEF UnregisterBot, receiverVars
  <2>2. \A d \in Bots : channels'[d] \in {channels[d], None}
    BY <1>1, <1>t DEF UnregisterBot, TypeInv, TypeOK
  <2>3. \A r \in Receivers : Held(r)' \subseteq Held(r)
    BY <2>1 DEF Held
  <2> QED
    BY <2>1, <2>2, <2>3, HeldShrinks
<1>2. ASSUME NEW r \in Receivers, NEW t \in Bots \cup {Broadcast}, Made(r, t),
             accepted' = accepted,
             \A b \in Bots : channels'[b] = channels[b] \/ (t = b /\ channels'[b] = r)
      PROVE  HeldAccepted' /\ PresentIsLater' /\ CleanHandover'
  <2>1. /\ topic'[r] = t /\ status[r] = "new"
        /\ \A s \in Receivers : s # r => topic'[s] = topic[s]
    BY <1>2, <1>t DEF Made, TypeInv, TypeOK
  <2>2. UNCHANGED <<queue, got>>
    BY <1>2 DEF Made
  <2>3. \A s \in Receivers : Held(s)' = Held(s)
    BY <2>2 DEF Held
  <2>4. got[r] = {} /\ queue[r] = <<>>
    BY <2>1, <1>t DEF TypeInv, NewIsEmpty
  <2>5. Len(<<>>) = 0 /\ 1..0 = {}
    OBVIOUS
  <2>6. Held(r) = {}
    BY <2>4, <2>5 DEF Held
  <2>7. HeldAccepted'
    BY <1>2, <2>3 DEF HandoverInv, HeldAccepted
  <2>8. CleanHandover'
    BY <2>1, <2>3, <2>6 DEF HandoverInv, CleanHandover, Apart
  <2>9. PresentIsLater'
    <3> SUFFICES ASSUME NEW b \in Bots, NEW c \in Receivers, NEW s \in Receivers,
                        channels'[b] = c, s # c, topic'[s] = b,
                        NEW m \in Held(s)', NEW n \in Held(c)'
                 PROVE  m < n
      BY DEF PresentIsLater
    <3>1. s # r
      BY <2>3, <2>6
    <3>2. c # r
      BY <2>3, <2>6
    <3>3. channels[b] = c
      BY <1>2, <3>2
    <3> QED
      BY <2>1, <2>3, <3>1, <3>3 DEF HandoverInv, PresentIsLater
  <2> QED
    BY <2>7, <2>8, <2>9
<1>3. ASSUME NEW b \in Bots, NEW r \in Receivers, RegisterBot(r, b)
      PROVE  HeldAccepted' /\ PresentIsLater' /\ CleanHandover'
  <2>1. \A d \in Bots : channels'[d] = channels[d] \/ (b = d /\ channels'[d] = r)
    BY <1>3, <1>t DEF RegisterBot, TypeInv, TypeOK
  <2> QED
    BY <1>2, <1>3, <2>1 DEF RegisterBot
<1>4. ASSUME NEW r \in Receivers, SubscribeBroadcast(r)
      PROVE  HeldAccepted' /\ PresentIsLater' /\ CleanHandover'
  BY <1>2, <1>4 DEF SubscribeBroadcast, busVars
<1>5. ASSUME NEW t \in Bots \cup {Broadcast}, Send(t)
      PROVE  HeldAccepted' /\ PresentIsLater' /\ CleanHandover'
  <2>e. /\ accepted' = accepted + 1
        /\ \A r \in Receivers :
              /\ r \in Reached(t) =>
                    queue'[r] = Pushed(r) /\ topic[r] = t /\ (t \in Bots => channels[t] = r)
              /\ r \notin Reached(t) => queue'[r] = queue[r]
        /\ UNCHANGED <<channels, topic, got>>
    BY <1>5, <1>t, SendEffect
  <2>1. \A r \in Receivers : r \in Reached(t) => Held(r)' \subseteq Held(r) \cup {accepted + 1}
    BY <2>e, <1>t, HeldPushed
  <2>2. \A r \in Receivers : r \notin Reached(t) => Held(r)' = Held(r)
    BY <2>e DEF Held
  <2>3. \A r \in Receivers : \A m \in Held(r) : m \in Nat /\ m <= accepted
    BY <1>h DEF HandoverInv, HeldAccepted
  <2>4. HeldAccepted'
    BY <1>a, <2>e, <2>1, <2>2, <2>3 DEF HeldAccepted
  <2>5. \A b \in Bots : \A s \in Receivers :
           channels[b] # s /\ topic[s] = b => s \notin Reached(t)
    BY <2>e
  <2>6. PresentIsLater'
    <3> SUFFICES ASSUME NEW b \in Bots, NEW c \in Receivers, NEW s \in Receivers,
                        channels[b] = c, s # c, topic[s] = b,
                        NEW m \in Held(s)', NEW n \in Held(c)'
                 PROVE  m < n
      BY <2>e DEF PresentIsLater
    <3>1. m \in Held(s)
      BY <2>2, <2>5
    <3>2. n \in Held(c) \/ n = accepted + 1
      BY <2>1, <2>2
    <3>3. CASE n \in Held(c)
      BY <3>1, <3>3 DEF HandoverInv, PresentIsLater
    <3>4. CASE n = accepted + 1
      BY <1>a, <2>3, <3>1, <3>4
    <3> QED
      BY <3>2, <3>3, <3>4
  <2>7. CleanHandover'
    <3> SUFFICES ASSUME NEW r \in Receivers, NEW s \in Receivers, r # s,
                        topic[r] = topic[s], topic[r] \in Bots,
                        NEW m \in Held(r)', NEW n \in Held(r)', NEW k \in Held(s)'
                 PROVE  ~(m <= k /\ k <= n)
      BY <2>e DEF CleanHandover, Apart
    <3>1. CASE r \notin Reached(t) /\ s \notin Reached(t)
      BY <2>2, <3>1 DEF HandoverInv, CleanHandover, Apart
    <3>2. CASE r \in Reached(t)
      <4>1. r = channels[topic[r]]
        BY <2>e, <3>2
      <4>2. s \notin Reached(t) /\ k \in Held(s)
        BY <2>2, <2>5, <4>1
      <4>3. m \in Held(r) \/ m = accepted + 1
        BY <2>1, <3>2
      <4>4. m \in Held(r) => k < m
        BY <4>1, <4>2, BusAssumption DEF HandoverInv, PresentIsLater
      <4>5. m = accepted + 1 => k < m
        BY <1>a, <2>3, <4>2
      <4>6. k \in Nat /\ m \in Nat
        BY <1>a, <1>h, <4>2, <4>3
      <4> QED
        BY <4>3, <4>4, <4>5, <4>6
    <3>3. CASE s \in Reached(t)
      <4>1. s = channels[topic[r]]
        BY <2>e, <3>3
      <4>2. r \notin Reached(t) /\ n \in Held(r)
        BY <2>2, <2>5, <4>1
      <4>3. k \in Held(s) \/ k = accepted + 1
        BY <2>1, <3>3
      <4>4. k \in Held(s) => n < k
        BY <4>1, <4>2, BusAssumption DEF HandoverInv, PresentIsLater
      <4>5. k = accepted + 1 => n < k
        BY <1>a, <2>3, <4>2
      <4>6. k \in Nat /\ n \in Nat
        BY <1>a, <1>h, <4>2, <4>3
      <4> QED
        BY <4>3, <4>4, <4>5, <4>6
    <3> QED
      BY <3>1, <3>2, <3>3
  <2> QED
    BY <2>4, <2>6, <2>7
<1>6. ASSUME NEW r \in Receivers, Receive(r)
      PROVE  HeldAccepted' /\ PresentIsLater' /\ CleanHandover'
  <2>1. UNCHANGED <<topic, accepted, channels>>
    BY <1>6 DEF Receive, busVars
  <2> QED
    BY <1>6, <1>t, <2>1, HeldReceived, HeldShrinks
<1>7. ASSUME UNCHANGED <<topic, accepted, channels, queue, got>>
      PROVE  HeldAccepted' /\ PresentIsLater' /\ CleanHandover'
  <2>1. \A r \in Receivers : Held(r)' \subseteq Held(r)
    BY <1>7 DEF Held
  <2> QED
    BY <1>7, <2>1, HeldShrinks
<1>8. CASE DropBus
  BY <1>7, <1>8 DEF DropBus, receiverVars
<1>9. ASSUME NEW r \in Receivers, Lagged(r) \/ Closed(r) \/ Drop(r)
      PROVE  HeldAccepted' /\ PresentIsLater' /\ CleanHandover'
  BY <1>7, <1>9 DEF Lagged, Closed, Drop, busVars
<1>10. CASE UNCHANGED vars
  BY <1>7, <1>10 DEF vars, busVars, receiverVars
<1> QED
  BY <1>1, <1>3, <1>4, <1>5, <1>6, <1>8, <1>9, <1>10 DEF Next

LEMMA HandoverInit == Init => HandoverInv
<1> SUFFICES ASSUME Init PROVE HandoverInv
  OBVIOUS
<1>1. Len(<<>>) = 0 /\ 1..0 = {}
  OBVIOUS
<1>2. \A r \in Receivers : got[r] = {} /\ queue[r] = <<>>
  BY DEF Init
<1>3. \A r \in Receivers : Held(r) = {}
  BY <1>1, <1>2 DEF Held
<1> QED
  BY <1>3, TypeInit DEF HandoverInv, HeldAccepted, PresentIsLater, CleanHandover, Apart, Init

(* However often a bot id is registered again, its messages are divided    *)
(* between former and new receiver cleanly (communication.rs:98-104).      *)
THEOREM HandoverIsClean == Spec => []CleanHandover
<1>1. HandoverInv => CleanHandover
  BY DEF HandoverInv
<1> QED
  BY <1>1, HandoverInit, HandoverStep, PTL DEF Spec

(***************************************************************************)
(* Accounts                                                                *)
(***************************************************************************)

(* q rises, and starts above all of G.                                     *)
RisesAbove(G, q) ==
    /\ \A i, j \in 1..Len(q) : i < j => q[i] < q[j]
    /\ \A m \in G : \A i \in 1..Len(q) : m < q[i]

Rising == \A r \in Receivers : RisesAbove(got[r], queue[r])

Counted ==
    \A r \in Receivers :
        /\ IsFiniteSet(got[r])
        /\ due[r] = Cardinality(got[r]) + told[r] + lapse[r] + Len(queue[r])

ClosedEmpty == \A r \in Receivers : status[r] = "closed" => lapse[r] = 0 /\ queue[r] = <<>>

AccountInv == HandoverInv /\ Rising /\ Counted /\ ClosedEmpty

LEMMA RisesAppend ==
    ASSUME NEW S \in SUBSET Nat, NEW G \in SUBSET S, NEW q \in Seq(S), NEW x \in S,
           RisesAbove(G, q), \A m \in G : m < x, \A i \in 1..Len(q) : q[i] < x
    PROVE  RisesAbove(G, Append(q, x))
<1>1. /\ Len(Append(q, x)) = Len(q) + 1 /\ Len(q) \in Nat
      /\ \A i \in 1..Len(q) : Append(q, x)[i] = q[i]
      /\ Append(q, x)[Len(q) + 1] = x
  OBVIOUS
<1>2. \A i, j \in 1..Len(Append(q, x)) : i < j => Append(q, x)[i] < Append(q, x)[j]
  <2> SUFFICES ASSUME NEW i \in 1..Len(q) + 1, NEW j \in 1..Len(q) + 1, i < j
               PROVE  Append(q, x)[i] < Append(q, x)[j]
    BY <1>1
  <2>1. i \in 1..Len(q)
    BY <1>1
  <2>2. CASE j = Len(q) + 1
    BY <1>1, <2>1, <2>2
  <2>3. CASE j # Len(q) + 1
    BY <1>1, <2>1, <2>3 DEF RisesAbove
  <2> QED
    BY <2>2, <2>3
<1>3. \A m \in G : \A i \in 1..Len(Append(q, x)) : m < Append(q, x)[i]
  <2> SUFFICES ASSUME NEW m \in G, NEW i \in 1..Len(q) + 1
               PROVE  m < Append(q, x)[i]
    BY <1>1
  <2>1. CASE i = Len(q) + 1
    BY <1>1, <2>1
  <2>2. CASE i # Len(q) + 1
    BY <1>1, <2>2 DEF RisesAbove
  <2> QED
    BY <2>1, <2>2
<1> QED
  BY <1>2, <1>3 DEF RisesAbove

LEMMA RisesTail ==
    ASSUME NEW S \in SUBSET Nat, NEW G \in SUBSET S, NEW q \in Seq(S), q # <<>>, RisesAbove(G, q)
    PROVE  /\ RisesAbove(G, Tail(q))
           /\ RisesAbove(G \cup {Head(q)}, Tail(q))
           /\ Head(q) \notin G
<1>1. /\ Len(Tail(q)) = Len(q) - 1 /\ Len(q) \in Nat \ {0}
      /\ \A i \in 1..Len(q) - 1 : Tail(q)[i] = q[i + 1]
      /\ Head(q) = q[1]
  OBVIOUS
<1>2. \A i \in 1..Len(q) : q[i] \in Nat
  <2>1. \A i \in 1..Len(q) : q[i] \in S
    OBVIOUS
  <2> QED
    BY <2>1
<1>3. \A i, j \in 1..Len(Tail(q)) : i < j => Tail(q)[i] < Tail(q)[j]
  BY <1>1 DEF RisesAbove
<1>4. \A m \in G : \A i \in 1..Len(Tail(q)) : m < Tail(q)[i]
  BY <1>1 DEF RisesAbove
<1>5. \A i \in 1..Len(Tail(q)) : Head(q) < Tail(q)[i]
  BY <1>1 DEF RisesAbove
<1>6. Head(q) \notin G
  BY <1>1, <1>2 DEF RisesAbove
<1> QED
  BY <1>3, <1>4, <1>5, <1>6 DEF RisesAbove

(* A send keeps the order and adds one to the account.                     *)
LEMMA PushedAccount ==
    ASSUME AccountInv, accepted < LastMessage, NEW r \in Receivers, topic[r] \in Bots \cup {Broadcast}
    PROVE  /\ RisesAbove(got[r], Pushed(r))
           /\ Overrun(r) + Len(Pushed(r)) = lapse[r] + Len(queue[r]) + 1
<1>1. PICK S : S = 1..LastMessage
  OBVIOUS
<1>2. PICK x : x = accepted + 1
  OBVIOUS
<1>3. PICK q : q = queue[r]
  OBVIOUS
<1>4. /\ q \in Seq(S) /\ Len(q) \in Nat /\ x \in S /\ S \subseteq Nat /\ got[r] \subseteq S
      /\ lapse[r] \in Nat /\ accepted \in Nat
  BY <1>1, <1>2, <1>3, BusAssumption DEF AccountInv, HandoverInv, TypeInv, TypeOK
<1>5. /\ \A m \in got[r] : m < x
      /\ \A i \in 1..Len(q) : q[i] < x
  <2>1. \A m \in Held(r) : m \in Nat /\ m <= accepted
    BY HeldTypes DEF AccountInv, HandoverInv, HeldAccepted
  <2>2. \A m \in Held(r) : m < x
    BY <1>2, <1>4, <2>1
  <2>3. /\ \A m \in got[r] : m \in Held(r)
        /\ \A i \in 1..Len(q) : q[i] \in Held(r)
    BY <1>3 DEF Held
  <2> QED
    BY <2>2, <2>3
<1>6. RisesAbove(got[r], q)
  BY <1>3 DEF AccountInv, Rising
<1>7. CASE Len(q) < Capacity(r)
  <2>1. Pushed(r) = Append(q, x) /\ Overrun(r) = lapse[r]
    BY <1>2, <1>3, <1>7 DEF Pushed, Overrun
  <2>2. RisesAbove(got[r], Append(q, x))
    BY <1>4, <1>5, <1>6, RisesAppend
  <2>3. Len(Append(q, x)) = Len(q) + 1
    BY <1>4
  <2>4. Overrun(r) = lapse[r] /\ Len(Pushed(r)) = Len(q) + 1
    BY <2>1, <2>3
  <2>5. lapse[r] + (Len(q) + 1) = lapse[r] + Len(q) + 1
    BY <1>4
  <2> QED
    BY <1>3, <2>1, <2>2, <2>4, <2>5
<1>8. CASE ~(Len(q) < Capacity(r))
  <2>1. Pushed(r) = Append(Tail(q), x) /\ Overrun(r) = lapse[r] + 1
    BY <1>2, <1>3, <1>8 DEF Pushed, Overrun
  <2>2. q # <<>>
    BY <1>4, <1>8, Capacities
  <2>3. /\ Tail(q) \in Seq(S) /\ Len(Tail(q)) = Len(q) - 1
        /\ \A i \in 1..Len(Tail(q)) : i + 1 \in 1..Len(q) /\ Tail(q)[i] = q[i + 1]
    BY <1>4, <2>2
  <2>4. RisesAbove(got[r], Tail(q))
    BY <1>4, <1>6, <2>2, RisesTail
  <2>5. \A i \in 1..Len(Tail(q)) : Tail(q)[i] < x
    BY <1>5, <2>3
  <2>6. RisesAbove(got[r], Append(Tail(q), x))
    BY <1>4, <1>5, <2>3, <2>4, <2>5, RisesAppend
  <2>7. Len(Append(Tail(q), x)) = Len(Tail(q)) + 1 /\ Len(Tail(q)) \in Nat
    BY <1>4, <2>3
  <2>8. Overrun(r) + Len(Pushed(r)) = lapse[r] + Len(q) + 1
    BY <1>4, <2>1, <2>3, <2>7
  <2> QED
    BY <1>3, <2>1, <2>6, <2>8
<1> QED
  BY <1>7, <1>8

LEMMA AccountStep == AccountInv /\ [Next]_vars => AccountInv'
<1> SUFFICES ASSUME AccountInv, [Next]_vars PROVE Rising' /\ Counted' /\ ClosedEmpty'
  BY HandoverStep DEF AccountInv
<1>t. TypeInv
  BY DEF AccountInv, HandoverInv
<1>n. \A r \in Receivers :
         /\ due[r] \in Nat /\ told[r] \in Nat /\ lapse[r] \in Nat /\ Len(queue[r]) \in Nat
         /\ Cardinality(got[r]) \in Nat
  <2>1. \A r \in Receivers : queue[r] \in Seq(1..LastMessage)
    BY <1>t DEF TypeInv, TypeOK
  <2>2. \A r \in Receivers : Cardinality(got[r]) \in Nat
    BY FS_CardinalityType DEF AccountInv, Counted
  <2> QED
    BY <1>t, <2>1, <2>2 DEF TypeInv, TypeOK
<1>1. ASSUME UNCHANGED <<queue, lapse, got, told, due>>,
             \A r \in Receivers : status'[r] = "closed" => status[r] = "closed"
      PROVE  Rising' /\ Counted' /\ ClosedEmpty'
  BY <1>1 DEF AccountInv, Rising, Counted, ClosedEmpty
<1>2. ASSUME NEW b \in Bots, UnregisterBot(b) PROVE Rising' /\ Counted' /\ ClosedEmpty'
  BY <1>1, <1>2 DEF UnregisterBot, receiverVars
<1>3. ASSUME NEW r \in Receivers, NEW t \in Bots \cup {Broadcast}, Made(r, t)
      PROVE  Rising' /\ Counted' /\ ClosedEmpty'
  <2>1. \A s \in Receivers : status'[s] = "closed" => status[s] = "closed"
    BY <1>3, <1>t DEF Made, TypeInv, TypeOK
  <2> QED
    BY <1>1, <1>3, <2>1 DEF Made
<1>4. ASSUME NEW b \in Bots, NEW r \in Receivers, RegisterBot(r, b)
      PROVE  Rising' /\ Counted' /\ ClosedEmpty'
  BY <1>3, <1>4 DEF RegisterBot
<1>5. ASSUME NEW r \in Receivers, SubscribeBroadcast(r)
      PROVE  Rising' /\ Counted' /\ ClosedEmpty'
  BY <1>3, <1>5 DEF SubscribeBroadcast
<1>6. ASSUME NEW t \in Bots \cup {Broadcast}, Send(t) PROVE Rising' /\ Counted' /\ ClosedEmpty'
  <2>e. /\ accepted < LastMessage
        /\ \A r \in Receivers :
              /\ r \in Reached(t) =>
                    /\ queue'[r] = Pushed(r) /\ lapse'[r] = Overrun(r)
                    /\ due'[r] = due[r] + 1 /\ topic[r] = t /\ status[r] = "open"
              /\ r \notin Reached(t) =>
                    queue'[r] = queue[r] /\ lapse'[r] = lapse[r] /\ due'[r] = due[r]
        /\ UNCHANGED <<status, got, told>>
    BY <1>6, <1>t, SendEffect
  <2>1. ClosedEmpty'
    BY <2>e DEF AccountInv, ClosedEmpty
  <2>2. \A r \in Receivers : r \in Reached(t) =>
           /\ RisesAbove(got[r], queue'[r])
           /\ lapse'[r] + Len(queue'[r]) = lapse[r] + Len(queue[r]) + 1
    BY <2>e, PushedAccount
  <2>3. Rising'
    BY <2>e, <2>2 DEF AccountInv, Rising
  <2>4. \A r \in Receivers : lapse'[r] \in Nat /\ Len(queue'[r]) \in Nat
    <3>1. \A r \in Receivers : lapse'[r] \in Nat /\ queue'[r] \in Seq(1..LastMessage)
      BY <1>t, TypeStep DEF TypeInv, TypeOK
    <3> QED
      BY <3>1
  <2>5. Counted'
    <3> SUFFICES ASSUME NEW r \in Receivers
                 PROVE  /\ IsFiniteSet(got'[r])
                        /\ due'[r] = Cardinality(got'[r]) + told'[r] + lapse'[r] + Len(queue'[r])
      BY DEF Counted
    <3>1. /\ IsFiniteSet(got[r])
          /\ due[r] = Cardinality(got[r]) + told[r] + lapse[r] + Len(queue[r])
      BY DEF AccountInv, Counted
    <3>2. CASE r \in Reached(t)
      <4>1. lapse'[r] + Len(queue'[r]) = lapse[r] + Len(queue[r]) + 1 /\ due'[r] = due[r] + 1
        BY <2>e, <2>2, <3>2
      <4>2. got'[r] = got[r] /\ told'[r] = told[r]
        BY <2>e
      <4>3. PICK c \in Nat : c = Cardinality(got[r])
        BY <1>n
      <4>0. lapse[r] + Len(queue[r]) \in Nat /\ lapse'[r] + Len(queue'[r]) \in Nat
        BY <1>n, <2>4
      <4>4. PICK a \in Nat, b \in Nat : a = lapse[r] + Len(queue[r]) /\ b = lapse'[r] + Len(queue'[r])
        BY <4>0
      <4>5. due[r] = c + told[r] + a
        BY <1>n, <3>1, <4>3, <4>4
      <4>6. b = a + 1
        BY <4>1, <4>4
      <4>7. due'[r] = c + told[r] + b
        BY <1>n, <4>1, <4>3, <4>4, <4>5, <4>6
      <4>8. due'[r] = c + told[r] + lapse'[r] + Len(queue'[r])
        BY <1>n, <2>4, <4>3, <4>4, <4>7
      <4> QED
        BY <3>1, <4>2, <4>3, <4>8
    <3>3. CASE r \notin Reached(t)
      BY <2>e, <3>1, <3>3
    <3> QED
      BY <3>2, <3>3
  <2> QED
    BY <2>1, <2>3, <2>5
<1>7. CASE DropBus
  BY <1>1, <1>7 DEF DropBus, receiverVars
<1>8. ASSUME NEW r \in Receivers, Drop(r) PROVE Rising' /\ Counted' /\ ClosedEmpty'
  <2>1. \A s \in Receivers : status'[s] = "closed" => status[s] = "closed"
    BY <1>8, <1>t DEF Drop, TypeInv, TypeOK
  <2> QED
    BY <1>1, <1>8, <2>1 DEF Drop
<1>9. ASSUME NEW r \in Receivers, Lagged(r) PROVE Rising' /\ Counted' /\ ClosedEmpty'
  <2>1. /\ told'[r] = told[r] + lapse[r] /\ lapse'[r] = 0
        /\ \A s \in Receivers : s # r => told'[s] = told[s] /\ lapse'[s] = lapse[s]
        /\ UNCHANGED <<status, queue, got, due>>
    BY <1>9, <1>t DEF Lagged, TypeInv, TypeOK
  <2>2. Rising' /\ ClosedEmpty'
    BY <2>1 DEF AccountInv, Rising, ClosedEmpty
  <2>3. PICK c \in Nat : c = Cardinality(got[r])
    BY <1>n
  <2>4. due[r] = c + told[r] + lapse[r] + Len(queue[r])
    BY <2>3 DEF AccountInv, Counted
  <2>5. due'[r] = c + told'[r] + lapse'[r] + Len(queue'[r])
    BY <1>n, <2>1, <2>3, <2>4
  <2>6. Counted'
    BY <2>1, <2>3, <2>5 DEF AccountInv, Counted
  <2> QED
    BY <2>2, <2>6
<1>10. ASSUME NEW r \in Receivers, Receive(r) PROVE Rising' /\ Counted' /\ ClosedEmpty'
  <2>1. PICK S : S = 1..LastMessage
    OBVIOUS
  <2>2. PICK q : q = queue[r]
    OBVIOUS
  <2>3. /\ q \in Seq(S) /\ q # <<>> /\ S \in SUBSET Nat /\ got[r] \in SUBSET S
        /\ status[r] = "open"
    BY <1>10, <1>t, <2>1, <2>2 DEF Receive, TypeInv, TypeOK
  <2>4. /\ queue'[r] = Tail(q) /\ got'[r] = got[r] \cup {Head(q)}
        /\ \A s \in Receivers : s # r => queue'[s] = queue[s] /\ got'[s] = got[s]
        /\ UNCHANGED <<status, lapse, told, due>>
    BY <1>10, <1>t, <2>2 DEF Receive, TypeInv, TypeOK
  <2>5. /\ RisesAbove(got[r], q) /\ IsFiniteSet(got[r])
        /\ due[r] = Cardinality(got[r]) + told[r] + lapse[r] + Len(q)
    BY <2>2 DEF AccountInv, Rising, Counted
  <2>6. RisesAbove(got[r] \cup {Head(q)}, Tail(q)) /\ Head(q) \notin got[r]
    BY <2>3, <2>5, RisesTail
  <2>7. /\ IsFiniteSet(got[r] \cup {Head(q)})
        /\ Cardinality(got[r] \cup {Head(q)}) = Cardinality(got[r]) + 1
    BY <2>5, <2>6, FS_AddElement
  <2>8. Len(Tail(q)) = Len(q) - 1 /\ Len(q) \in Nat
    BY <2>3
  <2>9. Rising'
    BY <2>4, <2>6 DEF AccountInv, Rising
  <2>10. Counted'
    <3>1. PICK c \in Nat : c = Cardinality(got[r])
      BY <1>n
    <3>2. due[r] = (c + 1) + told[r] + lapse[r] + (Len(q) - 1)
      <4>1. PICK a, b, k : a = told[r] /\ b = lapse[r] /\ k = Len(q)
        OBVIOUS
      <4>2. a \in Nat /\ b \in Nat /\ k \in Nat /\ due[r] = c + a + b + k
        BY <1>n, <2>5, <2>8, <3>1, <4>1
      <4>3. due[r] = (c + 1) + a + b + (k - 1)
        BY <4>2
      <4> QED
        BY <4>1, <4>3
    <3>4. Cardinality(got'[r]) = c + 1 /\ Len(queue'[r]) = Len(q) - 1
      BY <2>4, <2>7, <2>8, <3>1
    <3>5. due'[r] = due[r] /\ told'[r] = told[r] /\ lapse'[r] = lapse[r]
      BY <2>4
    <3>3. due'[r] = Cardinality(got'[r]) + told'[r] + lapse'[r] + Len(queue'[r])
      BY <3>2, <3>4, <3>5, Zenon
    <3> QED
      BY <2>4, <2>7, <3>3 DEF AccountInv, Counted
  <2>11. ClosedEmpty'
    BY <2>3, <2>4 DEF AccountInv, ClosedEmpty
  <2> QED
    BY <2>9, <2>10, <2>11
<1>11. ASSUME NEW r \in Receivers, Closed(r) PROVE Rising' /\ Counted' /\ ClosedEmpty'
  <2>1. /\ lapse[r] = 0 /\ queue[r] = <<>>
        /\ \A s \in Receivers : s # r => status'[s] = status[s]
        /\ UNCHANGED <<queue, lapse, got, told, due>>
    BY <1>11, <1>t DEF Closed, TypeInv, TypeOK
  <2> QED
    BY <2>1 DEF AccountInv, Rising, Counted, ClosedEmpty
<1>12. CASE UNCHANGED vars
  BY <1>1, <1>12 DEF vars, receiverVars
<1> QED
  BY <1>2, <1>4, <1>5, <1>6, <1>7, <1>8, <1>9, <1>10, <1>11, <1>12 DEF Next

(* A receiver that is told its channel is closed got every message the bus *)
(* accepted for it or was told that it missed it, whatever the capacities  *)
(* and however often ids are registered again                              *)
(* (communication.rs:99-103, 107-109).                                     *)
THEOREM NothingIsLostSilently == Spec => []ClosedIsLast
<1>1. Init => AccountInv
  <2> SUFFICES ASSUME Init PROVE AccountInv
    OBVIOUS
  <2>1. Len(<<>>) = 0 /\ 1..0 = {}
    OBVIOUS
  <2>2. \A r \in Receivers : /\ got[r] = {} /\ queue[r] = <<>> /\ due[r] = 0
                           /\ told[r] = 0 /\ lapse[r] = 0
    BY DEF Init
  <2>3. HandoverInv
    BY HandoverInit
  <2>4. IsFiniteSet({}) /\ Cardinality({}) = 0
    BY FS_EmptySet
  <2>5. Rising
    BY <2>1, <2>2 DEF Rising, RisesAbove
  <2>6. Counted
    <3>1. \A r \in Receivers : Cardinality(got[r]) = 0 /\ Len(queue[r]) = 0 /\ IsFiniteSet(got[r])
      BY <2>1, <2>2, <2>4
    <3>2. 0 = 0 + 0 + 0 + 0
      OBVIOUS
    <3> QED
      BY <2>2, <3>1, <3>2 DEF Counted
  <2>7. ClosedEmpty
    BY <2>2 DEF ClosedEmpty
  <2> QED
    BY <2>3, <2>5, <2>6, <2>7 DEF AccountInv
<1>2. AccountInv => ClosedIsLast
  <2> SUFFICES ASSUME AccountInv, NEW r \in Receivers, status[r] = "closed"
               PROVE  due[r] = Cardinality(got[r]) + told[r]
    BY DEF ClosedIsLast
  <2>1. lapse[r] = 0 /\ Len(queue[r]) = 0
    BY DEF AccountInv, ClosedEmpty
  <2>2. /\ due[r] = Cardinality(got[r]) + told[r] + lapse[r] + Len(queue[r])
        /\ Cardinality(got[r]) \in Nat
    BY FS_CardinalityType DEF AccountInv, Counted
  <2>3. told[r] \in Nat
    BY DEF AccountInv, HandoverInv, TypeInv, TypeOK
  <2> QED
    BY <2>1, <2>2, <2>3
<1> QED
  BY <1>1, <1>2, AccountStep, PTL DEF Spec

============================================================================

---------------------------- MODULE MessageBus ----------------------------
(***************************************************************************)
(* The message bus of the bots (bot/src/communication.rs): one channel per *)
(* registered bot and one for broadcasts, all of tokio's broadcast kind.   *)
(* The bus holds the sending side of every channel, and whoever registered *)
(* or subscribed a receiver.  A channel keeps its latest messages only: a  *)
(* receiver that falls behind is told how many it missed, and one whose    *)
(* sending side is gone gets what is left and is then told that the        *)
(* channel is closed.                                                      *)
(*                                                                         *)
(* Messages are numbered in the order in which the bus accepts them; their *)
(* content is left out.  A send the bus refuses changes nothing and is not *)
(* an action.                                                              *)
(***************************************************************************)
EXTENDS Naturals, Sequences, FiniteSets

CONSTANTS
    Bots,               \* bot ids
    Receivers,          \* receivers, each made by one call
    Broadcast,          \* the recipient that stands for all
    None,               \* no receiver, or no topic
    BotCapacity,        \* what a bot's channel keeps (100, rounded up to 128)
    BroadcastCapacity,  \* what the broadcast channel keeps (1000, up to 1024)
    LastMessage         \* bound on the messages accepted

ASSUME BusAssumption ==
    /\ Broadcast \notin Bots /\ None \notin Bots \cup Receivers \cup {Broadcast}
    /\ BotCapacity \in Nat \ {0} /\ BroadcastCapacity \in Nat \ {0}
    /\ LastMessage \in Nat

VARIABLES
    up,        \* the bus exists
    channels,  \* the receiver whose sending side is registered for each bot
    accepted,  \* how many messages the bus has accepted
    topic,     \* what each receiver was made for
    status,    \* what has become of it
    queue,     \* the messages its channel still has for it
    lapse,     \* how many it lost since it was last told
    got,       \* the messages it received
    told,      \* how many it was told it missed
    due        \* how many were sent to its channel since it was made

busVars == <<up, channels, accepted>>
receiverVars == <<topic, status, queue, lapse, got, told, due>>
vars == <<busVars, receiverVars>>

(* A message is its number: sender, type and content are left out. *)
Messages == 1..LastMessage

TypeOK ==
    /\ up \in BOOLEAN
    /\ channels \in [Bots -> Receivers \cup {None}]
    /\ accepted \in 0..LastMessage
    /\ topic \in [Receivers -> Bots \cup {Broadcast, None}]
    /\ status \in [Receivers -> {"new", "open", "closed", "dropped"}]
    /\ queue \in [Receivers -> Seq(Messages)]
    /\ \A r \in Receivers :
          /\ topic[r] \in Bots => Len(queue[r]) <= BotCapacity
          /\ topic[r] = Broadcast => Len(queue[r]) <= BroadcastCapacity
          /\ topic[r] = None => queue[r] = <<>>
    /\ lapse \in [Receivers -> Nat]
    /\ got \in [Receivers -> SUBSET Messages]
    /\ told \in [Receivers -> Nat]
    /\ due \in [Receivers -> Nat]

Capacity(r) == IF topic[r] = Broadcast THEN BroadcastCapacity ELSE BotCapacity

(* The bus has the sending side of the channel r receives from.            *)
HasSender(r) ==
    /\ up
    /\ \/ topic[r] = Broadcast
       \/ topic[r] \in Bots /\ channels[topic[r]] = r

(***************************************************************************)
(* The bus                                                                 *)
(***************************************************************************)

(* Makes r, which nobody has yet, a receiver for t.                        *)
Made(r, t) ==
    /\ status[r] = "new"
    /\ topic' = [topic EXCEPT ![r] = t]
    /\ status' = [status EXCEPT ![r] = "open"]
    /\ UNCHANGED <<queue, lapse, got, told, due>>

(* register_bot: a channel of its own.  The one the bot had is dropped by  *)
(* the insert, and with it the sending side.                               *)
RegisterBot(r, b) ==
    /\ up
    /\ Made(r, b)
    /\ channels' = [channels EXCEPT ![b] = r]
    /\ UNCHANGED <<up, accepted>>

UnregisterBot(b) ==
    /\ up
    /\ channels' = [channels EXCEPT ![b] = None]
    /\ UNCHANGED <<up, accepted, receiverVars>>

SubscribeBroadcast(r) ==
    /\ up
    /\ Made(r, Broadcast)
    /\ UNCHANGED busVars

(* Faulty variant: registering again leaves the former channel in use. *)
ReachedAll(t) ==
    {r \in Receivers : status[r] = "open" /\ topic[r] = t}

(* The receivers a message for t reaches.  Without one, send fails.        *)
Reached(t) ==
    {r \in Receivers : status[r] = "open" /\ topic[r] = t /\ HasSender(r)}

(* One more message for r: a full channel gives up its oldest.             *)
Pushed(r) ==
    IF Len(queue[r]) < Capacity(r)
    THEN Append(queue[r], accepted + 1) ELSE Append(Tail(queue[r]), accepted + 1)

(* Faulty variant: what is given up is not counted. *)
OverrunSilently(r) == lapse[r]

Overrun(r) == IF Len(queue[r]) < Capacity(r) THEN lapse[r] ELSE lapse[r] + 1

(* send: looks the recipient up and sends under one lock.                  *)
Send(t) ==
    /\ up /\ accepted < LastMessage
    /\ Reached(t) # {}
    /\ accepted' = accepted + 1
    /\ queue' = [r \in Receivers |-> IF r \in Reached(t) THEN Pushed(r) ELSE queue[r]]
    /\ lapse' = [r \in Receivers |-> IF r \in Reached(t) THEN Overrun(r) ELSE lapse[r]]
    /\ due' = [r \in Receivers |-> IF r \in Reached(t) THEN due[r] + 1 ELSE due[r]]
    /\ UNCHANGED <<up, channels, topic, status, got, told>>

(* The last owner of the bus drops it, and every sending side with it.     *)
DropBus ==
    /\ up
    /\ up' = FALSE
    /\ UNCHANGED <<channels, accepted, receiverVars>>

(***************************************************************************)
(* Receivers                                                               *)
(***************************************************************************)

(* recv of a receiver that fell behind: says by how much, and goes on with *)
(* the oldest message there is.                                            *)
Lagged(r) ==
    /\ status[r] = "open" /\ lapse[r] > 0
    /\ told' = [told EXCEPT ![r] = @ + lapse[r]]
    /\ lapse' = [lapse EXCEPT ![r] = 0]
    /\ UNCHANGED <<busVars, topic, status, queue, got, due>>

Receive(r) ==
    /\ status[r] = "open" /\ lapse[r] = 0 /\ queue[r] # <<>>
    /\ got' = [got EXCEPT ![r] = @ \cup {Head(queue[r])}]
    /\ queue' = [queue EXCEPT ![r] = Tail(@)]
    /\ UNCHANGED <<busVars, topic, status, lapse, told, due>>

(* Faulty variant: any receiver of a bus that is gone, and no other. *)
ClosedWithBus(r) ==
    /\ status[r] = "open" /\ lapse[r] = 0 /\ queue[r] = <<>>
    /\ ~up
    /\ status' = [status EXCEPT ![r] = "closed"]
    /\ UNCHANGED <<busVars, topic, queue, lapse, got, told, due>>

Closed(r) ==
    /\ status[r] = "open" /\ lapse[r] = 0 /\ queue[r] = <<>>
    /\ ~HasSender(r)
    /\ status' = [status EXCEPT ![r] = "closed"]
    /\ UNCHANGED <<busVars, topic, queue, lapse, got, told, due>>

Drop(r) ==
    /\ status[r] = "open"
    /\ status' = [status EXCEPT ![r] = "dropped"]
    /\ UNCHANGED <<busVars, topic, queue, lapse, got, told, due>>

Recv(r) == Lagged(r) \/ Receive(r) \/ Closed(r)

Init ==
    /\ up = TRUE
    /\ channels = [b \in Bots |-> None]
    /\ accepted = 0
    /\ topic = [r \in Receivers |-> None]
    /\ status = [r \in Receivers |-> "new"]
    /\ queue = [r \in Receivers |-> <<>>]
    /\ lapse = [r \in Receivers |-> 0]
    /\ got = [r \in Receivers |-> {}]
    /\ told = [r \in Receivers |-> 0]
    /\ due = [r \in Receivers |-> 0]

Next ==
    \/ \E b \in Bots : UnregisterBot(b) \/ \E r \in Receivers : RegisterBot(r, b)
    \/ \E t \in Bots \cup {Broadcast} : Send(t)
    \/ DropBus
    \/ \E r \in Receivers : SubscribeBroadcast(r) \/ Drop(r)
    \/ \E r \in Receivers : Lagged(r) \/ Receive(r) \/ Closed(r)

(* Who made a receiver goes on receiving until it is closed or dropped.    *)
Fairness == \A r \in Receivers : WF_vars(Recv(r))

Spec == Init /\ [][Next]_vars
FairSpec == Spec /\ Fairness

(***************************************************************************)
(* Properties                                                              *)
(***************************************************************************)

(* When a bot id is registered again, its messages are divided between the *)
(* former and the new receiver, all earlier ones to the one and all later  *)
(* ones to the other: none goes to both, and the two never take turns      *)
(* (communication.rs:98-104, 120-128).                                     *)
Held(r) == got[r] \cup {queue[r][i] : i \in 1..Len(queue[r])}

Apart(r, s) == \A m, n \in Held(r) : \A k \in Held(s) : ~(m <= k /\ k <= n)

CleanHandover ==
    \A r, s \in Receivers : r # s /\ topic[r] = topic[s] /\ topic[r] \in Bots => Apart(r, s)

(* A receiver that is told its channel is closed has received every        *)
(* message the bus accepted for it, or was told that it missed it          *)
(* (communication.rs:99-103, 107-109).                                     *)
ClosedIsLast ==
    \A r \in Receivers : status[r] = "closed" => due[r] = Cardinality(got[r]) + told[r]

(* A receiver whose bot was unregistered, or registered again by another,  *)
(* does not wait for ever: it is told (communication.rs:101, 108).         *)
Cut(r) == status[r] = "open" /\ ~HasSender(r)
CutOffAreTold == \A r \in Receivers : Cut(r) ~> status[r] \in {"closed", "dropped"}

============================================================================

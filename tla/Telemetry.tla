----------------------------- MODULE Telemetry -----------------------------
(***************************************************************************)
(* How a worker's telemetry is kept and how it reaches the coordinator:    *)
(*                                                                         *)
(*  - the event recorder of its bots (metrics/src/recorder.rs), a log that *)
(*    forgets its oldest events;                                           *)
(*  - the buffer of worker metrics (MetricsBuffer, fault_tolerance.rs);    *)
(*  - the stream_metrics call (coordinator.rs): one task per stream, which *)
(*    reads it and sends what it reads into a bounded channel, and the     *)
(*    processor that empties the channel.                                  *)
(*                                                                         *)
(* The caller that flushes the buffer and sends what it got on a stream is *)
(* not in the repository yet; it is modelled as the comments on the buffer *)
(* and the protocol ask for.  Events and samples are numbered in the order *)
(* in which they are recorded; what they contain is left out.              *)
(***************************************************************************)
EXTENDS Naturals, Sequences

CONSTANTS
    MaxEvents,      \* capacity of the recorder (100,000 in the code)
    MaxBufferSize,  \* capacity of the buffer
    ChannelSize,    \* capacity of the channel (1000 in the code)
    Streams,        \* stream_metrics calls
    LastEvent, LastSample, MaxBatch  \* bounds

ASSUME TelemetryAssumption ==
    /\ MaxEvents \in Nat \ {0} /\ MaxBufferSize \in Nat \ {0} /\ ChannelSize \in Nat \ {0}
    /\ LastEvent \in Nat /\ LastSample \in Nat /\ MaxBatch \in Nat

VARIABLES
    events,    \* the recorder's log
    recorded,  \* how many events have been recorded
    batch,     \* events record_batch has still to push, holding the lock
    buffer,    \* the metrics buffer
    sampled,   \* how many samples have been buffered
    hand,      \* samples flushed and not yet sent
    stream,    \* the state of each stream as its client left it
    sent,      \* the samples sent on each stream
    reader,    \* the task spawned for each stream
    read,      \* how many samples it has read
    queue,     \* the channel: places <<stream, position>>, oldest first
    got        \* the position of the last sample processed of each stream

recorderVars == <<events, recorded, batch>>
bufferVars == <<buffer, sampled>>
clientVars == <<hand, stream, sent>>
coordinatorVars == <<reader, read, queue, got>>
vars == <<recorderVars, bufferVars, clientVars, coordinatorVars>>

TypeOK ==
    /\ events \in Seq(1..LastEvent) /\ Len(events) <= MaxEvents
    /\ recorded \in 0..LastEvent
    /\ batch \in 0..LastEvent
    /\ buffer \in Seq(1..LastSample) /\ Len(buffer) <= MaxBufferSize
    /\ sampled \in 0..LastSample
    /\ hand \in Seq(1..LastSample) /\ Len(hand) <= MaxBufferSize
    /\ stream \in [Streams -> {"none", "open", "closed", "broken"}]
    /\ sent \in [Streams -> Seq(1..LastSample)]
    /\ reader \in [Streams -> {"none", "reading", "sending", "ended"}]
    /\ read \in [Streams -> Nat] /\ \A s \in Streams : read[s] <= Len(sent[s])
    /\ queue \in Seq(Streams \X (Nat \ {0})) /\ Len(queue) <= ChannelSize
    /\ got \in [Streams -> Nat]

(***************************************************************************)
(* EventRecorder                                                           *)
(***************************************************************************)

(* record: drains what is over the capacity, one place included. *)
Record ==
    /\ batch = 0 /\ recorded < LastEvent
    /\ LET excess == IF Len(events) >= MaxEvents THEN Len(events) - MaxEvents + 1 ELSE 0
       IN  events' = Append(SubSeq(events, excess + 1, Len(events)), recorded + 1)
    /\ recorded' = recorded + 1
    /\ UNCHANGED <<batch, bufferVars, clientVars, coordinatorVars>>

(* record_batch: takes the lock, and pushes one event after the other.     *)
RecordBatch(n) ==
    /\ batch = 0 /\ recorded + n <= LastEvent
    /\ batch' = n
    /\ UNCHANGED <<events, recorded, bufferVars, clientVars, coordinatorVars>>

(* Faulty variant: a full log loses what was recorded last. *)
RecordNextOver ==
    /\ batch > 0
    /\ events' = Append(IF Len(events) >= MaxEvents THEN SubSeq(events, 1, Len(events) - 1)
                        ELSE events, recorded + 1)
    /\ recorded' = recorded + 1
    /\ batch' = batch - 1
    /\ UNCHANGED <<bufferVars, clientVars, coordinatorVars>>

RecordNext ==
    /\ batch > 0
    /\ events' = Append(IF Len(events) >= MaxEvents THEN Tail(events) ELSE events, recorded + 1)
    /\ recorded' = recorded + 1
    /\ batch' = batch - 1
    /\ UNCHANGED <<bufferVars, clientVars, coordinatorVars>>

Clear ==
    /\ batch = 0
    /\ events' = <<>>
    /\ UNCHANGED <<recorded, batch, bufferVars, clientVars, coordinatorVars>>

(***************************************************************************)
(* MetricsBuffer, and the client that flushes it                           *)
(***************************************************************************)

(* Faulty variant: a full buffer gives way to the new sample entirely. *)
BufferRestart ==
    /\ sampled < LastSample
    /\ buffer' = Append(IF Len(buffer) >= MaxBufferSize THEN <<>> ELSE buffer, sampled + 1)
    /\ sampled' = sampled + 1
    /\ UNCHANGED <<recorderVars, clientVars, coordinatorVars>>

Buffer ==
    /\ sampled < LastSample
    /\ buffer' = Append(IF Len(buffer) >= MaxBufferSize THEN Tail(buffer) ELSE buffer, sampled + 1)
    /\ sampled' = sampled + 1
    /\ UNCHANGED <<recorderVars, clientVars, coordinatorVars>>

(* Faulty variant: returns a copy, and leaves the samples in the buffer. *)
FlushCopy ==
    /\ hand = <<>> /\ buffer # <<>>
    /\ hand' = buffer
    /\ UNCHANGED <<recorderVars, bufferVars, stream, sent, coordinatorVars>>

(* flush: hands over the content, and leaves the buffer empty. *)
Flush ==
    /\ hand = <<>> /\ buffer # <<>>
    /\ hand' = buffer
    /\ buffer' = <<>>
    /\ UNCHANGED <<recorderVars, sampled, stream, sent, coordinatorVars>>

Send(s) ==
    /\ stream[s] = "open" /\ hand # <<>>
    /\ sent' = [sent EXCEPT ![s] = Append(@, Head(hand))]
    /\ hand' = Tail(hand)
    /\ UNCHANGED <<recorderVars, bufferVars, stream, coordinatorVars>>

Close(s) ==
    /\ stream[s] = "open"
    /\ stream' = [stream EXCEPT ![s] = "closed"]
    /\ UNCHANGED <<recorderVars, bufferVars, hand, sent, coordinatorVars>>

Break(s) ==
    /\ stream[s] \in {"open", "closed"} /\ reader[s] # "ended"
    /\ stream' = [stream EXCEPT ![s] = "broken"]
    /\ UNCHANGED <<recorderVars, bufferVars, hand, sent, coordinatorVars>>

(***************************************************************************)
(* Coordinator                                                             *)
(***************************************************************************)

(* stream_metrics: spawns the task, and answers before anything is read. *)
StreamMetrics(s) ==
    /\ stream[s] = "none"
    /\ stream' = [stream EXCEPT ![s] = "open"]
    /\ reader' = [reader EXCEPT ![s] = "reading"]
    /\ UNCHANGED <<recorderVars, bufferVars, hand, sent, read, queue, got>>

(* stream.message(): what a broken stream still had is read, or lost. *)
Read(s) ==
    /\ reader[s] = "reading" /\ read[s] < Len(sent[s])
    /\ reader' = [reader EXCEPT ![s] = "sending"]
    /\ read' = [read EXCEPT ![s] = @ + 1]
    /\ UNCHANGED <<recorderVars, bufferVars, clientVars, queue, got>>

(* Faulty variant: only an error ends the task, the end of a stream not. *)
EndOnError(s) ==
    /\ reader[s] = "reading" /\ stream[s] = "broken"
    /\ reader' = [reader EXCEPT ![s] = "ended"]
    /\ UNCHANGED <<recorderVars, bufferVars, clientVars, read, queue, got>>

(* The loop ends with the stream, at its end or at an error. *)
End(s) ==
    /\ reader[s] = "reading"
    /\ \/ stream[s] = "closed" /\ read[s] = Len(sent[s])
       \/ stream[s] = "broken"
    /\ reader' = [reader EXCEPT ![s] = "ended"]
    /\ UNCHANGED <<recorderVars, bufferVars, clientVars, read, queue, got>>

(* Faulty variant: does not wait for room in the channel. *)
EnqueueOrDrop(s) ==
    /\ reader[s] = "sending"
    /\ queue' = IF Len(queue) < ChannelSize THEN Append(queue, <<s, read[s]>>) ELSE queue
    /\ reader' = [reader EXCEPT ![s] = "reading"]
    /\ UNCHANGED <<recorderVars, bufferVars, clientVars, read, got>>

(* metrics_tx.send: waits while the channel is full. *)
Enqueue(s) ==
    /\ reader[s] = "sending" /\ Len(queue) < ChannelSize
    /\ queue' = Append(queue, <<s, read[s]>>)
    /\ reader' = [reader EXCEPT ![s] = "reading"]
    /\ UNCHANGED <<recorderVars, bufferVars, clientVars, read, got>>

(* The processor takes the oldest sample of the channel. *)
Process ==
    /\ queue # <<>>
    /\ got' = [got EXCEPT ![Head(queue)[1]] = Head(queue)[2]]
    /\ queue' = Tail(queue)
    /\ UNCHANGED <<recorderVars, bufferVars, clientVars, reader, read>>

Init ==
    /\ events = <<>> /\ recorded = 0 /\ batch = 0
    /\ buffer = <<>> /\ sampled = 0 /\ hand = <<>>
    /\ stream = [s \in Streams |-> "none"]
    /\ sent = [s \in Streams |-> <<>>]
    /\ reader = [s \in Streams |-> "none"]
    /\ read = [s \in Streams |-> 0]
    /\ queue = <<>>
    /\ got = [s \in Streams |-> 0]

Next ==
    \/ Record \/ RecordNext \/ Clear \/ \E n \in 1..MaxBatch : RecordBatch(n)
    \/ Buffer \/ Flush
    \/ \E s \in Streams : Send(s) \/ Close(s) \/ Break(s) \/ StreamMetrics(s)
    \/ \E s \in Streams : Read(s) \/ End(s) \/ Enqueue(s)
    \/ Process

(* tokio runs what is ready, and serves the senders that wait for room in  *)
(* the order in which they came: none waits for ever beside others.        *)
Fairness ==
    /\ WF_vars(Process)
    /\ \A s \in Streams : WF_vars(Read(s) \/ End(s)) /\ SF_vars(Enqueue(s))

Spec == Init /\ [][Next]_vars
FairSpec == Spec /\ Fairness

(***************************************************************************)
(* Properties                                                              *)
(***************************************************************************)

(* The recorder keeps the latest events, in order and without a gap, as    *)
(* many as its capacity allows since it was cleared, through record as     *)
(* through record_batch, whose ways of making room differ                  *)
(* (recorder.rs:28-50).                                                    *)
RecorderWindow == INSTANCE SlidingWindow
    WITH Capacity <- MaxEvents, arrived <- recorded, kept <- events
RecorderIsWindow == RecorderWindow!Spec

(* The buffer keeps the latest samples since it was flushed, in order and  *)
(* without a gap (fault_tolerance.rs:122-137).                             *)
BufferWindow == INSTANCE SlidingWindow
    WITH Capacity <- MaxBufferSize, arrived <- sampled, kept <- buffer
BufferIsWindow == BufferWindow!Spec

(* A sample is in one place only: buffered, flushed, or sent, once and on  *)
(* one stream (fault_tolerance.rs:134-137).                                *)
Occurs(n, s) == \E i \in 1..Len(s) : s[i] = n

OnePlace ==
    /\ \A i, j \in 1..Len(hand) : hand[i] = hand[j] => i = j
    /\ \A i \in 1..Len(hand) : ~Occurs(hand[i], buffer)
    /\ \A s \in Streams : \A i \in 1..Len(sent[s]) :
          /\ ~Occurs(sent[s][i], buffer) /\ ~Occurs(sent[s][i], hand)
          /\ \A t \in Streams : \A j \in 1..Len(sent[t]) :
                sent[s][i] = sent[t][j] => s = t /\ i = j

(* Of each stream the processor sees the samples in the order sent, none   *)
(* left out and none twice, however full the channel and however many      *)
(* streams share it (coordinator.rs:25-33, 161-167).                       *)
InOrder == \A s \in Streams : got'[s] \in {got[s], got[s] + 1}
StreamInOrder == [][InOrder]_vars

(* A stream that its client has ended is read, and if it did not break all *)
(* of it is processed, and its task ends (coordinator.rs:162-166).         *)
Drained(s) ==
    /\ reader[s] = "ended"
    /\ stream[s] = "closed" => got[s] = Len(sent[s])
StreamsDrain == \A s \in Streams : stream[s] \in {"closed", "broken"} ~> Drained(s)

(* What StreamsDrain does not owe to fairness: when the task of a stream   *)
(* that did not break has ended and the channel holds nothing of it, the   *)
(* processor has had all that was sent.                                    *)
NothingLostOfClosed ==
    \A s \in Streams :
        /\ reader[s] = "ended" /\ stream[s] = "closed"
        /\ \A i \in 1..Len(queue) : queue[i][1] # s
        => got[s] = Len(sent[s])

============================================================================

---------------------------- MODULE ServiceCalls ----------------------------
(***************************************************************************)
(* The clients of crates/integration: AlphaOSClient and DeltaOSClient make *)
(* one HTTP request per call, with a timeout from its start to the end of  *)
(* the answer's body; AdnetClient runs one command per call and waits for  *)
(* it, however long.  None of them keeps state or tries again.             *)
(*                                                                         *)
(* A request carries nothing that tells it from another one, and its       *)
(* service may carry it out after the caller has given it up.  The         *)
(* services themselves (AlphaOS, DeltaOS, the adnet command) are external: *)
(* they carry out a request once at most, and report success only of what  *)
(* they have carried out.                                                  *)
(***************************************************************************)
EXTENDS Naturals, FiniteSets

CONSTANT Calls   \* the calls that are made, each once

VARIABLES
    phase,    \* where each call is, or how it ended
    request,  \* what each call asks for
    wire,     \* requests that may still be carried out
    status,   \* the status line of each answer said success
    done      \* how often each request has been carried out

callVars == <<phase, request, wire, status, done>>

(* The methods of the clients, by what they do at the service and by what they
   want to read from the answer: an id of what they have submitted
   (broadcast_transaction, submit_order, open_position, transfer, trade_order,
   claim_rewards); nothing (cancel_order, close_position, trade_cancel), which
   over HTTP must be the JSON `null`; or a value (the other methods). *)
HttpRequest ==
    [via : {"http"}, kind : {"submit", "read"}, of : {"-"}]
        \cup [via : {"http"}, kind : {"cancel"}, of : Calls]

CommandRequest == {[r EXCEPT !.via = "command"] : r \in HttpRequest}

Request == HttpRequest \cup CommandRequest

Phase == {"new", "sent", "answered", "ok", "error", "refused"}

CallsTypeOK ==
    /\ phase \in [Calls -> Phase]
    /\ request \in [Calls -> Request]
    /\ wire \subseteq Calls
    /\ status \in [Calls -> BOOLEAN]
    /\ done \in [Calls -> {0, 1}]

Http(c) == request[c].via = "http"

(* The orders and positions that a submit has opened and no cancel has closed. *)
Closed(o) == \E c \in Calls :
                 /\ request[c].kind = "cancel" /\ request[c].of = o
                 /\ done[c] = 1

Open(o) == request[o].kind = "submit" /\ done[o] > 0 /\ ~Closed(o)

(***************************************************************************)
(* The clients                                                             *)
(***************************************************************************)

(* The ids a caller can name are those that submits have returned. *)
CanAsk(r) ==
    r.kind = "cancel" => phase[r.of] = "ok" /\ request[r.of].kind = "submit"

(* send().await, or Command::output: the request is under way. *)
SendRequest(c, r) ==
    /\ phase[c] = "new" /\ CanAsk(r)
    /\ phase' = [phase EXCEPT ![c] = "sent"]
    /\ request' = [request EXCEPT ![c] = r]
    /\ wire' = wire \cup {c}
    /\ UNCHANGED <<status, done>>

(* ... or it never leaves: the connection is refused, there is no such command. *)
CallRefused(c, r) ==
    /\ phase[c] = "new" /\ CanAsk(r)
    /\ phase' = [phase EXCEPT ![c] = "refused"]
    /\ request' = [request EXCEPT ![c] = r]
    /\ UNCHANGED <<wire, status, done>>

End(c, result) ==
    /\ phase' = [phase EXCEPT ![c] = result]
    /\ UNCHANGED <<request, wire, status, done>>

(* Faulty variant: the status is not looked at. *)
ResultOfBody(r, success, fits) ==
    IF fits \/ (r.via = "command" /\ r.kind = "cancel") THEN "ok" ELSE "error"

(* What a call returns for an answer: an error for a status that is no success
   or a text that does not have the form wanted, whatever has been carried
   out; a command's text does not matter when nothing is wanted from it. *)
Result(r, success, fits) ==
    IF success /\ (fits \/ (r.via = "command" /\ r.kind = "cancel")) THEN "ok" ELSE "error"

(* handle_response: the body has arrived. *)
HandleResponse(c, fits) ==
    /\ Http(c) /\ phase[c] = "answered"
    /\ End(c, Result(request[c], status[c], fits))

(* The connection breaks before the status or within the body. *)
BreakConnection(c) ==
    /\ Http(c) /\ phase[c] \in {"sent", "answered"}
    /\ End(c, "error")

(* Faulty variants: a timeout that ends with the status line; and a client that
   sends the request again. *)
TimeoutOfStatus(c) ==
    /\ Http(c) /\ phase[c] = "sent"
    /\ End(c, "error")

TimeoutAndRetry(c) ==
    /\ Http(c) /\ phase[c] \in {"sent", "answered"}
    /\ phase' = [phase EXCEPT ![c] = "sent"]
    /\ wire' = wire \cup {c}
    /\ UNCHANGED <<request, status, done>>

(* Client::timeout(30 s) covers the whole call. *)
Timeout(c) ==
    /\ Http(c) /\ phase[c] \in {"sent", "answered"}
    /\ End(c, "error")

(* The command ends (also by a signal: no success) and its output is read. *)
CommandEnds(c, success, fits) ==
    /\ ~Http(c) /\ phase[c] = "sent"
    /\ success => done[c] = 1
    /\ End(c, Result(request[c], success, fits))

(***************************************************************************)
(* Network and services                                                    *)
(***************************************************************************)

(* A request is carried out: something is opened, closed or looked up. *)
CarryOut(c) ==
    /\ c \in wire
    /\ request[c].kind = "cancel" => Open(request[c].of)
    /\ wire' = wire \ {c}
    /\ done' = [done EXCEPT ![c] = @ + 1]
    /\ UNCHANGED <<phase, request, status>>

(* It is lost, or the service does not do it. *)
Drop(c) ==
    /\ c \in wire
    /\ wire' = wire \ {c}
    /\ UNCHANGED <<phase, request, status, done>>

(* The status line of the answer arrives; an error may be reported of a request
   that is carried out all the same, by a gateway for example. *)
Answer(c, success) ==
    /\ Http(c) /\ phase[c] = "sent"
    /\ success => done[c] = 1
    /\ phase' = [phase EXCEPT ![c] = "answered"]
    /\ status' = [status EXCEPT ![c] = success]
    /\ UNCHANGED <<request, wire, done>>

(***************************************************************************)
(* The specification                                                       *)
(***************************************************************************)

CallsInit ==
    /\ phase = [c \in Calls |-> "new"]
    /\ request = [c \in Calls |-> [via |-> "http", kind |-> "read", of |-> "-"]]
    /\ wire = {}
    /\ status = [c \in Calls |-> FALSE]
    /\ done = [c \in Calls |-> 0]

CallsNext ==
    \E c \in Calls :
        \/ \E r \in Request : SendRequest(c, r) \/ CallRefused(c, r)
        \/ \E fits \in BOOLEAN : HandleResponse(c, fits)
        \/ BreakConnection(c) \/ Timeout(c)
        \/ \E success, fits \in BOOLEAN : CommandEnds(c, success, fits)
        \/ CarryOut(c) \/ Drop(c)
        \/ \E success \in BOOLEAN : Answer(c, success)

(* The timer of an HTTP call runs out.  Nothing else has to happen: a service
   need not answer, a command need not end. *)
CallsFairness == \A c \in Calls : WF_callVars(Timeout(c))

CallsSpec == CallsInit /\ [][CallsNext]_callVars /\ CallsFairness

(***************************************************************************)
(* Properties                                                              *)
(***************************************************************************)

(* Through timeouts, broken connections, late effects, misleading errors and
   texts that cannot be read, a call is a RemoteCall: no client makes its
   request take effect twice, and none returns Ok for one that has not. *)
Outcome == [c \in Calls |->
              CASE phase[c] \in {"sent", "answered"} -> "open"
                [] OTHER -> phase[c]]

Remote == INSTANCE RemoteCall WITH outcome <- Outcome, effects <- done

ImplementsRemoteCall == Remote!Spec

(* When a cancel has returned Ok, its order is closed and never opens again,
   even if requests of other calls are still under way. *)
OkCancelCloses ==
    \A c \in Calls :
        request[c].kind = "cancel" /\ phase[c] = "ok" => ~Open(request[c].of)

(* An HTTP call comes to an end even if its service never answers, or stops in
   the middle of its answer. *)
HttpCallsReturn ==
    \A c \in Calls :
        (Http(c) /\ phase[c] = "sent") ~> (phase[c] \in {"ok", "error"})

(***************************************************************************)
(* The inductive invariant behind them                                     *)
(***************************************************************************)

(* A request under way has not been carried out, and its call has begun and has
   not returned Ok. *)
WireIsOpen ==
    \A c \in wire : done[c] = 0 /\ phase[c] \in {"sent", "answered", "error"}

(* Success is reported only of what has been carried out. *)
SuccessIsDone ==
    \A c \in Calls :
        phase[c] = "ok" \/ (phase[c] = "answered" /\ status[c]) => done[c] = 1

(* Nothing has been carried out for a call that has not been made. *)
NothingUnasked ==
    \A c \in Calls : phase[c] \in {"new", "refused"} => done[c] = 0

CallsInv == CallsTypeOK /\ WireIsOpen /\ SuccessIsDone /\ NothingUnasked

=============================================================================

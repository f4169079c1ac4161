-------------------------- MODULE HeartbeatMonitor --------------------------
(***************************************************************************)
(* What the coordinator promises about its view of the workers, with no    *)
(* locks, no RPCs and no processes: for every known worker, how long it    *)
(* has been silent and whether it is suspected (`healthy == false` in the  *)
(* registry).  A worker becomes suspected in two ways only: its own        *)
(* heartbeat says so, or it has been silent for longer than Timeout; and   *)
(* when silence is acted upon, every worker that is late by MaxLag more is *)
(* suspected in the same step, never just some of them.                    *)
(*                                                                         *)
(* WorkerRegistry (lock by lock) and Cluster (process by process) both     *)
(* implement this specification.                                           *)
(***************************************************************************)
EXTENDS Naturals

CONSTANTS
    Workers,    \* worker ids
    Timeout,    \* silence tolerated before a worker is suspected
    MaxSilence, \* silence is not counted beyond this value
    MaxLag      \* largest distance between reading the time and using it

VARIABLE view   \* worker id -> [silence, suspected], for the known workers

Sighting == [silence : 0..MaxSilence, suspected : BOOLEAN]

(* The known workers are the domain of the view, as they are the keys of the
   registry's map. *)
TypeOK == view \in UNION {[S -> Sighting] : S \in SUBSET Workers}

Init == view = [w \in {} |-> 0]

(* Time passes: every known worker has been silent for one unit more. *)
Pass ==
    view' = [w \in DOMAIN view |->
               [view[w] EXCEPT !.silence = IF @ < MaxSilence THEN @ + 1 ELSE @]]

(* The coordinator hears from w.  The time of the message may have been read
   `lag` ago.  Its own report decides whether it is suspected. *)
Hear(w, lag, well) ==
    view' = [v \in DOMAIN view \cup {w} |->
               IF v = w THEN [silence |-> lag, suspected |-> ~well]
                        ELSE view[v]]

(* All workers that are late are suspected, judged at a time read `lag` ago. *)
Suspect(lag) ==
    view' = [w \in DOMAIN view |->
               IF view[w].silence > Timeout + lag
               THEN [view[w] EXCEPT !.suspected = TRUE]
               ELSE view[w]]

(* Workers are forgotten: one of them, or all when the coordinator restarts. *)
Forget(S) ==
    view' = [w \in DOMAIN view \ S |-> view[w]]

Next ==
    \/ Pass
    \/ \E w \in Workers, lag \in 0..MaxLag, well \in BOOLEAN : Hear(w, lag, well)
    \/ \E lag \in 0..MaxLag : Suspect(lag)
    \/ \E S \in SUBSET Workers : Forget(S)

Spec == Init /\ [][Next]_view

=============================================================================

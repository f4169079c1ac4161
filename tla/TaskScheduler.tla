--------------------------- MODULE TaskScheduler ---------------------------
(***************************************************************************)
(* The task scheduler of a bot (bot/src/scheduler.rs): a list of tasks, a  *)
(* shutdown flag, each behind its own mutex, `run` working through a copy  *)
(* of the list, and one tokio task per delayed or recurring task.  What a  *)
(* task itself does is left out; it is started, and runs on its own.       *)
(*                                                                         *)
(* `run` clones the list, which asks for Task to be Clone; the model takes *)
(* a copy, which is what the code says it wants.  Time is left out: a      *)
(* sleeping task may wake at any moment.                                   *)
(***************************************************************************)
EXTENDS Naturals, Sequences

CONSTANTS
    Immediate, Delayed, Recurring,  \* the tasks, by their TaskKind
    Runs,                           \* calls of `run`
    MaxStarts                       \* bound: starts are counted up to it

Tasks == Immediate \cup Delayed \cup Recurring

ASSUME SchedulerAssumption ==
    /\ Immediate \cap Delayed = {} /\ Immediate \cap Recurring = {} /\ Delayed \cap Recurring = {}
    /\ MaxStarts \in Nat \ {0, 1}

VARIABLES
    tasks,     \* the list
    shutdown,  \* the flag
    run,       \* where each call of `run` is
    copy,      \* the copy of the list each call works through
    next,      \* the place in it of the task it has come to
    waiter,    \* the tokio task spawned by a run for a task
    starts,    \* how often a run, or its tokio task, has started a task
    late       \* how many of these starts came after `shutdown` had returned

vars == <<tasks, shutdown, run, copy, next, waiter, starts, late>>

Activity == Runs \X Tasks

TypeOK ==
    /\ tasks \in Seq(Tasks)
    /\ shutdown \in BOOLEAN
    /\ run \in [Runs -> {"called", "look", "start", "stopped", "done"}]
    /\ copy \in [Runs -> Seq(Tasks)]
    /\ next \in [Runs -> Nat \ {0}]
    /\ \A r \in Runs :
          /\ next[r] <= Len(copy[r]) + IF run[r] = "start" THEN 0 ELSE 1
          /\ run[r] = "called" => next[r] = 1
    /\ waiter \in [Activity -> {"none", "sleeping", "awake", "ended"}]
    /\ starts \in [Activity -> 0..MaxStarts]
    /\ late \in [Activity -> 0..MaxStarts]

(* schedule_immediate, schedule_delayed, schedule_recurring: never refused. *)
Schedule(t) ==
    /\ \A i \in 1..Len(tasks) : tasks[i] # t
    /\ tasks' = Append(tasks, t)
    /\ UNCHANGED <<shutdown, run, copy, next, waiter, starts, late>>

Shutdown ==
    /\ ~shutdown
    /\ shutdown' = TRUE
    /\ UNCHANGED <<tasks, run, copy, next, waiter, starts, late>>

CountedUp(n) == IF n < MaxStarts THEN n + 1 ELSE n

(* The call of a task's function. *)
Started(a) ==
    /\ starts' = [starts EXCEPT ![a] = CountedUp(@)]
    /\ late' = IF shutdown THEN [late EXCEPT ![a] = CountedUp(@)] ELSE late

(***************************************************************************)
(* run                                                                     *)
(***************************************************************************)

RunCopy(r) ==
    /\ run[r] = "called"
    /\ run' = [run EXCEPT ![r] = "look"]
    /\ copy' = [copy EXCEPT ![r] = tasks]
    /\ UNCHANGED <<tasks, shutdown, next, waiter, starts, late>>

(* The head of the loop: done, stopped by the flag, or on to the next task. *)
RunLook(r) ==
    /\ run[r] = "look"
    /\ run' = [run EXCEPT ![r] = IF next[r] > Len(copy[r]) THEN "done"
                                 ELSE IF shutdown THEN "stopped" ELSE "start"]
    /\ UNCHANGED <<tasks, shutdown, copy, next, waiter, starts, late>>

(* Faulty variant: the loop ends with the first immediate task. *)
RunStartAndLeave(r) ==
    /\ run[r] = "start"
    /\ LET a == <<r, copy[r][next[r]]>>
       IN  \/ /\ a[2] \in Immediate
              /\ Started(a)
              /\ next' = [next EXCEPT ![r] = Len(copy[r]) + 1]
              /\ UNCHANGED waiter
           \/ /\ a[2] \in Delayed \cup Recurring
              /\ waiter' = [waiter EXCEPT ![a] = "sleeping"]
              /\ next' = [next EXCEPT ![r] = @ + 1]
              /\ UNCHANGED <<starts, late>>
    /\ run' = [run EXCEPT ![r] = "look"]
    /\ UNCHANGED <<tasks, shutdown, copy>>

(* The body: an immediate task is started, the others get a tokio task. *)
RunStart(r) ==
    /\ run[r] = "start"
    /\ LET a == <<r, copy[r][next[r]]>>
       IN  \/ /\ a[2] \in Immediate
              /\ Started(a)
              /\ UNCHANGED waiter
           \/ /\ a[2] \in Delayed \cup Recurring
              /\ waiter' = [waiter EXCEPT ![a] = "sleeping"]
              /\ UNCHANGED <<starts, late>>
    /\ run' = [run EXCEPT ![r] = "look"]
    /\ next' = [next EXCEPT ![r] = @ + 1]
    /\ UNCHANGED <<tasks, shutdown, copy>>

(***************************************************************************)
(* The tokio tasks                                                         *)
(***************************************************************************)

(* Faulty variant: a recurring task looks at the flag only the first time. *)
WakeOnceChecked(a) ==
    /\ waiter[a] = "sleeping"
    /\ waiter' = [waiter EXCEPT ![a] = IF shutdown /\ starts[a] = 0 THEN "ended" ELSE "awake"]
    /\ UNCHANGED <<tasks, shutdown, run, copy, next, starts, late>>

(* Faulty variant: a recurring task that sees the flag skips the tick and goes on. *)
WakeSkipsTick(a) ==
    /\ waiter[a] = "sleeping"
    /\ waiter' = [waiter EXCEPT ![a] = IF ~shutdown THEN "awake"
                                       ELSE IF a[2] \in Recurring THEN "sleeping" ELSE "ended"]
    /\ UNCHANGED <<tasks, shutdown, run, copy, next, starts, late>>

(* The sleep or the tick is over: the flag is read, and its mutex released. *)
Wake(a) ==
    /\ waiter[a] = "sleeping"
    /\ waiter' = [waiter EXCEPT ![a] = IF shutdown THEN "ended" ELSE "awake"]
    /\ UNCHANGED <<tasks, shutdown, run, copy, next, starts, late>>

(* func(): a recurring task then waits for its next tick. *)
Fire(a) ==
    /\ waiter[a] = "awake"
    /\ Started(a)
    /\ waiter' = [waiter EXCEPT ![a] = IF a[2] \in Recurring THEN "sleeping" ELSE "ended"]
    /\ UNCHANGED <<tasks, shutdown, run, copy, next>>

Init ==
    /\ tasks = <<>>
    /\ shutdown = FALSE
    /\ run = [r \in Runs |-> "called"]
    /\ copy = [r \in Runs |-> <<>>]
    /\ next = [r \in Runs |-> 1]
    /\ waiter = [a \in Activity |-> "none"]
    /\ starts = [a \in Activity |-> 0]
    /\ late = [a \in Activity |-> 0]

Next ==
    \/ \E t \in Tasks : Schedule(t)
    \/ Shutdown
    \/ \E r \in Runs : RunCopy(r) \/ RunLook(r) \/ RunStart(r)
    \/ \E a \in Activity : Wake(a) \/ Fire(a)

(* tokio runs what is ready, and timers go off. *)
Fairness ==
    /\ \A r \in Runs : WF_vars(RunLook(r) \/ RunStart(r))
    /\ \A a \in Activity : WF_vars(Wake(a) \/ Fire(a))

Spec == Init /\ [][Next]_vars
FairSpec == Spec /\ Fairness

(***************************************************************************)
(* Properties                                                              *)
(***************************************************************************)

(* The flag is read before a task is started, not while: a start can come  *)
(* after shutdown has returned, but at most one for each task of each run  *)
(* (scheduler.rs:105, 120, 137).                                           *)
AtMostOneLateStart == \A a \in Activity : late[a] <= 1

(* Why: a list holds a task once, so a run comes to it once; a tokio task  *)
(* that has started its task after shutdown is back asleep, or at its end. *)
Distinct(s) == \A i, j \in 1..Len(s) : s[i] = s[j] => i = j

LateInv ==
    /\ Distinct(tasks)
    /\ \A r \in Runs : Distinct(copy[r])
    /\ \A a \in Activity :
        /\ late[a] <= 1
        /\ late[a] > 0 => shutdown
        /\ a[2] \in Immediate =>
               /\ waiter[a] = "none"
               /\ late[a] > 0 => \E i \in 1..next[a[1]] - 1 : copy[a[1]][i] = a[2]
        /\ a[2] \notin Immediate /\ late[a] > 0 => waiter[a] \in {"sleeping", "ended"}

(* A run starts, or spawns a tokio task for, the tasks it has passed and   *)
(* no other, an immediate one once, and at its end has passed its whole    *)
(* list, whoever schedules or runs beside it (scheduler.rs:101-148).       *)
RunCoversItsList ==
    \A r \in Runs, t \in Tasks :
        LET passed == \E i \in 1..next[r] - 1 : copy[r][i] = t
        IN  /\ passed <=> (starts[<<r, t>>] > 0 \/ waiter[<<r, t>>] # "none")
            /\ t \in Immediate => starts[<<r, t>>] <= 1
            /\ run[r] = "done" => \A i \in 1..Len(copy[r]) : copy[r][i] = t => passed

(* After shutdown every tokio task comes to an end, for good.              *)
QuietAfterShutdown ==
    shutdown ~> [](\A a \in Activity : waiter[a] \in {"none", "ended"})

============================================================================

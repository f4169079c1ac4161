------------------------ MODULE TaskSchedulerProofs ------------------------
(***************************************************************************)
(* Proofs about TaskScheduler, for any tasks and any number of runs.       *)
(***************************************************************************)
EXTENDS TaskScheduler, SequenceTheorems, TLAPS

(* Counting up stays within the bound, and counts 0 as 1. *)
LEMMA CountedUpRange ==
    ASSUME NEW n \in 0..MaxStarts
    PROVE  CountedUp(n) \in 0..MaxStarts /\ (n = 0 => CountedUp(n) = 1)
  BY SchedulerAssumption DEF CountedUp

(* A start keeps both counters in their types. *)
LEMMA StartedType ==
    ASSUME TypeOK, NEW a \in Activity, Started(a)
    PROVE  starts' \in [Activity -> 0..MaxStarts] /\ late' \in [Activity -> 0..MaxStarts]
  BY CountedUpRange DEF Started, TypeOK

-----------------------------------------------------------------------------
(* The type invariant *)

(* Every step keeps every variable in its type; a run about to start a task *)
(* is at a place of its list.                                               *)
LEMMA TypeStep ==
    ASSUME TypeOK, [Next]_vars
    PROVE  TypeOK'
  <1>1. ASSUME NEW t \in Tasks, Schedule(t)
        PROVE  TypeOK'
    BY <1>1 DEF Schedule, TypeOK
  <1>2. CASE Shutdown
    BY <1>2 DEF Shutdown, TypeOK
  <1>3. ASSUME NEW r \in Runs, RunCopy(r)
        PROVE  TypeOK'
    <2>1. \A q \in Runs : copy'[q] = IF q = r THEN tasks ELSE copy[q]
      BY <1>3 DEF RunCopy, TypeOK
    <2>2. \A q \in Runs :
             /\ next'[q] <= Len(copy'[q]) + IF run'[q] = "start" THEN 0 ELSE 1
             /\ run'[q] = "called" => next'[q] = 1
      <3> SUFFICES ASSUME NEW q \in Runs
                   PROVE  /\ next[q] <= Len(copy'[q]) + IF run'[q] = "start" THEN 0 ELSE 1
                          /\ run'[q] = "called" => next[q] = 1
        BY <1>3 DEF RunCopy
      <3>1. CASE q = r
        <4>1. next[q] = 1 /\ run'[q] = "look" /\ Len(copy'[q]) \in Nat
          BY <1>3, <2>1, <3>1 DEF RunCopy, TypeOK
        <4> QED  BY <4>1
      <3>2. CASE q # r  BY <1>3, <2>1, <3>2 DEF RunCopy, TypeOK
      <3> QED  BY <3>1, <3>2
    <2> QED  BY <1>3, <2>2 DEF RunCopy, TypeOK
  <1>4. ASSUME NEW r \in Runs, RunLook(r)
        PROVE  TypeOK'
    BY <1>4 DEF RunLook, TypeOK
  <1>5. ASSUME NEW r \in Runs, RunStart(r)
        PROVE  TypeOK'
    <2> DEFINE a == <<r, copy[r][next[r]]>>
    <2>1. next[r] \in 1..Len(copy[r])  BY <1>5 DEF RunStart, TypeOK
    <2>2. a \in Activity  BY <2>1 DEF TypeOK, Activity
    <2>3. /\ starts' \in [Activity -> 0..MaxStarts] /\ late' \in [Activity -> 0..MaxStarts]
          /\ waiter' \in [Activity -> {"none", "sleeping", "awake", "ended"}]
      BY <1>5, <2>2, StartedType DEF RunStart, TypeOK
    <2>4. /\ next' \in [Runs -> Nat \ {0}]
          /\ \A q \in Runs :
                /\ next'[q] <= Len(copy'[q]) + IF run'[q] = "start" THEN 0 ELSE 1
                /\ run'[q] = "called" => next'[q] = 1
      BY <1>5, <2>1 DEF RunStart, TypeOK
    <2> QED  BY <1>5, <2>3, <2>4 DEF RunStart, TypeOK
  <1>6. ASSUME NEW a \in Activity, Wake(a)
        PROVE  TypeOK'
    BY <1>6 DEF Wake, TypeOK
  <1>7. ASSUME NEW a \in Activity, Fire(a)
        PROVE  TypeOK'
    BY <1>7, StartedType DEF Fire, TypeOK
  <1>8. CASE UNCHANGED vars
    BY <1>8 DEF vars, TypeOK
  <1> QED  BY <1>1, <1>2, <1>3, <1>4, <1>5, <1>6, <1>7, <1>8 DEF Next

(* The scheduler's state keeps its type, and a run never leaves its list,  *)
(* for any tasks and any number of runs.                                   *)
THEOREM SchedulerTypes == Spec => []TypeOK
  <1>1. ASSUME Init
        PROVE  TypeOK
    <2>1. /\ tasks \in Seq(Tasks) /\ copy \in [Runs -> Seq(Tasks)]
          /\ \A r \in Runs : Len(copy[r]) = 0
      BY <1>1 DEF Init
    <2>2. /\ starts \in [Activity -> 0..MaxStarts] /\ late \in [Activity -> 0..MaxStarts]
          /\ next \in [Runs -> Nat \ {0}]
      BY <1>1, SchedulerAssumption DEF Init
    <2>3. \A r \in Runs : run[r] = "called" /\ next[r] = 1
      BY <1>1 DEF Init
    <2>4. \A r \in Runs :
             /\ next[r] <= Len(copy[r]) + IF run[r] = "start" THEN 0 ELSE 1
             /\ run[r] = "called" => next[r] = 1
      BY <2>1, <2>3
    <2> QED  BY <1>1, <2>1, <2>2, <2>4 DEF Init, TypeOK
  <1> QED  BY <1>1, TypeStep, PTL DEF Spec

-----------------------------------------------------------------------------
(* Late starts *)

(* What LateInv says of one activity. *)
LateAt(a) ==
    /\ late[a] <= 1
    /\ late[a] > 0 => shutdown
    /\ a[2] \in Immediate =>
           /\ waiter[a] = "none"
           /\ late[a] > 0 => \E i \in 1..next[a[1]] - 1 : copy[a[1]][i] = a[2]
    /\ a[2] \notin Immediate /\ late[a] > 0 => waiter[a] \in {"sleeping", "ended"}

(* What LateInv says of one run. *)
RunAt(r) == Distinct(copy[r]) /\ (run[r] = "called" => next[r] = 1)

(* A start raises one counter, of an activity that has had no late start,  *)
(* to at most one.                                                         *)
LEMMA StartedOnce ==
    ASSUME TypeOK, NEW a \in Activity, Started(a), late[a] = 0
    PROVE  /\ \A b \in Activity \ {a} : late'[b] = late[b]
           /\ late'[a] <= 1 /\ (late'[a] > 0 => shutdown)
  <1>1. CASE shutdown
    BY <1>1, CountedUpRange, SchedulerAssumption DEF Started, TypeOK
  <1>2. CASE ~shutdown
    BY <1>2 DEF Started, TypeOK
  <1> QED  BY <1>1, <1>2

(* Each step keeps LateInv.  A run starts an immediate task only when it   *)
(* comes to it, and it comes to it once; a tokio task starts its task only *)
(* when awake, and after a late start it never wakes again.                *)
LEMMA LateStep ==
    ASSUME TypeOK, LateInv, [Next]_vars
    PROVE  LateInv'
  <1>0. /\ Distinct(tasks) /\ \A r \in Runs : RunAt(r)
        /\ \A a \in Activity : LateAt(a)
    BY DEF LateInv, LateAt, RunAt, TypeOK
  <1> SUFFICES /\ Distinct(tasks)' /\ \A r \in Runs : RunAt(r)'
               /\ \A a \in Activity : LateAt(a)'
    BY DEF LateInv, LateAt, RunAt
  <1> DEFINE Goal == /\ Distinct(tasks)' /\ \A r \in Runs : RunAt(r)'
                     /\ \A a \in Activity : LateAt(a)'
  <1>1. ASSUME NEW t \in Tasks, Schedule(t)
        PROVE  Goal
    <2>1. Distinct(tasks)'
      <3>1. /\ Len(tasks') = Len(tasks) + 1 /\ tasks'[Len(tasks) + 1] = t
            /\ \A i \in 1..Len(tasks) : tasks'[i] = tasks[i] /\ tasks[i] # t
            /\ Len(tasks) \in Nat
        BY <1>1 DEF Schedule, TypeOK
      <3> QED  BY <1>0, <3>1 DEF Distinct
    <2>2. \A a \in Activity : LateAt(a)'  BY <1>1, <1>0 DEF Schedule, LateAt
    <2>3. \A r \in Runs : RunAt(r)'  BY <1>1, <1>0 DEF Schedule, RunAt
    <2> QED  BY <2>1, <2>2, <2>3
  <1>2. ASSUME Shutdown
        PROVE  Goal
    <2>1. \A a \in Activity : LateAt(a)'  BY <1>2, <1>0 DEF Shutdown, LateAt
    <2>2. \A r \in Runs : RunAt(r)'  BY <1>2, <1>0 DEF Shutdown, RunAt
    <2> QED  BY <1>2, <1>0, <2>1, <2>2 DEF Shutdown, Distinct
  <1>3. ASSUME NEW r \in Runs, RunCopy(r)
        PROVE  Goal
    <2>1. \A q \in Runs : copy'[q] = IF q = r THEN tasks ELSE copy[q]
      BY <1>3 DEF RunCopy, TypeOK
    <2>2. \A q \in Runs : RunAt(q)'
      BY <1>3, <1>0, <2>1 DEF RunCopy, RunAt, Distinct, TypeOK
    <2>3. next[r] = 1  BY <1>3, <1>0 DEF RunCopy, RunAt
    <2>4. \A a \in Activity : LateAt(a)'
      <3> SUFFICES ASSUME NEW a \in Activity
                   PROVE  LateAt(a)'
        OBVIOUS
      <3>1. CASE a[1] = r
        <4>1. a[2] \in Immediate => ~(late[a] > 0)  BY <1>0, <2>3, <3>1 DEF LateAt
        <4> QED  BY <1>3, <1>0, <4>1 DEF RunCopy, LateAt
      <3>2. CASE a[1] # r
        <4>1. copy'[a[1]] = copy[a[1]]  BY <2>1, <3>2 DEF Activity
        <4> QED  BY <1>3, <1>0, <4>1 DEF RunCopy, LateAt
      <3> QED  BY <3>1, <3>2
    <2> QED  BY <1>3, <1>0, <2>2, <2>4 DEF RunCopy, Distinct
  <1>4. ASSUME NEW r \in Runs, RunLook(r)
        PROVE  Goal
    <2>1. \A a \in Activity : LateAt(a)'  BY <1>4, <1>0 DEF RunLook, LateAt
    <2>2. \A q \in Runs : RunAt(q)'  BY <1>4, <1>0 DEF RunLook, RunAt, TypeOK
    <2> QED  BY <1>4, <1>0, <2>1, <2>2 DEF RunLook, Distinct
  <1>5. ASSUME NEW r \in Runs, RunStart(r)
        PROVE  Goal
    <2>1. next[r] \in 1..Len(copy[r]) /\ next'[r] = next[r] + 1
          /\ \A q \in Runs \ {r} : next'[q] = next[q]
      BY <1>5 DEF RunStart, TypeOK
    <2>2. \A q \in Runs : RunAt(q)'
      BY <1>5, <1>0 DEF RunStart, RunAt, TypeOK
    <2>a. <<r, copy[r][next[r]]>> \in Activity
      BY <2>1 DEF TypeOK, Activity
    <2>3. PICK b \in Activity : b = <<r, copy[r][next[r]]>>
      BY <2>a
    <2>4. b[1] = r /\ b[2] = copy[r][next[r]]  BY <2>3
    <2>5. \A i \in 1..next[r] - 1 : copy[r][i] # b[2]
      <3>0. Len(copy[r]) \in Nat  BY DEF TypeOK
      <3>1. \A i \in 1..next[r] - 1 : i \in 1..Len(copy[r]) /\ i # next[r]
        BY <2>1, <3>0
      <3> QED  BY <1>0, <2>1, <2>4, <3>1 DEF RunAt, Distinct
    <2>6. \A a \in Activity : LateAt(a)'
      <3>a. \A a \in Activity : \A t :
               (\E i \in 1..next[a[1]] - 1 : copy[a[1]][i] = t)
                 => \E i \in 1..next'[a[1]] - 1 : copy'[a[1]][i] = t
        <4>1. \A q \in Runs : next[q] \in Nat /\ next'[q] \in Nat /\ next[q] <= next'[q]
          <5>1. \A q \in Runs : next[q] \in Nat  BY DEF TypeOK
          <5> QED  BY <2>1, <5>1
        <4>2. \A a \in Activity : a[1] \in Runs  BY DEF Activity
        <4>3. copy' = copy  BY <1>5 DEF RunStart
        <4>4. \A q \in Runs : 1..next[q] - 1 \subseteq 1..next'[q] - 1  BY <4>1
        <4> QED  BY <4>2, <4>3, <4>4
      <3>1. CASE b[2] \in Immediate
        <4>1. Started(b) /\ waiter' = waiter /\ shutdown' = shutdown
          BY <1>5, <2>3, <2>4, <3>1, SchedulerAssumption DEF RunStart
        <4>2. late[b] = 0
          <5>1. LateAt(b) /\ late[b] \in Nat  BY <1>0 DEF TypeOK
          <5> QED  BY <2>4, <2>5, <3>1, <5>1 DEF LateAt
        <4>3. /\ \A a \in Activity \ {b} : late'[a] = late[a]
              /\ late'[b] <= 1 /\ (late'[b] > 0 => shutdown)
          BY <4>1, <4>2, StartedOnce
        <4>4. \E i \in 1..next'[b[1]] - 1 : copy'[b[1]][i] = b[2]
          <5>1. next[r] \in 1..next'[r] - 1 /\ copy' = copy
            BY <1>5, <2>1 DEF RunStart, TypeOK
          <5> QED  BY <2>4, <5>1
        <4>5. LateAt(b)'  BY <1>0, <3>1, <4>1, <4>3, <4>4 DEF LateAt
        <4>6. \A a \in Activity \ {b} : LateAt(a)'
          BY <1>0, <3>a, <4>1, <4>3 DEF LateAt
        <4> QED  BY <4>5, <4>6
      <3>2. CASE b[2] \notin Immediate
        <4>1. /\ waiter' = [waiter EXCEPT ![b] = "sleeping"]
              /\ late' = late /\ shutdown' = shutdown
          BY <1>5, <2>3, <2>4, <3>2 DEF RunStart
        <4>2. LateAt(b)'  BY <1>0, <3>2, <4>1 DEF LateAt, TypeOK
        <4>3. \A a \in Activity \ {b} : LateAt(a)'
          <5>1. \A a \in Activity \ {b} : waiter'[a] = waiter[a]  BY <4>1 DEF TypeOK
          <5> QED  BY <1>0, <3>a, <4>1, <5>1 DEF LateAt
        <4> QED  BY <4>2, <4>3
      <3> QED  BY <3>1, <3>2
    <2> QED  BY <1>5, <1>0, <2>2, <2>6 DEF RunStart, Distinct
  <1>6. ASSUME NEW b \in Activity, Wake(b)
        PROVE  Goal
    <2>1. \A a \in Activity : LateAt(a)'
      <3>1. LateAt(b)'  BY <1>6, <1>0 DEF Wake, LateAt, TypeOK
      <3>2. \A a \in Activity \ {b} : LateAt(a)'  BY <1>6, <1>0 DEF Wake, LateAt, TypeOK
      <3> QED  BY <3>1, <3>2
    <2>2. \A q \in Runs : RunAt(q)'  BY <1>6, <1>0 DEF Wake, RunAt
    <2> QED  BY <1>6, <1>0, <2>1, <2>2 DEF Wake, Distinct
  <1>7. ASSUME NEW b \in Activity, Fire(b)
        PROVE  Goal
    <2>1. b[2] \notin Immediate /\ late[b] = 0
      <3>1. waiter[b] = "awake" /\ late[b] \in Nat  BY <1>7 DEF Fire, TypeOK
      <3>2. LateAt(b)  BY <1>0
      <3> QED  BY <3>1, <3>2 DEF LateAt
    <2>2. /\ \A a \in Activity \ {b} : late'[a] = late[a]
          /\ late'[b] <= 1 /\ (late'[b] > 0 => shutdown)
      BY <1>7, <2>1, StartedOnce DEF Fire
    <2>3. LateAt(b)'  BY <1>7, <2>1, <2>2 DEF Fire, LateAt, TypeOK
    <2>4. \A a \in Activity \ {b} : LateAt(a)'
      <3>1. \A a \in Activity \ {b} : waiter'[a] = waiter[a]  BY <1>7 DEF Fire, TypeOK
      <3>2. shutdown' = shutdown /\ copy' = copy /\ next' = next  BY <1>7 DEF Fire
      <3> QED  BY <1>0, <2>2, <3>1, <3>2 DEF LateAt
    <2>5. \A q \in Runs : RunAt(q)'  BY <1>7, <1>0 DEF Fire, RunAt
    <2> QED  BY <1>7, <1>0, <2>3, <2>4, <2>5 DEF Fire, Distinct
  <1>8. ASSUME UNCHANGED vars
        PROVE  Goal
    <2>1. \A a \in Activity : LateAt(a)'  BY <1>8, <1>0 DEF vars, LateAt
    <2>2. \A q \in Runs : RunAt(q)'  BY <1>8, <1>0 DEF vars, RunAt
    <2> QED  BY <1>8, <1>0, <2>1, <2>2 DEF vars, Distinct
  <1> QED  BY <1>1, <1>2, <1>3, <1>4, <1>5, <1>6, <1>7, <1>8 DEF Next

(* After shutdown has returned, each run, itself or through its tokio      *)
(* task, starts each task at most once more.                               *)
THEOREM LateStartsBounded == Spec => []AtMostOneLateStart
  <1>1. Init => LateInv
    BY DEF Init, LateInv, Distinct
  <1>2. LateInv => AtMostOneLateStart
    BY DEF LateInv, AtMostOneLateStart
  <1> QED  BY <1>1, <1>2, LateStep, SchedulerTypes, PTL DEF Spec

-----------------------------------------------------------------------------
(* Every task of the list                                                  *)

(* What RunCoversItsList says of run r and task t, without its last part.  *)
Passed(r, t) == \E i \in 1..next[r] - 1 : copy[r][i] = t

CoverAt(r, t) ==
    /\ Passed(r, t) <=> (starts[<<r, t>>] > 0 \/ waiter[<<r, t>>] # "none")
    /\ t \in Immediate => starts[<<r, t>>] <= 1

(* A run ends its loop only past the end of its list. *)
CoverInv ==
    /\ \A r \in Runs, t \in Tasks : CoverAt(r, t)
    /\ \A r \in Runs : run[r] = "done" => next[r] > Len(copy[r])

(* A start is a start of one activity and leaves the others alone. *)
LEMMA StartedOne ==
    ASSUME TypeOK, NEW b \in Activity, Started(b)
    PROVE  /\ starts'[b] > 0 /\ (starts[b] = 0 => starts'[b] <= 1)
           /\ \A a \in Activity \ {b} : starts'[a] = starts[a]
  <1>1. starts[b] \in 0..MaxStarts /\ starts'[b] = CountedUp(starts[b])
    BY DEF Started, TypeOK
  <1>2. \A a \in Activity \ {b} : starts'[a] = starts[a]
    BY DEF Started, TypeOK
  <1>3. CountedUp(starts[b]) > 0 /\ (starts[b] = 0 => CountedUp(starts[b]) <= 1)
    BY <1>1, SchedulerAssumption DEF CountedUp
  <1> QED  BY <1>1, <1>2, <1>3

(* Each step keeps CoverInv: a run that comes to a task starts it or gives *)
(* it a tokio task, and nobody undoes either.                              *)
LEMMA CoverStep ==
    ASSUME TypeOK, LateInv, CoverInv, [Next]_vars
    PROVE  CoverInv'
  <1>0. /\ \A r \in Runs, t \in Tasks : CoverAt(r, t)
        /\ \A r \in Runs : run[r] = "done" => next[r] > Len(copy[r])
    BY DEF CoverInv
  <1> DEFINE Goal == /\ \A r \in Runs, t \in Tasks : CoverAt(r, t)'
                     /\ \A r \in Runs : (run[r] = "done" => next[r] > Len(copy[r]))'
  <1> SUFFICES Goal  BY DEF CoverInv
  <1>t. \A r \in Runs, t \in Tasks : <<r, t>> \in Activity  BY DEF Activity
  <1>1. ASSUME NEW u \in Tasks, Schedule(u)
        PROVE  Goal
    BY <1>1, <1>0 DEF Schedule, CoverAt, Passed
  <1>2. ASSUME Shutdown
        PROVE  Goal
    BY <1>2, <1>0 DEF Shutdown, CoverAt, Passed
  <1>3. ASSUME NEW r \in Runs, RunCopy(r)
        PROVE  Goal
    <2>1. next[r] = 1 /\ run'[r] # "done"  BY <1>3 DEF RunCopy, TypeOK
    <2>2. \A q \in Runs \ {r} : copy'[q] = copy[q] /\ run'[q] = run[q]
      BY <1>3 DEF RunCopy, TypeOK
    <2>3. next' = next /\ starts' = starts /\ waiter' = waiter  BY <1>3 DEF RunCopy
    <2>4. \A t \in Tasks : ~Passed(r, t) /\ ~Passed(r, t)'  BY <2>1, <2>3 DEF Passed
    <2>5. \A q \in Runs \ {r}, t \in Tasks : Passed(q, t)' <=> Passed(q, t)
      BY <2>2, <2>3 DEF Passed
    <2>6. \A q \in Runs, t \in Tasks : CoverAt(q, t)'
      BY <1>0, <2>3, <2>4, <2>5 DEF CoverAt
    <2> QED  BY <1>0, <2>1, <2>2, <2>3, <2>6
  <1>4. ASSUME NEW r \in Runs, RunLook(r)
        PROVE  Goal
    <2>1. \A q \in Runs, t \in Tasks : CoverAt(q, t)'
      <3>1. UNCHANGED <<copy, next, waiter, starts>>
        BY <1>4 DEF RunLook
      <3>2. \A q \in Runs, t \in Tasks : Passed(q, t)' <=> Passed(q, t)
        BY <3>1 DEF Passed
      <3> QED  BY <1>0, <3>1, <3>2 DEF CoverAt
    <2>2. \A q \in Runs : (run[q] = "done" => next[q] > Len(copy[q]))'
      BY <1>4, <1>0 DEF RunLook, TypeOK
    <2> QED  BY <2>1, <2>2
  <1>5. ASSUME NEW r \in Runs, RunStart(r)
        PROVE  Goal
    <2>1. /\ next[r] \in 1..Len(copy[r]) /\ next'[r] = next[r] + 1
          /\ Len(copy[r]) \in Nat /\ copy' = copy
          /\ \A q \in Runs \ {r} : next'[q] = next[q]
      BY <1>5 DEF RunStart, TypeOK
    <2>a. copy[r][next[r]] \in Tasks  BY <2>1 DEF TypeOK
    <2>2. PICK u \in Tasks : u = copy[r][next[r]]  BY <2>a
    <2>3. ~Passed(r, u)
      BY <2>1, <2>2 DEF LateInv, Distinct, Passed
    <2>4. \A t \in Tasks : Passed(r, t)' <=> Passed(r, t) \/ t = u
      <3>1. 1..next'[r] - 1 = (1..next[r] - 1) \cup {next[r]}  BY <2>1
      <3> QED  BY <2>1, <2>2, <3>1 DEF Passed
    <2>5. \A q \in Runs \ {r}, t \in Tasks : Passed(q, t)' <=> Passed(q, t)
      BY <2>1 DEF Passed
    <2>6. \A q \in Runs, t \in Tasks : CoverAt(q, t)'
      <3>b. <<r, u>> \in Activity /\ starts[<<r, u>>] \in Nat
        BY <2>2, <1>t DEF TypeOK
      <3>z. starts[<<r, u>>] = 0 /\ waiter[<<r, u>>] = "none"
        BY <1>0, <2>2, <2>3, <3>b DEF CoverAt
      <3>1. CASE u \in Immediate
        <4>1. Started(<<r, u>>) /\ waiter' = waiter
          BY <1>5, <2>2, <3>1, SchedulerAssumption DEF RunStart
        <4>2. /\ starts'[<<r, u>>] > 0 /\ starts'[<<r, u>>] <= 1
              /\ \A a \in Activity \ {<<r, u>>} : starts'[a] = starts[a]
          BY <3>b, <3>z, <4>1, StartedOne
        <4>3. CoverAt(r, u)'  BY <2>4, <4>2 DEF CoverAt
        <4>4. ASSUME NEW q \in Runs, NEW t \in Tasks, <<q, t>> # <<r, u>>
              PROVE  CoverAt(q, t)'
          <5>1. starts'[<<q, t>>] = starts[<<q, t>>] /\ waiter'[<<q, t>>] = waiter[<<q, t>>]
            BY <1>t, <4>1, <4>2, <4>4
          <5>2. Passed(q, t)' <=> Passed(q, t)  BY <2>4, <2>5, <4>4
          <5> QED  BY <1>0, <5>1, <5>2 DEF CoverAt
        <4> QED  BY <4>3, <4>4
      <3>2. CASE u \notin Immediate
        <4>1. starts' = starts /\ waiter' = [waiter EXCEPT ![<<r, u>>] = "sleeping"]
          BY <1>5, <2>2, <3>2 DEF RunStart
        <4>2. waiter'[<<r, u>>] # "none"  BY <3>b, <4>1 DEF TypeOK
        <4>3. CoverAt(r, u)'  BY <2>4, <3>2, <4>2 DEF CoverAt
        <4>4. ASSUME NEW q \in Runs, NEW t \in Tasks, <<q, t>> # <<r, u>>
              PROVE  CoverAt(q, t)'
          <5>1. starts'[<<q, t>>] = starts[<<q, t>>] /\ waiter'[<<q, t>>] = waiter[<<q, t>>]
            BY <1>t, <4>1, <4>4 DEF TypeOK
          <5>2. Passed(q, t)' <=> Passed(q, t)  BY <2>4, <2>5, <4>4
          <5> QED  BY <1>0, <5>1, <5>2 DEF CoverAt
        <4> QED  BY <4>3, <4>4
      <3> QED  BY <3>1, <3>2
    <2>7. \A q \in Runs : (run[q] = "done" => next[q] > Len(copy[q]))'
      BY <1>5, <1>0, <2>1 DEF RunStart, TypeOK
    <2> QED  BY <2>6, <2>7
  <1>6. ASSUME NEW b \in Activity, Wake(b)
        PROVE  Goal
    <2>1. starts' = starts /\ next' = next /\ copy' = copy /\ run' = run
          /\ waiter[b] # "none" /\ waiter'[b] # "none"
          /\ \A a \in Activity \ {b} : waiter'[a] = waiter[a]
      BY <1>6 DEF Wake, TypeOK
    <2>2. \A q \in Runs, t \in Tasks : waiter'[<<q, t>>] # "none" <=> waiter[<<q, t>>] # "none"
      BY <1>t, <2>1
    <2>3. \A q \in Runs, t \in Tasks : CoverAt(q, t)'
      BY <1>0, <2>1, <2>2 DEF CoverAt, Passed
    <2> QED  BY <1>0, <2>1, <2>3
  <1>7. ASSUME NEW b \in Activity, Fire(b)
        PROVE  Goal
    <2>1. next' = next /\ copy' = copy /\ run' = run
          /\ waiter[b] # "none" /\ waiter'[b] # "none"
          /\ \A a \in Activity \ {b} : waiter'[a] = waiter[a]
      BY <1>7 DEF Fire, TypeOK
    <2>2. b[2] \notin Immediate  BY <2>1 DEF LateInv
    <2>3. \A a \in Activity \ {b} : starts'[a] = starts[a]
      BY <1>7, StartedOne DEF Fire
    <2>4. ASSUME NEW q \in Runs, NEW t \in Tasks
          PROVE  CoverAt(q, t)'
      <3>1. CASE <<q, t>> = b
        <4>1. t \notin Immediate /\ waiter[<<q, t>>] # "none" /\ waiter'[<<q, t>>] # "none"
          BY <2>1, <2>2, <3>1
        <4>2. Passed(q, t)' <=> Passed(q, t)  BY <2>1 DEF Passed
        <4> QED  BY <1>0, <4>1, <4>2 DEF CoverAt
      <3>2. CASE <<q, t>> # b
        <4>1. starts'[<<q, t>>] = starts[<<q, t>>] /\ waiter'[<<q, t>>] = waiter[<<q, t>>]
          BY <1>t, <2>1, <2>3, <3>2
        <4>2. Passed(q, t)' <=> Passed(q, t)  BY <2>1 DEF Passed
        <4> QED  BY <1>0, <4>1, <4>2 DEF CoverAt
      <3> QED  BY <3>1, <3>2
    <2> QED  BY <1>0, <2>1, <2>4
  <1>8. ASSUME UNCHANGED vars
        PROVE  Goal
    BY <1>8, <1>0 DEF vars, CoverAt, Passed
  <1> QED  BY <1>1, <1>2, <1>3, <1>4, <1>5, <1>6, <1>7, <1>8 DEF Next

(* Each run starts, itself or through a tokio task, exactly the tasks it   *)
(* has passed, an immediate one once, and passes its whole list unless a   *)
(* shutdown stops it, for any number of runs beside it.                    *)
THEOREM RunsCoverTheirLists == Spec => []RunCoversItsList
  <1>1. Init => LateInv
    BY DEF Init, LateInv, Distinct
  <1>2. ASSUME Init
        PROVE  CoverInv
    <2>1. \A r \in Runs : next[r] = 1 /\ run[r] = "called"  BY <1>2 DEF Init
    <2>2. \A r \in Runs, t \in Tasks : starts[<<r, t>>] = 0 /\ waiter[<<r, t>>] = "none"
      BY <1>2 DEF Init, Activity
    <2>3. \A r \in Runs, t \in Tasks : ~Passed(r, t)  BY <2>1 DEF Passed
    <2> QED  BY <2>1, <2>2, <2>3 DEF CoverInv, CoverAt
  <1>3. ASSUME TypeOK, CoverInv
        PROVE  RunCoversItsList
    <2> SUFFICES ASSUME NEW r \in Runs, NEW t \in Tasks
                 PROVE  /\ Passed(r, t) <=> (starts[<<r, t>>] > 0 \/ waiter[<<r, t>>] # "none")
                        /\ t \in Immediate => starts[<<r, t>>] <= 1
                        /\ run[r] = "done" => \A i \in 1..Len(copy[r]) : copy[r][i] = t => Passed(r, t)
      BY DEF RunCoversItsList, Passed
    <2>1. CoverAt(r, t)  BY <1>3 DEF CoverInv
    <2>2. ASSUME run[r] = "done", NEW i \in 1..Len(copy[r]), copy[r][i] = t
          PROVE  Passed(r, t)
      <3>1. next[r] > Len(copy[r]) /\ next[r] \in Nat /\ Len(copy[r]) \in Nat
        BY <1>3, <2>2 DEF CoverInv, TypeOK
      <3>2. i \in 1..next[r] - 1  BY <3>1
      <3> QED  BY <2>2, <3>2 DEF Passed
    <2> QED  BY <2>1, <2>2 DEF CoverAt
  <1> QED  BY <1>1, <1>2, <1>3, LateStep, CoverStep, SchedulerTypes, PTL DEF Spec
============================================================================

-------------------------------- MODULE Timer --------------------------------
(***************************************************************************)
(* timer/timer.cc: Start makes a TimerTask and puts it into the wheel, the  *)
(* wheel hands its callback to Async when it is due, and the callback puts  *)
(* a periodic task back.  Stop drops the task.  The wheel and the callback  *)
(* hold weak pointers; the job holds a plain pointer to the callback.       *)
(*                                                                          *)
(* Tasks are numbered in the order Start makes them.  When a task is due is *)
(* left open here: TimingWheel models the wheel itself.                     *)
(***************************************************************************)
EXTENDS Integers

CONSTANTS oneshot,   \* timer_opt_.oneshot
          MaxTasks   \* bound: calls of Start that make a task

TimerConstants == oneshot \in BOOLEAN /\ MaxTasks \in Nat

VARIABLES started_, task_, period_ok, exists,
          cpc, tmp_task,             \* the caller's place, Stop's copy of task_
          made,                      \* tasks made so far
          wheel, running_,           \* weak pointers in TimingWheel, its flag
          mutex,                     \* of each task: who holds it
          queued, entered, inside,   \* of each task: its jobs in the pool
          dangling                   \* a job found its callback destroyed

callVars == <<cpc, tmp_task>>
jobVars == <<queued, entered, inside, dangling>>
vars == <<started_, task_, period_ok, exists, cpc, tmp_task, made, wheel,
          running_, mutex, queued, entered, inside, dangling>>

TaskIds == 1 .. MaxTasks
NullTask == 0

Init ==
  /\ started_ = FALSE /\ task_ = NullTask /\ period_ok \in BOOLEAN
  /\ exists = TRUE
  /\ cpc = "idle"
  /\ tmp_task = NullTask
  /\ made = 0 /\ wheel = {} /\ running_ = FALSE
  /\ mutex = [g \in TaskIds |-> "free"]
  /\ queued = [g \in TaskIds |-> 0] /\ entered = [g \in TaskIds |-> 0]
  /\ inside = [g \in TaskIds |-> "no"] /\ dangling = FALSE

\* Some shared_ptr owns the task.
Alive(g) ==
  \/ task_ = g
  \/ tmp_task = g
  \/ entered[g] > 0 \/ inside[g] # "no"

(* ----------------------------- Start and Stop ---------------------------- *)

SetTimerOption ==
  /\ exists
  /\ period_ok' \in BOOLEAN
  /\ UNCHANGED <<started_, task_, exists, callVars, made, wheel, running_,
                 mutex, jobVars>>

\* started_.exchange(true), in reality mode.
Start ==
  /\ exists /\ cpc = "idle" /\ ~started_
  /\ started_' = TRUE
  /\ cpc' = "init"
  /\ UNCHANGED <<task_, period_ok, exists, tmp_task, made, wheel, running_,
                 mutex, jobVars>>

\* With a period out of range no task is made and the timer stays "started".
InitTimerTask ==
  /\ cpc = "init" /\ made < MaxTasks
  /\ \/ /\ period_ok
        /\ made' = made + 1 /\ task_' = made + 1
        /\ cpc' = "add"
     \/ /\ ~period_ok
        /\ cpc' = "idle"
        /\ UNCHANGED <<made, task_>>
  /\ UNCHANGED <<started_, period_ok, exists, tmp_task, wheel, running_, mutex,
                 jobVars>>

\* TimingWheel::AddTask, which starts the wheel.
AddTask ==
  /\ cpc = "add"
  /\ wheel' = wheel \union {task_} /\ running_' = TRUE
  /\ cpc' = "idle"
  /\ UNCHANGED <<started_, task_, period_ok, exists, tmp_task, made, mutex,
                 jobVars>>

\* The guard of Stop and its copy of the pointer.
Stop ==
  /\ exists /\ cpc = "idle" /\ started_
  /\ started_' = FALSE
  /\ \/ /\ task_ = NullTask
        /\ UNCHANGED callVars
     \/ /\ task_ # NullTask
        /\ tmp_task' = task_
        /\ cpc' = "lock"
  /\ UNCHANGED <<task_, period_ok, exists, made, wheel, running_, mutex,
                 jobVars>>

Lock ==
  /\ cpc = "lock" /\ mutex[tmp_task] = "free"
  /\ mutex' = [mutex EXCEPT ![tmp_task] = "stop"]
  /\ cpc' = "reset"
  /\ UNCHANGED <<started_, task_, period_ok, exists, tmp_task, made, wheel,
                 running_, jobVars>>

\* Mutant: Stop keeps no copy of the pointer.
Reset_DropsCopy ==
  /\ cpc = "reset"
  /\ task_' = NullTask /\ tmp_task' = NullTask
  /\ cpc' = "unlock"
  /\ UNCHANGED <<started_, period_ok, exists, made, wheel, running_, mutex,
                 jobVars>>

Reset ==
  /\ cpc = "reset"
  /\ task_' = NullTask
  /\ cpc' = "unlock"
  /\ UNCHANGED <<started_, period_ok, exists, tmp_task, made, wheel, running_,
                 mutex, jobVars>>

\* The lock_guard is destroyed, then tmp_task.
Unlock ==
  /\ cpc = "unlock"
  /\ mutex' = [mutex EXCEPT ![tmp_task] = "free"]
  /\ tmp_task' = NullTask
  /\ cpc' = "idle"
  /\ UNCHANGED <<started_, task_, period_ok, exists, made, wheel, running_,
                 jobVars>>

\* ~Timer: Stop if there is a task.
Destroy ==
  /\ exists /\ cpc = "idle"
  /\ exists' = FALSE /\ started_' = FALSE
  /\ \/ /\ task_ # NullTask /\ started_
        /\ tmp_task' = task_
        /\ cpc' = "lock"
        /\ task_' = task_
     \/ /\ task_ = NullTask \/ ~started_
        /\ task_' = NullTask
        /\ UNCHANGED callVars
  /\ UNCHANGED <<period_ok, made, wheel, running_, mutex, jobVars>>

(* --------------------------- The wheel and jobs -------------------------- *)

\* TimingWheel::Tick reaches the bucket: a job for the callback, if there is
\* still a task, and the weak pointer leaves the wheel.
Fire(g) ==
  /\ g \in wheel /\ running_
  /\ wheel' = wheel \ {g}
  /\ queued' = [queued EXCEPT ![g] = IF Alive(g) THEN @ + 1 ELSE @]
  /\ UNCHANGED <<started_, task_, period_ok, exists, callVars, made, running_,
                 mutex, entered, inside, dangling>>

Shutdown ==
  /\ running_
  /\ running_' = FALSE
  /\ UNCHANGED <<started_, task_, period_ok, exists, callVars, made, wheel,
                 mutex, jobVars>>

\* The job: nothing if the wheel has stopped, else (*callback)(), whose first
\* statement locks the weak pointer.  A task that is gone took the callback
\* with it, so the call itself is undefined; it is only noted.
Enter(g) ==
  /\ queued[g] > 0
  /\ queued' = [queued EXCEPT ![g] = @ - 1]
  /\ entered' =
       [entered EXCEPT ![g] = IF running_ /\ Alive(g) THEN @ + 1 ELSE @]
  /\ dangling' = (dangling \/ (running_ /\ ~Alive(g)))
  /\ UNCHANGED <<started_, task_, period_ok, exists, callVars, made, wheel,
                 running_, mutex, inside>>

Begin(g) ==
  /\ entered[g] > 0 /\ mutex[g] = "free"
  /\ mutex' = [mutex EXCEPT ![g] = "job"]
  /\ entered' = [entered EXCEPT ![g] = @ - 1]
  /\ inside' = [inside EXCEPT ![g] = "callback"]
  /\ UNCHANGED <<started_, task_, period_ok, exists, callVars, made, wheel,
                 running_, queued, dangling>>

\* Mutant: a periodic task is not put back.
ReAdd_Never(g) == UNCHANGED <<wheel, running_>>

\* A periodic task goes back into the wheel, which is started again.
ReAdd(g) ==
  /\ wheel' = IF oneshot THEN wheel ELSE wheel \union {g}
  /\ running_' = (running_ \/ ~oneshot)

\* The user's callback returns.
Finish(g) ==
  /\ inside[g] = "callback"
  /\ ReAdd(g)
  /\ inside' = [inside EXCEPT ![g] = "leaving"]
  /\ UNCHANGED <<started_, task_, period_ok, exists, callVars, made, mutex,
                 queued, entered, dangling>>

\* lock_guard and the shared pointer go out of scope.
Leave(g) ==
  /\ inside[g] = "leaving"
  /\ mutex' = [mutex EXCEPT ![g] = "free"]
  /\ inside' = [inside EXCEPT ![g] = "no"]
  /\ UNCHANGED <<started_, task_, period_ok, exists, callVars, made, wheel,
                 running_, queued, entered, dangling>>

Next ==
  \/ SetTimerOption \/ Shutdown
  \/ Start \/ InitTimerTask \/ AddTask
  \/ Stop \/ Lock \/ Reset \/ Unlock \/ Destroy
  \/ \E g \in TaskIds : Fire(g) \/ Enter(g) \/ Begin(g) \/ Finish(g) \/ Leave(g)

Spec == Init /\ [][Next]_vars

\* Threads run, the wheel turns and callbacks return.  The mutex of a task is
\* free all the while that the task waits in the wheel, so Stop gets it.
FairSpec ==
  /\ Spec
  /\ WF_vars(InitTimerTask) /\ WF_vars(AddTask)
  /\ SF_vars(Lock) /\ WF_vars(Reset) /\ WF_vars(Unlock)
  /\ \A g \in TaskIds :
       /\ WF_vars(Fire(g)) /\ WF_vars(Enter(g)) /\ SF_vars(Begin(g))
       /\ WF_vars(Finish(g)) /\ WF_vars(Leave(g))

(* ------------------------------ Properties ------------------------------ *)

One(b) == IF b THEN 1 ELSE 0

\* Every variable holds a value of its type, and started_ agrees with the task
\* outside of Start and Stop.
TypeOK ==
  /\ {started_, period_ok, exists, running_, dangling} \subseteq BOOLEAN
  /\ task_ \in 0 .. made /\ made \in 0 .. MaxTasks /\ wheel \subseteq 1 .. made
  /\ cpc \in {"idle", "init", "add", "lock", "reset", "unlock"}
  /\ tmp_task \in 0 .. made
  /\ cpc = "idle" /\ ~started_ => task_ = NullTask
  /\ \A g \in TaskIds :
       /\ mutex[g] \in {"free", "stop", "job"}
       /\ queued[g] \in Nat /\ entered[g] \in Nat
       /\ inside[g] \in {"no", "callback", "leaving"}

\* "using a shared pointer to hold task_->mutex before task_ reset": a task is
\* not destroyed while somebody holds its mutex.
MutexOutlivesLock ==
  \A g \in TaskIds : mutex[g] # "free" => Alive(g)

\* A task is in the wheel, or in one job, or done: a callback that takes longer
\* than the period does not pile up jobs or run beside itself.
TaskInOnePlace ==
  \A g \in TaskIds :
    One(g \in wheel) + queued[g] + entered[g] + One(inside[g] = "callback") <= 1

\* "perform the callback every timed period": while a periodic timer is neither
\* stopped nor its wheel shut down, its callback runs again and again.
KeepsFiring ==
  \A g \in TaskIds :
    /\ (task_ = g /\ (g \in wheel \/ queued[g] > 0)) ~>
         (inside[g] = "callback" \/ task_ # g \/ ~running_)
    /\ inside[g] = "callback" ~> (g \in wheel \/ task_ # g)

\* Stop returns, however often the callback takes the mutex it waits for.
StopReturns == cpc = "lock" ~> cpc = "idle"
=============================================================================

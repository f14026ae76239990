----------------------------- MODULE TaskManager -----------------------------
(***************************************************************************)
(* task/task_manager.h, task_manager.cc, task/task.h: cyber::Async puts a   *)
(* task into a bounded queue and notifies the pool's routines, which take   *)
(* tasks from the queue and hang up when there is none.  The queue is the   *)
(* FIFO queue that BoundedQueue implements.  A routine is acquired by some   *)
(* processor when it is READY, runs until it yields and is released          *)
(* (ClassicScheduler has the details); in simulation Async starts a thread   *)
(* instead, which is not modelled.                                           *)
(***************************************************************************)
EXTENDS Integers, Sequences, FiniteSets

CONSTANTS num_threads_,       \* how many routines the pool has
          Clients,            \* threads that call Async
          Tasks,              \* the tasks they enqueue
          task_queue_size_,   \* 1024 in the code
          NoTask

TaskManagerConstants ==
  /\ {num_threads_, task_queue_size_} \subseteq Nat \ {0}
  /\ NoTask \notin Tasks

VARIABLES task_queue_, stop_,
          state_,       \* RoutineState of each routine
          updated_,     \* a routine's update flag is pending
          lock_,        \* a processor has acquired the routine and runs it
          force_stop_,  \* Stop was called
          rpc,          \* where a routine is in its loop
          rtask,        \* the task it runs
          cpc, ctask,   \* a client's place in Enqueue, and its task
          i,            \* the routine it, or Shutdown, has to visit next
          future,       \* state of each task's future
          exposed       \* tasks enqueued while no routine could notice

routineVars == <<state_, lock_, rpc, rtask>>
clientVars == <<cpc, ctask, i>>
vars == <<task_queue_, stop_, state_, updated_, lock_, force_stop_, rpc, rtask,
          cpc, ctask, i, future, exposed>>

Routines == 1 .. num_threads_  \* tasks_
Closer == "closer"             \* the thread that calls Shutdown
Threads == Clients \union {Closer}

Init ==
  /\ task_queue_ = << >> /\ stop_ = FALSE
  /\ state_ = [r \in Routines |-> "READY"]
  /\ updated_ = [r \in Routines |-> FALSE]
  /\ lock_ = [r \in Routines |-> FALSE]
  /\ force_stop_ = [r \in Routines |-> FALSE]
  /\ rpc = [r \in Routines |-> "loop"]
  /\ rtask = [r \in Routines |-> NoTask]
  /\ cpc = [c \in Threads |-> "idle"]
  /\ ctask = [c \in Clients |-> NoTask]
  /\ i = [c \in Threads |-> 1]
  /\ future = [t \in Tasks |-> "none"]
  /\ exposed = {}

(* -------------------------- The pool's routines -------------------------- *)

\* The scheduler's tables have the routine until RemoveTask erases it.
Running(r) == lock_[r]

\* A processor acquires the routine and looks at it: it is READY, its sleep is
\* over, or its flag is up, which is taken down.  Then it is resumed, or, if it
\* was stopped, finished and released.  Any other routine is left as it is.
UpdateState(r) ==
  /\ rpc[r] # "removed" /\ ~lock_[r]
  /\ \/ state_[r] \in {"READY", "SLEEP"} /\ UNCHANGED updated_
     \/ /\ state_[r] = "DATA_WAIT" /\ updated_[r]
        /\ updated_' = [updated_ EXCEPT ![r] = FALSE]
  /\ state_' = [state_ EXCEPT
                  ![r] = IF force_stop_[r] THEN "FINISHED" ELSE "READY"]
  /\ lock_' = [lock_ EXCEPT ![r] = ~force_stop_[r]]
  /\ UNCHANGED <<task_queue_, stop_, force_stop_, rpc, rtask, clientVars, future,
                 exposed>>

\* CRoutine::Yield: the processor releases the routine in the state it leaves.
Yield(r, state) ==
  /\ state_' = [state_ EXCEPT ![r] = state]
  /\ lock_' = [lock_ EXCEPT ![r] = FALSE]

\* while (!stop_); CRoutineEntry yields for the last time when it ends.
LoopTest(r) ==
  /\ Running(r) /\ rpc[r] = "loop"
  /\ IF stop_
       THEN Yield(r, "FINISHED") /\ rpc' = [rpc EXCEPT ![r] = "finished"]
       ELSE rpc' = [rpc EXCEPT ![r] = "dequeue"] /\ UNCHANGED <<state_, lock_>>
  /\ UNCHANGED <<task_queue_, stop_, updated_, force_stop_, rtask, clientVars,
                 future, exposed>>

Dequeue(r) ==
  /\ Running(r) /\ rpc[r] = "dequeue"
  /\ IF task_queue_ = << >>
       THEN /\ rpc' = [rpc EXCEPT ![r] = "hangup"]
            /\ UNCHANGED <<task_queue_, rtask>>
       ELSE /\ rtask' = [rtask EXCEPT ![r] = Head(task_queue_)]
            /\ task_queue_' = Tail(task_queue_)
            /\ rpc' = [rpc EXCEPT ![r] = "run"]
  /\ UNCHANGED <<stop_, state_, updated_, lock_, force_stop_, clientVars, future,
                 exposed>>

HangUp(r) ==
  /\ Running(r) /\ rpc[r] = "hangup"
  /\ Yield(r, "DATA_WAIT")
  /\ rpc' = [rpc EXCEPT ![r] = "loop"]
  /\ UNCHANGED <<task_queue_, stop_, updated_, force_stop_, rtask, clientVars,
                 future, exposed>>

\* A task may call SleepFor or USleep, which yield.
SleepFor(r) ==
  /\ Running(r) /\ rpc[r] = "run"
  /\ Yield(r, "SLEEP")
  /\ rpc' = [rpc EXCEPT ![r] = "slept"]
  /\ UNCHANGED <<task_queue_, stop_, updated_, force_stop_, rtask, clientVars,
                 future, exposed>>

FinishTask(r) ==
  /\ Running(r) /\ rpc[r] \in {"run", "slept"}
  /\ future' = [future EXCEPT ![rtask[r]] = "ready"]
  /\ rtask' = [rtask EXCEPT ![r] = NoTask]
  /\ rpc' = [rpc EXCEPT ![r] = "loop"]
  /\ UNCHANGED <<task_queue_, stop_, state_, updated_, lock_, force_stop_,
                 clientVars, exposed>>

(* -------------------------------- Async ---------------------------------- *)

\* TaskManager::Enqueue makes the packaged task and tests stop_.  A task that
\* is not queued is destroyed on return, which breaks its promise.
Async(c, t) ==
  /\ cpc[c] = "idle" /\ future[t] = "none"
  /\ IF stop_
       THEN /\ future' = [future EXCEPT ![t] = "broken"]
            /\ UNCHANGED <<cpc, ctask>>
       ELSE /\ future' = [future EXCEPT ![t] = "pending"]
            /\ ctask' = [ctask EXCEPT ![c] = t]
            /\ cpc' = [cpc EXCEPT ![c] = "enqueue"]
  /\ UNCHANGED <<task_queue_, stop_, updated_, force_stop_, routineVars, i, exposed>>

\* No routine will look at the queue, and none waits for a flag.
AllPastDequeue == \A r \in Routines : rpc[r] = "hangup" /\ Running(r)

\* Mutant: the pool is not notified.
Enqueue_Silent(c) ==
  /\ cpc[c] = "enqueue"
  /\ IF Len(task_queue_) < task_queue_size_
       THEN /\ task_queue_' = Append(task_queue_, ctask[c])
            /\ UNCHANGED future
       ELSE /\ future' = [future EXCEPT ![ctask[c]] = "broken"]
            /\ UNCHANGED task_queue_
  /\ cpc' = [cpc EXCEPT ![c] = "notify"]
  /\ i' = [i EXCEPT ![c] = num_threads_ + 1]
  /\ UNCHANGED <<stop_, updated_, force_stop_, routineVars, ctask, exposed>>

\* The result of task_queue_->Enqueue is not looked at.
Enqueue(c) ==
  /\ cpc[c] = "enqueue"
  /\ IF Len(task_queue_) < task_queue_size_
       THEN /\ task_queue_' = Append(task_queue_, ctask[c])
            /\ exposed' = IF AllPastDequeue THEN exposed \union {ctask[c]}
                                            ELSE exposed
            /\ UNCHANGED future
       ELSE /\ future' = [future EXCEPT ![ctask[c]] = "broken"]
            /\ UNCHANGED <<task_queue_, exposed>>
  /\ cpc' = [cpc EXCEPT ![c] = "notify"]
  /\ UNCHANGED <<stop_, updated_, force_stop_, routineVars, ctask, i>>

\* Scheduler::NotifyTask raises the flag only of a waiting routine, and finds
\* none whose removal has begun.  (ClassicScheduler takes the test and the flag
\* apart.)
NotifyTask(c, r) ==
  /\ cpc[c] = "notify" /\ r = i[c]
  /\ updated_' = [updated_ EXCEPT
                    ![r] = @ \/ (state_[r] = "DATA_WAIT" /\ ~force_stop_[r])]
  /\ i' = [i EXCEPT ![c] = @ + 1]
  /\ UNCHANGED <<task_queue_, stop_, force_stop_, routineVars, cpc, ctask, future,
                 exposed>>

AsyncReturns(c) ==
  /\ cpc[c] = "notify" /\ i[c] > num_threads_
  /\ cpc' = [cpc EXCEPT ![c] = "idle"]
  /\ ctask' = [ctask EXCEPT ![c] = NoTask]
  /\ i' = [i EXCEPT ![c] = 1]
  /\ UNCHANGED <<task_queue_, stop_, updated_, force_stop_, routineVars, future,
                 exposed>>

(* ------------------------------- Shutdown -------------------------------- *)

Shutdown ==
  /\ cpc[Closer] = "idle" /\ ~stop_
  /\ stop_' = TRUE
  /\ cpc' = [cpc EXCEPT ![Closer] = "remove"]
  /\ UNCHANGED <<task_queue_, updated_, force_stop_, routineVars, ctask, i, future,
                 exposed>>

\* Scheduler::RemoveTask takes the routine out of id_cr_ and stops it, ...
StopTask(r) ==
  /\ cpc[Closer] = "remove" /\ r = i[Closer] /\ ~force_stop_[r]
  /\ force_stop_' = [force_stop_ EXCEPT ![r] = TRUE]
  /\ UNCHANGED <<task_queue_, stop_, updated_, routineVars, clientVars, future,
                 exposed>>

\* Mutant: a routine is taken out while it runs.
RemoveTask_NoWait(r) ==
  /\ cpc[Closer] = "remove" /\ r = i[Closer] /\ force_stop_[r]
  /\ rpc' = [rpc EXCEPT ![r] = IF Running(r) THEN @ ELSE "removed"]
  /\ i' = [i EXCEPT ![Closer] = @ + 1]
  /\ UNCHANGED <<task_queue_, stop_, state_, updated_, lock_, force_stop_, rtask,
                 cpc, ctask, future, exposed>>

\* ... and waits until no processor holds it: a running routine has to yield
\* first.  One that sleeps in the middle of a task is removed as it is, and its
\* task never finishes.
RemoveTask(r) ==
  /\ cpc[Closer] = "remove" /\ r = i[Closer] /\ force_stop_[r]
  /\ ~Running(r)
  /\ rpc' = [rpc EXCEPT ![r] = "removed"]
  /\ i' = [i EXCEPT ![Closer] = @ + 1]
  /\ UNCHANGED <<task_queue_, stop_, state_, updated_, lock_, force_stop_, rtask,
                 cpc, ctask, future, exposed>>

ShutdownReturns ==
  /\ cpc[Closer] = "remove" /\ i[Closer] > num_threads_
  /\ cpc' = [cpc EXCEPT ![Closer] = "closed"]
  /\ UNCHANGED <<task_queue_, stop_, updated_, force_stop_, routineVars, ctask, i, future,
                 exposed>>

RoutineStep(r) ==
  LoopTest(r) \/ Dequeue(r) \/ HangUp(r) \/ FinishTask(r) \/ UpdateState(r)
ClientStep(c) ==
  Enqueue(c) \/ AsyncReturns(c) \/ \E r \in Routines : NotifyTask(c, r)

Next ==
  \/ \E r \in Routines :
       RoutineStep(r) \/ SleepFor(r) \/ StopTask(r) \/ RemoveTask(r)
  \/ \E c \in Clients : ClientStep(c) \/ \E t \in Tasks : Async(c, t)
  \/ Shutdown \/ ShutdownReturns

Spec == Init /\ [][Next]_vars

\* Processors keep resuming the routines that are READY, and threads that are
\* in the middle of a call go on.  Nobody has to call Async or Shutdown, and no
\* task has to sleep.
FairSpec ==
  /\ Spec
  /\ \A r \in Routines : WF_vars(RoutineStep(r)) /\ WF_vars(StopTask(r) \/ RemoveTask(r))
  /\ \A c \in Clients : WF_vars(ClientStep(c))
  /\ WF_vars(ShutdownReturns)

(* ------------------------------ Properties ------------------------------ *)

Holders(t) == {r \in Routines : rtask[r] = t}
Queued(t) == {k \in 1 .. Len(task_queue_) : task_queue_[k] = t}

\* Every variable holds a value of its type.
TypeOK ==
  /\ task_queue_ \in Seq(Tasks) /\ Len(task_queue_) <= task_queue_size_
  /\ stop_ \in BOOLEAN
  /\ state_ \in [Routines -> {"READY", "DATA_WAIT", "SLEEP", "FINISHED"}]
  /\ updated_ \in [Routines -> BOOLEAN]
  /\ lock_ \in [Routines -> BOOLEAN] /\ force_stop_ \in [Routines -> BOOLEAN]
  /\ rpc \in [Routines -> {"loop", "dequeue", "hangup", "run", "slept",
                           "finished", "removed"}]
  /\ rtask \in [Routines -> Tasks \union {NoTask}]
  /\ future \in [Tasks -> {"none", "pending", "ready", "broken"}]

\* Until its future is settled a task is in exactly one place: with its caller,
\* in the queue or with one routine.  A settled one is nowhere.
TaskInOnePlace ==
  \A t \in Tasks :
    Cardinality(Holders(t)) + Cardinality(Queued(t))
      + Cardinality({c \in Clients : ctask[c] = t /\ cpc[c] = "enqueue"})
      = IF future[t] = "pending" THEN 1 ELSE 0

\* When Shutdown has returned no routine of the pool is running and none will.
QuietAfterShutdown ==
  cpc[Closer] = "closed" => \A r \in Routines : ~Running(r)

\* Shutdown returns: RemoveTask waits only for routines that will yield.
ShutdownReturnsEventually == stop_ ~> cpc[Closer] = "closed"

\* A task queued when some routine hung up, slept, or had still to look at the
\* queue is run, unless the pool is shut down.
NoticedTaskRuns ==
  \A t \in Tasks :
    (Queued(t) # {} /\ t \notin exposed) ~> (future[t] = "ready" \/ stop_)
=============================================================================

----------------------------- MODULE ThreadPool -----------------------------
(***************************************************************************)
(* base/thread_pool.h with the BlockWaitStrategy of base/wait_strategy.h:   *)
(* workers take tasks from a bounded queue (the FIFO queue BoundedQueue     *)
(* implements) and wait on a condition variable when it is empty.  Neither  *)
(* NotifyOne nor BreakAllWait takes the mutex, and the wait has no          *)
(* predicate, so a notification reaches only workers that wait already.     *)
(***************************************************************************)
EXTENDS Integers, Sequences, FiniteSets

CONSTANTS Workers, Clients, Tasks, max_task_num, NoTask

ThreadPoolConstants ==
  /\ IsFiniteSet(Workers) /\ Workers # {}
  /\ max_task_num \in Nat \ {0} /\ NoTask \notin Tasks

VARIABLES task_queue_, stop_, break_all_wait_,
          wpc, wtask,      \* a worker's place in its loop, and its task
          cpc, ctask,      \* a client's place in Enqueue, and its task
          dpc,             \* the destructor's place
          future,          \* what Enqueue returned for a task, and its state
          unheard,         \* tasks whose notification no worker could hear
          breakUnheard     \* the same for the notification of BreakAllWait

workerVars == <<wpc, wtask>>
clientVars == <<cpc, ctask>>
vars == <<task_queue_, stop_, break_all_wait_, wpc, wtask, cpc, ctask, dpc,
          future, unheard, breakUnheard>>

Init ==
  /\ task_queue_ = << >> /\ stop_ = FALSE /\ break_all_wait_ = FALSE
  /\ wpc = [w \in Workers |-> "loop"] /\ wtask = [w \in Workers |-> NoTask]
  /\ cpc = [c \in Clients |-> "idle"] /\ ctask = [c \in Clients |-> NoTask]
  /\ dpc = "alive"
  /\ future = [t \in Tasks |-> "none"]
  /\ unheard = {} /\ breakUnheard = FALSE

(* -------------------------------- Workers -------------------------------- *)

\* while (!stop_)
LoopTest(w) ==
  /\ wpc[w] = "loop"
  /\ wpc' = [wpc EXCEPT ![w] = IF stop_ THEN "exit" ELSE "wait_dequeue"]
  /\ UNCHANGED <<task_queue_, stop_, break_all_wait_, wtask, clientVars, dpc,
                 future, unheard, breakUnheard>>

\* while (!break_all_wait_) in WaitDequeue
BreakTest(w) ==
  /\ wpc[w] = "wait_dequeue"
  /\ wpc' = [wpc EXCEPT ![w] = IF break_all_wait_ THEN "loop" ELSE "dequeue"]
  /\ UNCHANGED <<task_queue_, stop_, break_all_wait_, wtask, clientVars, dpc,
                 future, unheard, breakUnheard>>

\* Mutant: the element is read but stays in the queue.
Dequeue_Peek(w) ==
  /\ wpc[w] = "dequeue" /\ task_queue_ # << >>
  /\ wtask' = [wtask EXCEPT ![w] = Head(task_queue_)]
  /\ wpc' = [wpc EXCEPT ![w] = "run"]
  /\ UNCHANGED <<task_queue_, stop_, break_all_wait_, clientVars, dpc, future,
                 unheard, breakUnheard>>

Dequeue(w) ==
  /\ wpc[w] = "dequeue"
  /\ IF task_queue_ = << >>
       THEN /\ wpc' = [wpc EXCEPT ![w] = "empty_wait"]
            /\ UNCHANGED <<task_queue_, wtask>>
       ELSE /\ wtask' = [wtask EXCEPT ![w] = Head(task_queue_)]
            /\ task_queue_' = Tail(task_queue_)
            /\ wpc' = [wpc EXCEPT ![w] = "run"]
  /\ UNCHANGED <<stop_, break_all_wait_, clientVars, dpc, future, unheard,
                 breakUnheard>>

\* EmptyWait: cv_.wait(lock)
EmptyWait(w) ==
  /\ wpc[w] = "empty_wait"
  /\ wpc' = [wpc EXCEPT ![w] = "waiting"]
  /\ UNCHANGED <<task_queue_, stop_, break_all_wait_, wtask, clientVars, dpc,
                 future, unheard, breakUnheard>>

\* A condition variable may wake up without a notification.
SpuriousWakeup(w) ==
  /\ wpc[w] = "waiting"
  /\ wpc' = [wpc EXCEPT ![w] = "wait_dequeue"]
  /\ UNCHANGED <<task_queue_, stop_, break_all_wait_, wtask, clientVars, dpc,
                 future, unheard, breakUnheard>>

RunTask(w) ==
  /\ wpc[w] = "run"
  /\ future' = [future EXCEPT ![wtask[w]] = IF stop_ THEN "late" ELSE "ready"]
  /\ wtask' = [wtask EXCEPT ![w] = NoTask]
  /\ wpc' = [wpc EXCEPT ![w] = "loop"]
  /\ UNCHANGED <<task_queue_, stop_, break_all_wait_, clientVars, dpc, unheard,
                 breakUnheard>>

(* -------------------------------- Enqueue -------------------------------- *)

\* A stopped pool returns a future that is not valid.
EnqueueStarts(c, t) ==
  /\ cpc[c] = "idle" /\ future[t] = "none" /\ dpc # "joined"
  /\ IF stop_
       THEN /\ future' = [future EXCEPT ![t] = "invalid"]
            /\ UNCHANGED clientVars
       ELSE /\ future' = [future EXCEPT ![t] = "valid"]
            /\ ctask' = [ctask EXCEPT ![c] = t]
            /\ cpc' = [cpc EXCEPT ![c] = "enqueue"]
  /\ UNCHANGED <<task_queue_, stop_, break_all_wait_, workerVars, dpc, unheard,
                 breakUnheard>>

\* task_queue_.Enqueue, whose result is not looked at; a task that is not queued
\* is destroyed, which breaks the promise of the future just returned.
Enqueue(c) ==
  /\ cpc[c] = "enqueue"
  /\ IF Len(task_queue_) < max_task_num
       THEN /\ task_queue_' = Append(task_queue_, ctask[c])
            /\ cpc' = [cpc EXCEPT ![c] = "notify"]
            /\ UNCHANGED <<ctask, future>>
       ELSE /\ future' = [future EXCEPT ![ctask[c]] = "broken"]
            /\ ctask' = [ctask EXCEPT ![c] = NoTask]
            /\ cpc' = [cpc EXCEPT ![c] = "idle"]
            /\ UNCHANGED task_queue_
  /\ UNCHANGED <<stop_, break_all_wait_, workerVars, dpc, unheard,
                 breakUnheard>>

Waiting == {w \in Workers : wpc[w] = "waiting"}
Live == {w \in Workers : wpc[w] # "exit"}

\* wait_strategy_->NotifyOne() at the end of Enqueue.
NotifyOne(c) ==
  /\ cpc[c] = "notify"
  /\ cpc' = [cpc EXCEPT ![c] = "idle"]
  /\ ctask' = [ctask EXCEPT ![c] = NoTask]
  /\ \/ \E w \in Waiting :
          /\ wpc' = [wpc EXCEPT ![w] = "wait_dequeue"]
          /\ UNCHANGED unheard
     \/ /\ Waiting = {}
        /\ unheard' = IF \A w \in Live : wpc[w] = "empty_wait"
                        THEN unheard \union {task_queue_[i] :
                                               i \in 1 .. Len(task_queue_)}
                        ELSE unheard
        /\ UNCHANGED wpc
  /\ UNCHANGED <<task_queue_, stop_, break_all_wait_, wtask, dpc, future,
                 breakUnheard>>

(* ------------------------------ Destructor ------------------------------- *)

Stop ==
  /\ dpc = "alive"
  /\ stop_' = TRUE
  /\ dpc' = "break"
  /\ UNCHANGED <<task_queue_, break_all_wait_, workerVars, clientVars, future,
                 unheard, breakUnheard>>

SetBreak ==
  /\ dpc = "break"
  /\ break_all_wait_' = TRUE
  /\ dpc' = "notify_all"
  /\ UNCHANGED <<task_queue_, stop_, workerVars, clientVars, future, unheard,
                 breakUnheard>>

\* Mutant: the flag is set but the waiting workers are not woken.
NotifyAll_Not ==
  /\ dpc = "notify_all"
  /\ dpc' = "join"
  /\ UNCHANGED <<task_queue_, stop_, break_all_wait_, workerVars, clientVars,
                 future, unheard, breakUnheard>>

\* cv_.notify_all(); a worker that has tested break_all_wait_ already and has
\* not begun to wait does not hear it.
NotifyAll ==
  /\ dpc = "notify_all"
  /\ wpc' = [w \in Workers |-> IF w \in Waiting THEN "wait_dequeue" ELSE wpc[w]]
  /\ breakUnheard' = \E w \in Workers : wpc[w] \in {"dequeue", "empty_wait"}
  /\ dpc' = "join"
  /\ UNCHANGED <<task_queue_, stop_, break_all_wait_, wtask, clientVars, future,
                 unheard>>

Join ==
  /\ dpc = "join" /\ \A w \in Workers : wpc[w] = "exit"
  /\ dpc' = "joined"
  /\ UNCHANGED <<task_queue_, stop_, break_all_wait_, workerVars, clientVars,
                 future, unheard, breakUnheard>>

WorkerStep(w) ==
  LoopTest(w) \/ BreakTest(w) \/ Dequeue(w) \/ EmptyWait(w) \/ RunTask(w)
ClientStep(c) == Enqueue(c) \/ NotifyOne(c)
DestructorStep == SetBreak \/ NotifyAll \/ Join

Next ==
  \/ \E w \in Workers : WorkerStep(w) \/ SpuriousWakeup(w)
  \/ \E c \in Clients : ClientStep(c) \/ \E t \in Tasks : EnqueueStarts(c, t)
  \/ Stop \/ DestructorStep

Spec == Init /\ [][Next]_vars

\* Threads that can go on do; spurious wake-ups are never owed.
FairSpec ==
  /\ Spec
  /\ \A w \in Workers : WF_vars(WorkerStep(w))
  /\ \A c \in Clients : WF_vars(ClientStep(c))
  /\ WF_vars(DestructorStep)

(* ------------------------------ Properties ------------------------------ *)

Queued(t) == {i \in 1 .. Len(task_queue_) : task_queue_[i] = t}

\* Every variable holds a value of its type.
TypeOK ==
  /\ task_queue_ \in Seq(Tasks) /\ Len(task_queue_) <= max_task_num
  /\ {stop_, break_all_wait_, breakUnheard} \subseteq BOOLEAN
  /\ wpc \in [Workers -> {"loop", "wait_dequeue", "dequeue", "empty_wait",
                          "waiting", "run", "exit"}]
  /\ wtask \in [Workers -> Tasks \union {NoTask}]
  /\ future \in [Tasks -> {"none", "invalid", "valid", "broken", "ready",
                        "late"}]
  /\ unheard \subseteq Tasks

\* A task whose future is valid and not settled is in one place only: with the
\* caller, in the queue or with one worker.
TaskInOnePlace ==
  \A t \in Tasks :
    Cardinality({w \in Workers : wtask[w] = t}) + Cardinality(Queued(t))
      + Cardinality({c \in Clients : ctask[c] = t /\ cpc[c] = "enqueue"})
      = IF future[t] = "valid" THEN 1 ELSE 0

\* Once the destructor has set stop_, a worker runs at most the one task it may
\* be about to take, whatever calls of Enqueue are still under way.
LateTasksBounded ==
  Cardinality({t \in Tasks : future[t] = "late"}) <= Cardinality(Workers)

\* A task whose notification some worker could hear is run, unless the pool is
\* stopped.
HeardTaskRuns ==
  \A t \in Tasks :
    Queued(t) # {} ~> (future[t] = "ready" \/ t \in unheard \/ stop_)

\* The destructor returns if no worker was between its test of break_all_wait_
\* and its wait when BreakAllWait notified.
DestructorReturnsIfHeard ==
  dpc = "break" ~> (dpc = "joined" \/ breakUnheard)

\* "the destructor joins all threads" (thread_pool.h): it returns.
DestructorReturns == dpc = "break" ~> dpc = "joined"
=============================================================================

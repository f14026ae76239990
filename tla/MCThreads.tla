------------------------------ MODULE MCThreads ------------------------------
(***************************************************************************)
(* Instances for TLC of the lock around the framework's maps (AtomicRWLock) *)
(* and of what runs callbacks and tasks on threads of its own: timers       *)
(* (TimerPeriod, TimingWheel, Timer), the task manager, the thread pool,    *)
(* the logger's thread and the waiting calls of BoundedQueue.  They do not  *)
(* interact: in each behaviour the component that "part" names runs, and    *)
(* the others stay as they are initially.                                   *)
(***************************************************************************)
EXTENDS AtomicRWLock, TimerPeriod, Sequences, TLC

CONSTANTS WORK_WHEEL_SIZE, ASSISTANT_WHEEL_SIZE, oneshot, MaxTasks,
          c1, w1, w2, t1, t2, NoTask, NoValue, Torn,
          Parts  \* the components that run

VARIABLES part,
          work_wheel_, assistant_wheel_, current_work_wheel_index_,
          current_assistant_wheel_index_, running_, remainder_interval_ms, kpc,
          spc, apc, index, bucket, left, age, calm, missed,
          started_, task_, period_ok, exists, cpc, tmp_task, made, wheel,
          runningTimer, mutex, queued, entered, inside, dangling,
          task_queue_, stop_, state_, updated_, lock_, force_stop_, rpc, rtask,
          cpcManager, ctask, iManager, future, exposed,
          queuePool, stopPool, break_all_wait_, wpc, wtask, cpcPool, ctaskPool,
          dpc, futurePool, unheard, breakUnheard,
          stateLogger, active_buf_, flushing_buf_, file, wpcLogger, written,
          tpc, spcLogger, late,
          head_, tail_, commit_, pool_, breakQueue, pcQueue, waits, old,
          element, got

Wheel == INSTANCE TimingWheel WITH Tasks <- {t1}

T == INSTANCE Timer WITH running_ <- runningTimer

Manager == INSTANCE TaskManager WITH
  num_threads_ <- 2, Clients <- {c1}, Tasks <- {t1, t2},
  task_queue_size_ <- 1, cpc <- cpcManager, i <- iManager

Pool == INSTANCE ThreadPool WITH
  Workers <- {w1, w2}, Clients <- {c1}, Tasks <- {t1, t2},
  max_task_num <- 1, task_queue_ <- queuePool, stop_ <- stopPool,
  cpc <- cpcPool, ctask <- ctaskPool, future <- futurePool

Logger == INSTANCE AsyncLogger WITH
  Writers <- {w1, w2}, MaxWrites <- 2, state_ <- stateLogger,
  wpc <- wpcLogger, spc <- spcLogger

Queue == INSTANCE BoundedQueue WITH
  Producer <- {w1, w2}, Consumer <- {c1}, Value <- {t1}, Size <- 1,
  WaitModes <- BOOLEAN, MaxTail <- 3, break_all_wait_ <- breakQueue,
  pc <- pcQueue

ASSUME
  /\ Wheel!TimingWheelConstants /\ T!TimerConstants
  /\ Manager!TaskManagerConstants /\ Pool!ThreadPoolConstants
  /\ Logger!AsyncLoggerConstants

lockVars == vars
wheelVars == <<work_wheel_, assistant_wheel_, current_work_wheel_index_,
               current_assistant_wheel_index_, running_, remainder_interval_ms,
               kpc, spc, apc, index, bucket, left, age, calm, missed>>
timerVars == <<started_, task_, period_ok, exists, cpc, tmp_task, made, wheel,
               runningTimer, mutex, queued, entered, inside, dangling>>
managerVars == <<task_queue_, stop_, state_, updated_, lock_, force_stop_, rpc,
                 rtask, cpcManager, ctask, iManager, future, exposed>>
poolVars == <<queuePool, stopPool, break_all_wait_, wpc, wtask, cpcPool,
              ctaskPool, dpc, futurePool, unheard, breakUnheard>>
loggerVars == <<stateLogger, active_buf_, flushing_buf_, file, wpcLogger,
                written, tpc, spcLogger, late>>
queueVars == <<head_, tail_, commit_, pool_, breakQueue, pcQueue, waits, old,
               element, got>>
partVars == <<part, lockVars, periodVars, wheelVars, timerVars, managerVars, poolVars,
              loggerVars, queueVars>>

PartInit ==
  /\ part \in Parts
  /\ Init /\ PeriodInit /\ Wheel!Init /\ T!Init
  /\ Manager!Init /\ Pool!Init /\ Logger!Init /\ Queue!Init
  /\ part # "timer" => period_ok

PartNext ==
  /\ UNCHANGED part
  /\ \/ part = "lock" /\ Next
     \/ part = "period" /\ PeriodNext
     \/ part = "wheel" /\ Wheel!Next
     \/ part = "timer" /\ T!Next
     \/ part = "manager" /\ Manager!Next
     \/ part = "pool" /\ Pool!Next
     \/ part = "logger" /\ Logger!Next
     \/ part = "queue" /\ Queue!Next
  /\ part # "lock" => UNCHANGED lockVars
  /\ part # "period" => UNCHANGED periodVars
  /\ part # "wheel" => UNCHANGED wheelVars
  /\ part # "timer" => UNCHANGED timerVars
  /\ part # "manager" => UNCHANGED managerVars
  /\ part # "pool" => UNCHANGED poolVars
  /\ part # "logger" => UNCHANGED loggerVars
  /\ part # "queue" => UNCHANGED queueVars

PartSpec == PartInit /\ [][PartNext]_partVars

\* The fairness of each component's FairSpec.
TimersSpec ==
  /\ PartSpec
  /\ \A t \in Thread : WF_lockVars(part = "lock" /\ Step(t))
  /\ WF_timerVars(part = "timer" /\ T!InitTimerTask)
  /\ WF_timerVars(part = "timer" /\ T!AddTask)
  /\ SF_timerVars(part = "timer" /\ T!Lock)
  /\ WF_timerVars(part = "timer" /\ T!Reset)
  /\ WF_timerVars(part = "timer" /\ T!Unlock)
  /\ \A g \in 1 .. MaxTasks :
       /\ WF_timerVars(part = "timer" /\ T!Fire(g))
       /\ WF_timerVars(part = "timer" /\ T!Enter(g))
       /\ SF_timerVars(part = "timer" /\ T!Begin(g))
       /\ WF_timerVars(part = "timer" /\ T!Finish(g))
       /\ WF_timerVars(part = "timer" /\ T!Leave(g))

WorkersSpec ==
  /\ PartSpec
  /\ \A r \in Manager!Routines :
       /\ WF_managerVars(part = "manager" /\ Manager!RoutineStep(r))
       /\ WF_managerVars(part = "manager"
                          /\ (Manager!StopTask(r) \/ Manager!RemoveTask(r)))
  /\ WF_managerVars(part = "manager" /\ Manager!ClientStep(c1))
  /\ WF_poolVars(part = "pool" /\ Pool!ClientStep(c1))
  /\ WF_managerVars(part = "manager" /\ Manager!ShutdownReturns)
  /\ \A w \in {w1, w2} :
       /\ WF_poolVars(part = "pool" /\ Pool!WorkerStep(w))
       /\ WF_loggerVars(part = "logger" /\ Logger!WriterStep(w))
  /\ WF_poolVars(part = "pool" /\ Pool!DestructorStep)
  /\ WF_loggerVars(part = "logger" /\ Logger!ThreadStep)
  /\ WF_loggerVars(part = "logger" /\ Logger!StopStep)
  /\ \A t \in {w1, w2, c1} : WF_queueVars(part = "queue" /\ Queue!WaitLoop(t))
  /\ \A p \in {w1, w2} :
       /\ WF_queueVars(part = "queue" /\ Queue!ProducerStep(p))
       /\ SF_queueVars(part = "queue" /\ Queue!ReserveSucceeds(p))
  /\ WF_queueVars(part = "queue" /\ Queue!ConsumerStep(c1))
  /\ SF_queueVars(part = "queue" /\ Queue!ReleaseSucceeds(c1))

(* -------------------------------- Properties ------------------------------ *)

\* TimingWheel fires a task exactly at the tick that its duration says unless
\* AddTask was overtaken by the tick thread, or the duration is longer than the
\* wheels are (a callback near the longest period may ask for that), and then
\* within one round.
FiresOnTime == Wheel!FiresOnTime /\ Wheel!FiresWithinRound

\* Timer: a task is not destroyed while somebody holds its mutex, and it is in
\* the wheel, or in one job, or done: jobs do not pile up or run side by side.
\* TimingWheel: a task that waits is in exactly one bucket of the two wheels.
\* Every variable holds a value of its type.
TaskInOneJob ==
  /\ TypeOK /\ PeriodTypeOK /\ Wheel!TypeOK /\ T!TypeOK
  /\ T!MutexOutlivesLock /\ T!TaskInOnePlace

\* A periodic timer fires again and again until it is stopped, and Stop returns
\* however often the callback takes the mutex.
KeepsFiringUntilStopped == T!KeepsFiring /\ T!StopReturns

\* Neither TaskManager::Enqueue and its routines nor ThreadPool::Enqueue and its
\* workers lose a task or hand it out twice: until its future is settled it is
\* in exactly one place.  AsyncLogger's swaps neither lose nor repeat nor reorder
\* messages.  TaskManager::Shutdown returns with no routine running, ThreadPool's
\* workers run at most one more task each once the destructor has begun, and
\* AsyncLogger::Stop leaves no message behind if no Write was under way.  Every
\* variable holds a value of its type.
TaskInOnePlace ==
  /\ Manager!TypeOK /\ Pool!TypeOK /\ Logger!TypeOK /\ Queue!TypeOK
  /\ Manager!TaskInOnePlace /\ Manager!QuietAfterShutdown
  /\ Pool!TaskInOnePlace /\ Pool!LateTasksBounded
  /\ Logger!MessagesInOrder /\ Logger!StopWritesAll

\* Both pools run every task whose notification somebody could notice, and every
\* message appended to AsyncLogger's buffer reaches the file.
NoticedTasksRun ==
  /\ Manager!NoticedTaskRuns /\ Pool!HeardTaskRuns /\ Logger!MessageReachesFile

\* TaskManager::Shutdown returns; so does ThreadPool's destructor, if every
\* worker could hear its BreakAllWait; and with a wait strategy that returns by
\* itself BreakAllWait ends every WaitEnqueue and WaitDequeue.
ShutdownReturns ==
  /\ Manager!ShutdownReturnsEventually /\ Pool!DestructorReturnsIfHeard
  /\ Queue!BreakEndsWaits
=============================================================================

-------------------------- MODULE ClassicScheduler --------------------------
(***************************************************************************)
(* The coroutine scheduler under the classic policy: CRoutine (croutine.h,  *)
(* croutine.cc), the reader routine (routine_factory.h), Processor and      *)
(* ClassicContext, SchedulerClassic and Scheduler, for one group.           *)
(*                                                                          *)
(* Processors run routines; clients create and remove tasks and shut the    *)
(* scheduler down; notifiers deliver messages (fill the routine's buffer,   *)
(* then NotifyProcessor).  A section under a write lock is one step when it *)
(* waits for nobody inside; the read sections of NextRoutine and            *)
(* NotifyProcessor, and the write section in which RemoveCRoutine spins,    *)
(* are several.  Who holds a lock is read off the program counters.  A      *)
(* reader's buffer is abstracted to whether it holds an unread message.     *)
(***************************************************************************)
EXTENDS Integers, Sequences, Functions

CONSTANTS Processor, Client, Notifier,
          Routine,        \* CRoutine objects, each created at most once
          Name,           \* task names (their hash is the crid)
          nameOf,         \* the name each object is created under
          MAX_PRIO,
          prioOf,         \* cr_confs_: the priority of each name
          None,
          MaxMessages,    \* bound: messages sent
          MaxNotify       \* bound: notify_grp_ saturates there

Prio == 0 .. MAX_PRIO - 1
Caller == Client \union Notifier
Threads == Processor \union Caller

ASSUME ClassicSchedulerConstants ==
  /\ MAX_PRIO \in Nat \ {0}
  /\ nameOf \in [Routine -> Name]
  /\ prioOf \in [Name -> Prio]
  /\ MaxMessages \in Nat /\ MaxNotify \in Nat \ {0}
  /\ Processor \intersect Caller = {} /\ Client \intersect Notifier = {}
  /\ None \notin Routine \union Name \union Client

VARIABLES
  id_cr_, cr_group_,         \* tasks by name; the run queue of each priority
  state_, updated_, lock_,   \* CRoutine ("SLEPT": in SLEEP, wake_time_ passed)
  force_stop_, resumeAt,     \* and the place on its stack where it yielded
  notify_grp_,               \* the group's tokens
  shutter,                   \* the caller whose Shutdown counts, if any
  ctxStop, running_,         \* the contexts' stop_, the processors' running_
  created, registered,       \* routines whose visitor exists, has a callback
  buffer, sent,              \* what is unread; messages sent so far
  pc, cur,                   \* where a thread is, and the routine it works on
  scan, prio,                \* NextRoutine: the rest of the queue, its priority
  target, todo               \* a caller's task name; the rest of Shutdown's
                             \* cr_list or of Notify's visitors

taskVars == <<id_cr_, cr_group_>>
runVars == <<state_, updated_, lock_, resumeAt>>
stopVars == <<shutter, ctxStop, running_>>
visitorVars == <<created, registered, sent>>
callVars == <<target, todo>>
scanVars == <<scan, prio>>
vars == <<taskVars, runVars, force_stop_, notify_grp_, stopVars, visitorVars,
          buffer, pc, cur, scanVars, callVars>>

Init ==
  /\ id_cr_ = [n \in Name |-> None]
  /\ cr_group_ = [i \in Prio |-> << >>]
  /\ state_ = [r \in Routine |-> "READY"]
  /\ updated_ = [r \in Routine |-> TRUE]
  /\ lock_ = [r \in Routine |-> FALSE]
  /\ force_stop_ = [r \in Routine |-> FALSE]
  /\ resumeAt = [r \in Routine |-> "b_wait"]
  /\ notify_grp_ = 0
  /\ shutter = None /\ ctxStop = FALSE /\ running_ = TRUE
  /\ created = {} /\ registered = {} /\ sent = 0
  /\ buffer = [r \in Routine |-> "empty"]
  /\ pc = [t \in Threads |-> IF t \in Processor THEN "loop" ELSE "idle"]
  /\ cur = [t \in Threads |-> None]
  /\ scan = [p \in Processor |-> << >>]
  /\ prio = [p \in Processor |-> 0]
  /\ target = [t \in Caller |-> None]
  /\ todo = [t \in Caller |-> {}]

Go(t, from, to) == pc[t] = from /\ pc' = [pc EXCEPT ![t] = to]

\* A caller's operation returns, and its locals with it.
Return(t, from) ==
  /\ Go(t, from, "idle")
  /\ cur' = [cur EXCEPT ![t] = None]
  /\ target' = [target EXCEPT ![t] = None]

stop_ == shutter # None

\* The mutex of an id, from DispatchTask's or RemoveCRoutine's start to its end.
MutexFree(n) ==
  ~\E c \in Client : /\ pc[c] \in {"c_ask", "c_enqueue", "c_notify",
                                 "r_ask", "r_find", "r_drop"}
                     /\ target[c] = n

\* The AtomicRWLock of a run queue: NextRoutine reads under it and lets a
\* waiting writer go first; RemoveCRoutine spins under it.
QueueRead(i) ==
  \E p \in Processor : pc[p] \in {"scan", "update", "skip"} /\ prio[p] = i
QueueWritten(i) ==
  \E c \in Client : pc[c] = "r_drop" /\ prioOf[target[c]] = i
QueueAsked(i) ==
  \E c \in Client : pc[c] \in {"c_enqueue", "r_find"} /\ prioOf[target[c]] = i

\* id_cr_lock_: NotifyProcessor reads under it.
IdsRead == \E w \in Notifier : pc[w] \in {"n_flag", "n_notify"}

\* ClassicContext::Notify: one more token, one waiting processor woken.
Notify ==
  notify_grp_' = notify_grp_ + (IF notify_grp_ < MaxNotify THEN 1 ELSE 0)

(* ---------------- Processor::Run and its ClassicContext ----------------- *)

\* What processors leave alone.
callerState == <<taskVars, stopVars, callVars, force_stop_, visitorVars>>

\* The loop of Run, and NextRoutine: nothing once stopped, else the queues from
\* the highest priority down.
NextRoutine(p) ==
  /\ Go(p, "loop", IF ~running_ THEN "done"
                   ELSE IF ctxStop THEN "wait" ELSE "lock")
  /\ prio' = [prio EXCEPT ![p] = MAX_PRIO - 1]
  /\ UNCHANGED <<callerState, runVars, buffer, cur, scan, notify_grp_>>

\* Mutant: a read lock that does not let waiting writers go first.
LockQueue_NoPreference(p) ==
  /\ Go(p, "lock", "scan")
  /\ ~QueueWritten(prio[p])
  /\ scan' = [scan EXCEPT ![p] = cr_group_[prio[p]]]
  /\ UNCHANGED <<callerState, runVars, buffer, cur, prio, notify_grp_>>

LockQueue(p) ==
  /\ Go(p, "lock", "scan")
  /\ ~QueueWritten(prio[p]) /\ ~QueueAsked(prio[p])
  /\ scan' = [scan EXCEPT ![p] = cr_group_[prio[p]]]
  /\ UNCHANGED <<callerState, runVars, buffer, cur, prio, notify_grp_>>

NextQueue(p) ==
  /\ scan[p] = << >>
  /\ Go(p, "scan", IF prio[p] = 0 THEN "wait" ELSE "lock")
  /\ prio' = [prio EXCEPT ![p] = IF @ = 0 THEN 0 ELSE @ - 1]
  /\ UNCHANGED <<callerState, runVars, buffer, cur, scan, notify_grp_>>

AcquireFails(p) ==
  /\ scan[p] # << >> /\ lock_[Head(scan[p])]
  /\ Go(p, "scan", "scan")
  /\ scan' = [scan EXCEPT ![p] = Tail(@)]
  /\ UNCHANGED <<callerState, runVars, buffer, cur, prio, notify_grp_>>

\* Mutant: the lock is set without looking at its old value.
Acquire_Untested(p) ==
  /\ scan[p] # << >>
  /\ Go(p, "scan", "update")
  /\ lock_' = [lock_ EXCEPT ![Head(scan[p])] = TRUE]
  /\ cur' = [cur EXCEPT ![p] = Head(scan[p])]
  /\ UNCHANGED <<callerState, state_, updated_, resumeAt, buffer, scanVars,
                 notify_grp_>>

Acquire(p) ==
  /\ scan[p] # << >> /\ ~lock_[Head(scan[p])]
  /\ Go(p, "scan", "update")
  /\ lock_' = [lock_ EXCEPT ![Head(scan[p])] = TRUE]
  /\ cur' = [cur EXCEPT ![p] = Head(scan[p])]
  /\ UNCHANGED <<callerState, state_, updated_, resumeAt, buffer, scanVars,
                 notify_grp_>>

\* A sleep that is over makes the routine ready and leaves the update flag;
\* otherwise the flag is consumed whatever the state.  A ready routine is
\* returned, and the queue unlocked.
UpdateState(p) ==
  LET r == cur[p]
      data == ~updated_[r] /\ state_[r] = "DATA_WAIT"
      new == IF data \/ state_[r] = "SLEPT" THEN "READY" ELSE state_[r]
  IN /\ Go(p, "update", IF new = "READY" THEN "resume" ELSE "skip")
     /\ state_' = [state_ EXCEPT ![r] = new]
     /\ updated_' = [updated_ EXCEPT ![r] = @ \/ state_[r] # "SLEPT"]
     /\ scan' = [scan EXCEPT ![p] = IF new = "READY" THEN << >> ELSE Tail(@)]
     /\ UNCHANGED <<callerState, lock_, resumeAt, buffer, cur, prio,
                    notify_grp_>>

\* CRoutine::Resume: a stopped routine finishes, a ready one continues where it
\* yielded.
Resume(p) ==
  LET r == cur[p] IN
  /\ Go(p, "resume", IF force_stop_[r] \/ state_[r] # "READY" THEN "release"
                                                              ELSE resumeAt[r])
  /\ state_' = [state_ EXCEPT ![r] = IF force_stop_[r] THEN "FINISHED" ELSE @]
  /\ UNCHANGED <<callerState, updated_, lock_, resumeAt, buffer, cur, scanVars,
                 notify_grp_>>

\* Mutant: releasing a routine also resets its update flag.
Release_ResetsFlag(p) ==
  /\ Go(p, "skip", "scan") \/ Go(p, "release", "loop")
  /\ lock_' = [lock_ EXCEPT ![cur[p]] = FALSE]
  /\ updated_' = [updated_ EXCEPT ![cur[p]] = TRUE]
  /\ cur' = [cur EXCEPT ![p] = None]
  /\ UNCHANGED <<callerState, state_, resumeAt, buffer, scanVars, notify_grp_>>

\* CRoutine::Release, of a routine passed over or of one that has yielded.
Release(p) ==
  /\ Go(p, "skip", "scan") \/ Go(p, "release", "loop")
  /\ lock_' = [lock_ EXCEPT ![cur[p]] = FALSE]
  /\ cur' = [cur EXCEPT ![p] = None]
  /\ UNCHANGED <<callerState, state_, updated_, resumeAt, buffer, scanVars,
                 notify_grp_>>

\* ClassicContext::Wait: until a token is there, at most 1000 ms.
Wait(p) ==
  /\ Go(p, "wait", "loop")
  /\ notify_grp_ > 0
  /\ notify_grp_' = notify_grp_ - 1
  /\ UNCHANGED <<callerState, runVars, buffer, cur, scanVars>>

\* Mutant: cv.wait in place of cv.wait_for.
WaitTimeout_Never(p) == FALSE

WaitTimeout(p) ==
  /\ Go(p, "wait", "loop")
  /\ notify_grp_ = 0
  /\ UNCHANGED <<callerState, runVars, buffer, cur, scanVars, notify_grp_>>

(* ------------- The routine's body: CreateRoutineFactory's loop ---------- *)

SetDataWait(p) ==
  /\ Go(p, "b_wait", "b_fetch")
  /\ state_' = [state_ EXCEPT ![cur[p]] = "DATA_WAIT"]
  /\ UNCHANGED <<callerState, updated_, lock_, resumeAt, buffer, cur, scanVars,
                 notify_grp_>>

\* TryFetch: with a message the handler runs, without one Yield() keeps the
\* state.  The loop comes back to set_state(DATA_WAIT).
TryFetch(p) ==
  LET r == cur[p] IN
  /\ Go(p, "b_fetch", IF buffer[r] = "empty" THEN "release" ELSE "b_handle")
  /\ buffer' = [buffer EXCEPT ![r] = "empty"]
  /\ resumeAt' = [resumeAt EXCEPT ![r] = "b_wait"]
  /\ UNCHANGED <<callerState, state_, updated_, lock_, cur, scanVars,
                 notify_grp_>>

YieldReady(p) ==
  /\ Go(p, "b_handle", "release") \/ Go(p, "b_rest", "release")
  /\ state_' = [state_ EXCEPT ![cur[p]] = "READY"]
  /\ resumeAt' = [resumeAt EXCEPT ![cur[p]] = "b_wait"]
  /\ UNCHANGED <<callerState, updated_, lock_, buffer, cur, scanVars,
                 notify_grp_>>

\* The handler may sleep (CRoutine::Sleep), once per message here, and goes on
\* from there when resumed.
Sleep(p) ==
  /\ Go(p, "b_handle", "release")
  /\ state_' = [state_ EXCEPT ![cur[p]] = "SLEEP"]
  /\ resumeAt' = [resumeAt EXCEPT ![cur[p]] = "b_rest"]
  /\ UNCHANGED <<callerState, updated_, lock_, buffer, cur, scanVars,
                 notify_grp_>>

\* The clock passes wake_time_.
SleepOver(r) ==
  /\ state_[r] = "SLEEP"
  /\ state_' = [state_ EXCEPT ![r] = "SLEPT"]
  /\ UNCHANGED <<callerState, updated_, lock_, resumeAt, buffer, cur, scanVars,
                 notify_grp_, pc>>

(* --------------------- Scheduler::CreateTask ---------------------------- *)

\* What clients leave alone.
processorState == <<scanVars, runVars, buffer, sent>>

CreateTask(c, r) ==
  /\ ~stop_ /\ r \notin created
  /\ Go(c, "idle", "c_insert")
  /\ created' = created \union {r}
  /\ cur' = [cur EXCEPT ![c] = r]
  /\ target' = [target EXCEPT ![c] = nameOf[r]]
  /\ UNCHANGED <<processorState, taskVars, stopVars, force_stop_, registered,
                 todo, notify_grp_>>

\* DispatchTask takes the mutex of the id and enters the routine in id_cr_; a
\* name that is taken makes it, and CreateTask, return false.
DispatchInsert(c) ==
  /\ pc[c] = "c_insert" /\ MutexFree(target[c]) /\ ~IdsRead
  /\ IF id_cr_[target[c]] = None
       THEN /\ Go(c, "c_insert", "c_ask")
            /\ id_cr_' = [id_cr_ EXCEPT ![target[c]] = cur[c]]
            /\ UNCHANGED <<cur, target>>
       ELSE Return(c, "c_insert") /\ UNCHANGED id_cr_
  /\ UNCHANGED <<processorState, cr_group_, stopVars, force_stop_, created,
                 registered, todo, notify_grp_>>

\* WriteLock of the run queue announces the writer, then waits.
AskQueue(c) ==
  /\ Go(c, "c_ask", "c_enqueue") \/ Go(c, "r_ask", "r_find")
  /\ UNCHANGED <<processorState, taskVars, stopVars, force_stop_, created,
                 registered, callVars, cur, notify_grp_>>

DispatchEnqueue(c) ==
  LET i == prioOf[target[c]] IN
  /\ Go(c, "c_enqueue", "c_notify")
  /\ ~QueueRead(i) /\ ~QueueWritten(i)
  /\ cr_group_' = [cr_group_ EXCEPT ![i] = Append(@, cur[c])]
  /\ UNCHANGED <<processorState, id_cr_, stopVars, force_stop_, created,
                 registered, callVars, cur, notify_grp_>>

DispatchNotify(c) ==
  /\ Go(c, "c_notify", "c_register")
  /\ Notify
  /\ UNCHANGED <<processorState, taskVars, stopVars, force_stop_, created,
                 registered, callVars, cur>>

RegisterNotifyCallback(c) ==
  /\ Return(c, "c_register")
  /\ registered' = registered \union {cur[c]}
  /\ UNCHANGED <<processorState, taskVars, stopVars, force_stop_, created, todo,
                 notify_grp_>>

(* --------------- RemoveTask, RemoveCRoutine, Shutdown ------------------- *)

\* Where a run queue holds routines created under a name, and the first place.
Places(q, n) == {k \in 1 .. Len(q) : nameOf[q[k]] = n}
FirstPlace(q, n) == CHOOSE k \in Places(q, n) : \A j \in Places(q, n) : k <= j

RemoveTask(c, n) ==
  /\ ~stop_
  /\ Go(c, "idle", "r_next")
  /\ todo' = [todo EXCEPT ![c] = {n}]
  /\ UNCHANGED <<processorState, taskVars, stopVars, force_stop_, created,
                 registered, target, cur, notify_grp_>>

\* SchedulerClassic::RemoveCRoutine takes the mutex of the id; under id_cr_lock_
\* it stops and forgets the routine, or returns false.
RemoveErase(c) ==
  \E n \in todo[c] :
    LET r == id_cr_[n] IN
    /\ MutexFree(n) /\ ~IdsRead
    /\ Go(c, "r_next", IF r = None THEN "r_next" ELSE "r_ask")
    /\ force_stop_' = IF r = None THEN force_stop_
                                  ELSE [force_stop_ EXCEPT ![r] = TRUE]
    /\ id_cr_' = [id_cr_ EXCEPT ![n] = None]
    /\ cur' = [cur EXCEPT ![c] = r]
    /\ target' = [target EXCEPT ![c] = n]
    /\ todo' = [todo EXCEPT ![c] = @ \ {n}]
    /\ UNCHANGED <<processorState, cr_group_, stopVars, created, registered,
                   notify_grp_>>

\* ClassicContext::RemoveCRoutine: under the queue's write lock, the first
\* routine with the id is stopped.
RemoveFind(c) ==
  LET n == target[c]
      q == cr_group_[prioOf[n]]
  IN /\ pc[c] = "r_find" /\ ~QueueRead(prioOf[n]) /\ ~QueueWritten(prioOf[n])
     /\ IF Places(q, n) = {}
          THEN Go(c, "r_find", "r_next") /\ UNCHANGED <<cur, force_stop_>>
          ELSE /\ Go(c, "r_find", "r_drop")
               /\ cur' = [cur EXCEPT ![c] = q[FirstPlace(q, n)]]
               /\ force_stop_' = [force_stop_ EXCEPT ![q[FirstPlace(q, n)]] = TRUE]
     /\ UNCHANGED <<processorState, taskVars, stopVars, created, registered,
                    callVars, notify_grp_>>

\* A queue without its k-th routine; the queues without the first one of a name.
Without(q, k) == [j \in 1 .. Len(q) - 1 |-> IF j < k THEN q[j] ELSE q[j + 1]]
Erased(n) ==
  LET q == cr_group_[prioOf[n]] IN
  [cr_group_ EXCEPT ![prioOf[n]] = Without(q, FirstPlace(q, n))]

\* Mutant: the routine is erased while it may be running.
RemoveDrop_NoSpin(c) ==
  /\ Go(c, "r_drop", "r_next")
  /\ cr_group_' = Erased(target[c])
  /\ UNCHANGED <<processorState, id_cr_, stopVars, force_stop_, created,
                 registered, callVars, cur, notify_grp_>>

\* The spin on Acquire ends when the running processor releases the routine;
\* erase and Release follow with the queue still locked.
RemoveDrop(c) ==
  /\ Go(c, "r_drop", "r_next")
  /\ ~lock_[cur[c]]
  /\ cr_group_' = Erased(target[c])
  /\ UNCHANGED <<processorState, id_cr_, stopVars, force_stop_, created,
                 registered, callVars, cur, notify_grp_>>

RemoveReturn(c) ==
  /\ todo[c] = {} /\ shutter # c
  /\ Return(c, "r_next")
  /\ UNCHANGED <<processorState, taskVars, stopVars, force_stop_, created,
                 registered, todo, notify_grp_>>

Shutdown(c) ==
  /\ ~stop_
  /\ Go(c, "idle", "s_ctx")
  /\ shutter' = c
  /\ UNCHANGED <<processorState, taskVars, ctxStop, running_, force_stop_,
                 created, registered, callVars, cur, notify_grp_>>

\* ClassicContext::Shutdown of the contexts (each read by its processor only).
ShutdownContexts(c) ==
  /\ Go(c, "s_ctx", "s_list")
  /\ ctxStop' = TRUE
  /\ notify_grp_' = MaxNotify
  /\ UNCHANGED <<processorState, taskVars, shutter, running_, force_stop_,
                 created, registered, callVars, cur>>

\* cr_list, whose tasks RemoveCRoutine then removes.
ShutdownList(c) ==
  /\ Go(c, "s_list", "r_next")
  /\ todo' = [todo EXCEPT ![c] = {n \in Name : id_cr_[n] # None}]
  /\ UNCHANGED <<processorState, taskVars, stopVars, force_stop_, created,
                 registered, target, cur, notify_grp_>>

\* Processor::Stop of the processors, which are then joined.
StopProcessors(c) ==
  /\ todo[c] = {} /\ shutter = c
  /\ Go(c, "r_next", "s_join")
  /\ running_' = FALSE
  /\ notify_grp_' = MaxNotify
  /\ UNCHANGED <<processorState, taskVars, shutter, ctxStop, force_stop_,
                 created, registered, callVars, cur>>

JoinProcessors(c) ==
  /\ \A p \in Processor : pc[p] = "done"
  /\ Return(c, "s_join")
  /\ UNCHANGED <<processorState, taskVars, stopVars, force_stop_, created,
                 registered, todo, notify_grp_>>

(* ------- DataDispatcher::Dispatch, DataNotifier::Notify, callback ------- *)

\* What notifiers leave alone.
schedulerState == <<taskVars, stopVars, scanVars, lock_, state_, resumeAt,
                    force_stop_, created, registered>>

\* A message of the channel read by the tasks called n reaches every visitor's
\* buffer ("early": the visitor has no callback yet); then Notify goes through
\* the visitors' callbacks.
Fill(w, n) ==
  LET rs == {r \in created : nameOf[r] = n} IN
  /\ sent < MaxMessages
  /\ Go(w, "idle", "n_call")
  /\ sent' = sent + 1
  /\ buffer' = [r \in Routine |-> IF r \notin rs THEN buffer[r]
                                  ELSE IF r \in registered THEN "unread"
                                  ELSE "early"]
  /\ target' = [target EXCEPT ![w] = n]
  /\ todo' = [todo EXCEPT ![w] = rs]
  /\ UNCHANGED <<schedulerState, updated_, cur, notify_grp_>>

\* One visitor: an unset callback, or a stopped scheduler, is passed over.
CallBack(w) ==
  \E r \in todo[w] :
    /\ Go(w, "n_call",
          IF r \in registered /\ ~stop_ THEN "n_find" ELSE "n_call")
    /\ todo' = [todo EXCEPT ![w] = @ \ {r}]
    /\ UNCHANGED <<schedulerState, updated_, buffer, sent, target, cur,
                   notify_grp_>>

NotifyReturn(w) ==
  /\ todo[w] = {}
  /\ Return(w, "n_call")
  /\ UNCHANGED <<schedulerState, updated_, buffer, sent, todo, notify_grp_>>

\* SchedulerClassic::NotifyProcessor: find the routine and read its state, set
\* the flag of a waiting one, wake a processor; all under id_cr_'s read lock.
NotifyFind(w) ==
  LET r == IF target[w] = None \/ stop_ THEN None ELSE id_cr_[target[w]] IN
  /\ Go(w, "n_find", IF r = None THEN "n_call"
                     ELSE IF state_[r] = "DATA_WAIT" THEN "n_flag"
                     ELSE "n_notify")
  /\ cur' = [cur EXCEPT ![w] = r]
  /\ UNCHANGED <<schedulerState, updated_, buffer, sent, callVars, notify_grp_>>

SetUpdateFlag(w) ==
  /\ Go(w, "n_flag", "n_notify")
  /\ updated_' = [updated_ EXCEPT ![cur[w]] = FALSE]
  /\ UNCHANGED <<schedulerState, buffer, sent, callVars, cur, notify_grp_>>

NotifyWake(w) ==
  /\ Go(w, "n_notify", "n_call")
  /\ Notify
  /\ UNCHANGED <<schedulerState, updated_, buffer, sent, callVars, cur>>

(* ------------------------------------------------------------------------ *)

Process(p) ==
  \/ NextRoutine(p) \/ LockQueue(p) \/ NextQueue(p) \/ AcquireFails(p)
  \/ Acquire(p) \/ UpdateState(p) \/ Resume(p) \/ Release(p)
  \/ Wait(p) \/ WaitTimeout(p)
  \/ SetDataWait(p) \/ TryFetch(p) \/ YieldReady(p) \/ Sleep(p)

Operate(c) ==
  \/ DispatchInsert(c) \/ AskQueue(c) \/ DispatchEnqueue(c) \/ DispatchNotify(c)
  \/ RegisterNotifyCallback(c)
  \/ RemoveErase(c) \/ RemoveFind(c) \/ RemoveDrop(c) \/ RemoveReturn(c)
  \/ ShutdownContexts(c) \/ ShutdownList(c) \/ StopProcessors(c)
  \/ JoinProcessors(c)

Deliver(w) ==
  CallBack(w) \/ NotifyReturn(w) \/ NotifyFind(w) \/ SetUpdateFlag(w)
  \/ NotifyWake(w)

\* The scheduler is down and every caller has returned.
Terminated ==
  /\ stop_
  /\ \A t \in Threads : pc[t] \in {"idle", "done"}
  /\ UNCHANGED vars

Next ==
  \/ \E p \in Processor : Process(p)
  \/ \E r \in Routine : SleepOver(r)
  \/ \E c \in Client :
       \/ \E r \in Routine : CreateTask(c, r)
       \/ \E n \in Name : RemoveTask(c, n)
       \/ Shutdown(c) \/ Operate(c)
  \/ \E w \in Notifier : Deliver(w) \/ \E n \in Name : Fill(w, n)
  \/ Terminated

Spec == Init /\ [][Next]_vars

\* The operating system runs every thread that can go on, and the clock.
Fairness ==
  /\ \A p \in Processor : WF_vars(Process(p))
  /\ \A r \in Routine : WF_vars(SleepOver(r))
  /\ \A c \in Client : WF_vars(Operate(c))
  /\ \A w \in Notifier : WF_vars(Deliver(w))

FairSpec == Spec /\ Fairness

(* ------------------------------ Properties ------------------------------ *)

Body == {"b_wait", "b_fetch", "b_handle", "b_rest"}
Holding == {"update", "skip", "resume", "release"} \union Body

\* Where a thread may be.
Positions ==
  Holding \union
  {"loop", "lock", "scan", "wait", "done",
   "idle", "c_insert", "c_ask", "c_enqueue", "c_notify", "c_register",
   "r_next", "r_ask", "r_find", "r_drop", "s_ctx", "s_list", "s_join",
   "n_call", "n_find", "n_flag", "n_notify"}

\* Every variable holds a value of its type.
TypeOK ==
  /\ id_cr_ \in [Name -> Routine \union {None}]
  /\ cr_group_ \in [Prio -> Seq(Routine)]
  /\ state_ \in [Routine -> {"READY", "FINISHED", "SLEEP", "SLEPT",
                           "DATA_WAIT"}]
  /\ updated_ \in [Routine -> BOOLEAN]
  /\ lock_ \in [Routine -> BOOLEAN]
  /\ force_stop_ \in [Routine -> BOOLEAN]
  /\ resumeAt \in [Routine -> {"b_wait", "b_rest"}]
  /\ notify_grp_ \in 0 .. MaxNotify
  /\ shutter \in Client \union {None}
  /\ ctxStop \in BOOLEAN /\ running_ \in BOOLEAN
  /\ created \subseteq Routine /\ registered \subseteq created
  /\ buffer \in [Routine -> {"empty", "early", "unread"}]
  /\ sent \in 0 .. MaxMessages
  /\ pc \in [Threads -> Positions]
  /\ cur \in [Threads -> Routine \union {None}]
  /\ scan \in [Processor -> Seq(Routine)]
  /\ prio \in [Processor -> Prio]
  /\ target \in [Caller -> Name \union {None}]
  /\ todo \in [Caller -> SUBSET (Name \union Routine)]

\* lock_ makes a routine the business of one processor: it is set exactly while
\* some processor is between Acquire and Release, and no two are at once, so a
\* routine's stack is never entered twice.
OneHolder ==
  /\ \A r \in Routine :
       lock_[r] <=> \E p \in Processor : pc[p] \in Holding /\ cur[p] = r
  /\ \A p, q \in Processor :
       pc[p] \in Holding /\ pc[q] \in Holding /\ cur[p] = cur[q] => p = q

\* A routine that was stopped and is in no remover's hands any more.
Removed(r) ==
  /\ force_stop_[r]
  /\ \A c \in Client : pc[c] \in {"r_ask", "r_find", "r_drop"} => cur[c] # r

\* Once the removal of a routine has returned, it is in no run queue, and no
\* processor holds it or will come upon it in a scan: its closure may be freed.
RemovedIsGone ==
  \A r \in Routine : Removed(r) =>
    /\ \A i \in Prio : r \notin Range(cr_group_[i])
    /\ \A p \in Processor :
         /\ pc[p] \in Holding => cur[p] # r
         /\ pc[p] = "scan" => r \notin Range(scan[p])

\* What the per-id mutex is for ("prevent race condition when del && add cr with
\* same crid"): while nobody holds a name's mutex, its run queue holds the
\* routine id_cr_ knows, once, or none; at no time does it hold two.
TasksAgree ==
  \A n \in Name :
    LET q == cr_group_[prioOf[n]] IN
    /\ \A j, k \in Places(q, n) : j = k
    /\ MutexFree(n) => {q[k] : k \in Places(q, n)} = {id_cr_[n]} \ {None}

\* No lost wake-up: a task that waits for data with a message in its buffer has
\* its update flag down, or a notifier that will put it down, unless the message
\* came before CreateTask had registered the callback.
WaitingIsFlagged ==
  \A n \in Name :
    LET r == id_cr_[n] IN
    (/\ r # None /\ ~stop_
     /\ state_[r] = "DATA_WAIT" /\ buffer[r] = "unread"
     /\ \A p \in Processor : pc[p] \in Body => cur[p] # r)
    => \/ ~updated_[r]
       \/ \E w \in Notifier :
            /\ target[w] = n
            /\ \/ pc[w] = "n_call" /\ r \in todo[w]
               \/ pc[w] \in {"n_find", "n_flag"}

\* After Shutdown has returned no processor runs anything.
ShutdownStopsAll ==
  (shutter # None /\ pc[shutter] = "idle") =>
     \A p \in Processor : pc[p] = "done"

\* Tasks come and go as a whole, whatever clients do at once: what has been
\* removed is gone, id_cr_ and the run queues agree, and nothing runs after
\* Shutdown.
TasksGone == RemovedIsGone /\ TasksAgree /\ ShutdownStopsAll

\* A message put into the buffer of a task whose callback is registered is
\* fetched, unless the task is removed or the scheduler stops.
MessageHandled ==
  \A r \in Routine :
    (buffer[r] = "unread") ~> (buffer[r] # "unread" \/ force_stop_[r] \/ stop_)

\* RemoveTask and Shutdown return, whatever the processors are doing.
RemovalReturns ==
  \A c \in Client : (pc[c] \in {"r_next", "s_ctx"}) ~> (pc[c] = "idle")
=============================================================================

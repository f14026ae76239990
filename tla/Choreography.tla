----------------------------- MODULE Choreography -----------------------------
(* The scheduler under the choreography policy (scheduler_choreography.cc,    *)
(* choreography_context.cc): processor i < proc_num_ runs the routines placed *)
(* on it from a queue of its own, the pool's processors share one queue.      *)
(* Routines, buffers and messages are those of ClassicScheduler.              *)
EXTENDS Integers, Sequences, FiniteSets, SequencesExt

CONSTANTS
    Clients, Notifiers,
    Routines, Names, nameOf,   \* objects, task names, the name of each object
    None,
    Configs,                   \* records [procs, pool, default, prio, processor]
                               \* with the tasks the program creates and a
                               \* bound, msgs, on the messages sent
    MAX_PRIO

VARIABLES
    cfg,                       \* the configuration file of this behaviour
    id_cr_, cr_queue_,         \* tasks by name; the queue of each context
    state_, updated_, lock_, force_stop_,
    notify,                    \* tokens of each context; the pool's are one
    shutter, running_,         \* the client whose Shutdown counts; the processors run
    registered,                \* routines whose visitor has the callback
    buffer, sent,              \* of each routine, as in ClassicScheduler; messages sent
    pc, cur, scan,             \* threads, their routine, a scan's rest
    todo,                      \* tasks a remover has still to remove
    missed                     \* for the properties: see AcquireFails

routineVars == <<state_, updated_, lock_, force_stop_>>
dataVars == <<registered, buffer, sent>>
vars == <<cfg, id_cr_, cr_queue_, routineVars, notify, shutter, running_, dataVars,
          pc, cur, scan, todo, missed>>

ChoreographyConstants ==
    /\ nameOf \in [Routines -> Names] /\ MAX_PRIO \in Nat \ {0}
    /\ \A c \in Configs :
          c.procs \in Nat /\ c.pool \in Nat /\ c.msgs \in Nat /\ c.tasks \subseteq Names

-----------------------------------------------------------------------------
(* The constructor: a file without processors means the default, for both.   *)

proc_num_ == IF cfg.procs # 0 THEN cfg.procs ELSE IF cfg.default # None THEN cfg.default ELSE 2
task_pool_size_ == IF cfg.procs # 0 THEN cfg.pool ELSE proc_num_

\* CreateProcessor: contexts 0 .. proc_num_ - 1, and the pool's, which share.
Pool == -1
Processors == 0..(proc_num_ + task_pool_size_ - 1)
Context(p) == IF p < proc_num_ THEN p ELSE Pool
Contexts == {Pool} \cup 0..(proc_num_ - 1)

\* Scheduling settings of a task: cr_confs_, and what DispatchTask makes of them.
Placed(n) == IF cfg.processor[n] # None /\ cfg.processor[n] < proc_num_
             THEN cfg.processor[n] ELSE Pool
Priority(n) == IF Placed(n) = Pool /\ cfg.prio[n] >= MAX_PRIO THEN MAX_PRIO - 1
               ELSE cfg.prio[n]

Init ==
    /\ cfg \in Configs
    /\ id_cr_ = [n \in Names |-> None] /\ cr_queue_ = [x \in Contexts |-> <<>>]
    /\ state_ = [r \in Routines |-> "READY"] /\ updated_ = [r \in Routines |-> TRUE]
    /\ lock_ = [r \in Routines |-> FALSE] /\ force_stop_ = [r \in Routines |-> FALSE]
    /\ notify = [x \in Contexts |-> 0] /\ shutter = None /\ running_ = TRUE
    /\ registered = {} /\ buffer = [r \in Routines |-> "empty"] /\ sent = 0
    /\ pc = [t \in Processors \cup Clients \cup Notifiers |->
                IF t \in Processors THEN "loop" ELSE "idle"]
    /\ cur = [t \in DOMAIN pc |-> None]
    /\ scan = [p \in Processors |-> <<>>] /\ todo = [c \in Clients |-> {}]
    /\ missed = {}

stop_ == shutter # None

Go(t, from, to) == pc[t] = from /\ pc' = [pc EXCEPT ![t] = to]

\* rq_lk_ of a context (the pool's lock of a priority): readers, a spinning
\* writer, and writers that wait, before whom no reader goes.
Read(x) == \E p \in Processors : pc[p] \in {"scan", "update", "pass"} /\ Context(p) = x
Spun(x) == \E c \in Clients : pc[c] = "drop" /\ Placed(nameOf[cur[c]]) = x
Asked(x) == \E c \in Clients : pc[c] \in {"enqueue", "find"} /\ Placed(nameOf[cur[c]]) = x

\* The mutex of an id (DispatchTask, RemoveCRoutine).
MutexFree(n) == ~\E c \in Clients : pc[c] \in {"enqueue", "find", "drop"} /\ nameOf[cur[c]] = n

\* id_cr_lock_, held by a notifier between finding a task and flagging it.
Flagging == \E w \in Notifiers : pc[w] = "flag"

-----------------------------------------------------------------------------
(* Processors.                                                               *)

\* Processor::Run and the start of NextRoutine.
NextRoutine(p) ==
    /\ \/ ~running_ /\ Go(p, "loop", "done") /\ UNCHANGED scan
       \/ running_ /\ stop_ /\ Go(p, "loop", "wait") /\ UNCHANGED scan
       \/ /\ running_ /\ ~stop_ /\ ~Spun(Context(p)) /\ ~Asked(Context(p))
          /\ Go(p, "loop", "scan")
          /\ scan' = [scan EXCEPT ![p] = cr_queue_[Context(p)]]
    /\ UNCHANGED <<cfg, id_cr_, cr_queue_, routineVars, notify, shutter,
                   running_, dataVars, cur, todo, missed>>

\* The loop over the queue: Acquire fails for a routine that another holds.  A
\* flag that was put up after the holder's UpdateState is then missed by both.
AcquireFails(p) ==
    LET r == Head(scan[p]) IN
    /\ pc[p] = "scan" /\ scan[p] # <<>> /\ lock_[r]
    /\ scan' = [scan EXCEPT ![p] = Tail(@)]
    /\ missed' = missed \cup
          {x \in {r} : ~updated_[x] /\ \E o \in Processors : cur[o] = x /\ pc[o] = "pass"}
    /\ UNCHANGED <<cfg, id_cr_, cr_queue_, routineVars, notify, shutter,
                   running_, dataVars, pc, cur, todo>>

Acquire(p) ==
    /\ scan[p] # <<>> /\ ~lock_[Head(scan[p])] /\ Go(p, "scan", "update")
    /\ lock_' = [lock_ EXCEPT ![Head(scan[p])] = TRUE]
    /\ cur' = [cur EXCEPT ![p] = Head(scan[p])]
    /\ scan' = [scan EXCEPT ![p] = Tail(@)]
    /\ UNCHANGED <<cfg, id_cr_, cr_queue_, state_, updated_, force_stop_, notify,
                   shutter, running_, dataVars, todo, missed>>

\* A routine that is ready is returned acquired, the queue unlocked.
UpdateState(p) ==
    LET r == cur[p]
        ready == state_[r] = "READY" \/ (state_[r] = "DATA_WAIT" /\ ~updated_[r])
    IN
    /\ Go(p, "update", IF ready THEN "resume" ELSE "pass")
    /\ updated_' = [updated_ EXCEPT ![r] = TRUE]
    /\ state_' = [state_ EXCEPT ![r] = IF ready THEN "READY" ELSE @]
    /\ scan' = [scan EXCEPT ![p] = IF ready THEN <<>> ELSE @]
    /\ missed' = missed \ {r}
    /\ UNCHANGED <<cfg, id_cr_, cr_queue_, lock_, force_stop_, notify, shutter,
                   running_, dataVars, cur, todo>>

ScanEnds(p) ==
    /\ scan[p] = <<>> /\ Go(p, "scan", "wait")
    /\ UNCHANGED <<cfg, id_cr_, cr_queue_, routineVars, notify, shutter,
                   running_, dataVars, cur, scan, todo, missed>>

\* CRoutine::Resume into the body, which first waits for data ...
Resume(p) ==
    /\ Go(p, "resume", IF force_stop_[cur[p]] THEN "release" ELSE "fetch")
    /\ state_' = [state_ EXCEPT ![cur[p]] = IF force_stop_[cur[p]] THEN "FINISHED" ELSE "DATA_WAIT"]
    /\ UNCHANGED <<cfg, id_cr_, cr_queue_, updated_, lock_, force_stop_, notify,
                   shutter, running_, dataVars, cur, scan, todo, missed>>

\* ... then handles a message, if there is one, and yields ready.
Fetch(p) ==
    /\ Go(p, "fetch", "release")
    /\ state_' = [state_ EXCEPT ![cur[p]] = IF buffer[cur[p]] # "empty" THEN "READY" ELSE @]
    /\ buffer' = [buffer EXCEPT ![cur[p]] = "empty"]
    /\ UNCHANGED <<cfg, id_cr_, cr_queue_, updated_, lock_, force_stop_, notify,
                   shutter, running_, registered, sent, cur, scan, todo, missed>>

\* After a run, or of a routine that is not ready; then the scan goes on.
Release(p) ==
    /\ Go(p, "release", "loop") \/ Go(p, "pass", "scan")
    /\ lock_' = [lock_ EXCEPT ![cur[p]] = FALSE] /\ cur' = [cur EXCEPT ![p] = None]
    /\ UNCHANGED <<cfg, id_cr_, cr_queue_, state_, updated_, force_stop_,
                   notify, shutter, running_, dataVars, scan, todo, missed>>

\* Wait: a token, or 1000 ms.
Wait(p) ==
    /\ Go(p, "wait", "loop")
    /\ notify' = [notify EXCEPT ![Context(p)] = IF @ > 0 THEN @ - 1 ELSE 0]
    /\ UNCHANGED <<cfg, id_cr_, cr_queue_, routineVars, shutter, running_,
                   dataVars, cur, scan, todo, missed>>

-----------------------------------------------------------------------------
(* Clients.                                                                  *)

\* DispatchTask under the mutex of the id: a name that is taken is refused.
DispatchTask(c, r) ==
    /\ nameOf[r] \in cfg.tasks
    /\ ~stop_ /\ ~force_stop_[r] /\ \A t \in DOMAIN cur : cur[t] # r
    /\ id_cr_[nameOf[r]] # r /\ MutexFree(nameOf[r]) /\ ~Flagging
    /\ IF id_cr_[nameOf[r]] # None THEN pc[c] = "idle" /\ UNCHANGED <<pc, id_cr_, cur>>
       ELSE /\ Go(c, "idle", "enqueue")
            /\ id_cr_' = [id_cr_ EXCEPT ![nameOf[r]] = r]
            /\ cur' = [cur EXCEPT ![c] = r]
    /\ UNCHANGED <<cfg, cr_queue_, routineVars, notify, shutter, running_,
                   dataVars, scan, todo, missed>>

\* The queue is a multimap by falling priority; equal ones in order of arrival.
Insert(q, r) ==
    LET before == SelectSeq(q, LAMBDA x : Priority(nameOf[x]) >= Priority(nameOf[r]))
        after == SelectSeq(q, LAMBDA x : Priority(nameOf[x]) < Priority(nameOf[r]))
    IN before \o <<r>> \o after

Enqueue(c) ==
    LET x == Placed(nameOf[cur[c]]) IN
    /\ pc[c] = "enqueue" /\ ~Read(x) /\ ~Spun(x)
    /\ Go(c, "enqueue", "register")
    /\ cr_queue_' = [cr_queue_ EXCEPT ![x] = Insert(@, cur[c])]
    /\ UNCHANGED <<cfg, id_cr_, routineVars, notify, shutter, running_, dataVars,
                   cur, scan, todo, missed>>

\* Scheduler::CreateTask, after DispatchTask.
RegisterNotifyCallback(c) ==
    /\ Go(c, "register", "idle")
    /\ registered' = registered \cup {cur[c]} /\ cur' = [cur EXCEPT ![c] = None]
    /\ UNCHANGED <<cfg, id_cr_, cr_queue_, routineVars, notify, shutter, running_,
                   buffer, sent, scan, todo, missed>>

RemoveTask(c, n) ==
    /\ ~stop_ /\ Go(c, "idle", "remove")
    /\ todo' = [todo EXCEPT ![c] = {n}]
    /\ UNCHANGED <<cfg, id_cr_, cr_queue_, routineVars, notify, shutter,
                   running_, dataVars, cur, scan, missed>>

\* RemoveCRoutine: stop and forget the routine, then take it from its context.
RemoveCRoutine(c) ==
    \E n \in todo[c] :
        /\ MutexFree(n) /\ ~Flagging
        /\ Go(c, "remove", IF id_cr_[n] = None THEN "remove" ELSE "find")
        /\ force_stop_' = [r \in Routines |-> force_stop_[r] \/ r = id_cr_[n]]
        /\ cur' = [cur EXCEPT ![c] = id_cr_[n]]
        /\ id_cr_' = [id_cr_ EXCEPT ![n] = None]
        /\ todo' = [todo EXCEPT ![c] = @ \ {n}]
        /\ UNCHANGED <<cfg, cr_queue_, state_, updated_, lock_, notify, shutter,
                       running_, dataVars, scan, missed>>

\* Under the queue's write lock, spinning until the routine is released.
RemoveFind(c) ==
    /\ pc[c] = "find" /\ ~Read(Placed(nameOf[cur[c]])) /\ ~Spun(Placed(nameOf[cur[c]]))
    /\ Go(c, "find", "drop")
    /\ UNCHANGED <<cfg, id_cr_, cr_queue_, routineVars, notify, shutter,
                   running_, dataVars, cur, scan, todo, missed>>

RemoveDrop_NoSpin(c) ==
    /\ pc[c] = "drop" /\ Go(c, "drop", "remove")
    /\ cr_queue_' = [cr_queue_ EXCEPT ![Placed(nameOf[cur[c]])] = SelectSeq(@, LAMBDA r : r # cur[c])]
    /\ cur' = [cur EXCEPT ![c] = None]
    /\ UNCHANGED <<cfg, id_cr_, routineVars, notify, shutter, running_, dataVars,
                   scan, todo, missed>>

RemoveDrop(c) ==
    /\ pc[c] = "drop" /\ ~lock_[cur[c]] /\ Go(c, "drop", "remove")
    /\ cr_queue_' = [cr_queue_ EXCEPT ![Placed(nameOf[cur[c]])] = SelectSeq(@, LAMBDA r : r # cur[c])]
    /\ cur' = [cur EXCEPT ![c] = None]
    /\ UNCHANGED <<cfg, id_cr_, routineVars, notify, shutter, running_, dataVars,
                   scan, todo, missed>>

RemoveEnds(c) ==
    /\ todo[c] = {} /\ Go(c, "remove", IF shutter = c THEN "join" ELSE "idle")
    /\ running_' = (running_ /\ shutter # c)
    /\ UNCHANGED <<cfg, id_cr_, cr_queue_, routineVars, notify, shutter, dataVars,
                   cur, scan, todo, missed>>

\* A context's Shutdown: more tokens than its processors will ever take.
ShutdownContexts == notify' = [x \in Contexts |-> Cardinality(Processors) + 1]

\* Scheduler::Shutdown: contexts, then every task, then the processors.
Shutdown(c) ==
    /\ ~stop_ /\ Go(c, "idle", "remove")
    /\ shutter' = c /\ ShutdownContexts
    /\ todo' = [todo EXCEPT ![c] = {n \in Names : id_cr_[n] # None}]
    /\ UNCHANGED <<cfg, id_cr_, cr_queue_, routineVars, running_, dataVars,
                   cur, scan, missed>>

Join(c) ==
    /\ (\A p \in Processors : pc[p] = "done") /\ Go(c, "join", "idle")
    /\ UNCHANGED <<cfg, id_cr_, cr_queue_, routineVars, notify, shutter,
                   running_, dataVars, cur, scan, todo, missed>>

-----------------------------------------------------------------------------
(* A message fills the buffer and calls back, if there is a callback yet;     *)
(* NotifyProcessor finds the task and flags it, if it waits, under id_cr_'s   *)
(* read lock, and after it leaves a token in its context.                     *)

Fill(w, n) ==
    LET r == id_cr_[n] IN
    /\ sent < cfg.msgs /\ r # None
    /\ Go(w, "idle", IF r \in registered /\ ~stop_ THEN "find_task" ELSE "idle")
    /\ sent' = sent + 1
    /\ buffer' = [buffer EXCEPT ![r] = IF r \in registered THEN "unread"
                                       ELSE IF @ = "unread" THEN @ ELSE "early"]
    /\ cur' = [cur EXCEPT ![w] = IF r \in registered /\ ~stop_ THEN r ELSE None]
    /\ UNCHANGED <<cfg, id_cr_, cr_queue_, routineVars, notify, shutter,
                   running_, registered, scan, todo, missed>>

FindTask(w) ==
    LET r == id_cr_[nameOf[cur[w]]] IN
    /\ pc[w] = "find_task"
    /\ Go(w, "find_task", IF stop_ \/ r = None THEN "idle"
                          ELSE IF state_[r] = "DATA_WAIT" THEN "flag" ELSE "token")
    /\ cur' = [cur EXCEPT ![w] = IF stop_ THEN None ELSE r]
    /\ UNCHANGED <<cfg, id_cr_, cr_queue_, routineVars, notify, shutter, running_,
                   dataVars, scan, todo, missed>>

SetUpdateFlag(w) ==
    /\ Go(w, "flag", "token")
    /\ updated_' = [updated_ EXCEPT ![cur[w]] = FALSE]
    /\ UNCHANGED <<cfg, id_cr_, cr_queue_, state_, lock_, force_stop_, notify,
                   shutter, running_, dataVars, cur, scan, todo, missed>>

Notify(x) == notify' = [notify EXCEPT ![x] = @ + 1]

NotifyProcessor_Pool(w) ==
    /\ pc[w] = "token" /\ Go(w, "token", "idle")
    /\ notify' = [notify EXCEPT ![Pool] = @ + 1]
    /\ cur' = [cur EXCEPT ![w] = None]
    /\ UNCHANGED <<cfg, id_cr_, cr_queue_, routineVars, shutter, running_,
                   dataVars, scan, todo, missed>>

NotifyProcessor(w) ==
    /\ pc[w] = "token" /\ Go(w, "token", "idle")
    /\ Notify(Placed(nameOf[cur[w]]))
    /\ cur' = [cur EXCEPT ![w] = None]
    /\ UNCHANGED <<cfg, id_cr_, cr_queue_, routineVars, shutter, running_,
                   dataVars, scan, todo, missed>>

Process(p) == NextRoutine(p) \/ AcquireFails(p) \/ Acquire(p) \/ UpdateState(p)
              \/ ScanEnds(p) \/ Resume(p) \/ Fetch(p) \/ Release(p) \/ Wait(p)
Operate(c) == Enqueue(c) \/ RegisterNotifyCallback(c) \/ RemoveCRoutine(c) \/ RemoveFind(c)
              \/ RemoveDrop(c) \/ RemoveEnds(c) \/ Join(c)

Next ==
    \/ \E p \in Processors : Process(p)
    \/ \E c \in Clients :
          \/ \E r \in Routines : DispatchTask(c, r)
          \/ \E n \in Names : RemoveTask(c, n)
          \/ Shutdown(c) \/ Operate(c)
    \/ \E w \in Notifiers : FindTask(w) \/ SetUpdateFlag(w) \/ NotifyProcessor(w)
                            \/ \E n \in Names : Fill(w, n)

Spec == Init /\ [][Next]_vars

-----------------------------------------------------------------------------
Holding(p) == pc[p] \in {"update", "pass", "resume", "fetch", "release"}

\* A routine is resumed by one processor at a time, and by the one it is placed
\* on: a choreographed routine never runs elsewhere, a pooled one never there.
RunsWherePlaced ==
    /\ \A p \in Processors : Holding(p) => Context(p) = Placed(nameOf[cur[p]]) /\ lock_[cur[p]]
    /\ \A p, o \in Processors : (Holding(p) /\ Holding(o) /\ cur[p] = cur[o]) => p = o

\* Once its removal has returned a routine is in no queue, no scan and no
\* processor's hands; a table entry outside its mutex is queued exactly once.
RemovedIsGone ==
    /\ \A r \in Routines :
          (force_stop_[r] /\ \A c \in Clients : cur[c] # r) =>
              /\ \A x \in Contexts : r \notin Range(cr_queue_[x])
              /\ \A p \in Processors : cur[p] # r /\ r \notin Range(scan[p])
    /\ \A n \in Names : MutexFree(n) =>
          SelectSeq(cr_queue_[Placed(n)], LAMBDA r : nameOf[r] = n)
              = IF id_cr_[n] = None THEN <<>> ELSE <<id_cr_[n]>>

\* No lost wake-up.  A waiting routine with a message is flagged or about to be,
\* unless all of its messages came before the callback.  While a routine is
\* flagged and every processor of its context waits, there is a token for one of
\* them or a notifier about to leave it; only in the pool may the token have gone
\* to a processor that failed to acquire the routine while another passed it by,
\* and then the routine waits for the end of a Wait.
FlaggedIsWoken ==
    \A n \in Names :
        LET r == id_cr_[n]
            lost == Placed(n) = Pool /\ r \in missed
        IN (r # None /\ ~stop_ /\ r \in Range(cr_queue_[Placed(n)])) =>
        /\ (state_[r] = "DATA_WAIT" /\ buffer[r] = "unread" /\ \A p \in Processors : cur[p] # r) =>
              ~updated_[r] \/ \E w \in Notifiers : pc[w] \in {"find_task", "flag"} /\ nameOf[cur[w]] = n
        /\ (~updated_[r] /\ state_[r] = "DATA_WAIT" /\ ~lost
            /\ \A p \in Processors : Context(p) = Placed(n) => pc[p] = "wait") =>
              notify[Placed(n)] > 0 \/ \E w \in Notifiers : pc[w] = "token" /\ cur[w] = r
=============================================================================

--------------------------- MODULE SchedulerProofs ---------------------------
(***************************************************************************)
(* The safety of the classic scheduler, for any processors, clients,        *)
(* notifiers, tasks, names and priorities: one holder of each routine,      *)
(* removed tasks are gone, and no wake-up is lost.                          *)
(*                                                                          *)
(* None of the three is inductive alone.  That a removed routine is gone    *)
(* needs to know who holds the mutex of a name and how far they have come   *)
(* (MutexFine), that what processors scan stays in the run queue until its  *)
(* remover has acquired it (ProcessorFine, LocksOK), and that a routine     *)
(* that nobody has dispatched yet is in no table (OutsideFine).  IInv puts  *)
(* these together.  There is a lemma for each action; a step of a           *)
(* processor, a notifier or a client is first reduced to what it may touch  *)
(* (StepOf, NotifierFrame, ClientStep).                                     *)
(***************************************************************************)
EXTENDS ClassicScheduler, TLAPS

(* ---------------------- The inductive invariant ------------------------- *)

\* Where a client is in CreateTask, in RemoveTask, and where it holds the mutex
\* of a name; where a processor reads a run queue.
Creating == {"c_insert", "c_ask", "c_enqueue", "c_notify", "c_register"}
Removing == {"r_ask", "r_find", "r_drop"}
Locking == {"c_ask", "c_enqueue", "c_notify"} \union Removing
Reading == {"scan", "update", "skip"}

\* A routine is in the run queue of its priority.
InQueue(r) == r \in Range(cr_group_[prioOf[nameOf[r]]])

\* A processor holds a routine exactly between Acquire and Release.  What it
\* scans, and the routine it holds, are in run queues.
ProcessorFine(p) ==
  /\ pc[p] \in Holding \union {"loop", "lock", "scan", "wait", "done"}
  /\ pc[p] \in Holding => cur[p] \in Routine /\ InQueue(cur[p])
  /\ pc[p] \in Reading => \A k \in 1 .. Len(scan[p]) : InQueue(scan[p][k])
  /\ pc[p] = "update" => scan[p] # << >> /\ cur[p] = scan[p][1]

\* ... of the priority it reads.
ScanFine(p) ==
  pc[p] \in Reading => \A k \in 1 .. Len(scan[p]) : prioOf[nameOf[scan[p][k]]] = prio[p]

\* A client works on the object of the name it was called with.
ClientFine(c) ==
  /\ pc[c] \in Creating \union Removing \union
                 {"idle", "r_next", "s_ctx", "s_list", "s_join"}
  /\ pc[c] \in Creating \union Removing =>
       cur[c] \in Routine /\ target[c] = nameOf[cur[c]]
  /\ pc[c] \in Creating => cur[c] \in created
  /\ todo[c] \subseteq Name

\* A notifier works on the visitors of one name, and under the read lock on the
\* routine id_cr_ holds.
NotifierFine(w) ==
  /\ pc[w] \in {"idle", "n_call", "n_find", "n_flag", "n_notify"}
  /\ pc[w] # "idle" =>
       /\ target[w] \in Name
       /\ \A r \in todo[w] : r \in Routine /\ nameOf[r] = target[w]
  /\ pc[w] \in {"n_flag", "n_notify"} =>
       cur[w] \in Routine /\ id_cr_[target[w]] = cur[w]

\* The mutex of a name has one holder, and a routine one creator.
Exclusive ==
  \A c, d \in Client :
    /\ pc[c] \in Locking /\ pc[d] \in Locking /\ target[c] = target[d] => c = d
    /\ pc[c] \in Creating /\ pc[d] \in Creating /\ cur[c] = cur[d] => c = d

\* A routine that DispatchTask has not yet taken.
Outside(r) ==
  r \notin created \/ \E c \in Client : pc[c] = "c_insert" /\ cur[c] = r

\* Such a routine is as the constructor left it and in no table.
OutsideFine(r) ==
  Outside(r) => /\ state_[r] = "READY" /\ ~force_stop_[r]
                /\ ~InQueue(r) /\ id_cr_[nameOf[r]] # r

\* id_cr_ holds routines under their names, created and not stopped.
IdFine(n) ==
  id_cr_[n] # None => /\ nameOf[id_cr_[n]] = n
                      /\ id_cr_[n] \in created
                      /\ ~force_stop_[id_cr_[n]]

\* Every run queue holds routines of its priority, at most one of each name.
QueueFine(i) ==
  /\ \A k \in 1 .. Len(cr_group_[i]) : prioOf[nameOf[cr_group_[i][k]]] = i
  /\ \A j, k \in 1 .. Len(cr_group_[i]) :
       nameOf[cr_group_[i][j]] = nameOf[cr_group_[i][k]] => j = k

\* What the holder of a name's mutex has done so far.
MutexFine(c) ==
  /\ pc[c] \in {"c_ask", "c_enqueue", "c_notify"} => id_cr_[target[c]] = cur[c]
  /\ pc[c] \in Removing => id_cr_[target[c]] = None /\ force_stop_[cur[c]]
  /\ pc[c] \in {"c_ask", "c_enqueue"} =>
       \A r \in Routine : nameOf[r] = target[c] => ~InQueue(r)
  /\ pc[c] \in {"c_notify"} \union Removing =>
       \A r \in Routine : nameOf[r] = target[c] => (InQueue(r) <=> r = cur[c])

\* While nobody holds the mutex, id_cr_ and the run queue agree.
AgreeFine(r) ==
  MutexFree(nameOf[r]) => (InQueue(r) <=> id_cr_[nameOf[r]] = r)

\* Only its remover keeps a stopped routine in a run queue.
StoppedFine(r) ==
  force_stop_[r] /\ InQueue(r) => \E c \in Client : pc[c] \in Removing /\ cur[c] = r

\* A Shutdown that has returned has joined the processors.
ShutterFine ==
  shutter # None =>
    /\ pc[shutter] \in Removing \union {"s_ctx", "s_list", "r_next", "s_join", "idle"}
    /\ pc[shutter] = "idle" => \A p \in Processor : pc[p] = "done"

\* The callers, the tasks and the processors together.
CallersOK ==
  /\ \A c \in Client : ClientFine(c) /\ MutexFine(c)
  /\ \A w \in Notifier : NotifierFine(w)
  /\ Exclusive

TasksOK ==
  /\ \A n \in Name : IdFine(n)
  /\ \A i \in Prio : QueueFine(i)
  /\ \A r \in Routine : AgreeFine(r) /\ StoppedFine(r) /\ OutsideFine(r)
  /\ \A r \in Routine : buffer[r] = "unread" => r \in registered

ProcessorsOK == \A p \in Processor : ProcessorFine(p) /\ ScanFine(p)

\* RemoveCRoutine, which changes a queue, has kept its readers out.
LocksOK == \A c \in Client, p \in Processor :
  pc[c] = "r_drop" /\ pc[p] \in Reading => prioOf[target[c]] # prio[p]

\* The inductive invariant.
IInv ==
  /\ TypeOK /\ CallersOK /\ TasksOK /\ ProcessorsOK /\ LocksOK /\ ShutterFine
  /\ OneHolder /\ WaitingIsFlagged

\* The kinds of threads are disjoint.
LEMMA Kinds ==
  /\ \A p \in Processor : p \in Threads /\ p \notin Client /\ p \notin Notifier
  /\ \A c \in Client : c \in Threads /\ c \in Caller /\ c \notin Processor
                       /\ c \notin Notifier /\ c # None
  /\ \A w \in Notifier : w \in Threads /\ w \in Caller /\ w \notin Processor
                         /\ w \notin Client
  BY ClassicSchedulerConstants, Zenon DEF Threads, Caller

\* Every routine has a name and a priority.
LEMMA Names ==
  /\ \A r \in Routine : /\ nameOf[r] \in Name
                        /\ prioOf[nameOf[r]] \in Prio
                        /\ r # None
  /\ \A n \in Name : prioOf[n] \in Prio /\ n # None
  BY ClassicSchedulerConstants, Zenon

\* A thread moves on; the others stay where they are.
LEMMA Moved ==
  ASSUME TypeOK, NEW t \in Threads, NEW x, pc' = [pc EXCEPT ![t] = x]
  PROVE  pc'[t] = x /\ \A u \in Threads \ {t} : pc'[u] = pc[u]
  BY Zenon DEF TypeOK

\* The elements of a tail are elements of the sequence.
LEMMA TailElements ==
  ASSUME NEW S, NEW s \in Seq(S), s # << >>
  PROVE  /\ Tail(s) \in Seq(S)
         /\ \A k \in 1 .. Len(Tail(s)) : k + 1 \in 1 .. Len(s) /\ Tail(s)[k] = s[k + 1]
  OBVIOUS

\* Routines of priority i, at most one of each name, and one more of another name.
OneOfEach(q, i) ==
  /\ \A k \in 1 .. Len(q) : prioOf[nameOf[q[k]]] = i
  /\ \A j, k \in 1 .. Len(q) : nameOf[q[j]] = nameOf[q[k]] => j = k

LEMMA Appended ==
  ASSUME NEW q \in Seq(Routine), NEW r \in Routine
  PROVE  /\ Range(Append(q, r)) = Range(q) \union {r}
         /\ \A i : /\ OneOfEach(q, i) /\ prioOf[nameOf[r]] = i
                   /\ \A k \in 1 .. Len(q) : nameOf[q[k]] # nameOf[r]
                   => OneOfEach(Append(q, r), i)
  <1>s. PICK s : s = Append(q, r)
    BY Zenon
  <1>1. /\ Len(s) = Len(q) + 1 /\ s[Len(q) + 1] = r /\ Len(q) \in Nat
        /\ \A k \in 1 .. Len(q) : s[k] = q[k]
        /\ DOMAIN s = 1 .. Len(q) + 1 /\ DOMAIN q = 1 .. Len(q)
    BY <1>s
  <1>2. \A k \in 1 .. Len(s) : k \in 1 .. Len(q) \/ k = Len(q) + 1
    BY <1>1
  <1>3. Range(s) = Range(q) \union {r}
    BY <1>1, <1>2 DEF Range
  <1>4. ASSUME NEW i, OneOfEach(q, i), prioOf[nameOf[r]] = i,
               \A k \in 1 .. Len(q) : nameOf[q[k]] # nameOf[r]
        PROVE  OneOfEach(s, i)
    <2>1. \A k \in 1 .. Len(s) : prioOf[nameOf[s[k]]] = i
      BY <1>1, <1>2, <1>4 DEF OneOfEach
    <2>2. \A j, k \in 1 .. Len(s) : nameOf[s[j]] = nameOf[s[k]] => j = k
      BY <1>1, <1>2, <1>4 DEF OneOfEach
    <2> QED BY <2>1, <2>2, Zenon DEF OneOfEach
  <1> QED BY <1>s, <1>3, <1>4, Zenon

\* A queue without its k-th element.
LEMMA Removal ==
  ASSUME NEW S, NEW q \in Seq(S), NEW k \in 1 .. Len(q)
  PROVE  /\ Without(q, k) \in Seq(S) /\ Len(Without(q, k)) = Len(q) - 1
         /\ \A j \in 1 .. Len(q) - 1 :
              Without(q, k)[j] = IF j < k THEN q[j] ELSE q[j + 1]
  <1>1. Len(q) - 1 \in Nat
    OBVIOUS
  <1>2. \A j \in 1 .. Len(q) - 1 : (IF j < k THEN q[j] ELSE q[j + 1]) \in S
    OBVIOUS
  <1> QED BY <1>1, <1>2 DEF Without

\* The holder of a name's mutex that has found the name's routine in its queue
\* finds it again, at the one place that holds a routine of the name.
LEMMA TheirPlace ==
  ASSUME IInv, NEW c \in Client, pc[c] \in {"r_find", "r_drop"},
         NEW n, n = target[c], NEW q, q = cr_group_[prioOf[n]],
         NEW k, k = FirstPlace(q, n)
  PROVE  /\ n \in Name /\ n = nameOf[cur[c]] /\ q \in Seq(Routine)
         /\ Places(q, n) # {} /\ k \in 1 .. Len(q) /\ q[k] = cur[c]
  <1>1. /\ cur[c] \in Routine /\ n = nameOf[cur[c]] /\ MutexFine(c)
        /\ n \in Name /\ prioOf[n] \in Prio
    BY Names, Zenon DEF IInv, CallersOK, ClientFine, Removing
  <1>2. q \in Seq(Routine) /\ DOMAIN q = 1 .. Len(q)
    <2>1. q \in Seq(Routine)
      BY <1>1, Zenon DEF IInv, TypeOK
    <2> QED BY <2>1
  <1>3. \A r \in Routine : nameOf[r] = n => (InQueue(r) <=> r = cur[c])
    BY <1>1, Zenon DEF MutexFine, Removing
  <1>4. PICK j \in 1 .. Len(q) : q[j] = cur[c]
    BY <1>1, <1>2, <1>3, Zenon DEF InQueue, Range
  <1>5. \A i \in 1 .. Len(q) : nameOf[q[i]] = n => i = j
    <2>1. QueueFine(prioOf[n])
      BY <1>1, SMTT(30) DEF IInv, TasksOK
    <2> QED BY <2>1, <1>1, <1>4, Zenon DEF QueueFine
  <1>6. Places(q, n) = {j}
    BY <1>1, <1>4, <1>5, Zenon DEF Places
  <1>7. FirstPlace(q, n) = j
    BY <1>6 DEF FirstPlace
  <1> QED BY <1>1, <1>2, <1>4, <1>6, <1>7, Zenon

\* The functions' domains, and what their values are.
LEMMA Domains ==
  ASSUME IInv
  PROVE  /\ DOMAIN pc = Threads /\ DOMAIN cur = Threads
         /\ DOMAIN scan = Processor /\ DOMAIN prio = Processor
         /\ DOMAIN target = Caller /\ DOMAIN todo = Caller
         /\ DOMAIN state_ = Routine /\ DOMAIN updated_ = Routine /\ DOMAIN lock_ = Routine
         /\ DOMAIN buffer = Routine /\ DOMAIN resumeAt = Routine
         /\ DOMAIN force_stop_ = Routine /\ DOMAIN id_cr_ = Name /\ DOMAIN cr_group_ = Prio
  BY Zenon DEF IInv, TypeOK

LEMMA Values ==
  ASSUME IInv
  PROVE  /\ \A n \in Name : id_cr_[n] \in Routine \union {None}
         /\ \A i \in Prio : cr_group_[i] \in Seq(Routine)
         /\ \A p \in Processor : scan[p] \in Seq(Routine) /\ prio[p] \in Prio
         /\ \A r \in Routine : resumeAt[r] \in {"b_wait", "b_rest"}
         /\ shutter \in Client \union {None} /\ created \subseteq Routine
  BY Zenon DEF IInv, TypeOK

LEMMA TableTypes ==
  ASSUME IInv
  PROVE  /\ cur \in [Threads -> Routine \union {None}]
         /\ id_cr_ \in [Name -> Routine \union {None}]
         /\ force_stop_ \in [Routine -> BOOLEAN]
  BY Zenon DEF IInv, TypeOK

\* To write what is there changes nothing.
LEMMA SameWritten ==
  ASSUME NEW S, NEW T, NEW f \in [S -> T], NEW x \in S
  PROVE  [f EXCEPT ![x] = f[x]] = f
  BY Zenon

\* A thread goes from one place to another.
LEMMA GoPlaces ==
  ASSUME IInv, NEW t \in Threads, NEW a, NEW x, Go(t, a, x)
  PROVE  pc[t] = a /\ pc'[t] = x /\ \A u \in Threads \ {t} : pc'[u] = pc[u]
  BY Domains, Zenon DEF Go

\* What the invariant says of one routine, name, queue or caller.
LEMMA TasksFine ==
  ASSUME IInv
  PROVE  /\ \A r \in Routine : AgreeFine(r) /\ StoppedFine(r) /\ OutsideFine(r)
         /\ \A n \in Name : IdFine(n)
         /\ \A i \in Prio : QueueFine(i)
  BY Zenon DEF IInv, TasksOK

LEMMA CallersFine ==
  ASSUME IInv
  PROVE  /\ \A c \in Client : ClientFine(c) /\ MutexFine(c)
         /\ \A w \in Notifier : NotifierFine(w)
         /\ Exclusive
  BY Zenon DEF IInv, CallersOK

LEMMA ProcessorsFine ==
  ASSUME IInv
  PROVE  \A p \in Processor : ProcessorFine(p) /\ ScanFine(p)
  BY Zenon DEF IInv, ProcessorsOK

LEMMA LocksFine ==
  ASSUME IInv, NEW c \in Client, NEW p \in Processor,
         pc[c] = "r_drop", pc[p] \in Reading
  PROVE  prioOf[target[c]] # prio[p]
  BY Zenon DEF IInv, LocksOK

\* The holders of routines do not change when the processors stay where they are.
LEMMA SameHolders ==
  ASSUME IInv, lock_' = lock_,
         \A p \in Processor : pc'[p] = pc[p] /\ cur'[p] = cur[p]
  PROVE  OneHolder'
  <1>1. ASSUME NEW r \in Routine
        PROVE  lock_'[r] <=> \E p \in Processor : pc'[p] \in Holding /\ cur'[p] = r
    <2>1. lock_[r] <=> \E p \in Processor : pc[p] \in Holding /\ cur[p] = r
      BY Zenon DEF IInv, OneHolder
    <2> QED BY <2>1, Zenon
  <1>2. ASSUME NEW p \in Processor, NEW q \in Processor,
               pc'[p] \in Holding, pc'[q] \in Holding, cur'[p] = cur'[q]
        PROVE  p = q
    <2>1. pc[p] \in Holding /\ pc[q] \in Holding /\ cur[p] = cur[q]
      BY <1>2, Zenon
    <2> QED BY <2>1, Zenon DEF IInv, OneHolder
  <1> QED BY <1>1, <1>2, Zenon DEF OneHolder

\* A notifier that will put down the flag of x, the task called n.
Flagging(w, n, x) ==
  /\ target[w] = n
  /\ \/ pc[w] = "n_call" /\ x \in todo[w]
     \/ pc[w] \in {"n_find", "n_flag"}

\* A task that waits, in nobody's hands, with an unread message.
WaitsUnread(n, x) ==
  /\ x = id_cr_[n] /\ x # None /\ ~stop_
  /\ state_[x] = "DATA_WAIT" /\ buffer[x] = "unread"
  /\ \A p \in Processor : pc[p] \in Body => cur[p] # x

\* WaitingIsFlagged of one task, before a step and after it.
LEMMA WaitingFine ==
  ASSUME IInv, NEW n \in Name, NEW x, WaitsUnread(n, x)
  PROVE  ~updated_[x] \/ \E w \in Notifier : Flagging(w, n, x)
  <1>1. WaitingIsFlagged
    BY Zenon DEF IInv
  <1> QED BY <1>1 DEF WaitingIsFlagged, WaitsUnread, Flagging

LEMMA WaitingKept ==
  ASSUME \A n \in Name : \A x : WaitsUnread(n, x)' =>
           ~updated_'[x] \/ \E w \in Notifier : Flagging(w, n, x)'
  PROVE  WaitingIsFlagged'
  BY DEF WaitingIsFlagged, WaitsUnread, Flagging

(* --------------------------------- Types --------------------------------- *)

\* What processors work on, and what callers do.
WorkTypes ==
  /\ pc \in [Threads -> Positions] /\ cur \in [Threads -> Routine \union {None}]
  /\ scan \in [Processor -> Seq(Routine)] /\ prio \in [Processor -> Prio]
  /\ state_ \in [Routine -> {"READY", "FINISHED", "SLEEP", "SLEPT", "DATA_WAIT"}]
  /\ updated_ \in [Routine -> BOOLEAN] /\ lock_ \in [Routine -> BOOLEAN]
  /\ resumeAt \in [Routine -> {"b_wait", "b_rest"}]
  /\ buffer \in [Routine -> {"empty", "early", "unread"}]
  /\ notify_grp_ \in 0 .. MaxNotify
CallTypes ==
  /\ id_cr_ \in [Name -> Routine \union {None}] /\ cr_group_ \in [Prio -> Seq(Routine)]
  /\ force_stop_ \in [Routine -> BOOLEAN]
  /\ shutter \in Client \union {None} /\ ctxStop \in BOOLEAN /\ running_ \in BOOLEAN
  /\ created \subseteq Routine /\ registered \subseteq created
  /\ sent \in 0 .. MaxMessages
  /\ target \in [Caller -> Name \union {None}]
  /\ todo \in [Caller -> SUBSET (Name \union Routine)]

LEMMA TypesSplit ==
  /\ TypeOK <=> WorkTypes /\ CallTypes
  /\ TypeOK' <=> WorkTypes' /\ CallTypes'
  BY Zenon DEF TypeOK, WorkTypes, CallTypes

\* A thread moves on to one of the positions.
LEMMA GoTypes ==
  ASSUME pc \in [Threads -> Positions], NEW t \in Threads, NEW a, NEW x \in Positions,
         Go(t, a, x)
  PROVE  pc' \in [Threads -> Positions]
  BY Zenon DEF Go

LEMMA InPositions ==
  \A x \in {"update", "skip", "resume", "release", "b_wait", "b_fetch", "b_handle",
            "b_rest", "loop", "lock", "scan", "wait", "done", "idle", "c_insert",
            "c_ask", "c_enqueue", "c_notify", "c_register", "r_next", "r_ask", "r_find",
            "r_drop", "s_ctx", "s_list", "s_join", "n_call", "n_find", "n_flag",
            "n_notify"} : x \in Positions
  BY Zenon DEF Positions, Holding, Body

LEMMA ProcessTypes ==
  ASSUME IInv, NEW p \in Processor, Process(p)
  PROVE  TypeOK'
  <1>0. /\ WorkTypes /\ CallTypes /\ p \in Threads
    BY TypesSplit, Kinds, Zenon DEF IInv
  <1>1. CallTypes'
    <2>1. UNCHANGED callerState
      BY Zenon DEF Process, NextRoutine, LockQueue, NextQueue, AcquireFails,
         Acquire,
         UpdateState, Resume, Release, Wait, WaitTimeout, SetDataWait, TryFetch,
         YieldReady, Sleep
    <2> QED BY <1>0, <2>1, Zenon DEF CallTypes, callerState, taskVars, stopVars,
               callVars, visitorVars
  <1>2. ASSUME NextRoutine(p) PROVE WorkTypes'
    BY <1>0, <1>2, InPositions, ClassicSchedulerConstants
       DEF WorkTypes, NextRoutine, Go, Prio, runVars
  <1>3. ASSUME LockQueue(p) PROVE WorkTypes'
    BY <1>0, <1>3, InPositions, Zenon DEF WorkTypes, CallTypes, LockQueue, Go,
       runVars
  <1>4. ASSUME NextQueue(p) PROVE WorkTypes'
    BY <1>0, <1>4, InPositions, ClassicSchedulerConstants
       DEF WorkTypes, NextQueue, Go, Prio, runVars
  <1>5. ASSUME AcquireFails(p) PROVE WorkTypes'
    <2>1. Tail(scan[p]) \in Seq(Routine)
      BY <1>0, <1>5, TailElements, Zenon DEF WorkTypes, AcquireFails
    <2> QED BY <1>0, <1>5, <2>1, InPositions, Zenon DEF WorkTypes, AcquireFails,
               Go, runVars
  <1>6. ASSUME Acquire(p) PROVE WorkTypes'
    <2>1. Head(scan[p]) \in Routine
      BY <1>0, <1>6 DEF WorkTypes, Acquire
    <2> QED BY <1>0, <1>6, <2>1, InPositions, Zenon DEF WorkTypes, Acquire, Go,
               scanVars
  <1>7. ASSUME UpdateState(p) PROVE WorkTypes'
    <2>1. scan[p] # << >> /\ scan[p] \in Seq(Routine) /\ cur[p] \in Routine
      BY <1>0, <1>7, Zenon DEF IInv, ProcessorsOK, ProcessorFine, WorkTypes,
         UpdateState, Go, Holding
    <2>2. Tail(scan[p]) \in Seq(Routine) /\ << >> \in Seq(Routine)
      BY <2>1, TailElements
    <2>3. PICK s, x, y, z :
            /\ scan' = [scan EXCEPT ![p] = s] /\ s \in {<< >>, Tail(scan[p])}
            /\ Go(p, "update", x) /\ x \in {"resume", "skip"}
            /\ state_' = [state_ EXCEPT ![cur[p]] = y] /\ y \in {"READY", state_[cur[p]]}
            /\ updated_' = [updated_ EXCEPT ![cur[p]] = z] /\ z \in BOOLEAN
      BY <1>7, Zenon DEF UpdateState
    <2>4. s \in Seq(Routine)
      BY <2>2, <2>3, Zenon
    <2>5. pc' \in [Threads -> Positions] /\ scan' \in [Processor -> Seq(Routine)]
      BY <1>0, <2>3, <2>4, InPositions, Zenon DEF WorkTypes, Go
    <2>6. state_' \in [Routine -> {"READY", "FINISHED", "SLEEP", "SLEPT", "DATA_WAIT"}]
      BY <1>0, <2>1, <2>3, Zenon DEF WorkTypes
    <2>7. updated_' \in [Routine -> BOOLEAN]
      BY <1>0, <2>3, Zenon DEF WorkTypes
    <2> QED BY <1>0, <1>7, <2>5, <2>6, <2>7, Zenon DEF WorkTypes, UpdateState
  <1>8. ASSUME Resume(p) PROVE WorkTypes'
    <2>1. cur[p] \in Routine
      BY <1>8, Zenon DEF IInv, ProcessorsOK, ProcessorFine, Resume, Go, Holding
    <2> QED BY <1>0, <1>8, <2>1, InPositions, Zenon DEF WorkTypes, Resume, Go,
               scanVars
  <1>9. ASSUME Release(p) PROVE WorkTypes'
    <2>1. pc' \in [Threads -> Positions] /\ cur' \in [Threads -> Routine \union {None}]
      BY <1>0, <1>9, InPositions, Zenon DEF WorkTypes, Release, Go
    <2>2. lock_' \in [Routine -> BOOLEAN]
      BY <1>0, <1>9, Zenon DEF WorkTypes, Release
    <2> QED BY <1>0, <1>9, <2>1, <2>2, Zenon DEF WorkTypes, Release, scanVars
  <1>10. ASSUME Wait(p) \/ WaitTimeout(p) PROVE WorkTypes'
    <2>1. pc' \in [Threads -> Positions]
      BY <1>0, <1>10, InPositions, Zenon DEF WorkTypes, Wait, WaitTimeout, Go
    <2>2. notify_grp_' \in 0 .. MaxNotify
      BY <1>0, <1>10, ClassicSchedulerConstants DEF WorkTypes, Wait, WaitTimeout
    <2> QED BY <1>0, <1>10, <2>1, <2>2, Zenon DEF WorkTypes, Wait, WaitTimeout,
               runVars, scanVars
  <1>11. ASSUME SetDataWait(p) PROVE WorkTypes'
    BY <1>0, <1>11, InPositions, Zenon DEF WorkTypes, SetDataWait, Go, scanVars
  <1>12. ASSUME TryFetch(p) PROVE WorkTypes'
    BY <1>0, <1>12, InPositions, Zenon DEF WorkTypes, TryFetch, Go, scanVars
  <1>13. ASSUME YieldReady(p) \/ Sleep(p) PROVE WorkTypes'
    <2>1. pc' \in [Threads -> Positions]
      BY <1>0, <1>13, InPositions, ZenonT(40) DEF WorkTypes, YieldReady, Sleep, Go
    <2>2. state_' \in [Routine -> {"READY", "FINISHED", "SLEEP", "SLEPT", "DATA_WAIT"}]
      BY <1>0, <1>13, Zenon DEF WorkTypes, YieldReady, Sleep
    <2>3. resumeAt' \in [Routine -> {"b_wait", "b_rest"}]
      BY <1>0, <1>13, Zenon DEF WorkTypes, YieldReady, Sleep
    <2> QED BY <1>0, <1>13, <2>1, <2>2, <2>3, ZenonT(40) DEF WorkTypes, YieldReady,
               Sleep, scanVars
  <1> QED BY <1>1, <1>2, <1>3, <1>4, <1>5, <1>6, <1>7, <1>8, <1>9, <1>10, <1>11,
             <1>12,
             <1>13, TypesSplit, Zenon DEF Process

LEMMA DeliverTypes ==
  ASSUME IInv, NEW w \in Notifier, Deliver(w) \/ \E n \in Name : Fill(w, n)
  PROVE  TypeOK'
  <1>0. WorkTypes /\ CallTypes /\ w \in Threads /\ w \in Caller
    BY TypesSplit, Kinds, Zenon DEF IInv
  <1>1. UNCHANGED schedulerState
    BY Zenon DEF Deliver, Fill, CallBack, NotifyReturn, NotifyFind,
       SetUpdateFlag, NotifyWake
  <1>s. UNCHANGED <<id_cr_, cr_group_, shutter, ctxStop, running_, scan, prio, lock_,
                    state_, resumeAt, force_stop_, created, registered>>
    BY <1>1, Zenon DEF schedulerState, taskVars, stopVars, scanVars
  <1>t. /\ target[w] \in Name \union {None} /\ todo[w] \subseteq Name \union Routine
        /\ \A n \in Name : id_cr_[n] \in Routine \union {None}
    BY <1>0, Zenon DEF CallTypes
  <1>2. ASSUME NEW n \in Name, Fill(w, n) PROVE TypeOK'
    <2>1. PICK rs : rs = {r \in created : nameOf[r] = n}
      BY Zenon
    <2>2. rs \subseteq Routine
      BY <2>1, <1>0, Zenon DEF CallTypes
    <2>3. WorkTypes'
      BY <1>0, <1>s, <1>2, InPositions, Zenon DEF WorkTypes, Fill, Go
    <2>4. CallTypes'
      BY <1>0, <1>s, <1>2, <2>1, <2>2, ClassicSchedulerConstants DEF CallTypes, Fill
    <2> QED BY <2>3, <2>4, TypesSplit, Zenon
  <1>3. ASSUME CallBack(w) PROVE TypeOK'
    <2>3. WorkTypes'
      BY <1>0, <1>s, <1>3, InPositions, ZenonT(40) DEF WorkTypes, CallBack, Go
    <2>4. CallTypes'
      BY <1>0, <1>s, <1>t, <1>3, ZenonT(40) DEF CallTypes, CallBack
    <2> QED BY <2>3, <2>4, TypesSplit, Zenon
  <1>4. ASSUME NotifyReturn(w) PROVE TypeOK'
    <2>3. WorkTypes'
      BY <1>0, <1>s, <1>4, InPositions, Zenon DEF WorkTypes, NotifyReturn,
         Return, Go
    <2>4. CallTypes'
      BY <1>0, <1>s, <1>4, Zenon DEF CallTypes, NotifyReturn, Return
    <2> QED BY <2>3, <2>4, TypesSplit, Zenon
  <1>5. ASSUME NotifyFind(w) PROVE TypeOK'
    <2>3. WorkTypes'
      BY <1>0, <1>s, <1>t, <1>5, InPositions, Zenon DEF WorkTypes, NotifyFind, Go
    <2>4. CallTypes'
      BY <1>0, <1>s, <1>5, Zenon DEF CallTypes, NotifyFind, callVars
    <2> QED BY <2>3, <2>4, TypesSplit, Zenon
  <1>6. ASSUME SetUpdateFlag(w) PROVE TypeOK'
    <2>3. WorkTypes'
      BY <1>0, <1>s, <1>6, InPositions, Zenon DEF WorkTypes, SetUpdateFlag, Go
    <2>4. CallTypes'
      BY <1>0, <1>s, <1>6, Zenon DEF CallTypes, SetUpdateFlag, callVars
    <2> QED BY <2>3, <2>4, TypesSplit, Zenon
  <1>7. ASSUME NotifyWake(w) PROVE TypeOK'
    <2>3. WorkTypes'
      BY <1>0, <1>s, <1>7, InPositions, ClassicSchedulerConstants
         DEF WorkTypes, NotifyWake, Notify, Go
    <2>4. CallTypes'
      BY <1>0, <1>s, <1>7, Zenon DEF CallTypes, NotifyWake, callVars
    <2> QED BY <2>3, <2>4, TypesSplit, Zenon
  <1> QED BY <1>2, <1>3, <1>4, <1>5, <1>6, <1>7, Zenon DEF Deliver

LEMMA ClientTypes ==
  ASSUME IInv, NEW c \in Client,
         \/ Operate(c) \/ Shutdown(c)
         \/ \E r \in Routine : CreateTask(c, r)
         \/ \E n \in Name : RemoveTask(c, n)
  PROVE  TypeOK'
  <1>0. /\ WorkTypes /\ CallTypes /\ c \in Threads /\ c \in Caller
        /\ ClientFine(c) /\ todo[c] \subseteq Name
    BY TypesSplit, Kinds, Zenon DEF IInv, CallersOK, ClientFine
  <1>1. UNCHANGED processorState
    BY Zenon DEF Operate, Shutdown, CreateTask, RemoveTask, DispatchInsert,
       AskQueue,
       DispatchEnqueue, DispatchNotify, RegisterNotifyCallback, RemoveErase, RemoveFind,
       RemoveDrop, RemoveReturn, ShutdownContexts, ShutdownList, StopProcessors,
       JoinProcessors
  <1>s. UNCHANGED <<scan, prio, state_, updated_, lock_, resumeAt, buffer, sent>>
    BY <1>1, Zenon DEF processorState, scanVars, runVars
  <1>w. ASSUME pc' \in [Threads -> Positions], cur' \in [Threads -> Routine \union {None}],
               notify_grp_' \in 0 .. MaxNotify, CallTypes'
        PROVE  TypeOK'
    BY <1>0, <1>s, <1>w, TypesSplit, Zenon DEF WorkTypes
  <1>c. ASSUME UNCHANGED taskVars, UNCHANGED stopVars, UNCHANGED force_stop_,
               created' \subseteq Routine, registered' \subseteq created',
               target' \in [Caller -> Name \union {None}],
               todo' \in [Caller -> SUBSET (Name \union Routine)]
        PROVE  CallTypes'
    BY <1>0, <1>s, <1>c, Zenon DEF CallTypes, taskVars, stopVars
  <1>2. ASSUME NEW r \in Routine, CreateTask(c, r) PROVE TypeOK'
    <2>1. pc' \in [Threads -> Positions] /\ cur' \in [Threads -> Routine \union {None}]
      BY <1>0, <1>2, InPositions, Zenon DEF WorkTypes, CreateTask, Go
    <2>2. target' \in [Caller -> Name \union {None}]
      BY <1>0, <1>2, Names, Zenon DEF CallTypes, CreateTask
    <2>3. /\ created' \subseteq Routine /\ registered' \subseteq created' /\ todo' = todo
          /\ UNCHANGED taskVars /\ UNCHANGED stopVars /\ UNCHANGED force_stop_
          /\ notify_grp_' = notify_grp_
      BY <1>0, <1>2, Zenon DEF CallTypes, CreateTask
    <2> QED BY <1>0, <1>w, <1>c, <2>1, <2>2, <2>3, Zenon DEF WorkTypes, CallTypes
  <1>3. ASSUME NEW n \in Name, RemoveTask(c, n) PROVE TypeOK'
    <2>1. pc' \in [Threads -> Positions] /\ cur' = cur
      BY <1>0, <1>3, InPositions, Zenon DEF WorkTypes, RemoveTask, Go
    <2>2. todo' \in [Caller -> SUBSET (Name \union Routine)]
      BY <1>0, <1>3, Zenon DEF CallTypes, RemoveTask
    <2>3. /\ created' = created /\ registered' = registered /\ target' = target
          /\ UNCHANGED taskVars /\ UNCHANGED stopVars /\ UNCHANGED force_stop_
          /\ notify_grp_' = notify_grp_
      BY <1>3, Zenon DEF RemoveTask
    <2> QED BY <1>0, <1>w, <1>c, <2>1, <2>2, <2>3, Zenon DEF WorkTypes, CallTypes
  <1>4. ASSUME DispatchInsert(c) PROVE TypeOK'
    <2>1. cur[c] \in Routine /\ target[c] \in Name
      BY <1>0, <1>4, Names, Zenon DEF ClientFine, Creating, DispatchInsert
    <2>2. pc' \in [Threads -> Positions] /\ cur' \in [Threads -> Routine \union {None}]
      BY <1>0, <1>4, InPositions, ZenonT(40) DEF WorkTypes, DispatchInsert, Return, Go
    <2>3. id_cr_' \in [Name -> Routine \union {None}]
      BY <1>0, <1>4, <2>1, Zenon DEF CallTypes, DispatchInsert
    <2>4. target' \in [Caller -> Name \union {None}]
      BY <1>0, <1>4, Zenon DEF CallTypes, DispatchInsert, Return
    <2> QED BY <1>0, <1>s, <1>w, <1>4, <2>2, <2>3, <2>4, Zenon
            DEF WorkTypes, CallTypes, DispatchInsert, stopVars
  <1>5. ASSUME AskQueue(c) PROVE TypeOK'
    <2>1. pc' \in [Threads -> Positions]
      BY <1>0, <1>5, InPositions, Zenon DEF WorkTypes, AskQueue, Go
    <2> QED BY <1>0, <1>w, <1>c, <1>5, <2>1, Zenon DEF WorkTypes, CallTypes,
               AskQueue, callVars
  <1>6. ASSUME DispatchEnqueue(c) PROVE TypeOK'
    <2>1. cur[c] \in Routine /\ target[c] \in Name
      BY <1>0, <1>6, Names, Zenon DEF ClientFine, Creating, DispatchEnqueue, Go
    <2>2. pc' \in [Threads -> Positions]
      BY <1>0, <1>6, InPositions, Zenon DEF WorkTypes, DispatchEnqueue, Go
    <2>3. cr_group_' \in [Prio -> Seq(Routine)]
      BY <1>0, <1>6, <2>1, Names DEF CallTypes, DispatchEnqueue
    <2> QED BY <1>0, <1>s, <1>w, <1>6, <2>2, <2>3, Zenon
            DEF WorkTypes, CallTypes, DispatchEnqueue, stopVars, callVars
  <1>7. ASSUME DispatchNotify(c) PROVE TypeOK'
    <2>1. pc' \in [Threads -> Positions] /\ notify_grp_' \in 0 .. MaxNotify
      BY <1>0, <1>7, InPositions, ClassicSchedulerConstants
         DEF WorkTypes, DispatchNotify, Notify, Go
    <2> QED BY <1>0, <1>w, <1>c, <1>7, <2>1, Zenon
            DEF WorkTypes, CallTypes, DispatchNotify, callVars
  <1>8. ASSUME RegisterNotifyCallback(c) PROVE TypeOK'
    <2>1. pc' \in [Threads -> Positions] /\ cur' \in [Threads -> Routine \union {None}]
      BY <1>0, <1>8, InPositions, Zenon DEF WorkTypes, RegisterNotifyCallback,
         Return, Go
    <2>2. target' \in [Caller -> Name \union {None}]
      BY <1>0, <1>8, Zenon DEF CallTypes, RegisterNotifyCallback, Return
    <2>3. cur[c] \in created
      BY <1>0, <1>8, Zenon DEF ClientFine, Creating, RegisterNotifyCallback,
         Return, Go
    <2>4. registered' \subseteq created' /\ created' = created
      BY <1>0, <1>8, <2>3, Zenon DEF CallTypes, RegisterNotifyCallback
    <2> QED BY <1>0, <1>w, <1>c, <1>8, <2>1, <2>2, <2>4, Zenon
            DEF WorkTypes, CallTypes, RegisterNotifyCallback
  <1>9. ASSUME RemoveErase(c) PROVE TypeOK'
    <2>1. PICK n \in todo[c] :
            /\ Go(c, "r_next", IF id_cr_[n] = None THEN "r_next" ELSE "r_ask")
            /\ force_stop_' = IF id_cr_[n] = None THEN force_stop_
                               ELSE [force_stop_ EXCEPT ![id_cr_[n]] = TRUE]
            /\ id_cr_' = [id_cr_ EXCEPT ![n] = None]
            /\ cur' = [cur EXCEPT ![c] = id_cr_[n]]
            /\ target' = [target EXCEPT ![c] = n]
            /\ todo' = [todo EXCEPT ![c] = @ \ {n}]
            /\ UNCHANGED <<cr_group_, stopVars, created, registered, notify_grp_>>
      BY <1>9, Zenon DEF RemoveErase
    <2>2. n \in Name /\ id_cr_[n] \in Routine \union {None}
      BY <1>0, Zenon DEF CallTypes
    <2>3. pc' \in [Threads -> Positions] /\ cur' \in [Threads -> Routine \union {None}]
      BY <1>0, <2>1, <2>2, InPositions, Zenon DEF WorkTypes, Go
    <2>4. target' \in [Caller -> Name \union {None}] /\ id_cr_' \in [Name -> Routine \union {None}]
      BY <1>0, <2>1, <2>2, Zenon DEF CallTypes
    <2>5. todo' \in [Caller -> SUBSET (Name \union Routine)]
      BY <1>0, <2>1, Zenon DEF CallTypes
    <2>6. force_stop_' \in [Routine -> BOOLEAN]
      BY <1>0, <2>1, <2>2, Zenon DEF CallTypes
    <2> QED BY <1>0, <1>s, <1>w, <2>1, <2>3, <2>4, <2>5, <2>6, Zenon
            DEF WorkTypes, CallTypes, stopVars
  <1>10. ASSUME RemoveFind(c) PROVE TypeOK'
    <2>1. PICK n, q, k : n = target[c] /\ q = cr_group_[prioOf[n]] /\ k = FirstPlace(q, n)
      BY Zenon
    <2>2. pc[c] = "r_find"
      BY <1>10, Zenon DEF RemoveFind
    <2>3. Places(q, n) # {} /\ q[k] \in Routine
      BY <2>1, <2>2, <1>0, TheirPlace DEF ClientFine, Removing
    <2>4. /\ Go(c, "r_find", "r_drop") /\ cur' = [cur EXCEPT ![c] = q[k]]
          /\ force_stop_' = [force_stop_ EXCEPT ![q[k]] = TRUE]
          /\ UNCHANGED <<taskVars, stopVars, created, registered, callVars, notify_grp_>>
      BY <1>10, <2>1, <2>3, Zenon DEF RemoveFind
    <2>5. pc' \in [Threads -> Positions] /\ cur' \in [Threads -> Routine \union {None}]
      BY <1>0, <2>3, <2>4, InPositions, Zenon DEF WorkTypes, Go
    <2>6. force_stop_' \in [Routine -> BOOLEAN]
      BY <1>0, <2>4, Zenon DEF CallTypes
    <2> QED BY <1>0, <1>s, <1>w, <2>4, <2>5, <2>6, Zenon
            DEF WorkTypes, CallTypes, taskVars, stopVars, callVars
  <1>11. ASSUME RemoveDrop(c) PROVE TypeOK'
    <2>1. PICK n, q, k : n = target[c] /\ q = cr_group_[prioOf[n]] /\ k = FirstPlace(q, n)
      BY Zenon
    <2>2. pc[c] = "r_drop"
      BY <1>11, Zenon DEF RemoveDrop, Go
    <2>3. q \in Seq(Routine) /\ k \in 1 .. Len(q)
      BY <2>1, <2>2, TheirPlace
    <2>4. Without(q, k) \in Seq(Routine)
      BY <2>3, Removal, Zenon
    <2>5. cr_group_' = [cr_group_ EXCEPT ![prioOf[n]] = Without(q, k)]
      BY <1>11, <2>1, Zenon DEF RemoveDrop, Erased
    <2>6. cr_group_' \in [Prio -> Seq(Routine)]
      BY <1>0, <2>4, <2>5, Zenon DEF CallTypes
    <2>7. pc' \in [Threads -> Positions]
      BY <1>0, <1>11, InPositions, Zenon DEF WorkTypes, RemoveDrop, Go
    <2> QED BY <1>0, <1>s, <1>w, <1>11, <2>6, <2>7, Zenon
            DEF WorkTypes, CallTypes, RemoveDrop, stopVars, callVars
  <1>12. ASSUME RemoveReturn(c) \/ JoinProcessors(c) PROVE TypeOK'
    <2>1. PICK a : Return(c, a)
      BY <1>12, Zenon DEF RemoveReturn, JoinProcessors
    <2>2. pc' \in [Threads -> Positions] /\ cur' \in [Threads -> Routine \union {None}]
      BY <1>0, <2>1, InPositions, Zenon DEF WorkTypes, Return, Go
    <2>3. target' \in [Caller -> Name \union {None}]
      BY <1>0, <2>1, Zenon DEF CallTypes, Return
    <2> QED BY <1>0, <1>w, <1>c, <1>12, <2>2, <2>3, Zenon
            DEF WorkTypes, CallTypes, RemoveReturn, JoinProcessors
  <1>13. ASSUME Shutdown(c) PROVE TypeOK'
    <2>1. pc' \in [Threads -> Positions]
      BY <1>0, <1>13, InPositions, Zenon DEF WorkTypes, Shutdown, Go
    <2> QED BY <1>0, <1>s, <1>w, <1>13, <2>1, Zenon
            DEF WorkTypes, CallTypes, Shutdown, taskVars, callVars
  <1>14. ASSUME ShutdownContexts(c) \/ StopProcessors(c) PROVE TypeOK'
    <2>0. pc' \in [Threads -> Positions]
      BY <1>0, <1>14, InPositions, Zenon DEF WorkTypes, ShutdownContexts,
         StopProcessors, Go
    <2>1. notify_grp_' \in 0 .. MaxNotify
      BY <1>14, ClassicSchedulerConstants DEF ShutdownContexts, StopProcessors
    <2>2. ctxStop' \in BOOLEAN /\ running_' \in BOOLEAN
      BY <1>0, <1>14, Zenon DEF CallTypes, ShutdownContexts, StopProcessors
    <2> QED BY <1>0, <1>s, <1>w, <1>14, <2>0, <2>1, <2>2, Zenon
            DEF WorkTypes, CallTypes, ShutdownContexts, StopProcessors, taskVars, callVars
  <1>15. ASSUME ShutdownList(c) PROVE TypeOK'
    <2>1. pc' \in [Threads -> Positions]
      BY <1>0, <1>15, InPositions, Zenon DEF WorkTypes, ShutdownList, Go
    <2>2. PICK S : todo' = [todo EXCEPT ![c] = S] /\ S \subseteq Name
      BY <1>15, Zenon DEF ShutdownList
    <2>3. todo' \in [Caller -> SUBSET (Name \union Routine)]
      BY <1>0, <2>2, Zenon DEF CallTypes
    <2> QED BY <1>0, <1>w, <1>c, <1>15, <2>1, <2>3, Zenon DEF WorkTypes,
               CallTypes, ShutdownList
  <1> QED BY <1>2, <1>3, <1>4, <1>5, <1>6, <1>7, <1>8, <1>9, <1>10, <1>11, <1>12,
             <1>13,
             <1>14, <1>15, Zenon DEF Operate

(* ----------------------------- Frame lemmas ----------------------------- *)

\* A processor's step disturbs no caller.
LEMMA ProcessorFrame ==
  ASSUME IInv, NEW p \in Processor,
         \A t \in Threads \ {p} : pc'[t] = pc[t] /\ cur'[t] = cur[t],
         UNCHANGED callerState, pc[p] # "done",
         \A r \in Routine : buffer'[r] = "unread" => buffer[r] = "unread",
         \A r \in Routine : InQueue(r) \/ state_'[r] = state_[r]
  PROVE  CallersOK' /\ TasksOK' /\ ShutterFine'
  <1>0. /\ \A t \in Client \union Notifier :
              pc'[t] = pc[t] /\ cur'[t] = cur[t]
        /\ target' = target /\ todo' = todo /\ id_cr_' = id_cr_
        /\ cr_group_' = cr_group_ /\ force_stop_' = force_stop_
        /\ created' = created /\ registered' = registered /\ shutter' = shutter
    BY Kinds, Zenon DEF callerState, taskVars, stopVars, callVars, visitorVars
  <1>q. \A r : InQueue(r)' <=> InQueue(r)
    BY <1>0, Zenon DEF InQueue
  <1>1. ASSUME NEW c \in Client PROVE ClientFine(c)'
    BY <1>0, CallersFine, Zenon DEF ClientFine
  <1>2. ASSUME NEW c \in Client PROVE MutexFine(c)'
    <2>1. MutexFine(c)
      BY CallersFine, Zenon
    <2>2. pc'[c] = pc[c] /\ cur'[c] = cur[c]
      BY <1>0, Zenon
    <2> QED BY <1>0, <1>q, <2>1, <2>2, Zenon DEF MutexFine
  <1>3. ASSUME NEW w \in Notifier PROVE NotifierFine(w)'
    BY <1>0, Zenon DEF IInv, CallersOK, NotifierFine
  <1>4. Exclusive'
    BY <1>0, Zenon DEF IInv, CallersOK, Exclusive
  <1>5. ASSUME NEW n \in Name PROVE IdFine(n)'
    BY <1>0, Zenon DEF IInv, TasksOK, IdFine
  <1>6. ASSUME NEW i \in Prio PROVE QueueFine(i)'
    <2>1. QueueFine(i)
      BY TasksFine, Zenon
    <2> QED BY <1>0, <2>1, Zenon DEF QueueFine
  <1>7. ASSUME NEW r \in Routine PROVE AgreeFine(r)'
    <2>1. MutexFree(nameOf[r])' <=> MutexFree(nameOf[r])
      BY <1>0, Zenon DEF MutexFree
    <2> QED BY <2>1, <1>0, <1>q, Zenon DEF IInv, TasksOK, AgreeFine
  <1>8. ASSUME NEW r \in Routine PROVE StoppedFine(r)'
    BY <1>0, <1>q, TasksFine, ZenonT(40) DEF StoppedFine
  <1>9. ASSUME NEW r \in Routine PROVE OutsideFine(r)'
    <2>1. Outside(r)' <=> Outside(r)
      BY <1>0, Zenon DEF Outside
    <2> QED BY <2>1, <1>0, <1>q, Zenon DEF IInv, TasksOK, OutsideFine
  <1>10. \A r \in Routine : buffer'[r] = "unread" => r \in registered'
    BY <1>0, Zenon DEF IInv, TasksOK
  <1>11. ShutterFine'
    BY <1>0, ClassicSchedulerConstants, Values, Zenon DEF IInv, ShutterFine
  <1> QED BY <1>1, <1>2, <1>3, <1>4, <1>5, <1>6, <1>7, <1>8, <1>9, <1>10, <1>11,
             Zenon
          DEF CallersOK, TasksOK

(* -------------------------- Steps of processors -------------------------- *)

\* How a step of processor p may change the state: of the routines only r, the
\* one it holds, and never so that r is left waiting for data it has not seen.
StepOf(p, r) ==
  /\ pc[p] # "done"
  /\ \A t \in Threads \ {p} : pc'[t] = pc[t] /\ cur'[t] = cur[t]
  /\ \A q \in Processor \ {p} : scan'[q] = scan[q] /\ prio'[q] = prio[q]
  /\ UNCHANGED callerState
  /\ \A x \in Routine \ {r} : /\ state_'[x] = state_[x]
                              /\ buffer'[x] = buffer[x]
                              /\ updated_'[x] = updated_[x]
  /\ r \in Routine => InQueue(r)
  /\ r \in Routine /\ buffer'[r] = "unread" => buffer[r] = "unread"
  /\ pc'[p] \in Reading =>
       /\ prio'[p] = prio[p]
       /\ pc[p] \in Reading \/ ~QueueWritten(prio[p])
  /\ pc[p] \in Body \/ pc'[p] \in Body => cur[p] = r /\ cur'[p] = r
  /\ r \in Routine /\ state_'[r] = "DATA_WAIT" /\ buffer'[r] = "unread"
       /\ pc'[p] \notin Body =>
       /\ state_[r] = "DATA_WAIT" /\ pc[p] \notin Body
       /\ updated_'[r] = updated_[r]

\* Such a step keeps the invariant, if it keeps what is said of p.
LEMMA StepKeeps ==
  ASSUME IInv, NEW p \in Processor, NEW r, StepOf(p, r), TypeOK', OneHolder',
         ProcessorFine(p)', ScanFine(p)'
  PROVE  IInv'
  <1>0. /\ target' = target /\ todo' = todo /\ id_cr_' = id_cr_
        /\ cr_group_' = cr_group_ /\ shutter' = shutter
    BY Zenon DEF StepOf, callerState, taskVars, callVars, stopVars
  <1>t. /\ \A c \in Client \union Notifier : pc'[c] = pc[c]
        /\ \A q \in Processor \ {p} : pc'[q] = pc[q] /\ cur'[q] = cur[q]
    BY Kinds, Zenon DEF StepOf
  <1>1. CallersOK' /\ TasksOK' /\ ShutterFine'
    <2>1. \A x \in Routine : buffer'[x] = "unread" => buffer[x] = "unread"
      BY Zenon DEF StepOf
    <2>2. \A x \in Routine : InQueue(x) \/ state_'[x] = state_[x]
      BY Zenon DEF StepOf
    <2> QED BY <2>1, <2>2, ProcessorFrame, Zenon DEF StepOf
  <1>2. ProcessorsOK'
    <2> SUFFICES ASSUME NEW q \in Processor, q # p
                 PROVE  ProcessorFine(q)' /\ ScanFine(q)'
      BY Zenon DEF ProcessorsOK
    <2>1. scan'[q] = scan[q] /\ prio'[q] = prio[q]
      BY Zenon DEF StepOf
    <2>2. \A x : InQueue(x)' <=> InQueue(x)
      BY <1>0, Zenon DEF InQueue
    <2>3. ProcessorFine(q)'
      BY <1>t, <2>1, <2>2, Zenon DEF IInv, ProcessorsOK, ProcessorFine
    <2>4. ScanFine(q)'
      BY <1>t, <2>1, ProcessorsFine, ZenonT(40) DEF ScanFine
    <2> QED BY <2>3, <2>4, Zenon
  <1>3. LocksOK'
    <2> SUFFICES ASSUME NEW c \in Client, NEW q \in Processor,
                        pc[c] = "r_drop", pc'[q] \in Reading
                 PROVE  prioOf[target[c]] # prio'[q]
      BY <1>0, <1>t, SMTT(30) DEF LocksOK
    <2>1. CASE q = p
      BY <2>1, Zenon DEF StepOf, IInv, LocksOK, QueueWritten
    <2>2. CASE q # p
      BY <2>2, <1>t, Zenon DEF StepOf, IInv, LocksOK
    <2> QED BY <2>1, <2>2, Zenon
  <1>4. WaitingIsFlagged'
    <2> SUFFICES ASSUME NEW n \in Name, NEW x, x = id_cr_[n],
                        x # None, ~stop_, state_'[x] = "DATA_WAIT",
                        buffer'[x] = "unread",
                        \A q \in Processor : pc'[q] \in Body => cur'[q] # x
                 PROVE  \/ ~updated_'[x]
                        \/ \E w \in Notifier :
                             /\ target[w] = n
                             /\ \/ pc[w] = "n_call" /\ x \in todo[w]
                                \/ pc[w] \in {"n_find", "n_flag"}
      BY <1>0, <1>t, SMTT(30) DEF WaitingIsFlagged, stop_
    <2>1. x \in Routine
      BY Values, Zenon
    <2>2. /\ state_[x] = "DATA_WAIT" /\ buffer[x] = "unread"
          /\ updated_'[x] = updated_[x]
          /\ pc[p] \in Body => cur[p] # x
      <3>1. CASE x = r
        BY <2>1, <3>1, Zenon DEF StepOf
      <3>2. CASE x # r
        BY <2>1, <3>2, Zenon DEF StepOf
      <3> QED BY <3>1, <3>2, Zenon
    <2>3. \A q \in Processor : pc[q] \in Body => cur[q] # x
      BY <2>2, <1>t, Zenon
    <2> QED BY <2>2, <2>3, Zenon DEF IInv, WaitingIsFlagged
  <1> QED BY <1>1, <1>2, <1>3, <1>4, Zenon DEF IInv

\* A step within or outside of Acquire and Release.
LEMMA HoldersFrame ==
  ASSUME IInv, NEW p \in Processor, lock_' = lock_,
         \A t \in Threads \ {p} : pc'[t] = pc[t] /\ cur'[t] = cur[t],
         pc'[p] \in Holding <=> pc[p] \in Holding,
         cur'[p] = cur[p]
  PROVE  OneHolder'
  <1>1. \A q \in Processor : /\ pc'[q] \in Holding <=> pc[q] \in Holding
                             /\ cur'[q] = cur[q]
    BY Kinds, Zenon
  <1> QED BY <1>1, SMTT(30) DEF IInv, OneHolder

\* The routines of a run queue.
LEMMA QueueElements ==
  ASSUME IInv, NEW i \in Prio
  PROVE  \A k \in 1 .. Len(cr_group_[i]) :
           /\ cr_group_[i][k] \in Routine
           /\ prioOf[nameOf[cr_group_[i][k]]] = i
           /\ InQueue(cr_group_[i][k])
  <1>1. cr_group_[i] \in Seq(Routine)
    BY Values, Zenon
  <1> SUFFICES ASSUME NEW k \in 1 .. Len(cr_group_[i])
               PROVE  /\ cr_group_[i][k] \in Routine
                      /\ prioOf[nameOf[cr_group_[i][k]]] = i
                      /\ InQueue(cr_group_[i][k])
    BY Zenon
  <1>2. cr_group_[i][k] \in Routine
    BY <1>1
  <1>3. prioOf[nameOf[cr_group_[i][k]]] = i
    BY Zenon DEF IInv, TasksOK, QueueFine
  <1>4. DOMAIN cr_group_[i] = 1 .. Len(cr_group_[i])
    BY <1>1
  <1>5. InQueue(cr_group_[i][k])
    BY <1>3, <1>4, Zenon DEF InQueue, Range
  <1> QED BY <1>2, <1>3, <1>5, Zenon

\* ClassicContext::NextRoutine begins, or the processor stops.
LEMMA NextRoutineKeeps ==
  ASSUME IInv, TypeOK', NEW p \in Processor, NextRoutine(p)
  PROVE  IInv'
  <1>1. /\ pc[p] = "loop" /\ pc'[p] \in {"done", "wait", "lock"}
        /\ \A t \in Threads \ {p} : pc'[t] = pc[t]
        /\ cur' = cur /\ lock_' = lock_
    BY Kinds, GoPlaces, Zenon DEF NextRoutine, runVars
  <1>3. OneHolder'
    BY <1>1, HoldersFrame, Zenon DEF Holding, Body
  <1>4. ProcessorFine(p)' /\ ScanFine(p)'
    BY <1>1, Zenon DEF ProcessorFine, ScanFine, Holding, Body, Reading
  <1>5. StepOf(p, None)
    BY <1>1, ClassicSchedulerConstants, Domains, Zenon DEF StepOf, NextRoutine,
       Reading, Body,
       runVars, scanVars
  <1> QED BY <1>3, <1>4, <1>5, StepKeeps, Zenon

\* It takes the read lock of the next queue.
LEMMA LockQueueKeeps ==
  ASSUME IInv, TypeOK', NEW p \in Processor, LockQueue(p)
  PROVE  IInv'
  <1>1. /\ pc[p] = "lock" /\ pc'[p] = "scan"
        /\ \A t \in Threads \ {p} : pc'[t] = pc[t]
        /\ cur' = cur /\ lock_' = lock_
    BY Kinds, GoPlaces, Zenon DEF LockQueue, runVars
  <1>3. OneHolder'
    BY <1>1, HoldersFrame, Zenon DEF Holding, Body
  <1>4. ProcessorFine(p)' /\ ScanFine(p)'
    <2>1. /\ scan'[p] = cr_group_[prio[p]] /\ prio'[p] = prio[p]
          /\ prio[p] \in Prio /\ cr_group_' = cr_group_
          /\ cr_group_[prio[p]] \in Seq(Routine)
      BY Domains, Values, Zenon DEF LockQueue, callerState, taskVars
    <2>2. \A k \in 1 .. Len(scan'[p]) :
             /\ prioOf[nameOf[scan'[p][k]]] = prio'[p]
             /\ InQueue(scan'[p][k])
      BY <2>1, QueueElements
    <2>3. ProcessorFine(p)'
      BY <1>1, <2>1, <2>2, Zenon DEF ProcessorFine, InQueue, Holding, Body
    <2>4. ScanFine(p)'
      BY <2>2, Zenon DEF ScanFine
    <2> QED BY <2>3, <2>4, Zenon
  <1>5. StepOf(p, None)
    BY <1>1, ClassicSchedulerConstants, Domains, Zenon DEF StepOf, LockQueue,
       Reading, Body,
       runVars, scanVars
  <1> QED BY <1>3, <1>4, <1>5, StepKeeps, Zenon

\* It has found nothing in a queue.
LEMMA NextQueueKeeps ==
  ASSUME IInv, TypeOK', NEW p \in Processor, NextQueue(p)
  PROVE  IInv'
  <1>1. /\ pc[p] = "scan" /\ pc'[p] \in {"wait", "lock"}
        /\ \A t \in Threads \ {p} : pc'[t] = pc[t]
        /\ cur' = cur /\ lock_' = lock_
    BY Kinds, GoPlaces, Zenon DEF NextQueue, runVars
  <1>3. OneHolder'
    BY <1>1, HoldersFrame, Zenon DEF Holding, Body
  <1>4. ProcessorFine(p)' /\ ScanFine(p)'
    BY <1>1, Zenon DEF ProcessorFine, ScanFine, Holding, Body, Reading
  <1>5. StepOf(p, None)
    BY <1>1, ClassicSchedulerConstants, Domains, Zenon DEF StepOf, NextQueue,
       Reading, Body,
       runVars, scanVars
  <1> QED BY <1>3, <1>4, <1>5, StepKeeps, Zenon

\* It skips a routine that another processor holds.
LEMMA AcquireFailsKeeps ==
  ASSUME IInv, TypeOK', NEW p \in Processor, AcquireFails(p)
  PROVE  IInv'
  <1>1. /\ pc[p] = "scan" /\ pc'[p] = "scan"
        /\ \A t \in Threads \ {p} : pc'[t] = pc[t]
        /\ cur' = cur /\ lock_' = lock_
    BY Kinds, GoPlaces, Zenon DEF AcquireFails, runVars
  <1>3. OneHolder'
    BY <1>1, HoldersFrame, Zenon DEF Holding, Body
  <1>4. ProcessorFine(p)' /\ ScanFine(p)'
    <2>1. /\ scan[p] # << >> /\ scan[p] \in Seq(Routine)
          /\ scan'[p] = Tail(scan[p]) /\ prio' = prio /\ cr_group_' = cr_group_
      BY Domains, Values, Zenon DEF AcquireFails, callerState, taskVars
    <2>2. \A k \in 1 .. Len(scan[p]) :
             prioOf[nameOf[scan[p][k]]] = prio[p] /\ InQueue(scan[p][k])
      BY <1>1, Zenon DEF IInv, ProcessorsOK, ProcessorFine, ScanFine, Reading
    <2>3. \A k \in 1 .. Len(scan'[p]) :
             prioOf[nameOf[scan'[p][k]]] = prio'[p] /\ InQueue(scan'[p][k])
      BY <2>1, <2>2, TailElements
    <2>4. ProcessorFine(p)'
      BY <1>1, <2>1, <2>3, Zenon DEF ProcessorFine, InQueue, Holding, Body
    <2>5. ScanFine(p)'
      BY <2>3, Zenon DEF ScanFine
    <2> QED BY <2>4, <2>5, Zenon
  <1>5. StepOf(p, None)
    BY <1>1, ClassicSchedulerConstants, Domains, Zenon DEF StepOf, AcquireFails,
       Reading,
       Body, runVars, scanVars
  <1> QED BY <1>3, <1>4, <1>5, StepKeeps, Zenon

\* ClassicContext::Wait takes a token.
LEMMA WaitKeeps ==
  ASSUME IInv, TypeOK', NEW p \in Processor, Wait(p)
  PROVE  IInv'
  <1>1. /\ pc[p] = "wait" /\ pc'[p] = "loop"
        /\ \A t \in Threads \ {p} : pc'[t] = pc[t]
        /\ cur' = cur /\ lock_' = lock_
    BY Kinds, GoPlaces, Zenon DEF Wait, runVars
  <1>3. OneHolder'
    BY <1>1, HoldersFrame, Zenon DEF Holding, Body
  <1>4. ProcessorFine(p)' /\ ScanFine(p)'
    BY <1>1, Zenon DEF ProcessorFine, ScanFine, Holding, Body, Reading
  <1>5. StepOf(p, None)
    BY <1>1, ClassicSchedulerConstants, Domains, Zenon DEF StepOf, Wait, Reading,
       Body,
       runVars, scanVars
  <1> QED BY <1>3, <1>4, <1>5, StepKeeps, Zenon

\* ClassicContext::Wait times out.
LEMMA WaitTimeoutKeeps ==
  ASSUME IInv, TypeOK', NEW p \in Processor, WaitTimeout(p)
  PROVE  IInv'
  <1>1. /\ pc[p] = "wait" /\ pc'[p] = "loop"
        /\ \A t \in Threads \ {p} : pc'[t] = pc[t]
        /\ cur' = cur /\ lock_' = lock_
    BY Kinds, GoPlaces, Zenon DEF WaitTimeout, runVars
  <1>3. OneHolder'
    BY <1>1, HoldersFrame, Zenon DEF Holding, Body
  <1>4. ProcessorFine(p)' /\ ScanFine(p)'
    BY <1>1, Zenon DEF ProcessorFine, ScanFine, Holding, Body, Reading
  <1>5. StepOf(p, None)
    BY <1>1, ClassicSchedulerConstants, Domains, Zenon DEF StepOf, WaitTimeout,
       Reading, Body,
       runVars, scanVars
  <1> QED BY <1>3, <1>4, <1>5, StepKeeps, Zenon

\* CRoutine::UpdateState of the routine acquired.
LEMMA UpdateStateKeeps ==
  ASSUME IInv, TypeOK', NEW p \in Processor, UpdateState(p)
  PROVE  IInv'
  <1>r. PICK r : r = cur[p]
    BY Zenon
  <1>1. /\ pc[p] = "update"
        /\ pc'[p] \in {"resume", "skip"}
        /\ \A t \in Threads \ {p} : pc'[t] = pc[t]
        /\ cur' = cur /\ lock_' = lock_
    BY Kinds, GoPlaces, Zenon DEF UpdateState
  <1>2. r \in Routine /\ InQueue(r)
    BY <1>1, <1>r, Zenon DEF IInv, ProcessorsOK, ProcessorFine, Holding, Body
  <1>4. OneHolder'
    BY <1>1, HoldersFrame, Zenon DEF Holding, Body
  <1>5. ProcessorFine(p)' /\ ScanFine(p)'
    <2>1. /\ scan[p] # << >> /\ scan[p] \in Seq(Routine)
          /\ scan'[p] = << >> \/ scan'[p] = Tail(scan[p])
          /\ prio' = prio /\ cr_group_' = cr_group_
      <3>1. scan[p] # << >> /\ scan[p] \in Seq(Routine)
        BY <1>1, Values, Zenon DEF IInv, ProcessorsOK, ProcessorFine
      <3>2. scan'[p] = << >> \/ scan'[p] = Tail(scan[p])
        BY Domains, Zenon DEF UpdateState
      <3>3. prio' = prio /\ cr_group_' = cr_group_
        BY Zenon DEF UpdateState, callerState, taskVars
      <3> QED BY <3>1, <3>2, <3>3, Zenon
    <2>2. \A k \in 1 .. Len(scan[p]) :
             prioOf[nameOf[scan[p][k]]] = prio[p] /\ InQueue(scan[p][k])
      BY <1>1, Zenon DEF IInv, ProcessorsOK, ProcessorFine, ScanFine, Reading
    <2>3. \A k \in 1 .. Len(scan'[p]) :
             prioOf[nameOf[scan'[p][k]]] = prio'[p] /\ InQueue(scan'[p][k])
      <3>1. CASE scan'[p] = << >>
        BY <3>1
      <3>2. CASE scan'[p] = Tail(scan[p])
        BY <2>1, <2>2, <3>2, TailElements
      <3> QED BY <2>1, <3>1, <3>2, Zenon
    <2>4. ProcessorFine(p)'
      BY <1>1, <1>2, <1>r, <2>1, <2>3, Zenon DEF ProcessorFine, InQueue, Holding,
         Body
    <2>5. ScanFine(p)'
      BY <2>3, Zenon DEF ScanFine
    <2> QED BY <2>4, <2>5, Zenon
  <1>6. StepOf(p, r)
    BY <1>1, <1>2, <1>r, Domains, Zenon DEF StepOf, UpdateState, Reading, Body,
       runVars,
       scanVars
  <1> QED BY <1>4, <1>5, <1>6, StepKeeps, Zenon

\* CRoutine::Resume enters the routine where it yielded.
LEMMA ResumeKeeps ==
  ASSUME IInv, TypeOK', NEW p \in Processor, Resume(p)
  PROVE  IInv'
  <1>r. PICK r : r = cur[p]
    BY Zenon
  <1>1. /\ pc[p] = "resume"
        /\ pc'[p] \in {"release", "b_wait", "b_rest"}
        /\ \A t \in Threads \ {p} : pc'[t] = pc[t]
        /\ cur' = cur /\ lock_' = lock_
    <2>1. PICK x : pc' = [pc EXCEPT ![p] = x]
      BY Zenon DEF Resume, Go
    <2>2. \A t \in Threads \ {p} : pc'[t] = pc[t]
      BY <2>1, Kinds, Moved, Zenon DEF IInv
    <2>3. pc[p] = "resume" /\ cur' = cur /\ lock_' = lock_
      BY Zenon DEF Resume, Go
    <2>4. cur[p] \in Routine
      BY <2>3, Zenon DEF IInv, ProcessorsOK, ProcessorFine, Holding
    <2>5. resumeAt[cur[p]] \in {"b_wait", "b_rest"}
      BY <2>4, Values, Zenon
    <2>6. pc'[p] \in {"release", "b_wait", "b_rest"}
      BY <2>5, Kinds, Values, GoPlaces DEF Resume
    <2> QED BY <2>2, <2>3, <2>6, Zenon
  <1>2. r \in Routine /\ InQueue(r)
    BY <1>1, <1>r, Zenon DEF IInv, ProcessorsOK, ProcessorFine, Holding, Body
  <1>4. OneHolder'
    BY <1>1, HoldersFrame, SMTT(30) DEF Holding, Body
  <1>5. ProcessorFine(p)' /\ ScanFine(p)'
    BY <1>1, <1>2, <1>r, Zenon DEF ProcessorFine, ScanFine, Holding, Body, Reading,
       InQueue, Resume, callerState, taskVars
  <1>6. StepOf(p, r)
    BY <1>1, <1>2, <1>r, Domains, Zenon DEF StepOf, Resume, Reading, Body,
       runVars, scanVars
  <1> QED BY <1>4, <1>5, <1>6, StepKeeps, Zenon

\* The routine of a reader sets DATA_WAIT before it looks for data.
LEMMA SetDataWaitKeeps ==
  ASSUME IInv, TypeOK', NEW p \in Processor, SetDataWait(p)
  PROVE  IInv'
  <1>r. PICK r : r = cur[p]
    BY Zenon
  <1>1. /\ pc[p] = "b_wait"
        /\ pc'[p] = "b_fetch"
        /\ \A t \in Threads \ {p} : pc'[t] = pc[t]
        /\ cur' = cur /\ lock_' = lock_
    BY Kinds, GoPlaces, Zenon DEF SetDataWait
  <1>2. r \in Routine /\ InQueue(r)
    BY <1>1, <1>r, Zenon DEF IInv, ProcessorsOK, ProcessorFine, Holding, Body
  <1>4. OneHolder'
    BY <1>1, HoldersFrame, SMTT(30) DEF Holding, Body
  <1>5. ProcessorFine(p)' /\ ScanFine(p)'
    BY <1>1, <1>2, <1>r, Zenon DEF ProcessorFine, ScanFine, Holding, Body, Reading,
       InQueue, SetDataWait, callerState, taskVars
  <1>6. StepOf(p, r)
    BY <1>1, <1>2, <1>r, Domains, Zenon DEF StepOf, SetDataWait, Reading, Body,
       runVars,
       scanVars
  <1> QED BY <1>4, <1>5, <1>6, StepKeeps, Zenon

\* It looks for data: the one place that consumes a message.
LEMMA TryFetchKeeps ==
  ASSUME IInv, TypeOK', NEW p \in Processor, TryFetch(p)
  PROVE  IInv'
  <1>r. PICK r : r = cur[p]
    BY Zenon
  <1>1. /\ pc[p] = "b_fetch"
        /\ pc'[p] \in {"release", "b_handle"}
        /\ \A t \in Threads \ {p} : pc'[t] = pc[t]
        /\ cur' = cur /\ lock_' = lock_
    BY Kinds, GoPlaces, Zenon DEF TryFetch
  <1>2. r \in Routine /\ InQueue(r)
    BY <1>1, <1>r, Zenon DEF IInv, ProcessorsOK, ProcessorFine, Holding, Body
  <1>4. OneHolder'
    BY <1>1, HoldersFrame, Zenon DEF Holding, Body
  <1>5. ProcessorFine(p)' /\ ScanFine(p)'
    BY <1>1, <1>2, <1>r, Zenon DEF ProcessorFine, ScanFine, Holding, Body, Reading,
       InQueue, TryFetch, callerState, taskVars
  <1>6. StepOf(p, r)
    BY <1>1, <1>2, <1>r, Domains, Zenon DEF StepOf, TryFetch, Reading, Body,
       runVars, scanVars
  <1> QED BY <1>4, <1>5, <1>6, StepKeeps, Zenon

\* It has handled a message and yields READY.
LEMMA YieldReadyKeeps ==
  ASSUME IInv, TypeOK', NEW p \in Processor, YieldReady(p)
  PROVE  IInv'
  <1>r. PICK r : r = cur[p]
    BY Zenon
  <1>1. /\ pc[p] \in {"b_handle", "b_rest"}
        /\ pc'[p] = "release"
        /\ \A t \in Threads \ {p} : pc'[t] = pc[t]
        /\ cur' = cur /\ lock_' = lock_
    BY Kinds, GoPlaces, Zenon DEF YieldReady
  <1>2. r \in Routine /\ InQueue(r)
    BY <1>1, <1>r, Zenon DEF IInv, ProcessorsOK, ProcessorFine, Holding, Body
  <1>4. OneHolder'
    BY <1>1, HoldersFrame, Zenon DEF Holding, Body
  <1>5. ProcessorFine(p)' /\ ScanFine(p)'
    BY <1>1, <1>2, <1>r, Zenon DEF ProcessorFine, ScanFine, Holding, Body, Reading,
       InQueue, YieldReady, callerState, taskVars
  <1>6. StepOf(p, r)
    BY <1>1, <1>2, <1>r, Domains, Zenon DEF StepOf, YieldReady, Reading, Body,
       runVars,
       scanVars
  <1> QED BY <1>4, <1>5, <1>6, StepKeeps, Zenon

\* It sleeps.
LEMMA SleepKeeps ==
  ASSUME IInv, TypeOK', NEW p \in Processor, Sleep(p)
  PROVE  IInv'
  <1>r. PICK r : r = cur[p]
    BY Zenon
  <1>1. /\ pc[p] = "b_handle"
        /\ pc'[p] = "release"
        /\ \A t \in Threads \ {p} : pc'[t] = pc[t]
        /\ cur' = cur /\ lock_' = lock_
    BY Kinds, GoPlaces, Zenon DEF Sleep
  <1>2. r \in Routine /\ InQueue(r)
    BY <1>1, <1>r, Zenon DEF IInv, ProcessorsOK, ProcessorFine, Holding, Body
  <1>4. OneHolder'
    BY <1>1, HoldersFrame, Zenon DEF Holding, Body
  <1>5. ProcessorFine(p)' /\ ScanFine(p)'
    BY <1>1, <1>2, <1>r, Zenon DEF ProcessorFine, ScanFine, Holding, Body, Reading,
       InQueue, Sleep, callerState, taskVars
  <1>6. StepOf(p, r)
    BY <1>1, <1>2, <1>r, Domains, SMTT(30) DEF StepOf, Sleep, Reading, Body,
       runVars, scanVars
  <1> QED BY <1>4, <1>5, <1>6, StepKeeps, Zenon

\* CRoutine::Acquire succeeds: nobody else holds the routine.
LEMMA AcquireKeeps ==
  ASSUME IInv, TypeOK', NEW p \in Processor, Acquire(p)
  PROVE  IInv'
  <1>0. scan[p] # << >> /\ scan[p] \in Seq(Routine) /\ pc[p] = "scan"
    BY Values, Kinds, GoPlaces, Zenon DEF Acquire
  <1>r. PICK r : r = Head(scan[p])
    BY Zenon
  <1>1. r = scan[p][1] /\ 1 \in 1 .. Len(scan[p]) /\ r \in Routine
    BY <1>0, <1>r
  <1>2. InQueue(r)
    BY <1>0, <1>1, Zenon DEF IInv, ProcessorsOK, ProcessorFine, Reading
  <1>3. /\ pc'[p] = "update" /\ cur'[p] = r
        /\ \A t \in Threads \ {p} : pc'[t] = pc[t] /\ cur'[t] = cur[t]
        /\ ~lock_[r] /\ lock_'[r] /\ \A x \in Routine \ {r} : lock_'[x] = lock_[x]
    BY <1>1, <1>r, Kinds, Domains, GoPlaces, ZenonT(40) DEF Acquire
  <1>5. OneHolder'
    <2>1. \A q \in Processor \ {p} : /\ pc'[q] = pc[q] /\ cur'[q] = cur[q]
                                     /\ pc[q] \in Holding => cur[q] # r
      BY <1>1, <1>3, Kinds, SMTT(30) DEF IInv, OneHolder
    <2>2. pc[p] \notin Holding /\ pc'[p] \in Holding
      BY <1>0, <1>3, Zenon DEF Holding, Body
    <2>3. ASSUME NEW x \in Routine
          PROVE  lock_'[x] <=> \E q \in Processor : pc'[q] \in Holding /\ cur'[q] = x
      <3>1. CASE x = r
        BY <3>1, <1>3, <2>2, Zenon
      <3>2. CASE x # r
        <4>1. lock_[x] <=> \E q \in Processor : pc[q] \in Holding /\ cur[q] = x
          BY Zenon DEF IInv, OneHolder
        <4> QED BY <3>2, <4>1, <1>3, <2>1, <2>2, Zenon
      <3> QED BY <3>1, <3>2, Zenon
    <2>4. \A q, s \in Processor :
            pc'[q] \in Holding /\ pc'[s] \in Holding /\ cur'[q] = cur'[s] => q = s
      BY <1>3, <2>1, <2>2, SMTT(30) DEF IInv, OneHolder
    <2> QED BY <2>3, <2>4, Zenon DEF OneHolder
  <1>6. ProcessorFine(p)' /\ ScanFine(p)'
    <2>1. scan' = scan /\ prio' = prio /\ cr_group_' = cr_group_
      BY SMTT(30) DEF Acquire, scanVars, callerState, taskVars
    <2>2. \A k \in 1 .. Len(scan[p]) :
             prioOf[nameOf[scan[p][k]]] = prio[p] /\ InQueue(scan[p][k])
      BY <1>0, SMTT(30) DEF IInv, ProcessorsOK, ProcessorFine, ScanFine, Reading
    <2>3. ProcessorFine(p)'
      BY <1>0, <1>1, <1>2, <1>3, <2>1, <2>2, Zenon DEF ProcessorFine, InQueue,
         Holding
    <2>4. ScanFine(p)'
      BY <2>1, <2>2, SMTT(30) DEF ScanFine
    <2> QED BY <2>3, <2>4, Zenon
  <1>7. StepOf(p, None)
    BY <1>0, <1>3, ClassicSchedulerConstants, Domains, Zenon DEF StepOf, Acquire,
       Reading,
       Body, runVars, scanVars
  <1> QED BY <1>5, <1>6, <1>7, StepKeeps, Zenon

\* CRoutine::Release.
LEMMA ReleaseKeeps ==
  ASSUME IInv, TypeOK', NEW p \in Processor, Release(p)
  PROVE  IInv'
  <1>r. PICK r : r = cur[p]
    BY Zenon
  <1>0. \/ pc[p] = "skip" /\ pc'[p] = "scan"
        \/ pc[p] = "release" /\ pc'[p] = "loop"
    BY Kinds, Domains, GoPlaces, Zenon DEF Release
  <1>1. r \in Routine /\ InQueue(r)
    BY <1>0, <1>r, Zenon DEF IInv, ProcessorsOK, ProcessorFine, Holding
  <1>3. /\ \A t \in Threads \ {p} : pc'[t] = pc[t] /\ cur'[t] = cur[t]
        /\ ~lock_'[r] /\ \A x \in Routine \ {r} : lock_'[x] = lock_[x]
    BY <1>1, <1>r, Kinds, Domains, GoPlaces, Zenon DEF Release
  <1>5. OneHolder'
    <2>1. pc[p] \in Holding /\ pc'[p] \notin Holding
      BY <1>0, Zenon DEF Holding, Body
    <2>2. \A q \in Processor \ {p} : /\ pc'[q] = pc[q] /\ cur'[q] = cur[q]
                                     /\ pc[q] \in Holding => cur[q] # r
      BY <1>r, <1>3, <2>1, Kinds, Zenon DEF IInv, OneHolder
    <2>3. ASSUME NEW x \in Routine
          PROVE  lock_'[x] <=> \E q \in Processor : pc'[q] \in Holding /\ cur'[q] = x
      <3>1. CASE x = r
        BY <3>1, <1>3, <2>1, <2>2, Zenon
      <3>2. CASE x # r
        <4>1. lock_[x] <=> \E q \in Processor : pc[q] \in Holding /\ cur[q] = x
          BY Zenon DEF IInv, OneHolder
        <4> QED BY <3>2, <4>1, <1>3, <1>r, <2>1, <2>2, Zenon
      <3> QED BY <3>1, <3>2, Zenon
    <2>4. \A q, s \in Processor :
            pc'[q] \in Holding /\ pc'[s] \in Holding /\ cur'[q] = cur'[s] => q = s
      BY <2>1, <2>2, SMTT(30) DEF IInv, OneHolder
    <2> QED BY <2>3, <2>4, Zenon DEF OneHolder
  <1>6. ProcessorFine(p)' /\ ScanFine(p)'
    <2>1. scan' = scan /\ prio' = prio /\ cr_group_' = cr_group_
      BY SMTT(30) DEF Release, scanVars, callerState, taskVars
    <2>2. pc[p] = "skip" => \A k \in 1 .. Len(scan[p]) :
             prioOf[nameOf[scan[p][k]]] = prio[p] /\ InQueue(scan[p][k])
      BY SMTT(30) DEF IInv, ProcessorsOK, ProcessorFine, ScanFine, Reading
    <2>3. ProcessorFine(p)'
      BY <1>0, <2>1, <2>2, Zenon DEF ProcessorFine, InQueue, Holding, Body, Reading
    <2>4. ScanFine(p)'
      BY <1>0, <2>1, <2>2, SMTT(30) DEF ScanFine, Reading
    <2> QED BY <2>3, <2>4, Zenon
  <1>7. StepOf(p, None)
    BY <1>0, <1>3, ClassicSchedulerConstants, Domains, Zenon DEF StepOf, Release,
       Reading,
       Body, runVars, scanVars
  <1> QED BY <1>5, <1>6, <1>7, StepKeeps, Zenon

\* Every step of a processor.
LEMMA ProcessKeeps ==
  ASSUME IInv, TypeOK', NEW p \in Processor, Process(p)
  PROVE  IInv'
  BY NextRoutineKeeps, LockQueueKeeps, NextQueueKeeps, AcquireFailsKeeps,
     AcquireKeeps, UpdateStateKeeps, ResumeKeeps, ReleaseKeeps, WaitKeeps,
     WaitTimeoutKeeps, SetDataWaitKeeps, TryFetchKeeps, YieldReadyKeeps, SleepKeeps, Zenon
     DEF Process

\* The wake time of a sleeping routine passes.
LEMMA SleepOverKeeps ==
  ASSUME IInv, NEW r \in Routine, SleepOver(r)
  PROVE  IInv'
  <1>1. /\ state_[r] = "SLEEP" /\ state_'[r] = "SLEPT"
        /\ \A x \in Routine \ {r} : state_'[x] = state_[x]
        /\ UNCHANGED <<id_cr_, cr_group_, shutter, ctxStop, running_, target, todo,
             force_stop_, created, registered, sent, updated_, lock_, resumeAt,
             buffer, cur, scan, prio, notify_grp_, pc>>
    BY Domains, SMTT(30) DEF SleepOver, callerState, taskVars, stopVars,
       callVars, visitorVars,
       scanVars
  <1>2. TypeOK'
    <2>0. WorkTypes /\ CallTypes
      BY TypesSplit, Zenon DEF IInv
    <2>1. WorkTypes'
      <3>1. state_' \in [Routine -> {"READY", "FINISHED", "SLEEP", "SLEPT", "DATA_WAIT"}]
        BY <2>0, Zenon DEF SleepOver, WorkTypes
      <3> QED BY <1>1, <2>0, <3>1, Zenon DEF WorkTypes
    <2>2. CallTypes'
      BY <1>1, <2>0, Zenon DEF CallTypes
    <2> QED BY <2>1, <2>2, TypesSplit, Zenon
  <1>3. CallersOK'
    <2>1. ASSUME NEW c \in Client PROVE ClientFine(c)' /\ MutexFine(c)'
      <3>1. ClientFine(c) /\ MutexFine(c)
        BY CallersFine, Zenon
      <3> QED BY <1>1, <3>1, Zenon DEF ClientFine, MutexFine, InQueue
    <2>2. ASSUME NEW w \in Notifier PROVE NotifierFine(w)'
      <3>1. NotifierFine(w)
        BY CallersFine, Zenon
      <3> QED BY <1>1, <3>1, Zenon DEF NotifierFine
    <2>3. Exclusive'
      BY <1>1, CallersFine, Zenon DEF Exclusive
    <2> QED BY <2>1, <2>2, <2>3, Zenon DEF CallersOK
  <1>4. TasksOK'
    <2>1. \A x \in Routine : OutsideFine(x)'
      BY <1>1, SMTT(30) DEF IInv, TasksOK, OutsideFine, Outside, InQueue
    <2>2. \A x \in Routine : AgreeFine(x)' /\ StoppedFine(x)'
      BY <1>1, TasksFine, ZenonT(40) DEF AgreeFine, StoppedFine, InQueue, MutexFree
    <2>3. \A n \in Name : IdFine(n)'
      BY <1>1, Zenon DEF IInv, TasksOK, IdFine
    <2>4. \A i \in Prio : QueueFine(i)'
      BY <1>1, TasksFine, ZenonT(40) DEF QueueFine
    <2> QED BY <1>1, <2>1, <2>2, <2>3, <2>4, Zenon DEF IInv, TasksOK
  <1>5. ProcessorsOK' /\ LocksOK' /\ ShutterFine' /\ OneHolder'
    <2>1. ProcessorsOK'
      BY <1>1, ZenonT(40) DEF IInv, ProcessorsOK, ProcessorFine, ScanFine, InQueue
    <2>2. LocksOK' /\ ShutterFine'
      BY <1>1, SMTT(30) DEF IInv, LocksOK, ShutterFine
    <2>3. OneHolder'
      BY <1>1, SMTT(30) DEF IInv, OneHolder
    <2> QED BY <2>1, <2>2, <2>3, SMTT(30)
  <1>6. WaitingIsFlagged'
    <2> SUFFICES ASSUME NEW n \in Name, NEW x, x = id_cr_[n],
                        x # None, ~stop_, state_'[x] = "DATA_WAIT",
                        buffer[x] = "unread",
                        \A q \in Processor : pc[q] \in Body => cur[q] # x
                 PROVE  \/ ~updated_[x]
                        \/ \E w \in Notifier :
                             /\ target[w] = n
                             /\ \/ pc[w] = "n_call" /\ x \in todo[w]
                                \/ pc[w] \in {"n_find", "n_flag"}
      BY <1>1, SMTT(30) DEF WaitingIsFlagged, stop_
    <2>1. x \in Routine
      BY Values, Zenon
    <2>2. state_[x] = "DATA_WAIT"
      BY <1>1, <2>1, Zenon
    <2> QED BY <2>2, Zenon DEF IInv, WaitingIsFlagged
  <1> QED BY <1>2, <1>3, <1>4, <1>5, <1>6, Zenon DEF IInv

(* --------------------------- Steps of notifiers -------------------------- *)

\* What a notifier's step must see to: a waiting task with an unread message has
\* its flag down or w about to put it down, or the step was no business of it.
Sees(w, n, x) ==
  \/ ~updated_'[x]
  \/ Flagging(w, n, x)'
  \/ /\ buffer[x] = "unread" /\ updated_'[x] = updated_[x]
     /\ ~Flagging(w, n, x)

\* A notifier disturbs nobody else.
LEMMA NotifierFrame ==
  ASSUME IInv, NEW w \in Notifier,
         \A t \in Threads \ {w} : pc'[t] = pc[t] /\ cur'[t] = cur[t],
         \A t \in Caller \ {w} : target'[t] = target[t] /\ todo'[t] = todo[t],
         UNCHANGED schedulerState,
         TypeOK', NotifierFine(w)',
         \A r \in Routine : buffer'[r] = "unread" => r \in registered,
         \A n \in Name, x \in Routine :
           x = id_cr_[n] /\ ~stop_ /\ state_[x] = "DATA_WAIT"
             /\ buffer'[x] = "unread" => Sees(w, n, x)
  PROVE  IInv'
  <1>0. /\ UNCHANGED <<id_cr_, cr_group_, shutter, ctxStop, running_, scan, prio,
             lock_, state_, resumeAt, force_stop_, created, registered>>
        /\ \A t \in Processor : pc'[t] = pc[t] /\ cur'[t] = cur[t]
        /\ \A t \in Client \union (Notifier \ {w}) :
             /\ pc'[t] = pc[t] /\ cur'[t] = cur[t]
             /\ target'[t] = target[t] /\ todo'[t] = todo[t]
    BY Kinds, Zenon DEF schedulerState, taskVars, stopVars, scanVars
  <1>1. CallersOK'
    <2>1. ASSUME NEW c \in Client PROVE ClientFine(c)' /\ MutexFine(c)'
      <3>1. ClientFine(c) /\ MutexFine(c)
        BY CallersFine, Zenon
      <3>2. /\ pc'[c] = pc[c] /\ cur'[c] = cur[c]
            /\ target'[c] = target[c] /\ todo'[c] = todo[c]
        BY <1>0, Zenon
      <3>3. ClientFine(c)'
        BY <1>0, <3>1, <3>2, Zenon DEF ClientFine
      <3>4. MutexFine(c)'
        BY <1>0, <3>1, <3>2, ZenonT(40) DEF MutexFine, InQueue
      <3> QED BY <3>3, <3>4, Zenon
    <2>2. \A v \in Notifier \ {w} : NotifierFine(v)'
      BY <1>0, CallersFine, ZenonT(40) DEF NotifierFine
    <2>3. Exclusive'
      BY <1>0, Zenon DEF IInv, CallersOK, Exclusive
    <2> QED BY <2>1, <2>2, <2>3, Zenon DEF CallersOK
  <1>2. TasksOK'
    <2>1. \A x \in Routine : OutsideFine(x)'
      <3> SUFFICES ASSUME NEW x \in Routine PROVE OutsideFine(x)'
        BY Zenon
      <3>1. Outside(x)' <=> Outside(x)
        BY <1>0, Zenon DEF Outside
      <3> QED BY <1>0, <3>1, TasksFine, Zenon DEF OutsideFine, InQueue
    <2>2. \A x \in Routine : AgreeFine(x)'
      <3> SUFFICES ASSUME NEW x \in Routine PROVE AgreeFine(x)'
        BY Zenon
      <3>1. MutexFree(nameOf[x])' <=> MutexFree(nameOf[x])
        BY <1>0, Zenon DEF MutexFree
      <3> QED BY <1>0, <3>1, Zenon DEF IInv, TasksOK, AgreeFine, InQueue
    <2>3. \A x \in Routine : StoppedFine(x)'
      BY <1>0, TasksFine, ZenonT(40) DEF StoppedFine, InQueue
    <2>4. \A n \in Name : IdFine(n)'
      BY <1>0, Zenon DEF IInv, TasksOK, IdFine
    <2>5. \A i \in Prio : QueueFine(i)'
      <3> SUFFICES ASSUME NEW i \in Prio PROVE QueueFine(i)'
        BY Zenon
      <3>1. QueueFine(i)
        BY TasksFine, Zenon
      <3> QED BY <1>0, <3>1, Zenon DEF QueueFine
    <2> QED BY <1>0, <2>1, <2>2, <2>3, <2>4, <2>5, Zenon DEF TasksOK
  <1>3. ProcessorsOK' /\ LocksOK'
    <2>1. ASSUME NEW p \in Processor PROVE ProcessorFine(p)' /\ ScanFine(p)'
      <3>1. ProcessorFine(p) /\ ScanFine(p)
        BY ProcessorsFine, Zenon
      <3>2. ProcessorFine(p)'
        BY <1>0, <3>1, Zenon DEF ProcessorFine, InQueue
      <3>3. ScanFine(p)'
        BY <1>0, <3>1, Zenon DEF ScanFine
      <3> QED BY <3>2, <3>3, Zenon
    <2>2. ASSUME NEW c \in Client, NEW p \in Processor,
                 pc'[c] = "r_drop", pc'[p] \in Reading
          PROVE  prioOf[target'[c]] # prio'[p]
      <3>1. pc[c] = "r_drop" /\ pc[p] \in Reading
        BY <1>0, <2>2, Zenon
      <3>2. target'[c] = target[c] /\ prio'[p] = prio[p]
        BY <1>0, Zenon
      <3>3. prioOf[target[c]] # prio[p]
        BY <3>1, LocksFine, Zenon
      <3> QED BY <3>2, <3>3, Zenon
    <2> QED BY <2>1, <2>2, Zenon DEF ProcessorsOK, LocksOK
  <1>4. OneHolder'
    BY <1>0, SameHolders, Zenon
  <1>5. ShutterFine'
    BY <1>0, Values, Zenon DEF IInv, ShutterFine
  <1>6. WaitingIsFlagged'
    <2> SUFFICES ASSUME NEW n \in Name, NEW x, WaitsUnread(n, x)'
                 PROVE  ~updated_'[x] \/ \E v \in Notifier : Flagging(v, n, x)'
      BY WaitingKept, Zenon
    <2>0. /\ x = id_cr_[n] /\ x # None /\ ~stop_
          /\ state_[x] = "DATA_WAIT" /\ buffer'[x] = "unread"
          /\ \A p \in Processor : pc[p] \in Body => cur[p] # x
      BY <1>0, ZenonT(40) DEF WaitsUnread, stop_
    <2>1. x \in Routine
      BY <2>0, Values, Zenon
    <2>2. Sees(w, n, x)
      BY <2>0, <2>1, Zenon
    <2>3. CASE buffer[x] = "unread" /\ updated_'[x] = updated_[x] /\ ~Flagging(w, n, x)
      <3>1. WaitsUnread(n, x)
        BY <2>0, <2>3, Zenon DEF WaitsUnread
      <3>2. ~updated_[x] \/ \E v \in Notifier : Flagging(v, n, x)
        BY <3>1, WaitingFine, Zenon
      <3>3. ASSUME NEW v \in Notifier, Flagging(v, n, x) PROVE Flagging(v, n, x)'
        <4>1. v \in Notifier \ {w}
          BY <2>3, <3>3, Zenon
        <4>2. pc'[v] = pc[v] /\ target'[v] = target[v] /\ todo'[v] = todo[v]
          BY <4>1, Kinds, Zenon
        <4> QED BY <3>3, <4>2, Zenon DEF Flagging
      <3> QED BY <2>3, <3>2, <3>3, Zenon
    <2> QED BY <2>2, <2>3, Zenon DEF Sees
  <1> QED BY <1>1, <1>2, <1>3, <1>4, <1>5, <1>6, Zenon DEF IInv

\* A message is put into the buffers of the readers of a channel.
LEMMA FillKeeps ==
  ASSUME IInv, TypeOK', NEW w \in Notifier, NEW n \in Name, Fill(w, n)
  PROVE  IInv'
  <1>rs. PICK rs : rs = {r \in created : nameOf[r] = n}
    BY Zenon
  <1>1. /\ pc[w] = "idle" /\ pc'[w] = "n_call" /\ target'[w] = n /\ todo'[w] = rs
        /\ \A t \in Threads \ {w} : pc'[t] = pc[t] /\ cur'[t] = cur[t]
        /\ \A t \in Caller \ {w} : target'[t] = target[t] /\ todo'[t] = todo[t]
        /\ rs \subseteq Routine /\ UNCHANGED schedulerState /\ updated_' = updated_
    BY <1>rs, Kinds, Domains, Values, GoPlaces, ZenonT(40) DEF Fill
  <1>3. NotifierFine(w)'
    BY <1>1, <1>rs, Zenon DEF NotifierFine
  <1>4. \A x \in Routine : buffer'[x] = IF x \notin rs THEN buffer[x]
                                        ELSE IF x \in registered THEN "unread"
                                        ELSE "early"
    BY <1>rs, Zenon DEF Fill
  <1>5. \A x \in Routine : buffer'[x] = "unread" => x \in registered
    BY <1>4, Zenon DEF IInv, TasksOK
  <1>6. ASSUME NEW m \in Name, NEW x \in Routine, x = id_cr_[m],
               buffer'[x] = "unread"
        PROVE  Sees(w, m, x)
    <2>1. nameOf[x] = m /\ x \in created
      BY <1>6, Names, Zenon DEF IInv, TasksOK, IdFine
    <2>2. CASE m = n
      BY <1>1, <1>rs, <2>1, <2>2, Zenon DEF Sees, Flagging
    <2>3. CASE m # n
      BY <1>1, <1>4, <1>6, <1>rs, <2>1, <2>3, Zenon DEF Sees, Flagging
    <2> QED BY <2>2, <2>3, Zenon
  <1> QED BY <1>1, <1>3, <1>5, <1>6, NotifierFrame, Zenon

\* DataNotifier calls the next visitor.
LEMMA CallBackKeeps ==
  ASSUME IInv, TypeOK', NEW w \in Notifier, CallBack(w)
  PROVE  IInv'
  <1>r. PICK r \in todo[w] :
          /\ Go(w, "n_call", IF r \in registered /\ ~stop_ THEN "n_find" ELSE "n_call")
          /\ todo' = [todo EXCEPT ![w] = @ \ {r}]
    BY Zenon DEF CallBack
  <1>1. /\ pc[w] = "n_call" /\ pc'[w] \in {"n_find", "n_call"}
        /\ r \in registered /\ ~stop_ => pc'[w] = "n_find"
        /\ todo'[w] = todo[w] \ {r}
        /\ \A t \in Threads \ {w} : pc'[t] = pc[t]
        /\ \A t \in Caller \ {w} : todo'[t] = todo[t]
    BY <1>r, Kinds, Domains, GoPlaces, Zenon
  <1>0. UNCHANGED <<schedulerState, updated_, buffer, sent, target, cur, notify_grp_>>
    BY Zenon DEF CallBack
  <1>3. NotifierFine(w)'
    BY <1>0, <1>1, Zenon DEF NotifierFine, IInv, CallersOK
  <1>5. \A x \in Routine : buffer'[x] = "unread" => x \in registered
    BY <1>0, Zenon DEF IInv, TasksOK
  <1>6. ASSUME NEW m \in Name, NEW x \in Routine, x = id_cr_[m], ~stop_,
               buffer'[x] = "unread"
        PROVE  Sees(w, m, x)
    BY <1>0, <1>1, <1>5, <1>6, Zenon DEF Sees, Flagging
  <1> QED BY <1>0, <1>1, <1>3, <1>5, <1>6, NotifierFrame, Zenon

\* All have been called.
LEMMA NotifyReturnKeeps ==
  ASSUME IInv, TypeOK', NEW w \in Notifier, NotifyReturn(w)
  PROVE  IInv'
  <1>0. UNCHANGED <<schedulerState, updated_, buffer, sent, todo, notify_grp_>>
    BY Zenon DEF NotifyReturn
  <1>1. /\ pc[w] = "n_call" /\ pc'[w] = "idle" /\ todo[w] = {}
        /\ \A t \in Threads \ {w} : pc'[t] = pc[t] /\ cur'[t] = cur[t]
        /\ \A t \in Caller \ {w} : target'[t] = target[t]
    BY Kinds, Domains, GoPlaces, Zenon DEF NotifyReturn, Return
  <1>3. NotifierFine(w)'
    BY <1>1, Zenon DEF NotifierFine
  <1>5. \A x \in Routine : buffer'[x] = "unread" => x \in registered
    BY <1>0, Zenon DEF IInv, TasksOK
  <1>6. ASSUME NEW m \in Name, NEW x \in Routine, buffer'[x] = "unread"
        PROVE  Sees(w, m, x)
    BY <1>0, <1>1, <1>6, Zenon DEF Sees, Flagging
  <1> QED BY <1>0, <1>1, <1>3, <1>5, <1>6, NotifierFrame, Zenon

\* SchedulerClassic::NotifyProcessor looks up the routine.
LEMMA NotifyFindKeeps ==
  ASSUME IInv, TypeOK', NEW w \in Notifier, NotifyFind(w)
  PROVE  IInv'
  <1>0. UNCHANGED <<schedulerState, updated_, buffer, sent, target, todo, notify_grp_>>
    BY Zenon DEF NotifyFind, callVars
  <1>r. PICK r : r = IF target[w] = None \/ stop_ THEN None ELSE id_cr_[target[w]]
    BY Zenon
  <1>1. /\ pc[w] = "n_find" /\ cur'[w] = r
        /\ pc'[w] = IF r = None THEN "n_call"
                    ELSE IF state_[r] = "DATA_WAIT" THEN "n_flag" ELSE "n_notify"
        /\ \A t \in Threads \ {w} : pc'[t] = pc[t] /\ cur'[t] = cur[t]
    BY <1>r, Kinds, Domains, GoPlaces, ZenonT(40) DEF NotifyFind
  <1>t. /\ target[w] \in Name
        /\ \A x \in todo[w] : x \in Routine /\ nameOf[x] = target[w]
    BY <1>1, Zenon DEF IInv, CallersOK, NotifierFine
  <1>k. r \in Routine \union {None} /\ (r # None => r = id_cr_[target[w]])
    BY <1>r, <1>t, Values, Zenon
  <1>3. NotifierFine(w)'
    BY <1>0, <1>1, <1>t, <1>k, Zenon DEF NotifierFine, schedulerState, taskVars
  <1>5. \A x \in Routine : buffer'[x] = "unread" => x \in registered
    BY <1>0, Zenon DEF IInv, TasksOK
  <1>6. ASSUME NEW m \in Name, NEW x \in Routine, x = id_cr_[m], ~stop_,
               state_[x] = "DATA_WAIT", buffer'[x] = "unread"
        PROVE  Sees(w, m, x)
    BY <1>0, <1>1, <1>6, <1>r, Names, ZenonT(40) DEF Sees, Flagging
  <1> QED BY <1>0, <1>1, <1>3, <1>5, <1>6, NotifierFrame, Zenon

\* CRoutine::SetUpdateFlag puts the flag down.
LEMMA SetUpdateFlagKeeps ==
  ASSUME IInv, TypeOK', NEW w \in Notifier, SetUpdateFlag(w)
  PROVE  IInv'
  <1>0. UNCHANGED <<schedulerState, buffer, sent, target, todo, cur, notify_grp_>>
    BY Zenon DEF SetUpdateFlag, callVars
  <1>1. /\ pc[w] = "n_flag" /\ pc'[w] = "n_notify"
        /\ \A t \in Threads \ {w} : pc'[t] = pc[t]
    BY Kinds, Domains, GoPlaces, Zenon DEF SetUpdateFlag
  <1>r. PICK r : r = cur[w]
    BY Zenon
  <1>k. r \in Routine /\ id_cr_[target[w]] = r /\ NotifierFine(w)
    BY <1>1, <1>r, Zenon DEF IInv, CallersOK, NotifierFine
  <1>u. ~updated_'[r] /\ \A x \in Routine \ {r} : updated_'[x] = updated_[x]
    BY <1>r, <1>k, Domains, Zenon DEF SetUpdateFlag
  <1>3. NotifierFine(w)'
    BY <1>0, <1>1, <1>k, Zenon DEF NotifierFine, schedulerState, taskVars
  <1>5. \A x \in Routine : buffer'[x] = "unread" => x \in registered
    BY <1>0, Zenon DEF IInv, TasksOK
  <1>6. ASSUME NEW m \in Name, NEW x \in Routine, x = id_cr_[m],
               buffer'[x] = "unread"
        PROVE  Sees(w, m, x)
    BY <1>0, <1>6, <1>k, <1>u, Zenon DEF Sees, Flagging
  <1> QED BY <1>0, <1>1, <1>3, <1>5, <1>6, NotifierFrame, Zenon

\* ClassicContext::Notify adds a token.
LEMMA NotifyWakeKeeps ==
  ASSUME IInv, TypeOK', NEW w \in Notifier, NotifyWake(w)
  PROVE  IInv'
  <1>0. UNCHANGED <<schedulerState, updated_, buffer, sent, target, todo, cur>>
    BY Zenon DEF NotifyWake, callVars
  <1>1. /\ pc[w] = "n_notify" /\ pc'[w] = "n_call"
        /\ \A t \in Threads \ {w} : pc'[t] = pc[t]
    BY Kinds, Domains, GoPlaces, Zenon DEF NotifyWake
  <1>3. NotifierFine(w)'
    BY <1>0, <1>1, Zenon DEF NotifierFine, IInv, CallersOK
  <1>5. \A x \in Routine : buffer'[x] = "unread" => x \in registered
    BY <1>0, Zenon DEF IInv, TasksOK
  <1>6. ASSUME NEW m \in Name, NEW x \in Routine, buffer'[x] = "unread"
        PROVE  Sees(w, m, x)
    BY <1>0, <1>1, <1>6, Zenon DEF Sees, Flagging
  <1> QED BY <1>0, <1>1, <1>3, <1>5, <1>6, NotifierFrame, Zenon

\* Every step of a notifier.
LEMMA DeliverKeeps ==
  ASSUME IInv, TypeOK', NEW w \in Notifier, Deliver(w)
  PROVE  IInv'
  BY CallBackKeeps, NotifyReturnKeeps, NotifyFindKeeps, SetUpdateFlagKeeps,
     NotifyWakeKeeps, Zenon DEF Deliver

(* ---------------------------- Steps of clients --------------------------- *)

\* No processor holds routine r or is to come upon it.
Unused(r) ==
  \A p \in Processor :
    /\ pc[p] \in Holding => cur[p] # r
    /\ pc[p] \in Reading => \A k \in 1 .. Len(scan[p]) : scan[p][k] # r

\* How a step of client c may change the state: it touches nobody else's place
\* and locals, the tasks only of names whose mutex no other client holds, id_cr_
\* only while it is not read, and it drops from a queue what nobody uses.
ClientStep(c) ==
  /\ \A t \in Threads \ {c} : pc'[t] = pc[t] /\ cur'[t] = cur[t]
  /\ \A t \in Caller \ {c} : target'[t] = target[t] /\ todo'[t] = todo[t]
  /\ UNCHANGED processorState
  /\ created \subseteq created'
  /\ shutter' = None => shutter = None
  /\ \A r \in Routine : force_stop_[r] => force_stop_'[r]
  /\ pc'[c] \in Locking => \/ pc[c] \in Locking /\ target'[c] = target[c]
                           \/ MutexFree(target'[c])
  /\ pc'[c] \in Creating => \/ pc[c] \in Creating /\ cur'[c] = cur[c]
                            \/ cur'[c] \notin created
  /\ \A d \in Client \ {c} : pc[d] \in Locking =>
       /\ id_cr_'[target[d]] = id_cr_[target[d]]
       /\ \A r \in Routine : nameOf[r] = target[d] => (InQueue(r)' <=> InQueue(r))
  /\ id_cr_' = id_cr_ \/ ~IdsRead
  /\ \A r \in Routine : InQueue(r) => InQueue(r)' \/ Unused(r)
  /\ pc'[c] = "r_drop" => ~QueueRead(prioOf[target'[c]])
  /\ \A n \in Name : \/ id_cr_'[n] \in {None, id_cr_[n]}
                     \/ state_[id_cr_'[n]] = "READY"

\* Such a step keeps the invariant, if it keeps what is said of c and of the
\* tasks.
LEMMA ClientKeeps ==
  ASSUME IInv, NEW c \in Client, ClientStep(c), TypeOK', ClientFine(c)',
         MutexFine(c)', TasksOK', ShutterFine'
  PROVE  IInv'
  <1>0. /\ UNCHANGED <<scan, prio, state_, updated_, lock_, resumeAt, buffer, sent>>
        /\ \A t \in Processor : pc'[t] = pc[t] /\ cur'[t] = cur[t]
        /\ \A t \in Notifier \union (Client \ {c}) :
             /\ pc'[t] = pc[t] /\ cur'[t] = cur[t]
             /\ target'[t] = target[t] /\ todo'[t] = todo[t]
    BY Kinds, ZenonT(40) DEF ClientStep, processorState, scanVars, runVars
  <1>c. created \subseteq created' /\ \A r \in Routine : force_stop_[r] => force_stop_'[r]
    BY Zenon DEF ClientStep
  <1>l. pc'[c] \in Locking => \/ pc[c] \in Locking /\ target'[c] = target[c]
                             \/ MutexFree(target'[c])
    BY Zenon DEF ClientStep
  <1>n. pc'[c] \in Creating => \/ pc[c] \in Creating /\ cur'[c] = cur[c]
                              \/ cur'[c] \notin created
    BY Zenon DEF ClientStep
  <1>u. \A r \in Routine : InQueue(r) => InQueue(r)' \/ Unused(r)
    BY Zenon DEF ClientStep
  <1>d. pc'[c] = "r_drop" => ~QueueRead(prioOf[target'[c]])
    BY Zenon DEF ClientStep
  <1>1. ASSUME NEW d \in Client \ {c} PROVE ClientFine(d)'
    <2>1. /\ pc'[d] = pc[d] /\ cur'[d] = cur[d] /\ target'[d] = target[d]
          /\ todo'[d] = todo[d] /\ ClientFine(d)
      BY <1>0, Zenon DEF IInv, CallersOK
    <2> QED BY <2>1, <1>c, Zenon DEF ClientFine
  <1>2. ASSUME NEW d \in Client \ {c} PROVE MutexFine(d)'
    <2>1. pc'[d] = pc[d] /\ cur'[d] = cur[d] /\ target'[d] = target[d]
      BY <1>0, Zenon
    <2>2. pc[d] \in Locking =>
            /\ id_cr_'[target[d]] = id_cr_[target[d]]
            /\ \A r \in Routine : nameOf[r] = target[d] => (InQueue(r)' <=> InQueue(r))
      BY Zenon DEF ClientStep
    <2>3. pc[d] \in Removing => cur[d] \in Routine
      BY CallersFine, Zenon DEF ClientFine
    <2>4. \A r \in Routine : force_stop_[r] => force_stop_'[r]
      BY <1>c, Zenon
    <2>5. MutexFine(d)
      BY Zenon DEF IInv, CallersOK
    <2>6. CASE pc[d] \in Locking
      BY <2>1, <2>2, <2>3, <2>4, <2>5, <2>6, Zenon DEF MutexFine, Locking
    <2>7. CASE pc[d] \notin Locking
      BY <2>1, <2>7, Zenon DEF MutexFine, Locking
    <2> QED BY <2>6, <2>7, Zenon
  <1>3. \A w \in Notifier : NotifierFine(w)'
    <2>1. CASE id_cr_' = id_cr_
      BY <1>0, <2>1, CallersFine, ZenonT(40) DEF NotifierFine
    <2>2. CASE ~IdsRead
      BY <1>0, <2>2, CallersFine, ZenonT(40) DEF NotifierFine, IdsRead
    <2> QED BY <2>1, <2>2, Zenon DEF ClientStep
  <1>4. Exclusive'
    <2>1. ASSUME NEW d \in Client \ {c}
          PROVE  /\ ~(pc'[c] \in Locking /\ pc'[d] \in Locking /\ target'[c] = target'[d])
                 /\ ~(pc'[c] \in Creating /\ pc'[d] \in Creating /\ cur'[c] = cur'[d])
      <3>1. pc'[d] = pc[d] /\ cur'[d] = cur[d] /\ target'[d] = target[d]
        BY <1>0, Zenon
      <3>2. pc[d] \in Creating => cur[d] \in created
        BY CallersFine, Zenon DEF ClientFine
      <3>3. ~(pc'[c] \in Locking /\ pc[d] \in Locking /\ target'[c] = target[d])
        <4>1. pc[c] \in Locking /\ pc[d] \in Locking => target[c] # target[d]
          BY CallersFine, Zenon DEF Exclusive
        <4>2. MutexFree(target'[c]) /\ pc[d] \in Locking => target'[c] # target[d]
          BY Zenon DEF MutexFree, Locking, Removing
        <4> QED BY <4>1, <4>2, <1>l, Zenon
      <3>4. ~(pc'[c] \in Creating /\ pc[d] \in Creating /\ cur'[c] = cur[d])
        <4>1. pc[c] \in Creating /\ pc[d] \in Creating => cur[c] # cur[d]
          BY CallersFine, Zenon DEF Exclusive
        <4> QED BY <4>1, <3>2, <1>n, Zenon
      <3> QED BY <3>1, <3>3, <3>4, Zenon
    <2>2. \A d, e \in Client \ {c} :
            /\ pc'[d] \in Locking /\ pc'[e] \in Locking /\ target'[d] = target'[e] => d = e
            /\ pc'[d] \in Creating /\ pc'[e] \in Creating /\ cur'[d] = cur'[e] => d = e
      BY <1>0, CallersFine, Zenon DEF Exclusive
    <2> QED BY <2>1, <2>2, Zenon DEF Exclusive
  <1>5. ProcessorsOK'
    <2> SUFFICES ASSUME NEW p \in Processor
                 PROVE  ProcessorFine(p)' /\ ScanFine(p)'
      BY Zenon DEF ProcessorsOK
    <2>1. ProcessorFine(p) /\ ScanFine(p) /\ scan[p] \in Seq(Routine)
      BY Values, Zenon DEF IInv, ProcessorsOK
    <2>2. pc[p] \in Holding => cur[p] \in Range(cr_group_'[prioOf[nameOf[cur[p]]]])
      BY <2>1, <1>u, Zenon DEF Unused, ProcessorFine, InQueue
    <2>3. pc[p] \in Reading =>
            \A k \in 1 .. Len(scan[p]) : scan[p][k] \in Routine /\ InQueue(scan[p][k])
      BY <2>1 DEF ProcessorFine
    <2>4. pc[p] \in Reading => \A k \in 1 .. Len(scan[p]) :
            InQueue(scan[p][k]) => scan[p][k] \in Range(cr_group_'[prioOf[nameOf[scan[p][k]]]])
      BY <2>3, <1>u, Zenon DEF Unused, InQueue
    <2>5. ProcessorFine(p)'
      BY <1>0, <2>1, <2>2, <2>3, <2>4, Zenon DEF ProcessorFine, InQueue
    <2>6. ScanFine(p)'
      BY <1>0, <2>1, Zenon DEF ScanFine
    <2> QED BY <2>5, <2>6, Zenon
  <1>6. LocksOK'
    <2> SUFFICES ASSUME NEW d \in Client, NEW p \in Processor,
                        pc'[d] = "r_drop", pc[p] \in Reading
                 PROVE  prioOf[target'[d]] # prio[p]
      BY <1>0, Zenon DEF LocksOK
    <2>1. CASE d = c
      BY <2>1, <1>d, Zenon DEF QueueRead, Reading
    <2>2. CASE d # c
      <3>1. pc[d] = "r_drop" /\ target'[d] = target[d]
        BY <1>0, <2>2, Zenon
      <3> QED BY <3>1, LocksFine, Zenon
    <2> QED BY <2>1, <2>2, Zenon
  <1>7. OneHolder'
    BY <1>0, SameHolders, Zenon
  <1>8. WaitingIsFlagged'
    <2> SUFFICES ASSUME NEW n \in Name, NEW x, WaitsUnread(n, x)'
                 PROVE  ~updated_'[x] \/ \E v \in Notifier : Flagging(v, n, x)'
      BY WaitingKept, Zenon
    <2>1. WaitsUnread(n, x)
      BY <1>0, ZenonT(40) DEF WaitsUnread, stop_, ClientStep
    <2>2. ~updated_[x] \/ \E v \in Notifier : Flagging(v, n, x)
      BY <2>1, WaitingFine, Zenon
    <2>3. ASSUME NEW v \in Notifier, Flagging(v, n, x) PROVE Flagging(v, n, x)'
      BY <1>0, <2>3, Zenon DEF Flagging
    <2> QED BY <1>0, <2>2, <2>3, Zenon
  <1> QED BY <1>1, <1>2, <1>3, <1>4, <1>5, <1>6, <1>7, <1>8, Zenon DEF IInv,
             CallersOK

\* A client's step that leaves the tasks alone keeps what is said of them.
LEMMA TasksFrame ==
  ASSUME IInv, NEW c \in Client,
         \A t \in Threads \ {c} : pc'[t] = pc[t] /\ cur'[t] = cur[t],
         \A t \in Caller \ {c} : target'[t] = target[t],
         UNCHANGED <<id_cr_, cr_group_, force_stop_, created, state_, buffer>>,
         registered \subseteq registered',
         pc[c] \in Removing => pc'[c] \in Removing /\ cur'[c] = cur[c],
         pc[c] \in Locking => \/ pc'[c] \in Locking /\ target'[c] = target[c]
                              \/ pc[c] = "c_notify",
         pc'[c] # "c_insert"
  PROVE  TasksOK'
  <1>0. \A d \in Client \ {c} :
          pc'[d] = pc[d] /\ cur'[d] = cur[d] /\ target'[d] = target[d]
    BY Kinds, Zenon
  <1>q. \A r : InQueue(r)' <=> InQueue(r)
    BY Zenon DEF InQueue
  <1>1. ASSUME NEW r \in Routine PROVE AgreeFine(r)'
    <2>1. CASE MutexFree(nameOf[r])
      BY <2>1, <1>q, TasksFine, Zenon DEF AgreeFine
    <2>2. CASE ~MutexFree(nameOf[r]) /\ MutexFree(nameOf[r])'
      <3>1. PICK d \in Client : pc[d] \in Locking /\ target[d] = nameOf[r]
        BY <2>2, Zenon DEF MutexFree, Locking, Removing
      <3>2. pc'[d] \notin Locking \/ target'[d] # nameOf[r]
        BY <2>2, Zenon DEF MutexFree, Locking, Removing
      <3>3. d = c /\ pc[c] = "c_notify"
        BY <1>0, <3>1, <3>2, Zenon
      <3>4. MutexFine(c) /\ cur[c] \in Routine
        BY <3>3, CallersFine, Zenon DEF ClientFine, Creating
      <3>5. (InQueue(r) <=> r = cur[c]) /\ id_cr_[nameOf[r]] = cur[c]
        BY <3>1, <3>3, <3>4, Zenon DEF MutexFine
      <3> QED BY <3>5, <1>q, Zenon DEF AgreeFine
    <2> QED BY <2>1, <2>2, Zenon DEF AgreeFine
  <1>2. ASSUME NEW r \in Routine PROVE StoppedFine(r)'
    BY <1>0, <1>q, TasksFine, ZenonT(40) DEF StoppedFine
  <1>3. ASSUME NEW r \in Routine PROVE OutsideFine(r)'
    <2>1. Outside(r)' => Outside(r)
      BY <1>0, Zenon DEF Outside
    <2> QED BY <2>1, <1>q, TasksFine, Zenon DEF OutsideFine
  <1>4. \A n \in Name : IdFine(n)'
    BY TasksFine, Zenon DEF IdFine
  <1>5. \A i \in Prio : QueueFine(i)'
    BY TasksFine, ZenonT(40) DEF QueueFine
  <1> QED BY <1>1, <1>2, <1>3, <1>4, <1>5, Zenon DEF IInv, TasksOK

\* Such a step, of a client that goes from one place to another.
LEMMA QuietStep ==
  ASSUME IInv, NEW c \in Client,
         \A t \in Threads \ {c} : pc'[t] = pc[t] /\ cur'[t] = cur[t],
         \A t \in Caller \ {c} : target'[t] = target[t] /\ todo'[t] = todo[t],
         UNCHANGED <<processorState, id_cr_, cr_group_, force_stop_, created>>,
         registered \subseteq registered',
         shutter' = None => shutter = None,
         \/ /\ pc[c] \in Locking /\ pc'[c] \in Locking
            /\ pc[c] \in Creating => pc'[c] \in Creating
            /\ pc[c] \in Removing => pc'[c] \in Removing
            /\ pc'[c] = "r_drop" => ~QueueRead(prioOf[target[c]])
            /\ target'[c] = target[c] /\ cur'[c] = cur[c]
         \/ pc[c] = "c_notify" /\ pc'[c] = "c_register" /\ cur'[c] = cur[c]
         \/ pc[c] \notin Locking /\ pc'[c] \notin Locking \union Creating,
         TypeOK', ClientFine(c)', MutexFine(c)', ShutterFine'
  PROVE  IInv'
  <1>0. UNCHANGED <<state_, buffer>>
    BY Zenon DEF processorState, runVars
  <1>1. TasksOK'
    <2>1. /\ pc[c] \in Removing => pc'[c] \in Removing /\ cur'[c] = cur[c]
          /\ pc[c] \in Locking => \/ pc'[c] \in Locking /\ target'[c] = target[c]
                                  \/ pc[c] = "c_notify"
          /\ pc'[c] # "c_insert"
      BY Zenon DEF Locking, Removing, Creating
    <2> QED BY <1>0, <2>1, TasksFrame, Zenon
  <1>2. ClientStep(c)
    <2>1. /\ pc'[c] \in Locking => pc[c] \in Locking /\ target'[c] = target[c]
          /\ pc'[c] \in Creating => pc[c] \in Creating /\ cur'[c] = cur[c]
          /\ pc'[c] = "r_drop" => ~QueueRead(prioOf[target'[c]])
      BY Zenon DEF Locking, Removing, Creating
    <2>2. \A r \in Routine : InQueue(r)' <=> InQueue(r)
      BY Zenon DEF InQueue
    <2> QED BY <2>1, <2>2, Zenon DEF ClientStep
  <1> QED BY <1>1, <1>2, ClientKeeps, Zenon

\* The write lock of the run queue is asked for.
LEMMA AskQueueKeeps ==
  ASSUME IInv, TypeOK', NEW c \in Client, AskQueue(c)
  PROVE  IInv'
  <1>0. UNCHANGED <<processorState, id_cr_, cr_group_, force_stop_, created>>
    BY Zenon DEF AskQueue, taskVars
  <1>1. /\ \/ pc[c] = "c_ask" /\ pc'[c] = "c_enqueue"
           \/ pc[c] = "r_ask" /\ pc'[c] = "r_find"
        /\ \A t \in Threads \ {c} : pc'[t] = pc[t] /\ cur'[t] = cur[t]
        /\ \A t \in Caller \ {c} : target'[t] = target[t] /\ todo'[t] = todo[t]
        /\ target'[c] = target[c] /\ cur'[c] = cur[c]
    BY Kinds, Domains, GoPlaces, Zenon DEF AskQueue, Return, callVars
  <1>f. ClientFine(c) /\ MutexFine(c)
    BY Zenon DEF IInv, CallersOK
  <1>3. ClientFine(c)'
    BY <1>0, <1>1, <1>f, Domains, Zenon DEF ClientFine, AskQueue, Return,
       Creating, Removing,
       callVars
  <1>4. MutexFine(c)'
    <2>1. /\ UNCHANGED <<id_cr_, cr_group_, force_stop_>>
          /\ target' = target /\ cur' = cur
      BY <1>0, Zenon DEF AskQueue, callVars
    <2> QED BY <1>1, <1>f, <2>1, Zenon DEF MutexFine, Removing, InQueue
  <1>5. ShutterFine'
    BY <1>1, Kinds, Values, Zenon DEF ShutterFine, AskQueue, IInv, stop_,
       stopVars, Removing
  <1>6. registered \subseteq registered' /\ (shutter' = None => shutter = None)
    BY Kinds, Zenon DEF AskQueue, stopVars
  <1> QED BY <1>0, <1>1, <1>3, <1>4, <1>5, <1>6, QuietStep, Zenon DEF Locking,
             Removing, Creating

\* DispatchTask wakes a processor.
LEMMA DispatchNotifyKeeps ==
  ASSUME IInv, TypeOK', NEW c \in Client, DispatchNotify(c)
  PROVE  IInv'
  <1>0. UNCHANGED <<processorState, id_cr_, cr_group_, force_stop_, created>>
    BY Zenon DEF DispatchNotify, taskVars
  <1>1. /\ pc[c] = "c_notify" /\ pc'[c] = "c_register"
        /\ \A t \in Threads \ {c} : pc'[t] = pc[t] /\ cur'[t] = cur[t]
        /\ \A t \in Caller \ {c} : target'[t] = target[t] /\ todo'[t] = todo[t]
        /\ target'[c] = target[c] /\ cur'[c] = cur[c]
    BY Kinds, Domains, GoPlaces, Zenon DEF DispatchNotify, Return, callVars
  <1>f. ClientFine(c) /\ MutexFine(c)
    BY Zenon DEF IInv, CallersOK
  <1>3. ClientFine(c)'
    BY <1>0, <1>1, <1>f, Domains, Zenon DEF ClientFine, DispatchNotify, Return,
       Creating,
       Removing, callVars
  <1>4. MutexFine(c)'
    BY <1>1, Zenon DEF MutexFine, Removing
  <1>5. ShutterFine'
    BY <1>1, Kinds, Values, Zenon DEF ShutterFine, DispatchNotify, IInv, stop_,
       stopVars,
       Removing
  <1>6. registered \subseteq registered' /\ (shutter' = None => shutter = None)
    BY Kinds, Zenon DEF DispatchNotify, stopVars
  <1> QED BY <1>0, <1>1, <1>3, <1>4, <1>5, <1>6, QuietStep, Zenon DEF Locking,
             Removing, Creating

\* CreateTask registers the callback of its visitor.
LEMMA RegisterNotifyCallbackKeeps ==
  ASSUME IInv, TypeOK', NEW c \in Client, RegisterNotifyCallback(c)
  PROVE  IInv'
  <1>0. UNCHANGED <<processorState, id_cr_, cr_group_, force_stop_, created>>
    BY Zenon DEF RegisterNotifyCallback, taskVars
  <1>1. /\ pc[c] = "c_register" /\ pc'[c] = "idle"
        /\ \A t \in Threads \ {c} : pc'[t] = pc[t] /\ cur'[t] = cur[t]
        /\ \A t \in Caller \ {c} : target'[t] = target[t] /\ todo'[t] = todo[t]
    BY Kinds, Domains, GoPlaces, Zenon DEF RegisterNotifyCallback, Return, callVars
  <1>f. ClientFine(c) /\ MutexFine(c)
    BY Zenon DEF IInv, CallersOK
  <1>3. ClientFine(c)'
    BY <1>0, <1>1, <1>f, Domains, Zenon DEF ClientFine, RegisterNotifyCallback,
       Return,
       Creating, Removing, callVars
  <1>4. MutexFine(c)'
    BY <1>1, Zenon DEF MutexFine, Removing
  <1>5. ShutterFine'
    BY <1>1, Kinds, Values, Zenon DEF ShutterFine, RegisterNotifyCallback, IInv,
       stop_,
       stopVars, Removing
  <1>6. registered \subseteq registered' /\ (shutter' = None => shutter = None)
    BY Kinds, Zenon DEF RegisterNotifyCallback, stopVars
  <1> QED BY <1>0, <1>1, <1>3, <1>4, <1>5, <1>6, QuietStep, Zenon DEF Locking,
             Removing, Creating

\* RemoveTask begins.
LEMMA RemoveTaskKeeps ==
  ASSUME IInv, TypeOK', NEW c \in Client, NEW n \in Name, RemoveTask(c, n)
  PROVE  IInv'
  <1>0. UNCHANGED <<processorState, id_cr_, cr_group_, force_stop_, created>>
    BY Zenon DEF RemoveTask, taskVars
  <1>1. /\ pc[c] = "idle" /\ pc'[c] = "r_next"
        /\ \A t \in Threads \ {c} : pc'[t] = pc[t] /\ cur'[t] = cur[t]
        /\ \A t \in Caller \ {c} : target'[t] = target[t] /\ todo'[t] = todo[t]
    BY Kinds, Domains, GoPlaces, Zenon DEF RemoveTask, Return, callVars
  <1>f. ClientFine(c) /\ MutexFine(c)
    BY Zenon DEF IInv, CallersOK
  <1>3. ClientFine(c)'
    <2>1. todo'[c] = {n}
      BY Kinds, Domains, Zenon DEF RemoveTask
    <2> QED BY <1>0, <1>1, <1>f, <2>1, Zenon DEF ClientFine, Creating, Removing
  <1>4. MutexFine(c)'
    BY <1>1, Zenon DEF MutexFine, Removing
  <1>5. ShutterFine'
    BY <1>1, Kinds, Values, Zenon DEF ShutterFine, RemoveTask, IInv, stop_,
       stopVars, Removing
  <1>6. registered \subseteq registered' /\ (shutter' = None => shutter = None)
    BY Kinds, Zenon DEF RemoveTask, stopVars
  <1> QED BY <1>0, <1>1, <1>3, <1>4, <1>5, <1>6, QuietStep, Zenon DEF Locking,
             Removing, Creating

\* RemoveTask, or the last removal of Shutdown, returns.
LEMMA RemoveReturnKeeps ==
  ASSUME IInv, TypeOK', NEW c \in Client, RemoveReturn(c)
  PROVE  IInv'
  <1>0. UNCHANGED <<processorState, id_cr_, cr_group_, force_stop_, created>>
    BY Zenon DEF RemoveReturn, taskVars
  <1>1. /\ pc[c] = "r_next" /\ pc'[c] = "idle"
        /\ \A t \in Threads \ {c} : pc'[t] = pc[t] /\ cur'[t] = cur[t]
        /\ \A t \in Caller \ {c} : target'[t] = target[t] /\ todo'[t] = todo[t]
    BY Kinds, Domains, GoPlaces, Zenon DEF RemoveReturn, Return, callVars
  <1>f. ClientFine(c) /\ MutexFine(c)
    BY Zenon DEF IInv, CallersOK
  <1>3. ClientFine(c)'
    BY <1>0, <1>1, <1>f, Domains, Zenon DEF ClientFine, RemoveReturn, Return,
       Creating,
       Removing, callVars
  <1>4. MutexFine(c)'
    BY <1>1, Zenon DEF MutexFine, Removing
  <1>5. ShutterFine'
    BY <1>1, Kinds, Values, Zenon DEF ShutterFine, RemoveReturn, IInv, stop_,
       stopVars,
       Removing
  <1>6. registered \subseteq registered' /\ (shutter' = None => shutter = None)
    BY Kinds, Zenon DEF RemoveReturn, stopVars
  <1> QED BY <1>0, <1>1, <1>3, <1>4, <1>5, <1>6, QuietStep, Zenon DEF Locking,
             Removing, Creating

\* Scheduler::Shutdown begins.
LEMMA ShutdownKeeps ==
  ASSUME IInv, TypeOK', NEW c \in Client, Shutdown(c)
  PROVE  IInv'
  <1>0. UNCHANGED <<processorState, id_cr_, cr_group_, force_stop_, created>>
    BY Zenon DEF Shutdown, taskVars
  <1>1. /\ pc[c] = "idle" /\ pc'[c] = "s_ctx"
        /\ \A t \in Threads \ {c} : pc'[t] = pc[t] /\ cur'[t] = cur[t]
        /\ \A t \in Caller \ {c} : target'[t] = target[t] /\ todo'[t] = todo[t]
    BY Kinds, Domains, GoPlaces, Zenon DEF Shutdown, Return, callVars
  <1>f. ClientFine(c) /\ MutexFine(c)
    BY Zenon DEF IInv, CallersOK
  <1>3. ClientFine(c)'
    BY <1>0, <1>1, <1>f, Domains, Zenon DEF ClientFine, Shutdown, Return,
       Creating, Removing,
       callVars
  <1>4. MutexFine(c)'
    BY <1>1, Zenon DEF MutexFine, Removing
  <1>5. ShutterFine'
    BY <1>1, Kinds, Values, Zenon DEF ShutterFine, Shutdown, IInv, stop_,
       stopVars, Removing
  <1>6. registered \subseteq registered' /\ (shutter' = None => shutter = None)
    BY Kinds, Zenon DEF Shutdown, stopVars
  <1> QED BY <1>0, <1>1, <1>3, <1>4, <1>5, <1>6, QuietStep, Zenon DEF Locking,
             Removing, Creating

\* It stops the contexts.
LEMMA ShutdownContextsKeeps ==
  ASSUME IInv, TypeOK', NEW c \in Client, ShutdownContexts(c)
  PROVE  IInv'
  <1>0. UNCHANGED <<processorState, id_cr_, cr_group_, force_stop_, created>>
    BY Zenon DEF ShutdownContexts, taskVars
  <1>1. /\ pc[c] = "s_ctx" /\ pc'[c] = "s_list"
        /\ \A t \in Threads \ {c} : pc'[t] = pc[t] /\ cur'[t] = cur[t]
        /\ \A t \in Caller \ {c} : target'[t] = target[t] /\ todo'[t] = todo[t]
    BY Kinds, Domains, GoPlaces, Zenon DEF ShutdownContexts, Return, callVars
  <1>f. ClientFine(c) /\ MutexFine(c)
    BY Zenon DEF IInv, CallersOK
  <1>3. ClientFine(c)'
    BY <1>0, <1>1, <1>f, Domains, Zenon DEF ClientFine, ShutdownContexts, Return,
       Creating,
       Removing, callVars
  <1>4. MutexFine(c)'
    BY <1>1, Zenon DEF MutexFine, Removing
  <1>5. ShutterFine'
    BY <1>1, Kinds, Values, Zenon DEF ShutterFine, ShutdownContexts, IInv, stop_,
       stopVars,
       Removing
  <1>6. registered \subseteq registered' /\ (shutter' = None => shutter = None)
    BY Kinds, Zenon DEF ShutdownContexts, stopVars
  <1> QED BY <1>0, <1>1, <1>3, <1>4, <1>5, <1>6, QuietStep, Zenon DEF Locking,
             Removing, Creating

\* It lists the tasks that are left.
LEMMA ShutdownListKeeps ==
  ASSUME IInv, TypeOK', NEW c \in Client, ShutdownList(c)
  PROVE  IInv'
  <1>0. UNCHANGED <<processorState, id_cr_, cr_group_, force_stop_, created>>
    BY Zenon DEF ShutdownList, taskVars
  <1>1. /\ pc[c] = "s_list" /\ pc'[c] = "r_next"
        /\ \A t \in Threads \ {c} : pc'[t] = pc[t] /\ cur'[t] = cur[t]
        /\ \A t \in Caller \ {c} : target'[t] = target[t] /\ todo'[t] = todo[t]
    BY Kinds, Domains, GoPlaces, Zenon DEF ShutdownList, Return, callVars
  <1>f. ClientFine(c) /\ MutexFine(c)
    BY Zenon DEF IInv, CallersOK
  <1>3. ClientFine(c)'
    <2>1. todo'[c] \subseteq Name
      BY Kinds, Domains, Zenon DEF ShutdownList
    <2> QED BY <1>0, <1>1, <1>f, <2>1, Zenon DEF ClientFine, Creating, Removing
  <1>4. MutexFine(c)'
    BY <1>1, Zenon DEF MutexFine, Removing
  <1>5. ShutterFine'
    BY <1>1, Kinds, Values, Zenon DEF ShutterFine, ShutdownList, IInv, stop_,
       stopVars,
       Removing
  <1>6. registered \subseteq registered' /\ (shutter' = None => shutter = None)
    BY Kinds, Zenon DEF ShutdownList, stopVars
  <1> QED BY <1>0, <1>1, <1>3, <1>4, <1>5, <1>6, QuietStep, Zenon DEF Locking,
             Removing, Creating

\* It stops the processors.
LEMMA StopProcessorsKeeps ==
  ASSUME IInv, TypeOK', NEW c \in Client, StopProcessors(c)
  PROVE  IInv'
  <1>0. UNCHANGED <<processorState, id_cr_, cr_group_, force_stop_, created>>
    BY Zenon DEF StopProcessors, taskVars
  <1>1. /\ pc[c] = "r_next" /\ pc'[c] = "s_join"
        /\ \A t \in Threads \ {c} : pc'[t] = pc[t] /\ cur'[t] = cur[t]
        /\ \A t \in Caller \ {c} : target'[t] = target[t] /\ todo'[t] = todo[t]
    BY Kinds, Domains, GoPlaces, Zenon DEF StopProcessors, Return, callVars
  <1>f. ClientFine(c) /\ MutexFine(c)
    BY Zenon DEF IInv, CallersOK
  <1>3. ClientFine(c)'
    BY <1>0, <1>1, <1>f, Domains, Zenon DEF ClientFine, StopProcessors, Return,
       Creating,
       Removing, callVars
  <1>4. MutexFine(c)'
    BY <1>1, Zenon DEF MutexFine, Removing
  <1>5. ShutterFine'
    BY <1>1, Kinds, Values, Zenon DEF ShutterFine, StopProcessors, IInv, stop_,
       stopVars,
       Removing
  <1>6. registered \subseteq registered' /\ (shutter' = None => shutter = None)
    BY Kinds, Zenon DEF StopProcessors, stopVars
  <1> QED BY <1>0, <1>1, <1>3, <1>4, <1>5, <1>6, QuietStep, Zenon DEF Locking,
             Removing, Creating

\* It has joined them.
LEMMA JoinProcessorsKeeps ==
  ASSUME IInv, TypeOK', NEW c \in Client, JoinProcessors(c)
  PROVE  IInv'
  <1>0. UNCHANGED <<processorState, id_cr_, cr_group_, force_stop_, created>>
    BY Zenon DEF JoinProcessors, taskVars
  <1>1. /\ pc[c] = "s_join" /\ pc'[c] = "idle"
        /\ \A t \in Threads \ {c} : pc'[t] = pc[t] /\ cur'[t] = cur[t]
        /\ \A t \in Caller \ {c} : target'[t] = target[t] /\ todo'[t] = todo[t]
    BY Kinds, Domains, GoPlaces, Zenon DEF JoinProcessors, Return, callVars
  <1>f. ClientFine(c) /\ MutexFine(c)
    BY Zenon DEF IInv, CallersOK
  <1>3. ClientFine(c)'
    BY <1>0, <1>1, <1>f, Domains, Zenon DEF ClientFine, JoinProcessors, Return,
       Creating,
       Removing, callVars
  <1>4. MutexFine(c)'
    BY <1>1, Zenon DEF MutexFine, Removing
  <1>5. ShutterFine'
    BY <1>1, Kinds, Values, Zenon DEF ShutterFine, JoinProcessors, IInv, stop_,
       stopVars,
       Removing
  <1>6. registered \subseteq registered' /\ (shutter' = None => shutter = None)
    BY Kinds, Zenon DEF JoinProcessors, stopVars
  <1> QED BY <1>0, <1>1, <1>3, <1>4, <1>5, <1>6, QuietStep, Zenon DEF Locking,
             Removing, Creating

\* CreateTask makes a routine.
LEMMA CreateTaskKeeps ==
  ASSUME IInv, TypeOK', NEW c \in Client, NEW r \in Routine, CreateTask(c, r)
  PROVE  IInv'
  <1>0. /\ UNCHANGED <<processorState, id_cr_, cr_group_, force_stop_, registered,
                       shutter, state_, buffer>>
        /\ created' = created \union {r} /\ r \notin created /\ shutter = None
    BY Zenon DEF CreateTask, taskVars, stopVars, processorState, runVars, stop_
  <1>1. /\ pc[c] = "idle" /\ pc'[c] = "c_insert" /\ cur'[c] = r /\ target'[c] = nameOf[r]
        /\ \A t \in Threads \ {c} : pc'[t] = pc[t] /\ cur'[t] = cur[t]
        /\ \A t \in Caller \ {c} : target'[t] = target[t] /\ todo'[t] = todo[t]
        /\ todo'[c] = todo[c]
    BY Kinds, Domains, GoPlaces, Zenon DEF CreateTask
  <1>d. \A d \in Client \ {c} :
          pc'[d] = pc[d] /\ cur'[d] = cur[d] /\ target'[d] = target[d]
    BY <1>1, Kinds, Zenon
  <1>q. \A x \in Routine : InQueue(x)' <=> InQueue(x)
    BY <1>0, Zenon DEF InQueue
  <1>3. ClientFine(c)' /\ MutexFine(c)'
    BY <1>0, <1>1, Names, CallersFine, Zenon DEF ClientFine, MutexFine, Creating,
       Removing
  <1>4. TasksOK'
    <2>0. \A x \in Routine : AgreeFine(x) /\ StoppedFine(x) /\ OutsideFine(x)
      BY Zenon DEF IInv, TasksOK
    <2>1. ASSUME NEW x \in Routine PROVE AgreeFine(x)'
      <3>1. MutexFree(nameOf[x])' <=> MutexFree(nameOf[x])
        BY <1>1, <1>d, Zenon DEF MutexFree
      <3> QED BY <1>0, <1>q, <2>0, <3>1, Zenon DEF AgreeFine
    <2>2. ASSUME NEW x \in Routine PROVE StoppedFine(x)'
      <3>1. \A d \in Client : pc[d] \in Removing => pc'[d] \in Removing /\ cur'[d] = cur[d]
        BY <1>1, <1>d, Zenon DEF Removing
      <3> QED BY <1>0, <1>q, <2>0, <3>1, Zenon DEF StoppedFine
    <2>3. ASSUME NEW x \in Routine PROVE OutsideFine(x)'
      <3>1. Outside(x)' => Outside(x)
        BY <1>0, <1>1, <1>d, Zenon DEF Outside
      <3> QED BY <1>0, <1>q, <2>0, <3>1, Zenon DEF OutsideFine
    <2>4. \A n \in Name : IdFine(n)'
      BY <1>0, TasksFine, Zenon DEF IdFine
    <2>5. \A i \in Prio : QueueFine(i)'
      BY <1>0, TasksFine, ZenonT(40) DEF QueueFine
    <2> QED BY <1>0, <2>1, <2>2, <2>3, <2>4, <2>5, Zenon DEF IInv, TasksOK
  <1>5. ShutterFine'
    BY <1>0, Zenon DEF ShutterFine
  <1>6. ClientStep(c)
    BY <1>0, <1>1, <1>q, Zenon DEF ClientStep, Locking, Removing, Creating
  <1> QED BY <1>3, <1>4, <1>5, <1>6, ClientKeeps, Zenon

\* DispatchTask enters it in id_cr_, under the mutex of its name, if the name
\* is free.
LEMMA DispatchInsertKeeps ==
  ASSUME IInv, TypeOK', NEW c \in Client, DispatchInsert(c)
  PROVE  IInv'
  <1>r. PICK r, m : r = cur[c] /\ m = target[c]
    BY Zenon
  <1>f. /\ pc[c] = "c_insert" /\ r \in Routine /\ m = nameOf[r] /\ r \in created
        /\ m \in Name /\ MutexFree(m) /\ ~IdsRead /\ ClientFine(c)
    BY <1>r, Names, CallersFine, Zenon DEF DispatchInsert, ClientFine, Creating
  <1>0. UNCHANGED <<processorState, cr_group_, shutter, ctxStop, running_,
                    force_stop_, created, registered, todo, notify_grp_, state_, buffer>>
    BY Zenon DEF DispatchInsert, stopVars, processorState, runVars
  <1>a. CASE id_cr_[m] # None
    <2>0. Return(c, "c_insert") /\ UNCHANGED id_cr_
      BY <1>a, <1>r, Zenon DEF DispatchInsert
    <2>1. /\ pc'[c] = "idle"
          /\ \A t \in Threads \ {c} : pc'[t] = pc[t] /\ cur'[t] = cur[t]
          /\ \A t \in Caller \ {c} : target'[t] = target[t]
      BY <2>0, Kinds, Domains, GoPlaces, Zenon DEF Return
    <2>3. ClientFine(c)' /\ MutexFine(c)'
      BY <1>0, <2>1, <1>f, Zenon DEF ClientFine, MutexFine, Creating, Removing
    <2>4. ShutterFine'
      BY <1>0, <1>f, <2>1, Kinds, Values, Zenon DEF ShutterFine, IInv, Removing
    <2> QED BY <1>0, <1>f, <2>0, <2>1, <2>3, <2>4, QuietStep, Zenon
            DEF Locking, Removing, Creating
  <1>b. CASE id_cr_[m] = None
    <2>0. /\ Go(c, "c_insert", "c_ask") /\ id_cr_' = [id_cr_ EXCEPT ![m] = r]
          /\ UNCHANGED <<cur, target>>
      BY <1>b, <1>r, Zenon DEF DispatchInsert
    <2>1. /\ pc'[c] = "c_ask" /\ id_cr_'[m] = r
          /\ \A n \in Name \ {m} : id_cr_'[n] = id_cr_[n]
          /\ \A t \in Threads \ {c} : pc'[t] = pc[t]
      BY <2>0, <1>f, Kinds, Domains, GoPlaces, Zenon
    <2>q. \A x \in Routine : InQueue(x)' <=> InQueue(x)
      BY <1>0, Zenon DEF InQueue
    <2>3. ClientFine(c)'
      BY <1>0, <2>0, <2>1, <1>f, Zenon DEF ClientFine, Creating, Removing
    <2>4. \A x \in Routine : nameOf[x] = m => ~InQueue(x)
      BY <1>b, <1>f, Names, TasksFine, Zenon DEF AgreeFine
    <2>5. MutexFine(c)'
      BY <2>0, <2>1, <2>4, <2>q, <1>r, Zenon DEF MutexFine, Removing
    <2>d. \A d \in Client \ {c} : pc'[d] = pc[d]
      BY <2>1, Kinds, Zenon
    <2>e. \A d \in Client \ {c} : ~(pc[d] = "c_insert" /\ cur[d] = r)
      BY <1>f, <1>r, CallersFine, Zenon DEF Exclusive, Creating
    <2>o. Outside(r) /\ ~force_stop_[r] /\ state_[r] = "READY"
      BY <1>f, <1>r, TasksFine, Zenon DEF Outside, OutsideFine
    <2>6. TasksOK'
      <3>1. ASSUME NEW x \in Routine PROVE AgreeFine(x)'
        <4>1. CASE nameOf[x] = m
          BY <4>1, <2>0, <2>1, <1>r, Zenon DEF AgreeFine, MutexFree
        <4>2. CASE nameOf[x] # m
          <5>1. MutexFree(nameOf[x])' => MutexFree(nameOf[x])
            BY <2>0, <2>d, <1>f, Zenon DEF MutexFree
          <5> QED BY <4>2, <5>1, <2>1, <2>q, Names, TasksFine, Zenon DEF AgreeFine
        <4> QED BY <4>1, <4>2, Zenon
      <3>2. ASSUME NEW x \in Routine PROVE StoppedFine(x)'
        BY <1>0, <1>f, <2>0, <2>q, <2>d, TasksFine, Zenon DEF StoppedFine, Removing
      <3>3. ASSUME NEW x \in Routine PROVE OutsideFine(x)'
        <4>1. CASE x = r
          BY <4>1, <1>0, <1>f, <2>0, <2>1, <2>d, <2>e, Zenon DEF OutsideFine,
             Outside
        <4>2. CASE x # r
          <5>1. Outside(x)' => Outside(x)
            BY <1>0, <2>0, <2>1, <2>d, Zenon DEF Outside
          <5> QED BY <4>2, <5>1, <1>0, <2>1, <2>q, Names, TasksFine,
                     Zenon DEF OutsideFine
        <4> QED BY <4>1, <4>2, Zenon
      <3>4. \A n \in Name : IdFine(n)'
        <4> SUFFICES ASSUME NEW n \in Name PROVE IdFine(n)'
          BY Zenon
        <4>1. CASE n = m
          BY <4>1, <1>0, <1>f, <2>1, <2>o, Zenon DEF IdFine
        <4>2. CASE n # m
          BY <4>2, <1>0, <2>1, TasksFine, Zenon DEF IdFine
        <4> QED BY <4>1, <4>2, Zenon
      <3>5. \A i \in Prio : QueueFine(i)'
        BY <1>0, TasksFine, ZenonT(40) DEF QueueFine
      <3> QED BY <1>0, <3>1, <3>2, <3>3, <3>4, <3>5, Zenon DEF IInv, TasksOK
    <2>7. ShutterFine'
      BY <1>0, <1>f, <2>1, Kinds, Values, Zenon DEF ShutterFine, IInv, Removing
    <2>8. ClientStep(c)
      <3>1. \A d \in Client \ {c} : pc[d] \in Locking => target[d] # m
        BY <1>f, Zenon DEF MutexFree, Locking, Removing
      <3>2. \A d \in Client \ {c} : pc[d] \in Locking => id_cr_'[target[d]] = id_cr_[target[d]]
        BY <3>1, <2>0
      <3> QED BY <1>0, <1>f, <1>r, <2>0, <2>1, <2>q, <2>o, <3>2, Zenon
              DEF ClientStep, Locking, Removing, Creating
    <2> QED BY <2>3, <2>5, <2>6, <2>7, <2>8, ClientKeeps, Zenon
  <1> QED BY <1>a, <1>b, Zenon

\* DispatchTask appends it to the run queue of its priority.
LEMMA DispatchEnqueueKeeps ==
  ASSUME IInv, TypeOK', NEW c \in Client, DispatchEnqueue(c)
  PROVE  IInv'
  <1>r. PICK r, m, i, q : r = cur[c] /\ m = target[c] /\ i = prioOf[m] /\ q = cr_group_[i]
    BY Zenon
  <1>f. /\ pc[c] = "c_enqueue" /\ r \in Routine /\ m = nameOf[r] /\ r \in created
        /\ m \in Name /\ i \in Prio /\ q \in Seq(Routine) /\ ClientFine(c) /\ MutexFine(c)
    <2>1. pc[c] = "c_enqueue"
      BY Zenon DEF DispatchEnqueue, Go
    <2>2. /\ r \in Routine /\ m = nameOf[r] /\ r \in created
          /\ ClientFine(c) /\ MutexFine(c)
      BY <1>r, <2>1, CallersFine, Zenon DEF ClientFine, Creating
    <2> QED BY <1>r, <2>1, <2>2, Names, Values, Zenon
  <1>g. /\ id_cr_[m] = r
        /\ \A x \in Routine : nameOf[x] = m => ~InQueue(x)
    BY <1>f, <1>r, Zenon DEF MutexFine
  <1>0. /\ UNCHANGED <<processorState, id_cr_, shutter, ctxStop, running_, cur, target,
                    force_stop_, created, registered, todo, notify_grp_, state_, buffer>>
        /\ cr_group_' = [cr_group_ EXCEPT ![i] = Append(q, r)]
        /\ pc' = [pc EXCEPT ![c] = "c_notify"]
    BY <1>r, Zenon DEF DispatchEnqueue, Go, stopVars, processorState, runVars,
       callVars
  <1>1. /\ pc'[c] = "c_notify" /\ \A t \in Threads \ {c} : pc'[t] = pc[t]
        /\ \A j \in Prio \ {i} : cr_group_'[j] = cr_group_[j]
        /\ cr_group_'[i] = Append(q, r)
    BY <1>0, <1>f, Kinds, Domains, Zenon
  <1>a. \A k \in 1 .. Len(q) : q[k] \in Routine
    BY <1>f
  <1>q. \A x \in Routine : InQueue(x)' <=> InQueue(x) \/ x = r
    <2>1. Range(Append(q, r)) = Range(q) \union {r}
      BY <1>f, Appended, Zenon
    <2> SUFFICES ASSUME NEW x \in Routine PROVE InQueue(x)' <=> InQueue(x) \/ x = r
      BY Zenon
    <2>2. CASE prioOf[nameOf[x]] = i
      BY <2>1, <2>2, <1>1, <1>r, Zenon DEF InQueue
    <2>3. CASE prioOf[nameOf[x]] # i
      BY <2>3, <1>1, <1>r, <1>f, Names, Zenon DEF InQueue
    <2> QED BY <2>2, <2>3, Zenon
  <1>3. ClientFine(c)'
    BY <1>0, <1>1, <1>f, Zenon DEF ClientFine, Creating, Removing
  <1>4. MutexFine(c)'
    BY <1>0, <1>1, <1>g, <1>q, <1>r, Zenon DEF MutexFine, Removing
  <1>d. \A d \in Client \ {c} : pc'[d] = pc[d]
    BY <1>1, Kinds, Zenon
  <1>o. ~Outside(r)
    BY <1>f, <1>r, CallersFine, Zenon DEF Outside, Exclusive, Creating
  <1>5. TasksOK'
    <2>1. ASSUME NEW x \in Routine PROVE AgreeFine(x)'
      <3>1. CASE nameOf[x] = m
        BY <3>1, <1>0, <1>1, <1>r, Zenon DEF AgreeFine, MutexFree
      <3>2. CASE nameOf[x] # m
        <4>1. MutexFree(nameOf[x])' => MutexFree(nameOf[x])
          BY <3>2, <1>0, <1>d, <1>r, Zenon DEF MutexFree
        <4> QED BY <3>2, <4>1, <1>0, <1>f, <1>q, TasksFine, Zenon DEF AgreeFine
      <3> QED BY <3>1, <3>2, Zenon
    <2>2. ASSUME NEW x \in Routine PROVE StoppedFine(x)'
      <3>1. ~force_stop_[r]
        BY <1>f, <1>g, Names, TasksFine, Zenon DEF IdFine
      <3> QED BY <3>1, <1>0, <1>f, <1>q, <1>d, TasksFine, Zenon DEF StoppedFine,
                 Removing
    <2>3. ASSUME NEW x \in Routine PROVE OutsideFine(x)'
      <3>1. Outside(x)' => Outside(x)
        BY <1>0, <1>1, <1>d, Zenon DEF Outside
      <3> QED BY <3>1, <1>0, <1>o, <1>q, TasksFine, Zenon DEF OutsideFine
    <2>4. \A n \in Name : IdFine(n)'
      BY <1>0, TasksFine, Zenon DEF IdFine
    <2>5. ASSUME NEW j \in Prio PROVE QueueFine(j)'
      <3>1. CASE j # i
        <4>1. cr_group_'[j] = cr_group_[j] /\ QueueFine(j)
          BY <3>1, <1>1, TasksFine, Zenon
        <4> QED BY <4>1, Zenon DEF QueueFine
      <3>2. CASE j = i
        <4>1. QueueFine(i)
          BY <1>f, TasksFine, Zenon
        <4>2. OneOfEach(q, i)
          BY <4>1, <1>r, ZenonT(40) DEF QueueFine, OneOfEach
        <4>3. \A k \in 1 .. Len(q) : nameOf[q[k]] # nameOf[r]
          <5>1. \A k \in 1 .. Len(q) : q[k] \in Routine /\ InQueue(q[k])
            BY <1>f, <1>r, QueueElements, ZenonT(40)
          <5> QED BY <5>1, <1>f, <1>g, Zenon
        <4>4. OneOfEach(cr_group_'[i], i)
          BY <4>2, <4>3, <1>1, <1>f, <1>r, Appended, ZenonT(40)
        <4> QED BY <3>2, <4>4, Zenon DEF QueueFine, OneOfEach
      <3> QED BY <3>1, <3>2, Zenon
    <2> QED BY <1>0, <2>1, <2>2, <2>3, <2>4, <2>5, Zenon DEF IInv, TasksOK
  <1>6. ShutterFine'
    BY <1>0, <1>f, <1>1, Kinds, Values, Zenon DEF ShutterFine, IInv, Removing
  <1>7. ClientStep(c)
    <2>1. \A d \in Client \ {c} : pc[d] \in Locking => target[d] # m
      BY <1>f, <1>r, CallersFine, Zenon DEF Exclusive, Locking
    <2>2. \A d \in Client \ {c} : pc[d] \in Locking =>
            \A x \in Routine : nameOf[x] = target[d] => (InQueue(x)' <=> InQueue(x))
      BY <2>1, <1>q, <1>f, Zenon
    <2> QED BY <1>0, <1>f, <1>1, <1>q, <2>2, Zenon DEF ClientStep, Locking,
               Removing, Creating
  <1> QED BY <1>3, <1>4, <1>5, <1>6, <1>7, ClientKeeps, Zenon

\* RemoveCRoutine stops a routine and erases it from id_cr_.
LEMMA RemoveEraseKeeps ==
  ASSUME IInv, TypeOK', NEW c \in Client, RemoveErase(c)
  PROVE  IInv'
  <1>n. PICK n \in todo[c] :
          /\ MutexFree(n) /\ ~IdsRead
          /\ Go(c, "r_next", IF id_cr_[n] = None THEN "r_next" ELSE "r_ask")
          /\ force_stop_' = IF id_cr_[n] = None THEN force_stop_
                             ELSE [force_stop_ EXCEPT ![id_cr_[n]] = TRUE]
          /\ id_cr_' = [id_cr_ EXCEPT ![n] = None]
          /\ cur' = [cur EXCEPT ![c] = id_cr_[n]]
          /\ target' = [target EXCEPT ![c] = n]
          /\ todo' = [todo EXCEPT ![c] = @ \ {n}]
          /\ UNCHANGED <<processorState, cr_group_, stopVars, created, registered,
                         notify_grp_>>
    BY Zenon DEF RemoveErase
  <1>r. PICK r : r = id_cr_[n]
    BY Zenon
  <1>f. /\ pc[c] = "r_next" /\ ClientFine(c) /\ n \in Name /\ r \in Routine \union {None}
    <2>1. pc[c] = "r_next"
      BY <1>n, Zenon DEF Go
    <2>2. ClientFine(c) /\ n \in Name
      BY <1>n, CallersFine, Zenon DEF ClientFine
    <2> QED BY <1>r, <2>1, <2>2, Values, Zenon
  <1>0. UNCHANGED <<processorState, cr_group_, shutter, ctxStop, running_, created,
                    registered, notify_grp_, state_, buffer>>
    BY <1>n, Zenon DEF stopVars, processorState, runVars
  <1>1. /\ pc'[c] = IF r = None THEN "r_next" ELSE "r_ask"
        /\ cur'[c] = r /\ target'[c] = n /\ todo'[c] = todo[c] \ {n}
        /\ \A t \in Threads \ {c} : pc'[t] = pc[t] /\ cur'[t] = cur[t]
        /\ \A t \in Caller \ {c} : target'[t] = target[t] /\ todo'[t] = todo[t]
        /\ id_cr_'[n] = None /\ \A k \in Name \ {n} : id_cr_'[k] = id_cr_[k]
        /\ \A x \in Routine : force_stop_'[x] <=> force_stop_[x] \/ x = r
    <2>1. pc'[c] = IF r = None THEN "r_next" ELSE "r_ask"
      BY <1>n, <1>r, Kinds, GoPlaces, Zenon
    <2>2. \A t \in Threads \ {c} : pc'[t] = pc[t]
      BY <1>n, Kinds, GoPlaces, Zenon
    <2>3. cur'[c] = r /\ \A t \in Threads \ {c} : cur'[t] = cur[t]
      BY <1>n, <1>r, Kinds, Domains, Zenon
    <2>4. /\ target'[c] = n /\ todo'[c] = todo[c] \ {n}
          /\ \A t \in Caller \ {c} : target'[t] = target[t] /\ todo'[t] = todo[t]
      BY <1>n, Kinds, Domains, Zenon
    <2>5. id_cr_'[n] = None /\ \A k \in Name \ {n} : id_cr_'[k] = id_cr_[k]
      BY <1>n, <1>f, Domains, Zenon
    <2>6. \A x \in Routine : force_stop_'[x] <=> force_stop_[x] \/ x = r
      <3>1. CASE r = None
        BY <3>1, <1>n, <1>r, Names, Zenon
      <3>2. CASE r # None
        BY <3>2, <1>n, <1>r, Domains, Zenon
      <3> QED BY <3>1, <3>2, Zenon
    <2> QED BY <2>1, <2>2, <2>3, <2>4, <2>5, <2>6, Zenon
  <1>3. ShutterFine'
    BY <1>0, <1>f, <1>1, Kinds, Values, ZenonT(40) DEF ShutterFine, IInv, Removing
  <1>a. CASE r = None
    <2>1. id_cr_' = id_cr_ /\ force_stop_' = force_stop_
      <3>1. id_cr_' = id_cr_
        BY <1>a, <1>n, <1>r, <1>f, TableTypes, SameWritten, Zenon
      <3>2. force_stop_' = force_stop_
        BY <1>a, <1>n, <1>r, Zenon
      <3> QED BY <3>1, <3>2, Zenon
    <2>2. ClientFine(c)' /\ MutexFine(c)'
      BY <1>a, <1>1, <1>f, Zenon DEF ClientFine, MutexFine, Creating, Removing
    <2> QED BY <1>a, <1>0, <1>f, <1>1, <1>3, <2>1, <2>2, QuietStep, Zenon
            DEF Locking, Removing, Creating
  <1>b. CASE r \in Routine
    <2>0. pc'[c] = "r_ask" /\ nameOf[r] = n /\ r \in created
      <3>1. r # None
        BY <1>b, Names, Zenon
      <3>2. IdFine(n)
        BY <1>f, TasksFine, Zenon
      <3> QED BY <1>1, <1>r, <3>1, <3>2, Zenon DEF IdFine
    <2>q. \A x \in Routine : InQueue(x)' <=> InQueue(x)
      BY <1>0, Zenon DEF InQueue
    <2>1. ClientFine(c)'
      BY <1>b, <1>1, <1>f, <2>0, Zenon DEF ClientFine, Creating, Removing
    <2>2. \A x \in Routine : nameOf[x] = n => (InQueue(x) <=> x = r)
      BY <1>n, <1>r, TasksFine, Zenon DEF AgreeFine
    <2>3. MutexFine(c)'
      BY <1>b, <1>1, <2>0, <2>2, <2>q, Zenon DEF MutexFine, Removing
    <2>d. \A d \in Client \ {c} :
            pc'[d] = pc[d] /\ target'[d] = target[d] /\ cur'[d] = cur[d]
      BY <1>1, Kinds, Zenon
    <2>4. TasksOK'
      <3>1. ASSUME NEW x \in Routine PROVE AgreeFine(x)'
        <4>1. CASE nameOf[x] = n
          BY <4>1, <1>1, <2>0, Zenon DEF AgreeFine, MutexFree
        <4>2. CASE nameOf[x] # n
          <5>1. MutexFree(nameOf[x])' => MutexFree(nameOf[x])
            BY <2>d, <1>f, Zenon DEF MutexFree
          <5> QED BY <4>2, <5>1, <1>1, <2>q, Names, TasksFine, Zenon DEF AgreeFine
        <4> QED BY <4>1, <4>2, Zenon
      <3>2. ASSUME NEW x \in Routine PROVE StoppedFine(x)'
        <4>1. CASE x = r
          BY <4>1, <1>1, <2>0, Zenon DEF StoppedFine, Removing
        <4>2. CASE x # r
          <5>1. StoppedFine(x) /\ (force_stop_'[x] <=> force_stop_[x])
            BY <4>2, <1>1, Zenon DEF IInv, TasksOK
          <5>2. ASSUME NEW d \in Client, pc[d] \in Removing, cur[d] = x
                PROVE  pc'[d] \in Removing /\ cur'[d] = x
            BY <5>2, <1>f, <2>d, Zenon DEF Removing
          <5> QED BY <5>1, <5>2, <2>q, Zenon DEF StoppedFine
        <4> QED BY <4>1, <4>2, Zenon
      <3>3. ASSUME NEW x \in Routine PROVE OutsideFine(x)'
        <4>1. Outside(x)' => Outside(x)
          BY <1>0, <2>d, <2>0, Zenon DEF Outside
        <4>2. Outside(x) => x # r
          BY <1>r, <2>0, TasksFine, Zenon DEF OutsideFine
        <4>3. id_cr_'[nameOf[x]] \in {None, id_cr_[nameOf[x]]}
          BY <1>1, Names, Zenon
        <4> QED BY <4>1, <4>2, <4>3, <1>0, <1>1, <2>q, Names, TasksFine,
                   Zenon DEF OutsideFine
      <3>4. ASSUME NEW k \in Name PROVE IdFine(k)'
        <4>1. CASE k = n
          BY <4>1, <1>1, Zenon DEF IdFine
        <4>2. CASE k # n
          <5>1. IdFine(k) /\ id_cr_'[k] = id_cr_[k] /\ id_cr_[k] \in Routine \union {None}
            BY <4>2, <1>1, Values, Zenon DEF IInv, TasksOK
          <5> QED BY <4>2, <5>1, <1>0, <1>1, <2>0, Zenon DEF IdFine
        <4> QED BY <4>1, <4>2, Zenon
      <3>5. \A i \in Prio : QueueFine(i)'
        BY <1>0, TasksFine, ZenonT(40) DEF QueueFine
      <3> QED BY <1>0, <3>1, <3>2, <3>3, <3>4, <3>5, Zenon DEF IInv, TasksOK
    <2>5. ClientStep(c)
      <3>1. \A d \in Client \ {c} : pc[d] \in Locking => target[d] # n
        BY <1>n, Zenon DEF MutexFree, Locking, Removing
      <3>2. \A d \in Client \ {c} : pc[d] \in Locking => id_cr_'[target[d]] = id_cr_[target[d]]
        BY <3>1, <1>n
      <3>3. \A k \in Name : id_cr_'[k] \in {None, id_cr_[k]}
        BY <1>1, Zenon
      <3> QED BY <1>0, <1>n, <1>1, <2>0, <2>q, <3>2, <3>3, Zenon
              DEF ClientStep, Locking, Removing, Creating
    <2> QED BY <2>1, <2>3, <2>4, <2>5, <1>3, ClientKeeps, Zenon
  <1> QED BY <1>a, <1>b, <1>f, Zenon

\* ClassicContext::RemoveCRoutine finds the routine in the run queue.
LEMMA RemoveFindKeeps ==
  ASSUME IInv, TypeOK', NEW c \in Client, RemoveFind(c)
  PROVE  IInv'
  <1>r. PICK n, q, k : n = target[c] /\ q = cr_group_[prioOf[n]] /\ k = FirstPlace(q, n)
    BY Zenon
  <1>p. pc[c] = "r_find" /\ ~QueueRead(prioOf[n])
    BY <1>r, Zenon DEF RemoveFind
  <1>k. /\ n \in Name /\ n = nameOf[cur[c]] /\ q \in Seq(Routine)
        /\ Places(q, n) # {} /\ k \in 1 .. Len(q) /\ q[k] = cur[c]
    BY <1>r, <1>p, TheirPlace
  <1>f. ClientFine(c) /\ MutexFine(c) /\ cur[c] \in Routine /\ force_stop_[cur[c]]
    BY <1>p, CallersFine, Zenon DEF ClientFine, MutexFine, Removing
  <1>0. /\ Go(c, "r_find", "r_drop")
        /\ cur' = [cur EXCEPT ![c] = q[k]]
        /\ force_stop_' = [force_stop_ EXCEPT ![q[k]] = TRUE]
        /\ UNCHANGED <<processorState, taskVars, stopVars, created, registered,
                       callVars, notify_grp_>>
    BY <1>r, <1>k, Zenon DEF RemoveFind
  <1>1. cur' = cur /\ force_stop_' = force_stop_
    <2>1. cur' = cur
      BY <1>0, <1>k, Kinds, TableTypes, SameWritten, ZenonT(40)
    <2>2. force_stop_[cur[c]] = TRUE
      BY <1>f, TableTypes, Zenon
    <2>3. force_stop_' = force_stop_
      BY <1>0, <1>k, <1>f, <2>2, TableTypes, SameWritten
    <2> QED BY <2>1, <2>3, Zenon
  <1>2. /\ pc'[c] = "r_drop" /\ \A t \in Threads \ {c} : pc'[t] = pc[t]
        /\ UNCHANGED <<id_cr_, cr_group_, target, todo, shutter>>
    BY <1>0, Kinds, Domains, GoPlaces, Zenon DEF taskVars, callVars, stopVars
  <1>4. ClientFine(c)'
    BY <1>0, <1>1, <1>2, <1>f, <1>p, Zenon DEF ClientFine, Creating, Removing
  <1>5. MutexFine(c)'
    BY <1>1, <1>2, <1>f, <1>p, Zenon DEF MutexFine, Removing, InQueue
  <1>6. ShutterFine'
    BY <1>2, <1>p, Kinds, Values, Zenon DEF ShutterFine, IInv, Removing
  <1> QED BY <1>0, <1>1, <1>2, <1>4, <1>5, <1>6, <1>p, <1>r, QuietStep, Zenon
          DEF Locking, Removing, Creating

\* It has acquired the routine, and erases it.
LEMMA RemoveDropKeeps ==
  ASSUME IInv, TypeOK', NEW c \in Client, RemoveDrop(c)
  PROVE  IInv'
  <1>r. PICK n, i, q, k, r, s :
          /\ n = target[c] /\ i = prioOf[n] /\ q = cr_group_[i]
          /\ k = FirstPlace(q, n) /\ r = cur[c]
          /\ s = Without(q, k)
    BY Zenon
  <1>p. pc[c] = "r_drop" /\ ~lock_[r]
    BY <1>r, Zenon DEF RemoveDrop, Go
  <1>k. /\ n \in Name /\ n = nameOf[r] /\ q \in Seq(Routine) /\ i \in Prio
        /\ k \in 1 .. Len(q) /\ q[k] = r
    <2>1. q = cr_group_[prioOf[n]] /\ pc[c] \in {"r_find", "r_drop"}
      BY <1>r, <1>p, Zenon
    <2>2. /\ n \in Name /\ n = nameOf[cur[c]] /\ q \in Seq(Routine)
          /\ k \in 1 .. Len(q) /\ q[k] = cur[c]
      BY <1>r, <2>1, TheirPlace
    <2> QED BY <1>r, <2>2, Names, Zenon
  <1>f. /\ ClientFine(c) /\ r \in Routine /\ id_cr_[n] = None
        /\ \A x \in Routine : nameOf[x] = n => (InQueue(x) <=> x = r)
    BY <1>p, <1>r, CallersFine, ZenonT(40) DEF ClientFine, MutexFine, Removing
  <1>0. /\ UNCHANGED <<processorState, id_cr_, shutter, ctxStop, running_, cur, target,
                    force_stop_, created, registered, todo, notify_grp_, state_, buffer>>
        /\ cr_group_' = [cr_group_ EXCEPT ![i] = s]
        /\ pc' = [pc EXCEPT ![c] = "r_next"]
    BY <1>r, Zenon DEF RemoveDrop, Erased, Go, stopVars, processorState, runVars,
       callVars
  <1>1. /\ pc'[c] = "r_next" /\ \A t \in Threads \ {c} : pc'[t] = pc[t]
        /\ \A j \in Prio \ {i} : cr_group_'[j] = cr_group_[j]
        /\ cr_group_'[i] = s
    BY <1>0, <1>k, Kinds, Domains, Zenon
  <1>s. /\ s \in Seq(Routine) /\ Len(s) = Len(q) - 1 /\ Len(q) \in Nat
        /\ \A j \in 1 .. Len(s) : s[j] = IF j < k THEN q[j] ELSE q[j + 1]
    <2>1. /\ s \in Seq(Routine) /\ Len(s) = Len(q) - 1
          /\ \A j \in 1 .. Len(q) - 1 : s[j] = IF j < k THEN q[j] ELSE q[j + 1]
      <3>1. q \in Seq(Routine) /\ k \in 1 .. Len(q) /\ s = Without(q, k)
        BY <1>r, <1>k, Zenon
      <3> QED BY <3>1, Removal, Zenon
    <2> QED BY <2>1, <1>k
  <1>u. /\ \A h \in 1 .. Len(q) : prioOf[nameOf[q[h]]] = i
        /\ \A g, h \in 1 .. Len(q) : nameOf[q[g]] = nameOf[q[h]] => g = h
    <2>1. QueueFine(i)
      BY <1>k, Zenon DEF IInv, TasksOK
    <2> QED BY <2>1, <1>r, ZenonT(40) DEF QueueFine
  <1>n. \A j \in 1 .. Len(q) : nameOf[q[j]] = n => j = k
    BY <1>k, <1>u, Zenon
  <1>q. \A x \in Routine : InQueue(x)' <=> InQueue(x) /\ x # r
    <2> SUFFICES ASSUME NEW x \in Routine PROVE InQueue(x)' <=> InQueue(x) /\ x # r
      BY Zenon
    <2>1. CASE prioOf[nameOf[x]] # i
      BY <2>1, <1>1, <1>k, <1>r, Names, Zenon DEF InQueue
    <2>2. CASE prioOf[nameOf[x]] = i
      <3>0. DOMAIN q = 1 .. Len(q) /\ DOMAIN s = 1 .. Len(s)
        BY <1>k, <1>s
      <3>1. ASSUME NEW j \in 1 .. Len(s), s[j] = x
            PROVE  x # r /\ \E h \in 1 .. Len(q) : q[h] = x
        <4>1. CASE j < k
          BY <3>1, <4>1, <1>s, <1>k, <1>n
        <4>2. CASE ~(j < k)
          BY <3>1, <4>2, <1>s, <1>k, <1>n
        <4> QED BY <4>1, <4>2, Zenon
      <3>2. ASSUME NEW j \in 1 .. Len(q), q[j] = x, x # r
            PROVE  \E h \in 1 .. Len(s) : s[h] = x
        <4>1. CASE j < k
          BY <3>2, <4>1, <1>s, <1>k
        <4>2. CASE j > k
          <5>1. j - 1 \in 1 .. Len(s) /\ s[j - 1] = q[j]
            BY <4>2, <1>s, <1>k
          <5> QED BY <3>2, <5>1, Zenon
        <4> QED BY <3>2, <4>1, <4>2, <1>k
      <3>3. x \in Range(s) <=> x \in Range(q) /\ x # r
        BY <3>0, <3>1, <3>2, Zenon DEF Range
      <3> QED BY <2>2, <3>3, <1>1, <1>r, Zenon DEF InQueue
    <2> QED BY <2>1, <2>2, Zenon
  <1>3. ClientFine(c)' /\ MutexFine(c)'
    BY <1>0, <1>1, <1>f, Zenon DEF ClientFine, MutexFine, Creating, Removing
  <1>d. \A d \in Client \ {c} : pc'[d] = pc[d]
    BY <1>1, Kinds, Zenon
  <1>5. TasksOK'
    <2>1. ASSUME NEW x \in Routine PROVE AgreeFine(x)'
      <3>1. CASE nameOf[x] = n
        BY <3>1, <1>0, <1>f, <1>q, Names, Zenon DEF AgreeFine
      <3>2. CASE nameOf[x] # n
        <4>1. MutexFree(nameOf[x])' => MutexFree(nameOf[x])
          BY <3>2, <1>0, <1>d, <1>r, Zenon DEF MutexFree
        <4> QED BY <3>2, <4>1, <1>0, <1>k, <1>q, TasksFine, Zenon DEF AgreeFine
      <3> QED BY <3>1, <3>2, Zenon
    <2>2. ASSUME NEW x \in Routine PROVE StoppedFine(x)'
      BY <1>0, <1>r, <1>q, <1>d, TasksFine, ZenonT(40) DEF StoppedFine
    <2>3. ASSUME NEW x \in Routine PROVE OutsideFine(x)'
      <3>1. Outside(x)' => Outside(x)
        BY <1>0, <1>1, <1>d, Zenon DEF Outside
      <3> QED BY <3>1, <1>0, <1>q, TasksFine, Zenon DEF OutsideFine
    <2>4. \A m \in Name : IdFine(m)'
      BY <1>0, TasksFine, Zenon DEF IdFine
    <2>5. ASSUME NEW j \in Prio PROVE QueueFine(j)'
      <3>1. CASE j # i
        BY <3>1, <1>1, TasksFine, ZenonT(40) DEF QueueFine
      <3>2. CASE j = i
        <4>2. ASSUME NEW h \in 1 .. Len(s) PROVE prioOf[nameOf[s[h]]] = i
          <5>1. CASE h < k
            BY <1>s, <1>k, <1>u, <5>1
          <5>2. CASE ~(h < k)
            <6>1. h + 1 \in 1 .. Len(q) /\ s[h] = q[h + 1]
              BY <5>2, <1>s, <1>k
            <6> QED BY <1>u, <6>1, Zenon
          <5> QED BY <5>1, <5>2, Zenon
        <4>3. ASSUME NEW g \in 1 .. Len(s), NEW h \in 1 .. Len(s),
                     nameOf[s[g]] = nameOf[s[h]]
              PROVE  g = h
          <5> DEFINE at(e) == IF e < k THEN e ELSE e + 1
          <5>1. \A e \in 1 .. Len(s) : at(e) \in 1 .. Len(q) /\ s[e] = q[at(e)]
            BY <1>s, <1>k
          <5>2. at(g) = at(h)
            <6> HIDE DEF at
            <6> QED BY <1>u, <4>3, <5>1
          <5> QED BY <5>2, <1>k
        <4> QED BY <3>2, <4>2, <4>3, <1>1, Zenon DEF QueueFine
      <3> QED BY <3>1, <3>2, Zenon
    <2> QED BY <1>0, <2>1, <2>2, <2>3, <2>4, <2>5, Zenon DEF IInv, TasksOK
  <1>6. ShutterFine'
    BY <1>0, <1>p, <1>1, Kinds, Values, Zenon DEF ShutterFine, IInv, Removing
  <1>7. ClientStep(c)
    <2>1. \A d \in Client \ {c} : pc[d] \in Locking => target[d] # n
      BY <1>p, <1>r, CallersFine, Zenon DEF Exclusive, Locking, Removing
    <2>2. \A d \in Client \ {c} : pc[d] \in Locking =>
            \A x \in Routine : nameOf[x] = target[d] => (InQueue(x)' <=> InQueue(x))
      BY <2>1, <1>q, <1>k, Zenon
    <2>3. Unused(r)
      <3>1. ASSUME NEW p \in Processor, pc[p] \in Holding PROVE cur[p] # r
        BY <3>1, <1>p, <1>f, Zenon DEF IInv, OneHolder
      <3>2. ASSUME NEW p \in Processor, pc[p] \in Reading,
                   NEW j \in 1 .. Len(scan[p])
            PROVE  scan[p][j] # r
        <4>1. prioOf[nameOf[scan[p][j]]] = prio[p]
          BY <3>2, ProcessorsFine, Zenon DEF ScanFine
        <4>2. prioOf[target[c]] # prio[p]
          BY <3>2, <1>p, Zenon DEF IInv, LocksOK
        <4> QED BY <4>1, <4>2, <1>k, <1>r, Zenon
      <3> QED BY <3>1, <3>2, Zenon DEF Unused
    <2> QED BY <1>0, <1>p, <1>1, <1>q, <2>2, <2>3, Zenon DEF ClientStep, Locking,
               Removing, Creating
  <1> QED BY <1>3, <1>5, <1>6, <1>7, ClientKeeps, Zenon

(* ------------------------------ The theorems ----------------------------- *)

\* Every further step of a client.
LEMMA OperateKeeps ==
  ASSUME IInv, TypeOK', NEW c \in Client, Operate(c)
  PROVE  IInv'
  BY DispatchInsertKeeps, AskQueueKeeps, DispatchEnqueueKeeps, DispatchNotifyKeeps,
     RegisterNotifyCallbackKeeps, RemoveEraseKeeps, RemoveFindKeeps, RemoveDropKeeps,
     RemoveReturnKeeps, ShutdownContextsKeeps, ShutdownListKeeps, StopProcessorsKeeps,
     JoinProcessorsKeeps, Zenon DEF Operate

\* Initially there are no tasks.
LEMMA InitIInv == Init => IInv
  <1> SUFFICES ASSUME Init PROVE IInv
    BY Zenon
  <1>1. TypeOK
    <2>1. ctxStop \in BOOLEAN /\ running_ \in BOOLEAN
      BY Zenon DEF Init
    <2>2. pc \in [Threads -> Positions]
      BY Zenon DEF Init, Positions
    <2>3. 0 \in Prio
      BY ClassicSchedulerConstants DEF Prio
    <2>4. cr_group_ \in [Prio -> Seq(Routine)] /\ scan \in [Processor -> Seq(Routine)]
      BY DEF Init
    <2> QED BY <2>1, <2>2, <2>3, <2>4, ClassicSchedulerConstants DEF Init, TypeOK
  <1>2. /\ \A p \in Processor : pc[p] = "loop"
        /\ \A c \in Client : pc[c] = "idle" /\ todo[c] = {}
        /\ \A w \in Notifier : pc[w] = "idle"
    BY Kinds, Zenon DEF Init
  <1>q. \A r \in Routine : ~InQueue(r)
    BY Names DEF Init, InQueue, Range
  <1>3. CallersOK
    BY <1>2, Zenon DEF CallersOK, ClientFine, MutexFine, NotifierFine, Exclusive,
       Creating,
       Removing, Locking
  <1>4. TasksOK
    <2>1. \A r \in Routine : AgreeFine(r) /\ StoppedFine(r) /\ OutsideFine(r)
      BY <1>q, Names, Zenon DEF Init, AgreeFine, StoppedFine, OutsideFine
    <2>2. \A i \in Prio : QueueFine(i)
      BY DEF Init, QueueFine
    <2>3. \A n \in Name : IdFine(n)
      BY Zenon DEF Init, IdFine
    <2> QED BY <2>1, <2>2, <2>3, Zenon DEF Init, TasksOK
  <1>5. ProcessorsOK /\ LocksOK
    BY <1>2, Zenon DEF ProcessorsOK, ProcessorFine, ScanFine, LocksOK, Holding,
       Body, Reading
  <1>6. ShutterFine /\ WaitingIsFlagged
    BY Zenon DEF Init, ShutterFine, WaitingIsFlagged
  <1>7. OneHolder
    BY <1>2, Zenon DEF Init, OneHolder, Holding, Body
  <1> QED BY <1>1, <1>3, <1>4, <1>5, <1>6, <1>7, Zenon DEF IInv

\* Nothing happens.
LEMMA StutterIInv ==
  ASSUME IInv, UNCHANGED vars
  PROVE  IInv'
  <1>1. UNCHANGED <<id_cr_, cr_group_, state_, updated_, lock_, force_stop_, resumeAt,
          notify_grp_, shutter, ctxStop, running_, created, registered, buffer, sent,
          pc, cur, scan, prio, target, todo>>
    BY Zenon DEF vars, taskVars, runVars, stopVars, visitorVars, scanVars, callVars
  <1>2. TypeOK'
    BY <1>1, Zenon DEF Positions, IInv, TypeOK
  <1>3. CallersOK'
    <2>1. ASSUME NEW c \in Client PROVE ClientFine(c)' /\ MutexFine(c)'
      BY <1>1, CallersFine, Zenon DEF ClientFine, MutexFine, InQueue
    <2>2. ASSUME NEW w \in Notifier PROVE NotifierFine(w)'
      BY <1>1, CallersFine, Zenon DEF NotifierFine
    <2>3. Exclusive'
      BY <1>1, CallersFine, Zenon DEF Exclusive
    <2> QED BY <2>1, <2>2, <2>3, Zenon DEF CallersOK
  <1>4. TasksOK'
    <2>1. ASSUME NEW r \in Routine
          PROVE  AgreeFine(r)' /\ StoppedFine(r)' /\ OutsideFine(r)'
      BY <1>1, TasksFine, Zenon DEF AgreeFine, StoppedFine, OutsideFine, Outside,
         InQueue, MutexFree
    <2>2. ASSUME NEW n \in Name PROVE IdFine(n)'
      BY <1>1, TasksFine, Zenon DEF IdFine
    <2>3. ASSUME NEW i \in Prio PROVE QueueFine(i)'
      BY <1>1, TasksFine, ZenonT(40) DEF QueueFine
    <2>4. \A r \in Routine : buffer'[r] = "unread" => r \in registered'
      BY <1>1, Zenon DEF IInv, TasksOK
    <2> QED BY <2>1, <2>2, <2>3, <2>4, Zenon DEF TasksOK
  <1>5. ProcessorsOK' /\ LocksOK' /\ ShutterFine' /\ OneHolder'
    <2>1. ProcessorsOK'
      BY <1>1, ZenonT(40) DEF IInv, ProcessorsOK, ProcessorFine, ScanFine, InQueue
    <2>2. LocksOK' /\ ShutterFine'
      BY <1>1, Zenon DEF IInv, LocksOK, ShutterFine
    <2>3. OneHolder'
      BY <1>1, Zenon DEF IInv, OneHolder
    <2> QED BY <2>1, <2>2, <2>3, Zenon
  <1>6. WaitingIsFlagged'
    BY <1>1, ZenonT(40) DEF IInv, WaitingIsFlagged, stop_
  <1> QED BY <1>2, <1>3, <1>4, <1>5, <1>6, Zenon DEF IInv

\* The invariant holds in every run.
LEMMA IInvHolds == Spec => []IInv
  <1>1. ASSUME IInv, [Next]_vars PROVE IInv'
    <2>1. ASSUME NEW p \in Processor, Process(p) PROVE IInv'
      BY <1>1, <2>1, ProcessKeeps, ProcessTypes, Zenon
    <2>2. ASSUME NEW r \in Routine, SleepOver(r) PROVE IInv'
      BY <1>1, <2>2, SleepOverKeeps, Zenon
    <2>3. ASSUME NEW c \in Client, NEW r \in Routine, CreateTask(c, r) PROVE IInv'
      BY <1>1, <2>3, CreateTaskKeeps, ClientTypes, Zenon
    <2>4. ASSUME NEW c \in Client, NEW n \in Name, RemoveTask(c, n) PROVE IInv'
      BY <1>1, <2>4, RemoveTaskKeeps, ClientTypes, Zenon
    <2>5. ASSUME NEW c \in Client, Shutdown(c) \/ Operate(c) PROVE IInv'
      BY <1>1, <2>5, ShutdownKeeps, OperateKeeps, ClientTypes, Zenon
    <2>6. ASSUME NEW w \in Notifier, Deliver(w) PROVE IInv'
      BY <1>1, <2>6, DeliverKeeps, DeliverTypes, Zenon
    <2>7. ASSUME NEW w \in Notifier, NEW n \in Name, Fill(w, n) PROVE IInv'
      BY <1>1, <2>7, FillKeeps, DeliverTypes, Zenon
    <2>8. ASSUME Terminated PROVE IInv'
      BY <1>1, <2>8, StutterIInv, Zenon DEF Terminated
    <2> QED BY <1>1, <2>1, <2>2, <2>3, <2>4, <2>5, <2>6, <2>7, <2>8, StutterIInv,
               Zenon DEF Next
  <1> QED BY <1>1, InitIInv, PTL DEF Spec

\* CRoutine::Acquire and Release make a routine the business of one processor
\* at a time: its stack is never entered twice.
THEOREM OneHolderHolds == Spec => []OneHolder
  <1>1. IInv => OneHolder
    BY Zenon DEF IInv
  <1> QED BY <1>1, IInvHolds, PTL

\* No wake-up is lost between the reader routine, which sets DATA_WAIT and then
\* looks for data, and NotifyProcessor, which is called after the data has been
\* put into the buffer: a routine that waits with an unread message is flagged,
\* or is about to be.
THEOREM WaitingIsFlaggedHolds == Spec => []WaitingIsFlagged
  <1>1. IInv => WaitingIsFlagged
    BY Zenon DEF IInv
  <1> QED BY <1>1, IInvHolds, PTL

\* What the invariant says of removed routines.
LEMMA GoneFromIInv == IInv => RemovedIsGone
  <1> SUFFICES ASSUME IInv, NEW r \in Routine, Removed(r)
               PROVE  /\ \A i \in Prio : r \notin Range(cr_group_[i])
                      /\ \A p \in Processor :
                           /\ pc[p] \in Holding => cur[p] # r
                           /\ pc[p] = "scan" => r \notin Range(scan[p])
    BY Zenon DEF RemovedIsGone
  <1>1. ~InQueue(r)
    BY TasksFine, Zenon DEF Removed, StoppedFine, Removing
  <1>2. ASSUME NEW i \in Prio, r \in Range(cr_group_[i]) PROVE FALSE
    <2>1. cr_group_[i] \in Seq(Routine)
      BY Values, Zenon
    <2>2. PICK k \in 1 .. Len(cr_group_[i]) : r = cr_group_[i][k]
      BY <1>2, <2>1 DEF Range
    <2> QED BY <1>1, <2>2, QueueElements, Zenon
  <1>3. ASSUME NEW p \in Processor
        PROVE  /\ pc[p] \in Holding => cur[p] # r
               /\ pc[p] = "scan" => r \notin Range(scan[p])
    <2>1. ProcessorFine(p) /\ scan[p] \in Seq(Routine)
      BY Values, Zenon DEF IInv, ProcessorsOK
    <2>2. pc[p] \in Holding => cur[p] # r
      BY <1>1, <2>1, Zenon DEF ProcessorFine
    <2>3. pc[p] = "scan" => \A k \in 1 .. Len(scan[p]) : scan[p][k] # r
      BY <1>1, <2>1, Zenon DEF ProcessorFine, Reading
    <2> QED BY <2>1, <2>2, <2>3 DEF Range
  <1> QED BY <1>2, <1>3, Zenon

\* What the invariant says of the tables.
LEMMA AgreeFromIInv == IInv => TasksAgree
  <1> SUFFICES ASSUME IInv, NEW n \in Name, NEW q, q = cr_group_[prioOf[n]]
               PROVE  /\ \A j, k \in Places(q, n) : j = k
                      /\ MutexFree(n) => {q[k] : k \in Places(q, n)} = {id_cr_[n]} \ {None}
    BY Zenon DEF TasksAgree
  <1>0. q \in Seq(Routine) /\ prioOf[n] \in Prio
    BY Names, Values, Zenon
  <1>1. \A j, k \in Places(q, n) : j = k
    <2>1. QueueFine(prioOf[n])
      BY <1>0, Zenon DEF IInv, TasksOK
    <2> QED BY <2>1, Zenon DEF QueueFine, Places
  <1>2. ASSUME MutexFree(n)
        PROVE  {q[k] : k \in Places(q, n)} = {id_cr_[n]} \ {None}
    <2>1. \A r \in Routine : nameOf[r] = n => (InQueue(r) <=> id_cr_[n] = r)
      BY <1>2, TasksFine, Zenon DEF AgreeFine
    <2>2. ASSUME NEW k \in Places(q, n) PROVE q[k] = id_cr_[n] /\ q[k] # None
      <3>1. k \in 1 .. Len(q) /\ nameOf[q[k]] = n
        BY Zenon DEF Places
      <3>2. q[k] \in Routine /\ InQueue(q[k])
        BY <1>0, <3>1, QueueElements, Zenon
      <3> QED BY <2>1, <3>1, <3>2, Names, Zenon
    <2>3. ASSUME id_cr_[n] # None PROVE \E k \in Places(q, n) : q[k] = id_cr_[n]
      <3>1. id_cr_[n] \in Routine /\ nameOf[id_cr_[n]] = n
        BY <2>3, Values, TasksFine, Zenon DEF IdFine
      <3>2. id_cr_[n] \in Range(q)
        BY <2>1, <3>1, Zenon DEF InQueue
      <3>3. PICK k \in 1 .. Len(q) : q[k] = id_cr_[n]
        BY <1>0, <3>2 DEF Range
      <3> QED BY <3>1, <3>3, Zenon DEF Places
    <2> QED BY <2>2, <2>3, Zenon
  <1> QED BY <1>1, <1>2, Zenon

\* RemoveCRoutine leaves nothing of a routine behind, id_cr_ and the run queues
\* agree whenever no one holds the mutex of the name, and after Shutdown no
\* processor runs.
THEOREM TasksGoneHolds == Spec => []TasksGone
  <1>1. IInv => ShutdownStopsAll
    BY Zenon DEF IInv, ShutterFine, ShutdownStopsAll
  <1>2. IInv => TasksGone
    BY <1>1, GoneFromIInv, AgreeFromIInv, Zenon DEF TasksGone
  <1> QED BY <1>2, IInvHolds, PTL
==============================================================================

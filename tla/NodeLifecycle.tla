--------------------------- MODULE NodeLifecycle ---------------------------
(***************************************************************************)
(* A process of the framework from Init to Clear: nodes, their readers and *)
(* writers, the routines that run the readers' callbacks, the topology     *)
(* thread that tells every listener of a change, the signal handler and    *)
(* the exit handler.                                                       *)
(*                                                                         *)
(* Every reader and writer is created and shut down by a thread of its     *)
(* own.  A message is not carried: a queued routine may run its callback   *)
(* at any time.  A reader is its node, its channel, the name of its task   *)
(* (node name, "_", channel name: two pairs may give one name) and the     *)
(* hash of that name (two names may give one hash).  A layout is one such  *)
(* choice, with the objects the program creates and whether it is sent a   *)
(* signal (sig = "none": one is still to come).                            *)
(***************************************************************************)
EXTENDS Naturals, FiniteSets

CONSTANTS Readers, Writers, None, Layouts

VARIABLES layout, state, mpc, sig, nodes, pc, init_, bound_, slots, joined,
          readers_, readers_mutex_, task_id_map, task_id, id_cr, victim, live,
          running, stop_, is_shutdown_, logger, copied, calling, writing,
          raced, fault

Objects == Readers \cup Writers
Ids == 1 .. 4
Node(o) == layout.node[o]
Channel(r) == layout.channel[r]
Name(r) == layout.name[r]
Hash(r) == layout.hash[r]

process == <<state, mpc, sig, logger>>
tasks == <<task_id_map, task_id, id_cr, victim, live, running>>
topology == <<slots, joined, copied, calling>>
objects == <<pc, init_, bound_, readers_, readers_mutex_, writing, nodes>>
downs == <<stop_, is_shutdown_>>
ghosts == <<raced, fault>>
vars == <<layout, process, tasks, topology, objects, downs, ghosts>>

OK == state = "INITIALIZED"
IsShutdown == state \in {"SHUTTING_DOWN", "SHUTDOWN"}

Start ==
    /\ layout \in Layouts
    /\ state = "UNINITIALIZED" /\ mpc = "start" /\ sig = layout.sig
    /\ logger = 0 /\ nodes = {}
    /\ pc = [o \in Objects |-> IF o \in layout.objects THEN "none" ELSE "refused"]
    /\ init_ = [o \in Objects |-> FALSE]
    /\ bound_ = [o \in Objects |-> FALSE]
    /\ slots = {} /\ joined = {} /\ readers_ = {}
    /\ readers_mutex_ = [n \in {Node(o) : o \in Objects} |-> None]
    /\ task_id_map = [i \in Ids |-> None]
    /\ task_id = [r \in Readers |-> 0]
    /\ id_cr = [i \in Ids |-> None]
    /\ victim = [r \in Readers |-> None]
    /\ live = [r \in Readers |-> "none"]
    /\ running = {} /\ stop_ = FALSE /\ is_shutdown_ = {}
    /\ copied = {} /\ calling = None
    /\ writing = {} /\ raced = {} /\ fault = {}

Goto(o, p) == pc' = [pc EXCEPT ![o] = p]

(***************************************************************************)
(* The process: cyber::Init and Clear run under g_mutex, in the main       *)
(* thread; the exit handler clears a second time.                          *)
(***************************************************************************)
InitLogger == logger' = 1
StopLogger ==
    /\ logger' = 0
    /\ fault' = IF logger = 0 THEN fault \cup {"logger deleted twice"} ELSE fault

InitProcess ==
    /\ mpc = "start"
    /\ InitLogger /\ mpc' = "run" /\ state' = "INITIALIZED"
    /\ UNCHANGED <<layout, sig, tasks, topology, objects, downs, ghosts>>

CreateNode(n) ==
    /\ OK /\ n \notin nodes
    /\ nodes' = nodes \cup {n}
    /\ UNCHANGED <<layout, process, tasks, topology, pc, init_, bound_,
                   readers_, readers_mutex_, writing, downs, ghosts>>

\* The handler of SIGINT reads the state and writes it in two steps.
OnShutdown ==
    \/ /\ sig = "none" /\ mpc /= "start" /\ state /= "SHUTDOWN"
       /\ sig' = "read" /\ UNCHANGED state
    \/ /\ sig = "read"
       /\ sig' = "done" /\ state' = "SHUTTING_DOWN"

Signal == OnShutdown
          /\ UNCHANGED <<layout, mpc, logger, tasks, topology, objects, downs, ghosts>>

WaitForShutdown ==
    /\ mpc = "run" /\ IsShutdown
    /\ mpc' = "clear"
    /\ UNCHANGED <<layout, state, sig, logger, tasks, topology, objects, downs, ghosts>>

\* A program that forgets why it was called clears whatever the state.
MustClear_Always == TRUE

MustClear == state \notin {"SHUTDOWN", "UNINITIALIZED"}

ClearBegin ==
    /\ mpc \in {"run", "clear", "exit"}
    /\ mpc' = CASE MustClear -> "scheduler" [] mpc = "exit" -> "done" [] OTHER -> "exit"
    /\ UNCHANGED <<layout, state, sig, logger, tasks, topology, objects, downs, ghosts>>

\* Scheduler::Shutdown stops every routine it finds; the ones that run are
\* waited for.
SchedulerCleanUp ==
    \/ /\ mpc = "scheduler" /\ ~stop_
       /\ stop_' = TRUE /\ mpc' = "routines"
       /\ live' = [r \in Readers |-> IF live[r] = "queued" /\ \E i \in Ids : id_cr[i] = r
                                     THEN "stopped" ELSE live[r]]
       /\ id_cr' = [i \in Ids |-> None]
       /\ UNCHANGED is_shutdown_
    \/ /\ mpc = "scheduler" /\ stop_
       /\ mpc' = "topology" /\ UNCHANGED <<downs, live, id_cr>>
    \/ /\ mpc = "routines" /\ running = {}
       /\ mpc' = "topology" /\ UNCHANGED <<downs, live, id_cr>>

Clear ==
    \/ SchedulerCleanUp
       /\ UNCHANGED <<state, logger, ghosts>>
    \/ /\ mpc = "topology"
       /\ mpc' = "transport" /\ is_shutdown_' = is_shutdown_ \cup {"topology"}
       /\ UNCHANGED <<state, logger, ghosts, stop_, live, id_cr>>
    \/ /\ mpc = "transport"
       /\ mpc' = "logger" /\ is_shutdown_' = is_shutdown_ \cup {"transport"}
       /\ raced' = raced \cup {o \in Objects : pc[o] \in {"register", "set", "dispatch", "bind"}}
       /\ UNCHANGED <<state, logger, fault, stop_, live, id_cr>>
    \/ /\ mpc = "logger"
       /\ StopLogger /\ state' = "SHUTDOWN" /\ mpc' = "exit"
       /\ raced' = IF sig = "read" THEN raced \cup {"signal"} ELSE raced
       /\ UNCHANGED <<stop_, is_shutdown_, live, id_cr>>

ClearStep == Clear
             /\ UNCHANGED <<layout, sig, task_id_map, task_id, victim, running,
                            topology, objects>>

(***************************************************************************)
(* Creating a reader.  Node::CreateReader holds readers_mutex_ throughout. *)
(***************************************************************************)
SameChannel(r, s) == Node(r) = Node(s) /\ Channel(r) = Channel(s)
Existing(r) == \E s \in readers_ : SameChannel(r, s)

\* A reader whose check for its channel is made before the lock is taken.
CreateReader_Unlocked(r) ==
    /\ pc[r] = "none" /\ Node(r) \in nodes
    /\ Goto(r, IF Existing(r) THEN "refused" ELSE "task")
    /\ init_' = [init_ EXCEPT ![r] = ~Existing(r)]
    /\ UNCHANGED <<layout, process, tasks, topology, bound_, readers_, readers_mutex_,
                   writing, nodes, downs, ghosts>>

\* NodeChannelImpl::CreateReader makes the object and calls its Init.
NewReader(r) == Goto(r, "task") /\ init_' = [init_ EXCEPT ![r] = TRUE]

CreateReader(r) ==
    /\ pc[r] = "none" /\ Node(r) \in nodes
    /\ readers_mutex_[Node(r)] = None
    /\ IF Existing(r)
       THEN Goto(r, "refused") /\ UNCHANGED <<readers_mutex_, init_>>
       ELSE NewReader(r) /\ readers_mutex_' = [readers_mutex_ EXCEPT ![Node(r)] = r]
    /\ UNCHANGED <<layout, process, tasks, topology, bound_, readers_,
                   writing, nodes, downs, ghosts>>

Release(r) == readers_mutex_' = [readers_mutex_ EXCEPT ![Node(r)] = None]

\* The reader is given up with init_ set: its destructor shuts it down.
FailInit_Kept(r) == Goto(r, "drop") /\ Release(r) /\ UNCHANGED init_

\* Init gives up: init_ is reset, so that the destructor's Shutdown does nothing.
FailInit(r) == Goto(r, "refused") /\ Release(r) /\ init_' = [init_ EXCEPT ![r] = FALSE]

\* RegisterTaskName: the first id from the hash on that is free or has the name.
Registered(r) == CHOOSE i \in Ids :
    /\ i >= Hash(r) /\ task_id_map[i] \in {None, Name(r)}
    /\ \A j \in Hash(r) .. i - 1 : task_id_map[j] \notin {None, Name(r)}

CreateTask(r) ==
    \/ /\ pc[r] = "task" /\ stop_
       /\ FailInit(r) /\ UNCHANGED <<tasks, raced>>
    \/ /\ pc[r] = "task" /\ ~stop_
       /\ Goto(r, "register") /\ UNCHANGED <<init_, readers_mutex_, tasks, raced>>
    \/ /\ pc[r] = "register"
       /\ task_id' = [task_id EXCEPT ![r] = Registered(r)]
       /\ raced' = IF \E s \in Readers \ {r} : pc[s] = "set" /\ task_id[s] = Registered(r)
                   THEN raced \cup {"registration"} ELSE raced
       /\ Goto(r, "set")
       /\ UNCHANGED <<init_, readers_mutex_, task_id_map, id_cr, victim, live, running>>
    \/ /\ pc[r] = "set"
       /\ task_id_map' = [task_id_map EXCEPT ![task_id[r]] = Name(r)]
       /\ Goto(r, "dispatch")
       /\ UNCHANGED <<init_, readers_mutex_, task_id, id_cr, victim, live,
                      running, raced>>

\* DispatchTask refuses an id that is taken.
DispatchTask(r) ==
    /\ pc[r] = "dispatch"
    /\ IF id_cr[task_id[r]] /= None
       THEN FailInit(r) /\ UNCHANGED <<id_cr, live>>
       ELSE /\ id_cr' = [id_cr EXCEPT ![task_id[r]] = r]
            /\ live' = [live EXCEPT ![r] = "queued"]
            /\ Goto(r, "bind") /\ UNCHANGED <<init_, readers_mutex_>>
    /\ UNCHANGED <<task_id_map, task_id, victim, running, raced>>

Routine(r) == (CreateTask(r) \/ DispatchTask(r))
              /\ UNCHANGED <<layout, process, topology, bound_, readers_, writing,
                             nodes, downs, fault>>

\* Transport::CreateReceiver: null once the transport is shut down.
CreateReceiver == "transport" \notin is_shutdown_

\* GetReceiver: the id of the receiver is read at once.
GetReceiver(r) ==
    /\ r \in Readers /\ pc[r] = "bind"
    /\ Goto(r, "listen")
    /\ bound_' = [bound_ EXCEPT ![r] = CreateReceiver]
    /\ fault' = IF bound_'[r] THEN fault ELSE fault \cup {r}
    /\ UNCHANGED <<init_, nodes>>

CreateTransmitter(w) ==
    IF "transport" \in is_shutdown_
    THEN Goto(w, "refused") /\ UNCHANGED <<init_, bound_>>
    ELSE /\ Goto(w, "listen")
         /\ init_' = [init_ EXCEPT ![w] = TRUE]
         /\ bound_' = [bound_ EXCEPT ![w] = TRUE]

CreateWriter(w) ==
    /\ w \in Writers /\ pc[w] = "none" /\ Node(w) \in nodes
    /\ CreateTransmitter(w)
    /\ UNCHANGED <<fault, nodes>>

Bind(o) == (GetReceiver(o) \/ CreateWriter(o))
           /\ UNCHANGED <<layout, process, tasks, topology, readers_, readers_mutex_,
                          writing, downs, raced>>

Connect(o) == slots' = slots \cup {o}

\* AddChangeListener, the peers known already are enabled, then Join.
JoinTheTopology(o) ==
    \/ /\ pc[o] = "listen" /\ bound_[o]
       /\ Connect(o) /\ Goto(o, "join")
       /\ UNCHANGED <<joined, readers_, readers_mutex_>>
    \/ /\ pc[o] = "join"
       /\ joined' = IF "topology" \in is_shutdown_ THEN joined ELSE joined \cup {o}
       /\ Goto(o, "ready") /\ UNCHANGED slots
       /\ IF o \in Readers THEN Release(o) /\ readers_' = readers_ \cup {o}
                           ELSE UNCHANGED <<readers_, readers_mutex_>>

JoinStep(o) == JoinTheTopology(o)
               /\ UNCHANGED <<layout, process, tasks, copied, calling, init_, bound_,
                              writing, nodes, downs, ghosts>>

(***************************************************************************)
(* Shutdown.  RemoveTask stops the routine whose id is the HASH of the     *)
(* name, and returns when that routine does not run.                       *)
(***************************************************************************)
Disconnect(o) == slots' = slots \ {o}

RacedBy(o) == IF calling = o \/ o \in writing THEN raced \cup {o} ELSE raced

\* The receiver is dropped while the listener is still connected.
LeaveTheTopology_Last(o) ==
    \/ /\ pc[o] = "ready"
       /\ init_' = [init_ EXCEPT ![o] = FALSE] /\ Goto(o, "leave")
       /\ bound_' = [bound_ EXCEPT ![o] = FALSE] /\ raced' = RacedBy(o)
       /\ UNCHANGED <<slots, joined>>
    \/ /\ pc[o] = "leave"
       /\ slots' = slots \ {o} /\ joined' = joined \ {o}
       /\ Goto(o, IF o \in Readers THEN "drop" ELSE "gone")
       /\ UNCHANGED <<init_, bound_, raced>>

LeaveTheTopology(o) ==
    \/ /\ pc[o] = "ready"
       /\ init_' = [init_ EXCEPT ![o] = FALSE] /\ Goto(o, "leave")
       /\ UNCHANGED <<slots, joined, bound_, raced>>
    \/ /\ pc[o] = "leave"
       /\ Disconnect(o) /\ raced' = RacedBy(o) /\ Goto(o, "left")
       /\ UNCHANGED <<init_, joined, bound_>>
    \/ /\ pc[o] = "left"
       /\ joined' = IF "topology" \in is_shutdown_ THEN joined ELSE joined \ {o}
       /\ bound_' = [bound_ EXCEPT ![o] = FALSE]
       /\ Goto(o, IF o \in Readers THEN "drop" ELSE "gone")
       /\ UNCHANGED <<init_, slots, raced>>

Leave(o) == LeaveTheTopology(o)
            /\ UNCHANGED <<layout, process, tasks, copied, calling, readers_,
                           readers_mutex_, writing, nodes, downs, fault>>

\* The routine found by the name's hash, and the wait until it does not run.
Stopped_Now(r) == TRUE
Stopped(r) == victim[r] \in Readers => victim[r] \notin running

RemoveTask(r) ==
    \/ /\ pc[r] = "drop"
       /\ IF stop_ \/ id_cr[Hash(r)] = None
          THEN Goto(r, "gone") /\ UNCHANGED <<id_cr, victim, live>>
          ELSE /\ victim' = [victim EXCEPT ![r] = id_cr[Hash(r)]]
               /\ live' = [live EXCEPT ![id_cr[Hash(r)]] = "stopped"]
               /\ id_cr' = [id_cr EXCEPT ![Hash(r)] = None]
               /\ Goto(r, "await")
    \/ /\ pc[r] = "await" /\ Stopped(r)
       /\ Goto(r, "gone") /\ UNCHANGED <<id_cr, victim, live>>

Remove(r) == RemoveTask(r)
             /\ UNCHANGED <<layout, process, task_id_map, task_id, running, topology, init_,
                            bound_, readers_, readers_mutex_, writing, nodes, downs, ghosts>>

\* A processor runs the reader's callback: Enqueue, then reader_func_.
RunRoutine(r) ==
    /\ \/ live[r] = "queued" /\ ~stop_ /\ r \notin running /\ running' = running \cup {r}
       \/ r \in running /\ running' = running \ {r}
    /\ UNCHANGED <<layout, process, task_id_map, task_id, id_cr, victim, live, topology,
                   objects, downs, ghosts>>

(***************************************************************************)
(* The topology thread: Signal's operator() copies the connected slots     *)
(* under its lock and calls them one by one; a slot disconnected since is  *)
(* skipped.                                                                *)
(***************************************************************************)
Change ==
    \/ /\ copied = {} /\ calling = None /\ slots /= {}
       /\ copied' = slots /\ UNCHANGED <<calling, fault>>
    \/ /\ calling = None
       /\ \E o \in copied : /\ copied' = copied \ {o}
                            /\ calling' = IF o \in slots THEN o ELSE None
       /\ UNCHANGED fault
    \/ /\ calling /= None                       \* OnChannelChange
       /\ fault' = IF bound_[calling] THEN fault ELSE fault \cup {calling}
       /\ calling' = None /\ UNCHANGED copied

Topology == Change
            /\ UNCHANGED <<layout, process, tasks, slots, joined, objects, downs, raced>>

\* Writer::Write checks init_, then uses the transmitter.
Write(w) ==
    /\ \/ w \notin writing /\ init_[w] /\ writing' = writing \cup {w} /\ UNCHANGED fault
       \/ /\ w \in writing /\ writing' = writing \ {w}
          /\ fault' = IF bound_[w] THEN fault ELSE fault \cup {w}
    /\ UNCHANGED <<layout, process, tasks, topology, pc, init_, bound_, readers_,
                   readers_mutex_, nodes, downs, raced>>

Next ==
    \/ InitProcess \/ Signal \/ WaitForShutdown \/ ClearBegin \/ ClearStep \/ Topology
    \/ \E n \in {Node(o) : o \in Objects} : CreateNode(n)
    \/ \E r \in Readers : CreateReader(r) \/ Routine(r) \/ Remove(r) \/ RunRoutine(r)
    \/ \E o \in Objects : Bind(o) \/ JoinStep(o) \/ Leave(o)
    \/ \E w \in Writers : Write(w)

Spec == Start /\ [][Next]_vars

-----------------------------------------------------------------------------
Collided == \E r, s \in Readers : Name(r) /= Name(s) /\ Hash(r) = Hash(s)

\* After Reader::Shutdown has returned the reader's callback neither runs nor
\* will: RemoveTask waits for a routine that runs.  While Clear stops the
\* scheduler RemoveTask does not wait, Clear does.  It holds as long as no two
\* task names collide: RemoveTask computes the hash of the name where
\* CreateTask may have been given a later id.
QuietAfterShutdown ==
    \A r \in Readers : pc[r] = "gone" /\ ~Collided =>
        /\ live[r] = "queued" => stop_
        /\ r \in running => mpc = "routines"

\* What another reader does, a failed creation under the same task name
\* included, never takes a ready reader's routine away.
RoutineKept ==
    \A r \in Readers : pc[r] = "ready" /\ ~Collided /\ ~stop_ => live[r] = "queued"

\* Tasks of different names have different ids, and a node has at most one
\* reader of a channel, unless two registrations overlapped: Has and Set of
\* the id map are two steps.
DistinctTasks ==
    /\ \A r, s \in Readers : (live[r] = "queued" /\ live[s] = "queued" /\ r /= s)
                               => task_id[r] /= task_id[s]
    /\ \A i \in Ids, r \in Readers :
         (id_cr[i] = r /\ "registration" \notin raced) => task_id_map[i] = Name(r)
    /\ \A r, s \in readers_ : SameChannel(r, s) => r = s

\* A null receiver or transmitter is used, or the logger deleted twice, only
\* when a change or a Write was under way while the object was shut down, when
\* Clear overtook an Init, or when the signal handler had read the state
\* before Clear ended and wrote it after.
FaultsOnlyRaced ==
    fault \subseteq raced \cup (IF "signal" \in raced THEN {"logger deleted twice"} ELSE {})
=============================================================================

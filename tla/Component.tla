------------------------------ MODULE Component ------------------------------
(***************************************************************************)
(* A component of one to four message channels, or of a timer: component/, *)
(* with Node::CreateReader and, in simulation mode, the blockers of        *)
(* blocker/ (Blocker, BlockerManager, IntraReader, IntraWriter).           *)
(*                                                                         *)
(* Proc is called by the component's routine (reality mode), by the thread *)
(* that publishes on its first channel (simulation mode), or by a timer.   *)
(* The scheduler and the timer appear as what ComponentBase::Shutdown uses *)
(* of them: RemoveTask waits for a routine that runs; ~Timer waits for a   *)
(* callback that runs, but not for a job that has locked its weak pointer  *)
(* to the task and not yet the task's mutex (ClassicScheduler, Timer).     *)
(***************************************************************************)
EXTENDS Naturals, Sequences, SequencesExt

CONSTANTS
  Modes,       \* a subset of {"reality", "simulation", "timer"}
  Arities,     \* numbers of channels, a subset of 1 .. 4
  Null,        \* nullptr
  Depth,       \* depth of the readers' QoS
  MaxMsgs,     \* bound: messages
  MaxClears    \* bound: calls of ClearData, Observe and SetHistoryDepth

ComponentConstants ==
  /\ Modes \subseteq {"reality", "simulation", "timer"} /\ Arities \subseteq 1 .. 4
  /\ {Depth, MaxMsgs, MaxClears} \subseteq Nat

VARIABLES
  mode, arity,
  bad,            \* the reader that cannot be created, if any
  todo,           \* readers that Initialize has still to create
  initialized,    \* "no", "failed" or "yes"
  readers_,       \* readers that exist and are not shut down
  blockers,       \* of each channel: Null, or its capacity and its newest messages first
  task,           \* the routine or the timer task exists
  func,           \* the blockers that the callback of reader 0 has captured exist
  pc, args,       \* the thread that calls Proc
  crashed,        \* that thread has used a null blocker
  is_shutdown_, spc,
  msgs, clears,
  clearing,       \* the channel whose ClearData is under way, if any
  late,           \* history: such a job was under way when the timer was destroyed
  emptied         \* history: ClearData (or a history of depth 0) between the
                  \* callback's check and its use

vars == <<mode, arity, bad, todo, initialized, readers_, blockers, task, func, pc, args,
          crashed, is_shutdown_, spc, msgs, clears, emptied, clearing, late>>

(* The orders in which the four Initialize create their readers. *)
CreationOrder1 == <<0>>
CreationOrder2 == <<1, 0>>
CreationOrder3 == <<1, 2, 0>>
CreationOrder4 == <<1, 2, 3, 0>>
CreationOrder == <<CreationOrder1, CreationOrder2, CreationOrder3, CreationOrder4>>

Channels == 0 .. arity - 1
Others == Channels \ {0}

TypeOK ==
  /\ mode \in Modes /\ arity \in Arities /\ bad \in 0 .. 3 \cup {Null}
  /\ todo \in Seq(0 .. 3) /\ initialized \in {"no", "failed", "yes"}
  /\ readers_ \subseteq Channels /\ DOMAIN blockers = 0 .. 3
  /\ {task, func, crashed, is_shutdown_, emptied, late} \subseteq BOOLEAN
  /\ pc \in {"idle", "taken", "check", "get", "flag", "locked", "proc", "dead"}
  /\ spc \in {"no", "clear", "readers", "task", "returned"}

(* The channel of reader "bad" has no name, or the node already has a      *)
(* reader of it.                                                           *)
Init ==
  /\ mode \in Modes /\ arity \in Arities
  /\ bad \in {Null} \cup (IF mode = "timer" THEN {} ELSE Channels)
  /\ todo = IF mode = "timer" THEN <<>> ELSE CreationOrder[arity]
  /\ initialized = "no" /\ readers_ = {} /\ blockers = [c \in 0 .. 3 |-> Null]
  /\ task = FALSE /\ func = FALSE /\ pc = "idle" /\ args = <<>> /\ crashed = FALSE
  /\ is_shutdown_ = FALSE /\ spc = "no" /\ msgs = 0 /\ clears = 0 /\ emptied = FALSE
  /\ clearing = Null /\ late = FALSE

-----------------------------------------------------------------------------
(* Blocker and BlockerManager *)

NewBlocker(capacity) ==
  [capacity |-> capacity, published |-> <<>>, observed |-> <<>>, subscribed |-> FALSE]

(* GetOrCreateBlocker: the first to come sets the capacity. *)
GetOrCreateBlocker(b, capacity) == IF b = Null THEN NewBlocker(capacity) ELSE b

(* The newest n of a queue. *)
Trimmed(q, n) == SubSeq(q, 1, IF Len(q) > n THEN n ELSE Len(q))

(* Blocker::Enqueue *)
Enqueue(b, m) ==
  IF b.capacity = 0 THEN b ELSE [b EXCEPT !.published = Trimmed(<<m>> \o @, b.capacity)]

(* BlockerManager::Publish: the blocker is created with the default capacity. *)
Publish(b, m) == Enqueue(GetOrCreateBlocker(b, 10), m)

(* Mutant: set_capacity without the loop. *)
SetCapacity_Kept(b, n) == [b EXCEPT !.capacity = n]

(* Blocker::set_capacity, Observe, ClearObserved and ClearPublished *)
SetCapacity(b, n) == [b EXCEPT !.capacity = n, !.published = Trimmed(@, n)]
Observed(b) == [b EXCEPT !.observed = b.published]
ClearObserved(b) == [b EXCEPT !.observed = <<>>]
ClearPublished(b) == [b EXCEPT !.published = <<>>]

(* Blocker::GetLatestPublishedPtr, GetLatestObservedPtr, GetOldestObservedPtr *)
Latest(b) == IF b.published = <<>> THEN Null ELSE Head(b.published)
LatestObserved(b) == IF b.observed = <<>> THEN Null ELSE Head(b.observed)
OldestObserved(b) == IF b.observed = <<>> THEN Null ELSE Last(b.observed)

(* IntraReader, for a reader of channel c: what it answers. *)
Empty(c) == blockers[c] = Null \/ blockers[c].observed = <<>>
HasReceived(c) == blockers[c] # Null /\ blockers[c].published # <<>>
GetHistoryDepth(c) == IF blockers[c] = Null THEN 0 ELSE blockers[c].capacity
GetLatestObserved(c) == IF blockers[c] = Null THEN Null ELSE LatestObserved(blockers[c])
GetOldestObserved(c) == IF blockers[c] = Null THEN Null ELSE OldestObserved(blockers[c])

Subscribe(b) == [b EXCEPT !.subscribed = TRUE]

(* cb_mutex_ of the first channel's blocker: Notify holds it. *)
CallbacksFree == pc \in {"idle", "taken", "dead"}

-----------------------------------------------------------------------------
(* Initialize *)

(* The configuration lacks a reader or an interval, or the user's Init()   *)
(* fails, before anything is created.                                      *)
InitFails ==
  /\ initialized = "no" /\ readers_ = {} /\ todo' = <<>>
  /\ todo = IF mode = "timer" THEN <<>> ELSE CreationOrder[arity]
  /\ initialized' = "failed"
  /\ UNCHANGED <<mode, arity, bad, readers_, blockers, task, func, pc, args, crashed,
                 is_shutdown_, spc, msgs, clears, emptied, clearing, late>>

(* Node::CreateReader of the next reader. In simulation mode it subscribes *)
(* to the blocker, which reader 0's callback calls with the others' ones.  *)
CreateReader ==
  /\ todo # <<>> /\ initialized = "no" /\ todo' = Tail(todo)
  /\ LET r == Head(todo)
         callbacks == r = 0 /\ mode = "simulation"
     IN /\ callbacks => CallbacksFree
        /\ func' = IF callbacks THEN \A c \in Others : blockers[c] # Null ELSE func
        /\ IF r = bad THEN UNCHANGED <<readers_, blockers>>
           ELSE /\ readers_' = readers_ \cup {r}
                /\ blockers' = IF mode # "simulation" THEN blockers
                     ELSE [blockers EXCEPT ![r] = Subscribe(GetOrCreateBlocker(@, Depth))]
  /\ UNCHANGED <<mode, arity, bad, initialized, task, pc, args, crashed, is_shutdown_, spc,
                 msgs, clears, emptied, clearing, late>>

(* All readers are there, or not: in reality mode CreateTask follows,      *)
(* which fails if the name is taken or the scheduler has stopped, and a    *)
(* TimerComponent starts its timer.                                        *)
FinishInitialize ==
  /\ todo = <<>> /\ initialized = "no"
  /\ \/ /\ mode = "timer" \/ readers_ = Channels
        /\ initialized' = "yes" /\ task' = (mode # "simulation")
     \/ /\ mode = "reality" \/ (mode # "timer" /\ readers_ # Channels)
        /\ initialized' = "failed" /\ task' = FALSE
  /\ UNCHANGED <<mode, arity, bad, todo, readers_, blockers, func, pc, args, crashed,
                 is_shutdown_, spc, msgs, clears, emptied, clearing, late>>

-----------------------------------------------------------------------------
(* Messages, and the thread that calls Proc *)

(* IntraWriter::Write on another channel than the first: GetOrCreate, Enqueue. *)
Write(c) ==
  /\ mode = "simulation" /\ c \in Others /\ msgs < MaxMsgs /\ msgs' = msgs + 1
  /\ blockers' = [blockers EXCEPT ![c] = Publish(@, msgs')]
  /\ UNCHANGED <<mode, arity, bad, todo, initialized, readers_, task, func, pc, args, crashed,
                 is_shutdown_, spc, clears, emptied, clearing, late>>

(* Write on the first channel: Enqueue, ... *)
WriteFirst ==
  /\ mode = "simulation" /\ pc = "idle" /\ msgs < MaxMsgs /\ msgs' = msgs + 1
  /\ blockers' = [blockers EXCEPT ![0] = Publish(@, msgs')]
  /\ args' = <<msgs'>> /\ pc' = "taken"
  /\ UNCHANGED <<mode, arity, bad, todo, initialized, readers_, task, func, crashed,
                 is_shutdown_, spc, clears, emptied, clearing, late>>

(* ... then Notify, which holds cb_mutex_ while the callback runs. *)
Notify ==
  /\ mode = "simulation" /\ pc = "taken"
  /\ pc' = IF blockers[0].subscribed THEN "check" ELSE "idle"
  /\ UNCHANGED <<mode, arity, bad, todo, initialized, readers_, blockers, task, func, args, crashed,
                 is_shutdown_, spc, msgs, clears, emptied, clearing, late>>

(* The callback of reader 0 looks whether the other channels have messages ... *)
CheckOthers ==
  /\ pc = "check"
  /\ crashed' = ~func
  /\ pc' = IF ~func THEN "dead"
           ELSE IF \E c \in Others : blockers[c].published = <<>> THEN "idle" ELSE "get"
  /\ emptied' = FALSE
  /\ UNCHANGED <<mode, arity, bad, todo, initialized, readers_, blockers, task, func, args,
                 is_shutdown_, spc, msgs, clears, clearing, late>>

(* ... and then takes the newest of each. *)
GetLatest ==
  /\ pc = "get" /\ pc' = "flag"
  /\ args' = args \o [i \in 1 .. arity - 1 |-> Latest(blockers[i])]
  /\ UNCHANGED <<mode, arity, bad, todo, initialized, readers_, blockers, task, func, crashed,
                 is_shutdown_, spc, msgs, clears, emptied, clearing, late>>

(* The routine has messages of all channels. *)
Resume ==
  /\ mode = "reality" /\ task /\ pc = "idle" /\ pc' = "flag"
  /\ UNCHANGED <<mode, arity, bad, todo, initialized, readers_, blockers, task, func, args, crashed,
                 is_shutdown_, spc, msgs, clears, emptied, clearing, late>>

(* A job of the timer locks its weak pointer to the task, ... *)
Fire ==
  /\ mode = "timer" /\ task /\ pc = "idle" /\ pc' = "locked"
  /\ UNCHANGED <<mode, arity, bad, todo, initialized, readers_, blockers, task, func, args, crashed,
                 is_shutdown_, spc, msgs, clears, emptied, clearing, late>>

(* ... then the task's mutex; its callback calls Proc itself, not Process. *)
TimerCallback ==
  /\ pc = "locked" /\ pc' = "proc"
  /\ UNCHANGED <<mode, arity, bad, todo, initialized, readers_, blockers, task, func, args, crashed,
                 is_shutdown_, spc, msgs, clears, emptied, clearing, late>>

Process ==
  /\ pc = "flag" /\ pc' = IF is_shutdown_ THEN "idle" ELSE "proc"
  /\ UNCHANGED <<mode, arity, bad, todo, initialized, readers_, blockers, task, func, args, crashed,
                 is_shutdown_, spc, msgs, clears, emptied, clearing, late>>

ProcReturns ==
  /\ pc = "proc" /\ pc' = "idle" /\ args' = <<>> /\ late' = FALSE
  /\ UNCHANGED <<mode, arity, bad, todo, initialized, readers_, blockers, task, func, crashed,
                 is_shutdown_, spc, msgs, clears, emptied, clearing>>

(* IntraReader::ClearData of any reader of the channel: the observed       *)
(* messages, then the published ones, each with msg_mutex_.                *)
ClearData(c) ==
  /\ mode = "simulation" /\ c \in Channels /\ blockers[c] # Null /\ clearing = Null
  /\ clears < MaxClears /\ clears' = clears + 1
  /\ blockers' = [blockers EXCEPT ![c] = ClearObserved(@)] /\ clearing' = c
  /\ UNCHANGED <<mode, arity, bad, todo, initialized, readers_, task, func, pc, args, crashed,
                 is_shutdown_, spc, msgs, emptied, late>>

ClearDataEnds ==
  /\ clearing # Null /\ clearing' = Null
  /\ blockers' = [blockers EXCEPT ![clearing] = ClearPublished(@)]
  /\ emptied' = TRUE
  /\ UNCHANGED <<mode, arity, bad, todo, initialized, readers_, task, func, pc, args, crashed,
                 is_shutdown_, spc, msgs, clears, late>>

(* IntraReader::Observe and SetHistoryDepth: nothing without a blocker. *)
Observe(c) ==
  /\ mode = "simulation" /\ c \in Channels /\ blockers[c] # Null
  /\ clears < MaxClears /\ clears' = clears + 1
  /\ blockers' = [blockers EXCEPT ![c] = Observed(@)]
  /\ UNCHANGED <<mode, arity, bad, todo, initialized, readers_, task, func, pc, args, crashed,
                 is_shutdown_, spc, msgs, emptied, clearing, late>>

SetHistoryDepth(c, depth) ==
  /\ mode = "simulation" /\ c \in Channels /\ blockers[c] # Null
  /\ clears < MaxClears /\ clears' = clears + 1
  /\ blockers' = [blockers EXCEPT ![c] = SetCapacity(@, depth)]
  /\ emptied' = (emptied \/ depth = 0)
  /\ UNCHANGED <<mode, arity, bad, todo, initialized, readers_, task, func, pc, args, crashed,
                 is_shutdown_, spc, msgs, clearing, late>>

(* IntraWriter::Init: the blocker, with the default capacity. *)
CreateWriter(c) ==
  /\ mode = "simulation" /\ c \in Channels /\ blockers[c] = Null
  /\ blockers' = [blockers EXCEPT ![c] = GetOrCreateBlocker(@, 10)]
  /\ UNCHANGED <<mode, arity, bad, todo, initialized, readers_, task, func, pc, args, crashed,
                 is_shutdown_, spc, msgs, clears, emptied, clearing, late>>

-----------------------------------------------------------------------------
(* ComponentBase::Shutdown *)

Shutdown ==
  /\ initialized = "yes" /\ spc = "no" /\ spc' = "clear"
  /\ is_shutdown_' = TRUE
  /\ UNCHANGED <<mode, arity, bad, todo, initialized, readers_, blockers, task, func, pc, args, crashed,
                 msgs, clears, emptied, clearing, late>>

(* Clear(): a TimerComponent destroys its timer; Stop locks the mutex of    *)
(* the task before it lets it go.                                          *)
Clear ==
  /\ spc = "clear" /\ spc' = "readers"
  /\ mode = "timer" => pc # "proc"
  /\ late' = (pc = "locked")
  /\ task' = (task /\ mode # "timer")
  /\ UNCHANGED <<mode, arity, bad, todo, initialized, readers_, blockers, func, pc, args, crashed,
                 is_shutdown_, msgs, clears, emptied, clearing>>

(* Mutant: Unsubscribe without cb_mutex_. *)
ShutdownReader_Unlocked ==
  /\ spc = "readers"
  /\ IF readers_ = {} THEN spc' = "task" /\ UNCHANGED <<readers_, blockers>>
     ELSE \E r \in readers_ :
            /\ \A s \in readers_ : r <= s
            /\ readers_' = readers_ \ {r} /\ spc' = spc
            /\ blockers' = IF mode = "simulation" THEN [blockers EXCEPT ![r].subscribed = FALSE]
                           ELSE blockers
  /\ UNCHANGED <<mode, arity, bad, todo, initialized, task, func, pc, args, crashed,
                 is_shutdown_, msgs, clears, emptied, clearing, late>>

(* Each reader's Shutdown: Unsubscribe, with cb_mutex_. *)
ShutdownReader ==
  /\ spc = "readers"
  /\ IF readers_ = {} THEN spc' = "task" /\ UNCHANGED <<readers_, blockers>>
     ELSE \E r \in readers_ :
            /\ \A s \in readers_ : r <= s
            /\ r = 0 /\ mode = "simulation" => CallbacksFree
            /\ readers_' = readers_ \ {r} /\ spc' = spc
            /\ blockers' = IF mode = "simulation" THEN [blockers EXCEPT ![r].subscribed = FALSE]
                           ELSE blockers
  /\ UNCHANGED <<mode, arity, bad, todo, initialized, task, func, pc, args, crashed,
                 is_shutdown_, msgs, clears, emptied, clearing, late>>

(* RemoveTask, which waits for the routine. *)
RemoveTask ==
  /\ spc = "task" /\ spc' = "returned"
  /\ mode = "reality" => pc = "idle"
  /\ task' = FALSE
  /\ UNCHANGED <<mode, arity, bad, todo, initialized, readers_, blockers, func, pc, args, crashed,
                 is_shutdown_, msgs, clears, emptied, clearing, late>>

Next ==
  \/ InitFails \/ CreateReader \/ FinishInitialize
  \/ \E c \in 0 .. 3 :
       \/ Write(c) \/ CreateWriter(c) \/ ClearData(c) \/ Observe(c)
       \/ \E depth \in {0, 1} : SetHistoryDepth(c, depth)
  \/ ClearDataEnds
  \/ WriteFirst \/ Notify \/ CheckOthers \/ GetLatest \/ Resume \/ Fire \/ TimerCallback
  \/ Process \/ ProcReturns
  \/ Shutdown \/ Clear \/ ShutdownReader \/ RemoveTask

Spec == Init /\ [][Next]_vars

-----------------------------------------------------------------------------
(* Properties *)

(* When Shutdown has returned, Proc does not run and is not called again:  *)
(* ModuleController unloads its code next.  Only a TimerComponent's may    *)
(* still run once, by a job that had the task before Stop.                 *)
QuietAfterShutdown == spc = "returned" /\ ~late => pc \in {"idle", "taken", "dead"}

(* Proc gets a message of every channel; a null one only when ClearData    *)
(* came between the callback's check and its use.                          *)
ProcGetsMessages ==
  mode = "simulation" /\ pc \in {"flag", "proc"} /\ ~emptied =>
    Len(args) = arity /\ \A i \in 1 .. arity : args[i] # Null

(* What the readers of a channel see is whole: its newest messages first,  *)
(* no more of the published ones than the history depth, and Empty,        *)
(* HasReceived and the latest and oldest observed message agree, whatever  *)
(* was published or cleared since Observe.                                 *)
ReaderViewWhole ==
  \A c \in Channels :
    /\ HasReceived(c) => Len(blockers[c].published) <= GetHistoryDepth(c)
    /\ Empty(c) <=> GetLatestObserved(c) = Null
    /\ Empty(c) <=> GetOldestObserved(c) = Null
    /\ blockers[c] # Null => \A q \in {blockers[c].published, blockers[c].observed} :
         \A i, j \in 1 .. Len(q) : i < j => q[i] > q[j]

(* The callback uses a blocker that does not exist only when another       *)
(* reader could not be created: Initialize looks at them only after it has *)
(* subscribed reader 0.                                                    *)
NullBlockerOnlyOnFailure == crashed => bad \in Others
=============================================================================

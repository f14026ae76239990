# Cyber RT in TLA+

TLA+ models of Apollo Cyber RT (`src/cyber`), the TLC configurations that check
them on small instances, and TLAPS proofs for every value of the constants.

## 1. The system

Cyber RT runs *components* in a process: callbacks on the messages of channels
and on timers. Everything is multi-threaded and most of it is hand-made: locks,
queues, a coroutine scheduler, a timing wheel, shared memory.

| Part | State | Operations | What makes it hard |
| --- | --- | --- | --- |
| Locks, queues (`base/`) | counters, ring, flags | lock, unlock, enqueue, dequeue, wait, break | every atomic access interleaves; weak compare-exchange; wrap-around |
| Scheduler (`croutine/`, `scheduler/`) | routines and their states, run queues, tokens, task map | next routine, resume, notify, wait, create, remove, shut down | two processors at one routine; a message between the last look and the wait; removal while running |
| Data (`data/`) | ring of each channel, fusion callback | fill, fetch, fuse | several dispatching threads; readers that are overtaken |
| Tasks (`task/`), thread pool | queue, worker states, futures | enqueue, run, notify, stop | lost wake-ups; stop while tasks are queued |
| Timers (`timer/`) | two wheels and their indices, TimerTask with weak pointers | start, tick, cascade, fire, put back, stop | AddTask races with the tick; Stop races with the callback |
| Logger (`logger/`) | two buffers, a spin flag | write, swap, flush, stop | swap against write and stop |
| Shared memory (`transport/shm/`) | blocks with lock counts; segments with a reference count and a remap flag | acquire, write, read, release; create, open, remap, destroy | processes share memory without a common lock; a segment is replaced in use |
| Discovery (`service_discovery/`) | tables of nodes, services, writers, readers in every process; node graph; listeners | join, leave, remote change, departure, notify | messages of two publishers are not ordered; three threads work on one table |
| Transport (`transport/`) | peers, listeners, history, notifier ring | enable, disable, transmit, dispatch | peers come and go under traffic; readers are overrun; datagrams get lost |
| Services (`service/`, `parameter/`) | requests, pending answers, queues | request, answer, time out, destroy | time-out against a late answer; destruction under a request |
| Nodes and components (`node/`, `component/`, `blocker/`, `init.cc`) | readers, writers, their routines, state of the process | create, init, publish, observe, shut down, signal | shutdown under callbacks, twice, and of half-made objects |
| Libraries (`class_loader/`, `mainboard/`) | factories, loaders, objects | load, create, release, unload | a library with objects in use; a module that fails in the middle |
| Records (`record/`, `cyber_recorder`) and log files | chunks, file, flush thread; play buffer | write, flush, split, recover, read, play | a crash in the middle of a file; a full disk |
| `io/`, Python binding, monitor, Livox driver | poll table; capsules; screen; frames | register, poll; call back; key; receive | an answer before the question waits; callbacks of deleted objects; memory shared without a lock |

How they interact: a transmitter writes a message (shared memory or RTPS), a
dispatcher reads it and calls the listeners, which fill the channel buffers and
notify the scheduler; a processor resumes the reader's routine, which fetches
from the buffer. Discovery tells transmitters and receivers who their peers
are. Timers and `Async` hand their callbacks to the task manager's routines.

`PROJECT.json` lists every part with its sources, and the hazards with the line
at which each bites.

## 2. The modules

A module models one component: its VARIABLES are the component's fields (with
their names), an action is a handler or, where another thread may come in
between, a stretch of it between two accesses to shared state. A section under
a mutex is one step, unless something in it waits.

| Module | Models | Abstracts |
| --- | --- | --- |
| `AtomicRWLock` | `base/atomic_rw_lock.h`, each atomic access a step | yields |
| `RWLockSpec` | what a readers-writer lock promises | |
| `BoundedQueue` | `base/bounded_queue.h`, each atomic access a step, a copy of an element two | 64-bit counters do not wrap |
| `QueueSpec` | what a bounded FIFO queue promises | |
| `ClassicScheduler` | `CRoutine`, reader routine, `Processor`, `ClassicContext`, `SchedulerClassic`, `Scheduler` for one group | a buffer is "holds an unread message" |
| `CacheBuffer`, `ChannelReader` | the ring of a channel and the one-channel `DataVisitor` | messages are numbers |
| `LossyChannelSpec` | what a reader is promised | |
| `AllLatest` | `data/fusion/all_latest.h` with N further channels | |
| `TaskManager` | `task/`: Enqueue, the pool's routines, Shutdown | the queue is `QueueSpec`'s, which `BoundedQueue` implements |
| `ThreadPool` | `base/thread_pool.h` with `BlockWaitStrategy` | same |
| `AsyncLogger` | `logger/async_logger.cc` | one log file |
| `TimingWheel` | `timer/timing_wheel.cc` | time in ticks |
| `Timer`, `TimerPeriod` | `timer/timer.cc`: life of a task; arithmetic of its period | NS units in a millisecond |
| `ShmBlocks` | `block.cc`, the block part of `segment.cc`, Transmit, ThreadFunc | contents are a number and "whole or torn" |
| `ShmSegment` | `segment.cc`, `xsi_segment.cc`, `posix_segment.cc`: creation, opening, remap | sizes are classes |
| `Warehouse` | `service_discovery/container`, `role/` | host name and process id together |
| `RoleDiscovery` | `Manager` with `NodeManager` or `ServiceManager`, in every process | RTPS: reliable, in order for each publisher, no order between two |
| `ChannelManager` | `channel_manager.cc`, `container/graph.cc`, `base/signal.h`, join and leave of `Reader` and `Writer` | the other processes: what they publish and that they may go |
| `Choreography` | `scheduler_choreography.cc`, `choreography_context.cc` | thread attributes |
| `ConditionNotifier` | `condition_notifier.cc`, `multicast_notifier.cc` | an announcement is its number |
| `ShmDispatcher`, `IntraDispatcher` | `transport/dispatcher/`, `listener_handler.h`, `base/signal.h` | one channel |
| `HybridTransport` | `hybrid_transmitter.h`, `hybrid_receiver.h`, `history.h` | each transport is a queue |
| `Services` | `service/`, `parameter/` as the service | one parameter; RTPS reliable |
| `WireFormats` | serialisations, QoS, parameters, times, GPS, CPU sets, type registration; `Rate`, `Clock` | small words and bytes, widths kept |
| `Component` | `component/`, `blocker/`, `Node::CreateReader` | scheduler and timer as far as Shutdown uses them |
| `NodeLifecycle` | `init.cc`, `state.cc`, `node/`, task names of the scheduler | messages |
| `ModuleLoader` | `class_loader/`, `mainboard/` | one base class |
| `BaseContainers` | the other containers and locks of `base/`, each atomic access a step | weak exchanges do not fail by chance |
| `RecordFile`, `RecordView` | `record/`, recorder, recoverer, spliter | positions are numbers of sections |
| `Player` | `cyber_recorder/player/` | sleeps take any time |
| `LogFile` | `log_file_object.cc`, `logger.cc`, `AsyncLogger::FlushBuffer` | a message has length one |
| `Poller` | `io/` | time in polls |
| `PyBindings` | `python/internal`, `python/cyber_py3` | calls that change nothing but a plain object are left out |
| `Monitor` | `cyber_monitor/` | columns and colours; a line of a message is its number, a string the number of its lines |
| `Livox` | `modules/drivers/livox`, `pcl_viewer` | contents of commands |

The variables that are not fields are history variables of the properties
(`exposed`, `unheard`, `late`, `raced`, `overlapped`, `left`, `age`...), each
explained where it is declared; they guard no action.

## 3. The runs

Components that do not interact share a run: the MC module has a variable
(`part` or `topic`) that the initial state chooses, and only the component it
names moves. The state spaces add; they do not multiply. The instances of such
a module share its variables `x1`, `x2`, ..., except where a temporal property
has to be a formula on variables of one type. An MC module extends the modules
of which theorems speak, so that the run and the theorem are about the same
definition: `MCThreads` extends `AtomicRWLock` and `TimerPeriod` (whose `Init`,
`Next` and so on are therefore named `PeriodInit`, `PeriodNext`), `MCScheduler`
extends `ClassicScheduler`, `MCDiscovery` `ChannelManager`. A property of the MC module
states one promise of the system; it names, for each component that has a part
in it, the invariants of that component's module, where each is explained.

| Run | Instance | Shows |
| --- | --- | --- |
| `bounded_queue` | 2 producers, 2 consumers, capacity 2 in a ring of 4, tail up to 5 | the queue implements `QueueSpec`; slots have one owner; a rejection means full or a stale tail |
| `sched_live` | classic: 2 processors, 1 task, 1 client, 1 notifier, 2 messages | no lost wake-up; under weak fairness the message is fetched, removal and shutdown return |
| `sched_safety` | classic: 2 processors, 2 routines of one name, 2 clients; choreography: 5 configurations, 2 tasks, one with a message for a task of a pool of 2 processors | one holder of a routine, nothing left of a removed task; a choreographed task runs where it is placed, and is woken there, unless the pool misses the flag (section 5) |
| `workers` | task manager: 2 routines, 2 tasks; pool: 2 workers, 2 tasks; logger: 2 writers; queue: 3 threads and BreakAllWait | no task or message lost or doubled; what was noticed is done; shutdowns return |
| `timers` | lock: 3 threads, writers first; periods with every delay; wheels of 4 and 2; 2 tasks | exclusion, exact counters, writers get in, the lock implements `RWLockSpec`; no drift, never ahead, a task fires on its tick, jobs do not pile up, a periodic timer keeps firing |
| `discovery` | 2 processes, 3 roles of each kind, one process may go | tables and flow directions exact at rest, duplicated nodes caught, no peer missed, node graph exact at every moment |
| `transport` | reader: queues of 3 and 0, 16 messages; fusion of 3 channels; blocks: 2 writers, 2 readers, 2 blocks; segments, XSI and POSIX: 1 writer and 1 reader with 2 segments, 2 writers with 3; notifiers: 2 writers, ring of 2; dispatchers: 2 and 3 receivers; hybrid: 2 receivers, 2 modes; services: clients, time-outs, a restart; formats: every sample | the reader implements `LossyChannelSpec`, fused tuples are fresh and in order; no torn or old block; layouts and counts agree; announcements once and in order; a listener is served from AddListener to RemoveListener; a late peer gets the history and everything after it; a call gets its own answer or none; what is written is read back |
| `platform` | records: 2 channels, 5 messages, 1 failure, crash at any time; views of 1 or 2 records; log: 2 writers, 2 messages to a file; poller: 1 descriptor, 2 closes; node: 6 layouts of readers and writers; containers: 8 plans of 3 threads; and so on (constants at the head of `MCPlatform.tla`) | what is taken is on disk, recovered, shown and played once and in order; no callback after Shutdown or of a freed object; libraries outlive their objects, containers hand out nothing twice; screen and viewer show what was received |
| `thread_pool_hang` (violation) | 1 worker, 1 task | the destructor may wait for ever |
| `shm_segment_index` (violation) | 1 writer, 1 reader, 2 segments | an index checked against one segment is used in another |
| `discovery_servers` (violation) | 2 processes serve one service in turn | `HasService` is false while the server runs |
| `poller_timeout` (violation) | 1 descriptor, time-outs only | a transfer with a time-out may never return |

**Bounds.** Two competing threads or processes as a rule, and three threads where
the third matters (a reader, a writer and a waiting writer; the thread that
re-inserts a node between another's load and exchange). Exceptions: one notifier
in the scheduler's runs, one descriptor of the poller, one reader beside one
writer of a segment. Records that overlap in time are two, of two messages at
most. The unbounded queue has four addresses for its nodes, so that one is used
again. The ring of `BoundedQueue` wraps
(tail 5 in 4 slots), the ring of `CacheBuffer` wraps three times, the
notifier's ring is lapped (4 announcements in 2 slots), the timing wheel is
entered in every phase with every duration, those beyond the maximum included that
a periodic timer asks for. Three segments are an original, its successor and the
successor's, or those of two writers. A record has two chunks at least, so that
one is flushed while the other fills, and two segments. `MaxTail`, `MaxFill`,
`MaxMsgs`, `MaxDown`... are guards on the environment, named where they are
declared.

**Deadlock** is checked where the system runs for ever (`bounded_queue`,
`sched_live`, `poller_timeout`). The others contain components that end: tasks,
messages, roles and keys are finite and shutdown is part of the model.

**Faults.** Crash and restart: the recorder at any step, with a torn last
section; a server that is started again (`Services`); a notifying process that
dies between its number and its slot (`ConditionNotifier`); a process that goes
(`RoleDiscovery`, `ChannelManager`); a fork under the logger. Loss: datagrams of
the multicast notifier, overrun rings, packets of the lidar. Time-outs and late
answers: `Services`, `Poller`, `ClassicScheduler`'s Wait. Failing steps: file
creation and full disk (`LogFile`), a chunk that cannot be written
(`RecordFile`), Init of components, nodes, modules and of the reader's task, the
creation and opening of shared memory (`ShmSegment`), a receive (`Livox`).

**Fairness.** A thread that can go on is scheduled by the operating system:
weak fairness of each thread's step. Strong fairness is used in two places. A
compare-exchange that is possible again and again succeeds some time
(`BoundedQueue`'s ReserveSucceeds, ReleaseSucceeds): the C++ standard asks
weak compare-exchanges not to fail spuriously for ever. A mutex that is free
again and again is acquired some time (`Timer`'s Lock and Begin). Nothing is
assumed of the environment: messages, tasks and stops may never come.
In `ClassicScheduler` the 1000 ms time-out of Wait is part of the fair step;
without it (the mutant of `MessageHandled`) a message can stay unread. `Poller`'s
`LiveSpec` asks weak fairness of the Poller's thread and of the routine alone.

## 4. What is proved

TLAPS checks these for every value of the constants.

* In `AtomicRWLock`: the inductive invariant says that `lock_num_` is -1
  with one writer inside, or the number of readers inside, and counts the
  waiting writers. The difficulty is the reader between its load and its
  compare-exchange: its copy may be stale and only the success of the exchange
  makes it a reader. From it: `Exclusion`, `CountersExact`, the types, and that
  the lock implements `RWLockSpec`.
* In `BoundedQueue` (positions less than a ring apart are in different
  slots, `DistinctSlots`): the invariant relates `head_ < commit_ <= tail_ <=
  head_ + ring size`, gives each reserved position one producer, and says that
  a consumer whose copy of `head_` is still current read an element that is
  still in the ring. From it: no torn element, one owner for each slot, a
  rejection is explained, and the queue implements `QueueSpec`; an element is
  enqueued when its position is committed, dequeued when `head_` moves.
* In `ChannelReader`: at every position of the window the ring holds the
  message of that number. From it: the newest message is not lost, and the
  reader implements `LossyChannelSpec`, for every queue size.
* In `ShmBlocks`, for any number of writers, readers and blocks: a block has
  one writer and no reader, or no writer and `lock_num_` readers (`Locked`;
  a reader that compares an old `lock_num_` compares a number of readers, so it
  cannot get past a writer); only its writer leaves a block torn; and what a
  block holds is at least as new as every note about it, on its way or
  received (`Newer`). From it: `NoTornRead`, `LockCounts` and `NeverOlder`,
  which the run transport checks as part of `BlocksReadWhole`.
* In `TimerPeriod`: that the wheel keeps its ticks and a due job gets a thread
  within `MaxDelay` is assumed (`Waits`); nothing in the code bounds either. Under
  it, bounds on the accumulated error of the timer, inductive over the runs, for
  every period and resolution, when callbacks leave a tick free
  (`FastCallbacks`). From it: `NoDrift`, `NeverAhead`.
* `SchedulerProofs`, for any number of processors, clients, notifiers, routines,
  names and priorities. `OneHolder` is nearly inductive. `TasksGone` is not: that
  nothing is left of a removed routine depends on what every thread knows of the
  two tables. The invariant `IInv` says for the holder of a name's mutex how far
  it has come and what `id_cr_` and the run queue therefore hold (`MutexFine`);
  that the two agree while the mutex is free (`AgreeFine`) and that at most one
  routine of a name is queued (`QueueFine`); that what a processor holds or has
  still to scan is in the queue it reads (`ProcessorFine`), which holds because
  RemoveCRoutine keeps the queue's write lock while it spins on Acquire
  (`LocksOK`); that only its remover keeps a stopped routine in a queue
  (`StoppedFine`); and that a routine nobody has dispatched is in no table
  (`OutsideFine`). `WaitingIsFlagged` rests on the order of two pairs of steps:
  the reader routine sets DATA_WAIT and then looks for data, and a notifier fills
  the buffer and then looks at the state. From it: `OneHolder`, `TasksGone`,
  `WaitingIsFlagged`.
* `ChannelManagerProofs`, about the tables: `TableInv` says where the JOIN and the
  LEAVE of each role are (on their way, with the thread that disposes of them, in
  a table) and, for each endpoint whose listener is connected, by whom it has
  heard of each opposite role in the table or will hear of it. The argument for
  the latter is the order in JoinTheTopology, which connects the listener before
  it reads the table. Roles that left while their joining was under way
  (`overlapped`) are excepted, and so are the peers of endpoints that share a
  receiver (`NoSharedReceiver`): both are disagreements of section 5. From it:
  `NoPeerMissed`, and `TopologyExactAtRest`, which also says what the queries
  answer at rest (`AnswersExact`: the names of channels, whether one has
  a writer or a reader, and which nodes are upstream and downstream of one).
* `ChannelManagerProofs`, about the graph: for each half of Insert and Delete,
  that the adjacency list stays exactly what `edges_` calls for. That needs that
  keys tell edges apart and that an insertion is made once (the early return).
  The invariant adds that a thread which disposes of a message has a role, so
  that what it inserts is an edge. From it: `GraphExact`.

The assumptions on the constants are named in the modules that declare them, and
TLC evaluates them in the runs. Those that say more than a type:
`NamesAssumption` (the key of an edge joins two names by an underscore; names are
such that keys differ), `RolesAssumption` (`RoleBase::Match` tells the roles
apart: a node has one reader of a channel, writers have ids of their own),
`ThreadsAssumption` (the threads that call back are none of the users'), and
disjointness of the kinds of threads in `ClassicSchedulerConstants`.

Only model-checked: liveness (`MessageHandled`, `RemovalReturns`,
`WriterProgress`, `NoticedTasksRun`, `ShutdownReturns`,
`KeepsFiringUntilStopped`): the prover has no rule for the fairness used here. What
LevelTraverse computes (`FlowDirectionExact`, a part of `TablesExactAtRest`):
that would need induction over the levels. The invariants of the components that
share the runs `workers`, `timers`, `transport` and `platform` without a theorem
above: each is a property of its own state machine of a few dozen steps, and none
of the proved components relies on it.

## 5. Disagreements between code and documents

Runs of their own show four of them (findings in `PROJECT.json`). Others were
met while modelling; the models contain them and the properties are stated
around them, by a history variable that marks the case or by the condition that
the module explains.

* TaskManager: a task enqueued while its routine is between an empty queue and
  HangUp stays until the next Enqueue (`exposed`).
* ThreadPool: Enqueue on a full queue drops the task and returns a future that
  never becomes ready (`thread_pool.h:70`).
* AsyncLogger: Stop writes without the spin flag, so a concurrent Write may be
  lost (`late`); Flush does not look at the buffers, although its header says
  "Flush any buffered messages" (`async_logger.h:105`): it flushes the files;
  FlushBuffer keeps the module name of the message before (`async_logger.cc:105`).
* TimingWheel: AddTask overtaken by the tick thread puts a task up to a round
  early or late (`calm`); the header promises the interval (`timer.h:60`). A
  periodic timer near the maximum may ask for more than the maximum
  (`timer.cc:113`), which wraps around the assistant wheel and fires a round early.
* Timer: a callback may begin after Stop returned (`timer.h:107`).
* Choreography: with `pool_processor_num` 0 the tasks of the pool never run; a
  processor number beyond the last one means the pool, silently. A processor of
  the pool that holds a routine only to look at its state makes another one, which
  has the token, pass it by; the flagged routine then waits out the 1000 ms of
  Wait (`missed`; `classic_context.cc:60`, as in the classic policy). A routine
  may run before its visitor has the notify callback (`scheduler.cc:58`): a
  message of that moment flags nothing.
* ShmSegment: two writers that both replace the segment disturb one another.
  The second Recreate removes the key of the first one's new segment, and the
  first stays on a segment that nobody finds and that is not marked (`raced`, so
  `NotStranded` excepts it). Between Recreate's Remove and its OpenOrCreate the
  other may create a smaller segment, which OpenOrCreate then opens; nothing
  compares the size again (`segment.cc:143`) and the message is written past its
  block (`found`, so `MessageFits` excepts it). Without these two exceptions both
  invariants are violated with two writers. A segment opened while its reference count is
  zero is removed under its user. A POSIX segment can be opened before it has its
  size, and the open fails; one whose `ftruncate` fails leaves its name behind.
* ConditionNotifier: announcement 0 of a new ring may be read before it is
  written, as the numbers of the slots are 0 too (`condition_notifier.cc:88`).
* Transport: two Readers of one channel in one process share a receiver, and
  when one leaves `Disable` cuts off both (`hybrid_transmitter.h:152`).
* Discovery: the departure of a process handled while a JOIN of it is being
  disposed of leaves the role in the table for good (`overlapped`); two
  duplicated nodes with equal time stamps are not noticed; two writers of one
  channel in one node share an edge of the graph, which the first to leave
  removes; node names with underscores may share the key of an edge
  (`graph.cc:91`, ruled out by `NamesAssumption`).
* Component: a TimerComponent's Proc may run once after Shutdown returned, by a
  job that had its task before Stop, as the callback calls Proc without a look at
  `is_shutdown_` (`timer_component.cc:48`; `late`).
* NodeLifecycle: two names with one hash, or two pairs of node and channel with
  one name, are one task; a Writer's Write may meet its Shutdown between the
  test and the use of the transmitter; a signal between Init and the exit
  handler can make Clear run twice.
* BaseContainers: `AtomicHashMap::Get` may read a value that a Set of the same
  key frees; a wake-up of `ThreadSafeQueue::BreakAllWait` may be lost; a nested
  read of `ReentrantRWLock` while a writer waits never returns. `UnboundedQueue`
  frees nodes that are in use: Dequeue reads `next` of an old head and `data` of
  the new one after another Dequeue may have deleted them (`unbounded_queue.h:63`,
  `:70`), and `release` reads the count again after its own decrement (`:87`), so
  that a producer and a consumer suffice for a second read of a deleted node.
  `fault` records the three, and `UnboundedInOrder` says that there are no others.
  The exchange of `head_` has no counter (`:68`): a node that was freed and
  allocated again at the same address passes for the old head, and `head_` then
  points to a deleted node (`u.mistaken`; order and size are claimed before that).
* ModuleLoader: a factory is looked up under a lock and used after it
  (`class_loader_utility.h:90`, `class_loader_utility.cc:197`). An UnloadLibrary in
  between deletes it, unless the loader that looked it up owned it and is not
  the one unloaded (`OwnerFindsFactory`); an object made that way may outlive its
  library (`raced`).
* LogFile: two rotations within a second give one name, the second creation
  fails and messages are dropped (`log_file_object.cc:147`).
* WireFormats: an empty `RawMessage` is sent but refused when parsed;
  `GpsToUnixSeconds` goes through a 32-bit cast (`time_conversion.h:88`).
* PyBindings: a request that comes before `register_func`, or whose callback
  raises, stays in the cache and shifts all later responses. The capsules keep raw
  pointers: the program that uses a deleted PyReader, PyWriter or PyClient may
  crash. A PyReader has the Reader in its own shared pointer, so that
  `PyNode::shutdown` does not end its callbacks (`py_cyber.h:291`). A timer's job
  may call back once after `PyTimer_stop`. A wrapper keeps the interpreter while it
  waits, so deleting a node, its last reader or stopping a timer never returns when
  the thread it waits for is about to take the interpreter for its callback.
* Monitor: the map of channels is shared without a lock; the page count and the
  last line of a page are wrong for small windows; a page of a message begins at
  four fifths of where the pages before it end, so that the last lines of a long
  message are on no page (`general_channel_message.cc:262`), and lines of a short
  string are skipped without being counted; a message that comes between the
  exchange of `frame_counter_` and the reading of `msg_time_`
  (`general_channel_message.cc:94`, `:100`) makes the next frame ratio a division
  by zero, which is shown as infinity (`cut`).
* Livox: a lost handshake or answer is never repeated; two answers make two
  receivers; the length given to ParsePacket is that of the last packet sent. A
  receive that fails other than by EAGAIN counts a packet that never came and
  moves the place of the next back by a byte (`device_data_recv.cc:184`, `:212`),
  so that the end of the frame is what the block held before (`lost`). The monitor
  and the heartbeat share a buffer without a lock, and a heartbeat may replace an
  answer between its parsing and the look at its code (`mixed`).

## 6. Not modelled

The parts `PROJECT.json` marks `not_modelled`: performance events (off by
default), the Python command line tools, the examples, and the assembly that
switches stacks. Of the parts marked `partly` its notes say what is left out:
formatting, configuration files, command lines, colours and columns of screens,
getters and statistics, the wrappers of Python that only convert and return,
generated code, and the RTPS and protobuf libraries,
which appear only as what the code uses of them. The tables of `DataDispatcher`
are changed under a mutex that `Dispatch` does not take; the models add all
buffers before the first message.

Compositions are by interface: `TaskManager` and `ThreadPool` use `QueueSpec`,
which `BoundedQueue` is proved to implement; `Component` and `Services` use what
`ClassicScheduler` shows of removal; `Player` uses the order that `RecordView`
shows. A single model of the way from Writer to callback would multiply these
state spaces and is out of TLC's reach.

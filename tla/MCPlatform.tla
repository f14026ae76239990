----------------------------- MODULE MCPlatform ------------------------------
(***************************************************************************)
(* Instances for TLC of what is built on nodes and channels: record files   *)
(* and their player, log files, the poller, components and the loading of   *)
(* their libraries, the life of a node, the Python binding, the containers  *)
(* of base/, the monitor and the lidar driver.  They do not interact here:  *)
(* in each behaviour the component that "part" names runs, so that they     *)
(* share the variables.                                                     *)
(***************************************************************************)
EXTENDS Integers, Sequences, FiniteSets, TLC

CONSTANTS user1, user2, Nobody,
          Parts  \* the components that run

\* One or two chunks of one or two messages.
SmallChunks == UNION {[1 .. n -> [time : 1 .. 3, channel : {"a"}]] : n \in 1 .. 2}
SmallRecords == UNION {[1 .. n -> SmallChunks] : n \in 1 .. 2}

\* One of them, or two that have two messages at most.
TwoMessages(r) == Len(r) = 1 \/ (Len(r[1]) = 1 /\ Len(r[2]) = 1)
ViewedRecords == [1 .. 1 -> SmallRecords] \cup [1 .. 2 -> {r \in SmallRecords : TwoMessages(r)}]

\* Three messages in the order of their times, of channels to play or not.
SmallViews ==
  {v \in [1 .. 3 -> [time : 1 .. 3, wanted : BOOLEAN]] :
     v[1].time = 1 /\ v[1].time <= v[2].time /\ v[2].time <= v[3].time}

LogBudgets ==
  {[mode |-> "async", msgs |-> 3, time |-> 1, faults |-> 1, room |-> 4],
   [mode |-> "sync", msgs |-> 3, time |-> 1, faults |-> 1, room |-> 4]}

\* Two readers in the same or in two nodes, on the same or on two channels, with
\* names that are equal, that collide or that differ; or a reader and a writer.
Layout(n2, c2, t2, h2, os, sg) ==
  LET For2(r, x2, x1) == IF r = "r2" THEN x2 ELSE x1 IN
  [node |-> [o \in {"r1", "r2", "w1"} |-> For2(o, n2, "n1")],
   channel |-> [r \in {"r1", "r2"} |-> For2(r, c2, "c1")],
   name |-> [r \in {"r1", "r2"} |-> For2(r, t2, "t1")],
   hash |-> [r \in {"r1", "r2"} |-> For2(r, h2, 1)], objects |-> os, sig |-> sg]
NodeLayouts ==
  {Layout("n1", "c1", "t1", 1, {"r1", "r2"}, "done"),
   Layout("n2", "c2", "t1", 1, {"r1", "r2"}, "done"),
   Layout("n2", "c1", "t2", 2, {"r1", "r2"}, "done"),
   Layout("n2", "c1", "t2", 1, {"r1", "r2"}, "done"),
   Layout("n1", "c1", "t1", 1, {"r1", "w1"}, "done"),
   Layout("n1", "c1", "t1", 1, {"w1"}, "none")}

PyPrograms ==
  {{"reader", "writer"}, {"service", "client"}, {"reader", "service"},
   {"reader", "PyTimer"},
   {"reader", "PyTime", "PyDuration", "PyRate", "PyRecordReader", "PyRecordWriter",
    "PyParameter", "PyParameterClient", "PyParameterServer",
    "PyChannelUtils", "PyNodeUtils", "PyServiceUtils"}}

\* Loaders of the same or of two libraries, and a DAG of components.
Dags ==
  {[lib |-> <<"a", "a">>, classes |-> [a |-> {"x"}, b |-> {}], dag |-> <<>>],
   [lib |-> <<"a", "b">>, classes |-> [a |-> {"x"}, b |-> {"x"}], dag |-> <<>>],
   [lib |-> <<"a", "b">>, classes |-> [a |-> {"x", "y"}, b |-> {"y", "z"}],
    dag |-> <<[loader |-> 1, class |-> "y"], [loader |-> 2, class |-> "z"],
              [loader |-> 2, class |-> "y"], [loader |-> 1, class |-> "x"]>>]}

\* What three threads do with each container.
Plan(kind, first, ops) ==
  [kind |-> kind, first |-> first, keys |-> {1, 2, 3},
   ops |-> [a |-> ops[1], b |-> ops[2], c |-> ops[3]]]
Plain(ops) == [i \in DOMAIN ops |-> <<ops[i], 0>>]
ThreadPlans ==
  {Plan("AtomicHashMap", TRUE, << <<<<"Set", 1>>, <<"Set", 3>>>>,
     <<<<"Set", 3>>, <<"Get", 1>>>>, <<<<"Has", 3>>, <<"Set", 1>>>> >>),
   Plan("AtomicHashMap", TRUE, << <<<<"Set", 3>>, <<"Set", 2>>>>,
     <<<<"Set", 1>>, <<"Get", 3>>>>, <<<<"Set", 1>>>> >>),
   Plan("CCObjectPool", TRUE, <<Plain(<<"GetObject", "Release", "GetObject">>),
     Plain(<<"GetObject", "GetObject", "Release", "Release">>),
     Plain(<<"GetObject", "Release">>)>>),
   Plan("ObjectPool", TRUE, <<Plain(<<"GetObject", "GetObject", "Release",
     "GetObject", "GetObject", "Release">>), <<>>, <<>>>>),
   Plan("ThreadSafeQueue", TRUE, <<Plain(<<"Enqueue", "Enqueue", "BreakAllWait">>),
     Plain(<<"WaitDequeue", "WaitDequeue">>),
     Plain(<<"Dequeue", "Enqueue", "WaitDequeue">>)>>),
   Plan("UnboundedQueue", TRUE, <<Plain(<<"Push", "Push", "Clear">>),
     Plain(<<"Pop", "Pop">>), Plain(<<"Push", "Pop">>)>>),
   Plan("ReentrantRWLock", TRUE, <<Plain(<<"write", "read", "unlock", "unlock">>),
     Plain(<<"write", "write", "unlock", "unlock">>), Plain(<<"read", "unlock">>)>>),
   Plan("ReentrantRWLock", FALSE, <<Plain(<<"write", "write", "unlock", "unlock">>),
     Plain(<<"write", "read", "unlock", "unlock">>),
     Plain(<<"read", "read", "unlock", "unlock">>)>>)}

\* The keys that the user of the monitor presses, and what happens meanwhile.
Session(keys, msgs, resizes, fails, only) ==
  [keys |-> keys, msgs |-> msgs, resizes |-> resizes, fails |-> fails, only |-> only]
MonitorSessions ==
  {Session({"down", "up", "space", "right", "left"}, 0, 0, 1, 0),
   Session({"space", "right", "left"}, 1, 0, 0, 0),
   Session({"pgdn", "pgup", "right", "info", "debug", "help", "backspace", "quit"}, 0, 1, 0, 0),
   Session({"right", "pgdn"}, 1, 0, 0, 1),
   Session({"other"}, 2, 0, 0, 0),
   Session({"right", "left", "fold", "next", "previous", "other"}, 1, 0, 0, 1)}

\* Messages of fields of one line, one in another, and one with a string.
Number == [kind |-> "number"]
InMessage(fields, unknown) == [kind |-> "message", msg |-> [fields |-> fields, unknown |-> unknown]]
MonitorMessages ==
  {InMessage(<<Number, InMessage(<<Number, [kind |-> "repeated"]>>, FALSE), Number>>, FALSE).msg,
   InMessage(<<[kind |-> "string", ends |-> 2, goes_on |-> TRUE], Number>>, TRUE).msg}
MonitorItems ==
  {<<>>, <<Number, Number>>, <<InMessage(<<Number, Number>>, FALSE)>>}

LidarBounds ==
  {[answers |-> 2, beats |-> 1, passes |-> 0, fails |-> 0, viewer |-> FALSE],
   [answers |-> 1, beats |-> 0, passes |-> 3, fails |-> 2, viewer |-> TRUE]}

(* -------------------------------- Components ----------------------------- *)

VARIABLES part,
          x1, x2, x3, x4, x5, x6, x7, x8, x9, x10, x11, x12, x13, x14, x15,
          x16, x17, x18, x19, x20, x21, x22, x23, x24, x25, x26, x27, x28,
          x29

Record == INSTANCE RecordFile WITH
  Channels <- {user1, user2}, ChunkRawSize <- 1, SegmentRawSize <- 2, MaxMsgs <- 5,
  MaxFails <- 1,
  segmented <- x1, is_stopping_ <- x2, start <- x3, joined <- x4, found <- x5,
  unseen <- x6, channels <- x7, wpc <- x8, segment_raw_size_ <- x9,
  file <- x10, index_ <- x11, header_ <- x12, disk <- x13,
  chunk_active_ <- x14, chunk_flush_ <- x15, is_writing_ <- x16, fpc <- x17,
  cpc <- x18, closer <- x19, finished <- x20, taken <- x21, late <- x22,
  failed <- x23, overtaken <- x24, missed <- x25, fails <- x26, crashed <- x27

View == INSTANCE RecordView WITH
  Views <- ViewedRecords, Channels <- {"a"}, MaxTime <- 3, StepTime <- 1,
  BufferMinSize <- 2,
  files <- x1, asked <- x2, begin_time_ <- x3, end_time_ <- x4,
  curr_begin_time_ <- x5, readers_finished_ <- x6, section <- x7,
  chunk_ <- x8, message_index_ <- x9, skip <- x10, reading <- x11,
  buffer <- x12, shown <- x13

Play == INSTANCE Player WITH
  Views <- SmallViews, PreloadSize <- 1, MaxLoops <- 1, MaxKeys <- 1,
  view <- x1, is_loop_playback <- x2, tasks_ <- x3, ppc <- x4, itr <- x5,
  loop_num <- x6, pstopped <- x7, cpc <- x8, task <- x9, cstopped <- x10,
  cpaused <- x11, conce <- x12, mpc <- x13, stopped <- x14, paused <- x15,
  playonce <- x16, ok <- x17, keys <- x18, played <- x19, credit <- x20

Log == INSTANCE LogFile WITH
  Writers <- {user1, user2}, Modules <- {"m"}, Group <- "g", None <- Nobody,
  MaxLogSize <- 3, kRolloverAttemptFrequency <- 2, LogBufSecs <- 1,
  FlushLength <- 3, StdioBuf <- 2, StopIfFull <- TRUE, Budgets <- LogBudgets,
  b <- x1, now <- x2, pid <- x3, main <- x4, room <- x5, stop_writing <- x6,
  objs <- x7, disk <- x8, link <- x9, wpc <- x10, last <- x11, sent <- x12,
  lost <- x13

Poll == INSTANCE Poller WITH
  Fds <- {"f"}, Timeouts <- {-1, 2}, MaxData <- 3, MaxCloses <- 2,
  data <- x1, epoll <- x2, requests_ <- x3, ctrl_params_ <- x4,
  local_params <- x5, responses <- x6, tpc <- x7, is_shutdown_ <- x8,
  rpc <- x9, wants <- x10, state <- x11, is_blocking_ <- x12,
  response_ <- x13, early <- x14, deserted <- x15, stale <- x16, came <- x17,
  closes <- x18

Comp == INSTANCE Component WITH
  Modes <- {"reality", "simulation", "timer"}, Arities <- {1, 2, 4},
  Null <- Nobody, Depth <- 1, MaxMsgs <- 2, MaxClears <- 1,
  mode <- x1, arity <- x2, bad <- x3, todo <- x4, initialized <- x5,
  readers_ <- x6, blockers <- x7, task <- x8, func <- x9, pc <- x10,
  args <- x11, crashed <- x12, is_shutdown_ <- x13, spc <- x14, msgs <- x15,
  clears <- x16, clearing <- x17, emptied <- x18, late <- x19

Node == INSTANCE NodeLifecycle WITH
  Readers <- {"r1", "r2"}, Writers <- {"w1"}, None <- Nobody,
  Layouts <- NodeLayouts,
  layout <- x1, state <- x2, mpc <- x3, sig <- x4, nodes <- x5, pc <- x6,
  init_ <- x7, bound_ <- x8, slots <- x9, joined <- x10, readers_ <- x11,
  readers_mutex_ <- x12, task_id_map <- x13, task_id <- x14, id_cr <- x15,
  victim <- x16, live <- x17, running <- x18, stop_ <- x19,
  is_shutdown_ <- x20, logger <- x21, copied <- x22, calling <- x23,
  writing <- x24, raced <- x25, fault <- x26

Python == INSTANCE PyBindings WITH
  Apis <- {"wrapper", "cyber.py"}, Programs <- PyPrograms, MaxMsgs <- 2,
  MaxRequests <- 2,
  api <- x1, uses <- x2, gil <- x3, mpc <- x4, obj <- x5, node_ <- x6,
  desc <- x7, writer_ <- x8, plain <- x9, deleting <- x10, func <- x11,
  rpc <- x12, cache_ <- x13, arrived <- x14, missed <- x15, shown <- x16,
  dropped <- x17, spc <- x18, queue <- x19, cur <- x20, request_cache_ <- x21,
  response_cache_ <- x22, sent <- x23, answers <- x24, called <- x25,
  left <- x26, timer <- x27, tpc <- x28, crashed <- x29

Loader == INSTANCE ModuleLoader WITH
  Configs <- Dags, MaxObjects <- 1, MaxLoads <- 2,
  lib <- x1, classes <- x2, dag <- x3, mapped <- x4, opened <- x5,
  factory <- x6, ref <- x7, objs <- x8, lpc <- x9, then <- x10, alive <- x11,
  mpc <- x12, mnext <- x13, held <- x14, raced <- x15, overwritten <- x16, at <- x17,
  gone <- x18

Containers == INSTANCE BaseContainers WITH
  Threads <- {"a", "b", "c"}, None <- Nobody, Plans <- ThreadPlans,
  TableSize <- 2, Cells <- 1 .. 4, Size <- 2,
  kind <- x1, todo <- x2, pc <- x3, r <- x4, fault <- x5, ent <- x6,
  mem <- x7, sets <- x8, free <- x9, nxt <- x10, held <- x11, q <- x12,
  u <- x13, l <- x14

Screen == INSTANCE Monitor WITH
  NumChannels <- 2, Nodes <- {"n"}, Heights <- {3, 6},
  Sessions <- MonitorSessions, MaxDepth <- 2, MaxStarted <- 1,
  MaxChanges <- 1, Messages <- MonitorMessages,
  Repeated <- MonitorItems,
  uses <- x1, topo <- x2, changes <- x3, mpc <- x4, todo <- x5, adding <- x6,
  all_channels_map_ <- x7, rpc <- x8, msgs <- x9, height <- x10,
  resizes <- x11, canRun_ <- x12, current_state_ <- x13, table <- x14,
  path <- x15, shows <- x16, key <- x17, drawn <- x18, fails <- x19,
  fault <- x20, raced <- x21, stale <- x22, listed <- x23, printed <- x24,
  due <- x25, calc <- x26

Lidar == INSTANCE Livox WITH
  kFrame <- 2, Bounds <- LidarBounds,
  handshaked <- x1, mpc <- x2, need_handshake <- x3, stop <- x4, ret <- x5,
  cmd_packet <- x6, package <- x7, pcl_receiver <- x8, timer_ <- x9,
  hpc <- x10, hret <- x11, device <- x12, net <- x13, recv <- x14,
  block <- x15, in_use <- x16, vpc <- x17, seen <- x18, qpc <- x19,
  stopping <- x20, switched <- x21, raced <- x22, fault <- x23, oks <- x24,
  answers <- x25, beats <- x26, passes <- x27, bound <- x28, mixed <- x29

ASSUME
  /\ Record!RecordFileConstants
  /\ View!RecordViewConstants
  /\ Play!PlayerConstants
  /\ Log!LogFileConstants
  /\ Poll!PollerConstants
  /\ Comp!ComponentConstants
  /\ Python!PyBindingsConstants
  /\ Loader!ModuleLoaderConstants
  /\ Screen!MonitorConstants
  /\ Lidar!LivoxConstants
  /\ Lidar!WireAndTimes

\* The variables from a number on, which the shorter components leave alone.
Free29 == x29 = 0
free29 == <<x29>>
Free28 == x28 = 0 /\ Free29
free28 == <<x28, free29>>
Free27 == x27 = 0 /\ Free28
free27 == <<x27, free28>>
Free25 == x25 = 0 /\ x26 = 0 /\ Free27
free25 == <<x25, x26, free27>>
Free21 == x21 = 0 /\ x22 = 0 /\ x23 = 0 /\ x24 = 0 /\ Free25
free21 == <<x21, x22, x23, x24, free25>>
Free20 == x20 = 0 /\ Free21
free20 == <<x20, free21>>
Free19 == x19 = 0 /\ Free20
free19 == <<x19, free20>>
Free17 == x17 = 0 /\ x18 = 0 /\ Free19
free17 == <<x17, x18, free19>>
Free15 == x15 = 0 /\ x16 = 0 /\ Free17
free15 == <<x15, x16, free17>>
Free14 == x14 = 0 /\ Free15
free14 == <<x14, free15>>

Init ==
  /\ part \in Parts
  /\ \/ part = "record" /\ Record!Init /\ Free28
     \/ part = "view" /\ View!Init /\ Free14
     \/ part = "player" /\ Play!Init /\ Free21
     \/ part = "log" /\ Log!Init /\ Free14
     \/ part = "poller" /\ Poll!Init /\ Free19
     \/ part = "component" /\ Comp!Init /\ Free20
     \/ part = "node" /\ Node!Start /\ Free27
     \/ part = "python" /\ Python!Init
     \/ part = "loader" /\ Loader!Init /\ Free19
     \/ part = "containers" /\ Containers!Init /\ Free15
     \/ part = "monitor" /\ Screen!Init /\ Free27
     \/ part = "livox" /\ Lidar!Init

Next ==
  \/ part = "record" /\ Record!Next /\ UNCHANGED <<part, free28>>
  \/ part = "view" /\ View!Next /\ UNCHANGED <<part, free14>>
  \/ part = "player" /\ Play!Next /\ UNCHANGED <<part, free21>>
  \/ part = "log" /\ Log!Next /\ UNCHANGED <<part, free14>>
  \/ part = "poller" /\ Poll!Next /\ UNCHANGED <<part, free19>>
  \/ part = "component" /\ Comp!Next /\ UNCHANGED <<part, free20>>
  \/ part = "node" /\ Node!Next /\ UNCHANGED <<part, free27>>
  \/ part = "python" /\ Python!Next /\ UNCHANGED part
  \/ part = "loader" /\ Loader!Next /\ UNCHANGED <<part, free19>>
  \/ part = "containers" /\ Containers!Next /\ UNCHANGED <<part, free15>>
  \/ part = "monitor" /\ Screen!Next /\ UNCHANGED <<part, free27>>
  \/ part = "livox" /\ Lidar!Next /\ UNCHANGED part

vars ==
  <<part, x1, x2, x3, x4, x5, x6, x7, x8, x9, x10, x11, x12, x13, x14, x15,
    x16, x17, x18, x19, x20, x21, x22, x23, x24, x25, x26, x27,
    x28, x29>>

Spec == Init /\ [][Next]_vars

Symmetry == Permutations({user1, user2})

(* -------------------------------- Properties ----------------------------- *)

\* What is written down is kept and read back.  RecordWriter and RecordFileWriter
\* lose and repeat no message that they have taken, and a reader recovers what was
\* flushed; RecordViewer shows all messages in the order of their times, and Player
\* plays them so; LogFileObject keeps each message once or drops it for a reason
\* that it knows.
WrittenIsKept ==
  /\ part = "record" =>
       /\ Record!ChannelsRecorded /\ Record!NoMessageLost /\ Record!NoMessageTwice
       /\ Record!CompleteIsConsistent /\ Record!FlushedIsRecovered
       /\ Record!CloseStuckOnlyIfMissed
  /\ part = "log" => Log!KeptOnceOrDropped /\ Log!ForcedIsOnDisk /\ Log!FilesBounded
  /\ part = "view" => View!ShownInOrder /\ View!AllShown /\ View!SplitExact
  /\ part = "player" =>
       /\ Play!PlayedAsRecorded /\ Play!AllPlayedAtEnd /\ Play!PauseHolds
       /\ Play!ThreadsJoined

\* Once Shutdown of a component or of a node's readers has returned, or the object
\* of a Python program is gone, no callback runs, except the one of a timer whose
\* job had the task before Stop; until then each message reaches it; and a transfer
\* that waits for a file descriptor is served.
QuietWhenGone ==
  /\ part = "component" =>
       /\ Comp!TypeOK /\ Comp!QuietAfterShutdown /\ Comp!ProcGetsMessages
       /\ Comp!NullBlockerOnlyOnFailure /\ Comp!ReaderViewWhole
  /\ part = "node" =>
       /\ Node!QuietAfterShutdown /\ Node!RoutineKept /\ Node!DistinctTasks
       /\ Node!FaultsOnlyRaced
  /\ part = "python" =>
       /\ Python!MessagesInOrder /\ Python!OwnResponse /\ Python!QuietWhenGone
       /\ Python!SafeBeforeDel
  /\ part = "poller" => Poll!WaitersServed

\* An object outlives its users: a library stays while its classes or objects are
\* in use (ClassLoaderManager), and the containers of base/ hand out no element twice
\* and lose none.  Excepted are a factory used after another thread's UnloadLibrary,
\* and UnboundedQueue once its head was exchanged for a node at a used address.
OwnedWhileUsed ==
  /\ part = "loader" =>
       /\ Loader!ObjectsKeepLibrary /\ Loader!FactoriesKeepLibrary
       /\ Loader!OwnerFindsFactory
       /\ Loader!NothingLeftAfterClear
  /\ part = "containers" =>
       /\ Containers!MapWhole /\ Containers!GetReadsValue /\ Containers!PoolExclusive
       /\ Containers!SafeQueueServes /\ Containers!UnboundedInOrder
       /\ Containers!LockExclusive

\* What is shown is what was received: the monitor's table and pages, and the frames
\* of the lidar that the point cloud viewer draws, but for the packets of which the
\* receive failed.
ShownIsReceived ==
  /\ part = "monitor" =>
       /\ Screen!TableExactAtRest /\ Screen!ShownIsOpen /\ Screen!EntersWhatIsShown
       /\ Screen!FaultsKnown /\ Screen!PagesJoin /\ Screen!RatioIsNumber
  /\ part = "livox" =>
       /\ Lidar!ShownWhole /\ Lidar!ReceiverGone /\ Lidar!OneReceiverPerAnswer
=============================================================================

----------------------------- MODULE MCTransport -----------------------------
(***************************************************************************)
(* Instances for TLC of everything between a Writer and a Reader, a Client  *)
(* and a Service: the shared memory of a channel, the notifiers, the        *)
(* dispatchers, the choice of a transport for each peer, the calls, the     *)
(* formats of what is sent, and the buffers of the readers (ChannelReader   *)
(* with the queue size of the configuration file and with a queue of size   *)
(* zero, AllLatest with three channels).  They do not interact here: in     *)
(* each behaviour the component that "part" names runs, so that all but     *)
(* ChannelReader share the variables.                                       *)
(***************************************************************************)
EXTENDS ChannelReader, FiniteSets, TLC

CONSTANTS w1, w2, r1, r2, r3, Nobody, Torn, Blank,
          Parts  \* the components that run

\* Leap seconds of a short history, and files that include one another.
Leaps == << <<12, 3>>, <<8, 2>>, <<5, 1>> >>
FileDeps ==
  ("a" :> <<"b", "c">>) @@ ("b" :> <<"d">>) @@ ("c" :> <<"d">>) @@ ("d" :> <<>>)

(* ------------------ What is sent: the samples of WireFormats ------------- *)

Bytes == {0, 1}
Messages == UNION {[1 .. n -> Bytes] : n \in 0 .. 2}
Infos == [sender : [1 .. 1 -> Bytes], seq : {0, 5, 15}, spare : [1 .. 1 -> Bytes]]
Profiles ==
  [history : {"KEEP_LAST", "KEEP_ALL", "SYSTEM_DEFAULT"}, depth : {0, 1, 1023, 1024, 2047},
   mps : {0, 1, 64, 100, 2000},
   reliability : {"RELIABLE", "BEST_EFFORT", "SYSTEM_DEFAULT"},
   durability : {"VOLATILE", "TRANSIENT_LOCAL", "SYSTEM_DEFAULT"}]
Parameters ==
  [kind : {"parameter"}, type : {"BOOL"}, value : BOOLEAN]
    \cup [kind : {"parameter"}, type : {"INT", "DOUBLE"}, value : {-1, 0, 3}]
    \cup [kind : {"parameter"}, type : {"STRING", "PROTOBUF"}, value : {<<>>, <<1>>}]
CpuSets == UNION {[1 .. n -> {<<0>>, <<2>>, <<1, 2>>, <<2, 1>>, <<0, 0>>, <<1, 2, 3>>}] :
                    n \in 0 .. 2}
\* A descriptor pool holds what its files include.
Pools == {p \in SUBSET DOMAIN FileDeps :
            \A f \in p : \A i \in DOMAIN FileDeps[f] : FileDeps[f][i] \in p}

WireSamples ==
  [kind : {"word"}, n : 0 .. 15,
   readable : [host : {0, 9}, block : 0 .. 3, channel : {0, 6, 15}]]
  \cup [kind : {"message"}, type : {"proto", "raw", "py", "plain"}, msg : Messages,
        info : Infos, name : {<<>>, <<1, 1, 1, 1>>}, slack : -1 .. 1]
  \cup [kind : {"underlay"}, msg : [data : 0 .. 5, datatype : 0 .. 5]]
  \cup [kind : {"qos"}, qos : Profiles]
  \cup Parameters
  \cup [kind : {"seconds"}, n : 0 .. 40]
  \cup [kind : {"cpuset"}, ranges : CpuSets]
  \cup {x \in [kind : {"types"}, file : DOMAIN FileDeps, pool : Pools,
              other : {{}, {"d"}, {"c"}}] : x.other \cap x.pool = {}}
  \cup {[kind |-> "rate"], [kind |-> "clock"]}

(* -------------------------------- Components ----------------------------- *)

VARIABLES part,
          x1, x2, x3, x4, x5, x6, x7, x8, x9, x10, x11, x12, x13, x14, x15,
          x16, x17, x18, x19

Zero == INSTANCE ChannelReader WITH
  QueueSize <- 0,
  buffer <- x1, next_msg_index_ <- x2, msg <- x3, fetches <- x4

Fusion == INSTANCE AllLatest WITH
  N <- 2, QueueSize <- 2, MaxFill0 <- 4, MaxFill <- 2,
  buffer_m <- x1, buffer_m0_ <- x2, buffer_fusion_ <- x3,
  fusion_callback_ <- x4, m0 <- x5, m <- x6, next_msg_index_ <- x7,
  fetched <- x8, fetches <- x9, sent0 <- x10, owed <- x11

Block == INSTANCE ShmBlocks WITH
  Writers <- {w1, w2}, Readers <- {r1, r2}, BlockNum <- 2,
  kMaxTryLockTimes <- 2, MaxMsgs <- 2,
  seq_ <- x1, lock_num_ <- x2, content <- x3, whole <- x4, wpc <- x5,
  windex <- x6, wmsg <- x7, notes <- x8, rpc <- x9, rindex <- x10,
  lock_num <- x11, try_times <- x12, told <- x13, seen <- x14, excused <- x15,
  made <- x16

\* A writer and a reader; two writers, which may both replace the segment.
Segment == INSTANCE ShmSegment WITH
  Writers <- {w1}, Readers <- {r1}, Kinds <- {"xsi", "posix"},
  BlockNum <- <<2, 1>>, MaxSegments <- 2, MaxCount <- 3,
  kind <- x1, key <- x2, made <- x3, ceiling_msg_size_ <- x4,
  reference_count_ <- x5, need_remap_ <- x6, init_ <- x7, segment <- x8,
  conf_ <- x9, call <- x10, notes <- x11, raced <- x12, limit <- x13,
  empty <- x14

Rivals == INSTANCE ShmSegment WITH
  Writers <- {w1, w2}, Readers <- {}, Kinds <- {"xsi", "posix"},
  BlockNum <- <<2, 1>>, MaxSegments <- 3, MaxCount <- 3,
  kind <- x1, key <- x2, made <- x3, ceiling_msg_size_ <- x4,
  reference_count_ <- x5, need_remap_ <- x6, init_ <- x7, segment <- x8,
  conf_ <- x9, call <- x10, notes <- x11, raced <- x12, limit <- x13,
  empty <- x14

Notifier == INSTANCE ConditionNotifier WITH
  Writers <- {w1, w2}, Types <- {"condition", "multicast"}, kBufLength <- 2,
  MaxSeq <- 3, Torn <- Torn, Blank <- Blank,
  type <- x1, socket <- x2, next_seq <- x3, infos <- x4, seqs <- x5,
  constructed <- x6, is_shutdown_ <- x7, wpc <- x8, wseq <- x9, opened <- x10,
  next_seq_ <- x11, lpc <- x12, actual_seq <- x13, got <- x14, due <- x15,
  early <- x16, overrun <- x17, lagged <- x18

Shm == INSTANCE ShmDispatcher WITH
  Receivers <- {r1, r2}, MaxConnects <- 2, MaxMsgs <- 2,
  is_shutdown_ <- x1, msg_listeners_ <- x2, made <- x3, slots_ <- x4,
  connected_ <- x5, conns <- x6, segment <- x7, form <- x8, cpc <- x9,
  chandler <- x10, connects <- x11, dpc <- x12, dhandler <- x13, dform <- x14,
  todo <- x15, slot <- x16, msgs <- x17, spc <- x18, overlapped <- x19

Intra == INSTANCE IntraDispatcher WITH
  Receivers <- {r1, r2, r3}, None <- Nobody, MaxMsgs <- 1, MaxAdds <- 2,
  is_shutdown_ <- x1, chain <- x2, outer <- x3, wrapped <- x4, cpc <- x5,
  created <- x6, adds <- x7, mpc <- x8, handler <- x9, called <- x10,
  msgs <- x11

Hybrid == INSTANCE HybridTransport WITH
  Readers <- {r1, r2}, Modes <- {"INTRA", "SHM"}, Depth <- 1, MaxMsgs <- 2,
  MaxEnables <- 2,
  mode <- x1, receivers_ <- x2, enabled_ <- x3, seq_num_ <- x4,
  history_ <- x5, sending <- x6, known <- x7, thread <- x8, arrived <- x9,
  live <- x10, private <- x11, got <- x12, from <- x13, excused <- x14,
  early <- x15

Calls == INSTANCE Services WITH
  Clients <- {r1, r2}, Kinds <- {"get", "set"}, None <- Nobody, Depth <- 1,
  MaxCalls <- 2, MaxRestarts <- 1,
  sequence_number_ <- x1, pending_requests_ <- x2, call <- x3, floor <- x4,
  requests <- x5, sent <- x6, responses <- x7, tasks_ <- x8,
  inited_ <- x9, thread <- x10, handling <- x11, destroying <- x12,
  param_map_ <- x13, is_shutdown <- x14, acked <- x15, restarts <- x16

Wire == INSTANCE WireFormats WITH
  Byte <- 2, Half <- 2, ID_SIZE <- 1, W <- 4, W32 <- 5, DepthBits <- 11,
  FracBits <- 8, LEAP_SECONDS <- Leaps, UNIX_GPS_DIFF <- 4, Deps <- FileDeps, Cycle <- 3, MaxNow <- 12,
  Samples <- WireSamples,
  sample <- x1, now <- x2, start_ <- x3, slept <- x4, mode_ <- x5,
  mock_now_ <- x6, last_set <- x7, actual_cycle_time_ <- x8

ASSUME
  /\ Zero!ChannelReaderConstants
  /\ Fusion!AllLatestConstants
  /\ Block!ShmBlocksConstants
  /\ Segment!ShmSegmentConstants
  /\ Rivals!ShmSegmentConstants
  /\ Notifier!ConditionNotifierConstants
  /\ Shm!ShmDispatcherConstants
  /\ Intra!IntraDispatcherConstants
  /\ Hybrid!HybridTransportConstants
  /\ Calls!ServicesConstants
  /\ Wire!WireFormatsConstants

\* The variables from a number on, which the shorter components leave alone.
Free19 == x19 = 0
free19 == <<x19>>
Free18 == x18 = 0 /\ Free19
free18 == <<x18, free19>>
Free17 == x17 = 0 /\ Free18
free17 == <<x17, free18>>
Free16 == x16 = 0 /\ Free17
free16 == <<x16, free17>>
Free15 == x15 = 0 /\ Free16
free15 == <<x15, free16>>
Free13 == x13 = 0 /\ x14 = 0 /\ Free15
free13 == <<x13, x14, free15>>
Free12 == x12 = 0 /\ Free13
free12 == <<x12, free13>>
Free9 == x9 = 0 /\ x10 = 0 /\ x11 = 0 /\ Free12
free9 == <<x9, x10, x11, free12>>
Free5 == x5 = 0 /\ x6 = 0 /\ x7 = 0 /\ x8 = 0 /\ Free9
free5 == <<x5, x6, x7, x8, free9>>
Free1 == x1 = 0 /\ x2 = 0 /\ x3 = 0 /\ x4 = 0 /\ Free5
free1 == <<x1, x2, x3, x4, free5>>

\* The variables of ChannelReader stay as they are initially in the other parts.
PartInit ==
  /\ part \in Parts /\ Init
  /\ \/ part = "reader" /\ Free1
     \/ part = "zero" /\ Zero!Init /\ Free5
     \/ part = "fusion" /\ Fusion!Init /\ Free12
     \/ part = "block" /\ Block!Init /\ Free17
     \/ part = "segment" /\ Segment!Init /\ Free15
     \/ part = "rivals" /\ Rivals!Init /\ Free15
     \/ part = "notifier" /\ Notifier!Init /\ Free19
     \/ part = "shm" /\ Shm!Init
     \/ part = "intra" /\ Intra!Init /\ Free12
     \/ part = "hybrid" /\ Hybrid!Init /\ Free16
     \/ part = "services" /\ Calls!Init /\ Free17
     \/ part = "wire" /\ Wire!Init /\ Free9

PartNext ==
  \/ part = "reader" /\ Next /\ UNCHANGED <<part, free1>>
  \/ part = "zero" /\ Zero!Next /\ UNCHANGED <<part, vars, free5>>
  \/ part = "fusion" /\ Fusion!Next /\ UNCHANGED <<part, vars, free12>>
  \/ part = "block" /\ Block!Next /\ UNCHANGED <<part, vars, free17>>
  \/ part = "segment" /\ Segment!Next /\ UNCHANGED <<part, vars, free15>>
  \/ part = "rivals" /\ Rivals!Next /\ UNCHANGED <<part, vars, free15>>
  \/ part = "notifier" /\ Notifier!Next /\ UNCHANGED <<part, vars, free19>>
  \/ part = "shm" /\ Shm!Next /\ UNCHANGED <<part, vars>>
  \/ part = "intra" /\ Intra!Next /\ UNCHANGED <<part, vars, free12>>
  \/ part = "hybrid" /\ Hybrid!Next /\ UNCHANGED <<part, vars, free16>>
  \/ part = "services" /\ Calls!Next /\ UNCHANGED <<part, vars, free17>>
  \/ part = "wire" /\ Wire!Next /\ UNCHANGED <<part, vars, free9>>

partVars == <<part, vars, free1>>

PartSpec == PartInit /\ [][PartNext]_partVars

Symmetry == Permutations({w1, w2}) \union Permutations({r1, r2})

(* -------------------------------- Properties ----------------------------- *)

\* Block: a reader never finds one half written, and what it finds is the
\* message it was told of or a later one; lock_num_ counts the holders.  When
\* all have come to rest every reader has seen the last message of every Block,
\* unless it gave up or the writer had nothing to write.
BlocksReadWhole ==
  part = "block" =>
    /\ Block!TypeOK /\ Block!LockCounts /\ Block!NoTornRead /\ Block!NeverOlder
    /\ Block!NothingMissedAtRest

\* Segment: the layout that a process computes with is that of the memory, the
\* reference count covers its users, messages fit their blocks, and a process
\* uses the memory that others will find or learns from need_remap_ that it was
\* replaced; except for a segment that was opened while nobody was counted or
\* removed by a process that had another, and for a writer whose Recreate found
\* the segment of another writer (segment.cc, xsi_segment.cc, posix_segment.cc).
SegmentsAgree ==
  /\ part = "segment" =>
       /\ Segment!TypeOK /\ Segment!LayoutAgrees /\ Segment!CountCovers
       /\ Segment!NotStranded /\ Segment!MessageFits
  /\ part = "rivals" =>
       /\ Rivals!TypeOK /\ Rivals!LayoutAgrees /\ Rivals!CountCovers
       /\ Rivals!NotStranded /\ Rivals!MessageFits

\* "invalid block_index" (segment.cc): AcquireBlockToRead only uses a block that
\* its segment has.
IndexInRange == part = "segment" => Segment!IndexInRange

\* What one process announces or sends arrives in another once, whole and in
\* order (ConditionNotifier::Notify and Listen, MulticastNotifier), and is read
\* back as it was written (ReadableInfo, MessageInfo, the messages, parameters,
\* QoS profiles and times).
ArrivesAsSent ==
  /\ part = "notifier" =>
       /\ Notifier!TypeOK /\ Notifier!EveryAnnouncementOnce
       /\ Notifier!NotStuckAtRest
  /\ part = "wire" =>
       /\ Wire!ReadBackAsWritten /\ Wire!SameQosMatches /\ Wire!GpsInverse
       /\ Wire!SetsExact /\ Wire!RateBounded /\ Wire!MockTime

\* A receiver is called for each message from AddListener on and for none once
\* RemoveListener or Shutdown has returned (ShmDispatcher, IntraDispatcher).
ListenersServed ==
  /\ part = "shm" =>
       /\ Shm!TypeOK /\ Shm!QuietAfterRemove /\ Shm!AddedIsServed
       /\ Shm!HandlerFound /\ Shm!QuietAfterShutdown
  /\ part = "intra" =>
       /\ Intra!TypeOK /\ Intra!ReachedWhileFirstStays /\ Intra!QuietAfterRemove

\* A transport of the hybrid transmitter is enabled while a peer needs it, and a
\* reader that is told of a durable writer late gets the writer's newest
\* messages and all later ones, each once (HybridTransmitter, HybridReceiver).
LatePeerCatchesUp ==
  part = "hybrid" =>
    /\ Hybrid!TypeOK /\ Hybrid!EnabledWhileNeeded /\ Hybrid!NoGapAfterHistory
    /\ Hybrid!OnceUnlessRepeated /\ Hybrid!HistoryIsNewest

\* A Client's call ends with the response to that very call or with none, and
\* a Service's destroy ends its thread (Client, Service, ParameterServer).
CallsAnswered == part = "services" => Calls!AnswersOwnCall /\ Calls!DestroyWakes

\* CacheBuffer keeps the newest messages at their positions and FetchMulti
\* returns them in order; with a pending queue of size zero, where the ring has
\* one slot and is always full, the reader still gets the newest message.
\* AllLatest: a tuple holds nothing older than what was there when channel 0's
\* message came, each such message is fused once, and the newest tuple is not
\* lost.  Every variable holds a value of its type.
BuffersHold ==
  /\ part = "reader" => TypeOK /\ WindowHolds /\ MultiIsNewest
  /\ part = "zero" =>
       /\ Zero!TypeOK /\ Zero!WindowHolds /\ Zero!IndexFollows
       /\ Zero!NewestNotLost
  /\ part = "fusion" =>
       /\ Fusion!TypeOK /\ Fusion!FusedIsFresh /\ Fusion!FusedOnce
       /\ Fusion!NewestNotLost

\* AllLatest: each fetch moves forward on channel 0 and never back on another,
\* though the fusion callback reads the channels at different times.
FusionInOrder == [][part = "fusion" => Fusion!FetchForward]_partVars
=============================================================================

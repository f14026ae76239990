------------------------------- MODULE Player -------------------------------
(***************************************************************************)
(* Playing records (tools/cyber_recorder/player/): the producer thread     *)
(* turns the messages of a RecordViewer into tasks, the consumer thread    *)
(* plays them in the order of their play times, a thread reads the keys,   *)
(* and the main thread passes the keys on and waits for the end.           *)
(*                                                                         *)
(* A message is [time, wanted]: wanted when there is a writer for its      *)
(* channel.  The viewer gives them in the order of their times             *)
(* (RecordView!ShownInOrder).  Sleeps take any time.                       *)
(***************************************************************************)
EXTENDS Integers, Sequences, SequencesExt, FiniteSets

CONSTANTS
  Views,           \* the sequences of messages that viewers may give
  PreloadSize,     \* preload_size
  MaxLoops,        \* bound: times that the records are played again
  MaxKeys          \* bound: keys

PlayerConstants ==
  /\ {PreloadSize, MaxLoops, MaxKeys} \subseteq Nat
  /\ \A v \in Views : v # <<>> /\ \A i \in 1 .. Len(v) - 1 : v[i].time <= v[i + 1].time

VARIABLES
  view, is_loop_playback,
  tasks_,                         \* of the PlayTaskBuffer: [loop, index, time]
  ppc, itr, loop_num, pstopped,   \* the producer
  cpc, task, cstopped, cpaused, conce,  \* the consumer
  mpc,                            \* the main thread
  stopped, paused, playonce,      \* flags of the Player
  ok,                             \* apollo::cyber::OK()
  keys, played, credit            \* history: keys; tasks; how many may be played in this pause

vars == <<view, is_loop_playback, tasks_, ppc, itr, loop_num, pstopped, cpc, task, cstopped, cpaused,
          conce, mpc, stopped, paused, playonce, ok, keys, played, credit>>

producer == <<ppc, itr, loop_num, pstopped>>
consumer == <<cpc, task, cstopped, cpaused, conce>>
player == <<stopped, paused, playonce>>
given == <<view, is_loop_playback>>

NoTask == [loop |-> 0, index |-> 0, time |-> 0]

(* Player::Start up to the preload: the producer's thread is there. *)
Init ==
  /\ view \in Views /\ is_loop_playback \in BOOLEAN
  /\ tasks_ = <<>>
  /\ ppc = "begin" /\ itr = 1 /\ loop_num = 0 /\ pstopped = FALSE
  /\ cpc = "off" /\ task = NoTask /\ cstopped = TRUE /\ cpaused = FALSE /\ conce = FALSE
  /\ mpc = "preload" /\ stopped = FALSE /\ paused = FALSE /\ playonce = FALSE
  /\ ok = TRUE /\ keys = 0 /\ played = <<>> /\ credit = 0

-----------------------------------------------------------------------------
(* PlayTaskProducer *)

(* loop_time_ns: from the beginning to the end of the times played. *)
LoopTime == Last(view).time - view[1].time

(* PlayTaskBuffer::Push: after the tasks of the same time. *)
Push(t) == InsertAt(tasks_, Cardinality({j \in 1 .. Len(tasks_) : tasks_[j].time <= t.time}) + 1, t)

(* Mutant: the messages of every loop get the times of the first. *)
Produce_SameTimes ==
  /\ ppc = "push" /\ ~pstopped /\ itr <= Len(view) /\ Len(tasks_) <= PreloadSize
  /\ itr' = itr + 1
  /\ tasks_' = IF view[itr].wanted
               THEN Push([loop |-> loop_num, index |-> itr, time |-> view[itr].time])
               ELSE tasks_
  /\ UNCHANGED <<given, ppc, loop_num, pstopped, consumer, mpc, player, ok,
                 keys, played, credit>>

(* ThreadFunc: a message of the viewer, unless the buffer is full. *)
Produce ==
  /\ ppc = "push" /\ ~pstopped /\ itr <= Len(view) /\ Len(tasks_) <= PreloadSize
  /\ itr' = itr + 1
  /\ tasks_' = IF view[itr].wanted
               THEN Push([loop |-> loop_num, index |-> itr, time |-> view[itr].time + loop_num * LoopTime])
               ELSE tasks_
  /\ UNCHANGED <<given, ppc, loop_num, pstopped, consumer, mpc, player, ok,
                 keys, played, credit>>

(* Its loops: the viewer from the beginning, ... *)
ProduceLoop ==
  /\ \/ ppc = "begin" /\ ppc' = (IF pstopped THEN "done" ELSE "push")
     \/ ppc = "push" /\ (pstopped \/ itr > Len(view)) /\ ppc' = "end"
  /\ itr' = IF ppc = "begin" THEN 1 ELSE itr
  /\ UNCHANGED <<given, tasks_, loop_num, pstopped, consumer, mpc, player, ok,
                 keys, played, credit>>

(* ... and at its end, another time or not. *)
ProduceEnd ==
  /\ ppc = "end"
  /\ IF is_loop_playback
     THEN loop_num < MaxLoops /\ loop_num' = loop_num + 1 /\ ppc' = "begin" /\ UNCHANGED pstopped
     ELSE pstopped' = TRUE /\ ppc' = "done" /\ UNCHANGED loop_num
  /\ UNCHANGED <<given, tasks_, itr, consumer, mpc, player, ok, keys, played, credit>>

-----------------------------------------------------------------------------
(* PlayTaskConsumer::ThreadFunc *)

TakeFront ==
  /\ cpc = "front"
  /\ \/ cstopped /\ cpc' = "done" /\ UNCHANGED task
     \/ ~cstopped /\ tasks_ # <<>> /\ task' = Head(tasks_) /\ cpc' = "play"
  /\ UNCHANGED <<given, tasks_, producer, cstopped, cpaused, conce, mpc, player,
                 ok, keys, played, credit>>

(* Stop during the sleep before the very first task. *)
FirstSleep ==
  /\ cpc = "play" /\ played = <<>> /\ cstopped /\ cpc' = "done"
  /\ UNCHANGED <<given, tasks_, producer, task, cstopped, cpaused, conce, mpc,
                 player, ok, keys, played, credit>>

(* PlayTask::Play, and is_playonce_ is cleared. *)
Play ==
  /\ cpc = "play" /\ cpc' = "paused" /\ conce' = FALSE
  /\ played' = Append(played, task)
  /\ credit' = IF cpaused THEN credit - 1 ELSE credit
  /\ UNCHANGED <<given, tasks_, producer, task, cstopped, cpaused, mpc, player, ok, keys>>

(* The loop while paused ends. *)
WaitPaused ==
  /\ cpc = "paused" /\ (~cpaused \/ cstopped \/ conce) /\ cpc' = "pop"
  /\ UNCHANGED <<given, tasks_, producer, task, cstopped, cpaused, conce, mpc,
                 player, ok, keys, played, credit>>

(* PopFront takes what is in front now. *)
PopFront ==
  /\ cpc = "pop" /\ cpc' = "front"
  /\ tasks_' = IF tasks_ = <<>> THEN tasks_ ELSE Tail(tasks_)
  /\ UNCHANGED <<given, producer, task, cstopped, cpaused, conce, mpc, player,
                 ok, keys, played, credit>>

-----------------------------------------------------------------------------
(* Player *)

(* ThreadFunc_Term: the keys space and s. *)
Key ==
  /\ mpc \notin {"preload", "joined", "gone"} /\ ~stopped /\ keys < MaxKeys /\ keys' = keys + 1
  /\ \/ paused' = ~paused /\ UNCHANGED playonce
     \/ playonce' = TRUE /\ UNCHANGED paused
  /\ UNCHANGED <<given, tasks_, producer, consumer, mpc, stopped, ok, played, credit>>

Shutdown == ok /\ ok' = FALSE
  /\ UNCHANGED <<given, tasks_, producer, consumer, mpc, player, keys, played, credit>>

(* Start after the preload: the consumer. *)
Preloaded ==
  /\ mpc = "preload" /\ mpc' = "top" /\ cstopped' = FALSE /\ cpc' = "front"
  /\ UNCHANGED <<given, tasks_, producer, task, cpaused, conce, player, ok,
                 keys, played, credit>>

(* The loop of Start hands the keys to the consumer, ... *)
PassKeys ==
  /\ mpc = "top"
  /\ IF ok
     THEN /\ mpc' = "stopped?" /\ cpaused' = paused /\ conce' = (conce \/ playonce) /\ playonce' = FALSE
          /\ credit' = (IF cpaused THEN credit ELSE 1) + (IF playonce THEN 1 ELSE 0)
     ELSE mpc' = "stop" /\ UNCHANGED <<cpaused, conce, playonce, credit>>
  /\ UNCHANGED <<given, tasks_, producer, cpc, task, cstopped, stopped, paused,
                 ok, keys, played>>

(* ... and asks whether the producer has stopped and, then, whether the    *)
(* buffer is empty.                                                        *)
AskStopped ==
  /\ mpc = "stopped?" /\ mpc' = (IF pstopped THEN "empty?" ELSE "top")
  /\ UNCHANGED <<given, tasks_, producer, consumer, player, ok, keys, played, credit>>

AskEmpty ==
  /\ mpc = "empty?"
  /\ IF tasks_ = <<>> THEN mpc' = "ended" /\ cstopped' = TRUE ELSE mpc' = "top" /\ UNCHANGED cstopped
  /\ UNCHANGED <<given, tasks_, producer, cpc, task, cpaused, conce, player, ok,
                 keys, played, credit>>

(* consumer_->Stop() joins the consumer; Start returns. *)
Ended ==
  /\ mpc = "ended" /\ cpc = "done" /\ mpc' = "stop"
  /\ UNCHANGED <<given, tasks_, producer, consumer, player, ok, keys, played, credit>>

(* ~Player, Stop: the producer's Stop joins it only when it has stopped    *)
(* already; the consumer's joins it otherwise.                             *)
Stop ==
  /\ mpc = "stop" /\ stopped' = TRUE /\ (pstopped => ppc = "done")
  /\ pstopped' = TRUE /\ cstopped' = TRUE /\ mpc' = "stopping"
  /\ UNCHANGED <<given, tasks_, ppc, itr, loop_num, cpc, task, cpaused, conce, paused, playonce, ok,
                 keys, played, credit>>

StopJoins ==
  /\ mpc = "stopping" /\ cpc \in {"done", "off"} /\ mpc' = "joined"
  /\ UNCHANGED <<given, tasks_, producer, consumer, player, ok, keys, played, credit>>

(* ~PlayTaskProducer: its second Stop joins the thread. *)
Destroy ==
  /\ mpc = "joined" /\ ppc = "done" /\ mpc' = "gone"
  /\ UNCHANGED <<given, tasks_, producer, consumer, player, ok, keys, played, credit>>

Next ==
  \/ Produce \/ ProduceLoop \/ ProduceEnd
  \/ TakeFront \/ FirstSleep \/ Play \/ WaitPaused \/ PopFront
  \/ Key \/ Shutdown \/ Preloaded \/ PassKeys \/ AskStopped \/ AskEmpty \/ Ended
  \/ Stop \/ StopJoins \/ Destroy

Spec == Init /\ [][Next]_vars

-----------------------------------------------------------------------------
(* Properties *)

(* What should be played: the wanted messages, loop after loop. *)
Wanted == SelectSeq([i \in 1 .. Len(view) |-> i], LAMBDA i : view[i].wanted)

(* Messages are played one after the other as they were recorded, in every *)
(* loop, each once, though the producer may push between the consumer's    *)
(* Front and its PopFront.                                                 *)
PlayedAsRecorded ==
  \A i \in 1 .. Len(played) :
    /\ played[i].loop = (i - 1) \div Len(Wanted)
    /\ played[i].index = Wanted[((i - 1) % Len(Wanted)) + 1]

(* When Start finds the end of the records, every message was played. *)
AllPlayedAtEnd == mpc = "ended" => Len(played) = Len(Wanted)

(* In a pause, the task at hand and one for every key s are played, no     *)
(* more.                                                                   *)
PauseHolds == cpaused => credit >= 0

(* When the Player is gone, so are its threads. *)
ThreadsJoined ==
  /\ mpc \in {"joined", "gone"} => cpc \in {"done", "off"}
  /\ mpc = "gone" => ppc = "done"
=============================================================================

-------------------------------- MODULE Livox --------------------------------
(***************************************************************************)
(* The Livox lidar driver (modules/drivers/livox) and the viewer of its    *)
(* point clouds (modules/drivers/pcl_viewer).                              *)
(*                                                                         *)
(* The daemon makes a controller for the lidar that broadcasts; the        *)
(* controller's monitor shakes hands with it over UDP, starts a receiver   *)
(* of point clouds, and a timer whose callback sends heartbeats.  Monitor  *)
(* and callback share the buffer `package` without a lock.  The receiver   *)
(* fills two blocks of shared memory in turn, which the viewer, another    *)
(* process, reads by turns.  A packet of a frame is the number of the pass *)
(* over the block that it was written in; zero is memory never written.    *)
(* Addresses and the contents of commands are left out.                    *)
(***************************************************************************)
EXTENDS Integers, Sequences, FiniteSets, SequencesExt

CONSTANTS
  kFrame,          \* packets of a frame (250)
  Bounds           \* bounds of a behaviour: [answers: packets that lidars send to the
                   \*   command port, beats: heartbeats, passes: frames received,
                   \*   fails: receives that fail in a frame, viewer: whether the
                   \*   viewer runs]

LivoxConstants == kFrame \in Nat \ {0} /\ Bounds \subseteq [answers : Nat, beats : Nat, passes : Nat, fails : Nat,
                                                   viewer : BOOLEAN]

VARIABLES
  handshaked,      \* device_map: the devices that have a controller
  mpc,             \* the monitor: "none" before the controller exists
  need_handshake, stop, ret, cmd_packet,
  package,         \* the buffer: what was packed, or received into it
  pcl_receiver,    \* index of the receiver the controller points to; 0 for nullptr
  timer_,          \* the heartbeat's timer is running
  hpc, hret,       \* its callback
  device,          \* what the devices have got: messages of the driver
  net,             \* answers on their way to the command port
  recv,            \* the receivers that were made
  block, in_use,   \* the shared memory
  vpc, seen,       \* the viewer: block that it shows, and the packets read from it
  qpc, stopping,   \* the main thread after WaitForShutdown; the receiver it stops
  switched,        \* history: a block was switched since the viewer looked at the flags
  raced,           \*   quit ran while the monitor set a receiver up
  fault,           \*   memory that does not exist was used
  oks,             \*   good answers that were delivered
  mixed,           \*   a heartbeat was packed into a package that the monitor was using
  answers, beats, passes, bound

control == <<handshaked, mpc, need_handshake, stop, ret, cmd_packet,
             pcl_receiver, timer_>>
callback == <<hpc, hret>>
memory == <<block, in_use, switched>>
viewer == <<vpc, seen>>
counts == <<answers, beats, passes, mixed>>
vars == <<control, callback, package, device, net, recv, memory, viewer, qpc,
          stopping, raced, fault, oks, counts, bound>>

-----------------------------------------------------------------------------
(* Commands and packages *)

(* Widths of the fields of the general commands, and of the lidar's. *)
GeneralCommand ==
  [handshake |-> <<4, 2, 2, 2>>, inquiry |-> <<>>, heartbeat |-> <<>>, sample |-> <<1>>,
   coord |-> <<1>>, disconnect |-> <<>>, exception |-> <<1>>, set_ip |-> <<1, 4, 4, 4>>,
   get_ip |-> <<>>, reboot |-> <<2>>]
LidarCommand ==
  [mode |-> <<1>>, set_calib |-> <<4, 4, 4, 4, 4, 4>>, get_calib |-> <<>>, fog |-> <<1>>, fan |-> <<1>>,
   get_fan |-> <<>>, set_echo |-> <<1>>, get_echo |-> <<>>, set_imu |-> <<1>>, get_imu |-> <<>>]

(* livox_command::create_instruction_*: the length of the data. *)
general_instruction(c) == FoldLeft(LAMBDA a, b : a + b, 0, GeneralCommand[c])
lidar_instruction(c) == FoldLeft(LAMBDA a, b : a + b, 0, LidarCommand[c])

MAX_MESSAGE_BUF_SIZE == 1500
GetPreambleLen == 1 + 1 + 2 + 1 + 2 + 2
GetPacketWrapperLen == GetPreambleLen + 1 + 1 + 4

(* Length of the package that Pack makes; what ParsePacket says of the     *)
(* data in it.                                                             *)
PackLength(data_len) == (data_len + GetPacketWrapperLen) % 2^16
ParsedLength(length) == (length - GetPacketWrapperLen) % 2^16

(* ParsePacket of the buffer: a length too short leaves the packet alone. *)
ParsePacket(in_len) ==
  IF in_len < GetPacketWrapperLen THEN cmd_packet ELSE package

(* The byte of the buffer that a handshake's answer has its ret_code in. *)
RetCodes(p) == IF p = "ok" THEN {0} ELSE IF p = "fail" THEN {1} ELSE {0, 1}

(* CheckPacket, which may go either way when something else came into the  *)
(* buffer while the command c was packed.                                  *)
CheckPacket(c, ok) == package # c \/ ok

(* create_package: Pack writes the fields, and the CRC of what is in the   *)
(* buffer then; CheckPacket.                                               *)
PackFields(c) == package' = c
PackCrc(c, ok, len) ==
  /\ CheckPacket(c, ok) /\ UNCHANGED package
  /\ len = IF ok THEN PackLength(general_instruction(c)) ELSE 0

(* Session::SendTo: its result is not looked at.  A package that fails to  *)
(* be sent, or is lost, is one that the device never reacts to.            *)
SendTo(len) == device' = device \cup (IF len > 0 THEN {package} ELSE {})

(* time_check.cc: times of Sec units per second.  Undefined fields of the  *)
(* result are left out.                                                    *)
create_time_point(t, Sec) == [seconds |-> t \div Sec, nanoseconds |-> t % Sec]
compare_time_point(b, a, Sec) ==
  LET delta == (a.seconds * Sec + a.nanoseconds) - (b.seconds * Sec + b.nanoseconds)
  IN IF a.seconds = b.seconds
     THEN IF a.nanoseconds < b.nanoseconds THEN [check_status |-> FALSE]
          ELSE [seconds |-> 0, nanoseconds |-> a.nanoseconds - b.nanoseconds, check_status |-> TRUE]
     ELSE IF a.seconds > b.seconds
          THEN [seconds |-> delta \div Sec, nanoseconds |-> delta % Sec, check_status |-> TRUE]
          ELSE [check_status |-> FALSE]

-----------------------------------------------------------------------------
(* The state at the start: lidar_dev_manager's devices, none with a        *)
(* controller, and a segment of shared memory that is zero.                *)
Init ==
  /\ handshaked = {} /\ mpc = "none" /\ need_handshake = TRUE /\ stop = FALSE
  /\ ret = 0 /\ cmd_packet = "other" /\ package = "other"
  /\ pcl_receiver = 0 /\ timer_ = FALSE /\ hpc = "idle" /\ hret = 0 /\ device = {} /\ net = <<>>
  /\ recv = <<>> /\ block = [b \in 0..1 |-> [i \in 1..kFrame |-> 0]] /\ in_use = [b \in 0..1 |-> FALSE]
  /\ vpc = "idle" /\ seen = <<>> /\ qpc = "running" /\ stopping = 0
  /\ switched = FALSE /\ raced = FALSE /\ fault = FALSE /\ oks = 0 /\ mixed = FALSE
  /\ answers = 0 /\ beats = 0 /\ passes = 0 /\ bound \in Bounds

(* init_devices: what is known of the device of each interface. *)
device_map == [i \in 0..5 |-> [broadcast_code |-> i, cmd_port |-> 55001 + i, data_port |-> 55002 + i,
                               sensor_port |-> 55003 + i]]
MAX_DEVICES == 5
find_device(i) == device_map[i]

(* livox_daemon::daemon: a broadcast of any lidar is taken for the one of  *)
(* device 0, if that has not got its controller yet.                       *)
check_boardcast_id(code) == {i \in 0..(MAX_DEVICES - 1) : find_device(i).broadcast_code = code} \ handshaked
lidar_dev_controller == need_handshake' = TRUE /\ stop' = FALSE /\ pcl_receiver' = 0
set_device_status(i) == handshaked' = handshaked \cup {i}
Daemon ==
  /\ \E i \in check_boardcast_id(0) : set_device_status(i)
  /\ lidar_dev_controller /\ mpc' = "top"
  /\ UNCHANGED <<ret, cmd_packet, timer_, callback, package, device, net, recv, memory, viewer, qpc, stopping,
                 raced, fault, oks, counts>>

(* A lidar answers a handshake, for good or not, or sends something else   *)
(* (a state, an answer to a heartbeat).  Answers may be lost or repeated.  *)
Answer(k) ==
  /\ answers < bound.answers /\ mpc # "none" /\ (k = "other" \/ "handshake" \in device)
  /\ net' = Append(net, k) /\ answers' = answers + 1
  /\ UNCHANGED <<control, callback, package, device, recv, memory, viewer, qpc, stopping, raced, fault, oks,
                 beats, passes, mixed>>

-----------------------------------------------------------------------------
(* lidar_dev_monitor *)

Monitor(from, to) == mpc = from /\ mpc' = to
monitorOnly == <<handshaked, callback, memory, viewer, qpc, stopping, counts>>

Top ==
  /\ Monitor("top", IF stop THEN "end" ELSE IF need_handshake THEN "crc" ELSE "recv")
  /\ IF ~stop /\ need_handshake THEN PackFields("handshake") ELSE UNCHANGED package
  /\ UNCHANGED <<need_handshake, stop, ret, cmd_packet, pcl_receiver, timer_,
                 device, net, recv, raced, fault, oks, monitorOnly>>

MonitorCrc(from, c, to) ==
  /\ Monitor(from, to)
  /\ \E ok \in BOOLEAN : PackCrc(c, ok, ret')
  /\ UNCHANGED <<need_handshake, stop, cmd_packet, pcl_receiver, timer_, device,
                 net, recv, raced, fault, oks, monitorOnly>>
MonitorSend(from, to) ==
  /\ Monitor(from, to) /\ SendTo(ret)
  /\ UNCHANGED <<need_handshake, stop, ret, cmd_packet, package, pcl_receiver,
                 timer_, net, recv, raced, fault, oks, monitorOnly>>

(* RecvFrom waits for a packet, which goes into the buffer. *)
Receive(i) ==
  /\ Monitor("recv", "parse") /\ package' = net[i]
  /\ net' = RemoveAt(net, i) /\ oks' = oks + (IF net[i] = "ok" THEN 1 ELSE 0)
  /\ UNCHANGED <<need_handshake, stop, ret, cmd_packet, pcl_receiver, timer_,
                 device, recv, raced, fault, monitorOnly>>

(* ... or fails, and the monitor begins again. *)
ReceiveFails ==
  /\ Monitor("recv", "top")
  /\ UNCHANGED <<need_handshake, stop, ret, cmd_packet, package, pcl_receiver, timer_,
                 device, net, recv, raced, fault, oks, monitorOnly>>

(* The packet is parsed with the length of the one sent last ... *)
Parse ==
  /\ cmd_packet' = ParsePacket(ret) /\ Monitor("parse", IF cmd_packet' \in {"ok", "fail"} THEN "code" ELSE "top")
  /\ UNCHANGED <<need_handshake, stop, ret, package, pcl_receiver, timer_,
                 device, net, recv, raced, fault, oks, monitorOnly>>

(* Mutant: the answer is taken for a good one. *)
CheckAck_Any ==
  /\ Monitor("code", "new")
  /\ UNCHANGED <<need_handshake, stop, ret, cmd_packet, package, pcl_receiver, timer_,
                 device, net, recv, raced, fault, oks, monitorOnly>>

(* ... and its data are read where they still are, in the buffer. *)
CheckAck ==
  /\ \E ret_code \in RetCodes(package) : Monitor("code", IF ret_code = 0 THEN "new" ELSE "top")
  /\ UNCHANGED <<need_handshake, stop, ret, cmd_packet, package, pcl_receiver, timer_,
                 device, net, recv, raced, fault, oks, monitorOnly>>

(* A good answer: new lidar_dev_pcl_receiver; its address; its thread. *)
NewReceiver ==
  /\ Monitor("new", "addr") /\ need_handshake' = FALSE
  /\ recv' = Append(recv, [thread |-> "none", stop |-> FALSE, deleted |-> FALSE, ab_part |-> TRUE,
                           package_count |-> 0, lost |-> [b \in 0..1 |-> 0], pass |-> 0])
  /\ pcl_receiver' = Len(recv) + 1 /\ raced' = (raced \/ qpc \in {"join", "delete"})
  /\ UNCHANGED <<stop, ret, cmd_packet, package, timer_, device, net, fault,
                 oks, monitorOnly>>
set_pcl_device_addr ==
  /\ Monitor("addr", "start") /\ fault' = (fault \/ recv[pcl_receiver].deleted)
  /\ UNCHANGED <<need_handshake, stop, ret, cmd_packet, package, pcl_receiver,
                 timer_, device, net, recv, raced, oks, monitorOnly>>
start_pcl_data_receiver ==
  /\ Monitor("start", "sample") /\ fault' = (fault \/ recv[pcl_receiver].deleted)
  /\ recv' = [recv EXCEPT ![pcl_receiver].stop = FALSE, ![pcl_receiver].thread = "init"]
  /\ UNCHANGED <<need_handshake, stop, ret, cmd_packet, package, pcl_receiver,
                 timer_, device, net, raced, oks, monitorOnly>>
Sample ==
  /\ Monitor("sample", "sample_crc") /\ PackFields("sample")
  /\ UNCHANGED <<need_handshake, stop, ret, cmd_packet, pcl_receiver, timer_,
                 device, net, recv, raced, fault, oks, monitorOnly>>
(* A second answer replaces the timer; what is left of the first one's     *)
(* callback packs the same as the new one's.                               *)
StartTimer ==
  /\ Monitor("timer", "top") /\ timer_' = TRUE
  /\ UNCHANGED <<need_handshake, stop, ret, cmd_packet, package, pcl_receiver,
                 device, net, recv, raced, fault, oks, monitorOnly>>

lidar_dev_monitor ==
  \/ Top \/ MonitorCrc("crc", "handshake", "send") \/ MonitorSend("send", "recv")
  \/ \E i \in DOMAIN net : Receive(i)
  \/ ReceiveFails \/ Parse \/ CheckAck \/ NewReceiver \/ set_pcl_device_addr \/ start_pcl_data_receiver
  \/ Sample \/ MonitorCrc("sample_crc", "sample", "sample_send") \/ MonitorSend("sample_send", "timer")
  \/ StartTimer

(* heartbeat, in the timer's task. *)
BeatFields ==
  /\ timer_ /\ hpc = "idle" /\ beats < bound.beats /\ hpc' = "crc" /\ beats' = beats + 1
  /\ mixed' = (mixed \/ mpc \in {"crc", "sample_crc", "parse", "code"})
  /\ PackFields("heartbeat") /\ UNCHANGED <<hret, device>>
BeatCrc == hpc = "crc" /\ hpc' = "send" /\ (\E ok \in BOOLEAN : PackCrc("heartbeat", ok, hret')) /\ UNCHANGED <<device, beats, mixed>>
BeatSend == hpc = "send" /\ hpc' = "idle" /\ SendTo(hret) /\ UNCHANGED <<hret, package, beats, mixed>>
heartbeat ==
  /\ BeatFields \/ BeatCrc \/ BeatSend
  /\ UNCHANGED <<control, net, recv, memory, viewer, qpc, stopping, raced,
                 fault, oks, answers, passes>>

-----------------------------------------------------------------------------
(* lidar_dev_pcl_receiver *)

Store(b, v) == in_use' = [in_use EXCEPT ![b] = v] /\ switched' = TRUE
Writing(r) == IF recv[r].ab_part THEN 0 ELSE 1

receiverOnly == <<control, callback, package, device, net, viewer, qpc,
                  stopping, raced, fault, oks, answers, beats, mixed>>

(* lidar_dev_pcl_init_shared_mem; reset_count_info: two stores. *)
ResetFirst(r) ==
  /\ recv[r].thread \in {"init", "reset"} /\ Store(0, recv[r].ab_part)
  /\ recv' = [recv EXCEPT ![r].thread = "reset2"]
  /\ UNCHANGED <<block, passes, receiverOnly>>

ResetSecond(r) ==
  /\ recv[r].thread = "reset2" /\ Store(1, ~recv[r].ab_part)
  /\ passes' = passes + 1
  /\ recv' = [recv EXCEPT ![r].thread = "top", ![r].package_count = 1, ![r].pass = passes + 1,
                          ![r].lost[Writing(r)] = 0]
  /\ UNCHANGED <<block, receiverOnly>>

Loop(r) ==
  /\ recv[r].thread = "top"
  /\ recv' = [recv EXCEPT ![r].thread = IF recv[r].stop THEN "done" ELSE "recvfrom"]
  /\ UNCHANGED <<memory, passes, receiverOnly>>
RecvTimeout(r) ==
  /\ recv[r].thread = "recvfrom" /\ recv' = [recv EXCEPT ![r].thread = "top"]
  /\ UNCHANGED <<memory, passes, receiverOnly>>

(* Mutant: the frame is over one packet early. *)
LastPackage_Early(r) == recv[r].package_count % kFrame = kFrame - 1

LastPackage(r) == recv[r].package_count % kFrame = 0

(* A packet is counted; the blocks are switched after the last.  What      *)
(* check_pcl_package and check_pcl_frame find is not used.                 *)
Counted(q, last) ==
  IF last THEN [q EXCEPT !.ab_part = ~@, !.thread = "reset"]
  ELSE [q EXCEPT !.package_count = @ + 1, !.thread = "top"]

(* A packet of a lidar that samples comes to where pcl_ptr points. *)
RecvPackage(r) ==
  /\ recv[r].thread = "recvfrom" /\ "sample" \in device /\ (~LastPackage(r) \/ passes < bound.passes)
  /\ block' = [block EXCEPT ![Writing(r)][recv[r].package_count - recv[r].lost[Writing(r)]] = recv[r].pass]
  /\ recv' = [recv EXCEPT ![r] = Counted(@, LastPackage(r))]
  /\ UNCHANGED <<in_use, switched, passes, receiverOnly>>

(* recvfrom fails, but not for the timeout: a packet is counted that never *)
(* came, and pcl_ptr goes back by the byte of the result (which is not     *)
(* told from a packet's place here).                                       *)
RecvError(r) ==
  /\ recv[r].thread = "recvfrom" /\ recv[r].lost[Writing(r)] < bound.fails /\ (~LastPackage(r) \/ passes < bound.passes)
  /\ recv' = [recv EXCEPT ![r] = Counted([@ EXCEPT !.lost[Writing(r)] = @ + 1], LastPackage(r))]
  /\ UNCHANGED <<memory, passes, receiverOnly>>

receiver_function(r) ==
  ResetFirst(r) \/ ResetSecond(r) \/ Loop(r) \/ RecvTimeout(r) \/ RecvPackage(r) \/ RecvError(r)

(* The viewer: it looks at the two flags, maybe twice. *)
viewerOnly == <<control, callback, package, device, net, recv, block, in_use, qpc, stopping, raced, fault,
                oks, counts>>
Look(from, b, v, to, else) ==
  /\ bound.viewer /\ vpc = from /\ vpc' = IF in_use[b] = v THEN to ELSE else
  /\ seen' = <<>> /\ switched' = IF b = 0 THEN FALSE ELSE switched
  /\ UNCHANGED viewerOnly
ReadPacket(from, b) ==
  /\ vpc = from /\ Len(seen) < kFrame
  /\ seen' = Append(seen, block[b][Len(seen) + 1]) /\ UNCHANGED <<vpc, switched, viewerOnly>>
Show ==
  /\ vpc \in {"read0", "read1"} /\ Len(seen) = kFrame
  /\ vpc' = "idle" /\ seen' = <<>> /\ UNCHANGED <<switched, viewerOnly>>
Viewer ==
  \/ Look("idle", 0, FALSE, "a", "else") \/ Look("a", 1, TRUE, "read0", "else")
  \/ Look("else", 0, TRUE, "b", "idle") \/ Look("b", 1, FALSE, "read1", "idle")
  \/ ReadPacket("read0", 0) \/ ReadPacket("read1", 1) \/ Show

-----------------------------------------------------------------------------
(* livox_daemon::quit, when the main thread destroys the daemon. *)
quitOnly == <<handshaked, mpc, need_handshake, ret, cmd_packet, pcl_receiver, timer_,
              callback, package, device, net, memory, viewer, oks, counts>>
Quit ==
  /\ qpc = "running"
  /\ IF handshaked # {} /\ pcl_receiver # 0
     THEN /\ recv' = [recv EXCEPT ![pcl_receiver].stop = TRUE] /\ qpc' = "join" /\ UNCHANGED stop
          /\ stopping' = pcl_receiver
          /\ raced' = (mpc \in {"addr", "start"})
     ELSE qpc' = "done" /\ stop' = (handshaked # {}) /\ UNCHANGED <<recv, stopping, raced>>
  /\ UNCHANGED <<fault, quitOnly>>

(* Mutant: the thread is not waited for. *)
Joined_Not(r) == TRUE

Joined(r) == recv[r].thread \in {"none", "done"}

(* The rest of stop_dev_pcl_receiver: the block interface is the one that  *)
(* the thread made.                                                        *)
stop_dev_pcl_receiver ==
  /\ qpc = "join" /\ Joined(stopping) /\ qpc' = "delete"
  /\ fault' = (fault \/ recv[stopping].thread = "none")
  /\ UNCHANGED <<recv, stop, stopping, raced, quitOnly>>
stop_lidar_dev_controller ==
  /\ qpc = "delete" /\ qpc' = "done" /\ stop' = TRUE
  /\ recv' = [recv EXCEPT ![pcl_receiver].deleted = TRUE]
  /\ UNCHANGED <<fault, stopping, raced, quitOnly>>

Next ==
  /\ UNCHANGED bound
  /\ \/ Daemon
     \/ \E k \in {"ok", "fail", "other"} : Answer(k)
     \/ lidar_dev_monitor \/ heartbeat
     \/ \E r \in DOMAIN recv : receiver_function(r)
     \/ Viewer
     \/ Quit \/ stop_dev_pcl_receiver \/ stop_lidar_dev_controller

Spec == Init /\ [][Next]_vars

-----------------------------------------------------------------------------
(* The viewer shows packets of one pass over the block, and as many of     *)
(* older passes after them as receives failed in that pass, if no block    *)
(* was switched from its look at the flags on, and there is one receiver:  *)
(* nothing keeps the receiver from coming back to a block that is read.    *)
ShownWhole ==
  vpc \in {"read0", "read1"} /\ ~switched /\ Len(recv) = 1 =>
    LET came == kFrame - recv[1].lost[IF vpc = "read0" THEN 0 ELSE 1]
    IN \A i, j \in DOMAIN seen : i < j => IF j <= came THEN seen[i] = seen[j] ELSE seen[i] >= seen[j]

(* A receiver that quit has deleted has no thread left, and memory that    *)
(* does not exist is never used, unless quit met the monitor between the   *)
(* receiver's construction and the start of its thread.                    *)
ReceiverGone ==
  raced \/ (~fault /\ \A r \in DOMAIN recv : recv[r].deleted => recv[r].thread = "done")

(* A receiver is made for each good answer to a handshake, and for nothing *)
(* else, unless a heartbeat came into the buffer while the monitor packed  *)
(* a command there or looked at an answer.                                 *)
OneReceiverPerAnswer ==
  LET pending == mpc = "new" \/ (mpc \in {"parse", "code"} /\ package = "ok")
  IN mixed \/ oks = Len(recv) + (IF pending THEN 1 ELSE 0)

(* Every command fits the buffer and is parsed with the length it was      *)
(* packed with; the difference of two times is exact, and refused when the *)
(* second is the earlier.                                                  *)
WireAndTimes ==
  /\ \A c \in DOMAIN GeneralCommand : LET n == general_instruction(c) IN
       PackLength(n) <= MAX_MESSAGE_BUF_SIZE /\ ParsedLength(PackLength(n)) = n
  /\ \A c \in DOMAIN LidarCommand : LET n == lidar_instruction(c) IN
       PackLength(n) <= MAX_MESSAGE_BUF_SIZE /\ ParsedLength(PackLength(n)) = n
  /\ \A a, b \in 0..8 :
       LET d == compare_time_point(create_time_point(b, 3), create_time_point(a, 3), 3)
       IN d.check_status = (b <= a) /\ (b <= a => d.seconds * 3 + d.nanoseconds = a - b)

=============================================================================

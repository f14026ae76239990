----------------------------- MODULE PyBindings -----------------------------
(***************************************************************************)
(* The Python extension modules (python/internal) and the Python classes   *)
(* on them (python/cyber_py3): one interpreter thread, a reader and a      *)
(* service of one node and a timer, whose callbacks run in threads of the  *)
(* framework.                                                              *)
(*                                                                         *)
(* A wrapper holds the interpreter's lock from its call to its return, and *)
(* a callback needs that lock.  An object is a capsule with a raw pointer: *)
(* deleting it leaves the capsule as it is, and a use of it after that may *)
(* crash the program.                                                      *)
(***************************************************************************)
EXTENDS Naturals, Sequences, SequencesExt

CONSTANTS
  Apis,            \* "wrapper": the extension alone; "cyber.py": its classes
  Programs,        \* bound: sets of the objects that a program makes
  MaxMsgs,         \* bound: messages on the channel
  MaxRequests      \* bound: requests to the service

PyBindingsConstants ==
  Apis \subseteq {"wrapper", "cyber.py"} /\ MaxMsgs \in Nat /\ MaxRequests \in Nat

Objects == {"node", "writer", "reader", "client", "service"}
(* The classes whose objects have no thread and no callback: new, calls, delete. *)
Plain == {"PyTime", "PyDuration", "PyRate", "PyRecordReader", "PyRecordWriter",
          "PyParameter", "PyParameterClient", "PyParameterServer"}
Utils == {"PyChannelUtils", "PyNodeUtils", "PyServiceUtils"}

VARIABLES
  api, uses,       \* given: what the program calls and makes
  gil,             \* the thread that has the interpreter: "main", "reader", "service", "none"
  mpc,             \* the interpreter thread: in Python, or in a call that waits
  obj,             \* each object: "none", "live", "freed"
  node_,           \* the node of the PyNode exists
  desc,            \* the message type is registered (PyNode_register_message)
  writer_,         \* the PyWriter has a Writer
  plain,           \* the object of a plain class the program holds, if any
  deleting,        \* how far Node.__del__ is
  func,            \* the callbacks registered: of "reader", "service"
  rpc, cache_,     \* the reader's routine; PyReader: messages that arrived
  arrived, missed, \* messages so far; those that came before register_func
  shown, dropped,  \* messages given to Python; messages that read(wait) threw away
  spc, queue, cur, \* the service's thread, its requests, the one it works on
  request_cache_, response_cache_,
  sent, answers,   \* requests sent so far; request -> what it was answered
  called,          \* requests that a Python callback was given
  left,            \* history: a request stayed in request_cache_
  timer, tpc,      \* the PyTimer; the job of its Timer in a thread of the pool
  crashed

given == <<api, uses>>
vars == <<given, gil, mpc, obj, node_, desc, writer_, plain, deleting, func, rpc, cache_, arrived,
          missed, shown, dropped, spc, queue, cur, request_cache_, response_cache_, sent, answers,
          called, left, timer, tpc, crashed>>

nodeVars == <<obj, node_, desc, writer_, plain, deleting>>
readerVars == <<rpc, cache_, arrived, missed, shown, dropped>>
serviceVars == <<spc, queue, cur, request_cache_, response_cache_, sent,
                 answers, called, left>>
timerVars == <<timer, tpc>>
ends == <<timerVars, crashed>>

Init ==
  /\ api \in Apis /\ uses \in Programs /\ gil = "main" /\ mpc = "python"
  /\ obj = [o \in Objects |-> "none"] /\ node_ = FALSE /\ desc = FALSE /\ writer_ = FALSE
  /\ plain = "none" /\ deleting = 0 /\ func = {}
  /\ rpc = "idle" /\ cache_ = <<>> /\ arrived = 0 /\ missed = 0 /\ shown = <<>> /\ dropped = {}
  /\ spc = "none" /\ queue = <<>> /\ cur = 0 /\ request_cache_ = <<>> /\ response_cache_ = <<>>
  /\ sent = 0 /\ answers = <<>> /\ called = {} /\ left = FALSE
  /\ timer = "none" /\ tpc = "idle" /\ crashed = FALSE

(* The program is at Python code, with the interpreter. *)
InPython == ~crashed /\ mpc = "python" /\ gil = "main"

(* The interpreter changes threads between two bytecodes, never in a call. *)
Switch ==
  /\ ~crashed
  /\ \/ InPython /\ gil' = "none"
     \/ gil = "none" /\ mpc = "python" /\ gil' = "main"
  /\ UNCHANGED <<given, mpc, nodeVars, func, readerVars, serviceVars, ends>>

-----------------------------------------------------------------------------
(* PyNode *)

NewNode ==
  /\ InPython /\ obj["node"] = "none"
  /\ obj' = [obj EXCEPT !["node"] = "live"] /\ node_' = TRUE
  /\ UNCHANGED <<given, gil, mpc, desc, writer_, plain, deleting, func,
                 readerVars, serviceVars, ends>>

RegisterMessage ==
  /\ InPython /\ obj["node"] = "live" /\ ~desc /\ desc' = TRUE
  /\ UNCHANGED <<given, gil, mpc, obj, node_, writer_, plain, deleting, func, readerVars, serviceVars,
                 ends>>

(* PyWriter: of an unknown type it is made without a Writer. *)
PyWriter == desc

(* PyNode::create_*: null without a node.  A null reader aborts.           *)
Create(o) ==
  /\ InPython /\ o \in uses /\ obj["node"] = "live" /\ obj[o] = "none" /\ deleting = 0
  /\ o = "writer" /\ api = "cyber.py" => desc
  /\ IF node_
     THEN /\ obj' = [obj EXCEPT ![o] = "live"]
          /\ writer_' = (IF o = "writer" THEN PyWriter ELSE writer_)
          /\ spc' = (IF o = "service" THEN "idle" ELSE spc)
          /\ UNCHANGED crashed
     ELSE crashed' = (o = "reader") /\ UNCHANGED <<obj, writer_, spc>>
  /\ UNCHANGED <<given, gil, mpc, node_, desc, plain, deleting, func, readerVars, queue, cur,
                 request_cache_, response_cache_, sent, answers, called, left, timerVars>>

(* PyReader::register_func, PyService::register_func *)
RegisterFunc(o) ==
  /\ InPython /\ obj[o] = "live" /\ o \notin func /\ func' = func \cup {o}
  /\ UNCHANGED <<given, gil, mpc, nodeVars, readerVars, serviceVars, ends>>

(* PyWriter_write, of a Writer that may be null. *)
Write ==
  /\ InPython /\ obj["writer"] # "none"
  /\ crashed' \in IF obj["writer"] = "freed" THEN BOOLEAN ELSE {~writer_}
  /\ UNCHANGED <<given, gil, mpc, nodeVars, func, readerVars, serviceVars, timerVars>>

(* The wrappers of a plain class parse their arguments, take the pointer   *)
(* out of the capsule and return None if either fails.  new and delete: *)
Wrapper(class) ==
  /\ InPython /\ class \in uses /\ plain \in {"none", class}
  /\ plain' = (IF plain = "none" THEN class ELSE "none")
  /\ UNCHANGED <<given, gil, mpc, obj, node_, desc, writer_, deleting, func, readerVars, serviceVars,
                 ends>>

(* A call that sleeps, or waits for others, with the interpreter's lock:   *)
(* the other calls change nothing but the object they are of.              *)
Call(class) ==
  /\ InPython /\ plain = class /\ mpc' = "wait"
  /\ UNCHANGED <<given, gil, nodeVars, func, readerVars, serviceVars, ends>>

WaitEnds ==
  /\ mpc = "wait" /\ mpc' = "python"
  /\ UNCHANGED <<given, gil, nodeVars, func, readerVars, serviceVars, ends>>

(* The utilities sleep until the topology is known.                        *)
Query(class) ==
  /\ InPython /\ class \in uses /\ plain = "none" /\ mpc' = "wait"
  /\ UNCHANGED <<given, gil, nodeVars, func, readerVars, serviceVars, ends>>

PyTimes == Wrapper("PyTime")
PyTimeCalls == Call("PyTime")
PyDurations == Wrapper("PyDuration")
PyDurationCalls == Call("PyDuration")
PyRates == Wrapper("PyRate")
PyRateCalls == Call("PyRate")
PyRecordReaders == Wrapper("PyRecordReader")
PyRecordWriters == Wrapper("PyRecordWriter")
PyRecordWriterCalls == Call("PyRecordWriter")
PyParameters == Wrapper("PyParameter")
PyParameterClients == Wrapper("PyParameterClient")
PyParameterClientCalls == Call("PyParameterClient")
PyParameterServers == Wrapper("PyParameterServer")
PyChannelUtils == Query("PyChannelUtils")
PyNodeUtils == Query("PyNodeUtils")
PyServiceUtils == Query("PyServiceUtils")

PlainCalls ==
  \/ PyTimes \/ PyTimeCalls \/ PyDurations \/ PyDurationCalls \/ PyRates \/ PyRateCalls
  \/ PyRecordReaders \/ PyRecordWriters \/ PyRecordWriterCalls
  \/ PyParameters \/ PyParameterClients \/ PyParameterClientCalls
  \/ PyParameterServers
  \/ PyChannelUtils \/ PyNodeUtils \/ PyServiceUtils

-----------------------------------------------------------------------------
(* PyReader *)

(* The node and the PyReader share the Reader: it lives as long as one of  *)
(* them has it.                                                            *)
ReaderOpen ==
  \/ obj["reader"] = "live"
  \/ obj["reader"] = "freed" /\ node_ /\ mpc # "del_node"

(* PyReader::cb, cb_rawmsg: the message goes to the cache; then the        *)
(* callback, if any, is called, ...                                        *)
ReaderCb ==
  /\ ~crashed /\ ReaderOpen /\ rpc = "idle" /\ arrived < MaxMsgs /\ arrived' = arrived + 1
  /\ crashed' \in IF obj["reader"] = "freed" THEN BOOLEAN ELSE {FALSE}
  /\ cache_' = IF obj["reader"] = "freed" THEN cache_ ELSE Append(cache_, arrived')
  /\ missed' = IF "reader" \in func THEN missed ELSE missed + 1
  /\ rpc' = IF "reader" \in func THEN "gil" ELSE "notify"
  /\ UNCHANGED <<given, gil, mpc, nodeVars, func, shown, dropped, serviceVars, timerVars>>

(* Mutant: the message read stays in the cache. *)
ReaderCallback_Peeks ==
  /\ ~crashed /\ rpc = "gil" /\ gil = "none" /\ rpc' = "notify"
  /\ shown' = IF cache_ = <<>> THEN shown ELSE Append(shown, Head(cache_))
  /\ UNCHANGED <<given, gil, mpc, nodeVars, func, cache_, arrived, missed,
                 dropped, serviceVars, ends>>

(* ... which is Node.reader_callback: it reads one message; ...            *)
ReaderCallback ==
  /\ ~crashed /\ rpc = "gil" /\ gil = "none" /\ rpc' = "notify"
  /\ IF cache_ = <<>> THEN UNCHANGED <<cache_, shown>>
     ELSE cache_' = Tail(cache_) /\ shown' = Append(shown, Head(cache_))
  /\ UNCHANGED <<given, gil, mpc, nodeVars, func, arrived, missed, dropped,
                 serviceVars, ends>>

(* ... and then a read that waits is woken: it has thrown its first message *)
(* away, and returns the next.                                             *)
Notify ==
  /\ ~crashed /\ rpc = "notify" /\ rpc' = "idle"
  /\ IF mpc = "read" /\ cache_ # <<>>
     THEN mpc' = "python" /\ cache_' = Tail(cache_) /\ shown' = Append(shown, Head(cache_))
     ELSE UNCHANGED <<mpc, cache_, shown>>
  /\ UNCHANGED <<given, gil, nodeVars, func, arrived, missed, dropped, serviceVars, ends>>

(* PyReader_read, which cyber.py calls in its callback only.               *)
Read(wait) ==
  /\ InPython /\ api = "wrapper" /\ obj["reader"] = "live"
  /\ LET rest == IF cache_ = <<>> THEN <<>> ELSE Tail(cache_)
         first == IF cache_ = <<>> THEN {} ELSE {Head(cache_)}
     IN IF ~wait
        THEN /\ cache_' = rest /\ shown' = shown \o SetToSeq(first) /\ UNCHANGED <<mpc, dropped>>
        ELSE /\ dropped' = dropped \cup first
             /\ IF rest = <<>> THEN mpc' = "read" /\ cache_' = rest /\ UNCHANGED shown
                ELSE cache_' = Tail(rest) /\ shown' = Append(shown, Head(rest)) /\ UNCHANGED mpc
  /\ UNCHANGED <<given, gil, nodeVars, func, rpc, arrived, missed, serviceVars, ends>>

-----------------------------------------------------------------------------
(* PyService and PyClient *)

(* A request: of PyClient_send_request, which waits, or from elsewhere.    *)
Request(own) ==
  /\ spc # "none" /\ sent < MaxRequests /\ sent' = sent + 1 /\ queue' = Append(queue, sent')
  /\ IF own
     THEN /\ InPython /\ obj["client"] # "none" /\ mpc' = "send"
          /\ crashed' \in IF obj["client"] = "freed" THEN BOOLEAN ELSE {FALSE}
     ELSE ~crashed /\ UNCHANGED <<mpc, crashed>>
  /\ UNCHANGED <<given, gil, nodeVars, func, readerVars, spc, cur, request_cache_, response_cache_,
                 answers, called, left, timerVars>>

(* The answer comes, or the time is up. *)
RequestReturns ==
  /\ mpc = "send" /\ mpc' = "python"
  /\ UNCHANGED <<given, gil, nodeVars, func, readerVars, serviceVars, ends>>

(* PyService::cb, with msg_lock_. *)
ServiceCb ==
  /\ ~crashed /\ spc = "idle" /\ queue # <<>> /\ mpc # "del_service"
  /\ queue' = Tail(queue) /\ cur' = Head(queue)
  /\ request_cache_' = Append(request_cache_, Head(queue))
  /\ spc' = IF "service" \in func THEN "gil" ELSE "answer"
  /\ left' = (left \/ "service" \notin func)
  /\ UNCHANGED <<given, gil, mpc, nodeVars, func, readerVars, response_cache_, sent, answers, called,
                 ends>>

(* The callback reads a request and writes its response, or raises.        *)
(* Node.service_callback looks its service up under the name it is given,  *)
(* which is bytes, among names that are str: it raises KeyError.           *)
ServiceCallback ==
  /\ ~crashed /\ spc = "gil" /\ gil = "none" /\ spc' = "answered"
  /\ \/ /\ api = "wrapper"
        /\ request_cache_' = Tail(request_cache_) /\ called' = called \cup {Head(request_cache_)}
        /\ response_cache_' = Append(response_cache_, Head(request_cache_))
        /\ UNCHANGED left
     \/ left' = TRUE /\ UNCHANGED <<request_cache_, response_cache_, called>>
  /\ UNCHANGED <<given, gil, mpc, nodeVars, func, readerVars, queue, cur, sent,
                 answers, ends>>

(* The first response there is, else an empty one. *)
Answer ==
  /\ ~crashed /\ spc \in {"answer", "answered"} /\ spc' = "idle" /\ cur' = 0
  /\ LET r == IF response_cache_ = <<>> THEN 0 ELSE Head(response_cache_)
     IN answers' = Append(answers, [request |-> cur, response |-> r])
  /\ response_cache_' = IF response_cache_ = <<>> THEN <<>> ELSE Tail(response_cache_)
  /\ UNCHANGED <<given, gil, mpc, nodeVars, func, readerVars, queue, request_cache_, sent, called,
                 left, ends>>

-----------------------------------------------------------------------------
(* Node.__del__: the writers, readers, clients, services and the node, in  *)
(* this order.  The program may hold a Writer or a Client longer.          *)
DelOrder == <<"writer", "reader", "client", "service", "node">>

(* The object is freed, if there is one; the call goes on at pc.           *)
Delete(o, pc, inUse) ==
  /\ InPython /\ obj["node"] = "live" /\ plain = "none"
  /\ o = DelOrder[deleting + 1] /\ deleting' = deleting + 1
  /\ IF obj[o] = "live"
     THEN obj' = [obj EXCEPT ![o] = "freed"] /\ mpc' = pc /\ crashed' \in {FALSE, inUse}
     ELSE UNCHANGED <<obj, mpc, crashed>>
  /\ UNCHANGED <<given, gil, node_, desc, writer_, plain, func, readerVars,
                 serviceVars, timerVars>>

DeletePyWriter == Delete("writer", "python", FALSE)
DeletePyClient == Delete("client", "python", FALSE)

(* A PyReader that has the Reader alone ends it, before or after its cache *)
(* (reader_rawmsg_ and reader_).                                           *)
DeletePyReader == Delete("reader", IF node_ THEN "python" ELSE "del_reader", rpc # "idle")

(* A PyService's caches go before its Service, whose thread may be in cb.  *)
DeletePyService == Delete("service", "del_service", spc \notin {"none", "idle"})

DeletePyNode == Delete("node", "del_node", FALSE)

(* Mutant: the thread is not joined. *)
ServiceJoined_Not ==
  /\ mpc = "del_service" /\ mpc' = "python"
  /\ UNCHANGED <<given, gil, nodeVars, func, readerVars, serviceVars, ends>>

(* Service::destroy joins the thread; ~Reader waits for its routine.       *)
(* PyNode_shutdown and delete_PyNode destroy the node, and with it a       *)
(* Reader that has no PyReader any more.                                   *)
ServiceJoined ==
  /\ mpc = "del_service" /\ spc = "idle" /\ spc' = "none" /\ mpc' = "python"
  /\ UNCHANGED <<given, gil, nodeVars, func, readerVars, queue, cur, request_cache_, response_cache_,
                 sent, answers, called, left, ends>>

ShutdownNode ==
  /\ InPython /\ api = "wrapper" /\ obj["node"] = "live" /\ node_ /\ mpc' = "del_node"
  /\ UNCHANGED <<given, gil, nodeVars, func, readerVars, serviceVars, ends>>

ReaderGone ==
  /\ mpc = "del_reader" /\ rpc = "idle" /\ mpc' = "python"
  /\ UNCHANGED <<given, gil, nodeVars, func, readerVars, serviceVars, ends>>

NodeGone ==
  /\ mpc = "del_node" /\ (ReaderOpen \/ rpc = "idle") /\ mpc' = "python" /\ node_' = FALSE
  /\ UNCHANGED <<given, gil, obj, desc, writer_, plain, deleting, func,
                 readerVars, serviceVars, ends>>

-----------------------------------------------------------------------------
(* PyTimer *)

(* new_PyTimer, and PyTimer_start, with InitTimerTask.                     *)
NewTimer ==
  /\ InPython /\ "PyTimer" \in uses /\ timer = "none" /\ timer' = "made"
  /\ UNCHANGED <<given, gil, mpc, nodeVars, func, readerVars, serviceVars, tpc, crashed>>

StartTimer ==
  /\ InPython /\ timer = "made" /\ timer' = "started"
  /\ UNCHANGED <<given, gil, mpc, nodeVars, func, readerVars, serviceVars, tpc, crashed>>

(* The wheel's job: it locks its weak pointer to the task, then the task's *)
(* mutex, and then calls back into Python.  A job that has the task when   *)
(* Stop lets it go is "late": it still calls, though the function may be   *)
(* gone with the Timer.                                                    *)
TimerJob ==
  /\ ~crashed
  /\ \/ timer = "started" /\ tpc = "idle" /\ tpc' = "locked"
     \/ tpc = "locked" /\ tpc' = "gil"
     \/ tpc = "late" /\ tpc' = "late_gil"
  /\ UNCHANGED <<given, gil, mpc, nodeVars, func, readerVars, serviceVars, timer, crashed>>

TimerCallback ==
  /\ ~crashed /\ tpc \in {"gil", "late_gil"} /\ gil = "none" /\ tpc' = "idle"
  /\ crashed' \in IF timer = "freed" THEN BOOLEAN ELSE {FALSE}
  /\ UNCHANGED <<given, gil, mpc, nodeVars, func, readerVars, serviceVars, timer>>

(* PyTimer_stop and delete_PyTimer: Timer::Stop waits for the mutex, with  *)
(* the interpreter's lock.                                                 *)
StopTimer ==
  /\ InPython /\ timer = "started" /\ mpc' = "stop_timer"
  /\ UNCHANGED <<given, gil, nodeVars, func, readerVars, serviceVars, ends>>

(* Mutant: Stop without the mutex of the task. *)
TimerStopped_Unlocked ==
  /\ mpc = "stop_timer" /\ mpc' = "python" /\ timer' = "stopped"
  /\ tpc' = IF tpc = "locked" THEN "late" ELSE tpc
  /\ UNCHANGED <<given, gil, nodeVars, func, readerVars, serviceVars, crashed>>

TimerStopped ==
  /\ mpc = "stop_timer" /\ tpc # "gil" /\ mpc' = "python" /\ timer' = "stopped"
  /\ tpc' = IF tpc = "locked" THEN "late" ELSE tpc
  /\ UNCHANGED <<given, gil, nodeVars, func, readerVars, serviceVars, crashed>>

DeleteTimer ==
  /\ InPython /\ timer \in {"made", "stopped"} /\ timer' = "freed"
  /\ UNCHANGED <<given, gil, mpc, nodeVars, func, readerVars, serviceVars, tpc, crashed>>

Next ==
  \/ Switch \/ NewNode \/ RegisterMessage \/ Write \/ WaitEnds
  \/ \E o \in Objects \ {"node"} : Create(o)
  \/ \E o \in {"reader", "service"} : RegisterFunc(o)
  \/ PlainCalls
  \/ ReaderCb \/ ReaderCallback \/ Notify \/ \E wait \in BOOLEAN : Read(wait)
  \/ \E own \in BOOLEAN : Request(own)
  \/ RequestReturns \/ ServiceCb \/ ServiceCallback \/ Answer
  \/ DeletePyWriter \/ DeletePyReader \/ DeletePyClient \/ DeletePyService \/ DeletePyNode
  \/ ServiceJoined \/ ReaderGone \/ ShutdownNode \/ NodeGone
  \/ NewTimer \/ StartTimer \/ TimerJob \/ TimerCallback \/ StopTimer \/ TimerStopped
  \/ DeleteTimer

Spec == Init /\ [][Next]_vars

-----------------------------------------------------------------------------
(* Python is given the messages in the order of their arrival, none twice. *)
(* At rest the PyReader holds back no more of them than came before        *)
(* register_func: each later one brings one to Python.                     *)
MessagesInOrder ==
  /\ \A i, j \in 1 .. Len(shown) : i < j => shown[i] < shown[j]
  /\ rpc = "idle" => Len(cache_) <= missed

(* The response to a request is the callback's for this request, as long as *)
(* each request was read: one that comes before register_func, or whose    *)
(* callback raises, stays and shifts all later responses.                  *)
OwnResponse ==
  left \/ \A i \in 1 .. Len(answers) : answers[i].response \in {0, answers[i].request}

(* When a PyService is gone, or the PyReader and the node with it, no      *)
(* thread of it is in a callback; nor when a PyTimer has stopped, except   *)
(* for a job that had its task before.                                     *)
QuietWhenGone ==
  /\ obj["service"] = "freed" /\ mpc # "del_service" => spc = "none"
  /\ obj["reader"] = "freed" /\ ~node_ /\ mpc # "del_reader" => rpc = "idle"
  /\ timer \in {"stopped", "freed"} => tpc \in {"idle", "late", "late_gil"}

(* With the classes of cyber.py a program does not crash before it deletes *)
(* something: the type is registered before a PyWriter is made, and the    *)
(* node is there as long as anything is created on it.                     *)
SafeBeforeDel == api = "cyber.py" /\ crashed => deleting > 0 \/ timer = "freed"
=============================================================================

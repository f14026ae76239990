------------------------------- MODULE Poller -------------------------------
(***************************************************************************)
(* Socket IO in routines (io/): Sessions whose PollHandlers block a        *)
(* routine until the Poller's thread has an answer for it.                 *)
(*                                                                         *)
(* There is one session, used by one routine, for each file descriptor; it *)
(* may be closed, by its routine or by another thread, and its descriptor  *)
(* opened again.  The operations wait for data (EPOLLIN); those that wait  *)
(* for room (EPOLLOUT) differ in that only.  Times are in Polls: an        *)
(* interval counts as one millisecond at least.                            *)
(***************************************************************************)
EXTENDS Integers, FiniteSets

CONSTANTS
  Fds,
  Timeouts,        \* of the operations, -1 for none
  MaxData,         \* bound: times that data comes
  MaxCloses        \* bound: sessions that are closed

PollerConstants == Timeouts \subseteq {-1} \cup (Nat \ {0}) /\ MaxData \in Nat /\ MaxCloses \in Nat

VARIABLES
  data,            \* descriptors with data to read
  epoll,           \* the epoll set: "out", "armed", or "fired" (EPOLLONESHOT)
  requests_,       \* timeout_ms of the request of a descriptor; None if it has none
  ctrl_params_,    \* the operation to be done for a descriptor, or "none"
  local_params, responses, tpc,   \* the thread
  is_shutdown_,
  rpc,             \* where the routine of each session is
  wants,           \* timeout_ms of its operation
  state,           \* its RoutineState
  is_blocking_, response_,        \* of the PollHandler
  early,           \* history: the answer came before the routine was in IO_WAIT
  deserted,        \*   the session was closed while its routine waited
  stale,           \*   an answer to an old request was on its way when the session was closed
  came, closes

vars == <<data, epoll, requests_, ctrl_params_, local_params, responses, tpc, is_shutdown_, rpc,
          wants, state, is_blocking_, response_, early, deserted, stale, came, closes>>

None == -2
Answers == {"none", "timeout", "in"}

Init ==
  /\ data = {} /\ epoll = [f \in Fds |-> "out"] 
  /\ requests_ = [f \in Fds |-> None] /\ ctrl_params_ = [f \in Fds |-> "none"]
  /\ local_params = [f \in Fds |-> "none"] /\ responses = [f \in Fds |-> "none"]
  /\ tpc = "top" /\ is_shutdown_ = FALSE
  /\ rpc = [f \in Fds |-> "idle"] /\ wants = [f \in Fds |-> -1] /\ state = [f \in Fds |-> "RUNNING"]
  /\ is_blocking_ = [f \in Fds |-> FALSE] /\ response_ = [f \in Fds |-> "none"]
  /\ early = {} /\ deserted = {} /\ stale = {} /\ came = 0 /\ closes = 0

thread == <<local_params, responses, tpc>>
tables == <<requests_, ctrl_params_>>
routine == <<rpc, wants, state>>
handler == <<is_blocking_, response_>>
history == <<early, deserted, stale, came, closes>>

-----------------------------------------------------------------------------
(* PollHandler and Session *)

(* Recv and its like: data, or Block. *)
Transfer(f, t) ==
  /\ rpc[f] = "idle" /\ state[f] = "RUNNING" /\ f \notin deserted
  /\ wants' = [wants EXCEPT ![f] = t]
  /\ IF f \in data THEN data' = data \ {f} /\ UNCHANGED rpc
     ELSE rpc' = [rpc EXCEPT ![f] = "block"] /\ UNCHANGED data
  /\ UNCHANGED <<epoll, tables, thread, is_shutdown_, state, handler, history>>

(* Accept waits without a timeout. *)
Accept(f) == Transfer(f, -1)

(* Mutant: what epoll is to do is not recorded for a known descriptor. *)
Register_Once(f, t) ==
  /\ ctrl_params_' = [ctrl_params_ EXCEPT ![f] = IF requests_[f] = None THEN "ADD" ELSE @]
  /\ requests_' = [requests_ EXCEPT ![f] = t]

(* Poller::Register: of the descriptor's first request, or of *)
(* another one.                                                            *)
Register(f, t) ==
  /\ ctrl_params_' = [ctrl_params_ EXCEPT ![f] = IF requests_[f] = None THEN "ADD" ELSE "MOD"]
  /\ requests_' = [requests_ EXCEPT ![f] = t]

(* PollHandler::Block up to Yield; without a Poller it returns false, and  *)
(* so does the operation unless it has no timeout.                         *)
Block(f) ==
  /\ rpc[f] = "block" /\ f \notin deserted
  /\ IF is_shutdown_
     THEN /\ wants[f] > 0 /\ rpc' = [rpc EXCEPT ![f] = "idle"]
          /\ UNCHANGED <<tables, is_blocking_>>
     ELSE /\ is_blocking_' = [is_blocking_ EXCEPT ![f] = TRUE]
          /\ Register(f, wants[f]) /\ rpc' = [rpc EXCEPT ![f] = "registered"]
  /\ UNCHANGED <<data, epoll, thread, is_shutdown_, wants, state, response_, history>>

Yield(f) ==
  /\ rpc[f] = "registered" /\ rpc' = [rpc EXCEPT ![f] = "waiting"]
  /\ state' = [state EXCEPT ![f] = "IO_WAIT"]
  /\ UNCHANGED <<data, epoll, tables, thread, is_shutdown_, wants, handler, history>>

(* The scheduler runs the routine again: the rest of Block, and of the     *)
(* operation, which tries again, and blocks again when it has no timeout.  *)
Resume(f) ==
  /\ rpc[f] = "waiting" /\ state[f] = "READY"
  /\ state' = [state EXCEPT ![f] = "RUNNING"]
  /\ is_blocking_' = [is_blocking_ EXCEPT ![f] = FALSE]
  /\ LET done == response_[f] = "in" /\ f \in data
     IN /\ data' = IF done THEN data \ {f} ELSE data
        /\ rpc' = [rpc EXCEPT ![f] = IF done \/ wants[f] > 0 THEN "idle" ELSE "block"]
  /\ UNCHANGED <<epoll, tables, thread, is_shutdown_, wants, response_, history>>

(* Poller::Unregister, of a descriptor it knows. *)
Unregister(f) ==
  IF requests_[f] = None THEN UNCHANGED tables
  ELSE /\ requests_' = [requests_ EXCEPT ![f] = None]
       /\ ctrl_params_' = [ctrl_params_ EXCEPT ![f] = "DEL"]

(* PollHandler::Unblock *)
Unblock(f) == is_blocking_' = [is_blocking_ EXCEPT ![f] = FALSE] /\ Unregister(f)

(* Session::Close: Unblock, and close, which takes the                 *)
(* descriptor out of the epoll set; its data are gone.  By the routine of  *)
(* the session, or, during its operation, by another thread.               *)
Close(f) ==
  /\ closes < MaxCloses /\ closes' = closes + 1 /\ ~is_shutdown_ /\ f \notin deserted
  /\ rpc[f] \in {"idle", "waiting"}
  /\ Unblock(f)
  /\ epoll' = [epoll EXCEPT ![f] = "out"] /\ data' = data \ {f}
  /\ deserted' = IF rpc[f] = "waiting" /\ state[f] = "IO_WAIT" THEN deserted \cup {f} ELSE deserted
  /\ stale' = IF responses[f] # "none" THEN stale \cup {f} ELSE stale
  /\ UNCHANGED <<thread, is_shutdown_, routine, response_, early, came>>

(* Data come from the other end. *)
Arrive(f) ==
  /\ f \notin data /\ came < MaxData /\ came' = came + 1 /\ data' = data \cup {f}
  /\ UNCHANGED <<epoll, tables, thread, is_shutdown_, routine, handler, early,
                 deserted, stale, closes>>

-----------------------------------------------------------------------------
(* Poller::ThreadFunc *)

(* HandleChanges: takes what is to be done, ... *)
HandleChanges ==
  /\ tpc = "top"
  /\ IF is_shutdown_ THEN tpc' = "done" /\ UNCHANGED <<local_params, ctrl_params_>>
     ELSE /\ tpc' = "ctl" /\ local_params' = ctrl_params_
          /\ ctrl_params_' = [f \in Fds |-> "none"]
  /\ UNCHANGED <<data, epoll, requests_, responses, is_shutdown_, routine,
                 handler, history>>

(* ... and does it: epoll_ctl fails for a descriptor that is (not) in the  *)
(* set.                                                                    *)
EpollCtl(f) ==
  /\ tpc = "ctl" /\ local_params[f] # "none"
  /\ epoll' = [epoll EXCEPT ![f] = CASE local_params[f] = "ADD" -> IF @ = "out" THEN "armed" ELSE @
                                     [] local_params[f] = "MOD" -> IF @ = "out" THEN "out" ELSE "armed"
                                     [] local_params[f] = "DEL" -> "out"]
  /\ local_params' = [local_params EXCEPT ![f] = "none"]
  /\ UNCHANGED <<data, tables, responses, tpc, is_shutdown_, routine, handler, history>>

(* Poll: epoll_wait returns what is ready, or nothing when the time of     *)
(* GetTimeoutMs (100 ms at most) is over or Notify has written to the      *)
(* pipe.  What it returns is disarmed.                                     *)
EpollWait ==
  /\ tpc = "ctl" /\ \A f \in Fds : local_params[f] = "none"
  /\ LET ready == {f \in Fds : epoll[f] = "armed" /\ f \in data}
     IN /\ epoll' = [f \in Fds |-> IF f \in ready THEN "fired" ELSE epoll[f]]
        /\ responses' = [f \in Fds |-> IF f \in ready THEN "in" ELSE "none"]
  /\ tpc' = "count"
  /\ UNCHANGED <<data, tables, local_params, is_shutdown_, routine, handler, history>>

(* It counts the timeouts down, except of requests not yet in the set; an  *)
(* event counts more than a timeout.                                       *)
CountDown ==
  /\ tpc = "count" /\ tpc' = "answer"
  /\ LET down == {f \in Fds : requests_[f] > 0 /\ ctrl_params_[f] = "none"}
         over == {f \in down : requests_[f] = 1}
     IN /\ requests_' = [f \in Fds |-> IF f \in over THEN -1
                                       ELSE IF f \in down THEN requests_[f] - 1 ELSE requests_[f]]
        /\ responses' = [f \in Fds |-> IF f \in over /\ responses[f] = "none" THEN "timeout" ELSE responses[f]]
  /\ UNCHANGED <<data, epoll, ctrl_params_, local_params, is_shutdown_, routine,
                 handler, history>>

(* ResponseCallback: the answer wakes a routine that is in IO_WAIT. *)
ResponseCallback(f) ==
  IF is_blocking_[f]
  THEN /\ response_' = [response_ EXCEPT ![f] = responses[f]]
       /\ state' = [state EXCEPT ![f] = IF @ = "IO_WAIT" THEN "READY" ELSE @]
       /\ early' = IF state[f] = "RUNNING" THEN early \cup {f} ELSE early
  ELSE UNCHANGED <<response_, state, early>>

(* The callback of the descriptor's request gets the answer. *)
Answer(f) ==
  /\ tpc = "answer" /\ responses[f] # "none"
  /\ responses' = [responses EXCEPT ![f] = "none"]
  /\ requests_' = [requests_ EXCEPT ![f] = IF @ = None THEN None ELSE -1]
  /\ IF requests_[f] # None THEN ResponseCallback(f) ELSE UNCHANGED <<response_, state, early>>
  /\ UNCHANGED <<data, epoll, ctrl_params_, local_params, tpc, is_shutdown_, rpc, wants,
                 is_blocking_, deserted, stale, came, closes>>

Polled ==
  /\ tpc = "answer" /\ \A f \in Fds : responses[f] = "none" /\ tpc' = "top"
  /\ UNCHANGED <<data, epoll, tables, local_params, responses, is_shutdown_,
                 routine, handler, history>>

(* Shutdown, and Clear once the thread has ended. *)
Shutdown ==
  /\ ~is_shutdown_ /\ is_shutdown_' = TRUE
  /\ UNCHANGED <<data, epoll, tables, thread, routine, handler, history>>

Clear ==
  /\ tpc = "done" /\ tpc' = "cleared"
  /\ requests_' = [f \in Fds |-> None] /\ ctrl_params_' = [f \in Fds |-> "none"]
  /\ epoll' = [f \in Fds |-> "out"]
  /\ UNCHANGED <<data, local_params, responses, is_shutdown_, routine, handler, history>>

Next ==
  \/ \E f \in Fds : \/ \E t \in Timeouts : Transfer(f, t)
                    \/ Accept(f)
                    \/ Block(f) \/ Yield(f) \/ Resume(f) \/ Close(f) \/ Arrive(f)
                    \/ EpollCtl(f) \/ Answer(f)
  \/ HandleChanges \/ EpollWait \/ CountDown \/ Polled \/ Shutdown \/ Clear

Spec == Init /\ [][Next]_vars

(* The Poller's thread and the processors that run the routines go on. *)
LiveSpec ==
  /\ Init /\ [][Next /\ ~is_shutdown_']_vars
  /\ \A f \in Fds : WF_vars(Yield(f)) /\ WF_vars(Block(f)) /\ WF_vars(Resume(f)) /\ WF_vars(EpollCtl(f))
                    /\ WF_vars(Answer(f))
  /\ WF_vars(HandleChanges) /\ WF_vars(EpollWait) /\ WF_vars(CountDown) /\ WF_vars(Polled)

-----------------------------------------------------------------------------
(* Properties *)

(* A routine that waits will be looked after: its request is known, and    *)
(* its event is armed, or to be armed, or its answer is on the way; unless *)
(* the answer came between Register and Yield, the session was closed      *)
(* under it or while an answer was on its way to it (the next session of   *)
(* the descriptor gets that answer, and its second Register turns an ADD   *)
(* not yet done into a MOD that fails), or the Poller was shut down.       *)
WaitersServed ==
  \A f \in Fds : rpc[f] = "waiting" /\ state[f] = "IO_WAIT" /\ f \notin early \cup deserted \cup stale /\ ~is_shutdown_
    => /\ requests_[f] # None /\ is_blocking_[f]
       /\ \/ epoll[f] = "armed" \/ ctrl_params_[f] \in {"ADD", "MOD"}
          \/ local_params[f] \in {"ADD", "MOD"} \/ responses[f] # "none"

(* An operation with a timeout returns ("timeout_ms > 0, keep trying while *)
(* there is still time left", io/session.h:46).                            *)
TimedTransferReturns ==
  \A f \in Fds : (rpc[f] = "block" /\ wants[f] > 0) ~> (rpc[f] = "idle" \/ f \in deserted)
=============================================================================

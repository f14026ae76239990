----------------------------- MODULE AsyncLogger -----------------------------
(***************************************************************************)
(* logger/async_logger.cc: threads append messages to the active buffer     *)
(* under a spin lock; the log thread swaps it with the flushing buffer and  *)
(* writes that one to the log files.  Stop joins the thread and writes what *)
(* is left, without the spin lock.  A message is its writer and its number; *)
(* the log files of the modules are one file.                               *)
(***************************************************************************)
EXTENDS Integers, Sequences, SequencesExt

CONSTANTS Writers,      \* threads that log
          MaxWrites     \* bound: messages per writer

AsyncLoggerConstants == MaxWrites \in Nat

VARIABLES state_, active_buf_, flushing_buf_, file,
          wpc,        \* a writer's place in Write
          written,    \* how many messages of a writer have been appended
          tpc,        \* the log thread's place
          spc,        \* the place of the thread that calls Start and Stop
          late        \* Stop was called while a Write was under way

vars == <<state_, active_buf_, flushing_buf_, file, wpc, written, tpc,
          spc, late>>

Init ==
  /\ state_ = "INITTED"
  /\ active_buf_ = << >> /\ flushing_buf_ = << >> /\ file = << >>
  /\ wpc = [w \in Writers |-> "idle"]
  /\ written = [w \in Writers |-> 0]
  /\ tpc = "none" /\ spc = "none" /\ late = FALSE

FlagFree == tpc # "swap" /\ \A w \in Writers : wpc[w] # "append"

Start ==
  /\ spc = "none"
  /\ state_' = "RUNNING" /\ tpc' = "loop" /\ spc' = "started"
  /\ UNCHANGED <<active_buf_, flushing_buf_, file, wpc, written, late>>

(* --------------------------------- Write --------------------------------- *)

\* A logger that is not running drops the message.
WriteStarts(w) ==
  /\ wpc[w] = "idle" /\ written[w] < MaxWrites
  /\ state_ = "RUNNING"
  /\ wpc' = [wpc EXCEPT ![w] = "spin"]
  /\ UNCHANGED <<state_, active_buf_, flushing_buf_, file, written,
                 tpc, spc, late>>

WriteDropped(w) ==
  /\ wpc[w] = "idle" /\ state_ # "RUNNING"
  /\ UNCHANGED vars

WriteLocks(w) ==
  /\ wpc[w] = "spin" /\ FlagFree
  /\ wpc' = [wpc EXCEPT ![w] = "append"]
  /\ UNCHANGED <<state_, active_buf_, flushing_buf_, file, written,
                 tpc, spc, late>>

\* emplace_back and the release of the spin lock.
WriteAppends(w) ==
  /\ wpc[w] = "append"
  /\ active_buf_' = Append(active_buf_, <<w, written[w] + 1>>)
  /\ written' = [written EXCEPT ![w] = @ + 1]
  /\ wpc' = [wpc EXCEPT ![w] = "idle"]
  /\ UNCHANGED <<state_, flushing_buf_, file, tpc, spc, late>>

\* Flush goes through the log files; it does not look at the buffers.
Flush(w) ==
  /\ wpc[w] = "idle" /\ state_ = "RUNNING"
  /\ UNCHANGED vars

(* ------------------------------ Log thread ------------------------------- *)

\* while (state_ == RUNNING)
ThreadLoop ==
  /\ tpc = "loop"
  /\ tpc' = IF state_ = "RUNNING" THEN "spin" ELSE "exit"
  /\ UNCHANGED <<state_, active_buf_, flushing_buf_, file, wpc, written, spc, late>>

\* Mutant: a small buffer is left to grow.
ThreadLocks_Batch ==
  /\ tpc = "spin" /\ FlagFree /\ Len(active_buf_) > 1
  /\ tpc' = "swap"
  /\ UNCHANGED <<state_, active_buf_, flushing_buf_, file, wpc, written, spc, late>>

ThreadLocks ==
  /\ tpc = "spin" /\ FlagFree
  /\ tpc' = "swap"
  /\ UNCHANGED <<state_, active_buf_, flushing_buf_, file, wpc, written, spc, late>>

\* Mutant: the buffers are swapped again before the flush is complete.
ThreadSwaps_Early ==
  /\ tpc = "swap"
  /\ active_buf_' = flushing_buf_ /\ flushing_buf_' = active_buf_
  /\ tpc' \in {"flush", "loop"}
  /\ UNCHANGED <<state_, file, wpc, written, spc, late>>

ThreadSwaps ==
  /\ tpc = "swap"
  /\ active_buf_' = flushing_buf_ /\ flushing_buf_' = active_buf_
  /\ tpc' = "flush"
  /\ UNCHANGED <<state_, file, wpc, written, spc, late>>

\* FlushBuffer(flushing_buf_), a message at a time, then back to the loop.
ThreadWrites ==
  /\ tpc = "flush" /\ flushing_buf_ # << >>
  /\ file' = Append(file, Head(flushing_buf_))
  /\ flushing_buf_' = Tail(flushing_buf_)
  /\ UNCHANGED <<state_, active_buf_, wpc, written, tpc, spc, late>>

ThreadFlushed ==
  /\ tpc = "flush" /\ flushing_buf_ = << >>
  /\ tpc' = "loop"
  /\ UNCHANGED <<state_, active_buf_, flushing_buf_, file, wpc, written, spc, late>>

(* --------------------------------- Stop ---------------------------------- *)

Stop ==
  /\ spc = "started"
  /\ state_' = "STOPPED" /\ spc' = "join"
  /\ late' = \E w \in Writers : wpc[w] # "idle"
  /\ UNCHANGED <<active_buf_, flushing_buf_, file, wpc, written, tpc>>

StopJoins ==
  /\ spc = "join" /\ tpc = "exit"
  /\ spc' = "flush"
  /\ UNCHANGED <<state_, active_buf_, flushing_buf_, file, wpc, written, tpc, late>>

StopWrites ==
  /\ spc = "flush" /\ active_buf_ # << >>
  /\ file' = Append(file, Head(active_buf_))
  /\ active_buf_' = Tail(active_buf_)
  /\ UNCHANGED <<state_, flushing_buf_, wpc, written, tpc, spc, late>>

StopFlushed ==
  /\ spc = "flush" /\ active_buf_ = << >>
  /\ spc' = "check"
  /\ UNCHANGED <<state_, active_buf_, flushing_buf_, file, wpc, written, tpc, late>>

\* CHECK(active_buf_->empty()); CHECK(flushing_buf_->empty());
StopChecks ==
  /\ spc = "check"
  /\ spc' = IF active_buf_ = << >> /\ flushing_buf_ = << >> THEN "stopped"
                                                            ELSE "check_failed"
  /\ UNCHANGED <<state_, active_buf_, flushing_buf_, file, wpc, written, tpc, late>>

WriterStep(w) == WriteLocks(w) \/ WriteAppends(w)
ThreadStep ==
  ThreadLoop \/ ThreadLocks \/ ThreadSwaps \/ ThreadWrites \/ ThreadFlushed
StopStep == StopJoins \/ StopWrites \/ StopFlushed \/ StopChecks

Next ==
  \/ Start \/ Stop \/ StopStep \/ ThreadStep
  \/ \E w \in Writers :
       WriterStep(w) \/ WriteStarts(w) \/ WriteDropped(w) \/ Flush(w)

Spec == Init /\ [][Next]_vars

\* The threads run.  The flag is not a fair lock: a thread that spins on it is
\* owed it only once the others pause, which MaxWrites makes the writers do.
FairSpec ==
  /\ Spec
  /\ WF_vars(ThreadStep) /\ WF_vars(StopStep)
  /\ \A w \in Writers : WF_vars(WriterStep(w))

(* ------------------------------ Properties ------------------------------ *)

\* Every variable holds a value of its type.
TypeOK ==
  /\ state_ \in {"INITTED", "RUNNING", "STOPPED"}
  /\ wpc \in [Writers -> {"idle", "spin", "append"}]
  /\ written \in [Writers -> 0 .. MaxWrites]
  /\ tpc \in {"none", "loop", "spin", "swap", "flush", "exit"}
  /\ \A b \in {active_buf_, flushing_buf_, file} :
       \A i \in 1 .. Len(b) : b[i] \in Writers \X (1 .. MaxWrites)

Of(w, s) == SelectSeq(s, LAMBDA m : m[1] = w)

\* The swaps neither lose nor repeat nor reorder a writer's messages: the file,
\* the flushing buffer and the active buffer in that order hold them all.
MessagesInOrder ==
  \A w \in Writers :
    Of(w, file \o flushing_buf_ \o active_buf_)
      = [n \in 1 .. written[w] |-> <<w, n>>]

\* Stop leaves nothing behind if no Write was under way when it was called.
StopWritesAll ==
  spc \in {"stopped", "check_failed"} /\ ~late =>
    /\ spc = "stopped"
    /\ \A w \in Writers : Len(Of(w, file)) = written[w]

\* A message that has been appended reaches the file, even if the logger is
\* stopped, unless Stop was called during a Write.
MessageReachesFile ==
  \A w \in Writers : \A n \in 1 .. MaxWrites :
    written[w] >= n ~> (late \/ Len(Of(w, file)) >= n)
=============================================================================

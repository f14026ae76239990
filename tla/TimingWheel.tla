----------------------------- MODULE TimingWheel -----------------------------
(***************************************************************************)
(* timer/timing_wheel.cc: a wheel of WORK_WHEEL_SIZE buckets, one per tick, *)
(* and an assistant wheel whose bucket is cascaded into it at each turn.    *)
(* AddTask runs in the threads that start timers and in the timers' own     *)
(* callbacks; it reads the two indices while the tick thread moves them.    *)
(*                                                                          *)
(* For the properties, "left" counts the moves of the work index that a     *)
(* task still has to wait for, and "age" those since it was put in a bucket. *)
(***************************************************************************)
EXTENDS Integers, FiniteSets

CONSTANTS WORK_WHEEL_SIZE, ASSISTANT_WHEEL_SIZE, TIMER_RESOLUTION_MS,
          Tasks

\* "& (SIZE - 1)" in the code is "% SIZE" because the sizes are powers of two.
TimingWheelConstants ==
  /\ \E k \in 0 .. 9 : WORK_WHEEL_SIZE = 2 ^ k
  /\ \E k \in 0 .. 9 : ASSISTANT_WHEEL_SIZE = 2 ^ k
  /\ TIMER_RESOLUTION_MS \in Nat \ {0}

TIMER_MAX_INTERVAL_MS ==
  WORK_WHEEL_SIZE * ASSISTANT_WHEEL_SIZE * TIMER_RESOLUTION_MS

\* What AddTask is asked for.  InitTimerTask lets 0 < period <
\* TIMER_MAX_INTERVAL_MS through; the callback, which has next_fire_duration_ms make
\* up for a start that was early, goes beyond it by the resolution and the rounding.
Durations == 1 .. TIMER_MAX_INTERVAL_MS - 1 + TIMER_RESOLUTION_MS + 1

VARIABLES work_wheel_, assistant_wheel_,
          current_work_wheel_index_, current_assistant_wheel_index_,
          running_,
          remainder_interval_ms,     \* of each task
          kpc,                       \* the tick thread's place in TickFunc
          spc,                       \* whether a Shutdown is waiting to join
          apc, index, bucket,        \* a call of AddTask: place and locals
          left, age, missed,           \* for the properties
          calm        \* not overtaken by the tick thread, nor beyond the wheels

wheelVars == <<work_wheel_, assistant_wheel_, remainder_interval_ms>>
indexVars == <<current_work_wheel_index_, current_assistant_wheel_index_>>
callVars == <<apc, index, bucket>>
vars == <<work_wheel_, assistant_wheel_, current_work_wheel_index_,
          current_assistant_wheel_index_, running_, remainder_interval_ms, kpc,
          spc, apc, index, bucket, left, age, calm, missed>>

Work == 0 .. WORK_WHEEL_SIZE - 1
Assistant == 0 .. ASSISTANT_WHEEL_SIZE - 1

Init ==
  /\ work_wheel_ = [i \in Work |-> {}]
  /\ assistant_wheel_ = [i \in Assistant |-> {}]
  /\ current_work_wheel_index_ = 0 /\ current_assistant_wheel_index_ = 0
  /\ running_ = FALSE
  /\ remainder_interval_ms = [t \in Tasks |-> 0]
  /\ kpc = "off" /\ spc = "idle"
  /\ apc = [t \in Tasks |-> "idle"]
  /\ index = [t \in Tasks |-> 0] /\ bucket = [t \in Tasks |-> 0]
  /\ left = [t \in Tasks |-> 0] /\ age = [t \in Tasks |-> 0]
  /\ calm = [t \in Tasks |-> TRUE] /\ missed = [t \in Tasks |-> 0]

GetWorkWheelIndex(i) == i % WORK_WHEEL_SIZE
GetAssistantWheelIndex(i) == i % ASSISTANT_WHEEL_SIZE

\* std::ceil(next_fire_duration_ms / TIMER_RESOLUTION_MS)
Ticks(ms) == (ms + TIMER_RESOLUTION_MS - 1) \div TIMER_RESOLUTION_MS

(* -------------------------------- AddTask -------------------------------- *)

\* Waits for a Shutdown under way, which holds running_mutex_.
Start ==
  /\ running_ \/ spc = "idle"
  /\ running_' = TRUE
  /\ kpc' = IF running_ THEN kpc ELSE "loop"

\* AddTask reads the work index and starts the wheel if need be.
AddTask(t, ms) ==
  /\ apc[t] = "idle"
  /\ Start
  /\ index' = [index EXCEPT ![t] = current_work_wheel_index_ + Ticks(ms)]
  /\ left' = [left EXCEPT ![t] = (ms + TIMER_RESOLUTION_MS - 1)
                                    \div TIMER_RESOLUTION_MS]
  /\ calm' = [calm EXCEPT ![t] = /\ kpc \notin {"assist", "cascade"}
                                     /\ ms <= TIMER_MAX_INTERVAL_MS]
  /\ apc' = [apc EXCEPT ![t] = "decide"]
  /\ UNCHANGED <<wheelVars, indexVars, spc, bucket, age, missed>>

Turns(t) == index[t] \div WORK_WHEEL_SIZE
Real(t) == GetWorkWheelIndex(index[t])

\* Mutant: the bucket that is current counts as passed.
InWorkWheel_Equal(t) ==
  \/ Turns(t) = 0
  \/ Turns(t) = 1 /\ Real(t) <= current_work_wheel_index_

\* The task fires in this turn of the work wheel or before it is complete.
InWorkWheel(t) ==
  \/ Turns(t) = 0
  \/ Turns(t) = 1 /\ Real(t) < current_work_wheel_index_

\* The branches of AddTask; the work index is read a second time.
Decide(t) ==
  /\ apc[t] = "decide"
  /\ remainder_interval_ms' =
       [remainder_interval_ms EXCEPT ![t] = IF Turns(t) = 0 THEN @ ELSE Real(t)]
  /\ bucket' = [bucket EXCEPT ![t] = Real(t)]
  /\ apc' = [apc EXCEPT ![t] = IF InWorkWheel(t) THEN "work" ELSE "assistant"]
  /\ UNCHANGED <<work_wheel_, assistant_wheel_, indexVars, running_, kpc, spc,
                 index, left, age, calm, missed>>

AddToWork(t) ==
  /\ apc[t] = "work"
  /\ work_wheel_' = [work_wheel_ EXCEPT ![bucket[t]] = @ \union {t}]
  /\ apc' = [apc EXCEPT ![t] = "waiting"]
  /\ index' = [index EXCEPT ![t] = 0] /\ bucket' = [bucket EXCEPT ![t] = 0]
  /\ UNCHANGED <<assistant_wheel_, remainder_interval_ms, indexVars, running_,
                 kpc, spc, left, age, calm, missed>>

\* Under current_assistant_wheel_index_mutex_.
AddToAssistant(t) ==
  LET i == GetAssistantWheelIndex(current_assistant_wheel_index_ + Turns(t)) IN
  /\ apc[t] = "assistant"
  /\ assistant_wheel_' = [assistant_wheel_ EXCEPT ![i] = @ \union {t}]
  /\ apc' = [apc EXCEPT ![t] = "waiting"]
  /\ index' = [index EXCEPT ![t] = 0] /\ bucket' = [bucket EXCEPT ![t] = 0]
  /\ UNCHANGED <<work_wheel_, remainder_interval_ms, indexVars, running_, kpc,
                 spc, left, age, calm, missed>>

(* -------------------------------- TickFunc ------------------------------- *)

\* while (running_)
LoopTest ==
  /\ kpc = "loop"
  /\ kpc' = IF running_ THEN "tick" ELSE "off"
  /\ UNCHANGED <<wheelVars, indexVars, running_, spc, callVars, left, age,
                 calm, missed>>

\* Every task of the bucket is handed to Async and taken out.
Tick ==
  LET fired == work_wheel_[current_work_wheel_index_] IN
  /\ kpc = "tick"
  /\ work_wheel_' = [work_wheel_ EXCEPT ![current_work_wheel_index_] = {}]
  /\ missed' = [t \in Tasks |->
                  IF t \in fired /\ calm[t] THEN left[t] ELSE missed[t]]
  /\ left' = [t \in Tasks |-> IF t \in fired THEN 0 ELSE left[t]]
  /\ age' = [t \in Tasks |-> IF t \in fired THEN 0 ELSE age[t]]
  /\ apc' = [t \in Tasks |-> IF t \in fired THEN "idle" ELSE apc[t]]
  /\ kpc' = "advance"
  /\ UNCHANGED <<assistant_wheel_, remainder_interval_ms, indexVars, running_,
                 spc, index, bucket, calm>>

\* After rate.Sleep().  A call of AddTask that is under way is overtaken.
Advance ==
  /\ kpc = "advance"
  /\ current_work_wheel_index_' =
       GetWorkWheelIndex(current_work_wheel_index_ + 1)
  /\ left' = [t \in Tasks |-> IF apc[t] = "waiting" /\ calm[t]
                               THEN left[t] - 1 ELSE 0]
  /\ age' = [t \in Tasks |-> IF apc[t] = "waiting" THEN age[t] + 1 ELSE 0]
  /\ calm' = [t \in Tasks |->
                calm[t] /\ apc[t] \notin {"decide", "work", "assistant"}]
  /\ kpc' = IF current_work_wheel_index_' = 0 THEN "assist" ELSE "loop"
  /\ UNCHANGED <<wheelVars, current_assistant_wheel_index_, running_, spc,
                 callVars, missed>>

AdvanceAssistant ==
  /\ kpc = "assist"
  /\ current_assistant_wheel_index_' =
       GetAssistantWheelIndex(current_assistant_wheel_index_ + 1)
  /\ kpc' = "cascade"
  /\ UNCHANGED <<wheelVars, current_work_wheel_index_, running_, spc, callVars,
                 left, age, calm, missed>>

Cascade ==
  LET tasks == assistant_wheel_[current_assistant_wheel_index_] IN
  /\ kpc = "cascade"
  /\ work_wheel_' = [i \in Work |-> work_wheel_[i] \union
                       {t \in tasks : remainder_interval_ms[t] = i}]
  /\ assistant_wheel_' =
       [assistant_wheel_ EXCEPT ![current_assistant_wheel_index_] = {}]
  /\ kpc' = "loop"
  /\ UNCHANGED <<remainder_interval_ms, indexVars, running_, spc, callVars, left,
                 age, calm, missed>>

(* -------------------------------- Shutdown ------------------------------- *)

\* Under running_mutex_, until the thread has been joined.
Shutdown ==
  /\ running_ /\ spc = "idle"
  /\ running_' = FALSE /\ spc' = "join"
  /\ UNCHANGED <<wheelVars, indexVars, kpc, callVars, left, age,
                 calm, missed>>

ShutdownReturns ==
  /\ spc = "join" /\ kpc = "off"
  /\ spc' = "idle"
  /\ UNCHANGED <<wheelVars, indexVars, running_, kpc, callVars, left, age,
                 calm, missed>>

Next ==
  \/ \E t \in Tasks :
       \/ \E ms \in Durations : AddTask(t, ms)
       \/ Decide(t) \/ AddToWork(t) \/ AddToAssistant(t)
  \/ LoopTest \/ Tick \/ Advance \/ AdvanceAssistant \/ Cascade
  \/ Shutdown \/ ShutdownReturns

Spec == Init /\ [][Next]_vars

(* ------------------------------ Properties ------------------------------ *)

InBuckets(t) ==
  {i \in Work : t \in work_wheel_[i]} \X {"work"} \union
  {i \in Assistant : t \in assistant_wheel_[i]} \X {"assistant"}

\* Every variable holds a value of its type, and every task that waits is in
\* exactly one bucket of the two wheels.
TypeOK ==
  /\ current_work_wheel_index_ \in Work
  /\ current_assistant_wheel_index_ \in Assistant
  /\ {running_} \union {calm[t] : t \in Tasks} \subseteq BOOLEAN
  /\ \A t \in Tasks :
       /\ remainder_interval_ms[t] \in Work /\ bucket[t] \in Work
       /\ apc[t] \in {"idle", "decide", "work", "assistant", "waiting"}
       /\ Cardinality(InBuckets(t)) = IF apc[t] = "waiting" THEN 1 ELSE 0

\* A task whose AddTask the tick thread did not overtake fires at the tick that
\* its duration, rounded up to the resolution, says: neither early nor late,
\* however the two wheels share the wait.  (One whose duration is longer than
\* TIMER_MAX_INTERVAL_MS may fire a round of the assistant wheel early.)
FiresOnTime ==
  \A t \in Tasks : calm[t] =>
    /\ apc[t] = "idle" => missed[t] = 0
    /\ apc[t] = "waiting" => left[t] >= 0

\* No task is forgotten, not even one whose AddTask was overtaken: it fires
\* within one round of the assistant wheel, and one turn, of its insertion.
FiresWithinRound ==
  \A t \in Tasks :
    apc[t] = "waiting" =>
      age[t] <= WORK_WHEEL_SIZE * (ASSISTANT_WHEEL_SIZE + 1)
=============================================================================

----------------------------- MODULE TimerPeriod -----------------------------
(***************************************************************************)
(* The arithmetic of a periodic timer's callback (Timer::InitTimerTask):    *)
(* how it measures the time its callback took and how far it is behind, and *)
(* for how long it puts the task back into the wheel.  Times are counted in *)
(* NS units per millisecond, 1000000 in the code; all intermediate values   *)
(* fit the 64 bits they have there.                                         *)
(***************************************************************************)
EXTENDS Integers, TLAPS

CONSTANTS NS, TIMER_RESOLUTION_MS, interval_ms,
          MaxDelay,  \* longest wait of a due job for a thread
          MaxTime,   \* longest run of the user's callback
          MaxRuns    \* bound: runs of the callback

ASSUME TimerPeriodConstants ==
  /\ NS \in Nat \ {0} /\ TIMER_RESOLUTION_MS \in Nat \ {0}
  /\ interval_ms \in Nat \ {0}
  /\ MaxDelay \in Nat /\ MaxTime \in Nat /\ MaxRuns \in Nat

VARIABLES added,                  \* when the task was put into the wheel
          next_fire_duration_ms, last_execute_time_ns, accumulated_error_ns,
          first, runs             \* first start and number of runs so far

periodVars == <<added, next_fire_duration_ms, last_execute_time_ns,
                accumulated_error_ns, first, runs>>

PeriodInit ==
  /\ added = 1 /\ next_fire_duration_ms = interval_ms
  /\ last_execute_time_ns = 0 /\ accumulated_error_ns = 0
  /\ first = 0 /\ runs = 0

\* std::llround(x / 1e6): to the nearest, half away from zero.
llround(x) ==
  IF x >= 0 THEN (2 * x + NS) \div (2 * NS) ELSE -((NS - 2 * x) \div (2 * NS))

\* Mutant: the error is not made up for.
NextFire_Drifts(execute_time_ms, error_ms) ==
  IF execute_time_ms + TIMER_RESOLUTION_MS > interval_ms
  THEN TIMER_RESOLUTION_MS
  ELSE interval_ms - execute_time_ms

\* Mutant: an early start is made up for twice.
NextFire_Twice(execute_time_ms, error_ms) ==
  IF \/ execute_time_ms >= interval_ms
     \/ interval_ms - execute_time_ms - TIMER_RESOLUTION_MS < error_ms
  THEN TIMER_RESOLUTION_MS
  ELSE interval_ms - execute_time_ms - 2 * error_ms

\* The duration until the next run.
NextFire(execute_time_ms, error_ms) ==
  IF \/ execute_time_ms >= interval_ms
     \/ interval_ms - execute_time_ms - TIMER_RESOLUTION_MS < error_ms
  THEN TIMER_RESOLUTION_MS
  ELSE interval_ms - execute_time_ms - error_ms

\* TimingWheel::AddTask counts ticks from the one under way, which has up to a
\* tick to go; the job may wait for a thread.  That the ticks come on time and a
\* due job gets a thread within MaxDelay is an assumption on the tick thread and
\* the pool: nothing in the code bounds either.
Waits ==
  LET ticks == (next_fire_duration_ms + TIMER_RESOLUTION_MS - 1)
                 \div TIMER_RESOLUTION_MS
      tick == TIMER_RESOLUTION_MS * NS
  IN  (ticks - 1) * tick .. ticks * tick + MaxDelay

\* start - last_execute_time_ns - interval_ms * 1000000, from the second run on.
Error(start) ==
  IF last_execute_time_ns = 0 THEN accumulated_error_ns
  ELSE accumulated_error_ns + start - last_execute_time_ns - interval_ms * NS

\* One run of the callback, which starts after a wait and takes a time.
Callback(wait, time) ==
  LET start == added + wait IN
  /\ runs < MaxRuns
  /\ accumulated_error_ns' = Error(start)
  /\ last_execute_time_ns' = start
  /\ next_fire_duration_ms' = NextFire(llround(time), llround(Error(start)))
  /\ added' = start + time
  /\ first' = IF runs = 0 THEN start ELSE first
  /\ runs' = runs + 1

PeriodNext == \E wait \in Waits, time \in 0 .. MaxTime : Callback(wait, time)

PeriodSpec == PeriodInit /\ [][PeriodNext]_periodVars

(* ------------------------------ Properties ------------------------------ *)

\* Every variable holds a value of its type, and the wheel is never asked for
\* less than its resolution once the timer runs.
PeriodTypeOK ==
  /\ added \in Nat \ {0} /\ next_fire_duration_ms \in Nat \ {0}
  /\ last_execute_time_ns \in Nat /\ accumulated_error_ns \in Int
  /\ first \in Nat /\ runs \in 0 .. MaxRuns
  /\ runs > 0 => next_fire_duration_ms >= TIMER_RESOLUTION_MS

\* How far the last start is behind the timetable the first start began.
Behind == last_execute_time_ns - first - (runs - 1) * interval_ms * NS

\* Callbacks leave a tick of the wheel, and the wait for a thread, free.
FastCallbacks ==
  MaxTime + TIMER_RESOLUTION_MS * NS + MaxDelay <= interval_ms * NS

\* "perform the callback every timed period": if its callbacks are fast enough
\* a timer does not drift, its n-th start is behind by no more than one tick
\* and one wait for a thread, for every n.
NoDrift ==
  runs > 0 /\ FastCallbacks => Behind <= TIMER_RESOLUTION_MS * NS + MaxDelay

\* Nor is it ever ahead by more than the resolution and the rounding of both
\* measurements to milliseconds: making up for a late start does not overshoot.
NeverAhead ==
  runs > 0 /\ FastCallbacks => Behind >= -((TIMER_RESOLUTION_MS + 1) * NS)

-----------------------------------------------------------------------------
(* A periodic timer keeps to its timetable, for every period, resolution,   *)
(* run time and delay, and for any number of runs.                          *)

\* What \div means: the only fact about it that the proofs use.
LEMMA DivBounds ==
  ASSUME NEW a \in Nat, NEW b \in Nat \ {0}
  PROVE  /\ a \div b \in Nat
         /\ b * (a \div b) <= a
         /\ a < b * (a \div b) + b
  OBVIOUS

\* llround is off by at most half a millisecond.
LEMMA RoundBounds ==
  ASSUME NEW x \in Int
  PROVE  /\ llround(x) \in Int
         /\ 2 * x - NS <= 2 * (llround(x) * NS)
         /\ 2 * (llround(x) * NS) <= 2 * x + NS
  <1> NS \in Nat \ {0}
    BY TimerPeriodConstants
  <1>1. CASE x >= 0
    <2> DEFINE a == 2 * x + NS
               q == a \div (2 * NS)
    <2>1. a \in Nat /\ 2 * NS \in Nat \ {0}
      BY <1>1
    <2>2. q \in Nat /\ (2 * NS) * q <= a /\ a < (2 * NS) * q + 2 * NS
      BY <2>1, DivBounds
    <2>3. llround(x) = q
      BY <1>1 DEF llround
    <2> HIDE DEF q
    <2> QED
      BY <2>2, <2>3
  <1>2. CASE x < 0
    <2> DEFINE a == NS - 2 * x
               q == a \div (2 * NS)
    <2>1. a \in Nat /\ 2 * NS \in Nat \ {0}
      BY <1>2
    <2>2. q \in Nat /\ (2 * NS) * q <= a /\ a < (2 * NS) * q + 2 * NS
      BY <2>1, DivBounds
    <2>3. llround(x) = -q
      BY <1>2 DEF llround
    <2> HIDE DEF q
    <2> QED
      BY <2>2, <2>3
  <1> QED
    BY <1>1, <1>2

\* Products grow with their first factor.
LEMMA MulMono ==
  ASSUME NEW a \in Int, NEW b \in Int, NEW c \in Nat, a <= b
  PROVE  a * c <= b * c
  OBVIOUS

\* A task put into the wheel for so many milliseconds waits for that long, give
\* or take a tick, and then for a thread.
LEMMA WaitBounds ==
  ASSUME next_fire_duration_ms \in Nat \ {0}, NEW wait \in Waits
  PROVE  /\ wait \in Nat
         /\ (next_fire_duration_ms - TIMER_RESOLUTION_MS) * NS <= wait
         /\ wait <= (next_fire_duration_ms + TIMER_RESOLUTION_MS - 1) * NS
                      + MaxDelay
         /\ next_fire_duration_ms = TIMER_RESOLUTION_MS =>
              wait <= TIMER_RESOLUTION_MS * NS + MaxDelay
  <1> USE TimerPeriodConstants
  <1> DEFINE R == TIMER_RESOLUTION_MS
             N == next_fire_duration_ms
             k == (N + R - 1) \div R
  <1>1. k \in Nat /\ R * k <= N + R - 1 /\ N + R - 1 < R * k + R
    <2>1. N + R - 1 \in Nat /\ R \in Nat \ {0}
      OBVIOUS
    <2> QED
      BY <2>1, DivBounds
  <1>2. wait \in (k - 1) * (R * NS) .. k * (R * NS) + MaxDelay
    BY DEF Waits
  <1> HIDE DEF k
  <1>3. (k - 1) * (R * NS) \in Nat /\ k * (R * NS) \in Nat
    <2>1. k # 0
      BY <1>1
    <2>2. R * NS \in Nat /\ k - 1 \in Nat
      BY <1>1, <2>1
    <2> QED
      BY <1>1, <2>2
  <1>4. wait \in Nat /\ (k - 1) * (R * NS) <= wait
        /\ wait <= k * (R * NS) + MaxDelay
    BY <1>2, <1>3
  <1>5. (N - R) * NS <= ((k - 1) * R) * NS
    <2>1. N - R <= (k - 1) * R /\ (k - 1) * R \in Int /\ N - R \in Int
      BY <1>1
    <2> QED
      BY <2>1, MulMono
  <1>6. (k * R) * NS <= (N + R - 1) * NS
    <2>1. k * R <= N + R - 1 /\ k * R \in Int /\ N + R - 1 \in Int
      BY <1>1
    <2> QED
      BY <2>1, MulMono
  <1>7. (k - 1) * (R * NS) = ((k - 1) * R) * NS /\ k * (R * NS) = (k * R) * NS
    BY <1>1
  <1>8. ASSUME N = R PROVE k * (R * NS) <= R * NS
    <2>1. k <= 1
      <3>1. SUFFICES ASSUME 2 <= k PROVE FALSE
        BY <1>1
      <3>2. 2 * R <= k * R
        BY <1>1, <3>1, MulMono
      <3> QED
        BY <1>1, <1>8, <3>2
    <2>2. R * NS \in Nat
      OBVIOUS
    <2>3. k * (R * NS) <= 1 * (R * NS)
      BY <1>1, <2>1, <2>2, MulMono
    <2> QED
      BY <2>2, <2>3
  <1> QED
    BY <1>1, <1>4, <1>5, <1>6, <1>7, <1>8

\* The error stays between these two bounds.
InBounds(error) ==
  /\ -((TIMER_RESOLUTION_MS + 1) * NS) <= error
  /\ error <= TIMER_RESOLUTION_MS * NS + MaxDelay

\* One period: a run that started with an error in bounds and took some time is
\* followed by one that starts with an error in bounds.
LEMMA PeriodInBounds ==
  ASSUME FastCallbacks, NEW error \in Int, InBounds(error),
         NEW time \in 0 .. MaxTime, NEW wait \in Waits,
         next_fire_duration_ms \in Nat \ {0},
         next_fire_duration_ms = NextFire(llround(time), llround(error))
  PROVE  InBounds(error + time + wait - interval_ms * NS)
  <1> USE TimerPeriodConstants
  <1> DEFINE R == TIMER_RESOLUTION_MS
             N == next_fire_duration_ms
             I == interval_ms
             t == llround(time)
             r == llround(error)
  <1>1. /\ t \in Int /\ 2 * time - NS <= 2 * (t * NS)
        /\ 2 * (t * NS) <= 2 * time + NS
    BY RoundBounds
  <1>2. /\ r \in Int /\ 2 * error - NS <= 2 * (r * NS)
        /\ 2 * (r * NS) <= 2 * error + NS
    BY RoundBounds
  <1>3. /\ wait \in Nat /\ (N - R) * NS <= wait
        /\ wait <= (N + R - 1) * NS + MaxDelay
        /\ N = R => wait <= R * NS + MaxDelay
    BY WaitBounds
  <1>4. time + R * NS + MaxDelay <= I * NS
    BY DEF FastCallbacks
  <1>5. t < I
    <2>1. SUFFICES ASSUME I <= t PROVE FALSE
      BY <1>1
    <2>2. I * NS <= t * NS
      BY <2>1, <1>1, MulMono
    <2>3. 1 * NS <= R * NS
      BY MulMono
    <2> QED
      BY <1>1, <1>4, <2>2, <2>3
  <1>6. N = IF I - t - R < r THEN R ELSE I - t - r
    BY <1>1, <1>2, <1>5 DEF NextFire
  <1> HIDE DEF t, r
  <1>7. CASE I - t - R < r
    <2>1. N = R
      BY <1>6, <1>7
    <2>2. 0 <= wait /\ wait <= R * NS + MaxDelay
      BY <1>3, <2>1
    <2>3. (I - R + 1) * NS <= (r + t) * NS
      <3>1. I - R + 1 <= r + t
        BY <1>1, <1>2, <1>7
      <3> QED
        BY <3>1, <1>1, <1>2, MulMono
    <2> DEFINE tN == t * NS
               rN == r * NS
               iN == I * NS
               RN == R * NS
    <2>4. iN - RN + NS <= rN + tN
      BY <2>3, <1>1, <1>2
    <2>5. tN \in Int /\ rN \in Int /\ iN \in Int /\ RN \in Int
      BY <1>1, <1>2
    <2>6. -((R + 1) * NS) = -RN - NS
      OBVIOUS
    <2>7. /\ 2 * time - NS <= 2 * tN /\ 2 * tN <= 2 * time + NS
          /\ 2 * error - NS <= 2 * rN /\ 2 * rN <= 2 * error + NS
          /\ time + RN + MaxDelay <= iN /\ wait <= RN + MaxDelay
          /\ error <= RN + MaxDelay
      BY <1>1, <1>2, <1>4, <2>2 DEF InBounds
    <2> HIDE DEF tN, rN, iN, RN
    <2>8. /\ -RN - NS <= error + time + wait - iN
          /\ error + time + wait - iN <= RN + MaxDelay
      BY <1>3, <2>2, <2>4, <2>5, <2>7
    <2> QED
      BY <2>6, <2>8 DEF InBounds, iN, RN
  <1>8. CASE ~(I - t - R < r)
    <2>1. N = I - t - r
      BY <1>6, <1>8
    <2> QED
      BY <1>1, <1>2, <1>3, <2>1 DEF InBounds
  <1> QED
    BY <1>7, <1>8

(* -------------------------- The inductive invariant ---------------------- *)

\* The error that the code sums up is the distance to the timetable.
Timetable ==
  IF runs = 0 THEN last_execute_time_ns = 0 /\ accumulated_error_ns = 0
  ELSE last_execute_time_ns > 0 /\ accumulated_error_ns = Behind

\* The duration in the wheel is the one that the last run computed.
Remaining ==
  runs > 0 =>
    \E time \in 0 .. MaxTime :
      /\ added = last_execute_time_ns + time
      /\ next_fire_duration_ms =
           NextFire(llround(time), llround(accumulated_error_ns))

ErrorInBounds == FastCallbacks => InBounds(accumulated_error_ns)

PeriodIInv == PeriodTypeOK /\ Timetable /\ Remaining /\ ErrorInBounds

\* The invariant holds before the first run.
LEMMA InitPeriodIInv == PeriodInit => PeriodIInv
  <1> USE TimerPeriodConstants
  <1> SUFFICES ASSUME PeriodInit PROVE PeriodIInv
    OBVIOUS
  <1>1. PeriodTypeOK
    BY DEF PeriodInit, PeriodTypeOK
  <1>2. Timetable /\ Remaining
    BY DEF PeriodInit, Timetable, Remaining
  <1>3. InBounds(0)
    <2>1. 0 <= (TIMER_RESOLUTION_MS + 1) * NS /\ 0 <= TIMER_RESOLUTION_MS * NS
      OBVIOUS
    <2> QED
      BY <2>1 DEF InBounds
  <1>4. ErrorInBounds
    BY <1>3 DEF PeriodInit, ErrorInBounds
  <1> QED
    BY <1>1, <1>2, <1>4 DEF PeriodIInv

\* The duration is a number and at least the resolution.
LEMMA NextFireType ==
  ASSUME NEW t \in Int, NEW r \in Int, 0 <= t
  PROVE  NextFire(t, r) \in Nat /\ NextFire(t, r) >= TIMER_RESOLUTION_MS
  BY TimerPeriodConstants DEF NextFire

\* llround keeps numbers that are not negative so.
LEMMA RoundNat ==
  ASSUME NEW x \in Nat
  PROVE  llround(x) \in Nat
  <1> NS \in Nat \ {0}
    BY TimerPeriodConstants
  <1>1. 2 * x + NS \in Nat /\ 2 * NS \in Nat \ {0}
    OBVIOUS
  <1>2. (2 * x + NS) \div (2 * NS) \in Nat
    BY <1>1, DivBounds
  <1> QED
    BY <1>2 DEF llround

\* The invariant is kept by every run of the callback.
LEMMA NextPeriodIInv == PeriodIInv /\ [PeriodNext]_periodVars => PeriodIInv'
  <1> USE TimerPeriodConstants
  <1> SUFFICES ASSUME PeriodIInv, [PeriodNext]_periodVars PROVE PeriodIInv'
    OBVIOUS
  <1>1. CASE UNCHANGED periodVars
    BY <1>1 DEF periodVars, PeriodIInv, PeriodTypeOK, Timetable, Remaining, ErrorInBounds, Behind
  <1>2. CASE PeriodNext
    <2>1. PICK wait \in Waits, time \in 0 .. MaxTime : Callback(wait, time)
      BY <1>2 DEF PeriodNext
    <2> DEFINE start == added + wait
    <2>2. /\ added \in Nat \ {0} /\ next_fire_duration_ms \in Nat \ {0}
          /\ last_execute_time_ns \in Nat /\ accumulated_error_ns \in Int
          /\ first \in Nat /\ runs \in Nat
      BY DEF PeriodIInv, PeriodTypeOK
    <2>3. wait \in Nat
      BY <2>2, WaitBounds
    <2>4. /\ accumulated_error_ns' = Error(start)
          /\ last_execute_time_ns' = start
          /\ next_fire_duration_ms' =
               NextFire(llround(time), llround(Error(start)))
          /\ added' = start + time
          /\ first' = (IF runs = 0 THEN start ELSE first)
          /\ runs' = runs + 1 /\ runs < MaxRuns
      BY <2>1 DEF Callback
    <2>5. start \in Nat \ {0} /\ time \in Nat
      BY <2>2, <2>3
    <2>6. Error(start) \in Int
      BY <2>2, <2>5 DEF Error
    <2> HIDE DEF start
    <2>7. PeriodTypeOK'
      <3>1. llround(time) \in Nat /\ llround(Error(start)) \in Int
        BY <2>5, <2>6, RoundNat, RoundBounds
      <3>2. /\ next_fire_duration_ms' \in Nat
            /\ next_fire_duration_ms' >= TIMER_RESOLUTION_MS
        BY <2>4, <3>1, NextFireType
      <3> QED
        BY <2>2, <2>4, <2>5, <2>6, <3>2 DEF PeriodTypeOK
    <2>8. Remaining'
      BY <2>4, <2>5 DEF Remaining
    <2>9. CASE runs = 0
      <3>1. accumulated_error_ns = 0 /\ last_execute_time_ns = 0
        BY <2>9 DEF PeriodIInv, Timetable
      <3>2. accumulated_error_ns' = 0
        BY <2>4, <3>1 DEF Error
      <3>3. Timetable'
        BY <2>4, <2>5, <2>9, <3>2 DEF Timetable, Behind
      <3>4. ErrorInBounds'
        BY <3>1, <3>2 DEF PeriodIInv, ErrorInBounds, InBounds, FastCallbacks
      <3> QED
        BY <2>7, <2>8, <3>3, <3>4 DEF PeriodIInv
    <2>10. CASE runs > 0
      <3>1. /\ last_execute_time_ns > 0
            /\ accumulated_error_ns =
                 last_execute_time_ns - first - (runs - 1) * interval_ms * NS
        BY <2>2, <2>10 DEF PeriodIInv, Timetable, Behind
      <3>2. accumulated_error_ns' = accumulated_error_ns + start
                                      - last_execute_time_ns - interval_ms * NS
        BY <2>4, <3>1 DEF Error
      <3>3. Timetable'
        <4>1. Behind' = start - first - runs * interval_ms * NS
          BY <2>2, <2>4, <2>10 DEF Behind
        <4>2. (runs - 1) * interval_ms * NS =
                runs * interval_ms * NS - interval_ms * NS
          BY <2>2
        <4>3. /\ runs * interval_ms * NS \in Int
              /\ interval_ms * NS \in Int
          BY <2>2
        <4>4. accumulated_error_ns' = Behind'
          BY <2>2, <2>5, <3>1, <3>2, <4>1, <4>2, <4>3
        <4> QED
          BY <2>2, <2>4, <2>5, <2>10, <4>4 DEF Timetable
      <3>4. ErrorInBounds'
        <4>1. SUFFICES ASSUME FastCallbacks PROVE InBounds(accumulated_error_ns')
          BY DEF ErrorInBounds, InBounds, FastCallbacks
        <4>2. PICK spent \in 0 .. MaxTime :
                /\ added = last_execute_time_ns + spent
                /\ next_fire_duration_ms =
                     NextFire(llround(spent), llround(accumulated_error_ns))
          BY <2>10 DEF PeriodIInv, Remaining
        <4>3. InBounds(accumulated_error_ns)
          BY <4>1 DEF PeriodIInv, ErrorInBounds
        <4>4. InBounds(accumulated_error_ns + spent + wait - interval_ms * NS)
          BY <2>2, <4>1, <4>2, <4>3, PeriodInBounds
        <4>5. accumulated_error_ns' =
                accumulated_error_ns + spent + wait - interval_ms * NS
          BY <2>2, <2>3, <3>2, <4>2 DEF start
        <4> QED
          BY <4>4, <4>5
      <3> QED
        BY <2>7, <2>8, <3>3, <3>4 DEF PeriodIInv
    <2> QED
      BY <2>2, <2>9, <2>10
  <1> QED
    BY <1>1, <1>2

\* What every run of the callback preserves.
THEOREM PeriodIInvHolds == PeriodSpec => []PeriodIInv
  BY InitPeriodIInv, NextPeriodIInv, PTL DEF PeriodSpec

\* Every variable of the periodic callback keeps its type, and the durations
\* that it computes are never below the wheel's resolution.
THEOREM TypeCorrect == PeriodSpec => []PeriodTypeOK
  <1>1. PeriodIInv => PeriodTypeOK
    BY DEF PeriodIInv
  <1> QED
    BY <1>1, PeriodIInvHolds, PTL

\* The callback of a periodic timer does not drift: however many periods pass,
\* its start is behind by at most one tick and one wait for a thread.
THEOREM NoDriftHolds == PeriodSpec => []NoDrift
  <1>1. PeriodIInv => NoDrift
    BY DEF PeriodIInv, PeriodTypeOK, Timetable, ErrorInBounds, InBounds, NoDrift
  <1> QED
    BY <1>1, PeriodIInvHolds, PTL

\* Making up for a late start never puts the timer ahead of its timetable by
\* more than the resolution and the two roundings.
THEOREM NeverAheadHolds == PeriodSpec => []NeverAhead
  <1>1. PeriodIInv => NeverAhead
    BY DEF PeriodIInv, PeriodTypeOK, Timetable, ErrorInBounds, InBounds, NeverAhead
  <1> QED
    BY <1>1, PeriodIInvHolds, PTL
=============================================================================

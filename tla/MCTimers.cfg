SPECIFICATION TimersSpec
CONSTANTS
  Thread = {a, b, c}
  write_first_ = TRUE
  NS = 4
  TIMER_RESOLUTION_MS = 2
  interval_ms = 6
  MaxDelay = 3
  MaxTime = 13
  MaxRuns = 4
  WORK_WHEEL_SIZE = 4
  ASSISTANT_WHEEL_SIZE = 2
  oneshot = FALSE
  MaxTasks = 2
  c1 = c1
  w1 = w1
  w2 = w2
  t1 = t1
  t2 = t2
  NoTask = NoTask
  NoValue = NoValue
  Torn = Torn
  Parts = {"lock", "period", "wheel", "timer"}
INVARIANTS Exclusion CountersExact NoDrift NeverAhead FiresOnTime TaskInOneJob
PROPERTIES WriterProgress ImplementsRWLock KeepsFiringUntilStopped
CHECK_DEADLOCK FALSE

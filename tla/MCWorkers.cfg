SPECIFICATION WorkersSpec
CONSTANTS
  Thread = {a, b, c}
  write_first_ = TRUE
  NS = 4
  TIMER_RESOLUTION_MS = 2
  interval_ms = 4
  MaxDelay = 3
  MaxTime = 5
  MaxRuns = 4
  WORK_WHEEL_SIZE = 4
  ASSISTANT_WHEEL_SIZE = 2
  oneshot = FALSE
  MaxTasks = 2
  c1 = c1
  w1 = w1
  w2 = w2
  t1 = t1
  t2 = t2
  NoTask = NoTask
  NoValue = NoValue
  Torn = Torn
  Parts = {"manager", "pool", "logger", "queue"}
INVARIANTS TaskInOnePlace
PROPERTIES NoticedTasksRun ShutdownReturns
CHECK_DEADLOCK FALSE

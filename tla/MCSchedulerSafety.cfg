SPECIFICATION PolicySpec
CONSTANTS
  c1 = c1
  w1 = w1
  r1 = r1
  r2 = r2
  ta = ta
  tb = tb
  Processor = {p1, p2}
  Client = {c1, c2}
  Notifier = {w1}
  Routine = {r1, r2}
  Name = {ta}
  nameOf <- SameName
  MAX_PRIO = 2
  prioOf <- TopPrio
  None = None
  MaxMessages = 0
  MaxNotify = 1
  Policies = {"classic", "choreography"}
SYMMETRY Symmetry
INVARIANTS OneHolder TasksGone PlacedTasks
CHECK_DEADLOCK FALSE

SPECIFICATION ClassicFairSpec
CONSTANTS
  c1 = c1
  w1 = w1
  r1 = r1
  r2 = r2
  ta = ta
  tb = tb
  Processor = {p1, p2}
  Client = {c1}
  Notifier = {w1}
  Routine = {r1}
  Name = {ta}
  nameOf <- OneTask
  MAX_PRIO = 1
  prioOf <- LowPrio
  None = None
  MaxMessages = 2
  MaxNotify = 1
  Policies = {"classic"}
INVARIANTS WaitingIsFlagged
PROPERTIES MessageHandled RemovalReturns

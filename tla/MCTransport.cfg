SPECIFICATION PartSpec
CONSTANTS
  NoMessage = NoMessage
  QueueSize = 3
  MaxFill = 16
  w1 = w1
  w2 = w2
  r1 = r1
  r2 = r2
  r3 = r3
  Nobody = Nobody
  Torn = Torn
  Blank = Blank
  Parts = {"reader", "zero", "fusion", "block", "segment", "rivals", "notifier", "shm",
           "intra", "hybrid", "services", "wire"}
SYMMETRY Symmetry
INVARIANTS NewestNotLost BuffersHold BlocksReadWhole SegmentsAgree ArrivesAsSent ListenersServed LatePeerCatchesUp CallsAnswered
PROPERTIES ImplementsLossyChannel FusionInOrder
CHECK_DEADLOCK FALSE

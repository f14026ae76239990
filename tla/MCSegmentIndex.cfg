SPECIFICATION PartSpec
CONSTANTS
  NoMessage = NoMessage
  QueueSize = 3
  MaxFill = 16
  w1 = w1
  w2 = w2
  r1 = r1
  r2 = r2
  r3 = r3
  Nobody = Nobody
  Torn = Torn
  Blank = Blank
  Parts = {"segment"}
SYMMETRY Symmetry
INVARIANTS IndexInRange
CHECK_DEADLOCK FALSE

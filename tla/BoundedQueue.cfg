\* Two producers and two consumers on a ring of four slots.
CONSTANTS
  Producer = {p1, p2}
  Consumer = {c1, c2}
  Value = {v1, v2}
  NoValue = NoValue
  Torn = Torn
  Size = 2
  WaitModes = {TRUE}
  MaxTail = 5
SPECIFICATION Spec
SYMMETRY Symmetry
INVARIANTS CountersInOrder SlotsOwned
PROPERTIES ImplementsQueue RejectedOnlyWhenFullOrStale

SPECIFICATION Spec
CONSTANTS
  user1 = user1
  user2 = user2
  Nobody = Nobody
  Parts = {"record", "view", "player", "log", "poller", "component", "node", "python",
           "loader", "containers", "monitor", "livox"}
SYMMETRY Symmetry
INVARIANTS WrittenIsKept QuietWhenGone OwnedWhileUsed ShownIsReceived
CHECK_DEADLOCK FALSE

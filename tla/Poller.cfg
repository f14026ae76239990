SPECIFICATION LiveSpec
CONSTANTS
  Fds = {f1}
  Timeouts = {2}
  MaxData = 2
  MaxCloses = 1
PROPERTIES TimedTransferReturns

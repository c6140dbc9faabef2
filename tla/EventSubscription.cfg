\* A subscription over a log of two positions, with a window of two and a
\* buffer of one; a connection is lost, the store is cleared once.
SPECIFICATION LiveSpec
CONSTANTS
  None = None
  MaxHead = 2
  MaxEpoch = 2
  Visible = {1, 2}
  ReadLimit = 1
  MaxInFlight = 2
  MaxBuffer = 1
  MaxDrops = 1
  Cursored = {TRUE, FALSE}
INVARIANTS NoGap CursorCoversSettled InOrder WindowAccounted EndIsReported EoseComplete
PROPERTIES EveryEventHandled
CHECK_DEADLOCK FALSE

\* One link: two changes of its feeds, two faults, one cancelled caller.
SPECIFICATION LiveSpec
CONSTANTS
  None = None
  MaxHead = 2
  MaxLocal = 1
  MaxChanges = 2
  MaxFaults = 2
  MaxCancels = 1
  MaxAttempts = 2
INVARIANTS CheckpointSettledUnlessGapped PullCurrentIsSound ReadyIsAttached PauseHolds
PROPERTIES PauseIsFinal  FeedsConverge
CHECK_DEADLOCK FALSE

\* Attempts at least a millisecond apart: no retained row starves.
SPECIFICATION Spec
CONSTANTS
  Rows = 3
  MaxTime = 6
  MaxStamp = 7
  SameMs = FALSE
INVARIANTS RoundRobin
CHECK_DEADLOCK FALSE

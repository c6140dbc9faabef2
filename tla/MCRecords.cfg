CONSTANTS
  p = p  c = c  s = s  a = a  b = b
  Records = {p, c, s}
  ParentOf <- MCParentOf
  Messages <- MCTree
  Dataless = {p}
  MaxCrashes = 2
  None = None
SPECIFICATION Spec
INVARIANTS Convergence  SettledTree
CHECK_DEADLOCK FALSE

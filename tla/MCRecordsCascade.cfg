CONSTANTS
  p = p  c = c  s = s  a = a  b = b
  Records = {p, c, s}
  ParentOf <- MCParentOf
  Messages <- MCTree
  Dataless = {}
  MaxCrashes = 1
  None = None
SPECIFICATION Spec
INVARIANTS CascadeSurvivesCrash
CHECK_DEADLOCK FALSE

\* Liveness: one link, one worker, entries that arrive, move and vanish, and a
\* feed that may be cleared and restarted in a fresh domain.
SPECIFICATION LiveSpec
CONSTANTS
  l1 = l1
  l2 = l2
  c1 = c1
  c2 = c2
  w1 = w1
  w2 = w2
  p1 = p1
  r1 = r1
  None = None
  Links = {l1}
  Projections = {p1}
  ProjectionOf <- OneProjection
  MaxDomains = 2
  Cids = {c1, c2}
  HeavyCids = {}
  Records = {r1}
  MaxLifetimes = 1
  MaxQuarantine = 1
  MaxQuarantineBytes = 1
  MaxDelivery = 1
  Workers = {w1}
  PageSize = 1
  MaxHead = 2
PROPERTIES EveryEntryHandled

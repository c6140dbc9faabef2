\* Liveness: one link, one worker, one record.
SPECIFICATION LiveSpec
CONSTANTS
  l1 = l1
  l2 = l2
  c1 = c1
  c2 = c2
  c3 = c3
  w1 = w1
  w2 = w2
  p1 = p1
  r1 = r1
  r2 = r2
  None = None
  Links = {l1}
  Projections = {p1}
  ProjectionOf <- OneProjection
  MaxDomains = 1
  Cids = {c1, c2}
  HeavyCids = {}
  Records = {r1}
  MaxLifetimes = 1
  MaxQuarantine = 1
  MaxQuarantineBytes = 2
  MaxDelivery = 1
  Workers = {w1}
  PageSize = 1
  MaxHead = 2
  MaxAttempts = 0
PROPERTIES EveryRowDelivered

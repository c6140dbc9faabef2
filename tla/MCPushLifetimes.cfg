\* Links that are removed and created again, and a local feed restarted in a
\* fresh domain.
SPECIFICATION Spec
SYMMETRY Symmetry
CONSTANTS
  l1 = l1
  l2 = l2
  c1 = c1
  c2 = c2
  c3 = c3
  w1 = w1
  w2 = w2
  p1 = p1
  r1 = r1
  r2 = r2
  None = None
  Links = {l1}
  Projections = {p1}
  ProjectionOf <- OneProjection
  MaxDomains = 2
  Cids = {c1, c2}
  HeavyCids = {}
  Records = {r1}
  MaxLifetimes = 2
  MaxQuarantine = 1
  MaxQuarantineBytes = 2
  MaxDelivery = 1
  Workers = {w1}
  PageSize = 2
  MaxHead = 1
  MaxAttempts = 1
PROPERTIES StaleRetryHarmless

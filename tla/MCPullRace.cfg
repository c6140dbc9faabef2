\* Two page attempts, a retry, a cleanup and a reset on one link.
SPECIFICATION Spec
SYMMETRY Symmetry
CONSTANTS
  l1 = l1
  l2 = l2
  c1 = c1
  c2 = c2
  w1 = w1
  w2 = w2
  p1 = p1
  r1 = r1
  None = None
  Links = {l1}
  Projections = {p1}
  ProjectionOf <- OneProjection
  MaxDomains = 1
  Cids = {c1, c2}
  HeavyCids = {}
  Records = {r1}
  MaxLifetimes = 2
  MaxQuarantine = 1
  MaxQuarantineBytes = 2
  MaxDelivery = 1
  Workers = {w1, w2}
  PageSize = 2
  MaxHead = 2
INVARIANTS PullNoLoss QuarantineWithinCapacity
PROPERTIES ImplementsIntake CheckpointMonotone CommitFromOwnLifetime StaleCleanupHarmless

\* Two attempts, pages or retries, on one link and one record.
SPECIFICATION Spec
SYMMETRY Symmetry
CONSTANTS
  l1 = l1
  l2 = l2
  c1 = c1
  c2 = c2
  c3 = c3
  w1 = w1
  w2 = w2
  p1 = p1
  r1 = r1
  r2 = r2
  None = None
  Links = {l1}
  Projections = {p1}
  ProjectionOf <- OneProjection
  MaxDomains = 1
  Cids = {c1, c2}
  HeavyCids = {}
  Records = {r1}
  MaxLifetimes = 1
  MaxQuarantine = 1
  MaxQuarantineBytes = 2
  MaxDelivery = 1
  Workers = {w1, w2}
  PageSize = 2
  MaxHead = 2
  MaxAttempts = 1
INVARIANTS PushNoLoss OneObligationPerReceipt DeliveryWithinCapacity
PROPERTIES CheckpointMonotone

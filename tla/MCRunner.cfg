\* A run of three targets over two endpoints, one with role authority, in
\* either direction, from every choice of up to two pending rows per queue.
CONSTANTS
  t1 = t1  t2 = t2  t3 = t3  e1 = e1  e2 = e2  p1 = p1  p2 = p2
  Targets = {t1, t2, t3}
  RoleTargets = {t3}
  Endpoints = {e1, e2}
  EndpointOf <- MCEndpointOf
  Projections = {p1, p2}
  ProjectionOf <- MCProjectionOf
  MaxRequests = 4
  None = None
  FirstStamps = 2
SPECIFICATION Spec
INVARIANTS RequestsWithinBudget FailedPageReported
PROPERTIES RecoveryNotStarved ThrowStopsEndpoint RunEnds
CHECK_DEADLOCK FALSE

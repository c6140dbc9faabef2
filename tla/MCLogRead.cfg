\* Two contexts write while a reader of c1 and c2 pages through the log one
\* row at a time; the store may be reset offline, which restarts positions
\* under a fresh epoch.
CONSTANTS
  c1 = c1  c2 = c2  c3 = c3  ra = ra  rb = rb  x1 = x1  w1 = w1  w2 = w2
  global = global  protocol = protocol
  Cids = {c1, c2, c3}
  Scopes = {global, protocol}
  ScopesOf <- MCScopesOf
  Records = {ra, rb}
  RecordOf <- MCRecordOf
  InScope = {c1, c2}
  Writers = {w1, w2}
  Readers = {x1}
  Limit = 1
  None = None
  ClearOnline = FALSE
  MaxHead = 4
  MaxEpochs = 2
SYMMETRY WriterSymmetry
SPECIFICATION Spec
INVARIANTS LogConsistent FingerprintIsLiveSet NoSkip
PROPERTIES VisibilityBarrier

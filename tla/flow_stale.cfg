CONSTANTS
  Dials = {d1, d2}
  Conns = {c1, c2}
  NoDial = NoDial
  NoConn = NoConn
  Cancelled = {d1}
  BadTargets = {}
  LateIds = {}
  MaxStreams = 1
  ClientStreams = 1
  MaxConnections = 1
  MaxConcurrent = 1
  MaxLosses = 0
SPECIFICATION Spec
CHECK_DEADLOCK FALSE
INVARIANTS DropsOnlyStale

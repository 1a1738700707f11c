CONSTANTS
  Dials = {d1, d2}
  Conns = {c1, c2}
  NoDial = NoDial
  NoConn = NoConn
  Cancelled = {d1}
  BadTargets = {d1}
  LateIds = {d2}
  MaxStreams = 1
  ClientStreams = 1
  MaxConnections = 1
  MaxConcurrent = 1
  MaxLosses = 1
SPECIFICATION FairSpec
CHECK_DEADLOCK FALSE
INVARIANTS TypeOK LimitKept NoLeak
PROPERTIES RefusedWhileClosing DialsEnd ActiveReturns

SPECIFICATION FairSpec
CONSTANTS
  n1 = n1
  n2 = n2
  p1 = p1
  p2 = p2
  Nodes = {n1}
  Profiles = {p1}
  None = None
  Requests = {"restart", "enable", "disable"}
  Settled = FALSE
  MaxAsked = 1
  Faults = {"net", "core", "panel", "query", "worker"}
  MaxFailed = 1
INVARIANT PauseIsOwned
PROPERTY Reconnects

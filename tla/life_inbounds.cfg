SPECIFICATION Spec
CONSTANTS
  n1 = n1
  n2 = n2
  p1 = p1
  p2 = p2
  Nodes = {n1, n2}
  Profiles = {p1}
  None = None
  Requests = {"config"}
  Settled = TRUE
  MaxAsked = 1
  Faults = {}
  MaxFailed = 0
SYMMETRY Symmetric
INVARIANT NoInboundsNotStarted

SPECIFICATION Spec
CONSTANTS
  n1 = n1
  n2 = n2
  p1 = p1
  p2 = p2
  Nodes = {n1}
  Profiles = {p1, p2}
  None = None
  Requests = {"create", "delete", "update", "enable", "disable", "modify"}
  Settled = FALSE
  MaxAsked = 1
  Faults = {"net", "slow"}
  MaxFailed = 1
SYMMETRY Symmetric
INVARIANTS TypeOK ConnectingIsOwned PauseIsOwned

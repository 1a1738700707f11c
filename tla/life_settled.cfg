SPECIFICATION FairSpec
CONSTANTS
  n1 = n1
  n2 = n2
  p1 = p1
  p2 = p2
  Nodes = {n1}
  Profiles = {p1}
  None = None
  Requests = {"restart", "force", "delete", "enable", "disable", "config"}
  Settled = TRUE
  MaxAsked = 3
  Faults = {"core", "slow"}
  MaxFailed = 1
INVARIANTS WantedHolds DisabledIsStopped
PROPERTY RunsCurrent

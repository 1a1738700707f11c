SPECIFICATION FairSpec
CONSTANTS
  n1 = n1
  n2 = n2
  u1 = u1
  u2 = u2
  Nodes = {n1}
  Users = {u1}
  Slots = {1, 2}
  Multiplier <- Multipliers
  Unit = 1
  IgnoreBelow = 0
  Limit = 1
  MaxSent = 2
  MaxResets = 1
  Faults = {"net", "redis", "db", "ttl", "slow", "worker"}
  MaxFailed = 1
  MaxDeaths = 1
INVARIANTS TypeOK HistoryKept TotalsKept HashIsPushed PauseIsOwned LimitedIsExceeded
PROPERTIES ResetIsolated EventuallyCounted

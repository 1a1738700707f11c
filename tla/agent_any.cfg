SPECIFICATION FairSpec
CONSTANTS
  p1 = p1
  p2 = p2
  u1 = u1
  u2 = u2
  t1 = t1
  t2 = t2
  Procs = {p1, p2}
  Users = {u1}
  MaxKey = 0
  Tags = {t1}
  Bases = {"b1", "b2"}
  DisableHashedSetCheck = FALSE
  Overlap = "any"
  Faults = {"crash", "s6", "xtls"}
  None = None
INVARIANTS TypeOK StartExclusive StartedIsOwn
PROPERTIES LockReleased StartsTakeTurns

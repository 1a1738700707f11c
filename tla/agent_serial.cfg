SPECIFICATION Spec
CONSTANTS
  p1 = p1
  p2 = p2
  u1 = u1
  u2 = u2
  t1 = t1
  t2 = t2
  Procs = {p1}
  Users = {u1}
  MaxKey = 1
  Tags = {t1, t2}
  Bases = {"b1"}
  DisableHashedSetCheck = FALSE
  Overlap = "any"
  Faults = {"crash"}
  None = None
SYMMETRY Symmetric
INVARIANTS AccessIsExact UpToDateIsHonest

CONSTANTS
  Users = {u1}
  Nodes = {n1}
  n1 = n1
  Squads = {q1, q2}
  q1 = q1
  q2 = q2
  Tags = {t1, t2}
  t1 = t1
  t2 = t2
  Serves <- ServedTags
  Inbounds <- SquadInbounds
  Updates <- SingleUpdates
  Slots = {1, 2}
  MaxRequests = 1
  MaxChanges = 2
SPECIFICATION FairSpec
CHECK_DEADLOCK FALSE
INVARIANTS TypeOK ExactWhenQuiet
PROPERTIES EventuallyOut

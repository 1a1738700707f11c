----------------------------- MODULE MCUserSync -----------------------------
(* Instances of UserSync: one squad whose inbound the node serves, and one  *)
(* whose inbound it does not.                                              *)
EXTENDS UserSync

CONSTANTS n1, q1, q2, t1, t2

ServedTags == [n \in Nodes |-> {t1}]
SquadInbounds == [q \in Squads |-> IF q = q1 THEN {t1} ELSE {t2}]

Body(st, limit, expire, S) ==
  [status |-> st, limit |-> limit, expire |-> expire, squads |-> S]

\* One field at a time, and those that go together.
SingleUpdates ==
  {Body("ACTIVE", "same", "same", {"same"}), Body("DISABLED", "same", "same", {"same"}),
   Body("same", "raised", "same", {"same"}), Body("same", "lowered", "same", {"same"}),
   Body("same", "same", "later", {"same"}), Body("ACTIVE", "raised", "later", {q2}),
   Body("same", "same", "same", {}), Body("same", "same", "same", {q1}),
   Body("same", "same", "same", {q1, q2}), Body("same", "raised", "later", {q1})}

\* The status and the squads in one body.
CombinedUpdates == {Body("DISABLED", "same", "same", {q1, q2})}
=============================================================================

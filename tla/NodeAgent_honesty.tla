-------------------------- MODULE NodeAgent_honesty --------------------------
(* When requests about one user do not overlap, start and stop run alone,  *)
(* and the core may die at any moment, a restart is skipped only if the    *)
(* core runs what the panel wants: for every set of requests, users,       *)
(* inbounds and configurations.                                            *)
EXTENDS NodeAgent_proofs, FiniteSetTheorems

\* The panel sends requests that overlap only if they are about different
\* users, and nothing but the core fails.
Orderly == Overlap = "perUser" /\ Faults \subseteq {"crash"}

UserOps == AddOps \cup RemoveOps
Of(S, u) == {c \in S : Owner(c) = u}

-----------------------------------------------------------------------------
(* The invariant.                                                          *)

\* A request about users works on one of its own users; one that replaces a
\* credential has no other.
UserRecord(l) ==
  /\ l.op \in UserOps /\ l.pc \in UserPcs \cup {"done"}
  /\ l.left \subseteq l.subject
  /\ l.op = "revokeUser" => l.left = {}
  /\ l.pc = "ips" => l.op \in RemoveOps
  /\ l.pc \in UserPcs => l.cr \in l.subject
  /\ l.reply # "uptodate"
StartRecord(l) ==
  l.op = "start" /\ l.pc \in Locked \cup {"iface", "done"} /\ l.cfg \in Configs
StopRecord(l) ==
  /\ l.op = "stop" /\ l.pc \in {"plugin", "kill", "killed", "done"}
  /\ l.reply # "uptodate"

Placed ==
  \A p \in Procs : Active(p) =>
    UserRecord(h[p]) \/ StartRecord(h[p]) \/ StopRecord(h[p])

\* Start and stop run alone, and no two requests are about one user.
Apart ==
  \A p, q \in Procs : p # q /\ Active(p) /\ Active(q) =>
    h[p].op \in UserOps /\ Owners(h[p].subject) \cap Owners(h[q].subject) = {}

\* Requests carry the latest credentials, of which the mirror has none that is
\* newer; a credential that replaces another is new to it.
SubjectLatest ==
  \A p \in Procs : Active(p) => \A c \in h[p].subject : c[2] = cur[c[1]]
MirrorKnown == \A t \in Tags : \A c \in mirror[t] : c[2] <= cur[c[1]]
NewUnknown ==
  \A p \in Procs : h[p].op = "revokeUser" /\ h[p].pc \in {"remove", "removed"} =>
    \A t \in Tags : h[p].cr \notin mirror[t]
WantedLatest ==
  \A p \in Procs : h[p].pc \in Locked \cup {"iface"} =>
    \A t \in Tags :
      /\ \A c \in h[p].cfg.users[t] : c[2] = cur[c[1]]
      /\ t \notin h[p].cfg.tags => h[p].cfg.users[t] = {}
MirrorMapped == \A t \in Tags \ mapped : mirror[t] = {}

Requests == Placed /\ Apart /\ SubjectLatest
Mirror == MirrorKnown /\ NewUnknown /\ WantedLatest /\ MirrorMapped

\* A restart under way is of the configuration, and what has come up since runs
\* it; there is a core when the hashes are compared; a core that boots while
\* isXrayOnline is set is one that a start waits for.
Own(p) ==
  h[p].pc \in Restarting =>
    /\ config = h[p].cfg /\ mapped = config.tags /\ mirror = config.users
    /\ h[p].pc = "up" => core = "down"
    /\ h[p].pc \notin {"down", "up"} /\ core = "up" =>
         coreBase = config.base /\ served = config.tags /\ table = config.users
    /\ h[p].pc = "answered" => core # "boot"
Checks(p) == h[p].pc \in {"stats", "healthy"} => online
Waits(p) == h[p].pc \in {"ready", "silent"}
Right(p) ==
  h[p].pc = "done" /\ h[p].reply = "uptodate" =>
    /\ core # "boot"
    /\ core = "up" => LET c == h[p].cfg
                      IN coreBase = c.base /\ c.tags \subseteq served
                         /\ table = c.users
Restarts ==
  /\ \A p \in Procs : Own(p) /\ Checks(p) /\ Right(p)
  /\ online /\ core = "boot" => \E p \in Procs : Waits(p)

\* Between the core's answer and the handler's next turn the mirror says of one
\* user and one inbound what was true before.
Window(p, u, t) ==
  h[p].pc \in {"removed", "added"} /\ Owner(h[p].cr) = u /\ h[p].tag = t
\* Otherwise the core accepts nobody of whom the mirror does not know, and
\* everybody the mirror has with the latest credential.
Agree(u, t) ==
  /\ Of(table[t], u) \subseteq mirror[t]
  /\ <<u, cur[u]>> \in mirror[t] => <<u, cur[u]>> \in table[t]
WindowTrue(p) ==
  /\ h[p].pc = "removed" => Of(table[h[p].tag], Owner(h[p].cr)) = {}
  /\ h[p].pc = "added" => /\ h[p].tag \in served
                          /\ Of(table[h[p].tag], Owner(h[p].cr)) = {h[p].cr}
SameCore == config # None /\ coreBase = config.base /\ mapped \subseteq served
Compared == online /\ core = "up" /\ \A p \in Procs : h[p].pc # "down"
InSync ==
  Compared =>
    /\ SameCore
    /\ \A u \in Users, t \in Tags :
         (\A p \in Procs : ~Window(p, u, t)) => Agree(u, t)
    /\ \A p \in Procs : WindowTrue(p)

Honesty == Requests /\ Mirror /\ Restarts /\ InSync

-----------------------------------------------------------------------------
(* Where the records of requests about users go.                           *)

\* n continues l, about one of the users of l.
Turned(n, l) ==
  /\ UserRecord(n) /\ n.op = l.op /\ n.subject = l.subject /\ n.pc \in NextPcs
  /\ l.op = "revokeUser" /\ n.pc = "remove" => n.cr = l.cr

\* An answer of a request about users.
LEMMA DoneTurn ==
  ASSUME NEW l \in Handlers, l.op \in UserOps, NEW r \in {"ok", "fail"}
  PROVE  Turned(Done(l, r), l)
<1> DEFINE n == Done(l, r)
<1>1. /\ n.op = l.op /\ n.subject = l.subject /\ n.pc = "done" /\ n.reply = r
      /\ n.left = {}
  BY DEF Done, Idle
<1> HIDE DEF n
<1> QED BY <1>1 DEF Turned, UserRecord, NextPcs, UserPcs, InLoop, n

\* The next call that adds.
LEMMA AddingTurn ==
  ASSUME NEW l \in Handlers, l.op \in UserOps, l.cr \in l.subject,
         l.left \subseteq l.subject, l.op = "revokeUser" => l.left = {},
         l.reply # "uptodate", NEW n \in Adding(l)
  PROVE  Turned(n, l) /\ n.pc = "add"
<1>1. PICK t \in l.todo : n = [l EXCEPT !.pc = "add", !.tag = t,
                                        !.todo = l.todo \ {t}]
  BY DEF Adding
<1>2. /\ n.op = l.op /\ n.subject = l.subject /\ n.left = l.left
      /\ n.cr = l.cr /\ n.pc = "add" /\ n.reply = l.reply
  BY <1>1 DEF Handlers, Records
<1> QED BY <1>2 DEF Turned, UserRecord, NextPcs, UserPcs, InLoop

\* The next user to remove.
LEMMA RemoveTurn ==
  ASSUME NEW l \in Handlers, l.op \in RemoveOps,
         l.left \subseteq l.subject, l.reply # "uptodate", NEW n \in RemoveNext(l)
  PROVE  Turned(n, l)
<1>0. l.op \in UserOps /\ l.op # "revokeUser"
  BY DEF UserOps, RemoveOps
<1>1. CASE l.left = {}
  <2>1. \E r \in {"ok", "fail"} : n = Done(l, r)
    BY <1>1 DEF RemoveNext
  <2> QED BY <2>1, <1>0, DoneTurn
<1>2. CASE l.left # {}
  <2>1. PICK c \in l.left : n = [l EXCEPT !.pc = "ips", !.cr = c,
                                          !.left = l.left \ {c}, !.seen = {}]
    BY <1>2 DEF RemoveNext
  <2>2. /\ n.op = l.op /\ n.subject = l.subject /\ n.left = l.left \ {c}
        /\ n.cr = c /\ n.pc = "ips" /\ n.reply = l.reply
    BY <2>1 DEF Handlers, Records
  <2> QED BY <1>0, <2>2 DEF Turned, UserRecord, NextPcs, UserPcs
<1> QED BY <1>1, <1>2

\* The next turn of the loop over inbounds.
LEMMA LoopTurn ==
  ASSUME NEW l \in Handlers, l.op \in UserOps, l.cr \in l.subject,
         l.left \subseteq l.subject, l.op = "revokeUser" => l.left = {},
         l.reply # "uptodate", NEW tags \in SUBSET Tags, NEW n \in Loop(l, tags)
  PROVE  Turned(n, l)
<1>1. CASE tags \ l.seen # {}
  <2>1. PICK t \in tags \ l.seen :
          n = [l EXCEPT !.pc = "remove", !.tag = t, !.seen = @ \cup {t}]
    BY <1>1 DEF Loop
  <2>2. /\ n.op = l.op /\ n.subject = l.subject /\ n.left = l.left
        /\ n.cr = l.cr /\ n.pc = "remove" /\ n.reply = l.reply
    BY <2>1 DEF Handlers, Records
  <2> QED BY <2>2 DEF Turned, UserRecord, NextPcs, UserPcs, InLoop
<1>2. CASE tags \ l.seen = {} /\ l.op \in AddOps
  <2> DEFINE m == [l EXCEPT !.todo = l.want]
  <2>1. /\ m \in Records /\ m.op = l.op /\ m.subject = l.subject
        /\ m.cfg = l.cfg /\ m.pc = l.pc /\ m.cr = l.cr /\ m.tag = l.tag
        /\ m.left = l.left /\ m.reply = l.reply
    BY DEF Handlers, Records
  <2>2. n \in Adding(m)
    BY <1>2 DEF Loop
  <2> HIDE DEF m
  <2>3. m \in Handlers
    BY <2>1 DEF IsSet, Handlers
  <2>4. Turned(n, m) /\ n.pc = "add"
    BY <2>1, <2>2, <2>3, AddingTurn
  <2> QED BY <2>1, <2>4 DEF Turned
<1>3. CASE tags \ l.seen = {} /\ l.op \notin AddOps
  BY <1>3, RemoveTurn DEF Loop, UserOps
<1> QED BY <1>1, <1>2, <1>3

\* The next user to add: one that is left.
LEMMA NextToAddTurn ==
  ASSUME NEW l \in Handlers, l.op \in UserOps,
         l.left \subseteq l.subject,
         l.op = "revokeUser" => \A c \in l.left : l.left = {c},
         l.reply # "uptodate", NEW tags \in SUBSET Tags,
         NEW n \in NextToAdd(l, tags)
  PROVE  /\ UserRecord(n) /\ n.op = l.op /\ n.subject = l.subject
         /\ n.pc \in NextPcs
<1>1. PICK c \in l.left :
        n \in Loop([l EXCEPT !.cr = c, !.left = @ \ {c}, !.seen = {}], tags)
  BY DEF NextToAdd
<1> DEFINE m == [l EXCEPT !.cr = c, !.left = @ \ {c}, !.seen = {}]
<1>2. /\ m \in Records /\ m.op = l.op /\ m.subject = l.subject
      /\ m.cfg = l.cfg /\ m.pc = l.pc /\ m.cr = c /\ m.tag = l.tag
      /\ m.left = l.left \ {c} /\ m.reply = l.reply /\ c \in Creds
  BY DEF Handlers, Records
<1>3. n \in Loop(m, tags)
  BY <1>1
<1> HIDE DEF m
<1>4. m \in Handlers
  BY <1>2 DEF IsSet, Handlers
<1>5. Turned(n, m)
  BY <1>2, <1>3, <1>4, LoopTurn
<1> QED BY <1>2, <1>5 DEF Turned

\* What follows a call that adds: a request that replaces a credential does not
\* begin to remove again.
LEMMA AddTurn ==
  ASSUME NEW l \in Handlers, l.op \in UserOps, l.cr \in l.subject,
         l.left \subseteq l.subject, l.op = "revokeUser" => l.left = {},
         l.reply # "uptodate", NEW tags \in SUBSET Tags,
         NEW n \in AddNext(l, tags)
  PROVE  Turned(n, l) /\ (l.op = "revokeUser" => n.pc # "remove")
<1>1. CASE l.todo # {}
  BY <1>1, AddingTurn DEF AddNext
<1>2. CASE l.todo = {} /\ l.left # {}
  <2>1. n \in NextToAdd(l, tags) /\ l.op # "revokeUser"
    BY <1>2 DEF AddNext
  <2>2. /\ UserRecord(n) /\ n.op = l.op /\ n.subject = l.subject
        /\ n.pc \in NextPcs
    BY <2>1, NextToAddTurn
  <2> QED BY <2>1, <2>2 DEF Turned
<1>3. CASE l.todo = {} /\ l.left = {}
  <2>1. \E r \in {"ok", "fail"} : n = Done(l, r)
    BY <1>3 DEF AddNext
  <2>2. n.pc = "done"
    BY <2>1 DEF Done, Idle
  <2> QED BY <2>1, <2>2, DoneTurn
<1> QED BY <1>1, <1>2, <1>3

-----------------------------------------------------------------------------
(* What the steps of requests about users do to the requests.              *)

Others(p) == \A q \in Procs \ {p} : Same(h'[q], h[q])
Keeps(n, l) ==
  /\ n.op = l.op /\ n.subject = l.subject /\ n.left = l.left /\ n.cr = l.cr
  /\ n.tag = l.tag /\ n.cfg = l.cfg

\* Who is at a place of the loops is a request about users.
LEMMA InUserPcs ==
  ASSUME TypeOK, Placed, NEW p \in Procs, h[p].pc \in UserPcs
  PROVE  UserRecord(h[p])
<1>1. /\ h[p].pc \notin Locked \cup {"iface", "done"}
      /\ h[p].pc \notin {"plugin", "kill", "killed", "done"} /\ Active(p)
  BY DEF UserPcs, InLoop, Locked, Restarting, Active
<1> QED BY <1>1 DEF Placed, StartRecord, StopRecord

\* The turns of the loops.
LEMMA LoopSteps ==
  ASSUME TypeOK, Placed, NEW p \in Procs,
         AfterIps(p) \/ AfterRemove(p) \/ AfterAdd(p)
  PROVE  /\ UserRecord(h[p]) /\ Turned(h'[p], h[p]) /\ Others(p)
         /\ AfterAdd(p) /\ h[p].op = "revokeUser" => h'[p].pc # "remove"
<1>0. h[p] \in Handlers /\ h[p].pc \in UserPcs
  BY DEF TypeOK, HandlerType, AfterIps, AfterRemove, AfterAdd, UserPcs, InLoop
<1>a. UserRecord(h[p]) /\ h[p].cr \in h[p].subject /\ h[p].cr \in Creds
  BY <1>0, InUserPcs DEF UserRecord, Handlers, IsSet, UserPcs
<1>1. PICK S : /\ Move(p, S, {})
               /\ \A n \in S : n \in Handlers /\ Turned(n, h[p])
               /\ AfterAdd(p) /\ h[p].op = "revokeUser" =>
                    \A n \in S : n.pc # "remove"
  <2>0. AfterAdd(p) => ~AfterIps(p) /\ ~AfterRemove(p)
    BY DEF AfterAdd, AfterIps, AfterRemove
  <2>1. CASE AfterIps(p)
    BY <2>0, <2>1, <1>0, <1>a, LoopTurn, LoopType
    DEF AfterIps, TypeOK, MirrorType, UserRecord
  <2>2. CASE AfterRemove(p)
    <3>1. xtls' \in SUBSET Tags
      BY <2>2 DEF AfterRemove, TypeOK, MirrorType
    <3> QED BY <2>0, <2>2, <3>1, <1>0, <1>a, LoopTurn, LoopType DEF AfterRemove, UserRecord
  <2>3. CASE AfterAdd(p)
    BY <2>3, <1>0, <1>a, AddTurn, AddNextType
    DEF AfterAdd, TypeOK, MirrorType, UserRecord
  <2> QED BY <2>1, <2>2, <2>3
<1>2. h'[p] \in S /\ Others(p)
  <2>1. S \subseteq Handlers
    BY <1>1
  <2> QED BY <2>1, <1>1, MoveType DEF TypeOK, Others
<1> QED BY <1>a, <1>1, <1>2

\* A move that changes the place, and whether any call has succeeded.
LEMMA PlaceMove ==
  ASSUME HandlerType, NEW p \in Procs, NEW x, NEW b,
         Goto(p, [h[p] EXCEPT !.pc = x, !.anyOk = b])
  PROVE  /\ h'[p].pc = x /\ Keeps(h'[p], h[p]) /\ h'[p].reply = h[p].reply
         /\ Others(p)
<1>1. h' = [q \in Procs |-> IF q = p THEN [h[p] EXCEPT !.pc = x, !.anyOk = b]
                            ELSE [h[q] EXCEPT !.seen = @ \ {}]]
  BY DEF Goto, Move
<1>2. \A q \in Procs : h[q] \in Handlers /\ Same([h[q] EXCEPT !.seen = @ \ {}], h[q])
  BY SeenOnly DEF HandlerType
<1>3. Others(p)
  BY <1>1, <1>2 DEF Others
<1>4. h'[p] = [h[p] EXCEPT !.pc = x, !.anyOk = b]
  BY <1>1
<1> QED BY <1>2, <1>3, <1>4 DEF Keeps, Handlers, Records

LEMMA PcKeeps ==
  ASSUME HandlerType, NEW p \in Procs, NEW x, Goto(p, [h[p] EXCEPT !.pc = x])
  PROVE  /\ h'[p].pc = x /\ Keeps(h'[p], h[p]) /\ h'[p].reply = h[p].reply
         /\ Others(p)
<1>1. [h[p] EXCEPT !.pc = x] = [h[p] EXCEPT !.pc = x, !.anyOk = h[p].anyOk]
  BY DEF HandlerType, Handlers, Records
<1>2. Goto(p, [h[p] EXCEPT !.pc = x, !.anyOk = h[p].anyOk])
  BY <1>1
<1> QED BY <1>2, PlaceMove

\* What the core does for a request about users.
LEMMA CoreSteps ==
  ASSUME TypeOK, Placed, NEW p \in Procs, CoreRemoves(p) \/ CoreAdds(p)
  PROVE  /\ UserRecord(h[p]) /\ UserRecord(h'[p]) /\ Keeps(h'[p], h[p]) /\ Others(p)
         /\ CoreRemoves(p) => h[p].pc = "remove" /\ h'[p].pc = "removed"
         /\ CoreAdds(p) => /\ h[p].pc = "add" /\ h'[p].pc \in {"added", "refused"}
                           /\ h'[p].pc = "added" =>
                                /\ core = "up" /\ h[p].tag \in served
                                /\ \A c \in table[h[p].tag] :
                                     Owner(c) # Owner(h[p].cr)
                                /\ table' = [table EXCEPT ![h[p].tag] =
                                               @ \cup {h[p].cr}]
                           /\ h'[p].pc = "refused" => table' = table
<1>0. HandlerType /\ h[p].pc \in UserPcs
  BY DEF TypeOK, CoreRemoves, CoreAdds, UserPcs, InLoop
<1>1. UserRecord(h[p])
  BY <1>0, InUserPcs
<1>2. CASE CoreRemoves(p)
  <2>1. h[p].pc = "remove"
    BY <1>2 DEF CoreRemoves
  <2>2. h'[p].pc = "removed" /\ Keeps(h'[p], h[p]) /\ h'[p].reply = h[p].reply /\ Others(p)
    <3>1. CASE \E isOk \in BOOLEAN :
                 Goto(p, [h[p] EXCEPT !.pc = "removed",
                          !.anyOk = @ \/ (isOk /\ h[p].op \in RemoveOps)])
      BY <1>0, <3>1, PlaceMove
    <3>2. CASE Goto(p, [h[p] EXCEPT !.pc = "removed"])
      BY <1>0, <3>2, PcKeeps
    <3> QED BY <1>2, <3>1, <3>2, Zenon DEF CoreRemoves
  <2>3. ~CoreAdds(p)
    BY <2>1 DEF CoreAdds
  <2> QED BY <1>1, <2>1, <2>2, <2>3 DEF UserRecord, Keeps, UserPcs, InLoop
<1>3. CASE CoreAdds(p)
  <2>1. h[p].pc = "add" /\ ~CoreRemoves(p)
    BY <1>3 DEF CoreAdds, CoreRemoves
  <2>2. CASE /\ core = "up" /\ h[p].tag \in served
             /\ \A c \in table[h[p].tag] : Owner(c) # Owner(h[p].cr)
             /\ table' = [table EXCEPT ![h[p].tag] = @ \cup {h[p].cr}]
             /\ Goto(p, [h[p] EXCEPT !.pc = "added", !.anyOk = TRUE])
    <3>1. h'[p].pc = "added" /\ Keeps(h'[p], h[p]) /\ h'[p].reply = h[p].reply /\ Others(p)
      BY <1>0, <2>2, PlaceMove
    <3> QED BY <1>1, <2>1, <2>2, <3>1 DEF UserRecord, Keeps, UserPcs, InLoop
  <2>3. CASE Goto(p, [h[p] EXCEPT !.pc = "refused"]) /\ UNCHANGED table
    <3>1. h'[p].pc = "refused" /\ Keeps(h'[p], h[p]) /\ h'[p].reply = h[p].reply /\ Others(p)
      BY <1>0, <2>3, PcKeeps
    <3> QED BY <1>1, <2>1, <2>3, <3>1 DEF UserRecord, Keeps, UserPcs, InLoop
  <2> QED BY <1>3, <2>2, <2>3, Zenon DEF CoreAdds
<1> QED BY <1>2, <1>3

\* A request op about creds arrives in slot p.
Arrives(p, op, creds) ==
  /\ MayBegin(p, Owners(creds), FALSE) /\ h'[p].subject = creds
  /\ UserRecord(h'[p]) /\ h'[p].pc \in NextPcs /\ Others(p)
  /\ h'[p].op = op
  /\ UNCHANGED <<agentVars, config, mapped, mirror, coreVars>>

\* What an arrival means for the state.
Arrived(p) ==
  /\ MayBegin(p, Owners(h'[p].subject), FALSE)
  /\ UserRecord(h'[p]) /\ h'[p].pc \in NextPcs /\ Others(p)
  /\ \A c \in h'[p].subject : c[2] = cur'[c[1]] /\ c[1] \in Users
  /\ \A u \in Users : \/ cur'[u] = cur[u]
                      \/ cur'[u] = cur[u] + 1 /\ u \in Owners(h'[p].subject)
  /\ h'[p].op = "revokeUser" => \A c \in h'[p].subject : c[2] = cur[c[1]] + 1
  /\ UNCHANGED <<agentVars, config, mapped, mirror, coreVars>>

\* The arrival of a request about users.
LEMMA BeginSteps ==
  ASSUME TypeOK, NEW p \in Procs,
         AddUser(p) \/ RevokeUser(p) \/ AddUsers(p) \/ RemoveUser(p) \/ RemoveUsers(p)
  PROVE  Arrived(p)
<1>1. ASSUME NEW op \in AddOps, NEW creds \in SUBSET Creds, NEW want \in SUBSET Tags,
             NEW touch \in SUBSET Tags, BeginAdd(p, op, creds, want, touch),
             op = "revokeUser" => \A c \in creds : creds = {c}
      PROVE  Arrives(p, op, creds)
  <2> DEFINE l == [Idle EXCEPT !.op = op, !.subject = creds, !.left = creds,
                               !.want = want]
  <2>1. l \in Handlers
    BY DEF Idle, Handlers, Records, IsSet, Ops, Pcs, InLoop, Locked, Restarting, AddOps
  <2>2. /\ l.op = op /\ l.subject = creds /\ l.left = creds /\ l.reply = "none"
    BY DEF Idle
  <2>3. xtls' \in SUBSET Tags /\ Move(p, NextToAdd(l, xtls'), touch \ xtls)
    BY <1>1 DEF BeginAdd, TypeOK, MirrorType
  <2> HIDE DEF l
  <2>4. \A n \in NextToAdd(l, xtls') :
          /\ n \in Handlers /\ UserRecord(n) /\ n.op = op /\ n.subject = creds
          /\ n.pc \in NextPcs
    BY <1>1, <2>1, <2>2, <2>3, NextToAddTurn, NextToAddType DEF UserOps
  <2>5. h'[p] \in NextToAdd(l, xtls') /\ Others(p)
    <3>1. NextToAdd(l, xtls') \subseteq Handlers
      BY <2>4
    <3> QED BY <3>1, <2>3, MoveType DEF TypeOK, Others
  <2> QED BY <1>1, <2>4, <2>5 DEF BeginAdd, Arrives
<1>2. ASSUME NEW op \in RemoveOps, NEW creds \in SUBSET Creds, Remove(p, op, creds)
      PROVE  Arrives(p, op, creds) /\ UNCHANGED cur
  <2> DEFINE l == [Idle EXCEPT !.op = op, !.subject = creds, !.left = creds]
             S == IF xtls = {} THEN {Done(l, "ok")} ELSE RemoveNext(l)
  <2>1. l \in Handlers
    BY DEF Idle, Handlers, Records, IsSet, Ops, Pcs, InLoop, Locked, Restarting, RemoveOps
  <2>2. /\ l.op = op /\ l.subject = creds /\ l.left = creds /\ l.reply = "none"
    BY DEF Idle
  <2>3. Move(p, S, {})
    BY <1>2 DEF Remove
  <2> HIDE DEF l
  <2>4. \A n \in S : n \in Handlers /\ Turned(n, l)
    BY <2>1, <2>2, DoneTurn, DoneType, RemoveTurn, RemoveNextType DEF UserOps
  <2> HIDE DEF S
  <2>5. h'[p] \in S /\ Others(p)
    <3>1. S \subseteq Handlers
      BY <2>4
    <3> QED BY <3>1, <2>3, MoveType DEF TypeOK, Others
  <2> QED BY <1>2, <2>2, <2>4, <2>5 DEF Remove, mirrorVars, Turned, Arrives, NextPcs
<1>3. CurType /\ \A u \in Users : cur[u] \in Nat
  BY MaxKeyAssumption DEF TypeOK, CurType
<1>4. \A u \in Users : /\ Current(u) \in Creds /\ Current(u)[1] = u
                       /\ Current(u)[2] = cur[u]
  BY <1>3, CredTypes DEF Current
<1>5. ASSUME NEW op \in UserOps, op # "revokeUser", NEW us \in SUBSET Users,
             Arrives(p, op, {Current(u) : u \in us}), UNCHANGED cur
      PROVE  Arrived(p)
  <2>1. \A c \in {Current(u) : u \in us} : c[2] = cur'[c[1]] /\ c[1] \in Users
    BY <1>4, <1>5
  <2> QED BY <1>5, <2>1 DEF Arrives, Arrived
<1>6. \A u \in Users : {Current(u)} = {Current(v) : v \in {u}}
  OBVIOUS
<1>7. CASE AddUser(p)
  <2>1. PICK u \in Users, want \in SUBSET Tags \ {{}} :
          BeginAdd(p, "addUser", {Current(u)}, want, want) /\ UNCHANGED cur
    BY <1>7 DEF AddUser
  <2>2. Arrives(p, "addUser", {Current(v) : v \in {u}})
    BY <2>1, <1>1, <1>4, <1>6 DEF AddOps
  <2> QED BY <2>1, <2>2, <1>5 DEF UserOps, AddOps
<1>8. CASE RevokeUser(p)
  <2>1. PICK u \in Users, want \in SUBSET Tags \ {{}} :
          /\ cur[u] < MaxKey
          /\ cur' = [cur EXCEPT ![u] = @ + 1]
          /\ BeginAdd(p, "revokeUser", {<<u, cur[u] + 1>>}, want, want)
    BY <1>8 DEF RevokeUser
  <2>2. {<<u, cur[u] + 1>>} \in SUBSET Creds
    BY <1>3, <2>1, CredTypes
  <2>3. \A v \in Users : cur'[v] = IF v = u THEN cur[u] + 1 ELSE cur[v]
    BY <1>3, <2>1 DEF CurType
  <2>4. Arrives(p, "revokeUser", {<<u, cur[u] + 1>>})
    BY <2>1, <2>2, <1>1 DEF AddOps
  <2>5. Owners({<<u, cur[u] + 1>>}) = {u}
    BY DEF Owners, Owner
  <2>6. h'[p].subject = {<<u, cur[u] + 1>>}
    BY <2>4 DEF Arrives
  <2>7. \A c \in h'[p].subject : /\ c[2] = cur'[c[1]] /\ c[1] \in Users
                               /\ c[2] = cur[c[1]] + 1
    BY <2>3, <2>6
  <2>8. \A v \in Users : \/ cur'[v] = cur[v]
                         \/ cur'[v] = cur[v] + 1 /\ v \in Owners(h'[p].subject)
    BY <2>3, <2>5, <2>6
  <2> QED BY <2>4, <2>6, <2>7, <2>8 DEF Arrives, Arrived
<1>9. CASE AddUsers(p)
  <2>1. PICK us \in SUBSET Users \ {{}}, touch \in SUBSET Tags :
          \E want \in SUBSET touch \ {{}} :
            /\ BeginAdd(p, "addUsers", {Current(u) : u \in us}, want, touch)
            /\ UNCHANGED cur
    BY <1>9 DEF AddUsers
  <2>2. PICK want \in SUBSET touch \ {{}} :
            /\ BeginAdd(p, "addUsers", {Current(u) : u \in us}, want, touch)
            /\ UNCHANGED cur
    BY <2>1
  <2>3. {Current(u) : u \in us} \in SUBSET Creds /\ want \in SUBSET Tags
    BY <1>4
  <2>4. Arrives(p, "addUsers", {Current(u) : u \in us})
    BY <2>2, <2>3, <1>1 DEF AddOps
  <2> QED BY <2>2, <2>4, <1>5 DEF UserOps, AddOps
<1>10. CASE RemoveUser(p)
  <2>1. PICK u \in Users : Remove(p, "removeUser", {Current(u)})
    BY <1>10 DEF RemoveUser
  <2>2. {Current(u)} \in SUBSET Creds /\ "removeUser" \in RemoveOps
    BY <1>4 DEF RemoveOps
  <2>3. Arrives(p, "removeUser", {Current(u)}) /\ UNCHANGED cur
    BY <2>1, <2>2, <1>2
  <2>4. Arrives(p, "removeUser", {Current(v) : v \in {u}})
    BY <2>3, <1>6
  <2> QED BY <2>3, <2>4, <1>5 DEF UserOps, RemoveOps
<1>11. CASE RemoveUsers(p)
  <2>1. PICK us \in SUBSET Users \ {{}} :
          Remove(p, "removeUsers", {Current(u) : u \in us})
    BY <1>11 DEF RemoveUsers
  <2>2. {Current(u) : u \in us} \in SUBSET Creds
    BY <1>4
  <2>3. Arrives(p, "removeUsers", {Current(u) : u \in us}) /\ UNCHANGED cur
    BY <2>1, <2>2, <1>2 DEF RemoveOps
  <2> QED BY <2>3, <1>5 DEF UserOps, RemoveOps
<1> QED BY <1>7, <1>8, <1>9, <1>10, <1>11

-----------------------------------------------------------------------------
(* Requests stay what they are and apart.                                  *)

\* Others are of the kind they were.
LEMMA SameKind ==
  ASSUME NEW n, NEW l, Same(n, l)
  PROVE  /\ UserRecord(l) => UserRecord(n)
         /\ StartRecord(l) => StartRecord(n)
         /\ StopRecord(l) => StopRecord(n)
  BY DEF Same, UserRecord, StartRecord, StopRecord

\* A request that goes on.
LEMMA RequestsKept ==
  ASSUME Requests, NEW p \in Procs, Others(p), Active(p),
         h'[p].op = h[p].op, h'[p].subject = h[p].subject, UNCHANGED cur,
         UserRecord(h'[p]) \/ StartRecord(h'[p]) \/ StopRecord(h'[p])
  PROVE  Requests'
<1>1. \A q \in Procs : Active(q)' => Active(q)
  BY DEF Others, Same, Active
<1>2. \A q \in Procs : h'[q].op = h[q].op /\ h'[q].subject = h[q].subject
  BY DEF Others, Same
<1>3. Placed'
  BY <1>1, SameKind DEF Requests, Placed, Others
<1>4. Apart'
  BY <1>1, <1>2 DEF Requests, Apart
<1>5. SubjectLatest'
  BY <1>1, <1>2 DEF Requests, SubjectLatest
<1> QED BY <1>3, <1>4, <1>5 DEF Requests

\* What is being handled when a request about users arrives.
LEMMA BeginsAmong ==
  ASSUME Requests, Orderly, NEW p \in Procs, NEW us, MayBegin(p, us, FALSE)
  PROVE  /\ ~Active(p)
         /\ \A q \in Procs : Active(q) =>
              UserRecord(h[q]) /\ Owners(h[q].subject) \cap us = {}
<1>1. ~Active(p) /\ \A q \in Procs : Active(q) =>
        h[q].op \notin {"start", "stop"} /\ Owners(h[q].subject) \cap us = {}
  BY DEF MayBegin, Orderly, Active
<1> QED BY <1>1 DEF Requests, Placed, StartRecord, StopRecord

\* A request that arrives.
LEMMA RequestsArrive ==
  ASSUME TypeOK, Requests, Orderly, NEW p \in Procs, Arrived(p)
  PROVE  Requests'
<1> DEFINE us == Owners(h'[p].subject)
<1>1. /\ UserRecord(h'[p]) /\ Others(p) /\ MayBegin(p, us, FALSE)
      /\ \A c \in h'[p].subject : c[2] = cur'[c[1]]
      /\ \A u \in Users : cur'[u] = cur[u] \/ u \in us
  BY DEF Arrived
<1>2. \A q \in Procs : Active(q) =>
        UserRecord(h[q]) /\ Owners(h[q].subject) \cap us = {}
  BY <1>1, BeginsAmong
<1>3. \A q \in Procs \ {p} :
        /\ Active(q)' <=> Active(q)
        /\ h'[q].op = h[q].op /\ h'[q].subject = h[q].subject
  BY <1>1 DEF Others, Same, Active
<1>4. \A q \in Procs : Active(q)' => UserRecord(h'[q])
  BY <1>1, <1>2, <1>3, SameKind DEF Others
<1>5. Placed'
  BY <1>4 DEF Placed
<1>6. Apart'
  <2> SUFFICES ASSUME NEW q \in Procs, NEW r \in Procs, q # r, Active(q)', Active(r)'
               PROVE  Owners(h'[q].subject) \cap Owners(h'[r].subject) = {}
    BY <1>4 DEF Apart, UserRecord
  <2>1. CASE q = p
    BY <2>1, <1>2, <1>3
  <2>2. CASE r = p
    BY <2>2, <1>2, <1>3
  <2>3. CASE q # p /\ r # p
    BY <2>3, <1>3 DEF Requests, Apart
  <2> QED BY <2>1, <2>2, <2>3
<1>7. SubjectLatest'
  <2> SUFFICES ASSUME NEW q \in Procs \ {p}, Active(q)', NEW c \in h'[q].subject
               PROVE  c[2] = cur'[c[1]]
    BY <1>1 DEF SubjectLatest
  <2>1. c \in h[q].subject /\ Active(q) /\ c[2] = cur[c[1]]
    BY <1>3 DEF Requests, SubjectLatest
  <2>2. c \in Creds
    BY <2>1 DEF TypeOK, HandlerType, Handlers, Records
  <2>3. c[1] \in Users /\ c[1] \in Owners(h[q].subject)
    BY <2>1, <2>2 DEF Creds, Owners, Owner
  <2> QED BY <1>1, <1>2, <2>1, <2>3
<1> QED BY <1>5, <1>6, <1>7 DEF Requests

\* A request that is alone.
LEMMA RequestsAlone ==
  ASSUME NEW p \in Procs, Others(p), \A q \in Procs \ {p} : ~Active(q),
         StartRecord(h'[p]) \/ StopRecord(h'[p]) \/ ~Active(p)',
         \A c \in h'[p].subject : c[2] = cur'[c[1]]
  PROVE  Requests'
<1>1. \A q \in Procs : Active(q)' => q = p
  BY DEF Others, Same, Active
<1> QED BY <1>1 DEF Requests, Placed, Apart, SubjectLatest

\* A request that ends.
LEMMA RequestsReturn ==
  ASSUME TypeOK, Requests, NEW p \in Procs, Return(p)
  PROVE  Requests' /\ Others(p) /\ h'[p].pc = "idle" /\ h'[p].op = "none"
<1>1. Others(p) /\ h'[p] = Idle /\ UNCHANGED cur
  BY IdleType, GotoType DEF Return, TypeOK, Others
<1>2. h'[p].pc = "idle" /\ h'[p].op = "none"
  BY <1>1 DEF Idle
<1>3. \A q \in Procs : Active(q)' => /\ q # p /\ Active(q) /\ h'[q].op = h[q].op
                                     /\ h'[q].subject = h[q].subject
  BY <1>1, <1>2 DEF Others, Same, Active
<1>4. Placed'
  BY <1>1, <1>3, SameKind DEF Requests, Placed, Others
<1>5. Apart' /\ SubjectLatest'
  BY <1>1, <1>3 DEF Requests, Apart, SubjectLatest
<1> QED BY <1>1, <1>2, <1>4, <1>5 DEF Requests

-----------------------------------------------------------------------------
(* While requests about users are handled there is no start and no stop.   *)

Calm ==
  \A q \in Procs : /\ h[q].pc \in UserPcs \cup {"idle", "done"}
                   /\ h[q].pc = "done" => h[q].reply # "uptodate"

LEMMA UserCalm ==
  ASSUME Requests, NEW p \in Procs, Active(p), UserRecord(h[p])
  PROVE  Calm
<1>1. \A q \in Procs \ {p} : Active(q) => h[q].op \in UserOps
  BY DEF Requests, Apart
<1>2. \A q \in Procs \ {p} : Active(q) => UserRecord(h[q])
  BY <1>1 DEF Requests, Placed, StartRecord, StopRecord, UserOps, AddOps, RemoveOps
<1> QED BY <1>2 DEF Calm, Active, UserRecord

LEMMA ArriveCalm ==
  ASSUME Requests, Orderly, NEW p \in Procs, Arrived(p)
  PROVE  Calm
<1>1. \A q \in Procs : Active(q) => UserRecord(h[q])
  BY BeginsAmong DEF Arrived
<1> QED BY <1>1 DEF Calm, Active, UserRecord

LEMMA CalmKept ==
  ASSUME Calm, NEW p \in Procs, Others(p), UserRecord(h'[p])
  PROVE  Calm'
  BY DEF Calm, Others, Same, UserRecord

\* There is no start to say anything of.
LEMMA CalmRestarts ==
  ASSUME Calm, Restarts
  PROVE  ~(online /\ core = "boot")
  BY DEF Calm, Restarts, Waits, UserPcs, InLoop

LEMMA CalmRestartsNext ==
  ASSUME Calm', ~(online /\ core = "boot")'
  PROVE  Restarts'
  BY DEF Calm, Restarts, Own, Checks, Right, UserPcs, InLoop, Restarting

LEMMA UserRestarts ==
  ASSUME Calm, Restarts, NEW p \in Procs, Others(p), UserRecord(h'[p]),
         UNCHANGED <<online, core>>
  PROVE  Restarts'
<1>1. ~(online /\ core = "boot")'
  BY CalmRestarts
<1> QED BY <1>1, CalmKept, CalmRestartsNext

-----------------------------------------------------------------------------
(* The mirror, as far as requests about users write it.                    *)

\* A request that carries the latest credential, of a user nobody else is about.
LEMMA OwnUser ==
  ASSUME TypeOK, Requests, NEW p \in Procs, h[p].pc \in UserPcs, UserRecord(h[p])
  PROVE  /\ h[p].cr \in Creds /\ h[p].cr[2] = cur[Owner(h[p].cr)]
         /\ Owner(h[p].cr) \in Users
         /\ h[p].cr = <<Owner(h[p].cr), cur[Owner(h[p].cr)]>>
         /\ \A q \in Procs \ {p} : h[q].pc \in UserPcs =>
              Owner(h[q].cr) # Owner(h[p].cr)
<1>1. h[p].cr \in h[p].subject /\ Active(p)
  BY DEF UserRecord, Active, UserPcs, InLoop
<1>2. h[p].cr \in Creds
  BY DEF TypeOK, HandlerType, Handlers, IsSet, UserPcs
<1>3. h[p].cr[2] = cur[Owner(h[p].cr)]
  BY <1>1 DEF Requests, SubjectLatest, Owner
<1>4. ASSUME NEW q \in Procs \ {p}, h[q].pc \in UserPcs
      PROVE  Owner(h[q].cr) # Owner(h[p].cr)
  <2>1. UserRecord(h[q]) /\ Active(q)
    BY <1>4, InUserPcs DEF Requests, Active, UserPcs, InLoop
  <2>2. h[q].cr \in h[q].subject
    BY <1>4, <2>1 DEF UserRecord
  <2>3. Owner(h[q].cr) \in Owners(h[q].subject) /\ Owner(h[p].cr) \in Owners(h[p].subject)
    BY <1>1, <2>2 DEF Owners
  <2> QED BY <1>1, <2>1, <2>3 DEF Requests, Apart
<1>5. Owner(h[p].cr) \in Users /\ h[p].cr = <<Owner(h[p].cr), h[p].cr[2]>>
  BY <1>2 DEF Creds, Owner
<1> QED BY <1>2, <1>3, <1>4, <1>5

LEMMA CalmWanted ==
  ASSUME Calm' PROVE WantedLatest'
  BY DEF Calm, WantedLatest, UserPcs, InLoop, Locked, Restarting

\* A request that arrives.
LEMMA MirrorArrive ==
  ASSUME TypeOK, Requests, Mirror, Orderly, NEW p \in Procs, Arrived(p)
  PROVE  Mirror'
<1>1. /\ UserRecord(h'[p]) /\ Others(p) /\ UNCHANGED <<mapped, mirror>>
      /\ \A u \in Users : cur'[u] = cur[u] \/ cur'[u] = cur[u] + 1
      /\ h'[p].op = "revokeUser" =>
           \A c \in h'[p].subject : c[2] = cur[c[1]] + 1 /\ c[1] \in Users
  BY DEF Arrived
<1>2. WantedLatest'
  BY <1>1, ArriveCalm, CalmKept, CalmWanted
<1>3. \A u \in Users : cur[u] \in Nat
  BY MaxKeyAssumption DEF TypeOK, CurType
<1>4. \A t \in Tags : \A c \in mirror[t] : c[1] \in Users /\ c[2] \in Nat
  BY MaxKeyAssumption DEF TypeOK, MirrorType, Creds
<1>5. MirrorKnown'
  <2> SUFFICES ASSUME NEW t \in Tags, NEW c \in mirror[t] PROVE c[2] <= cur'[c[1]]
    BY <1>1 DEF MirrorKnown
  <2>1. c[2] <= cur[c[1]]
    BY DEF Mirror, MirrorKnown
  <2>2. cur'[c[1]] = cur[c[1]] \/ cur'[c[1]] = cur[c[1]] + 1
    BY <1>1, <1>4
  <2> QED BY <1>3, <1>4, <2>1, <2>2
<1>6. NewUnknown'
  <2> SUFFICES ASSUME NEW q \in Procs, h'[q].op = "revokeUser",
                      h'[q].pc \in {"remove", "removed"}, NEW t \in Tags
               PROVE  h'[q].cr \notin mirror[t]
    BY <1>1 DEF NewUnknown
  <2>1. CASE q = p
    <3>1. h'[p].cr \in h'[p].subject
      BY <1>1, <2>1 DEF UserRecord, UserPcs, InLoop
    <3>2. h'[p].cr[2] = cur[h'[p].cr[1]] + 1 /\ h'[p].cr[1] \in Users
      BY <1>1, <2>1, <3>1
    <3>3. h'[p].cr \in mirror[t] => h'[p].cr[2] <= cur[h'[p].cr[1]]
      BY DEF Mirror, MirrorKnown
    <3> QED BY <1>3, <2>1, <3>2, <3>3
  <2>2. CASE q # p
    BY <1>1, <2>2 DEF Others, Same, Mirror, NewUnknown
  <2> QED BY <2>1, <2>2
<1>7. MirrorMapped'
  BY <1>1 DEF Mirror, MirrorMapped
<1> QED BY <1>2, <1>5, <1>6, <1>7 DEF Mirror

\* A step that leaves the mirror alone, and does not begin to remove.
LEMMA MirrorSame ==
  ASSUME Mirror, Calm', NEW p \in Procs, Others(p), UNCHANGED <<mapped, mirror, cur>>,
         h'[p].op = "revokeUser" /\ h'[p].pc \in {"remove", "removed"} =>
           /\ h[p].op = "revokeUser" /\ h[p].pc \in {"remove", "removed"}
           /\ h'[p].cr = h[p].cr
  PROVE  Mirror'
<1>1. NewUnknown'
  <2> SUFFICES ASSUME NEW q \in Procs, h'[q].op = "revokeUser",
                      h'[q].pc \in {"remove", "removed"}, NEW t \in Tags
               PROVE  h'[q].cr \notin mirror[t]
    BY DEF NewUnknown
  <2>1. /\ h[q].op = "revokeUser" /\ h[q].pc \in {"remove", "removed"}
        /\ h'[q].cr = h[q].cr
    BY DEF Others, Same
  <2> QED BY <2>1 DEF Mirror, NewUnknown
<1>2. MirrorKnown' /\ MirrorMapped'
  BY DEF Mirror, MirrorKnown, MirrorMapped
<1> QED BY <1>1, <1>2, CalmWanted DEF Mirror

\* The mirror after a removal.
LEMMA MirrorRemove ==
  ASSUME TypeOK, Requests, Mirror, Calm', NEW p \in Procs, AfterRemove(p)
  PROVE  Mirror'
<1>1. /\ UserRecord(h[p]) /\ Turned(h'[p], h[p]) /\ Others(p) /\ h[p].pc = "removed"
      /\ UNCHANGED cur
  BY LoopSteps DEF Requests, AfterRemove
<1> DEFINE t == h[p].tag
           rest == mirror[t] \ {Outdated(h[p])}
<1>2. /\ t \in Tags /\ mirror' = [mirror EXCEPT ![t] = rest]
      /\ mapped' = mapped \/ (rest = {} /\ mapped' = mapped \ {t})
  BY <1>1 DEF AfterRemove, TypeOK, HandlerType, Handlers, IsSet, InLoop
<1>3. \A s \in Tags : mirror'[s] = IF s = t THEN rest ELSE mirror[s]
  BY <1>2 DEF TypeOK, MirrorType
<1>4. \A s \in Tags : mirror'[s] \subseteq mirror[s]
  BY <1>3
<1>5. NewUnknown'
  <2> SUFFICES ASSUME NEW q \in Procs, h'[q].op = "revokeUser",
                      h'[q].pc \in {"remove", "removed"}, NEW s \in Tags
               PROVE  h'[q].cr \notin mirror'[s]
    BY DEF NewUnknown
  <2>1. /\ h[q].op = "revokeUser" /\ h[q].pc \in {"remove", "removed"}
        /\ h'[q].cr = h[q].cr
    BY <1>1 DEF Others, Same, Turned, NextPcs
  <2> QED BY <1>4, <2>1 DEF Mirror, NewUnknown
<1>6. MirrorKnown'
  BY <1>1, <1>4 DEF Mirror, MirrorKnown
<1>7. MirrorMapped'
  <2> SUFFICES ASSUME NEW s \in Tags, s \notin mapped' PROVE mirror'[s] = {}
    BY DEF MirrorMapped
  <2>1. CASE s \notin mapped
    BY <1>4, <2>1 DEF Mirror, MirrorMapped
  <2>2. CASE s \in mapped
    BY <1>2, <1>3, <2>2
  <2> QED BY <2>1, <2>2
<1> QED BY <1>5, <1>6, <1>7, CalmWanted DEF Mirror

\* The mirror after an addition.
LEMMA MirrorAdd ==
  ASSUME TypeOK, Requests, Mirror, Calm', NEW p \in Procs, AfterAdd(p)
  PROVE  Mirror'
<1>1. /\ UserRecord(h[p]) /\ Turned(h'[p], h[p]) /\ Others(p)
      /\ h[p].pc \in {"added", "refused"} /\ UNCHANGED cur
      /\ ~(h'[p].op = "revokeUser" /\ h'[p].pc \in {"remove", "removed"})
  BY LoopSteps DEF Requests, AfterAdd, Turned, NextPcs
<1>2. CASE h[p].pc = "refused"
  <2>1. UNCHANGED <<mapped, mirror>>
    BY <1>2 DEF AfterAdd
  <2> QED BY <1>1, <2>1, MirrorSame
<1>3. CASE h[p].pc = "added"
  <2> DEFINE t == h[p].tag
  <2>1. /\ t \in Tags /\ mirror' = [mirror EXCEPT ![t] = @ \cup {h[p].cr}]
        /\ mapped' = mapped \cup {t}
    BY <1>3 DEF AfterAdd, TypeOK, HandlerType, Handlers, IsSet, InLoop
  <2>2. \A s \in Tags : mirror'[s] = IF s = t THEN mirror[s] \cup {h[p].cr}
                                              ELSE mirror[s]
    BY <2>1 DEF TypeOK, MirrorType
  <2>3. /\ h[p].cr \in Creds /\ h[p].cr[2] = cur[Owner(h[p].cr)]
        /\ \A q \in Procs \ {p} : h[q].pc \in UserPcs =>
              Owner(h[q].cr) # Owner(h[p].cr)
        /\ Owner(h[p].cr) \in Users
    BY <1>1, <1>3, OwnUser DEF UserPcs, InLoop
  <2>4. MirrorKnown'
    <3>1. cur[Owner(h[p].cr)] \in Nat
      BY <2>3, MaxKeyAssumption DEF TypeOK, CurType
    <3>2. h[p].cr[2] <= cur[h[p].cr[1]]
      BY <2>3, <3>1 DEF Owner
    <3>3. \A s \in Tags : \A c \in mirror[s] : c[2] <= cur[c[1]]
      BY DEF Mirror, MirrorKnown
    <3>4. \A s \in Tags : \A c \in mirror'[s] : c \in mirror[s] \/ c = h[p].cr
      BY <2>2
    <3> QED BY <1>1, <3>2, <3>3, <3>4 DEF MirrorKnown
  <2>5. NewUnknown'
    <3> SUFFICES ASSUME NEW q \in Procs, h'[q].op = "revokeUser",
                        h'[q].pc \in {"remove", "removed"}, NEW s \in Tags
                 PROVE  h'[q].cr \notin mirror'[s]
      BY DEF NewUnknown
    <3>1. /\ q # p /\ h[q].op = "revokeUser" /\ h[q].pc \in {"remove", "removed"}
          /\ h'[q].cr = h[q].cr
      BY <1>1 DEF Others, Same
    <3>2. h[q].cr # h[p].cr
      BY <2>3, <3>1 DEF UserPcs, InLoop
    <3> QED BY <2>2, <3>1, <3>2 DEF Mirror, NewUnknown
  <2>6. MirrorMapped'
    BY <2>1, <2>2 DEF Mirror, MirrorMapped
  <2> QED BY <2>4, <2>5, <2>6, CalmWanted DEF Mirror
<1> QED BY <1>1, <1>2, <1>3

-----------------------------------------------------------------------------
(* The mirror and the core, as requests about users change them.           *)

\* What a user may do does not depend on the credentials of others.
LEMMA AgreeKept ==
  ASSUME NEW u, NEW t, Agree(u, t), Of(table'[t], u) = Of(table[t], u),
         Of(mirror'[t], u) = Of(mirror[t], u),
         cur'[u] = cur[u] \/ <<u, cur'[u]>> \notin mirror'[t]
  PROVE  Agree(u, t)'
<1>1. Of(table'[t], u) \subseteq mirror'[t]
  <2> SUFFICES ASSUME NEW c \in Of(table'[t], u) PROVE c \in mirror'[t]
    OBVIOUS
  <2>1. c \in Of(table[t], u) /\ Owner(c) = u
    BY DEF Of
  <2>2. c \in Of(mirror[t], u)
    BY <2>1 DEF Agree, Of
  <2> QED BY <2>2 DEF Of
<1>2. <<u, cur'[u]>> \in mirror'[t] => <<u, cur'[u]>> \in table'[t]
  <2> SUFFICES ASSUME <<u, cur'[u]>> \in mirror'[t]
               PROVE  <<u, cur'[u]>> \in table'[t]
    OBVIOUS
  <2>1. Owner(<<u, cur[u]>>) = u /\ cur'[u] = cur[u]
    BY DEF Owner
  <2>2. <<u, cur[u]>> \in Of(mirror[t], u)
    BY <2>1 DEF Of
  <2>3. <<u, cur[u]>> \in Of(table[t], u)
    BY <2>1, <2>2 DEF Agree, Of
  <2> QED BY <2>1, <2>3 DEF Of
<1> QED BY <1>1, <1>2 DEF Agree

\* What a step of p must show: that the core is the same, that its own window,
\* if it opens one, is true, and that user and inbound agree where it closes
\* one; and that it touches nobody else.
Careful(p) ==
  /\ UNCHANGED <<online, core, coreBase, served, config>>
  /\ Compared => mapped' \subseteq served
  /\ Compared => WindowTrue(p)'
  /\ \A u \in Users, t \in Tags :
       \/ /\ Of(table'[t], u) = Of(table[t], u) /\ Of(mirror'[t], u) = Of(mirror[t], u)
          /\ cur'[u] = cur[u] \/ <<u, cur'[u]>> \notin mirror'[t]
          /\ ~Window(p, u, t)
       \/ Window(p, u, t)' \/ (Compared => Agree(u, t)')
  /\ \A q \in Procs \ {p} : h[q].pc \in {"removed", "added"} =>
       Of(table'[h[q].tag], Owner(h[q].cr)) = Of(table[h[q].tag], Owner(h[q].cr))

LEMMA CarefulSync ==
  ASSUME InSync, Calm, NEW p \in Procs, Others(p), Careful(p)
  PROVE  InSync'
<1> SUFFICES ASSUME Compared' PROVE (SameCore /\
         (\A u \in Users, t \in Tags :
            (\A q \in Procs : ~Window(q, u, t)) => Agree(u, t)) /\
         \A q \in Procs : WindowTrue(q))'
  BY DEF InSync
<1>1. Compared
  BY DEF Compared, Careful, Calm, UserPcs, InLoop
<1>2. /\ SameCore
      /\ \A u \in Users, t \in Tags :
           (\A q \in Procs : ~Window(q, u, t)) => Agree(u, t)
      /\ \A q \in Procs : WindowTrue(q)
  BY <1>1 DEF InSync
<1>3. SameCore'
  BY <1>1, <1>2 DEF SameCore, Careful
<1>4. ASSUME NEW u \in Users, NEW t \in Tags, \A q \in Procs : ~Window(q, u, t)'
      PROVE  Agree(u, t)'
  <2>1. \A q \in Procs \ {p} : ~Window(q, u, t)
    BY <1>4 DEF Window, Others, Same
  <2>2. CASE Of(table'[t], u) = Of(table[t], u) /\ Of(mirror'[t], u) = Of(mirror[t], u)
             /\ (cur'[u] = cur[u] \/ <<u, cur'[u]>> \notin mirror'[t])
             /\ ~Window(p, u, t)
    <3>1. Agree(u, t)
      BY <1>2, <2>1, <2>2
    <3> QED BY <2>2, <3>1, AgreeKept
  <2> QED BY <1>1, <1>4, <2>2 DEF Careful
<1>5. ASSUME NEW q \in Procs PROVE WindowTrue(q)'
  <2>1. CASE q = p
    BY <1>1, <2>1 DEF Careful
  <2>2. CASE q # p
    <3>1. Same(h'[q], h[q]) /\ WindowTrue(q) /\ served' = served
      BY <1>2, <2>2 DEF Others, Careful
    <3>2. h[q].pc \in {"removed", "added"} =>
            Of(table'[h[q].tag], Owner(h[q].cr)) = Of(table[h[q].tag], Owner(h[q].cr))
      BY <2>2 DEF Careful
    <3> QED BY <3>1, <3>2 DEF WindowTrue, Same
  <2> QED BY <2>1, <2>2
<1> QED BY <1>3, <1>4, <1>5

\* A request that arrives.
LEMMA SyncArrive ==
  ASSUME TypeOK, Requests, Mirror, InSync, Orderly, NEW p \in Procs, Arrived(p)
  PROVE  InSync'
<1>1. /\ Others(p) /\ h'[p].pc \in NextPcs
      /\ \A u \in Users : cur'[u] = cur[u] \/ cur'[u] = cur[u] + 1
      /\ UNCHANGED <<agentVars, config, mapped, mirror, coreVars>>
  BY DEF Arrived
<1>2. h[p].pc = "idle" /\ Calm
  BY ArriveCalm DEF Arrived, MayBegin
<1>3. ASSUME NEW u \in Users, NEW t \in Tags
      PROVE  cur'[u] = cur[u] \/ <<u, cur'[u]>> \notin mirror[t]
  <2>1. cur[u] \in Nat
    BY MaxKeyAssumption DEF TypeOK, CurType
  <2>2. <<u, cur[u] + 1>> \in mirror[t] => cur[u] + 1 <= cur[u]
    BY DEF Mirror, MirrorKnown
  <2> QED BY <1>1, <2>1, <2>2
<1>4. Careful(p)
  <2>1. UNCHANGED <<online, core, coreBase, served, config, mapped, mirror, table>>
    BY <1>1 DEF agentVars, coreVars
  <2>2. Compared => mapped' \subseteq served
    BY <2>1 DEF InSync, SameCore
  <2>3. WindowTrue(p)' /\ \A u, t : ~Window(p, u, t)
    BY <1>1, <1>2 DEF WindowTrue, Window, NextPcs
  <2> QED BY <1>3, <2>1, <2>2, <2>3 DEF Careful
<1> QED BY <1>1, <1>2, <1>4, CarefulSync

\* The core's answers.
LEMMA SyncCore ==
  ASSUME TypeOK, Requests, InSync, Calm, Orderly, NEW p \in Procs,
         CoreRemoves(p) \/ CoreAdds(p)
  PROVE  InSync'
<1> DEFINE o == Owner(h[p].cr)
           g == h[p].tag
<1>1. /\ UserRecord(h[p]) /\ Keeps(h'[p], h[p]) /\ Others(p)
      /\ CoreRemoves(p) => h[p].pc = "remove" /\ h'[p].pc = "removed"
      /\ CoreAdds(p) => h[p].pc = "add" /\ h'[p].pc \in {"added", "refused"}
  BY CoreSteps DEF Requests
<1>2. h[p].pc \in {"remove", "add"} /\ h[p].pc \in UserPcs /\ g \in Tags
  BY <1>1 DEF UserPcs, InLoop, TypeOK, HandlerType, Handlers, IsSet
<1>3. /\ o \in Users /\ Owner(h[p].cr) = o
      /\ \A q \in Procs \ {p} : h[q].pc \in UserPcs => Owner(h[q].cr) # o
  BY <1>1, <1>2, OwnUser
<1>4. /\ UNCHANGED <<online, core, coreBase, served, config, mapped, mirror, cur>>
      /\ "xtls" \notin Faults
  BY DEF CoreRemoves, CoreAdds, agentVars, mirrorVars, Orderly
<1>5. \A u, t : ~Window(p, u, t)
  BY <1>2 DEF Window
<1>6. \A u, t : Window(p, u, t)' <=> h'[p].pc \in {"removed", "added"} /\ o = u /\ g = t
  BY <1>1 DEF Window, Keeps
<1>7. Compared => mapped' \subseteq served
  BY <1>4 DEF InSync, SameCore
<1>8. \A t \in Tags : table[t] \in SUBSET Creds
  BY DEF TypeOK, CoreType
<1>9. CASE UNCHANGED table /\ (Compared => WindowTrue(p)')
  BY <1>1, <1>4, <1>5, <1>7, <1>9, CarefulSync DEF Careful
<1>10. ASSUME NEW new, table' = [table EXCEPT ![g] = new],
              \A u : u # o => Of(new, u) = Of(table[g], u),
              Compared => WindowTrue(p)',
              h'[p].pc \in {"removed", "added"}
       PROVE  InSync'
  <2>1. \A t \in Tags : table'[t] = IF t = g THEN new ELSE table[t]
    BY <1>10 DEF TypeOK, CoreType
  <2>2. \A u \in Users, t \in Tags :
          (u # o \/ t # g) => Of(table'[t], u) = Of(table[t], u)
    BY <1>10, <2>1
  <2>3. \A q \in Procs \ {p} : h[q].pc \in {"removed", "added"} =>
          Of(table'[h[q].tag], Owner(h[q].cr)) = Of(table[h[q].tag], Owner(h[q].cr))
    <3> SUFFICES ASSUME NEW q \in Procs \ {p}, h[q].pc \in {"removed", "added"}
                 PROVE  /\ h[q].tag \in Tags /\ Owner(h[q].cr) \in Users
                        /\ Owner(h[q].cr) # o
      BY <2>2
    <3>1. h[q].tag \in Tags /\ h[q].cr \in Creds /\ h[q].pc \in UserPcs
      BY DEF TypeOK, HandlerType, Handlers, IsSet, UserPcs, InLoop
    <3> QED BY <1>3, <3>1 DEF Creds, Owner
  <2>4. \A u \in Users, t \in Tags :
          Of(table'[t], u) = Of(table[t], u) \/ Window(p, u, t)'
    BY <1>6, <1>10, <2>2
  <2>5. Careful(p)
    BY <1>4, <1>5, <1>7, <1>10, <2>3, <2>4 DEF Careful
  <2> QED BY <1>1, <2>5, CarefulSync
<1>11. CASE CoreRemoves(p)
  <2>1. CASE table' = [table EXCEPT ![g] = {c \in @ : Owner(c) # o}]
    <3> DEFINE new == {c \in table[g] : Owner(c) # o}
    <3>1. \A u : u # o => Of(new, u) = Of(table[g], u)
      BY DEF Of
    <3>2. table'[g] = new
      BY <1>2, <2>1 DEF TypeOK, CoreType
    <3>3. Of(table'[g], o) = {}
      BY <3>2 DEF Of
    <3>4. WindowTrue(p)'
      BY <1>1, <1>11, <3>3 DEF WindowTrue, Keeps
    <3> QED BY <1>1, <1>10, <1>11, <2>1, <3>1, <3>4
  <2>2. CASE core # "up" /\ UNCHANGED table
    BY <1>9, <2>2 DEF Compared
  <2> QED BY <1>4, <1>11, <2>1, <2>2 DEF CoreRemoves
<1>12. CASE CoreAdds(p)
  <2>1. CASE h'[p].pc = "added"
    <3> DEFINE new == table[g] \cup {h[p].cr}
    <3>1. /\ g \in served /\ \A c \in table[g] : Owner(c) # o
          /\ table' = [table EXCEPT ![g] = new]
      BY <1>12, <2>1, CoreSteps DEF Requests
    <3>2. \A u : u # o => Of(new, u) = Of(table[g], u)
      BY DEF Of
    <3>3. table'[g] = new
      BY <1>2, <3>1 DEF TypeOK, CoreType
    <3>4. Of(table'[g], o) = {h[p].cr}
      BY <3>1, <3>3 DEF Of
    <3>5. WindowTrue(p)'
      BY <1>1, <1>4, <2>1, <3>1, <3>4 DEF WindowTrue, Keeps
    <3> QED BY <1>10, <2>1, <3>1, <3>2, <3>5
  <2>2. CASE h'[p].pc = "refused"
    <3>1. UNCHANGED table
      BY <1>12, <2>2, CoreSteps DEF Requests
    <3> QED BY <1>9, <2>2, <3>1 DEF WindowTrue
  <2> QED BY <1>1, <1>12, <2>1, <2>2
<1> QED BY <1>11, <1>12

\* A handler that moves and does nothing else.
LEMMA SyncSame ==
  ASSUME InSync, NEW p \in Procs, Others(p),
         UNCHANGED <<online, config, mapped, mirror, coreVars, cur>>,
         h[p].pc \notin {"down", "removed", "added"},
         h'[p].pc \notin {"removed", "added"}
  PROVE  InSync'
<1>1. \A q \in Procs : /\ h'[q].pc \in {"removed", "added"} <=> h[q].pc \in {"removed", "added"}
                       /\ h[q].pc \in {"removed", "added"} => Same(h'[q], h[q])
                       /\ h[q].pc = "down" => h'[q].pc = "down"
  BY DEF Others, Same
<1>2. Compared' => Compared
  BY <1>1 DEF Compared, coreVars
<1>3. SameCore => SameCore'
  BY DEF SameCore, coreVars
<1>4. \A q \in Procs : WindowTrue(q) => WindowTrue(q)'
  BY <1>1 DEF WindowTrue, Same, coreVars
<1>5. \A u, t : \A q \in Procs : Window(q, u, t) => Window(q, u, t)'
  BY <1>1 DEF Window, Same
<1>6. \A u, t : Agree(u, t) => Agree(u, t)'
  BY DEF Agree, coreVars
<1> QED BY <1>2, <1>3, <1>4, <1>5, <1>6 DEF InSync

\* The turns of the loops: mirror and core agree again.
LEMMA SyncLoop ==
  ASSUME TypeOK, Requests, Mirror, InSync, Calm, NEW p \in Procs,
         AfterIps(p) \/ AfterRemove(p) \/ AfterAdd(p)
  PROVE  InSync'
<1> DEFINE o == Owner(h[p].cr)
           g == h[p].tag
<1>1. /\ UserRecord(h[p]) /\ Turned(h'[p], h[p]) /\ Others(p)
      /\ h'[p].pc \notin {"removed", "added"}
  BY LoopSteps DEF Requests, Turned, NextPcs
<1>2. UNCHANGED <<online, config, core, coreBase, table, served, cur>>
  BY DEF AfterIps, AfterRemove, AfterAdd, agentVars, mirrorVars, coreVars
<1>3. CASE UNCHANGED <<mapped, mirror>> /\ h[p].pc \in {"ips", "refused"}
  BY <1>1, <1>2, <1>3, SyncSame DEF coreVars
<1>4. ASSUME h[p].pc \in {"removed", "added"},
             NEW new, mirror' = [mirror EXCEPT ![g] = new],
             \A u : u # o => Of(new, u) = Of(mirror[g], u),
             Compared => /\ mapped' \subseteq served
                         /\ Of(table'[g], o) \subseteq mirror'[g]
                         /\ <<o, cur'[o]>> \in mirror'[g] => <<o, cur'[o]>> \in table'[g]
      PROVE  InSync'
  <2>1. g \in Tags /\ h[p].pc \in UserPcs
    BY <1>4 DEF TypeOK, HandlerType, Handlers, IsSet, UserPcs, InLoop
  <2>2. \A t \in Tags : mirror'[t] = IF t = g THEN new ELSE mirror[t]
    BY <1>4 DEF TypeOK, MirrorType
  <2>3. \A u \in Users, t \in Tags :
          (u # o \/ t # g) => Of(mirror'[t], u) = Of(mirror[t], u)
    BY <1>4, <2>2
  <2>4. \A u, t : Window(p, u, t) <=> (u = o /\ t = g)
    BY <1>4 DEF Window
  <2>5. WindowTrue(p)'
    BY <1>1 DEF WindowTrue
  <2>6. ASSUME NEW u \in Users, NEW t \in Tags, u = o /\ t = g, Compared
        PROVE  Agree(u, t)'
    BY <1>4, <2>6 DEF Agree
  <2>7. \A u \in Users, t \in Tags :
          \/ /\ Of(table'[t], u) = Of(table[t], u) /\ Of(mirror'[t], u) = Of(mirror[t], u)
             /\ cur'[u] = cur[u] /\ ~Window(p, u, t)
          \/ Compared => Agree(u, t)'
    BY <1>2, <2>3, <2>4, <2>6
  <2>8. \A q \in Procs \ {p} : h[q].pc \in {"removed", "added"} =>
          Of(table'[h[q].tag], Owner(h[q].cr)) = Of(table[h[q].tag], Owner(h[q].cr))
    BY <1>2
  <2>9. Careful(p)
    BY <1>2, <1>4, <2>5, <2>7, <2>8, Zenon DEF Careful
  <2> QED BY <1>1, <2>9, CarefulSync
<1>5. h[p].pc \in {"removed", "added"} =>
        /\ g \in Tags /\ o \in Users /\ h[p].cr = <<o, cur[o]>> /\ Owner(h[p].cr) = o
        /\ Compared => WindowTrue(p) /\ mapped \subseteq served
  <2> SUFFICES ASSUME h[p].pc \in {"removed", "added"}
               PROVE  /\ g \in Tags /\ o \in Users /\ h[p].cr = <<o, cur[o]>>
                      /\ Compared => WindowTrue(p) /\ mapped \subseteq served
    OBVIOUS
  <2>1. g \in Tags /\ h[p].pc \in UserPcs
    BY DEF TypeOK, HandlerType, Handlers, IsSet, UserPcs, InLoop
  <2>2. o \in Users /\ h[p].cr = <<o, cur[o]>>
    BY <1>1, <2>1, OwnUser
  <2> QED BY <2>1, <2>2 DEF InSync, SameCore
<1>6. CASE AfterRemove(p)
  <2> DEFINE new == mirror[g] \ {Outdated(h[p])}
  <2>1. /\ h[p].pc = "removed" /\ mirror' = [mirror EXCEPT ![g] = new]
        /\ mapped' \subseteq mapped
    BY <1>6 DEF AfterRemove
  <2>2. Owner(Outdated(h[p])) = o
    BY DEF Outdated, Owner
  <2>3. \A u : u # o => Of(new, u) = Of(mirror[g], u)
    BY <2>2 DEF Of
  <2>4. mirror'[g] = new
    BY <1>5, <2>1 DEF TypeOK, MirrorType
  <2>5. h[p].cr \notin new
    <3>1. CASE h[p].op = "revokeUser"
      BY <1>5, <2>1, <3>1 DEF Mirror, NewUnknown
    <3>2. CASE h[p].op # "revokeUser"
      BY <3>2 DEF Outdated
    <3> QED BY <3>1, <3>2
  <2>6. Compared => /\ Of(table'[g], o) \subseteq mirror'[g]
                    /\ <<o, cur'[o]>> \notin mirror'[g]
    <3> SUFFICES ASSUME Compared
                 PROVE  Of(table'[g], o) = {} /\ <<o, cur'[o]>> \notin mirror'[g]
      OBVIOUS
    <3>1. Of(table'[g], o) = {}
      BY <1>2, <1>5, <2>1 DEF WindowTrue
    <3>2. <<o, cur'[o]>> \notin mirror'[g]
      BY <1>2, <1>5, <2>1, <2>4, <2>5
    <3> QED BY <3>1, <3>2
  <2>7. Compared => mapped' \subseteq served
    BY <1>5, <2>1
  <2> HIDE DEF new
  <2> QED BY <1>4, <2>1, <2>3, <2>6, <2>7
<1>7. CASE AfterAdd(p) /\ h[p].pc = "added"
  <2> DEFINE new == mirror[g] \cup {h[p].cr}
  <2>1. /\ h[p].pc = "added" /\ mirror' = [mirror EXCEPT ![g] = new]
        /\ mapped' = mapped \cup {g}
    BY <1>7 DEF AfterAdd
  <2>3. \A u : u # o => Of(new, u) = Of(mirror[g], u)
    BY DEF Of
  <2>4. mirror'[g] = new
    BY <1>5, <2>1 DEF TypeOK, MirrorType
  <2>6. Compared => /\ Of(table'[g], o) \subseteq mirror'[g]
                    /\ <<o, cur'[o]>> \in table'[g] /\ g \in served
    <3> SUFFICES ASSUME Compared
                 PROVE  /\ Of(table'[g], o) \subseteq mirror'[g]
                        /\ <<o, cur'[o]>> \in table'[g] /\ g \in served
      OBVIOUS
    <3>1. Of(table'[g], o) = {h[p].cr} /\ g \in served
      BY <1>2, <1>5, <2>1 DEF WindowTrue
    <3>2. h[p].cr \in mirror'[g] /\ h[p].cr \in table'[g]
      BY <2>4, <3>1 DEF Of
    <3>3. <<o, cur'[o]>> \in table'[g]
      BY <1>2, <1>5, <2>1, <3>2
    <3> QED BY <3>1, <3>2, <3>3
  <2>7. Compared => mapped' \subseteq served
    BY <1>5, <2>1, <2>6
  <2> HIDE DEF new
  <2> QED BY <1>4, <2>1, <2>3, <2>6, <2>7
<1>8. CASE AfterIps(p)
  BY <1>3, <1>8 DEF AfterIps, mirrorVars
<1>9. CASE AfterAdd(p) /\ h[p].pc # "added"
  BY <1>3, <1>9 DEF AfterAdd
<1> QED BY <1>6, <1>7, <1>8, <1>9

-----------------------------------------------------------------------------
(* Every step of a request about users keeps the invariant.                *)

LEMMA UserHonesty ==
  ASSUME TypeOK, Honesty, Orderly, NEW p \in Procs,
         \/ AfterIps(p) \/ AfterRemove(p) \/ AfterAdd(p)
         \/ CoreRemoves(p) \/ CoreAdds(p)
  PROVE  Honesty'
<1> USE DEF Honesty
<1>1. /\ UserRecord(h[p]) /\ UserRecord(h'[p]) /\ Others(p)
      /\ h'[p].op = h[p].op /\ h'[p].subject = h[p].subject
  BY LoopSteps, CoreSteps DEF Requests, Turned, Keeps
<1>2. UNCHANGED <<online, core, cur>> /\ Active(p)
  BY DEF AfterIps, AfterRemove, AfterAdd, CoreRemoves, CoreAdds, Active, agentVars,
         coreVars
<1>3. Requests'
  BY <1>1, <1>2, RequestsKept
<1>4. Calm /\ Calm'
  BY <1>1, <1>2, UserCalm, CalmKept
<1>5. Restarts'
  BY <1>1, <1>2, <1>4, UserRestarts
<1>6. CASE AfterIps(p) \/ AfterRemove(p) \/ AfterAdd(p)
  <2>1. InSync'
    BY <1>4, <1>6, SyncLoop
  <2>2. AfterIps(p) => Mirror'
    <3> SUFFICES ASSUME AfterIps(p) PROVE Mirror'
      OBVIOUS
    <3>1. /\ UNCHANGED <<mapped, mirror, cur>> /\ h[p].pc = "ips"
      BY DEF AfterIps, mirrorVars
    <3>2. h'[p].op # "revokeUser"
      BY <1>1, <3>1 DEF UserRecord, RemoveOps
    <3> QED BY <1>1, <1>4, <3>1, <3>2, MirrorSame
  <2>3. Mirror'
    BY <1>4, <1>6, <2>2, MirrorRemove, MirrorAdd
  <2> QED BY <1>3, <1>5, <2>1, <2>3
<1>7. CASE CoreRemoves(p) \/ CoreAdds(p)
  <2>1. InSync'
    BY <1>4, <1>7, SyncCore
  <2>2. /\ UNCHANGED <<mapped, mirror, cur>> /\ Keeps(h'[p], h[p])
        /\ \/ h'[p].pc = "removed" /\ h[p].pc = "remove"
           \/ h'[p].pc \in {"added", "refused"}
    BY <1>7, CoreSteps DEF CoreRemoves, CoreAdds, mirrorVars, Requests
  <2>3. Mirror'
    BY <1>1, <1>4, <2>2, MirrorSame DEF Keeps
  <2> QED BY <1>3, <1>5, <2>1, <2>3
<1> QED BY <1>6, <1>7

LEMMA ArriveHonesty ==
  ASSUME TypeOK, Honesty, Orderly, NEW p \in Procs,
         \/ AddUser(p) \/ RevokeUser(p) \/ AddUsers(p)
         \/ RemoveUser(p) \/ RemoveUsers(p)
  PROVE  Honesty'
<1> USE DEF Honesty
<1>1. Arrived(p)
  BY BeginSteps
<1>2. Calm /\ UserRecord(h'[p]) /\ Others(p) /\ UNCHANGED <<online, core>>
  BY <1>1, ArriveCalm DEF Arrived, agentVars, coreVars
<1>3. Restarts'
  BY <1>2, UserRestarts
<1> QED BY <1>1, <1>3, RequestsArrive, MirrorArrive, SyncArrive
-----------------------------------------------------------------------------
(* Starts and stops, which are alone.                                      *)

Lone(p) == \A q \in Procs \ {p} : ~Active(q)

\* p goes on with its start or stop, at x.
Onward(p, x) ==
  /\ h'[p].pc = x /\ h'[p].op = h[p].op /\ h'[p].subject = h[p].subject
  /\ h'[p].cfg = h[p].cfg /\ Others(p)

\* Restarts and InSync, when there is no other request.
Alone(p) ==
  /\ Lone(p) /\ h[p].pc \notin {"removed", "added"}
  /\ Own(p) /\ Checks(p) /\ Right(p)
  /\ online /\ core = "boot" => Waits(p)
  /\ online /\ core = "up" /\ h[p].pc # "down" =>
       SameCore /\ \A u \in Users, t \in Tags : Agree(u, t)

LEMMA AloneFrom ==
  ASSUME Restarts, InSync, NEW p \in Procs, Lone(p),
         h[p].pc \notin {"removed", "added"}
  PROVE  Alone(p)
<1>1. \A q \in Procs \ {p} : h[q].pc = "idle"
  BY DEF Lone, Active
<1>2. online /\ core = "boot" => Waits(p)
  BY <1>1 DEF Restarts, Waits
<1>3. \A q \in Procs : h[q].pc \notin {"removed", "added"}
  BY <1>1
<1>4. h[p].pc # "down" => \A q \in Procs : h[q].pc # "down"
  BY <1>1
<1> QED BY <1>2, <1>3, <1>4 DEF Alone, Restarts, InSync, Window, Compared

LEMMA AloneNext ==
  ASSUME NEW p \in Procs, Alone(p)'
  PROVE  Restarts' /\ InSync'
<1>1. \A q \in Procs \ {p} : h'[q].pc = "idle"
  BY DEF Alone, Lone, Active
<1>2. Restarts'
  BY <1>1 DEF Alone, Restarts, Own, Checks, Right, Restarting
<1>3. \A q \in Procs : h'[q].pc \notin {"removed", "added"}
  BY <1>1 DEF Alone
<1>4. InSync'
  BY <1>3 DEF Alone, InSync, Compared, WindowTrue
<1> QED BY <1>2, <1>4

LEMMA LoneStart ==
  ASSUME Requests, NEW p \in Procs, h[p].pc \in Locked \cup {"iface"}
  PROVE  StartRecord(h[p]) /\ Lone(p) /\ Active(p)
<1>1. Active(p) /\ h[p].pc \notin UserPcs \cup {"done"}
      /\ h[p].pc \notin {"plugin", "kill", "killed", "done"}
  BY DEF Active, Locked, Restarting, UserPcs, InLoop
<1>2. StartRecord(h[p])
  BY <1>1 DEF Requests, Placed, UserRecord, StopRecord
<1>3. h[p].op \notin UserOps
  BY <1>2 DEF StartRecord, UserOps, AddOps, RemoveOps
<1> QED BY <1>1, <1>2, <1>3 DEF Requests, Apart, Lone

LEMMA LoneStop ==
  ASSUME Requests, NEW p \in Procs, h[p].pc \in {"plugin", "kill", "killed"}
  PROVE  StopRecord(h[p]) /\ Lone(p) /\ Active(p)
<1>1. Active(p) /\ h[p].pc \notin UserPcs \cup {"done"}
      /\ h[p].pc \notin Locked \cup {"iface", "done"}
  BY DEF Active, Locked, Restarting, UserPcs, InLoop
<1>2. StopRecord(h[p])
  BY <1>1 DEF Requests, Placed, UserRecord, StartRecord
<1>3. h[p].op \notin UserOps
  BY <1>2 DEF StopRecord, UserOps, AddOps, RemoveOps
<1> QED BY <1>1, <1>2, <1>3 DEF Requests, Apart, Lone

\* The moves of starts and stops.
LEMMA PcOnward ==
  ASSUME HandlerType, NEW p \in Procs, NEW x, Goto(p, [h[p] EXCEPT !.pc = x])
  PROVE  Onward(p, x) /\ h'[p].reply = h[p].reply
  BY PcKeeps DEF Onward, Keeps

LEMMA DoneOnward ==
  ASSUME HandlerType, NEW p \in Procs,
         NEW r \in {"none", "ok", "fail", "busy", "uptodate", "started"},
         Goto(p, Done(h[p], r))
  PROVE  Onward(p, "done") /\ h'[p].reply = r
<1>1. /\ Done(h[p], r) \in Handlers /\ Continues(Done(h[p], r), h[p])
      /\ Done(h[p], r).pc = "done" /\ Done(h[p], r).reply = r
  BY DoneType DEF HandlerType
<1> QED BY <1>1, GotoType DEF Onward, Continues, Others

LEMMA ExtractOnward ==
  ASSUME HandlerType, NEW p \in Procs, h[p].pc \in {"iface", "healthy", "unhealthy"},
         Extract(p)
  PROVE  /\ Onward(p, "down")
         /\ config' = h[p].cfg /\ mapped' = h[p].cfg.tags /\ mirror' = h[p].cfg.users
<1> DEFINE n == [h[p] EXCEPT !.pc = "down"]
<1>1. h[p] \in Handlers /\ h[p].cfg \in Configs
  BY DEF HandlerType, Handlers, IsSet, Locked
<1>2. /\ n \in Records /\ n.pc = "down" /\ n.op = h[p].op /\ n.cfg = h[p].cfg
      /\ n.subject = h[p].subject
  BY <1>1 DEF Handlers, Records, Pcs, Locked, Restarting
<1> HIDE DEF n
<1>3. {n} \subseteq Handlers
  BY <1>1, <1>2 DEF Handlers, IsSet, InLoop
<1>4. Move(p, {n}, h[p].cfg.tags)
  BY DEF Extract, n
<1>5. h'[p] = n /\ Others(p)
  BY <1>3, <1>4, MoveType DEF Others
<1> QED BY <1>2, <1>5 DEF Extract, Onward

\* What the mirror holds is still known, if it stays or is replaced.
LEMMA MirrorAlone ==
  ASSUME TypeOK, Mirror, NEW p \in Procs, Lone(p), NEW x, Onward(p, x), UNCHANGED cur,
         h[p].op \in {"start", "stop"},
         x \in Locked \cup {"iface"} => h[p].pc \in Locked \cup {"iface"},
         \/ UNCHANGED <<mapped, mirror>>
         \/ /\ h[p].pc \in Locked \cup {"iface"}
            /\ mapped' = h[p].cfg.tags /\ mirror' = h[p].cfg.users
         \/ mapped' = {} /\ mirror' = NoUsers
  PROVE  Mirror'
<1>1. \A q \in Procs \ {p} : h'[q].pc = "idle"
  BY DEF Lone, Active, Onward, Others, Same
<1>2. NewUnknown'
  BY <1>1 DEF NewUnknown, Onward
<1>3. WantedLatest'
  BY <1>1 DEF WantedLatest, Onward, Mirror, Locked, Restarting
<1>4. h[p].pc \in Locked \cup {"iface"} =>
        \A t \in Tags :
          /\ \A c \in h[p].cfg.users[t] : c[2] = cur[c[1]]
          /\ t \notin h[p].cfg.tags => h[p].cfg.users[t] = {}
  BY DEF Mirror, WantedLatest
<1>5. MirrorMapped'
  BY <1>4 DEF MirrorMapped, Mirror, NoUsers
<1>6. MirrorKnown'
  <2>1. CASE UNCHANGED mirror
    BY <2>1 DEF MirrorKnown, Mirror
  <2>2. CASE h[p].pc \in Locked \cup {"iface"} /\ mirror' = h[p].cfg.users
    <3> SUFFICES ASSUME NEW t \in Tags, NEW c \in h[p].cfg.users[t]
                 PROVE  c[2] <= cur[c[1]]
      BY <2>2 DEF MirrorKnown
    <3>1. h[p].cfg \in Configs
      BY <2>2 DEF TypeOK, HandlerType, Handlers, IsSet
    <3>2. c[1] \in Users /\ c[2] = cur[c[1]]
      BY <1>4, <2>2, <3>1 DEF Configs, Creds
    <3>3. cur[c[1]] \in Nat
      BY <3>2, MaxKeyAssumption DEF TypeOK, CurType
    <3> QED BY <3>2, <3>3
  <2>3. CASE mirror' = NoUsers
    BY <2>3 DEF MirrorKnown, NoUsers
  <2> QED BY <2>1, <2>2, <2>3
<1> QED BY <1>2, <1>3, <1>5, <1>6 DEF Mirror
\* A start or a stop that goes on keeps the invariant, if it may be alone.
LEMMA LoneHonesty ==
  ASSUME TypeOK, Honesty, NEW p \in Procs, Lone(p), Active(p), NEW x, Onward(p, x),
         \/ StartRecord(h[p]) /\ x \in Locked \cup {"done"}
         \/ /\ StopRecord(h[p]) /\ x \in {"kill", "killed", "done"}
            /\ h'[p].reply # "uptodate",
         x \in Locked => h[p].pc \in Locked \cup {"iface"},
         \/ UNCHANGED <<mapped, mirror>>
         \/ /\ h[p].pc \in Locked \cup {"iface"}
            /\ mapped' = h[p].cfg.tags /\ mirror' = h[p].cfg.users
         \/ mapped' = {} /\ mirror' = NoUsers,
         UNCHANGED cur, Alone(p)'
  PROVE  Honesty'
<1>1. StartRecord(h'[p]) \/ StopRecord(h'[p])
  BY DEF Onward, StartRecord, StopRecord
<1>2. Requests'
  BY <1>1, RequestsKept DEF Onward, Honesty
<1>3. h[p].op \in {"start", "stop"} /\ x # "iface"
  BY DEF StartRecord, StopRecord, Locked, Restarting
<1>4. Mirror'
  BY <1>3, MirrorAlone DEF Honesty
<1> QED BY <1>2, <1>4, AloneNext DEF Honesty

\* When the hashes agree, the core runs the configuration of the request.
LEMMA ComparedRight ==
  ASSUME TypeOK, Honesty, NEW p \in Procs, h[p].pc = "healthy",
         ~NeedRestart(h[p].cfg)
  PROVE  /\ core # "boot"
         /\ core = "up" => LET c == h[p].cfg
                           IN coreBase = c.base /\ c.tags \subseteq served
                              /\ table = c.users
<1> DEFINE c == h[p].cfg
<1>1. Alone(p) /\ c \in Configs
  <2>1. h[p].pc \in Locked
    BY DEF Locked
  <2> QED BY <2>1, LoneStart, AloneFrom DEF Honesty, StartRecord
<1>2. online /\ core # "boot"
  BY <1>1 DEF Alone, Checks, Waits
<1>3. ASSUME core = "up"
      PROVE  coreBase = c.base /\ c.tags \subseteq served /\ table = c.users
  <2>1. SameCore /\ \A u \in Users, t \in Tags : Agree(u, t)
    BY <1>1, <1>2, <1>3 DEF Alone
  <2>2. /\ c.base = config.base /\ Cardinality(c.tags) = Cardinality(mapped)
        /\ \A t \in mapped : t \in c.tags /\ mirror[t] = c.users[t]
    BY DEF NeedRestart
  <2>3. mapped = c.tags
    <3>1. c.tags \in SUBSET Tags /\ IsFiniteSet(c.tags)
      BY <1>1, TagsAssumption, FS_Subset DEF Configs
    <3>2. mapped \in SUBSET c.tags
      BY <2>2
    <3> QED BY <2>2, <3>1, <3>2, FS_Subset
  <2>4. \A t \in Tags : mirror[t] = c.users[t]
    <3>1. \A t \in Tags : /\ t \notin mapped => mirror[t] = {}
                          /\ t \notin c.tags => c.users[t] = {}
      BY DEF Honesty, Mirror, MirrorMapped, WantedLatest, Locked
    <3> QED BY <2>2, <2>3, <3>1
  <2>5. ASSUME NEW t \in Tags PROVE table[t] = c.users[t]
    <3>1. ASSUME NEW d \in table[t] PROVE d \in c.users[t]
      <4>1. d \in Creds
        BY DEF TypeOK, CoreType
      <4>2. Owner(d) \in Users
        BY <4>1 DEF Creds, Owner
      <4>3. d \in Of(table[t], Owner(d))
        BY DEF Of
      <4>4. d \in mirror[t]
        BY <2>1, <4>2, <4>3 DEF Agree
      <4> QED BY <2>4, <4>4
    <3>2. ASSUME NEW d \in c.users[t] PROVE d \in table[t]
      <4>1. d \in Creds
        BY <1>1 DEF Configs
      <4>2. d[2] = cur[d[1]]
        BY DEF Honesty, Mirror, WantedLatest, Locked
      <4>3. d[1] \in Users /\ d = <<d[1], cur[d[1]]>>
        BY <4>1, <4>2 DEF Creds
      <4>4. <<d[1], cur[d[1]]>> \in mirror[t]
        BY <2>4, <4>3
      <4>5. <<d[1], cur[d[1]]>> \in table[t]
        BY <2>1, <4>3, <4>4 DEF Agree
      <4> QED BY <4>3, <4>5
    <3> QED BY <3>1, <3>2
  <2>6. table = c.users
    BY <1>1, <2>5 DEF TypeOK, CoreType, Configs
  <2> QED BY <2>1, <2>2, <2>3, <2>6 DEF SameCore
<1> QED BY <1>2, <1>3
\* The configuration is replaced, and the core is about to be.
LEMMA ExtractHonesty ==
  ASSUME TypeOK, Honesty, NEW p \in Procs,
         h[p].pc \in {"iface", "healthy", "unhealthy"}, Extract(p),
         online' \in {online, FALSE}, UNCHANGED <<coreVars, cur>>
  PROVE  Honesty'
<1>1. h[p].pc \in Locked \cup {"iface"} /\ HandlerType
  BY DEF Locked, TypeOK
<1>2. StartRecord(h[p]) /\ Lone(p) /\ Active(p)
  BY <1>1, LoneStart DEF Honesty
<1>3. /\ Onward(p, "down")
      /\ config' = h[p].cfg /\ mapped' = h[p].cfg.tags /\ mirror' = h[p].cfg.users
  BY <1>1, ExtractOnward
<1>4. Alone(p)'
  <2>1. Alone(p)
    BY <1>2, AloneFrom DEF Honesty
  <2>2. Lone(p)'
    BY <1>2, <1>3 DEF Lone, Onward, Others, Same, Active
  <2>3. h'[p].pc = "down" /\ h'[p].cfg = h[p].cfg
    BY <1>3 DEF Onward
  <2>4. Own(p)' /\ Checks(p)' /\ Right(p)'
    BY <1>3, <2>3 DEF Own, Checks, Right
  <2>5. ~(online' /\ core' = "boot")
    BY <2>1 DEF Alone, Waits, coreVars
  <2> QED BY <2>2, <2>3, <2>4, <2>5 DEF Alone
<1>5. "down" \in Locked \cup {"done"}
  BY DEF Locked, Restarting
<1> QED BY <1>1, <1>2, <1>3, <1>4, <1>5, LoneHonesty

\* A start or a stop moves on, and leaves the mirror alone.
LEMMA OnwardHonesty ==
  ASSUME TypeOK, Honesty, NEW p \in Procs, NEW x, Onward(p, x),
         UNCHANGED <<config, mapped, mirror, cur>>,
         \/ h[p].pc \in Locked \cup {"iface"} /\ x \in Locked \cup {"done"}
         \/ /\ h[p].pc \in {"plugin", "kill", "killed"}
            /\ x \in {"kill", "killed", "done"} /\ h'[p].reply # "uptodate",
         Own(p)', Checks(p)', Right(p)',
         online' /\ core' = "boot" => Waits(p)',
         online' /\ core' = "up" /\ x # "down" =>
           \/ online /\ h[p].pc # "down" /\ UNCHANGED coreVars
           \/ (SameCore /\ \A u \in Users, t \in Tags : Agree(u, t))'
  PROVE  Honesty'
<1>1. /\ Lone(p) /\ Active(p)
      /\ \/ StartRecord(h[p]) /\ x \in Locked \cup {"done"}
         \/ /\ StopRecord(h[p]) /\ x \in {"kill", "killed", "done"}
            /\ h'[p].reply # "uptodate"
  BY LoneStart, LoneStop DEF Honesty
<1>2. x \in Locked => h[p].pc \in Locked \cup {"iface"}
  BY DEF Locked, Restarting
<1>3. h[p].pc \notin {"removed", "added"} /\ x \notin {"removed", "added"}
  BY DEF Locked, Restarting
<1>4. Alone(p)
  BY <1>1, <1>3, AloneFrom DEF Honesty
<1>5. Lone(p)' /\ h'[p].pc = x
  BY <1>1 DEF Lone, Onward, Others, Same, Active
<1>6. ASSUME online', core' = "up", x # "down"
      PROVE  (SameCore /\ \A u \in Users, t \in Tags : Agree(u, t))'
  <2> SUFFICES ASSUME online, h[p].pc # "down", UNCHANGED coreVars
               PROVE  (SameCore /\ \A u \in Users, t \in Tags : Agree(u, t))'
    BY <1>6
  <2>1. SameCore /\ \A u \in Users, t \in Tags : Agree(u, t)
    BY <1>4, <1>6 DEF Alone, coreVars
  <2> QED BY <2>1 DEF SameCore, Agree, coreVars
<1>7. Alone(p)'
  BY <1>3, <1>5, <1>6 DEF Alone
<1> QED BY <1>1, <1>2, <1>7, LoneHonesty

LEMMA StartHonesty ==
  ASSUME TypeOK, Honesty, Orderly, NEW p \in Procs,
         \/ StartEnter(p) \/ StartCheck(p) \/ StartUnhealthy(p)
         \/ StartDown(p) \/ StartUp(p) \/ CoreStats(p)
         \/ StartEnd(p) \/ StartNotReady(p) \/ StartDumped(p)
  PROVE  Honesty'
<1>0. h[p].pc \in Locked \cup {"iface"}
  BY DEF StartEnter, StartCheck, StartUnhealthy, StartDown, StartUp, CoreStats, StartEnd,
         StartNotReady, StartDumped, Locked, Restarting
<1>1. /\ StartRecord(h[p]) /\ Alone(p) /\ HandlerType
      /\ "s6" \notin Faults /\ "xtls" \notin Faults
  <2>1. StartRecord(h[p]) /\ Lone(p)
    BY <1>0, LoneStart DEF Honesty
  <2>2. h[p].pc \notin {"removed", "added"}
    BY <1>0 DEF Locked, Restarting
  <2> QED BY <2>1, <2>2, AloneFrom DEF Honesty, Orderly, TypeOK
<1>2. CASE StartEnter(p)
  <2>1. h[p].pc = "iface" /\ UNCHANGED <<online, coreVars, cur>>
    BY <1>2 DEF StartEnter
  <2>2. CASE Goto(p, Done(h[p], "busy")) /\ UNCHANGED mirrorVars
    <3>1. Onward(p, "done") /\ h'[p].reply = "busy"
      BY <1>1, <2>2, DoneOnward
    <3>2. UNCHANGED <<config, mapped, mirror, online, core>>
      BY <2>1, <2>2 DEF mirrorVars, coreVars
    <3>3. /\ Own(p)' /\ Checks(p)' /\ Right(p)' /\ ~(online' /\ core' = "boot")
      BY <1>1, <2>1, <3>1, <3>2 DEF Own, Checks, Right, Restarting, Alone, Waits, Onward
    <3> QED BY <2>1, <3>1, <3>2, <3>3, OnwardHonesty
  <2>3. CASE online /\ Goto(p, [h[p] EXCEPT !.pc = "stats"]) /\ UNCHANGED mirrorVars
    <3>1. Onward(p, "stats")
      BY <1>1, <2>3, PcOnward
    <3>2. UNCHANGED <<config, mapped, mirror, online, core>>
      BY <2>1, <2>3 DEF mirrorVars, coreVars
    <3>3. /\ Own(p)' /\ Checks(p)' /\ Right(p)' /\ ~(online' /\ core' = "boot")
      BY <1>1, <2>1, <2>3, <3>1, <3>2
      DEF Own, Checks, Right, Restarting, Alone, Waits, Onward
    <3>4. "stats" \in Locked
      BY DEF Locked
    <3> QED BY <2>1, <3>1, <3>2, <3>3, <3>4, OnwardHonesty
  <2>4. CASE Extract(p)
    BY <2>1, <2>4, ExtractHonesty
  <2> QED BY <1>2, <2>2, <2>3, <2>4, Zenon DEF StartEnter
<1>3. CASE StartCheck(p)
  <2>1. h[p].pc = "healthy" /\ UNCHANGED <<online, coreVars, cur>>
    BY <1>3 DEF StartCheck
  <2>2. CASE Extract(p)
    BY <2>1, <2>2, ExtractHonesty
  <2>3. CASE /\ ~NeedRestart(h[p].cfg)
             /\ Goto(p, Done(h[p], "uptodate")) /\ UNCHANGED mirrorVars
    <3>1. Onward(p, "done") /\ h'[p].reply = "uptodate"
      BY <1>1, <2>3, DoneOnward
    <3>2. UNCHANGED <<config, mapped, mirror, online, core, coreBase, table, served>>
      BY <2>1, <2>3 DEF mirrorVars, coreVars
    <3>3. Own(p)' /\ Checks(p)' /\ ~(online' /\ core' = "boot")
      BY <1>1, <2>1, <3>1, <3>2 DEF Own, Checks, Restarting, Alone, Waits, Onward
    <3>4. Right(p)'
      BY <2>1, <2>3, <3>1, <3>2, ComparedRight DEF Right, Onward
    <3> QED BY <2>1, <3>1, <3>2, <3>3, <3>4, OnwardHonesty DEF Locked
  <2> QED BY <1>3, <2>2, <2>3, Zenon DEF StartCheck
<1>4. CASE StartUnhealthy(p)
  BY <1>4, ExtractHonesty DEF StartUnhealthy
<1>5. CASE StartDown(p)
  <2>1. h[p].pc = "down" /\ CoreGone /\ Goto(p, [h[p] EXCEPT !.pc = "up"])
        /\ UNCHANGED <<agentVars, mirrorVars, cur>>
    BY <1>1, <1>5 DEF StartDown
  <2>2. Onward(p, "up") /\ core' = "down"
    BY <1>1, <2>1, PcOnward DEF CoreGone
  <2>3. UNCHANGED <<config, mapped, mirror, cur>>
    BY <2>1 DEF mirrorVars
  <2>4. Own(p)' /\ Checks(p)' /\ Right(p)'
    BY <1>1, <2>1, <2>2, <2>3 DEF Own, Checks, Right, Restarting, Alone, Onward
  <2>5. "up" \in Locked
    BY DEF Locked, Restarting
  <2> QED BY <1>0, <2>2, <2>3, <2>4, <2>5, OnwardHonesty
<1>6. CASE StartUp(p)
  <2>1. h[p].pc = "up" /\ core' = "boot" /\ Goto(p, [h[p] EXCEPT !.pc = "ready"])
        /\ UNCHANGED <<agentVars, mirrorVars, coreBase, table, served, cur>>
    BY <1>1, <1>6 DEF StartUp
  <2>2. Onward(p, "ready") /\ UNCHANGED <<config, mapped, mirror, cur>>
    BY <1>1, <2>1, PcOnward DEF mirrorVars
  <2>3. Own(p)' /\ Checks(p)' /\ Right(p)' /\ Waits(p)'
    BY <1>1, <2>1, <2>2 DEF Own, Checks, Right, Waits, Restarting, Alone, Onward
  <2>4. "ready" \in Locked
    BY DEF Locked, Restarting
  <2> QED BY <1>0, <2>1, <2>2, <2>3, <2>4, OnwardHonesty
<1>7. CASE CoreStats(p)
  <2>1. h[p].pc \in {"stats", "ready"} /\ UNCHANGED <<agentVars, mirrorVars, coreVars, cur>>
    BY <1>7 DEF CoreStats
  <2>2. UNCHANGED <<online, config, mapped, mirror, core, coreBase, table, served, cur>>
    BY <2>1 DEF agentVars, mirrorVars, coreVars
  <2>3. PICK x : /\ Goto(p, [h[p] EXCEPT !.pc = x])
                 /\ \/ h[p].pc = "stats" /\ core = "up" /\ x = "healthy"
                    \/ h[p].pc = "stats" /\ core # "up" /\ x = "unhealthy"
                    \/ h[p].pc = "ready" /\ core = "up" /\ x = "answered"
                    \/ h[p].pc = "ready" /\ core # "up" /\ x = "silent"
    <3>1. HandlerType
      BY <1>1
    <3>2. CASE core = "up"
      <4> DEFINE x == IF h[p].pc = "stats" THEN "healthy" ELSE "answered"
      <4>1. Goto(p, [h[p] EXCEPT !.pc = x])
        BY <1>1, <1>7, <3>2, Zenon DEF CoreStats
      <4> QED BY <2>1, <3>2, <4>1
    <3>3. CASE core # "up"
      <4> DEFINE x == IF h[p].pc = "stats" THEN "unhealthy" ELSE "silent"
      <4>1. Goto(p, [h[p] EXCEPT !.pc = x])
        BY <1>1, <1>7, <3>3, Zenon DEF CoreStats
      <4> QED BY <2>1, <3>3, <4>1
    <3> QED BY <3>2, <3>3
  <2>4. Onward(p, x) /\ x \in Locked /\ x # "down"
    BY <1>1, <2>3, PcOnward DEF Locked, Restarting
  <2>5. Own(p)' /\ Checks(p)' /\ Right(p)'
    BY <1>1, <2>2, <2>3, <2>4 DEF Own, Checks, Right, Restarting, Alone, Onward
  <2>6. online' /\ core' = "boot" => Waits(p)'
    BY <1>1, <2>2, <2>3, <2>4 DEF Waits, Alone, Onward
  <2>7. online' => online /\ h[p].pc # "down" /\ UNCHANGED coreVars
    BY <2>1, <2>2
  <2> QED BY <1>0, <2>2, <2>4, <2>5, <2>6, <2>7, OnwardHonesty
<1>8. CASE StartEnd(p)
  <2>1. h[p].pc = "answered" /\ Goto(p, Done(h[p], "started"))
        /\ UNCHANGED <<config, mapped, mirror, core, coreBase, table, served, cur>>
    BY <1>8 DEF StartEnd, mirrorVars, coreVars
  <2>2. Onward(p, "done") /\ h'[p].reply = "started"
    BY <1>1, <2>1, DoneOnward
  <2>3. Own(p)' /\ Checks(p)' /\ Right(p)'
    BY <2>2 DEF Own, Checks, Right, Restarting, Onward
  <2>4. /\ config = h[p].cfg /\ mapped = config.tags /\ mirror = config.users
        /\ core # "boot"
        /\ core = "up" =>
             coreBase = config.base /\ served = config.tags /\ table = config.users
    BY <1>1, <2>1 DEF Alone, Own, Restarting
  <2>5. config # None
    BY <1>1, <2>4, NoneAssumption DEF StartRecord
  <2>6. core = "up" => SameCore' /\ \A u \in Users, t \in Tags : Agree(u, t)'
    BY <2>1, <2>4, <2>5 DEF SameCore, Agree, Of
  <2> QED BY <1>0, <2>1, <2>2, <2>3, <2>4, <2>6, OnwardHonesty
<1>9. CASE StartNotReady(p)
  <2>1. h[p].pc = "silent" /\ ~online' /\ Goto(p, [h[p] EXCEPT !.pc = "dump"])
        /\ UNCHANGED <<config, mapped, mirror, core, coreBase, table, served, cur>>
    BY <1>9 DEF StartNotReady, mirrorVars, coreVars
  <2>2. Onward(p, "dump") /\ "dump" \in Locked
    BY <1>1, <2>1, PcOnward DEF Locked, Restarting
  <2>3. Own(p)' /\ Checks(p)' /\ Right(p)'
    BY <1>1, <2>1, <2>2 DEF Own, Checks, Right, Restarting, Alone, Onward
  <2> QED BY <1>0, <2>1, <2>2, <2>3, OnwardHonesty
<1>10. CASE StartDumped(p)
  <2>1. h[p].pc = "dump" /\ Goto(p, Done(h[p], "fail"))
        /\ UNCHANGED <<online, config, mapped, mirror, coreVars, cur>>
    BY <1>10 DEF StartDumped, StartFailed, mirrorVars
  <2>2. Onward(p, "done") /\ h'[p].reply = "fail"
    BY <1>1, <2>1, DoneOnward
  <2>3. Own(p)' /\ Checks(p)' /\ Right(p)' /\ ~(online' /\ core' = "boot")
    BY <1>1, <2>1, <2>2 DEF Own, Checks, Right, Restarting, Alone, Waits, Onward, coreVars
  <2> QED BY <1>0, <2>1, <2>2, <2>3, OnwardHonesty
<1> QED BY <1>2, <1>3, <1>4, <1>5, <1>6, <1>7, <1>8, <1>9, <1>10

LEMMA StopHonesty ==
  ASSUME TypeOK, Honesty, Orderly, NEW p \in Procs,
         StopEnter(p) \/ StopKill(p) \/ StopEnd(p)
  PROVE  Honesty'
<1>0. h[p].pc \in {"plugin", "kill", "killed"}
  BY DEF StopEnter, StopKill, StopEnd
<1>1. /\ StopRecord(h[p]) /\ Alone(p) /\ HandlerType /\ Lone(p) /\ Active(p)
      /\ "s6" \notin Faults
  BY <1>0, LoneStop, AloneFrom DEF Honesty, Orderly, TypeOK
<1>2. CASE StopEnter(p)
  <2>1. /\ h[p].pc = "plugin"
        /\ UNCHANGED <<online, config, mapped, mirror, coreVars, cur>>
        /\ Goto(p, Done(h[p], "ok")) \/ Goto(p, [h[p] EXCEPT !.pc = "kill"])
    BY <1>2 DEF StopEnter, agentVars, mirrorVars
  <2>2. PICK x \in {"kill", "done"} : Onward(p, x) /\ h'[p].reply # "uptodate"
    BY <1>1, <2>1, DoneOnward, PcOnward DEF StopRecord
  <2>3. Own(p)' /\ Checks(p)' /\ Right(p)' /\ ~(online' /\ core' = "boot")
    BY <1>1, <2>1, <2>2 DEF Own, Checks, Right, Restarting, Alone, Waits, Onward, coreVars
  <2> QED BY <1>0, <2>1, <2>2, <2>3, OnwardHonesty
<1>3. CASE StopKill(p)
  <2>1. h[p].pc = "kill" /\ core' = "down" /\ Goto(p, [h[p] EXCEPT !.pc = "killed"])
        /\ UNCHANGED <<config, mapped, mirror, cur>>
    BY <1>1, <1>3 DEF StopKill, CoreGone, mirrorVars
  <2>2. Onward(p, "killed") /\ h'[p].reply # "uptodate"
    BY <1>1, <2>1, PcOnward DEF StopRecord
  <2>3. Own(p)' /\ Checks(p)' /\ Right(p)'
    BY <2>2 DEF Own, Checks, Right, Restarting, Onward
  <2> QED BY <1>0, <2>1, <2>2, <2>3, OnwardHonesty
<1>4. CASE StopEnd(p)
  <2>1. ~online' /\ Goto(p, Done(h[p], "ok")) /\ mapped' = {} /\ mirror' = NoUsers
        /\ UNCHANGED cur
    BY <1>4 DEF StopEnd
  <2>2. Onward(p, "done") /\ h'[p].reply = "ok"
    BY <1>1, <2>1, DoneOnward
  <2>3. Own(p)' /\ Checks(p)' /\ Right(p)' /\ h'[p].pc = "done"
    BY <2>2 DEF Own, Checks, Right, Restarting, Onward
  <2>4. Lone(p)'
    BY <1>1, <2>2 DEF Lone, Onward, Others, Same, Active
  <2>5. Alone(p)'
    BY <2>1, <2>3, <2>4 DEF Alone
  <2>6. "done" \notin Locked
    BY DEF Locked, Restarting
  <2> QED BY <1>1, <2>1, <2>2, <2>5, <2>6, LoneHonesty
<1> QED BY <1>2, <1>3, <1>4
\* A start or a stop arrives: nothing else is being handled.
LEMMA BeginHonesty ==
  ASSUME TypeOK, Honesty, Orderly, NEW p \in Procs, BeginStart(p) \/ BeginStop(p)
  PROVE  Honesty'
<1>1. PICK n \in Handlers :
        /\ MayBegin(p, {}, TRUE) /\ Goto(p, n)
        /\ \/ n.op = "start" /\ n.pc = "iface"
           \/ n.op = "stop" /\ n.pc = "plugin"
        /\ n.subject = {} /\ n.reply = "none"
        /\ n.pc = "iface" =>
             \A t \in Tags :
               /\ \A c \in n.cfg.users[t] : c[2] = cur[c[1]]
               /\ t \notin n.cfg.tags => n.cfg.users[t] = {}
  <2>1. CASE BeginStart(p)
    <3>1. PICK base \in Bases, tags \in SUBSET Tags \ {{}},
               users \in [Tags -> SUBSET {Current(u) : u \in Users}] :
            /\ \A t \in Tags \ tags : users[t] = {}
            /\ MayBegin(p, {}, TRUE)
            /\ Goto(p, [Idle EXCEPT !.op = "start", !.pc = "iface",
                          !.cfg = [base |-> base, tags |-> tags, users |-> users]])
      BY <2>1 DEF BeginStart
    <3> DEFINE c == [base |-> base, tags |-> tags, users |-> users]
               n == [Idle EXCEPT !.op = "start", !.pc = "iface", !.cfg = c]
    <3>2. \A u \in Users : Current(u) \in Creds /\ Current(u)[1] = u
                           /\ Current(u)[2] = cur[u]
      BY CredTypes DEF TypeOK, Current
    <3>3. c \in Configs /\ c.users = users /\ c.tags = tags
      BY <3>2 DEF Configs
    <3>4. /\ n.op = "start" /\ n.pc = "iface" /\ n.cfg = c
          /\ n.subject = {} /\ n.reply = "none"
      BY DEF Idle
    <3>5. n \in Handlers
      <4> HIDE DEF c
      <4> QED BY <3>3 DEF Idle, Handlers, Records, IsSet, Ops, Pcs, InLoop, Locked,
                          Restarting
    <3>6. \A t \in Tags : \A d \in users[t] : d[2] = cur[d[1]]
      BY <3>2
    <3> HIDE DEF c
    <3>7. Goto(p, n)
      BY <3>1 DEF c
    <3> HIDE DEF n
    <3> QED BY <3>1, <3>3, <3>4, <3>5, <3>6, <3>7
  <2>2. CASE BeginStop(p)
    <3> DEFINE n == [Idle EXCEPT !.op = "stop", !.pc = "plugin"]
    <3>1. /\ n \in Handlers /\ n.op = "stop" /\ n.pc = "plugin"
          /\ n.subject = {} /\ n.reply = "none"
      BY DEF Idle, Handlers, Records, IsSet, Ops, Pcs, InLoop, Locked, Restarting
    <3>2. MayBegin(p, {}, TRUE) /\ Goto(p, n)
      BY <2>2 DEF BeginStop
    <3> HIDE DEF n
    <3> QED BY <3>1, <3>2
  <2> QED BY <2>1, <2>2
<1>2. h'[p] = n /\ Others(p)
  BY <1>1, GotoType DEF TypeOK, Others
<1>3. h[p].pc = "idle" /\ Lone(p)
  BY <1>1 DEF MayBegin, Orderly, Lone
<1>4. UNCHANGED <<online, config, mapped, mirror, coreVars, cur>>
  BY DEF BeginStart, BeginStop, agentVars, mirrorVars
<1>5. \A q \in Procs \ {p} : h'[q].pc = "idle"
  BY <1>2, <1>3 DEF Lone, Active, Others, Same
<1>6. Requests'
  <2>1. h'[p].pc = "iface" => h'[p].cfg \in Configs
    BY <1>1, <1>2 DEF Handlers, IsSet
  <2>2. StartRecord(h'[p]) \/ StopRecord(h'[p])
    BY <1>1, <1>2, <2>1 DEF StartRecord, StopRecord
  <2> QED BY <1>1, <1>2, <1>3, <2>2, RequestsAlone DEF Lone
<1>7. Mirror'
  <2>1. NewUnknown'
    BY <1>1, <1>2, <1>5 DEF NewUnknown
  <2>2. WantedLatest'
    BY <1>1, <1>2, <1>4, <1>5 DEF WantedLatest, Locked, Restarting
  <2> QED BY <1>4, <2>1, <2>2 DEF Honesty, Mirror, MirrorKnown, MirrorMapped
<1>8. Alone(p)'
  <2>1. Alone(p)
    BY <1>3, AloneFrom DEF Honesty
  <2>2. h'[p].pc \in {"iface", "plugin"}
    BY <1>1, <1>2
  <2>3. Lone(p)'
    BY <1>5 DEF Lone, Active
  <2>4. Own(p)' /\ Checks(p)' /\ Right(p)' /\ ~(online' /\ core' = "boot")
    BY <1>3, <1>4, <2>1, <2>2 DEF Alone, Own, Checks, Right, Waits, Restarting, coreVars
  <2>5. SameCore => SameCore'
    BY <1>4 DEF SameCore, coreVars
  <2>6. \A u, t : Agree(u, t) => Agree(u, t)'
    BY <1>4 DEF Agree, coreVars
  <2> QED BY <1>3, <1>4, <2>1, <2>2, <2>3, <2>4, <2>5, <2>6 DEF Alone, coreVars
<1> QED BY <1>6, <1>7, <1>8, AloneNext DEF Honesty

\* A request ends.
LEMMA ReturnHonesty ==
  ASSUME TypeOK, Honesty, NEW p \in Procs, Return(p)
  PROVE  Honesty'
<1>1. /\ Requests' /\ Others(p) /\ h'[p].pc = "idle" /\ h'[p].op = "none"
      /\ h[p].pc = "done"
      /\ UNCHANGED <<online, config, mapped, mirror, core, coreBase, table, served, cur>>
  BY RequestsReturn DEF Honesty, Return, agentVars, mirrorVars, coreVars
<1>2. InSync'
  BY <1>1, SyncSame DEF Honesty, coreVars
<1>3. Restarts'
  <2>1. \A q \in Procs : Own(q)' /\ Checks(q)' /\ Right(q)'
    <3> SUFFICES ASSUME NEW q \in Procs PROVE Own(q)' /\ Checks(q)' /\ Right(q)'
      OBVIOUS
    <3>1. CASE q = p
      BY <1>1, <3>1 DEF Own, Checks, Right, Restarting
    <3>2. CASE q # p
      BY <1>1, <3>2 DEF Own, Checks, Right, Others, Same, Honesty, Restarts
    <3> QED BY <3>1, <3>2
  <2>2. \A q \in Procs : Waits(q) => Waits(q)'
    BY <1>1 DEF Waits, Others, Same
  <2> QED BY <1>1, <2>1, <2>2 DEF Honesty, Restarts
<1>4. Mirror'
  BY <1>1 DEF Mirror, MirrorKnown, NewUnknown, WantedLatest, MirrorMapped, Others, Same,
              Honesty, Locked, Restarting
<1> QED BY <1>1, <1>2, <1>3, <1>4 DEF Honesty

\* The core comes up: if isXrayOnline is set, the start that waits for it is
\* alone, and what comes up is its configuration.
LEMMA BootHonesty ==
  ASSUME TypeOK, Honesty, CoreBoot
  PROVE  Honesty'
<1>1. core = "boot" /\ UNCHANGED <<online, config, mapped, mirror, cur, h>>
  BY DEF CoreBoot, agentVars, mirrorVars
<1>2. /\ core' \in {"down", "up"}
      /\ core' = "up" =>
           /\ config # None
           /\ coreBase' = config.base /\ table' = config.users /\ served' = config.tags
  BY DEF CoreBoot, CoreGone
<1>3. Requests' /\ Mirror'
  BY <1>1 DEF Honesty, Requests, Placed, Apart, SubjectLatest, Mirror, MirrorKnown,
              NewUnknown, WantedLatest, MirrorMapped, Active
<1>4. Restarts'
  <2>1. \A p \in Procs : Own(p)' /\ Checks(p)' /\ Right(p)'
    BY <1>1, <1>2 DEF Honesty, Restarts, Own, Checks, Right
  <2> QED BY <1>2, <2>1 DEF Restarts
<1>5. InSync'
  <2> SUFFICES ASSUME Compared' PROVE InSync'
    BY DEF InSync
  <2>1. online /\ core' = "up"
    BY <1>1 DEF Compared
  <2>2. PICK p \in Procs : Waits(p)
    BY <1>1, <2>1 DEF Honesty, Restarts
  <2>3. Lone(p) /\ config = h[p].cfg /\ mapped = config.tags /\ mirror = config.users
    <3>1. h[p].pc \in Locked /\ h[p].pc \in Restarting
      BY <2>2 DEF Waits, Locked, Restarting
    <3> QED BY <3>1, LoneStart DEF Honesty, Restarts, Own
  <2>4. \A q \in Procs : h'[q].pc \notin {"removed", "added"}
    BY <1>1, <2>2, <2>3 DEF Waits, Lone, Active
  <2>5. SameCore' /\ \A u \in Users, t \in Tags : Agree(u, t)'
    BY <1>1, <1>2, <2>1, <2>3 DEF SameCore, Agree, Of
  <2> QED BY <2>4, <2>5 DEF InSync, WindowTrue
<1> QED BY <1>3, <1>4, <1>5 DEF Honesty

\* The core dies: there is nothing left to be true of it.
LEMMA CrashHonesty ==
  ASSUME TypeOK, Honesty, CoreCrash
  PROVE  Honesty'
<1>1. core' = "down" /\ UNCHANGED <<online, config, mapped, mirror, cur, h>>
  BY DEF CoreCrash, CoreGone, agentVars, mirrorVars
<1>2. Requests' /\ Mirror'
  BY <1>1 DEF Honesty, Requests, Placed, Apart, SubjectLatest, Mirror, MirrorKnown,
              NewUnknown, WantedLatest, MirrorMapped, Active
<1>3. Restarts' /\ InSync'
  BY <1>1 DEF Honesty, Restarts, Own, Checks, Right, InSync, Compared
<1> QED BY <1>2, <1>3 DEF Honesty

\* Honest restarts: as long as no two of the panel's requests about one user
\* overlap, start and stop run alone, and nothing fails but the core, which
\* may die at any moment, startXray answers that no restart is needed
\* (isNeedRestartCore) only if the core that runs is the one the panel wants:
\* with the same base, the same inbounds and the same users in each.
THEOREM SkippedRightly ==
  ASSUME Orderly
  PROVE  Spec => []UpToDateIsHonest
<1>1. Init => Honesty
  <2> SUFFICES ASSUME Init PROVE Honesty
    OBVIOUS
  <2>1. \A p \in Procs : /\ h[p].op = "none" /\ h[p].pc = "idle"
                         /\ h[p].reply = "none"
    BY DEF Init, Idle
  <2>2. \A t \in Tags : mirror[t] = {}
    BY DEF Init, NoUsers
  <2>3. Requests
    BY <2>1 DEF Requests, Placed, Apart, SubjectLatest, Active
  <2>4. Mirror
    BY <2>1, <2>2 DEF Mirror, MirrorKnown, NewUnknown, WantedLatest, MirrorMapped, Locked,
                      Restarting
  <2>5. Restarts /\ InSync
    BY <2>1 DEF Init, Restarts, Own, Checks, Right, Restarting, InSync, Compared
  <2> QED BY <2>3, <2>4, <2>5 DEF Honesty
<1>2. TypeOK /\ Honesty /\ [Next]_vars => Honesty'
  <2> SUFFICES ASSUME TypeOK, Honesty, [Next]_vars PROVE Honesty'
    OBVIOUS
  <2>1. ASSUME NEW p \in Procs, Begin(p) PROVE Honesty'
    BY <2>1, ArriveHonesty, BeginHonesty DEF Begin
  <2>2. ASSUME NEW p \in Procs, Handle(p) PROVE Honesty'
    BY <2>2, UserHonesty, StartHonesty, StopHonesty, ReturnHonesty DEF Handle
  <2>3. CASE UNCHANGED vars
    <3>1. UNCHANGED <<online, config, mapped, mirror, core, coreBase, table, served, cur, h>>
      BY <2>3 DEF vars, agentVars, mirrorVars, coreVars
    <3>2. Requests' /\ Mirror'
      BY <3>1 DEF Honesty, Requests, Placed, Apart, SubjectLatest, Mirror, MirrorKnown,
                  NewUnknown, WantedLatest, MirrorMapped, Active
    <3>3. Restarts'
      BY <3>1 DEF Honesty, Restarts, Own, Checks, Right, Waits
    <3>4. InSync'
      BY <3>1 DEF Honesty, InSync, Compared, SameCore, Agree, Window, WindowTrue
    <3> QED BY <3>2, <3>3, <3>4 DEF Honesty
  <2> QED BY <2>1, <2>2, <2>3, BootHonesty, CrashHonesty DEF Next
<1>3. Honesty => UpToDateIsHonest
  BY DEF Honesty, Restarts, Right, UpToDateIsHonest
<1> QED BY <1>1, <1>2, <1>3, TypeCorrect, PTL DEF Spec
=============================================================================

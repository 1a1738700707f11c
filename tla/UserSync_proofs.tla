--------------------------- MODULE UserSync_proofs ---------------------------
(* Theorems about UserSync, for every set of users, nodes, squads and       *)
(* inbounds, and any number of requests: everything holds values of its     *)
(* kind, and a connected node lets in exactly who is ACTIVE as soon as what *)
(* was requested has been dealt with, if nothing overlapped, failed, or was *)
(* ignored or dropped since the node's core was restarted.                  *)
EXTENDS UserSync, TLAPS

-----------------------------------------------------------------------------
(* Types.                                                                  *)

UserType ==
  /\ status \in [Users -> Statuses \cup {"none", "gone"}]
  /\ squads \in [Users -> SUBSET Squads] /\ version \in [Users -> Nat]
  /\ over \in SUBSET Users /\ past \in SUBSET Users
ReqType ==
  /\ req \in Reqs /\ req.of \subseteq Rows
  /\ req.pc \in {"none", "sync", "restart"} => req.of = {}
  /\ req.pc = "bulk" => req.body.squads \in SUBSET Squads
  /\ req.pc = "update" => req.body \in Updates
TaskType ==
  /\ tasks \in [Users -> [Slots -> TaskRecords]]
  /\ \A u \in Users, s \in Slots :
       tasks[u][s].kind = "remove" => tasks[u][s].tags = {}
NodeType ==
  /\ conn \in SUBSET Nodes /\ start \in [Nodes -> Starts] /\ due \in SUBSET Nodes
  /\ core \in [Nodes -> [Users -> Access]]
CountType == requests \in Nat /\ changes \in Nat

\* A request that has been dealt with is about nobody, one that moves a
\* user to other squads names them, and an update has one of the bodies.
Types ==
  /\ UserType /\ inbounds \in [Squads -> SUBSET Tags] /\ ReqType /\ TaskType
  /\ NodeType /\ CountType
  /\ late \subseteq stale /\ stale \in SUBSET (Nodes \X Users)

\* The records without anything in them are well typed.
LEMMA EmptyTypes ==
  /\ NoReq \in Reqs /\ NoReq.pc = "none" /\ NoReq.of = {} /\ NoReq.seen = "none"
  /\ NoReq.body = NoBody /\ NoBody \in Bodies
  /\ NoTask \in TaskRecords /\ NoTask.pc = "none" /\ NoTask.kind = "add"
  /\ NoTask.tags = {} /\ NoTask.to = {}
  /\ NoStart \in Starts /\ NoStart.pc = "none"
  /\ Out \in Access /\ Nobody \in [Users -> Access]
  BY DEF NoReq, NoBody, NoTask, NoStart, Out, Nobody, Reqs, Bodies, TaskRecords, Starts,
         Access

\* What a node gives a user, and what it is to be given when it is started.
LEMMA GivenType ==
  ASSUME NEW u, NEW S \in SUBSET Tags, NEW v \in Nat, NEW n \in Nodes
  PROVE  Given(u, S, v, n) \in Access
  BY EmptyTypes, ServesAssumption DEF Given, Access

LEMMA InboundsType ==
  ASSUME UserType, inbounds \in [Squads -> SUBSET Tags], NEW u \in Users
  PROVE  InboundsOf(u) \in SUBSET Tags
  BY DEF UserType, InboundsOf

LEMMA WantedType ==
  ASSUME UserType, inbounds \in [Squads -> SUBSET Tags], NEW u \in Users, NEW n \in Nodes
  PROVE  Wanted(n, u) \in Access
  BY EmptyTypes, GivenType, InboundsType DEF Wanted, UserType

\* What AddTasks does: each of the users has one more event.
Adds(u, s, kind, pc) ==
  /\ tasks[u][s].pc = "none"
  /\ tasks'[u][s].pc = pc /\ tasks'[u][s].kind = kind
  /\ \A r \in Slots \ {s} : tasks'[u][r] = tasks[u][r]

LEMMA AddTasksType ==
  ASSUME TaskType, NEW S \in SUBSET Users, NEW kind \in {"add", "adds", "remove"},
         NEW pc \in {"found", "event"}, AddTasks(S, kind, pc)
  PROVE  /\ TaskType'
         /\ \A u \in Users \ S : tasks'[u] = tasks[u]
         /\ \A u \in S : \E s \in Slots : Adds(u, s, kind, pc)
<1> DEFINE t == [NoTask EXCEPT !.pc = pc, !.kind = kind]
<1>1. PICK slot \in [S -> Slots] :
        /\ \A u \in S : tasks[u][slot[u]].pc = "none"
        /\ tasks' = [u \in Users |-> IF u \in S THEN [tasks[u] EXCEPT ![slot[u]] = t]
                                     ELSE tasks[u]]
  BY DEF AddTasks
<1>2. t \in TaskRecords /\ t.pc = pc /\ t.kind = kind /\ t.tags = {}
  BY DEF NoTask, TaskRecords
<1> HIDE DEF t
<1>3. \A u \in Users \ S : tasks'[u] = tasks[u]
  BY <1>1
<1>4. \A u \in S : /\ slot[u] \in Slots /\ tasks'[u][slot[u]] = t
                   /\ \A r \in Slots \ {slot[u]} : tasks'[u][r] = tasks[u][r]
                   /\ tasks'[u] \in [Slots -> TaskRecords]
  BY <1>1, <1>2 DEF TaskType
<1>5. tasks' \in [Users -> [Slots -> TaskRecords]]
  BY <1>1, <1>3, <1>4 DEF TaskType
<1>6. ASSUME NEW u \in Users, NEW s \in Slots, tasks'[u][s].kind = "remove"
      PROVE  tasks'[u][s].tags = {}
  <2>1. CASE u \notin S
    BY <2>1, <1>3, <1>6 DEF TaskType
  <2>2. CASE u \in S /\ s = slot[u]
    BY <2>2, <1>2, <1>4
  <2>3. CASE u \in S /\ s # slot[u]
    <3>1. tasks'[u][s] = tasks[u][s]
      BY <2>3, <1>4
    <3> QED BY <3>1, <1>6 DEF TaskType
  <2> QED BY <2>1, <2>2, <2>3
<1> QED BY <1>1, <1>2, <1>3, <1>4, <1>5, <1>6 DEF TaskType, Adds

LEMMA PublishType ==
  ASSUME TaskType, NEW u \in Users, NEW kind \in {"add", "adds", "remove"},
         Publish(kind, u)
  PROVE  /\ TaskType'
         /\ \A v \in Users \ {u} : tasks'[v] = tasks[v]
         /\ \E s \in Slots : Adds(u, s, kind, "event")
  BY AddTasksType DEF Publish

\* What SetTask does.
Puts(u, s, t) ==
  /\ \A v \in Users \ {u} : tasks'[v] = tasks[v]
  /\ tasks'[u][s] = t /\ \A r \in Slots \ {s} : tasks'[u][r] = tasks[u][r]

LEMMA SetTaskType ==
  ASSUME TaskType, NEW u \in Users, NEW s \in Slots, NEW t \in TaskRecords,
         t.kind = "remove" => t.tags = {}, SetTask(u, s, t)
  PROVE  TaskType' /\ Puts(u, s, t)
<1>1. /\ \A v \in Users \ {u} : tasks'[v] = tasks[v]
      /\ tasks'[u][s] = t /\ \A r \in Slots \ {s} : tasks'[u][r] = tasks[u][r]
      /\ tasks' \in [Users -> [Slots -> TaskRecords]]
  BY DEF SetTask, TaskType
<1>2. ASSUME NEW v \in Users, NEW r \in Slots, tasks'[v][r].kind = "remove"
      PROVE  tasks'[v][r].tags = {}
  BY <1>1, <1>2 DEF TaskType
<1> QED BY <1>1, <1>2 DEF TaskType, Puts

\* What SetStatus does to the rows.
LEMMA SetStatusType ==
  ASSUME UserType, NEW S, NEW st \in Statuses \cup {"gone"}, SetStatus(S, st)
  PROVE  /\ status' \in [Users -> Statuses \cup {"none", "gone"}]
         /\ \A u \in Users : status'[u] = IF u \in S THEN st ELSE status[u]
         /\ st \in Statuses => Rows \subseteq Rows'
  BY DEF SetStatus, UserType, Rows

\* What ReqGoto does, and a request that goes on to a restart of the nodes.
LEMMA ReqGotoType ==
  ASSUME NEW u \in Users,
         NEW pc \in {"create", "revoke", "disable", "enable", "extend"}, ReqGoto(pc, u)
  PROVE  /\ req' \in Reqs /\ req'.pc = pc /\ req'.of = {u} /\ req'.seen = "none"
  BY DEF ReqGoto, NoReq, NoBody, Reqs, Bodies

LEMMA RestartType ==
  ASSUME req' = [NoReq EXCEPT !.pc = "restart"]
  PROVE  /\ req' \in Reqs /\ req'.pc = "restart" /\ req'.of = {} /\ req'.seen = "none"
  BY DEF NoReq, NoBody, Reqs, Bodies

LEMMA NoReqType ==
  ASSUME req' = NoReq PROVE ReqType'
  BY EmptyTypes DEF ReqType

LEMMA NewLimitType ==
  ASSUME UserType, NEW limit \in {"same", "raised", "lowered"}, NEW S \in SUBSET Users,
         over' \in NewLimit(limit, S)
  PROVE  over' \in SUBSET Users
  BY DEF NewLimit, UserType

\* The requests about one user keep the types.
LEMMA TypesRequest ==
  ASSUME Types, NEW u \in Users,
         \/ CreateUser(u) \/ RevokeUserSubscription(u) \/ DeleteUser(u)
         \/ DisableUser(u) \/ EnableUser(u) \/ ResetRead(u) \/ UpdateRead(u)
         \/ Extend(u) \/ BulkSquads(u)
  PROVE  /\ UserType' /\ inbounds' \in [Squads -> SUBSET Tags] /\ ReqType' /\ TaskType'
         /\ NodeType' /\ CountType'
<1> USE DEF Types
<1>0. ASSUME UNCHANGED <<nodeVars, changes>>, \/ requests' = requests \/ requests' = requests + 1
      PROVE  NodeType' /\ CountType'
  BY <1>0 DEF nodeVars, NodeType, CountType
<1>1. CASE CreateUser(u)
  <2>1. PICK st \in {"ACTIVE", "DISABLED"} : SetStatus({u}, st)
    BY <1>1 DEF CreateUser
  <2>2. UserType'
    BY <1>1, <2>1, SetStatusType DEF CreateUser, UserType, Statuses
  <2>3. ReqType'
    BY <1>1, <2>1, SetStatusType, ReqGotoType DEF CreateUser, ReqType, Rows, Statuses
  <2> QED BY <1>0, <1>1, <2>2, <2>3 DEF CreateUser, boundVars, TaskType
<1>2. CASE RevokeUserSubscription(u)
  <2>1. UserType'
    BY <1>2 DEF RevokeUserSubscription, UserType
  <2>2. ReqType'
    BY <1>2, ReqGotoType DEF RevokeUserSubscription, ReqType, Rows
  <2> QED BY <1>0, <1>2, <2>1, <2>2 DEF RevokeUserSubscription, Ask, TaskType
<1>3. CASE DeleteUser(u)
  <2>1. UserType'
    BY <1>3, SetStatusType DEF DeleteUser, UserType
  <2>2. ReqType'
    BY <1>3 DEF DeleteUser, Ask, ReqType
  <2>3. TaskType'
    BY <1>3, PublishType DEF DeleteUser
  <2> QED BY <1>0, <1>3, <2>1, <2>2, <2>3 DEF DeleteUser, Ask
<1>4. CASE DisableUser(u) \/ EnableUser(u)
  <2>1. PICK st \in {"ACTIVE", "DISABLED"} : SetStatus({u}, st)
    BY <1>4 DEF DisableUser, EnableUser
  <2>2. UserType'
    BY <1>4, <2>1, SetStatusType DEF DisableUser, EnableUser, UserType, Statuses
  <2>3. ReqType'
    BY <1>4, <2>1, SetStatusType, ReqGotoType
    DEF DisableUser, EnableUser, ReqType, Rows, Statuses
  <2> QED BY <1>0, <1>4, <2>2, <2>3 DEF DisableUser, EnableUser, Ask, TaskType
<1>5. CASE ResetRead(u)
  <2>1. UserType'
    BY <1>5 DEF ResetRead, dbVars, userVars, UserType
  <2>2. ReqType'
    BY <1>5, <2>1 DEF ResetRead, dbVars, userVars, ReqType, Rows, NoReq, NoBody, Reqs, Bodies
  <2>3. TaskType'
    BY <1>5, PublishType DEF ResetRead, TaskType
  <2> QED BY <1>0, <1>5, <2>1, <2>2, <2>3 DEF ResetRead, Ask, dbVars
<1>6. CASE UpdateRead(u)
  <2>1. UserType'
    BY <1>6 DEF UpdateRead, dbVars, userVars, UserType
  <2>2. ReqType'
    BY <1>6, <2>1, UpdatesAssumption DEF UpdateRead, dbVars, userVars, ReqType, Rows, Reqs
  <2> QED BY <1>0, <1>6, <2>1, <2>2 DEF UpdateRead, Ask, dbVars, TaskType
<1>7. CASE Extend(u)
  <2>1. UserType'
    BY <1>7 DEF Extend, UserType
  <2>2. ReqType'
    BY <1>7, ReqGotoType DEF Extend, ReqType, Rows
  <2> QED BY <1>0, <1>7, <2>1, <2>2 DEF Extend, Ask, TaskType
<1>8. CASE BulkSquads(u)
  <2>1. UserType'
    BY <1>8 DEF BulkSquads, UserType
  <2>2. PICK b \in Updates :
          /\ b.squads # {"same"}
          /\ req' = [NoReq EXCEPT !.pc = "bulk", !.of = {u}, !.body = b]
    BY <1>8 DEF BulkSquads
  <2>3. /\ req' \in Reqs /\ req'.pc = "bulk" /\ req'.of = {u}
        /\ req'.body.squads \in SUBSET Squads
    BY <2>2, EmptyTypes, UpdatesAssumption DEF NoReq, Reqs, Bodies
  <2>4. ReqType'
    BY <1>8, <2>3 DEF BulkSquads, ReqType, Rows
  <2> QED BY <1>0, <1>8, <2>1, <2>4 DEF BulkSquads, Ask, TaskType
<1> QED BY <1>1, <1>2, <1>3, <1>4, <1>5, <1>6, <1>7, <1>8

\* The requests about many users and what follows them keep the types.
LEMMA TypesMany ==
  ASSUME Types,
         \/ \E q \in Squads : UpdateInternalSquad(q) \/ SquadMembers(q)
         \/ \E st \in Statuses : DeleteByStatus(st)
         \/ UpdateAll \/ SyncAll \/ RestartNodes
  PROVE  /\ UserType' /\ inbounds' \in [Squads -> SUBSET Tags] /\ ReqType' /\ TaskType'
         /\ NodeType' /\ CountType'
<1> USE DEF Types
<1>0. ASSUME UNCHANGED changes, \/ requests' = requests \/ requests' = requests + 1
      PROVE  CountType'
  BY <1>0 DEF CountType
<1>00. ASSUME UNCHANGED nodeVars
       PROVE  NodeType'
  BY <1>00 DEF nodeVars, NodeType
<1>1. ASSUME NEW q \in Squads, UpdateInternalSquad(q)
      PROVE  UserType' /\ inbounds' \in [Squads -> SUBSET Tags] /\ ReqType'
  <2>1. UserType'
    BY <1>1 DEF UpdateInternalSquad, userVars, UserType
  <2>2. inbounds' \in [Squads -> SUBSET Tags]
    BY <1>1 DEF UpdateInternalSquad
  <2> QED BY <1>1, <2>1, <2>2, RestartType DEF UpdateInternalSquad, ReqType
<1>2. ASSUME NEW q \in Squads, SquadMembers(q)
      PROVE  UserType' /\ ReqType'
  <2>1. UserType'
    BY <1>2 DEF SquadMembers, UserType
  <2> QED BY <1>2, <2>1, RestartType, NoReqType DEF SquadMembers, ReqType
<1>3. ASSUME NEW st \in Statuses, DeleteByStatus(st)
      PROVE  UserType' /\ ReqType'
  <2>1. UserType'
    BY <1>3, SetStatusType DEF DeleteByStatus, UserType
  <2> QED BY <1>3, <2>1, RestartType, NoReqType DEF DeleteByStatus, ReqType
<1>4. ASSUME UpdateAll
      PROVE  UserType' /\ ReqType'
  <2>1. PICK b \in Updates :
          /\ IF b.status = "same" THEN UNCHANGED status ELSE SetStatus(Rows, b.status)
          /\ over' \in NewLimit(b.limit, Rows)
          /\ past' = IF b.expire = "later" THEN {} ELSE past
          /\ req' = [NoReq EXCEPT !.pc = "sync", !.body = b]
    BY <1>4 DEF UpdateAll
  <2>2. b \in Bodies
    BY UpdatesAssumption
  <2>3. over' \in SUBSET Users
    BY <2>1, <2>2, NewLimitType DEF Bodies, Rows
  <2>4. status' \in [Users -> Statuses \cup {"none", "gone"}]
    BY <2>1, <2>2, SetStatusType DEF Bodies, Statuses, UserType
  <2>5. UserType'
    BY <1>4, <2>1, <2>3, <2>4 DEF UpdateAll, UserType
  <2> QED BY <2>1, <2>2, <2>5 DEF ReqType, NoReq, Reqs
<1>5. ASSUME SyncAll
      PROVE  UserType' /\ ReqType'
  <2>1. UserType'
    BY <1>5, SetStatusType DEF SyncAll, UserType, Statuses
  <2> QED BY <1>5, <2>1, RestartType DEF SyncAll, ReqType
<1>6. ASSUME RestartNodes
      PROVE  UserType' /\ ReqType' /\ NodeType'
  <2>1. UserType' /\ NodeType'
    BY <1>6 DEF RestartNodes, dbVars, userVars, UserType, NodeType
  <2> QED BY <1>6, <2>1, NoReqType DEF RestartNodes
<1>7. CASE \E q \in Squads : UpdateInternalSquad(q)
  BY <1>0, <1>00, <1>1, <1>7 DEF UpdateInternalSquad, Ask, TaskType
<1>8. CASE \E q \in Squads : SquadMembers(q)
  BY <1>0, <1>00, <1>2, <1>8 DEF SquadMembers, Ask, TaskType
<1>9. CASE \E st \in Statuses : DeleteByStatus(st)
  BY <1>0, <1>00, <1>3, <1>9 DEF DeleteByStatus, Ask, TaskType
<1>10. CASE UpdateAll
  BY <1>0, <1>00, <1>4, <1>10 DEF UpdateAll, Ask, TaskType
<1>11. CASE SyncAll
  BY <1>0, <1>00, <1>5, <1>11 DEF SyncAll, boundVars, TaskType
<1>12. CASE RestartNodes
  BY <1>0, <1>6, <1>12 DEF RestartNodes, boundVars, dbVars, TaskType
<1> QED BY <1>7, <1>8, <1>9, <1>10, <1>11, <1>12

\* What follows a request about one user keeps the types.
LEMMA TypesProceed ==
  ASSUME Types, NEW u \in Users,
         \/ AddIfActive(u) \/ SwitchPublish(u) \/ ResetWrite(u)
         \/ UpdateWrite(u) \/ ExtendSync(u) \/ BulkSquadsAdd(u)
  PROVE  /\ UserType' /\ inbounds' \in [Squads -> SUBSET Tags] /\ ReqType' /\ TaskType'
         /\ NodeType' /\ CountType'
<1> USE DEF Types
<1>0. ASSUME UNCHANGED <<nodeVars, boundVars>>
      PROVE  NodeType' /\ CountType'
  BY <1>0 DEF nodeVars, boundVars, NodeType, CountType
<1>1. CASE AddIfActive(u)
  <2>1. UserType' /\ inbounds' \in [Squads -> SUBSET Tags]
    BY <1>1 DEF AddIfActive, dbVars, userVars, UserType
  <2>2. TaskType'
    BY <1>1, PublishType DEF AddIfActive, TaskType
  <2> QED BY <1>0, <1>1, <2>1, <2>2, NoReqType DEF AddIfActive
<1>2. CASE SwitchPublish(u)
  <2>1. UserType' /\ inbounds' \in [Squads -> SUBSET Tags]
    BY <1>2 DEF SwitchPublish, dbVars, userVars, UserType
  <2>2. TaskType'
    BY <1>2, PublishType DEF SwitchPublish
  <2> QED BY <1>0, <1>2, <2>1, <2>2, NoReqType DEF SwitchPublish
<1>3. CASE ResetWrite(u)
  <2>1. (IF req.seen = "LIMITED" THEN "ACTIVE" ELSE status[u]) \in Statuses
    BY <1>3 DEF ResetWrite, ReqType, Rows, Statuses
  <2>2. UserType'
    BY <1>3, <2>1, SetStatusType DEF ResetWrite, UserType
  <2> QED BY <1>0, <1>3, <2>2, NoReqType DEF ResetWrite, TaskType
<1>4. CASE UpdateWrite(u)
  <2>1. req.body \in Bodies /\ status[u] \in Statuses
    BY <1>4 DEF UpdateWrite, ReqType, Reqs, Rows
  <2>2. status' \in [Users -> Statuses \cup {"none", "gone"}]
    BY <1>4, <2>1 DEF UpdateWrite, SetStatus, UserType, Statuses
  <2>3. squads' \in [Users -> SUBSET Squads]
    BY <1>4, <2>1 DEF UpdateWrite, UserType, Bodies
  <2>4. over' \in SUBSET Users
    BY <1>4, <2>1, NewLimitType DEF UpdateWrite, Bodies
  <2>5. UserType'
    BY <1>4, <2>2, <2>3, <2>4 DEF UpdateWrite, UserType
  <2>6. TaskType'
    BY <1>4, PublishType DEF UpdateWrite, TaskType
  <2>7. ReqType' /\ inbounds' \in [Squads -> SUBSET Tags]
    BY <1>4, NoReqType DEF UpdateWrite
  <2> QED BY <1>0, <1>4, <2>5, <2>6, <2>7 DEF UpdateWrite
<1>5. CASE ExtendSync(u)
  <2>1. CASE status[u] = "EXPIRED" /\ u \notin past
    <3>1. SetStatus({u}, "ACTIVE") /\ ReqGoto("enable", u)
      BY <1>5, <2>1 DEF ExtendSync
    <3>2. UserType'
      BY <1>5, <3>1, SetStatusType DEF ExtendSync, UserType, Statuses
    <3>3. ReqType'
      BY <1>5, <3>1, SetStatusType, ReqGotoType DEF ExtendSync, ReqType, Rows, Statuses
    <3> QED BY <1>0, <1>5, <3>2, <3>3 DEF ExtendSync, TaskType
  <2>2. CASE ~(status[u] = "EXPIRED" /\ u \notin past)
    BY <1>0, <1>5, <2>2, NoReqType DEF ExtendSync, UserType, TaskType
  <2> QED BY <2>1, <2>2
<1>6. CASE BulkSquadsAdd(u)
  <2>1. req.body.squads \in SUBSET Squads
    BY <1>6 DEF BulkSquadsAdd, ReqType
  <2>2. TaskType'
    BY <1>6, PublishType DEF BulkSquadsAdd
  <2> QED BY <1>0, <1>6, <2>1, <2>2, NoReqType DEF BulkSquadsAdd, UserType
<1> QED BY <1>1, <1>2, <1>3, <1>4, <1>5, <1>6

\* The watchdog, time and traffic keep the types.
LEMMA TypesWatch ==
  ASSUME Types,
         \/ WatchExceeded \/ WatchExpired \/ BatchReset
         \/ \E u \in Users : UseUp(u) \/ Pass(u)
  PROVE  /\ UserType' /\ inbounds' \in [Squads -> SUBSET Tags] /\ ReqType' /\ TaskType'
         /\ NodeType' /\ CountType'
<1> USE DEF Types
<1>0. ASSUME UNCHANGED <<nodeVars, requests>>, Change \/ UNCHANGED changes
      PROVE  NodeType' /\ CountType'
  BY <1>0 DEF nodeVars, NodeType, CountType, Change
<1>1. ASSUME NEW S \in SUBSET Users, NEW st \in Statuses, SetStatus(S, st),
             NEW kind \in {"add", "remove"}, AddTasks(S, kind, "found"),
             over' \in SUBSET Users, UNCHANGED <<squads, version, past, req>>
      PROVE  UserType' /\ ReqType' /\ TaskType'
  BY <1>1, SetStatusType, AddTasksType DEF UserType, ReqType
<1>2. CASE WatchExceeded
  <2> DEFINE S == {u \in over : status[u] = "ACTIVE"}
  <2>1. S \in SUBSET Users /\ over' \in SUBSET Users
    BY <1>2 DEF WatchExceeded, UserType
  <2>2. SetStatus(S, "LIMITED") /\ AddTasks(S, "remove", "found")
    BY <1>2 DEF WatchExceeded
  <2> HIDE DEF S
  <2>3. UserType' /\ ReqType' /\ TaskType'
    BY <1>1, <1>2, <2>1, <2>2 DEF WatchExceeded, Statuses
  <2> QED BY <1>0, <1>2, <2>3 DEF WatchExceeded, boundVars
<1>3. CASE WatchExpired
  <2> DEFINE S == {u \in past : status[u] \in {"ACTIVE", "LIMITED"}}
  <2>1. S \in SUBSET Users /\ over' \in SUBSET Users
    BY <1>3 DEF WatchExpired, UserType
  <2>2. SetStatus(S, "EXPIRED") /\ AddTasks(S, "remove", "found")
    BY <1>3 DEF WatchExpired
  <2> HIDE DEF S
  <2>3. UserType' /\ ReqType' /\ TaskType'
    BY <1>1, <1>3, <2>1, <2>2 DEF WatchExpired, Statuses
  <2> QED BY <1>0, <1>3, <2>3 DEF WatchExpired, boundVars
<1>4. CASE BatchReset
  <2> DEFINE S == {u \in Users : status[u] = "LIMITED"}
  <2>1. S \in SUBSET Users /\ over' \in SUBSET Users
    BY <1>4 DEF BatchReset
  <2>2. SetStatus(S, "ACTIVE") /\ AddTasks(S, "add", "found")
    BY <1>4 DEF BatchReset
  <2> HIDE DEF S
  <2>3. UserType' /\ ReqType' /\ TaskType'
    BY <1>1, <1>4, <2>1, <2>2 DEF BatchReset, Statuses
  <2> QED BY <1>0, <1>4, <2>3 DEF BatchReset
<1>5. ASSUME NEW u \in Users, UseUp(u) \/ Pass(u)
      PROVE  UserType' /\ ReqType' /\ TaskType'
  BY <1>5 DEF UseUp, Pass, UserType, ReqType, Rows, TaskType
<1>6. CASE \E u \in Users : UseUp(u) \/ Pass(u)
  BY <1>0, <1>5, <1>6 DEF UseUp, Pass
<1> QED BY <1>2, <1>3, <1>4, <1>6

\* A task of each pc and kind, as the handlers make them.
LEMMA SendType ==
  ASSUME NEW t \in TaskRecords, NEW to \in SUBSET Nodes
  PROVE  /\ Send(t, to) \in TaskRecords
         /\ to = {} => Send(t, to) = NoTask
         /\ to # {} => /\ Send(t, to).pc = "jobs" /\ Send(t, to).kind = t.kind
                       /\ Send(t, to).tags = t.tags /\ Send(t, to).version = t.version
                       /\ Send(t, to).to = to
  BY EmptyTypes DEF Send, TaskRecords

\* The handlers of events and the jobs keep the types.
LEMMA TypesHandle ==
  ASSUME Types, NEW u \in Users, NEW s \in Slots, Handle(u, s)
  PROVE  /\ UserType' /\ inbounds' \in [Squads -> SUBSET Tags] /\ ReqType' /\ TaskType'
         /\ NodeType' /\ CountType'
<1> USE DEF Types
<1> DEFINE t == tasks[u][s]
<1>t. t \in TaskRecords /\ (t.kind = "remove" => t.tags = {})
  BY DEF TaskType
<1>u. InboundsOf(u) \in SUBSET Tags /\ version[u] \in Nat
  BY InboundsType DEF UserType
<1>r. Reached \in SUBSET Nodes /\ conn \in SUBSET Nodes
  BY DEF Reached, NodeType
<1>0. ASSUME UNCHANGED <<dbVars, req, boundVars>>
      PROVE  UserType' /\ inbounds' \in [Squads -> SUBSET Tags] /\ ReqType' /\ CountType'
  BY <1>0 DEF dbVars, userVars, boundVars, UserType, ReqType, Rows, CountType
<1>00. ASSUME UNCHANGED nodeVars
       PROVE  NodeType'
  BY <1>00 DEF nodeVars, NodeType
<1>1. CASE Fire(u, s) \/ UserEvent(u, s)
  <2>1. \E r \in {NoTask, [t EXCEPT !.pc = "queued"], [t EXCEPT !.pc = "event"]} :
          SetTask(u, s, r)
    BY <1>1 DEF Fire, UserEvent
  <2>2. \A r \in {NoTask, [t EXCEPT !.pc = "queued"], [t EXCEPT !.pc = "event"]} :
          r \in TaskRecords /\ (r.kind = "remove" => r.tags = {})
    BY <1>t, EmptyTypes DEF TaskRecords
  <2>3. TaskType'
    BY <2>1, <2>2, SetTaskType
  <2> QED BY <1>0, <1>00, <1>1, <2>3 DEF Fire, UserEvent
<1>2. CASE AddReadUser(u, s)
  <2> DEFINE r == [t EXCEPT !.pc = "read", !.tags = InboundsOf(u), !.version = version[u]]
  <2>1. r \in TaskRecords /\ r.kind # "remove"
    BY <1>2, <1>t, <1>u DEF AddReadUser, TaskRecords
  <2>2. \E x \in {NoTask, r} : SetTask(u, s, x)
    BY <1>2 DEF AddReadUser
  <2>3. TaskType'
    BY <2>1, <2>2, EmptyTypes, SetTaskType
  <2> QED BY <1>0, <1>00, <1>2, <2>3 DEF AddReadUser
<1>3. CASE AddReadNodes(u, s)
  <2>1. SetTask(u, s, Send(t, Reached)) /\ t.kind = "add"
    BY <1>3 DEF AddReadNodes
  <2>2. TaskType'
    BY <2>1, <1>t, <1>r, SendType, EmptyTypes, SetTaskType
  <2> QED BY <1>0, <1>00, <1>3, <2>2 DEF AddReadNodes
<1>4. CASE AddsReadNodes(u, s)
  <2> DEFINE r == [t EXCEPT !.pc = "read", !.to = Reached]
  <2>1. r \in TaskRecords /\ r.kind # "remove"
    BY <1>4, <1>t, <1>r DEF AddsReadNodes, TaskRecords
  <2>2. \E x \in {NoTask, r} : SetTask(u, s, x)
    BY <1>4 DEF AddsReadNodes
  <2>3. TaskType'
    BY <2>1, <2>2, EmptyTypes, SetTaskType
  <2> QED BY <1>0, <1>00, <1>4, <2>3 DEF AddsReadNodes
<1>5. CASE AddsReadUsers(u, s)
  <2> DEFINE r == [t EXCEPT !.tags = InboundsOf(u), !.version = version[u]]
  <2>1. r \in TaskRecords /\ r.kind # "remove" /\ t.to \in SUBSET Nodes
    BY <1>5, <1>t, <1>u DEF AddsReadUsers, TaskRecords
  <2>2. \E x \in {NoTask, Send(r, t.to)} : SetTask(u, s, x)
    BY <1>5 DEF AddsReadUsers
  <2> HIDE DEF r
  <2>3. TaskType'
    BY <2>1, <2>2, SendType, EmptyTypes, SetTaskType
  <2> QED BY <1>0, <1>00, <1>5, <2>3 DEF AddsReadUsers
<1>6. CASE RemoveReadNodes(u, s)
  <2>1. SetTask(u, s, Send(t, conn))
    BY <1>6 DEF RemoveReadNodes
  <2>2. TaskType'
    BY <2>1, <1>t, <1>r, SendType, EmptyTypes, SetTaskType
  <2> QED BY <1>0, <1>00, <1>6, <2>2 DEF RemoveReadNodes
<1>7. ASSUME NEW n \in Nodes, Job(u, s, n)
      PROVE  /\ UserType' /\ inbounds' \in [Squads -> SUBSET Tags] /\ ReqType' /\ TaskType'
             /\ NodeType' /\ CountType'
  <2>1. SetTask(u, s, Send(t, t.to \ {n})) /\ t.to \ {n} \in SUBSET Nodes
    BY <1>7, <1>t DEF Job, TaskRecords
  <2>2. TaskType'
    BY <2>1, <1>t, SendType, EmptyTypes, SetTaskType
  <2>3. \A a \in {Given(u, t.tags, t.version, n)} \cup Partly(u, t, n) : a \in Access
    <3>1. core[n][u].tags \in SUBSET Tags /\ core[n][u].version \in Nat
      BY DEF NodeType, Access
    <3>2. t.tags \in SUBSET Tags /\ t.version \in Nat
      BY <1>t DEF TaskRecords
    <3> QED BY <3>1, <3>2, GivenType DEF Partly
  <2>4. core' \in [Nodes -> [Users -> Access]]
    <3>1. PICK a \in {Given(u, t.tags, t.version, n)} \cup Partly(u, t, n) :
            core' = [core EXCEPT ![n][u] = a]
      BY <1>7 DEF Job
    <3> QED BY <2>3, <3>1 DEF NodeType
  <2>5. NodeType'
    BY <1>7, <2>4 DEF Job, NodeType
  <2> QED BY <1>0, <1>7, <2>2, <2>5 DEF Job
<1> QED BY <1>1, <1>2, <1>3, <1>4, <1>5, <1>6, <1>7 DEF Handle

\* The starts of nodes keep the types.
LEMMA TypesStart ==
  ASSUME Types, NEW n \in Nodes, StartMark(n) \/ Start(n) \/ StartDropped(n) \/ Lose(n)
  PROVE  /\ UserType' /\ inbounds' \in [Squads -> SUBSET Tags] /\ ReqType' /\ TaskType'
         /\ NodeType' /\ CountType'
<1> USE DEF Types
<1>0. UNCHANGED <<dbVars, req, tasks, requests>>
  BY DEF StartMark, Start, StartRead, StartCore, StartSkip, StartDone, StartDropped, Lose, boundVars
<1>1. UserType' /\ inbounds' \in [Squads -> SUBSET Tags] /\ ReqType' /\ TaskType'
  BY <1>0 DEF dbVars, userVars, UserType, ReqType, Rows, TaskType
<1>2. CountType'
  BY <1>0 DEF StartMark, Start, StartRead, StartCore, StartSkip, StartDone, StartDropped, Lose, boundVars, Change,
              CountType
<1>3. conn' \in SUBSET Nodes /\ due' \in SUBSET Nodes
  BY DEF StartMark, Start, StartRead, StartCore, StartSkip, StartDone, StartDropped, Lose, NodeType
<1>4. start' \in [Nodes -> Starts]
  <2>1. \A u \in Users : Wanted(n, u) \in Access
    BY WantedType
  <2>2. start[n] \in Starts
    BY DEF NodeType
  <2>3. [start[n] EXCEPT !.pc = "marked"] \in Starts
    BY <2>2 DEF Starts
  <2>4. [pc |-> "read", users |-> [u \in Users |-> Wanted(n, u)]] \in Starts
    BY <2>1 DEF Starts
  <2>5. \A pc \in {"core", "kept"} : [NoStart EXCEPT !.pc = pc] \in Starts
    BY EmptyTypes DEF NoStart, Starts
  <2>6. CASE StartMark(n)
    BY <2>3, <2>6 DEF StartMark, NodeType
  <2>7. CASE StartRead(n)
    BY <2>4, <2>7 DEF StartRead, NodeType
  <2>8. CASE StartCore(n) \/ StartSkip(n)
    BY <2>5, <2>8 DEF StartCore, StartSkip, NodeType
  <2>9. CASE StartDone(n) \/ Lose(n)
    BY <2>9, EmptyTypes DEF StartDone, Lose, NodeType
  <2>10. CASE StartDropped(n)
    BY <2>10 DEF StartDropped, NodeType
  <2> QED BY <2>6, <2>7, <2>8, <2>9, <2>10 DEF Start
<1>5. core' \in [Nodes -> [Users -> Access]]
  <2>1. start[n].users \in [Users -> Access]
    BY DEF NodeType, Starts
  <2> QED BY <2>1, EmptyTypes
          DEF StartMark, Start, StartRead, StartCore, StartSkip, StartDone, StartDropped, Lose, NodeType
<1> QED BY <1>1, <1>2, <1>3, <1>4, <1>5 DEF NodeType

\* Every step keeps the types.
LEMMA TypesInit == Init => Types
<1> SUFFICES ASSUME Init PROVE Types
  OBVIOUS
<1> USE DEF Init
<1>1. UserType
  BY DEF UserType
<1>2. ReqType
  BY EmptyTypes DEF ReqType
<1>3. TaskType
  BY EmptyTypes DEF TaskType
<1>4. NodeType
  BY EmptyTypes DEF NodeType
<1>5. inbounds \in [Squads -> SUBSET Tags] /\ CountType
  BY InboundsAssumption DEF CountType
<1> QED BY <1>1, <1>2, <1>3, <1>4, <1>5 DEF Types

LEMMA TypesNext == Types /\ [Next]_vars => Types'
<1> SUFFICES ASSUME Types, [Next]_vars PROVE Types'
  OBVIOUS
<1>1. CASE Next
  <2>1. late' \subseteq stale' /\ stale' \in SUBSET (Nodes \X Users)
    BY <1>1 DEF Next, Note, Types
  <2>2. /\ UserType' /\ inbounds' \in [Squads -> SUBSET Tags] /\ ReqType' /\ TaskType'
        /\ NodeType' /\ CountType'
    <3>1. CASE Request
      BY <3>1, TypesRequest, TypesMany DEF Request
    <3>2. CASE Proceed
      BY <3>2, TypesProceed, TypesMany DEF Proceed
    <3>3. CASE Watch \/ BatchReset \/ \E u \in Users : UseUp(u) \/ Pass(u)
      BY <3>3, TypesWatch DEF Watch
    <3>4. CASE \E u \in Users : \E s \in Slots : Handle(u, s)
      BY <3>4, TypesHandle
    <3>5. CASE \E n \in Nodes : StartMark(n) \/ Start(n) \/ StartDropped(n) \/ Lose(n)
      BY <3>5, TypesStart
    <3> QED BY <1>1, <3>1, <3>2, <3>3, <3>4, <3>5 DEF Next, Step
  <2> QED BY <2>1, <2>2 DEF Types
<1>2. CASE UNCHANGED vars
  BY <1>2 DEF vars, dbVars, userVars, nodeVars, boundVars, history, Types, UserType, ReqType, Rows,
              TaskType, NodeType, CountType
<1> QED BY <1>1, <1>2

\* Rows, requests, events, jobs and what nodes let in hold values of their kinds,
\* whatever requests there are: a request is about users that have a row, and a job
\* that removes a user names no inbounds.
THEOREM TypeCorrect == Spec => []TypeOK
<1>1. Types => TypeOK
  BY DEF Types, TypeOK, UserType, ReqType, TaskType, NodeType, CountType
<1> QED BY <1>1, TypesInit, TypesNext, PTL DEF Spec

-----------------------------------------------------------------------------
(* Who a node lets in.                                                     *)

\* No body both disables a user and moves the user to other squads: such a body
\* publishes nothing that removes the user.
Separate == \A b \in Updates : b.status = "DISABLED" => b.squads \in {{"same"}, {}}

\* resetUserTraffic has published the event and has not written the status yet.
Resets(u) == req.pc = "reset" /\ u \in req.of /\ req.seen = "LIMITED"

\* Who is ACTIVE, or is about to be, and what a node is to let in of a user.
Live(u) == status[u] = "ACTIVE" \/ Resets(u)
Goal(n, u) == IF Live(u) THEN Given(u, InboundsOf(u), version[u], n) ELSE Out

\* The request that is being handled has yet to publish an event about u, or to
\* restart the node, or the node waits for its restart.
Debt(n, u) ==
  \/ n \in due \/ req.pc \in {"sync", "restart"}
  \/ /\ u \in req.of
     /\ \/ req.pc \in {"disable", "enable"}
        \/ req.pc \in {"create", "revoke", "bulk"} /\ status[u] = "ACTIVE"

\* What becomes of the node, which has c for u, when event or job t is handled.
Good(t, n, u, c) ==
  /\ t.pc \in {"found", "queued", "event"} =>
       /\ t.kind = "add" => Live(u)
       /\ t.kind = "remove" => Goal(n, u) = Out
  /\ t.pc = "read" =>
       /\ t.kind # "remove"
       /\ t.kind = "add" =>
            Live(u) /\ t.tags = InboundsOf(u) /\ t.version = version[u]
       /\ t.kind = "adds" => n \in t.to \/ Serves[n] = {}
  /\ t.pc # "jobs" /\ t.kind = "adds" =>
       status[u] = "ACTIVE" \/ (~Live(u) /\ c = Out)
  /\ t.pc = "jobs" =>
       IF n \in t.to THEN Given(u, t.tags, t.version, n) = Goal(n, u)
                     ELSE c = Goal(n, u)

\* Who the node lets in, or will when what is under way is done.
Claim(n, u) ==
  /\ start[n].pc = "read" => start[n].users[u] = Goal(n, u)
  /\ start[n].pc \in {"core", "kept"} => core[n][u] = Goal(n, u)
  /\ start[n].pc = "none" /\ n \in conn =>
       /\ Tasks(u) = {} => core[n][u] = Goal(n, u)
       /\ \A s \in Tasks(u) : Good(tasks[u][s], n, u, core[n][u])
\* What is to be known while the users that were read have not come to the core,
\* and otherwise.
Doubt(n, u) == <<n, u>> \in (IF start[n].pc = "read" THEN late ELSE stale)
Line(n, u) == ~Doubt(n, u) /\ ~Debt(n, u) => Claim(n, u)
InLine == \A n \in Nodes, u \in Users : Line(n, u)

\* What the history rules out, and what is true between the write of a request
\* and its event.
Noted ==
  \A n \in Nodes, u \in Users : <<n, u>> \notin late =>
    /\ \A s \in Tasks(u), r \in Tasks(u) : s = r
    /\ start[n].pc # "none" => Tasks(u) = {} /\ ~Holds(u)
    /\ req.pc = "enable" /\ u \in req.of => status[u] = "ACTIVE"
Disabling == req.pc = "disable" => \A u \in req.of : status[u] = "DISABLED"
Unserved ==
  \A n \in Nodes, u \in Users :
    Serves[n] = {} => core[n][u] = Out /\ start[n].users[u] = Out

IInv == Types /\ Noted /\ Disabling /\ Unserved /\ InLine

\* What a step leaves when it does not note anything about a node and a user.
LEMMA NoteFacts ==
  ASSUME Note, NEW n \in Nodes, NEW u \in Users
  PROVE  /\ <<n, u>> \notin late' =>
              /\ ~Overlap(n, u) /\ ~Ignored(n, u) /\ ~Failed(n, u) /\ ~Dropped(n)
              /\ <<n, u>> \in late => Moved(n, "marked", "read")
         /\ <<n, u>> \notin stale' =>
              /\ ~Overlap(n, u) /\ ~Ignored(n, u) /\ ~Failed(n, u) /\ ~Dropped(n)
              /\ <<n, u>> \in stale => Moved(n, "read", "core") /\ <<n, u>> \notin late
<1> DEFINE N(p) == \/ Overlap(p[1], p[2]) \/ Ignored(p[1], p[2])
                   \/ Failed(p[1], p[2]) \/ Dropped(p[1])
           L(p) == ~Moved(p[1], "marked", "read")
           S(p) == Moved(p[1], "read", "core") => p \in late
<1>1. /\ late' = {p \in Nodes \X Users : N(p)} \cup {p \in late : L(p)}
      /\ stale' = {p \in Nodes \X Users : N(p)} \cup {p \in stale : S(p)}
  BY DEF Note
<1>2. <<n, u>> \in Nodes \X Users
  OBVIOUS
<1>3. <<n, u>> \notin late' => ~N(<<n, u>>) /\ (<<n, u>> \in late => ~L(<<n, u>>))
  <2> HIDE DEF N, L, S
  <2> QED BY <1>1, <1>2
<1>4. <<n, u>> \notin stale' => ~N(<<n, u>>) /\ (<<n, u>> \in stale => ~S(<<n, u>>))
  <2> HIDE DEF N, L, S
  <2> QED BY <1>1, <1>2
<1>5. (L(<<n, u>>) <=> ~Moved(n, "marked", "read"))
      /\ (S(<<n, u>>) <=> (Moved(n, "read", "core") => <<n, u>> \in late))
  OBVIOUS
<1>6. N(<<n, u>>) <=> Overlap(n, u) \/ Ignored(n, u) \/ Failed(n, u) \/ Dropped(n)
  OBVIOUS
<1> HIDE DEF N, L, S
<1> QED BY <1>3, <1>4, <1>5, <1>6

LEMMA DoubtFacts ==
  ASSUME Types, Note, NEW n \in Nodes, NEW u \in Users, ~Doubt(n, u)'
  PROVE  /\ ~Overlap(n, u) /\ ~Ignored(n, u) /\ ~Failed(n, u) /\ ~Dropped(n)
         /\ start'[n] = start[n] => ~Doubt(n, u) /\ <<n, u>> \notin late
         /\ start[n].pc = "read" /\ start'[n].pc # "read" => ~Doubt(n, u)
         /\ start[n].pc # "read" /\ start'[n].pc = "none" => ~Doubt(n, u)
         /\ start'[n].pc = "kept" => <<n, u>> \notin stale
<1>1. /\ start'[n].pc = "read" => <<n, u>> \notin late'
      /\ start'[n].pc # "read" => <<n, u>> \notin stale'
  BY DEF Doubt
<1>2. <<n, u>> \in late => <<n, u>> \in stale
  BY DEF Types
<1> QED BY <1>1, <1>2, NoteFacts DEF Doubt, Moved

LEMMA OneTask ==
  ASSUME NEW n \in Nodes, NEW u \in Users, ~Overlap(n, u)
  PROVE  /\ \A s \in Tasks(u)', r \in Tasks(u)' : s = r
         /\ start'[n].pc # "none" => Tasks(u)' = {} /\ ~Holds(u)'
         /\ Holds(u) /\ Holds(u)' => Tasks(u)' \subseteq Tasks(u)
  BY DEF Overlap

LEMMA InboundsSame ==
  ASSUME NEW u \in Users, inbounds' = inbounds, squads'[u] = squads[u]
  PROVE  InboundsOf(u)' = InboundsOf(u)
  BY DEF InboundsOf

\* Nothing is given to whom no inbound is left.
LEMMA GivenOut ==
  ASSUME NEW u, NEW v, NEW n, NEW S
  PROVE  /\ Given(u, {}, v, n) = Out
         /\ Serves[n] = {} => Given(u, S, v, n) = Out
  BY DEF Given

\* A step that leaves the user and what is under way about the user as they were.
Untouched(n, u) ==
  /\ tasks'[u] = tasks[u] /\ start'[n] = start[n] /\ core'[n][u] = core[n][u]
  /\ n \in conn' => n \in conn
  /\ Live(u)' <=> Live(u)
  /\ status[u] = "ACTIVE" => status'[u] = "ACTIVE"
  /\ Live(u) => InboundsOf(u)' = InboundsOf(u) /\ version'[u] = version[u]
  /\ Debt(n, u) => Debt(n, u)'

LEMMA KeptLine ==
  ASSUME NEW n \in Nodes, NEW u \in Users, Untouched(n, u), Line(n, u),
         ~Doubt(n, u), ~Debt(n, u)'
  PROVE  Claim(n, u)'
<1>1. Claim(n, u)
  BY DEF Line, Untouched
<1>2. Goal(n, u)' = Goal(n, u)
  BY DEF Goal, Untouched, Given
<1>3. Tasks(u)' = Tasks(u)
  BY DEF Tasks, Untouched
<1>4. ASSUME start'[n].pc = "none", n \in conn', NEW s \in Tasks(u)'
      PROVE  Good(tasks[u][s], n, u, core[n][u])'
  <2>1. Good(tasks[u][s], n, u, core[n][u])
    BY <1>1, <1>3, <1>4 DEF Claim, Untouched
  <2>2. tasks'[u][s] = tasks[u][s] /\ core'[n][u] = core[n][u]
    BY DEF Untouched
  <2> QED BY <2>1, <2>2, <1>2 DEF Good, Untouched
<1> QED BY <1>1, <1>2, <1>3, <1>4 DEF Claim, Untouched

\* A step of a request about another user.
LEMMA OtherLine ==
  ASSUME NEW n \in Nodes, NEW u \in Users, Line(n, u), ~Doubt(n, u), ~Debt(n, u)',
         tasks'[u] = tasks[u], status'[u] = status[u], squads'[u] = squads[u],
         version'[u] = version[u], inbounds' = inbounds, UNCHANGED nodeVars,
         u \notin req.of, u \notin req'.of, req.pc \notin {"sync", "restart"}
  PROVE  Claim(n, u)'
<1>1. InboundsOf(u)' = InboundsOf(u)
  BY InboundsSame
<1>2. Untouched(n, u)
  BY <1>1 DEF Untouched, nodeVars, Live, Resets, Debt
<1> QED BY <1>2, KeptLine

\* A step after which there is one event more about the user.
LEMMA FreshLine ==
  ASSUME NEW n \in Nodes, NEW u \in Users, ~Overlap(n, u), TaskType', NEW s \in Slots,
         NEW kind \in {"add", "adds", "remove"}, NEW pc \in {"found", "event"},
         Adds(u, s, kind, pc), core'[n][u] = core[n][u],
         kind = "add" => Live(u)',
         kind = "remove" => Goal(n, u)' = Out,
         kind = "adds" => \/ status'[u] = "ACTIVE"
                          \/ n \in conn' => ~Live(u)' /\ core'[n][u] = Out
  PROVE  Claim(n, u)' /\ start'[n].pc = "none" /\ Tasks(u) = {}
<1>1. s \in Tasks(u)'
  BY DEF Adds, Tasks
<1>2. Tasks(u)' = {s}
  BY <1>1, OneTask
<1>3. start'[n].pc = "none"
  BY <1>1, OneTask
<1>4. n \in conn' => Good(tasks[u][s], n, u, core[n][u])'
  BY DEF Good, Adds
<1>5. Tasks(u) = {}
  BY <1>2 DEF Adds, Tasks
<1> QED BY <1>1, <1>2, <1>3, <1>4, <1>5 DEF Claim

LEMMA PutsSet ==
  ASSUME TaskType, NEW u \in Users, NEW s \in Slots, NEW r, SetTask(u, s, r)
  PROVE  Puts(u, s, r)
  BY DEF SetTask, TaskType, Puts

\* A step of a handler, or a job, that makes r of the event about the user.
LEMMA TaskLine ==
  ASSUME NEW n \in Nodes, NEW u \in Users, NEW s \in Slots, Noted, Line(n, u),
         ~Doubt(n, u), <<n, u>> \notin late, ~Debt(n, u)', s \in Tasks(u), NEW r, Puts(u, s, r),
         UNCHANGED <<dbVars, req, conn, start, due>>,
         n \in conn /\ start[n].pc = "none" /\ Good(tasks[u][s], n, u, core[n][u]) =>
           IF r.pc = "none" THEN core'[n][u] = Goal(n, u)
                            ELSE Good(r, n, u, core'[n][u])
  PROVE  Claim(n, u)'
<1>1. InboundsOf(u)' = InboundsOf(u)
  BY InboundsSame DEF dbVars, userVars
<1>2. (Live(u)' <=> Live(u)) /\ Goal(n, u)' = Goal(n, u) /\ (Debt(n, u)' <=> Debt(n, u))
  BY <1>1 DEF Live, Resets, Goal, Given, Debt, dbVars, userVars
<1>3. Claim(n, u) /\ start[n].pc = "none" /\ Tasks(u) = {s}
  BY <1>2 DEF Line, Noted
<1>4. Tasks(u)' = IF r.pc = "none" THEN {} ELSE {s}
  BY <1>3 DEF Puts, Tasks
<1>5. ASSUME n \in conn, r.pc # "none"
      PROVE  Good(tasks[u][s], n, u, core[n][u])'
  <2>1. Good(r, n, u, core'[n][u])
    BY <1>3, <1>5 DEF Claim
  <2>2. tasks'[u][s] = r
    BY DEF Puts
  <2> QED BY <2>1, <2>2, <1>1, <1>2 DEF Good, dbVars, userVars
<1>6. ASSUME n \in conn, r.pc = "none"
      PROVE  core'[n][u] = Goal(n, u)'
  BY <1>2, <1>3, <1>6 DEF Claim
<1> QED BY <1>3, <1>4, <1>5, <1>6 DEF Claim

\* What a handler, or a job, of an event about w leaves alone.
LEMMA HandleFrame ==
  ASSUME NEW w \in Users, NEW s \in Slots, Handle(w, s)
  PROVE  /\ UNCHANGED <<dbVars, req, conn, start, due>> /\ s \in Tasks(w)
         /\ Types => /\ \A v \in Users \ {w} : tasks'[v] = tasks[v]
                     /\ \A n \in Nodes, v \in Users \ {w} : core'[n][v] = core[n][v]
<1>1. UNCHANGED <<dbVars, req, conn, start, due>> /\ s \in Tasks(w)
  BY DEF Handle, Fire, UserEvent, AddReadUser, AddReadNodes, AddsReadNodes, AddsReadUsers,
         RemoveReadNodes, Job, nodeVars, Tasks
<1>2. \E r : SetTask(w, s, r)
  BY DEF Handle, Fire, UserEvent, AddReadUser, AddReadNodes, AddsReadNodes, AddsReadUsers,
         RemoveReadNodes, Job
<1>3. Types => \A v \in Users \ {w} : tasks'[v] = tasks[v]
  BY <1>2, PutsSet DEF Types, Puts
<1>4. CASE \E m \in Nodes : Job(w, s, m)
  BY <1>1, <1>3, <1>4 DEF Job, Types, NodeType
<1>5. CASE ~\E m \in Nodes : Job(w, s, m)
  <2>1. core' = core
    BY <1>5 DEF Handle, Fire, UserEvent, AddReadUser, AddReadNodes, AddsReadNodes,
           AddsReadUsers, RemoveReadNodes, nodeVars
  <2> QED BY <1>1, <1>3, <2>1
<1> QED BY <1>4, <1>5

\* The handler of an event about u, or a job about u.
LEMMA OwnLine ==
  ASSUME IInv, Note, NEW u \in Users, NEW s \in Slots, Handle(u, s),
         NEW n \in Nodes, ~Doubt(n, u)', ~Debt(n, u)'
  PROVE  Claim(n, u)'
<1>a. UNCHANGED <<dbVars, req, conn, start, due>> /\ s \in Tasks(u)
  BY HandleFrame
<1>b. /\ ~Doubt(n, u) /\ <<n, u>> \notin late /\ ~Ignored(n, u) /\ ~Failed(n, u)
  BY <1>a, DoubtFacts DEF IInv
<1>c. Line(n, u) /\ Noted /\ TaskType
  BY DEF IInv, InLine, Types
<1> DEFINE t == tasks[u][s]
<1>d. t \in TaskRecords /\ (t.kind = "remove" => t.tags = {})
  BY <1>c DEF TaskType
<1>1. ASSUME NEW r, SetTask(u, s, r),
             n \in conn /\ start[n].pc = "none" /\ Good(t, n, u, core[n][u]) =>
               IF r.pc = "none" THEN core'[n][u] = Goal(n, u)
                                ELSE Good(r, n, u, core'[n][u])
      PROVE  Claim(n, u)'
  BY <1>1, <1>a, <1>b, <1>c, PutsSet, TaskLine
<1>2. ~Live(u) => Goal(n, u) = Out
  BY DEF Goal
<1>3. Live(u) => Goal(n, u) = Given(u, InboundsOf(u), version[u], n) /\ u \in Rows
  BY DEF Goal, Live, Resets, Rows, Statuses, IInv, Types, ReqType
<1>4. Serves[n] = {} => core[n][u] = Out /\ Goal(n, u) = Out
  BY GivenOut DEF Goal, IInv, Unserved
<1>5. n \in conn /\ start[n].pc = "none" => n \in Reached \/ Serves[n] = {}
  BY DEF Reached
<1>6. \A to : to = {} => Send(t, to) = NoTask
  BY DEF Send
<1>7. \A r, to : to # {} => Send(r, to) = [r EXCEPT !.pc = "jobs", !.to = to]
  BY DEF Send
<1>8. CASE Fire(u, s) \/ (UserEvent(u, s) /\ u \in Rows)
  <2> DEFINE r == [t EXCEPT !.pc = IF Fire(u, s) THEN "queued" ELSE "event"]
  <2>1. SetTask(u, s, r) /\ core' = core /\ t.pc \in {"found", "queued"}
    BY <1>8 DEF Fire, UserEvent, nodeVars
  <2>2. r.pc \in {"queued", "event"} /\ r.kind = t.kind
    BY <1>d DEF TaskRecords
  <2>3. Good(t, n, u, core[n][u]) => Good(r, n, u, core'[n][u])
    BY <2>1, <2>2 DEF Good
  <2> QED BY <1>1, <2>1, <2>2, <2>3
<1>9. CASE UserEvent(u, s) /\ u \notin Rows
  <2>1. SetTask(u, s, NoTask) /\ core' = core /\ t.pc = "queued"
    BY <1>9 DEF UserEvent, nodeVars
  <2>2. core[n][u] = Out
    BY <2>1, <1>9, <1>b, <1>c, PutsSet, EmptyTypes DEF Ignored, Puts
  <2> QED BY <1>1, <1>2, <1>3, <1>9, <2>1, <2>2, EmptyTypes
<1>10. CASE AddReadUser(u, s)
  <2>1. t.pc = "event" /\ t.kind = "add" /\ core' = core
    BY <1>10 DEF AddReadUser, nodeVars
  <2>2. CASE u \in Rows /\ InboundsOf(u) # {}
    <3> DEFINE r == [t EXCEPT !.pc = "read", !.tags = InboundsOf(u),
                              !.version = version[u]]
    <3>1. SetTask(u, s, r)
      BY <1>10, <2>2 DEF AddReadUser
    <3>2. /\ r.pc = "read" /\ r.kind = "add" /\ r.tags = InboundsOf(u)
          /\ r.version = version[u]
      BY <1>d, <2>1 DEF TaskRecords
    <3>3. Good(t, n, u, core[n][u]) => Good(r, n, u, core'[n][u])
      BY <2>1, <3>2 DEF Good
    <3> QED BY <1>1, <3>1, <3>2, <3>3
  <2>3. CASE ~(u \in Rows /\ InboundsOf(u) # {})
    <3>1. SetTask(u, s, NoTask)
      BY <1>10, <2>3 DEF AddReadUser
    <3>2. InboundsOf(u) = {} => core[n][u] = Out
      BY <2>1, <3>1, <1>b, <1>c, PutsSet, EmptyTypes DEF Ignored, Puts
    <3>3. Good(t, n, u, core[n][u]) => core'[n][u] = Goal(n, u)
      BY <2>1, <2>3, <3>2, <1>3, GivenOut DEF Good
    <3> QED BY <1>1, <3>1, <3>3, EmptyTypes
  <2> QED BY <2>2, <2>3
<1>11. CASE AddReadNodes(u, s)
  <2>1. t.pc = "read" /\ t.kind = "add" /\ core' = core /\ SetTask(u, s, Send(t, Reached))
    BY <1>11 DEF AddReadNodes, nodeVars
  <2>2. ASSUME n \in conn, start[n].pc = "none", Good(t, n, u, core[n][u]), Reached = {}
        PROVE  core'[n][u] = Goal(n, u)
    BY <2>1, <2>2, <1>4, <1>5
  <2>3. ASSUME n \in conn, start[n].pc = "none", Good(t, n, u, core[n][u]), Reached # {}
        PROVE  Send(t, Reached).pc = "jobs" /\ Good(Send(t, Reached), n, u, core'[n][u])
    <3> DEFINE r == [t EXCEPT !.pc = "jobs", !.to = Reached]
    <3>1. /\ r.pc = "jobs" /\ r.kind = "add" /\ r.to = Reached
          /\ r.tags = t.tags /\ r.version = t.version
      BY <1>d, <2>1 DEF TaskRecords
    <3>2. Given(u, t.tags, t.version, n) = Goal(n, u)
      BY <2>1, <2>3, <1>3 DEF Good
    <3>3. Good(r, n, u, core'[n][u])
      BY <2>1, <2>3, <3>1, <3>2, <1>4, <1>5 DEF Good
    <3> QED BY <2>3, <3>1, <3>3, <1>7
  <2> QED BY <1>1, <1>6, <2>1, <2>2, <2>3, EmptyTypes
<1>12. CASE AddsReadNodes(u, s)
  <2>1. t.pc = "event" /\ t.kind = "adds" /\ core' = core
    BY <1>12 DEF AddsReadNodes, nodeVars
  <2>2. CASE Reached = {}
    <3>1. SetTask(u, s, NoTask)
      BY <1>12, <2>2 DEF AddsReadNodes
    <3> QED BY <1>1, <1>4, <1>5, <2>1, <2>2, <3>1, EmptyTypes
  <2>3. CASE Reached # {}
    <3> DEFINE r == [t EXCEPT !.pc = "read", !.to = Reached]
    <3>1. SetTask(u, s, r)
      BY <1>12, <2>3 DEF AddsReadNodes
    <3>2. r.pc = "read" /\ r.kind = "adds" /\ r.to = Reached
      BY <1>d, <2>1 DEF TaskRecords
    <3>3. n \in conn /\ start[n].pc = "none" /\ Good(t, n, u, core[n][u])
            => Good(r, n, u, core'[n][u])
      BY <2>1, <3>2, <1>5 DEF Good
    <3> QED BY <1>1, <3>1, <3>2, <3>3
  <2> QED BY <2>2, <2>3
<1>13. CASE AddsReadUsers(u, s)
  <2>1. t.pc = "read" /\ t.kind = "adds" /\ core' = core
    BY <1>13 DEF AddsReadUsers, nodeVars
  <2>2. CASE status[u] = "ACTIVE" /\ InboundsOf(u) # {}
    <3> DEFINE x == [t EXCEPT !.tags = InboundsOf(u), !.version = version[u]]
               r == Send(x, t.to)
    <3>1. SetTask(u, s, r)
      BY <1>13, <2>2 DEF AddsReadUsers
    <3>2. t.to = {} => r = NoTask
      BY DEF Send
    <3>3. t.to # {} => /\ r.pc = "jobs" /\ r.kind = "adds" /\ r.to = t.to
                      /\ r.tags = InboundsOf(u) /\ r.version = version[u]
      BY <1>d, <2>1 DEF TaskRecords, Send
    <3> HIDE DEF r
    <3>4. Live(u) /\ Goal(n, u) = Given(u, InboundsOf(u), version[u], n)
      BY <2>2, <1>3 DEF Live
    <3>5. Good(t, n, u, core[n][u]) =>
            IF r.pc = "none" THEN core'[n][u] = Goal(n, u)
                             ELSE Good(r, n, u, core'[n][u])
      BY <2>1, <3>2, <3>3, <3>4, <1>4, EmptyTypes DEF Good
    <3> QED BY <1>1, <3>1, <3>5
  <2>3. CASE ~(status[u] = "ACTIVE" /\ InboundsOf(u) # {})
    <3>1. SetTask(u, s, NoTask)
      BY <1>13, <2>3 DEF AddsReadUsers
    <3>2. InboundsOf(u) = {} => core[n][u] = Out
      BY <2>1, <3>1, <1>b, <1>c, PutsSet, EmptyTypes DEF Ignored, Puts
    <3>3. Good(t, n, u, core[n][u]) => core'[n][u] = Goal(n, u)
      BY <2>1, <2>3, <3>2, <1>2, <1>3, GivenOut DEF Good
    <3> QED BY <1>1, <3>1, <3>3, EmptyTypes
  <2> QED BY <2>2, <2>3
<1>14. CASE RemoveReadNodes(u, s)
  <2>1. /\ t.pc = "event" /\ t.kind = "remove" /\ core' = core
        /\ SetTask(u, s, Send(t, conn))
    BY <1>14 DEF RemoveReadNodes, nodeVars
  <2> DEFINE r == [t EXCEPT !.pc = "jobs", !.to = conn]
  <2>2. r.pc = "jobs" /\ r.kind = "remove" /\ r.to = conn /\ r.tags = {}
    BY <1>d, <2>1 DEF TaskRecords
  <2>3. n \in conn /\ Good(t, n, u, core[n][u]) => Good(r, n, u, core'[n][u])
    BY <2>1, <2>2, GivenOut DEF Good
  <2>4. n \in conn => Send(t, conn) = r
    BY <1>7
  <2> QED BY <1>1, <2>1, <2>2, <2>3, <2>4
<1>15. ASSUME NEW m \in Nodes, Job(u, s, m)
       PROVE  Claim(n, u)'
  <2> DEFINE to == t.to \ {m}
             r == Send(t, to)
             got == Given(u, t.tags, t.version, n)
  <2>1. /\ t.pc = "jobs" /\ m \in t.to /\ SetTask(u, s, r)
        /\ n # m => core'[n][u] = core[n][u]
    BY <1>15 DEF Job, IInv, Types, NodeType
  <2>2. core'[n][u] = IF n = m THEN got ELSE core[n][u]
    <3>1. tasks'[u][s] = r /\ (n \notin to \/ n # m)
      BY <2>1, <1>c, PutsSet DEF Puts
    <3>2. n = m => n \notin r.to
      BY EmptyTypes DEF Send
    <3> QED BY <2>1, <3>1, <3>2, <1>b DEF Failed
  <2>3. to = {} => r = NoTask
    BY DEF Send
  <2>4. to # {} => /\ r.pc = "jobs" /\ r.kind = t.kind /\ r.to = to
                  /\ r.tags = t.tags /\ r.version = t.version
    BY <1>d DEF TaskRecords, Send
  <2>5. Good(t, n, u, core[n][u]) =>
          IF n \in t.to THEN got = Goal(n, u) ELSE core[n][u] = Goal(n, u)
    BY <2>1 DEF Good
  <2> HIDE DEF r, got
  <2>6. n \in conn /\ start[n].pc = "none" /\ Good(t, n, u, core[n][u]) =>
          IF r.pc = "none" THEN core'[n][u] = Goal(n, u)
                           ELSE Good(r, n, u, core'[n][u])
    BY <2>1, <2>2, <2>3, <2>4, <2>5, EmptyTypes DEF Good, got
  <2> QED BY <1>1, <2>1, <2>6
<1> QED BY <1>8, <1>9, <1>10, <1>11, <1>12, <1>13, <1>14, <1>15 DEF Handle

\* The handlers of events and the jobs.
LEMMA HandleLine ==
  ASSUME IInv, Note, NEW w \in Users, NEW s \in Slots, Handle(w, s),
         NEW n \in Nodes, NEW u \in Users, ~Doubt(n, u)', ~Debt(n, u)'
  PROVE  Claim(n, u)'
<1>1. CASE u # w
  <2>1. /\ UNCHANGED <<dbVars, req, conn, start, due>>
        /\ tasks'[u] = tasks[u] /\ core'[n][u] = core[n][u]
    BY <1>1, HandleFrame DEF IInv
  <2>2. InboundsOf(u)' = InboundsOf(u)
    BY <2>1, InboundsSame DEF dbVars, userVars
  <2>3. Untouched(n, u)
    BY <2>1, <2>2 DEF Untouched, Live, Resets, Debt, dbVars, userVars
  <2>4. ~Doubt(n, u)
    BY <2>1, DoubtFacts DEF IInv
  <2> QED BY <2>3, <2>4, KeptLine DEF IInv, InLine
<1>2. CASE u = w
  BY <1>2, OwnLine
<1> QED BY <1>1, <1>2

\* What a request that comes in finds: none is being handled.
LEMMA NoRequest ==
  ASSUME IInv, req.pc = "none", NEW u \in Users
  PROVE  /\ req.of = {} /\ ~Resets(u) /\ (Live(u) <=> status[u] = "ACTIVE")
         /\ \A n \in Nodes : Debt(n, u) <=> n \in due
  BY DEF IInv, Types, ReqType, Resets, Live, Debt

\* What the lemmas on the lines of a node and a user need of the invariant.
LEMMA LineFacts ==
  ASSUME IInv, Note, NEW n \in Nodes, NEW u \in Users, ~Doubt(n, u)',
         start'[n] = start[n]
  PROVE  Line(n, u) /\ ~Doubt(n, u) /\ ~Overlap(n, u) /\ <<n, u>> \notin late
  BY DoubtFacts DEF IInv, InLine

\* The requests about one user.
LEMMA RequestLine ==
  ASSUME IInv, Note, NEW w \in Users,
         \/ CreateUser(w) \/ RevokeUserSubscription(w) \/ DeleteUser(w)
         \/ DisableUser(w) \/ EnableUser(w) \/ ResetRead(w) \/ UpdateRead(w)
         \/ Extend(w) \/ BulkSquads(w),
         Types', NEW n \in Nodes, NEW u \in Users, ~Doubt(n, u)', ~Debt(n, u)'
  PROVE  Claim(n, u)'
<1>0. /\ req.pc = "none" /\ req.of = {} /\ ~Resets(u)
      /\ (Live(u) <=> status[u] = "ACTIVE") /\ (Debt(n, u) <=> n \in due)
      /\ UNCHANGED <<nodeVars, inbounds>>
  BY NoRequest DEF CreateUser, RevokeUserSubscription, DeleteUser, DisableUser, EnableUser,
     ResetRead, UpdateRead, Extend, BulkSquads, Ask, dbVars
<1>1. Line(n, u) /\ ~Doubt(n, u) /\ ~Overlap(n, u)
  BY <1>0, LineFacts DEF nodeVars
<1>2. UserType /\ TaskType /\ TaskType'
  BY DEF IInv, Types
<1>3. CASE u # w
  <2>1. u \notin req'.of
    <3>1. CASE \/ CreateUser(w) \/ RevokeUserSubscription(w) \/ DisableUser(w)
               \/ EnableUser(w) \/ Extend(w)
      BY <1>3, <3>1, ReqGotoType DEF CreateUser, RevokeUserSubscription, DisableUser,
         EnableUser, Extend
    <3>2. CASE DeleteUser(w)
      BY <1>0, <3>2 DEF DeleteUser
    <3>3. CASE ResetRead(w)
      BY <1>3, <3>3 DEF ResetRead, NoReq
    <3>4. CASE UpdateRead(w)
      <4>1. PICK b \in Updates :
              req' = [pc |-> "update", of |-> {w}, body |-> b, seen |-> status[w]]
        BY <3>4 DEF UpdateRead
      <4> QED BY <1>3, <4>1
    <3>5. CASE BulkSquads(w)
      <4>1. PICK b \in Updates :
              req' = [NoReq EXCEPT !.pc = "bulk", !.of = {w}, !.body = b]
        BY <3>5 DEF BulkSquads
      <4> QED BY <1>3, <4>1 DEF NoReq
    <3> QED BY <3>1, <3>2, <3>3, <3>4, <3>5
  <2>2. tasks'[u] = tasks[u]
    BY <1>2, <1>3, PublishType DEF CreateUser, RevokeUserSubscription, DeleteUser,
       DisableUser, EnableUser, ResetRead, UpdateRead, Extend, BulkSquads
  <2>3. status'[u] = status[u]
    <3>1. status' = status \/ \E st : SetStatus({w}, st)
      BY DEF CreateUser, RevokeUserSubscription, DeleteUser, DisableUser, EnableUser,
         ResetRead, UpdateRead, Extend, BulkSquads, dbVars, userVars
    <3> QED BY <1>3, <3>1 DEF SetStatus
  <2>4. squads'[u] = squads[u] /\ version'[u] = version[u]
    BY <1>3, <1>2 DEF CreateUser, RevokeUserSubscription, DeleteUser, DisableUser, EnableUser,
       ResetRead, UpdateRead, Extend, BulkSquads, dbVars, userVars, UserType
  <2> QED BY <1>0, <1>1, <2>1, <2>2, <2>3, <2>4, OtherLine
<1>4. ASSUME u = w, UNCHANGED tasks, ~Live(u)', status[u] # "ACTIVE"
      PROVE  Claim(n, u)'
  <2>1. Untouched(n, u)
    BY <1>0, <1>4 DEF Untouched, nodeVars, Debt
  <2> QED BY <1>1, <2>1, KeptLine
<1>5. CASE u = w /\ (CreateUser(w) \/ RevokeUserSubscription(w) \/ BulkSquads(w))
  <2>1. req'.pc \in {"create", "revoke", "bulk"} /\ u \in req'.of /\ UNCHANGED tasks
    BY <1>5 DEF CreateUser, RevokeUserSubscription, BulkSquads, ReqGoto, NoReq
  <2>2. status'[u] # "ACTIVE"
    BY <2>1 DEF Debt
  <2>3. status[u] # "ACTIVE"
    BY <1>2, <1>5, <2>2 DEF CreateUser, RevokeUserSubscription, BulkSquads
  <2> QED BY <1>4, <1>5, <2>1, <2>2, <2>3 DEF Live, Resets
<1>6. CASE u = w /\ DeleteUser(w)
  <2>1. PICK s \in Slots : Adds(u, s, "remove", "event")
    BY <1>2, <1>6, PublishType DEF DeleteUser
  <2>2. status'[u] = "gone"
    BY <1>2, <1>6, SetStatusType DEF DeleteUser
  <2>3. Goal(n, u)' = Out
    BY <1>0, <1>6, <2>2 DEF Goal, Live, Resets, DeleteUser
  <2> QED BY <1>0, <1>1, <1>2, <2>1, <2>3, FreshLine DEF nodeVars
<1>7. CASE u = w /\ (DisableUser(w) \/ EnableUser(w))
  BY <1>7 DEF DisableUser, EnableUser, ReqGoto, NoReq, Debt
<1>8. CASE u = w /\ ResetRead(w) /\ status[u] = "LIMITED"
  <2>1. PICK s \in Slots : Adds(u, s, "add", "event")
    BY <1>2, <1>8, PublishType DEF ResetRead
  <2>2. Live(u)'
    BY <1>8 DEF ResetRead, NoReq, Live, Resets
  <2> QED BY <1>0, <1>1, <1>2, <2>1, <2>2, FreshLine DEF nodeVars
<1>9. CASE /\ u = w
           /\ \/ ResetRead(w) /\ status[u] # "LIMITED"
              \/ UpdateRead(w) \/ Extend(w)
  <2>1. UNCHANGED <<tasks, status, squads, version, inbounds>> /\ ~Resets(u)'
    <3>1. UNCHANGED <<tasks, status, squads, version, inbounds>>
      BY <1>9 DEF ResetRead, UpdateRead, Extend, dbVars, userVars
    <3>2. CASE ResetRead(w) /\ status[u] # "LIMITED"
      <4>1. req'.seen # "LIMITED"
        BY <1>9, <3>2 DEF ResetRead, NoReq
      <4> QED BY <3>1, <4>1 DEF Resets
    <3>3. CASE UpdateRead(w)
      <4>1. PICK b \in Updates :
              req' = [pc |-> "update", of |-> {w}, body |-> b, seen |-> status[w]]
        BY <3>3 DEF UpdateRead
      <4> QED BY <3>1, <4>1 DEF Resets
    <3>4. CASE Extend(w)
      BY <1>9, <3>1, <3>4, ReqGotoType DEF Extend, Resets
    <3> QED BY <1>9, <3>1, <3>2, <3>3, <3>4
  <2>2. InboundsOf(u)' = InboundsOf(u)
    BY <2>1, InboundsSame
  <2>3. Untouched(n, u)
    BY <1>0, <2>1, <2>2 DEF Untouched, Live, Debt, nodeVars
  <2> QED BY <1>1, <2>3, KeptLine
<1> QED BY <1>3, <1>5, <1>6, <1>7, <1>8, <1>9

\* What follows a request about one user.
LEMMA ProceedLine ==
  ASSUME IInv, Separate, Note, NEW w \in Users,
         \/ AddIfActive(w) \/ SwitchPublish(w) \/ ResetWrite(w)
         \/ UpdateWrite(w) \/ ExtendSync(w) \/ BulkSquadsAdd(w),
         Types', NEW n \in Nodes, NEW u \in Users, ~Doubt(n, u)', ~Debt(n, u)'
  PROVE  Claim(n, u)'
<1>0. /\ req.of = {w} /\ req.pc \notin {"none", "sync", "restart"}
      /\ req'.of \subseteq {w} /\ (req' = NoReq \/ req'.pc = "enable")
      /\ UNCHANGED <<nodeVars, inbounds, version>>
  BY EmptyTypes DEF AddIfActive, SwitchPublish, ResetWrite, UpdateWrite, ExtendSync,
     BulkSquadsAdd, ReqGoto, NoReq, dbVars, userVars
<1>1. Line(n, u) /\ ~Doubt(n, u) /\ ~Overlap(n, u) /\ <<n, u>> \notin late
  BY <1>0, LineFacts DEF nodeVars
<1>2. UserType /\ TaskType /\ TaskType'
  BY DEF IInv, Types
<1>3. CASE u # w
  <2>1. tasks'[u] = tasks[u]
    BY <1>2, <1>3, PublishType DEF AddIfActive, SwitchPublish, ResetWrite, UpdateWrite,
       ExtendSync, BulkSquadsAdd
  <2>2. status'[u] = status[u] /\ squads'[u] = squads[u]
    BY <1>2, <1>3 DEF AddIfActive, SwitchPublish, ResetWrite, UpdateWrite, ExtendSync,
       BulkSquadsAdd, SetStatus, dbVars, userVars, UserType
  <2> QED BY <1>0, <1>1, <1>3, <2>1, <2>2, OtherLine
<1>4. ASSUME u = w, req' = NoReq, n \in due' \/ ~Debt(n, u), UNCHANGED <<tasks, squads>>,
             Live(u)' <=> Live(u), status[u] = "ACTIVE" => status'[u] = "ACTIVE"
      PROVE  Claim(n, u)'
  <2>1. InboundsOf(u)' = InboundsOf(u)
    BY <1>0, <1>4, InboundsSame
  <2>2. Untouched(n, u)
    BY <1>0, <1>4, <2>1 DEF Untouched, nodeVars, Debt
  <2> QED BY <1>1, <2>2, KeptLine
<1>5. CASE u = w /\ AddIfActive(w)
  <2>1. CASE status[u] = "ACTIVE"
    <3>1. PICK s \in Slots : Adds(u, s, "add", "event")
      BY <1>2, <1>5, <2>1, PublishType DEF AddIfActive
    <3>2. Live(u)'
      BY <1>5, <2>1 DEF AddIfActive, dbVars, userVars, Live
    <3> QED BY <1>0, <1>1, <1>2, <3>1, <3>2, FreshLine DEF nodeVars
  <2>2. CASE status[u] # "ACTIVE"
    BY <1>0, <1>4, <1>5, <2>2, EmptyTypes
       DEF AddIfActive, dbVars, userVars, Live, Resets, Debt, nodeVars
  <2> QED BY <2>1, <2>2
<1>6. CASE u = w /\ SwitchPublish(w)
  <2>1. status'[u] = status[u] /\ req' = NoReq
    BY <1>6 DEF SwitchPublish, dbVars, userVars
  <2>2. CASE req.pc = "enable"
    <3>1. PICK s \in Slots : Adds(u, s, "add", "event")
      BY <1>2, <1>6, <2>2, PublishType DEF SwitchPublish
    <3>2. Live(u)'
      BY <1>0, <1>1, <1>6, <2>1, <2>2 DEF IInv, Noted, Live
    <3> QED BY <1>0, <1>1, <1>2, <3>1, <3>2, FreshLine DEF nodeVars
  <2>3. CASE req.pc = "disable"
    <3>1. PICK s \in Slots : Adds(u, s, "remove", "event")
      BY <1>2, <1>6, <2>3, PublishType DEF SwitchPublish
    <3>2. status[u] = "DISABLED"
      BY <1>0, <1>6, <2>3 DEF IInv, Disabling
    <3>3. Goal(n, u)' = Out
      BY <2>1, <3>2, EmptyTypes DEF Goal, Live, Resets
    <3> QED BY <1>0, <1>1, <1>2, <3>1, <3>3, FreshLine DEF nodeVars
  <2> QED BY <1>6, <2>2, <2>3 DEF SwitchPublish
<1>7. CASE u = w /\ ResetWrite(w)
  <2>1. /\ status'[u] = IF req.seen = "LIMITED" THEN "ACTIVE" ELSE status[u]
        /\ req.pc = "reset" /\ req' = NoReq /\ UNCHANGED <<tasks, squads>>
    BY <1>2, <1>7 DEF ResetWrite, SetStatus
  <2>2. Live(u)' <=> Live(u)
    BY <1>0, <1>7, <2>1, EmptyTypes DEF Live, Resets
  <2> QED BY <1>0, <1>4, <1>7, <2>1, <2>2 DEF Debt, nodeVars
<1>8. CASE u = w /\ ExtendSync(w)
  <2>1. CASE status[u] = "EXPIRED" /\ u \notin past
    BY <1>8, <2>1 DEF ExtendSync, ReqGoto, NoReq, Debt
  <2>2. CASE ~(status[u] = "EXPIRED" /\ u \notin past)
    BY <1>0, <1>4, <1>8, <2>2, EmptyTypes DEF ExtendSync, Live, Resets, Debt, nodeVars
  <2> QED BY <2>1, <2>2
<1>9. CASE u = w /\ BulkSquadsAdd(w)
  <2>1. PICK s \in Slots : Adds(u, s, "adds", "event")
    BY <1>2, <1>9, PublishType DEF BulkSquadsAdd
  <2>2. req.pc = "bulk" /\ req' = NoReq /\ UNCHANGED status
    BY <1>9 DEF BulkSquadsAdd
  <2>3. ASSUME status'[u] # "ACTIVE", n \in conn'
        PROVE  ~Live(u)' /\ core'[n][u] = Out
    <3>1. ~Live(u)' /\ ~Live(u) /\ ~Debt(n, u)
      BY <1>0, <2>2, <2>3, EmptyTypes DEF Live, Resets, Debt, nodeVars
    <3>2. start'[n].pc = "none" /\ Tasks(u) = {}
      BY <1>1, <2>1, OneTask DEF Adds, Tasks
    <3> QED BY <1>0, <1>1, <2>3, <3>1, <3>2 DEF Line, Claim, Goal, nodeVars
  <2> QED BY <1>0, <1>1, <1>2, <2>1, <2>3, FreshLine DEF nodeVars
<1>10. CASE u = w /\ UpdateWrite(w)
  <2> DEFINE b == req.body
             moved == b.squads \notin {{"same"}, squads[u]}
             enables == Enables(b, req.seen)
             disables == req.seen = "ACTIVE" /\ b.status = "DISABLED"
             add == IF moved THEN b.squads # {} ELSE enables
             remove == IF moved THEN b.squads = {} ELSE disables
  <2>1. /\ req.pc = "update" /\ req' = NoReq /\ b \in Updates
        /\ SetStatus({u}, IF enables THEN "ACTIVE" ELSE IF disables THEN "DISABLED"
                          ELSE status[u])
        /\ squads' = IF moved THEN [squads EXCEPT ![u] = b.squads] ELSE squads
        /\ IF remove THEN Publish("remove", u)
           ELSE IF add /\ status'[u] = "ACTIVE" THEN Publish("add", u)
           ELSE UNCHANGED tasks
    BY <1>10 DEF UpdateWrite, IInv, Types, ReqType
  <2>2. status'[u] = IF enables THEN "ACTIVE" ELSE IF disables THEN "DISABLED" ELSE status[u]
    BY <2>1 DEF SetStatus
  <2>3. enables => ~disables
    BY DEF Enables
  <2>4. disables => b.squads \in {{"same"}, {}}
    BY <2>1 DEF Separate
  <2>5. /\ ~Resets(u) /\ ~Resets(u)' /\ (Debt(n, u) => n \in due')
        /\ (Live(u)' <=> status'[u] = "ACTIVE") /\ (Live(u) <=> status[u] = "ACTIVE")
    BY <1>0, <2>1, EmptyTypes DEF Resets, Live, Debt, nodeVars
  <2> HIDE DEF enables, disables
  <2>6. CASE remove
    <3>1. PICK s \in Slots : Adds(u, s, "remove", "event")
      BY <1>2, <2>1, <2>6, PublishType
    <3>2. Goal(n, u)' = Out
      <4>1. CASE moved
        <5>1. squads'[u] = {}
          BY <1>2, <2>1, <2>6, <4>1 DEF UserType
        <5>2. InboundsOf(u)' = {}
          BY <5>1 DEF InboundsOf
        <5> QED BY <5>2, GivenOut DEF Goal
      <4>2. CASE ~moved
        BY <2>2, <2>3, <2>5, <2>6, <4>2 DEF Goal
      <4> QED BY <4>1, <4>2
    <3> QED BY <1>0, <1>1, <1>2, <3>1, <3>2, FreshLine DEF nodeVars
  <2>7. CASE ~remove /\ add /\ status'[u] = "ACTIVE"
    <3>1. PICK s \in Slots : Adds(u, s, "add", "event")
      BY <1>2, <2>1, <2>7, PublishType
    <3> QED BY <1>0, <1>1, <1>2, <2>5, <2>7, <3>1, FreshLine DEF nodeVars
  <2>8. CASE ~remove /\ ~(add /\ status'[u] = "ACTIVE")
    <3>1. UNCHANGED tasks
      BY <2>1, <2>8
    <3>2. CASE moved
      <4>1. status'[u] = status[u] /\ status[u] # "ACTIVE"
        BY <2>2, <2>4, <2>8, <3>2
      <4>2. Untouched(n, u)
        BY <1>0, <2>5, <3>1, <4>1 DEF Untouched, nodeVars, Debt
      <4> QED BY <1>1, <4>2, KeptLine
    <3>3. CASE ~moved
      <4>1. status'[u] = status[u] /\ UNCHANGED squads
        BY <2>1, <2>2, <2>8, <3>3
      <4> QED BY <1>4, <1>10, <2>1, <2>5, <3>1, <4>1
    <3> QED BY <3>2, <3>3
  <2> QED BY <2>6, <2>7, <2>8
<1> QED BY <1>3, <1>5, <1>6, <1>7, <1>8, <1>9, <1>10

\* The requests about many users: those that touch a user who may be ACTIVE end
\* with a restart of the nodes.
LEMMA ManyLine ==
  ASSUME IInv, Note,
         \/ \E q \in Squads : UpdateInternalSquad(q) \/ SquadMembers(q)
         \/ \E st \in Statuses : DeleteByStatus(st)
         \/ UpdateAll \/ SyncAll \/ RestartNodes,
         NEW n \in Nodes, NEW u \in Users, ~Doubt(n, u)', ~Debt(n, u)'
  PROVE  Claim(n, u)'
<1>1. ~(req'.pc \in {"sync", "restart"}) /\ n \notin due'
  BY DEF Debt
<1>2. /\ req.pc = "none" /\ req' = NoReq /\ UNCHANGED <<tasks, version, inbounds, nodeVars>>
      /\ \/ \E q \in Squads : SquadMembers(q)
         \/ \E st \in Statuses : DeleteByStatus(st)
  BY <1>1 DEF UpdateInternalSquad, SquadMembers, DeleteByStatus, UpdateAll, SyncAll,
     RestartNodes, NoReq, Ask
<1>3. Line(n, u) /\ ~Doubt(n, u) /\ ~Overlap(n, u)
  BY <1>2, LineFacts DEF nodeVars
<1>4. /\ (Live(u) <=> status[u] = "ACTIVE") /\ (Debt(n, u) <=> n \in due)
      /\ (Live(u)' <=> status'[u] = "ACTIVE")
  BY <1>2, NoRequest, EmptyTypes DEF Live, Resets
<1>5. ASSUME NEW q \in Squads, SquadMembers(q)
      PROVE  Claim(n, u)'
  <2>1. inbounds[q] = {} /\ UNCHANGED <<status, inbounds>>
    BY <1>1, <1>5 DEF SquadMembers, NoReq
  <2>2. squads'[u] \in {squads[u], squads[u] \cup {q}, squads[u] \ {q}}
    BY <1>5 DEF SquadMembers
  <2>3. InboundsOf(u)' = InboundsOf(u)
    <3>1. \A x : (\E p \in squads'[u] : x \in inbounds[p])
                 <=> (\E p \in squads[u] : x \in inbounds[p])
      BY <2>1, <2>2
    <3>2. InboundsOf(u)' = UNION {inbounds[p] : p \in squads'[u]}
      BY <2>1 DEF InboundsOf
    <3> QED BY <3>1, <3>2 DEF InboundsOf
  <2>4. Untouched(n, u)
    BY <1>2, <1>4, <2>1, <2>3 DEF Untouched, nodeVars, Debt
  <2> QED BY <1>3, <2>4, KeptLine
<1>6. ASSUME NEW st \in Statuses, DeleteByStatus(st)
      PROVE  Claim(n, u)'
  <2>1. st # "ACTIVE"
    BY <1>1, <1>6 DEF DeleteByStatus, NoReq
  <2>2. /\ status'[u] = IF status[u] = st THEN "gone" ELSE status[u]
        /\ status[u] # st => squads'[u] = squads[u]
    BY <1>6 DEF DeleteByStatus, SetStatus
  <2>3. Live(u) => InboundsOf(u)' = InboundsOf(u)
    BY <1>2, <1>4, <2>1, <2>2, InboundsSame
  <2>4. Untouched(n, u)
    BY <1>2, <1>4, <2>1, <2>2, <2>3 DEF Untouched, nodeVars, Debt
  <2> QED BY <1>3, <2>4, KeptLine
<1> QED BY <1>2, <1>5, <1>6

\* The watchdog, time and traffic.
LEMMA WatchLine ==
  ASSUME IInv, Note,
         \/ WatchExceeded \/ WatchExpired \/ BatchReset
         \/ \E w \in Users : UseUp(w) \/ Pass(w),
         NEW n \in Nodes, NEW u \in Users, ~Doubt(n, u)', ~Debt(n, u)'
  PROVE  Claim(n, u)'
<1>0. UNCHANGED <<squads, version, inbounds, req, nodeVars>>
  BY DEF WatchExceeded, WatchExpired, BatchReset, UseUp, Pass
<1>1. Line(n, u) /\ ~Doubt(n, u) /\ ~Overlap(n, u)
  BY <1>0, LineFacts DEF nodeVars
<1>2. UserType /\ TaskType /\ InboundsOf(u)' = InboundsOf(u) /\ (Resets(u)' <=> Resets(u))
  BY <1>0, InboundsSame DEF IInv, Types, Resets
<1>3. ASSUME tasks'[u] = tasks[u], status'[u] = status[u]
      PROVE  Claim(n, u)'
  <2>1. Untouched(n, u)
    BY <1>0, <1>2, <1>3 DEF Untouched, nodeVars, Debt, Live
  <2> QED BY <1>1, <2>1, KeptLine
<1>4. ASSUME NEW S \in SUBSET Users, NEW st \in {"LIMITED", "EXPIRED"}, SetStatus(S, st),
             AddTasks(S, "remove", "found")
      PROVE  Claim(n, u)'
  <2>1. CASE u \notin S
    BY <1>2, <1>3, <1>4, <2>1, AddTasksType DEF SetStatus
  <2>2. CASE u \in S
    <3>1. TaskType' /\ \E s \in Slots : Adds(u, s, "remove", "found")
      BY <1>2, <1>4, <2>2, AddTasksType
    <3>2. PICK s \in Slots : Adds(u, s, "remove", "found")
      BY <3>1
    <3>3. s \in Tasks(u)' /\ s \notin Tasks(u)
      BY <3>2 DEF Adds, Tasks
    <3>4. ~Resets(u)'
      BY <1>0, <1>1, <3>3, OneTask DEF Resets, Holds
    <3>5. Goal(n, u)' = Out
      BY <1>4, <2>2, <3>4 DEF Goal, Live, SetStatus
    <3> QED BY <1>0, <1>1, <3>1, <3>2, <3>5, FreshLine DEF nodeVars
  <2> QED BY <2>1, <2>2
<1>5. CASE WatchExceeded
  <2> DEFINE S == {v \in over : status[v] = "ACTIVE"}
  <2>1. S \in SUBSET Users /\ SetStatus(S, "LIMITED") /\ AddTasks(S, "remove", "found")
    BY <1>2, <1>5 DEF WatchExceeded, UserType
  <2> QED BY <1>4, <2>1
<1>6. CASE WatchExpired
  <2> DEFINE S == {v \in past : status[v] \in {"ACTIVE", "LIMITED"}}
  <2>1. S \in SUBSET Users /\ SetStatus(S, "EXPIRED") /\ AddTasks(S, "remove", "found")
    BY <1>2, <1>6 DEF WatchExpired, UserType
  <2> QED BY <1>4, <2>1
<1>7. CASE BatchReset
  <2> DEFINE S == {v \in Users : status[v] = "LIMITED"}
  <2>1. S \in SUBSET Users /\ SetStatus(S, "ACTIVE") /\ AddTasks(S, "add", "found")
    BY <1>7 DEF BatchReset
  <2> HIDE DEF S
  <2>2. CASE u \notin S
    BY <1>2, <1>3, <2>1, <2>2, AddTasksType DEF SetStatus
  <2>3. CASE u \in S
    <3>1. TaskType' /\ \E s \in Slots : Adds(u, s, "add", "found")
      BY <1>2, <2>1, <2>3, AddTasksType
    <3>2. PICK s \in Slots : Adds(u, s, "add", "found")
      BY <3>1
    <3>3. Live(u)'
      BY <2>1, <2>3 DEF Live, SetStatus
    <3> QED BY <1>0, <1>1, <3>1, <3>2, <3>3, FreshLine DEF nodeVars
  <2> QED BY <2>2, <2>3
<1>8. CASE \E w \in Users : UseUp(w) \/ Pass(w)
  BY <1>3, <1>8 DEF UseUp, Pass
<1> QED BY <1>5, <1>6, <1>7, <1>8

\* The starts of nodes.
LEMMA StartLine ==
  ASSUME IInv, Note, NEW m \in Nodes, StartMark(m) \/ Start(m) \/ StartDropped(m) \/ Lose(m),
         NEW n \in Nodes, NEW u \in Users, ~Doubt(n, u)', ~Debt(n, u)'
  PROVE  Claim(n, u)'
<1>0. UNCHANGED <<dbVars, req, tasks>>
  BY DEF StartMark, Start, StartRead, StartCore, StartSkip, StartDone, StartDropped, Lose
<1>1. NodeType /\ Line(n, u)
  BY DEF IInv, Types, InLine
<1>2. InboundsOf(u)' = InboundsOf(u)
  BY <1>0, InboundsSame DEF dbVars, userVars
<1>3. (Live(u)' <=> Live(u)) /\ Goal(n, u)' = Goal(n, u) /\ Tasks(u)' = Tasks(u)
  BY <1>0, <1>2 DEF Live, Resets, Goal, Given, Tasks, dbVars, userVars
<1>4. ~Overlap(n, u) /\ ~Dropped(n)
  BY DoubtFacts DEF IInv
<1>6. CASE n # m
  <2>1. start'[n] = start[n] /\ core'[n] = core[n] /\ (n \in conn' => n \in conn)
    BY <1>1, <1>6 DEF StartMark, Start, StartRead, StartCore, StartSkip, StartDone,
                      StartDropped, Lose, NodeType
  <2>2. n \in due => n \in due'
    BY <1>6 DEF StartMark, Start, StartRead, StartCore, StartSkip, StartDone, StartDropped,
                Lose
  <2>3. Untouched(n, u)
    BY <1>0, <1>2, <1>3, <2>1, <2>2 DEF Untouched, Debt, dbVars, userVars
  <2> QED BY <1>1, <2>1, <2>3, KeptLine, DoubtFacts DEF IInv
<1>7. CASE n = m /\ StartMark(m)
  <2>1. start'[n].pc = "marked"
    BY <1>1, <1>7 DEF StartMark, NodeType, Starts
  <2> QED BY <2>1 DEF Claim
<1>8. CASE n = m /\ StartRead(m)
  <2>1. start'[n].pc = "read" /\ start'[n].users[u] = Wanted(n, u)
    BY <1>1, <1>8 DEF StartRead, NodeType
  <2>2. ~Resets(u)
    BY <1>0, <1>4, <2>1, OneTask DEF Resets, Holds
  <2>3. Wanted(n, u) = Goal(n, u)
    BY <2>2 DEF Wanted, Goal, Live
  <2> QED BY <1>3, <2>1, <2>3 DEF Claim
<1>9. CASE n = m /\ (StartCore(m) \/ StartSkip(m) \/ StartDone(m))
  <2>1. /\ start[n].pc \in {"read", "core", "kept"} /\ due' = due
        /\ start'[n].pc = IF StartCore(m) THEN "core"
                          ELSE IF StartSkip(m) THEN "kept" ELSE "none"
        /\ start[n].pc = "read" <=> StartCore(m) \/ StartSkip(m)
    BY <1>1, <1>9, EmptyTypes DEF StartCore, StartSkip, StartDone, NodeType, NoStart
  <2>2. ~Doubt(n, u) /\ <<n, u>> \notin late /\ ~Debt(n, u)
    <3>1. ~Debt(n, u)
      BY <1>0, <2>1 DEF Debt, dbVars, userVars
    <3>2. ~Doubt(n, u)
      BY <2>1, DoubtFacts DEF IInv
    <3> QED BY <3>1, <3>2 DEF Doubt, IInv, Types
  <2>3. Claim(n, u)
    BY <1>1, <2>2 DEF Line
  <2>4. CASE StartCore(m)
    <3>1. start'[n].pc = "core" /\ core'[n][u] = start[n].users[u] /\ start[n].pc = "read"
      BY <1>1, <1>9, <2>4 DEF StartCore, NodeType, NoStart
    <3> QED BY <1>3, <2>3, <3>1 DEF Claim
  <2>5. CASE StartSkip(m)
    <3>1. start'[n].pc = "kept" /\ start[n].pc = "read" /\ core' = core
      BY <1>1, <1>9, <2>5 DEF StartSkip, NodeType, NoStart
    <3>2. <<n, u>> \notin stale
      BY <3>1, DoubtFacts DEF IInv
    <3>3. core[n][u] = start[n].users[u]
      BY <1>9, <2>5, <3>2 DEF StartSkip
    <3> QED BY <1>3, <2>3, <3>1, <3>3 DEF Claim
  <2>6. CASE StartDone(m)
    <3>1. start'[n].pc = "none" /\ core' = core /\ start[n].pc \in {"core", "kept"}
      BY <1>1, <1>9, <2>6, EmptyTypes DEF StartDone, NodeType
    <3>2. Tasks(u) = {}
      BY <2>2, <3>1 DEF IInv, Noted
    <3> QED BY <1>3, <2>3, <3>1, <3>2 DEF Claim
  <2> QED BY <1>9, <2>4, <2>5, <2>6
<1>10. CASE n = m /\ Lose(m)
  <2>1. start'[n].pc = "none" /\ n \notin conn'
    BY <1>1, <1>10, EmptyTypes DEF Lose, NodeType
  <2> QED BY <2>1 DEF Claim
<1>11. CASE n = m /\ StartDropped(m)
  <2>1. start'[n].pc = "marked"
    BY <1>4, <1>11 DEF StartDropped, Dropped
  <2> QED BY <2>1 DEF Claim
<1> QED BY <1>6, <1>7, <1>8, <1>9, <1>10, <1>11 DEF Start

\* Every step keeps the nodes in line.
LEMMA InLineNext ==
  ASSUME IInv, Separate, Next, Types'
  PROVE  InLine'
<1> SUFFICES ASSUME NEW n \in Nodes, NEW u \in Users, ~Doubt(n, u)', ~Debt(n, u)'
             PROVE  Claim(n, u)'
  BY DEF InLine, Line
<1>0. Note
  BY DEF Next
<1>1. CASE Request
  BY <1>0, <1>1, RequestLine, ManyLine DEF Request
<1>2. CASE Proceed
  BY <1>0, <1>2, ProceedLine, ManyLine DEF Proceed
<1>3. CASE Watch \/ BatchReset \/ \E w \in Users : UseUp(w) \/ Pass(w)
  BY <1>0, <1>3, WatchLine DEF Watch
<1>4. CASE \E w \in Users : \E s \in Slots : Handle(w, s)
  BY <1>0, <1>4, HandleLine
<1>5. CASE \E m \in Nodes : StartMark(m) \/ Start(m) \/ StartDropped(m) \/ Lose(m)
  BY <1>0, <1>5, StartLine
<1> QED BY <1>1, <1>2, <1>3, <1>4, <1>5 DEF Next, Step

\* What has been written when a user is being disabled or enabled: the watchdog
\* overlaps with an event of its own when it takes the user's status back.
LEMMA SwitchNext ==
  ASSUME IInv, Next, NEW u \in Users, u \in req'.of
  PROVE  /\ req'.pc = "disable" => status'[u] = "DISABLED"
         /\ /\ req'.pc = "enable"
            /\ Holds(u) /\ Holds(u)' => Tasks(u)' \subseteq Tasks(u)
            /\ req.pc = "enable" /\ u \in req.of => status[u] = "ACTIVE"
            => status'[u] = "ACTIVE"
<1>0. UserType /\ TaskType /\ (req.pc = "disable" /\ u \in req.of => status[u] = "DISABLED")
  BY DEF IInv, Types, Disabling
<1>1. ASSUME NEW w \in Users, DisableUser(w) \/ EnableUser(w) \/ ExtendSync(w)
      PROVE  /\ req'.pc = "disable" => status'[u] = "DISABLED"
             /\ req'.pc = "enable" => status'[u] = "ACTIVE"
  <2>1. CASE DisableUser(w)
    <3>1. req'.pc = "disable" /\ req'.of = {w}
      BY <2>1, ReqGotoType DEF DisableUser
    <3> QED BY <2>1, <3>1 DEF DisableUser, SetStatus
  <2>2. CASE EnableUser(w)
    <3>1. req'.pc = "enable" /\ req'.of = {w}
      BY <2>2, ReqGotoType DEF EnableUser
    <3> QED BY <2>2, <3>1 DEF EnableUser, SetStatus
  <2>3. CASE ExtendSync(w) /\ status[w] = "EXPIRED" /\ w \notin past
    <3>1. req'.pc = "enable" /\ req'.of = {w}
      BY <2>3, ReqGotoType DEF ExtendSync
    <3> QED BY <2>3, <3>1 DEF ExtendSync, SetStatus
  <2>4. CASE ExtendSync(w) /\ ~(status[w] = "EXPIRED" /\ w \notin past)
    BY <2>4, EmptyTypes DEF ExtendSync
  <2> QED BY <1>1, <2>1, <2>2, <2>3, <2>4
<1>2. CASE Request
  <2>1. ASSUME NEW w \in Users,
               \/ CreateUser(w) \/ RevokeUserSubscription(w) \/ DeleteUser(w)
               \/ ResetRead(w) \/ UpdateRead(w) \/ Extend(w) \/ BulkSquads(w)
        PROVE  req'.pc \notin {"disable", "enable"}
    <3>1. CASE CreateUser(w) \/ RevokeUserSubscription(w) \/ Extend(w)
      BY <3>1, ReqGotoType DEF CreateUser, RevokeUserSubscription, Extend
    <3>2. CASE DeleteUser(w) \/ ResetRead(w)
      BY <3>2 DEF DeleteUser, ResetRead, Ask, NoReq
    <3>3. CASE UpdateRead(w)
      <4>1. PICK b \in Updates :
              req' = [pc |-> "update", of |-> {w}, body |-> b, seen |-> status[w]]
        BY <3>3 DEF UpdateRead
      <4> QED BY <4>1
    <3>4. CASE BulkSquads(w)
      <4>1. PICK b \in Updates :
              req' = [NoReq EXCEPT !.pc = "bulk", !.of = {w}, !.body = b]
        BY <3>4 DEF BulkSquads
      <4> QED BY <4>1 DEF NoReq
    <3> QED BY <2>1, <3>1, <3>2, <3>3, <3>4
  <2>2. ASSUME \/ \E q \in Squads : UpdateInternalSquad(q) \/ SquadMembers(q)
               \/ \E st \in Statuses : DeleteByStatus(st)
               \/ UpdateAll
        PROVE  req'.pc \notin {"disable", "enable"}
    <3>1. CASE UpdateAll
      <4>1. PICK b \in Updates : req' = [NoReq EXCEPT !.pc = "sync", !.body = b]
        BY <3>1 DEF UpdateAll
      <4> QED BY <4>1 DEF NoReq
    <3>2. CASE ~UpdateAll
      <4>1. req' = NoReq \/ req' = [NoReq EXCEPT !.pc = "restart"]
        BY <2>2, <3>2 DEF UpdateInternalSquad, SquadMembers, DeleteByStatus
      <4> QED BY <4>1, RestartType, EmptyTypes
    <3> QED BY <3>1, <3>2
  <2> QED BY <1>1, <1>2, <2>1, <2>2 DEF Request
<1>3. CASE Proceed
  <2>1. ASSUME NEW w \in Users,
               \/ AddIfActive(w) \/ SwitchPublish(w) \/ ResetWrite(w) \/ UpdateWrite(w)
               \/ BulkSquadsAdd(w)
        PROVE  req'.pc \notin {"disable", "enable"}
    BY <2>1, EmptyTypes
       DEF AddIfActive, SwitchPublish, ResetWrite, UpdateWrite, BulkSquadsAdd
  <2>2. ASSUME SyncAll \/ RestartNodes
        PROVE  req'.pc \notin {"disable", "enable"}
    BY <2>2, RestartType, EmptyTypes DEF SyncAll, RestartNodes
  <2> QED BY <1>1, <1>3, <2>1, <2>2 DEF Proceed
<1>4. ASSUME NEW S \in SUBSET Users, NEW st, SetStatus(S, st), req' = req,
             \/ st = "ACTIVE" /\ \A v \in S : status[v] = "LIMITED"
             \/ /\ \A v \in S : status[v] \in {"ACTIVE", "LIMITED"}
                /\ AddTasks(S, "remove", "found")
      PROVE  /\ req'.pc = "disable" => status'[u] = "DISABLED"
             /\ /\ req'.pc = "enable"
                /\ Holds(u) /\ Holds(u)' => Tasks(u)' \subseteq Tasks(u)
                /\ req.pc = "enable" /\ u \in req.of => status[u] = "ACTIVE"
                => status'[u] = "ACTIVE"
  <2>1. status'[u] = IF u \in S THEN st ELSE status[u]
    BY <1>4 DEF SetStatus
  <2>2. req.pc = "disable" => status'[u] = "DISABLED"
    BY <1>0, <1>4, <2>1
  <2>3. AddTasks(S, "remove", "found") /\ u \in S => ~(Tasks(u)' \subseteq Tasks(u))
    <3> SUFFICES ASSUME AddTasks(S, "remove", "found"), u \in S
                 PROVE  ~(Tasks(u)' \subseteq Tasks(u))
      OBVIOUS
    <3>1. PICK s \in Slots : Adds(u, s, "remove", "found")
      BY <1>0, AddTasksType
    <3> QED BY <3>1 DEF Adds, Tasks
  <2> QED BY <1>4, <2>1, <2>2, <2>3 DEF Holds
<1>5. CASE WatchExceeded
  <2>1. {v \in over : status[v] = "ACTIVE"} \in SUBSET Users
    BY <1>0 DEF UserType
  <2> QED BY <1>4, <1>5, <2>1 DEF WatchExceeded
<1>6. CASE WatchExpired
  <2>1. {v \in past : status[v] \in {"ACTIVE", "LIMITED"}} \in SUBSET Users
    BY <1>0 DEF UserType
  <2> QED BY <1>4, <1>6, <2>1 DEF WatchExpired
<1>7. CASE BatchReset
  BY <1>4, <1>7 DEF BatchReset
<1>8. CASE \E w \in Users : \/ UseUp(w) \/ Pass(w) \/ \E s \in Slots : Handle(w, s)
  BY <1>0, <1>8, HandleFrame DEF UseUp, Pass, dbVars, userVars
<1>9. CASE \E m \in Nodes : StartMark(m) \/ Start(m) \/ StartDropped(m) \/ Lose(m)
  BY <1>0, <1>9 DEF StartMark, Start, StartRead, StartCore, StartSkip, StartDone, StartDropped, Lose, dbVars, userVars
<1> QED BY <1>2, <1>3, <1>5, <1>6, <1>7, <1>8, <1>9 DEF Next, Step, Watch

LEMMA NotedNext ==
  ASSUME IInv, Next
  PROVE  Noted' /\ Disabling'
<1>1. ASSUME Types'
      PROVE  Disabling'
  BY <1>1, SwitchNext DEF Disabling, Types, ReqType, Rows
<1>2. ASSUME NEW n \in Nodes, NEW u \in Users, <<n, u>> \notin late'
      PROVE  /\ \A s \in Tasks(u)', r \in Tasks(u)' : s = r
             /\ start'[n].pc # "none" => Tasks(u)' = {} /\ ~Holds(u)'
             /\ req'.pc = "enable" /\ u \in req'.of => status'[u] = "ACTIVE"
  <2>1. /\ ~Overlap(n, u)
        /\ <<n, u>> \in late => start'[n].pc = "read"
    BY <1>2, NoteFacts DEF Next, Moved
  <2>2. CASE <<n, u>> \in late
    BY <2>1, <2>2, OneTask DEF Holds
  <2>3. CASE <<n, u>> \notin late
    <3>1. req.pc = "enable" /\ u \in req.of => status[u] = "ACTIVE"
      BY <2>3 DEF IInv, Noted
    <3> QED BY <2>1, <3>1, OneTask, SwitchNext
  <2> QED BY <2>2, <2>3
<1>3. Types'
  BY TypesNext DEF IInv
<1> QED BY <1>1, <1>2, <1>3 DEF Noted

\* A node without inbounds lets nobody in.
LEMMA UnservedNext ==
  ASSUME IInv, Next
  PROVE  Unserved'
<1> SUFFICES ASSUME NEW n \in Nodes, NEW u \in Users, Serves[n] = {}
             PROVE  core'[n][u] = Out /\ start'[n].users[u] = Out
  BY DEF Unserved
<1>1. core[n][u] = Out /\ start[n].users[u] = Out /\ NodeType /\ UserType
  BY DEF IInv, Unserved, Types
<1>2. CASE UNCHANGED <<start, core>>
  BY <1>1, <1>2
<1>3. ASSUME NEW w \in Users, NEW s \in Slots, NEW m \in Nodes, Job(w, s, m)
      PROVE  core'[n][u] = Out /\ start'[n].users[u] = Out
  <2>1. \A a \in {Given(w, tasks[w][s].tags, tasks[w][s].version, n)}
                   \cup Partly(w, tasks[w][s], n) : a = Out
    BY GivenOut DEF Partly
  <2>2. PICK a \in {Given(w, tasks[w][s].tags, tasks[w][s].version, m)}
                    \cup Partly(w, tasks[w][s], m) : core' = [core EXCEPT ![m][w] = a]
    BY <1>3 DEF Job
  <2> QED BY <1>1, <1>3, <2>1, <2>2 DEF Job, NodeType
<1>4. ASSUME NEW m \in Nodes, StartMark(m) \/ Start(m) \/ StartDropped(m) \/ Lose(m)
      PROVE  core'[n][u] = Out /\ start'[n].users[u] = Out
  <2>1. Wanted(n, u) = Out
    BY GivenOut DEF Wanted
  <2>2. NoStart.users[u] = Out /\ Nobody[u] = Out
    BY DEF NoStart, Nobody
  <2>3. \A pc \in {"core", "kept"} : [NoStart EXCEPT !.pc = pc].users[u] = Out
    BY DEF NoStart, Nobody
  <2>4. CASE StartMark(m)
    BY <1>1, <2>4 DEF StartMark, NodeType, Starts
  <2>5. CASE StartRead(m)
    BY <1>1, <2>1, <2>5 DEF StartRead, NodeType
  <2>6. CASE StartCore(m) \/ StartSkip(m)
    BY <1>1, <2>3, <2>6 DEF StartCore, StartSkip, NodeType
  <2>7. CASE StartDone(m) \/ Lose(m) \/ StartDropped(m)
    BY <1>1, <2>2, <2>7 DEF StartDone, Lose, StartDropped, NodeType
  <2> QED BY <1>4, <2>4, <2>5, <2>6, <2>7 DEF Start
<1>5. UNCHANGED <<start, core>> \/ (\E w \in Users, s \in Slots, m \in Nodes : Job(w, s, m))
        \/ (\E m \in Nodes : StartMark(m) \/ Start(m) \/ StartDropped(m) \/ Lose(m))
  <2>1. CASE Request
    BY <2>1 DEF Request, CreateUser, RevokeUserSubscription, DeleteUser, DisableUser,
       EnableUser, ResetRead, UpdateRead, Extend, BulkSquads, UpdateInternalSquad,
       SquadMembers, DeleteByStatus, UpdateAll, nodeVars
  <2>2. CASE Proceed
    BY <2>2 DEF Proceed, AddIfActive, SwitchPublish, ResetWrite, UpdateWrite, ExtendSync,
       BulkSquadsAdd, SyncAll, RestartNodes, nodeVars
  <2>3. CASE Watch \/ BatchReset \/ \E w \in Users : UseUp(w) \/ Pass(w)
    BY <2>3 DEF Watch, WatchExceeded, WatchExpired, BatchReset, UseUp, Pass, nodeVars
  <2>4. CASE \E w \in Users : \E s \in Slots : Handle(w, s)
    BY <2>4 DEF Handle, Fire, UserEvent, AddReadUser, AddReadNodes, AddsReadNodes,
       AddsReadUsers, RemoveReadNodes, nodeVars
  <2> QED BY <2>1, <2>2, <2>3, <2>4 DEF Next, Step
<1> QED BY <1>2, <1>3, <1>4, <1>5

LEMMA LineInit == Init => IInv
<1> SUFFICES ASSUME Init PROVE IInv
  OBVIOUS
<1> USE DEF Init
<1>1. Types
  BY TypesInit
<1>2. \A n \in Nodes : start[n].pc = "none"
  BY EmptyTypes
<1>3. \A u \in Users : Tasks(u) = {} /\ ~Live(u)
  BY EmptyTypes DEF Tasks, Live, Resets
<1>4. Noted /\ Disabling
  BY <1>2, <1>3, EmptyTypes DEF Noted, Disabling
<1>5. Unserved
  BY DEF Unserved, NoStart, Nobody
<1>6. \A n \in Nodes, u \in Users : core[n][u] = Out
  BY DEF Nobody
<1>7. InLine
  BY <1>2, <1>3, <1>6 DEF InLine, Line, Claim, Goal
<1> QED BY <1>1, <1>4, <1>5, <1>7 DEF IInv

LEMMA LineNext ==
  ASSUME Separate
  PROVE  IInv /\ [Next]_vars => IInv'
<1> SUFFICES ASSUME IInv, [Next]_vars PROVE IInv'
  OBVIOUS
<1>1. Types'
  BY TypesNext DEF IInv
<1>2. CASE Next
  BY <1>1, <1>2, InLineNext, NotedNext, UnservedNext DEF IInv
<1>3. CASE UNCHANGED vars
  <2> USE <1>3 DEF vars, dbVars, userVars, nodeVars, boundVars, history
  <2>1. \A u \in Users : /\ InboundsOf(u)' = InboundsOf(u) /\ Tasks(u)' = Tasks(u)
                         /\ (Live(u)' <=> Live(u)) /\ (Holds(u)' <=> Holds(u))
    BY DEF InboundsOf, Tasks, Live, Resets, Holds
  <2>2. Noted' /\ Disabling' /\ Unserved'
    BY <2>1 DEF IInv, Noted, Disabling, Unserved
  <2>3. ASSUME NEW n \in Nodes, NEW u \in Users, ~Doubt(n, u)', ~Debt(n, u)'
        PROVE  Claim(n, u)'
    <3>1. Untouched(n, u) /\ ~Doubt(n, u)
      BY <2>1, <2>3 DEF Untouched, Debt, Doubt
    <3> QED BY <2>3, <3>1, KeptLine DEF IInv, InLine
  <2> QED BY <1>1, <2>2, <2>3 DEF IInv, InLine, Line
<1> QED BY <1>2, <1>3

\* Once what was requested about a user has been dealt with, a connected node lets
\* the user in exactly if the database says ACTIVE, by the inbounds of the user's
\* squads and with the latest credentials: however many users, nodes and squads
\* there are, whatever the requests, the watchdog and the starts of nodes did before,
\* and whichever jobs are still under way about other users - unless, since the
\* core of the node was last restarted, one of four things happened to the pair
\* (stale): an overlap, an event that adds and was ignored, a job that failed or was
\* refused, a restart that a start dropped which had read the users.  Such a pair is
\* exact again after a restart that meets none of them.  The hypothesis leaves out
\* the body for which updateUser removes nobody.
THEOREM ExactCorrect ==
  ASSUME Separate
  PROVE  Spec => []ExactWhenQuiet
<1>1. IInv => ExactWhenQuiet
  <2> SUFFICES ASSUME IInv, NEW n \in Nodes, NEW u \in Users, Quiet(n, u)
               PROVE  core[n][u] = Wanted(n, u)
    BY DEF ExactWhenQuiet
  <2>1. ~Debt(n, u) /\ ~Resets(u)
    BY NoRequest DEF Quiet
  <2>2. core[n][u] = Goal(n, u)
    BY <2>1 DEF IInv, InLine, Line, Doubt, Claim, Quiet
  <2> QED BY <2>1, <2>2 DEF Goal, Live, Wanted
<1>2. IInv /\ [Next]_vars => IInv'
  BY LineNext
<1> QED BY <1>1, <1>2, LineInit, PTL DEF Spec

\* Who is not ACTIVE is then not let in by any connected node, with the exceptions
\* of ExactWhenQuiet - as long as no body disables a user and moves the user to other
\* squads.
THEOREM OthersOut ==
  ASSUME Separate
  PROVE  Spec => []OthersStayOut
<1>1. ExactWhenQuiet => OthersStayOut
  BY DEF ExactWhenQuiet, OthersStayOut, Wanted
<1> QED BY <1>1, ExactCorrect, PTL
=============================================================================

------------------------------ MODULE UserSync ------------------------------
(***************************************************************************)
(* How the panel keeps the users of the nodes in line with its database.   *)
(* Requests and the watchdog write the status, the squads and the          *)
(* credentials of a user and publish an event; its handler reads the       *)
(* database again and sends each connected node a job, which is handled    *)
(* out of order with others, may fail at any node, wholly or in part, is   *)
(* not attempted again, and is not sent to a node that is being started:   *)
(* such a node gets its users with its configuration.  Changes of squads   *)
(* and of all users restart the nodes.                                     *)
(*                                                                         *)
(* An action is what one actor does between two awaits on another system.  *)
(* What a node does with a job is the subject of NodeAgent, how nodes are  *)
(* started that of NodeLifecycle.  One request is handled at a time; it    *)
(* meets the watchdog, the jobs of earlier requests and starts of nodes.   *)
(* All inbounds belong to one profile, and fewer than ten thousand users   *)
(* are limited or expire at a time.                                        *)
(***************************************************************************)
EXTENDS Naturals, FiniteSets

CONSTANTS
  Users, Nodes, Squads, Tags,
  Serves,      \* the inbounds of each node
  Inbounds,    \* the inbounds of each squad at first
  Updates,     \* the bodies of requests that update users
  Slots,       \* events and jobs about a user there may be at a time
  MaxRequests, \* bound on the requests,
  MaxChanges   \*   and on what users, time and nodes do

Statuses == {"ACTIVE", "DISABLED", "LIMITED", "EXPIRED"}

\* A body has a status, a traffic limit, a date and squads, or leaves them as
\* they are.
Bodies == [status : {"same", "ACTIVE", "DISABLED"},
           limit : {"same", "raised", "lowered"},
           expire : {"same", "later"},
           squads : {{"same"}} \cup SUBSET Squads]
NoBody ==
  [status |-> "same", limit |-> "same", expire |-> "same", squads |-> {"same"}]

ASSUME ServesAssumption == Serves \in [Nodes -> SUBSET Tags]
ASSUME InboundsAssumption == Inbounds \in [Squads -> SUBSET Tags]
ASSUME UpdatesAssumption == Updates \subseteq Bodies /\ "same" \notin Squads
ASSUME BoundAssumption == MaxRequests \in Nat /\ MaxChanges \in Nat

VARIABLES
  status,      \* of each user; "none" before and "gone" after there is a row
  squads,      \* activeInternalSquads of each user
  version,     \* the credentials of each user
  over, past,  \* the users that have used up their traffic, or whose expireAt
               \*   has passed
  inbounds,    \* the inbounds of each squad
  req,         \* the request or serial job that is being handled
  tasks,       \* events about each user, their handlers, and their jobs
  conn,        \* the nodes with isConnected
  start,       \* the start of each node, which has isConnecting
  due,         \* the nodes whose START_NODE job is in its queue
  core,        \* the users of the core of each node
  late, stale, \* history: the nodes and users about which something has
               \*   overlapped, was ignored, failed or was dropped, since the
               \*   users of the node were last read for a start (late), and
               \*   since its core was last restarted (stale)
  requests, changes  \* bounds

userVars == <<status, squads, version, over, past>>
dbVars == <<userVars, inbounds>>
nodeVars == <<conn, start, due, core>>
boundVars == <<requests, changes>>
history == <<late, stale>>
vars == <<dbVars, req, tasks, nodeVars, history, boundVars>>

Access == [tags : SUBSET Tags, version : Nat]
Out == [tags |-> {}, version |-> 0]
Nobody == [u \in Users |-> Out]
NoReq == [pc |-> "none", of |-> {}, body |-> NoBody, seen |-> "none"]
NoTask == [pc |-> "none", kind |-> "add", tags |-> {}, version |-> 0, to |-> {}]
NoStart == [pc |-> "none", users |-> Nobody]

Init ==
  /\ status = [u \in Users |-> "none"] /\ squads = [u \in Users |-> {}]
  /\ version = [u \in Users |-> 1] /\ over = {} /\ past = {}
  /\ inbounds = Inbounds
  /\ req = NoReq /\ tasks = [u \in Users |-> [s \in Slots |-> NoTask]]
  /\ conn = Nodes /\ start = [n \in Nodes |-> NoStart] /\ due = {}
  /\ core = [n \in Nodes |-> Nobody] /\ late = {} /\ stale = {}
  /\ requests = 0 /\ changes = 0

Rows == {u \in Users : status[u] \in Statuses}
InboundsOf(u) == UNION {inbounds[q] : q \in squads[u]}
Given(u, tags, v, n) ==
  IF tags \cap Serves[n] = {} THEN Out
  ELSE [tags |-> tags \cap Serves[n], version |-> v]

\* What getUsersForConfigStream gives a node that is started.
Wanted(n, u) ==
  IF status[u] = "ACTIVE" THEN Given(u, InboundsOf(u), version[u], n) ELSE Out

\* An event about each of the users in S is published, or put into a list.
AddTasks(S, kind, pc) ==
  \E slot \in [S -> Slots] :
    /\ \A u \in S : tasks[u][slot[u]].pc = "none"
    /\ tasks' = [u \in Users |->
                   IF u \in S
                   THEN [tasks[u] EXCEPT ![slot[u]] =
                           [NoTask EXCEPT !.pc = pc, !.kind = kind]]
                   ELSE tasks[u]]

Publish(kind, u) == AddTasks({u}, kind, "event")

-----------------------------------------------------------------------------
(* Requests.  Those about one user, then those about many.                 *)

Ask ==
  /\ req.pc = "none" /\ requests < MaxRequests
  /\ requests' = requests + 1

ReqGoto(pc, u) == req' = [NoReq EXCEPT !.pc = pc, !.of = {u}]
SetStatus(S, st) == status' = [u \in Users |-> IF u \in S THEN st ELSE status[u]]

\* The row.  A user is created once.
CreateUser(u) ==
  /\ req.pc = "none" /\ status[u] = "none"
  /\ \E st \in {"ACTIVE", "DISABLED"} : SetStatus({u}, st)
  /\ \E S \in SUBSET Squads : squads' = [squads EXCEPT ![u] = S]
  /\ ReqGoto("create", u)
  /\ UNCHANGED <<version, over, past, inbounds, tasks, nodeVars, boundVars>>

\* createUser and revokeUserSubscription read the user again.
AddIfActive(u) ==
  /\ req.pc \in {"create", "revoke"} /\ req.of = {u}
  /\ IF status[u] = "ACTIVE" THEN Publish("add", u) ELSE UNCHANGED tasks
  /\ req' = NoReq
  /\ UNCHANGED <<dbVars, nodeVars, boundVars>>

RevokeUserSubscription(u) ==
  /\ Ask /\ u \in Rows
  /\ version' = [version EXCEPT ![u] = @ + 1]
  /\ ReqGoto("revoke", u)
  /\ UNCHANGED <<status, squads, over, past, inbounds, tasks, nodeVars, changes>>

\* bulkDeleteUsersByUuid does the same for many users.
DeleteUser(u) ==
  /\ Ask /\ u \in Rows
  /\ SetStatus({u}, "gone") /\ squads' = [squads EXCEPT ![u] = {}]
  /\ Publish("remove", u)
  /\ UNCHANGED <<version, over, past, inbounds, req, nodeVars, changes>>

DisableUser(u) ==
  /\ Ask /\ u \in Rows /\ status[u] # "DISABLED"
  /\ SetStatus({u}, "DISABLED")
  /\ ReqGoto("disable", u)
  /\ UNCHANGED <<squads, version, over, past, inbounds, tasks, nodeVars, changes>>

EnableUser(u) ==
  /\ Ask /\ u \in Rows /\ status[u] # "ACTIVE"
  /\ SetStatus({u}, "ACTIVE")
  /\ ReqGoto("enable", u)
  /\ UNCHANGED <<squads, version, over, past, inbounds, tasks, nodeVars, changes>>

SwitchPublish(u) ==
  /\ req.pc \in {"disable", "enable"} /\ req.of = {u}
  /\ Publish(IF req.pc = "enable" THEN "add" ELSE "remove", u)
  /\ req' = NoReq
  /\ UNCHANGED <<dbVars, nodeVars, boundVars>>

\* resetUserTraffic publishes before it writes.
ResetRead(u) ==
  /\ Ask /\ u \in Rows
  /\ IF status[u] = "LIMITED" THEN Publish("add", u) ELSE UNCHANGED tasks
  /\ req' = [NoReq EXCEPT !.pc = "reset", !.of = {u}, !.seen = status[u]]
  /\ UNCHANGED <<dbVars, nodeVars, changes>>

ResetWrite(u) ==
  /\ req.pc = "reset" /\ req.of = {u}
  /\ over' = over \ {u}
  /\ SetStatus({u}, IF req.seen = "LIMITED" THEN "ACTIVE" ELSE status[u])
  /\ req' = NoReq
  /\ UNCHANGED <<squads, version, past, inbounds, tasks, nodeVars, boundVars>>

UpdateRead(u) ==
  /\ Ask /\ u \in Rows
  /\ \E b \in Updates :
       req' = [pc |-> "update", of |-> {u}, body |-> b, seen |-> status[u]]
  /\ UNCHANGED <<dbVars, tasks, nodeVars, changes>>

\* What a new limit may do to the users of S that are over theirs.
NewLimit(limit, S) ==
  CASE limit = "same" -> {over}
    [] limit = "raised" -> {over \ T : T \in SUBSET S}
    [] limit = "lowered" -> {over \cup T : T \in SUBSET S}

\* updateUser enables by status, limit or date, by the row it has read.
Enables(b, seen) ==
  \/ seen # "ACTIVE" /\ b.status = "ACTIVE"
  \/ seen = "LIMITED" /\ b.limit = "raised"
  \/ seen = "EXPIRED" /\ b.expire = "later" /\ b.status = "same"

\* Mutant: whether to publish is decided by the row that was read.
UpdateWriteSeen(u) ==
  LET b == req.body
      moved == b.squads \notin {{"same"}, squads[u]}
      enables == Enables(b, req.seen)
      disables == req.seen = "ACTIVE" /\ b.status = "DISABLED"
      add == IF moved THEN b.squads # {} ELSE enables
      remove == IF moved THEN b.squads = {} ELSE disables
  IN /\ req.pc = "update" /\ req.of = {u}
     /\ SetStatus({u}, IF enables THEN "ACTIVE" ELSE IF disables THEN "DISABLED"
                       ELSE status[u])
     /\ squads' = IF moved THEN [squads EXCEPT ![u] = b.squads] ELSE squads
     /\ over' \in NewLimit(b.limit, {u})
     /\ past' = IF b.expire = "later" THEN past \ {u} ELSE past
     /\ IF remove THEN Publish("remove", u)
        ELSE IF add /\ (enables \/ req.seen = "ACTIVE") THEN Publish("add", u)
        ELSE UNCHANGED tasks
     /\ req' = NoReq
     /\ UNCHANGED <<version, inbounds, nodeVars, boundVars>>

\* Squads that change decide alone whether the user is added or removed.
UpdateWrite(u) ==
  LET b == req.body
      moved == b.squads \notin {{"same"}, squads[u]}
      enables == Enables(b, req.seen)
      disables == req.seen = "ACTIVE" /\ b.status = "DISABLED"
      add == IF moved THEN b.squads # {} ELSE enables
      remove == IF moved THEN b.squads = {} ELSE disables
  IN /\ req.pc = "update" /\ req.of = {u}
     /\ SetStatus({u}, IF enables THEN "ACTIVE" ELSE IF disables THEN "DISABLED"
                       ELSE status[u])
     /\ squads' = IF moved THEN [squads EXCEPT ![u] = b.squads] ELSE squads
     /\ over' \in NewLimit(b.limit, {u})
     /\ past' = IF b.expire = "later" THEN past \ {u} ELSE past
     /\ IF remove THEN Publish("remove", u)
        ELSE IF add /\ status'[u] = "ACTIVE" THEN Publish("add", u)
        ELSE UNCHANGED tasks
     /\ req' = NoReq
     /\ UNCHANGED <<version, inbounds, nodeVars, boundVars>>

\* bulkExtendExpirationDate, for one of its users.
Extend(u) ==
  /\ Ask /\ u \in Rows
  /\ past' \in {past, past \ {u}}
  /\ ReqGoto("extend", u)
  /\ UNCHANGED <<status, squads, version, over, inbounds, tasks, nodeVars, changes>>

ExtendSync(u) ==
  /\ req.pc = "extend" /\ req.of = {u}
  /\ IF status[u] = "EXPIRED" /\ u \notin past
     THEN SetStatus({u}, "ACTIVE") /\ ReqGoto("enable", u)
     ELSE UNCHANGED status /\ req' = NoReq
  /\ UNCHANGED <<squads, version, over, past, inbounds, tasks, nodeVars, boundVars>>

\* bulkUpdateUsersInternalSquads, for one of its users.
BulkSquads(u) ==
  /\ Ask /\ u \in Rows
  /\ squads' = [squads EXCEPT ![u] = {}]
  /\ \E b \in Updates :
       /\ b.squads # {"same"} /\ b = [NoBody EXCEPT !.squads = b.squads]
       /\ req' = [NoReq EXCEPT !.pc = "bulk", !.of = {u}, !.body = b]
  /\ UNCHANGED <<status, version, over, past, inbounds, tasks, nodeVars, changes>>

BulkSquadsAdd(u) ==
  /\ req.pc = "bulk" /\ req.of = {u}
  /\ squads' = [squads EXCEPT ![u] = req.body.squads]
  /\ Publish("adds", u)
  /\ req' = NoReq
  /\ UNCHANGED <<status, version, over, past, inbounds, nodeVars, boundVars>>

\* updateInternalSquad; deleteInternalSquad leaves no inbounds.
UpdateInternalSquad(q) ==
  /\ Ask
  /\ \E T \in SUBSET Tags \ {inbounds[q]} : inbounds' = [inbounds EXCEPT ![q] = T]
  /\ req' = [NoReq EXCEPT !.pc = "restart"]
  /\ UNCHANGED <<userVars, tasks, nodeVars, changes>>

\* The job that adds all users to a squad, or removes them.
SquadMembers(q) ==
  /\ Ask
  /\ \/ squads' = [u \in Users |-> IF u \in Rows THEN squads[u] \cup {q}
                                   ELSE squads[u]]
     \/ squads' = [u \in Users |-> squads[u] \ {q}]
  /\ req' = IF inbounds[q] = {} THEN NoReq ELSE [NoReq EXCEPT !.pc = "restart"]
  /\ UNCHANGED <<status, version, over, past, inbounds, tasks, nodeVars, changes>>

DeleteByStatus(st) ==
  LET S == {u \in Users : status[u] = st}
  IN /\ Ask
     /\ SetStatus(S, "gone")
     /\ squads' = [u \in Users |-> IF u \in S THEN {} ELSE squads[u]]
     /\ req' = IF st = "ACTIVE" THEN [NoReq EXCEPT !.pc = "restart"] ELSE NoReq
     /\ UNCHANGED <<version, over, past, inbounds, tasks, nodeVars, changes>>

\* The job of bulkUpdateAllUsers.
UpdateAll ==
  /\ Ask
  /\ \E b \in Updates :
       /\ b.squads = {"same"}
       /\ IF b.status = "same" THEN UNCHANGED status ELSE SetStatus(Rows, b.status)
       /\ over' \in NewLimit(b.limit, Rows)
       /\ past' = IF b.expire = "later" THEN {} ELSE past
       /\ req' = [NoReq EXCEPT !.pc = "sync", !.body = b]
  /\ UNCHANGED <<squads, version, inbounds, tasks, nodeVars, changes>>

\* bulkSyncLimitedUsers and bulkSyncExpiredUsers
SyncAll ==
  LET b == req.body
  IN /\ req.pc = "sync"
     /\ SetStatus({u \in Users :
                     \/ b.limit # "same" /\ status[u] = "LIMITED" /\ u \notin over
                     \/ b.expire # "same" /\ status[u] = "EXPIRED" /\ u \notin past},
                  "ACTIVE")
     /\ req' = [NoReq EXCEPT !.pc = "restart"]
     /\ UNCHANGED <<squads, version, over, past, inbounds, tasks, nodeVars,
                    boundVars>>

RestartNodes ==
  /\ req.pc = "restart"
  /\ due' = Nodes /\ req' = NoReq
  /\ UNCHANGED <<dbVars, tasks, conn, start, core, boundVars>>

-----------------------------------------------------------------------------
(* The watchdog, time and traffic.                                         *)

Change == changes < MaxChanges /\ changes' = changes + 1

UseUp(u) ==
  /\ Change /\ u \in Rows \ over
  /\ over' = over \cup {u}
  /\ UNCHANGED <<status, squads, version, past, inbounds, req, tasks, nodeVars,
                 requests>>

Pass(u) ==
  /\ Change /\ u \in Rows \ past
  /\ past' = past \cup {u}
  /\ UNCHANGED <<status, squads, version, over, inbounds, req, tasks, nodeVars,
                 requests>>

\* updateExceededTrafficUsers
WatchExceeded ==
  LET S == {u \in over : status[u] = "ACTIVE"}
  IN /\ S # {}
     /\ SetStatus(S, "LIMITED") /\ AddTasks(S, "remove", "found")
     /\ UNCHANGED <<squads, version, over, past, inbounds, req, nodeVars,
                    boundVars>>

\* updateExpiredUsers
WatchExpired ==
  LET S == {u \in past : status[u] \in {"ACTIVE", "LIMITED"}}
  IN /\ S # {}
     /\ SetStatus(S, "EXPIRED") /\ AddTasks(S, "remove", "found")
     /\ UNCHANGED <<squads, version, over, past, inbounds, req, nodeVars,
                    boundVars>>

\* The jobs that reset traffic, of all users in one step.
BatchReset ==
  LET S == {u \in Users : status[u] = "LIMITED"}
  IN /\ Change /\ over # {}
     /\ over' = {} /\ SetStatus(S, "ACTIVE") /\ AddTasks(S, "add", "found")
     /\ UNCHANGED <<squads, version, past, inbounds, req, nodeVars, requests>>

-----------------------------------------------------------------------------
(* Events and their handlers.                                              *)

SetTask(u, s, t) == tasks' = [tasks EXCEPT ![u][s] = t]

\* fireUserEventBulk
Fire(u, s) ==
  /\ tasks[u][s].pc = "found"
  /\ SetTask(u, s, [tasks[u][s] EXCEPT !.pc = "queued"])
  /\ UNCHANGED <<dbVars, req, nodeVars, boundVars>>

\* Mutant: nobody is removed who is LIMITED.
UserEventLimited(u, s) ==
  /\ tasks[u][s].pc = "queued"
  /\ SetTask(u, s, IF u \in Rows /\ status[u] # "LIMITED"
                   THEN [tasks[u][s] EXCEPT !.pc = "event"] ELSE NoTask)
  /\ UNCHANGED <<dbVars, req, nodeVars, boundVars>>

\* handleFireUserEvent, which does not look at the status
UserEvent(u, s) ==
  /\ tasks[u][s].pc = "queued"
  /\ SetTask(u, s, IF u \in Rows THEN [tasks[u][s] EXCEPT !.pc = "event"]
                   ELSE NoTask)
  /\ UNCHANGED <<dbVars, req, nodeVars, boundVars>>

\* getUserWithResolvedInbounds has no condition on the status either.
AddReadUser(u, s) ==
  LET t == tasks[u][s]
  IN /\ t.pc = "event" /\ t.kind = "add"
     /\ SetTask(u, s, IF u \in Rows /\ InboundsOf(u) # {}
                      THEN [t EXCEPT !.pc = "read", !.tags = InboundsOf(u),
                                     !.version = version[u]]
                      ELSE NoTask)
     /\ UNCHANGED <<dbVars, req, nodeVars, boundVars>>

Send(t, to) ==
  IF to = {} THEN NoTask ELSE [t EXCEPT !.pc = "jobs", !.to = to]

\* findConnectedNodes
Reached == {n \in conn : start[n].pc = "none" /\ Serves[n] # {}}

AddReadNodes(u, s) ==
  LET t == tasks[u][s]
  IN /\ t.pc = "read" /\ t.kind = "add"
     /\ SetTask(u, s, Send(t, Reached))
     /\ UNCHANGED <<dbVars, req, nodeVars, boundVars>>

\* AddUsersToNodeHandler reads the nodes first, and only active users.
AddsReadNodes(u, s) ==
  LET t == tasks[u][s]
  IN /\ t.pc = "event" /\ t.kind = "adds"
     /\ SetTask(u, s, IF Reached = {} THEN NoTask
                      ELSE [t EXCEPT !.pc = "read", !.to = Reached])
     /\ UNCHANGED <<dbVars, req, nodeVars, boundVars>>

AddsReadUsers(u, s) ==
  LET t == tasks[u][s]
  IN /\ t.pc = "read" /\ t.kind = "adds"
     /\ SetTask(u, s, IF status[u] = "ACTIVE" /\ InboundsOf(u) # {}
                      THEN Send([t EXCEPT !.tags = InboundsOf(u),
                                          !.version = version[u]], t.to)
                      ELSE NoTask)
     /\ UNCHANGED <<dbVars, req, nodeVars, boundVars>>

\* Mutant: the job that removes is made like one that adds.
RemoveReadNodesAdding(u, s) ==
  LET t == tasks[u][s]
  IN /\ t.pc = "event" /\ t.kind = "remove"
     /\ SetTask(u, s, Send([t EXCEPT !.tags = InboundsOf(u)], conn))
     /\ UNCHANGED <<dbVars, req, nodeVars, boundVars>>

\* findConnectedNodesWithoutInbounds includes nodes that are being started.
RemoveReadNodes(u, s) ==
  LET t == tasks[u][s]
  IN /\ t.pc = "event" /\ t.kind = "remove"
     /\ SetTask(u, s, Send(t, conn))
     /\ UNCHANGED <<dbVars, req, nodeVars, boundVars>>

\* What a request that fails may leave: the agent takes the user out of one
\* inbound after another, and puts the user into one after another.
Partly(u, t, n) ==
  {Given(u, T, core[n][u].version, n) : T \in SUBSET core[n][u].tags}
    \cup {Given(u, T, t.version, n) : T \in SUBSET t.tags}

\* A job of NodeUsersQueueProcessor or NodeBulkUsersQueueProcessor: whatever
\* fails or is refused, at whatever node, is logged and given up.  A request that
\* the panel no longer waits for may still be carried out.
Job(u, s, n) ==
  LET t == tasks[u][s]
  IN /\ t.pc = "jobs" /\ n \in t.to
     /\ \E a \in {Given(u, t.tags, t.version, n)} \cup Partly(u, t, n) :
          core' = [core EXCEPT ![n][u] = a]
     /\ SetTask(u, s, Send(t, t.to \ {n}))
     /\ UNCHANGED <<dbVars, req, conn, start, due, boundVars>>

-----------------------------------------------------------------------------
(* Starts of nodes.                                                        *)

\* isConnecting.  Nodes are also started for reasons of their own.
StartMark(n) ==
  /\ start[n].pc = "none"
  /\ IF n \in due THEN UNCHANGED changes ELSE Change
  /\ start' = [start EXCEPT ![n].pc = "marked"] /\ due' = due \ {n}
  /\ UNCHANGED <<dbVars, req, tasks, conn, core, requests>>

\* getUsersForConfigStream
StartRead(n) ==
  /\ start[n].pc = "marked"
  /\ start' = [start EXCEPT ![n] =
                 [pc |-> "read", users |-> [u \in Users |-> Wanted(n, u)]]]
  /\ UNCHANGED <<dbVars, req, tasks, conn, due, core, boundVars>>

StartCore(n) ==
  /\ start[n].pc = "read"
  /\ core' = [core EXCEPT ![n] = start[n].users]
  /\ start' = [start EXCEPT ![n] = [NoStart EXCEPT !.pc = "core"]]
  /\ UNCHANGED <<dbVars, req, tasks, conn, due, boundVars>>

\* The agent finds that the hashes of its mirror match, and keeps its core; the
\* mirror tells of the core unless something went wrong since that was restarted.
StartSkip(n) ==
  /\ start[n].pc = "read"
  /\ \A u \in Users : core[n][u] = start[n].users[u] \/ <<n, u>> \in stale
  /\ start' = [start EXCEPT ![n] = [NoStart EXCEPT !.pc = "kept"]]
  /\ UNCHANGED <<dbVars, req, tasks, conn, due, core, boundVars>>

StartDone(n) ==
  /\ start[n].pc \in {"core", "kept"}
  /\ conn' = conn \cup {n} /\ start' = [start EXCEPT ![n] = NoStart]
  /\ UNCHANGED <<dbVars, req, tasks, due, core, boundVars>>

\* A start fails, or a node is lost: its core may have died or not.
Lose(n) ==
  /\ Change
  /\ n \in conn \/ start[n].pc # "none"
  /\ conn' = conn \ {n} /\ start' = [start EXCEPT ![n] = NoStart]
  /\ core' \in {core, [core EXCEPT ![n] = Nobody]}
  /\ UNCHANGED <<dbVars, req, tasks, due, requests>>

\* A job that finds the node connecting returns, and one with the id of a job that
\* is active is not added: a restart that is asked for during a start is not done.
StartDropped(n) ==
  /\ n \in due /\ start[n].pc # "none"
  /\ due' = due \ {n}
  /\ UNCHANGED <<dbVars, req, tasks, conn, start, core, boundVars>>

-----------------------------------------------------------------------------
(* What may overlap.  Two events about a user overlap, an event and the    *)
(* start of a node, and an event with a request between its write and its  *)
(* event (enableUser) or between its event and its write                   *)
(* (resetUserTraffic).                                                     *)

Tasks(u) == {s \in Slots : tasks[u][s].pc # "none"}
Holds(u) == req.pc \in {"enable", "reset"} /\ u \in req.of

Overlap(n, u) ==
  \/ \E s \in Tasks(u)', r \in Tasks(u)' : s # r
  \/ start'[n].pc # "none" /\ (Tasks(u)' # {} \/ Holds(u)')
  \/ ~(Tasks(u)' \subseteq Tasks(u)) /\ Holds(u) /\ Holds(u)'

\* The handlers that add return when the user's squads have no inbounds, and
\* handleFireUserEvent returns when the user has been deleted meanwhile.
Ignored(n, u) ==
  /\ core[n][u] # Out
  /\ \E s \in Slots :
       /\ tasks'[u][s].pc = "none"
       /\ \/ /\ tasks[u][s].kind # "remove" /\ InboundsOf(u) = {}
             /\ tasks[u][s].pc \in {"event", "read"}
          \/ tasks[u][s].pc = "queued" /\ u \notin Rows

\* A job has not done what it should.
Failed(n, u) ==
  \E s \in Slots :
    LET t == tasks[u][s]
    IN /\ t.pc = "jobs" /\ n \in t.to \ tasks'[u][s].to
       /\ core'[n][u] # Given(u, t.tags, t.version, n)

\* The start that goes on instead has read the users already.
Dropped(n) == n \in due \ due' /\ start[n].pc \notin {"none", "marked"}

Moved(n, from, to) == start[n].pc = from /\ start'[n].pc = to
Note ==
  LET new == {p \in Nodes \X Users :
                \/ Overlap(p[1], p[2]) \/ Ignored(p[1], p[2])
                \/ Failed(p[1], p[2]) \/ Dropped(p[1])}
  IN /\ late' = new \cup {p \in late : ~Moved(p[1], "marked", "read")}
     /\ stale' = new \cup {p \in stale : Moved(p[1], "read", "core") => p \in late}

Request ==
  \/ \E u \in Users :
       \/ CreateUser(u) \/ RevokeUserSubscription(u) \/ DeleteUser(u)
       \/ DisableUser(u) \/ EnableUser(u) \/ ResetRead(u) \/ UpdateRead(u)
       \/ Extend(u) \/ BulkSquads(u)
  \/ \E q \in Squads : UpdateInternalSquad(q) \/ SquadMembers(q)
  \/ \E st \in Statuses : DeleteByStatus(st)
  \/ UpdateAll
Proceed ==
  \/ \E u \in Users : \/ AddIfActive(u) \/ SwitchPublish(u) \/ ResetWrite(u)
                      \/ UpdateWrite(u) \/ ExtendSync(u) \/ BulkSquadsAdd(u)
  \/ SyncAll \/ RestartNodes
Watch == WatchExceeded \/ WatchExpired
Handle(u, s) ==
  \/ Fire(u, s) \/ UserEvent(u, s) \/ AddReadUser(u, s) \/ AddReadNodes(u, s)
  \/ AddsReadNodes(u, s) \/ AddsReadUsers(u, s) \/ RemoveReadNodes(u, s)
  \/ \E n \in Nodes : Job(u, s, n)
Start(n) == StartRead(n) \/ StartCore(n) \/ StartSkip(n) \/ StartDone(n)

Step ==
  \/ Request \/ Proceed \/ Watch \/ BatchReset
  \/ \E u \in Users : \/ UseUp(u) \/ Pass(u)
                      \/ \E s \in Slots : Handle(u, s)
  \/ \E n \in Nodes : StartMark(n) \/ Start(n) \/ StartDropped(n) \/ Lose(n)

Next == Step /\ Note
Spec == Init /\ [][Next]_vars

\* Requests end, the watchdog runs every few seconds or minutes, jobs are taken
\* from their queues, and a start comes to an end.
FairSpec ==
  /\ Spec
  /\ WF_vars(Proceed /\ Note) /\ WF_vars(Watch /\ Note)
  /\ \A u \in Users, s \in Slots : WF_vars(Handle(u, s) /\ Note)
  /\ \A n \in Nodes : WF_vars(Start(n) /\ Note)

-----------------------------------------------------------------------------
(* Properties.                                                             *)

Reqs == [pc : {"none", "create", "revoke", "disable", "enable", "reset",
               "update", "extend", "bulk", "sync", "restart"},
         of : SUBSET Users, body : Bodies,
         seen : Statuses \cup {"none"}]
TaskRecords == [pc : {"none", "found", "queued", "event", "read", "jobs"},
                kind : {"add", "adds", "remove"}, tags : SUBSET Tags,
                version : Nat, to : SUBSET Nodes]
Starts == [pc : {"none", "marked", "read", "core", "kept"}, users : [Users -> Access]]

\* Rows, requests, events, jobs and cores hold values of their kinds, a request
\* is about users that have a row, and a job that removes names no inbounds.
TypeOK ==
  /\ status \in [Users -> Statuses \cup {"none", "gone"}]
  /\ squads \in [Users -> SUBSET Squads] /\ version \in [Users -> Nat]
  /\ over \in SUBSET Users /\ past \in SUBSET Users
  /\ inbounds \in [Squads -> SUBSET Tags]
  /\ req \in Reqs /\ req.of \subseteq Rows
  /\ tasks \in [Users -> [Slots -> TaskRecords]]
  /\ \A u \in Users, s \in Slots :
       tasks[u][s].kind = "remove" => tasks[u][s].tags = {}
  /\ conn \in SUBSET Nodes /\ start \in [Nodes -> Starts] /\ due \in SUBSET Nodes
  /\ core \in [Nodes -> [Users -> Access]]
  /\ late \subseteq stale /\ stale \in SUBSET (Nodes \X Users)
  /\ requests \in Nat /\ changes \in Nat

Quiet(n, u) ==
  /\ n \in conn /\ start[n].pc = "none" /\ n \notin due
  /\ Tasks(u) = {} /\ req.pc = "none"
  /\ <<n, u>> \notin stale

\* When a request, event or job about a user has been dealt with, a connected
\* node lets in exactly who is ACTIVE, by the inbounds of the user's squads and
\* the latest credentials - unless, since its core was last restarted, something
\* overlapped, an event that adds was ignored, a job failed, or a restart was
\* dropped by a start that had read the users.
ExactWhenQuiet ==
  \A n \in Nodes, u \in Users : Quiet(n, u) => core[n][u] = Wanted(n, u)

\* Who is not ACTIVE is not let in.  Stated of one request with everything the
\* panel allows in its body.
OthersStayOut ==
  \A n \in Nodes, u \in Users :
    Quiet(n, u) /\ status[u] # "ACTIVE" => core[n][u] = Out

\* A user who has used up the traffic or whose time has passed, and stays so, is
\* out of every node in the end, whatever was requested about the user before.
Settled(n, u) ==
  /\ u \in over \cup past
  /\ n \in conn /\ start[n].pc = "none" /\ n \notin due /\ <<n, u>> \notin stale
IsOut(n, u) == core[n][u] = Out

EventuallyOut ==
  \A n \in Nodes, u \in Users : <>[]Settled(n, u) => <>[]IsOut(n, u)
=============================================================================

----------------------------- MODULE NodeAgent -----------------------------
(***************************************************************************)
(* The control service of one node: XrayService (start and stop of the     *)
(* Xray core), HandlerService (users added to and removed from the running *)
(* core) and InternalService (the mirror of the core's users whose hash    *)
(* tells the panel whether a restart is needed).  All three live in one    *)
(* Node.js process, and the panel's requests are handled concurrently.     *)
(*                                                                         *)
(* An action is one turn of the event loop: everything between two awaits  *)
(* of I/O.  An await of something already resolved (the semaphore of       *)
(* InternalService, which is only ever held across synchronous code; the   *)
(* pMap over the inbounds) ends in the same turn.  What the core does      *)
(* while a handler waits for it is an action of its own.                   *)
(*                                                                         *)
(* A HashedSet is modelled by the set of credentials in it, its hash by    *)
(* the set itself (two different sets never have the same hash).           *)
(***************************************************************************)
EXTENDS Naturals, FiniteSets

CONSTANTS
  Procs,     \* slots for requests that are handled concurrently
  Users,
  MaxKey,    \* bound: how many times a user's credentials are revoked
  Tags,      \* tags of the inbounds the panel hashes
  Bases,     \* hashes of a configuration stripped of its users (emptyConfig)
  DisableHashedSetCheck,  \* the environment variable of that name
  Overlap,   \* "any": every request may overlap every other one
             \* "perUser": start and stop run alone, the users of two
             \*            requests handled together are disjoint
  Faults,    \* the faults of the environment: "crash" (the core dies),
             \* "s6" (s6-svc fails), "xtls" (a call of the core's API fails)
  None

Creds == Users \X (0 .. MaxKey)      \* a user's credential and its version
Owner(c) == c[1]
Configs == [base : Bases, tags : SUBSET Tags, users : [Tags -> SUBSET Creds]]

AddOps == {"addUser", "revokeUser", "addUsers"}
RemoveOps == {"removeUser", "removeUsers"}
Ops == AddOps \cup RemoveOps \cup {"none", "start", "stop"}
\* Where a start request holds isXrayStartedProccesing, and from where on it
\* has replaced the configuration.
Restarting == {"down", "up", "ready", "answered", "silent", "dump"}
Locked == {"stats", "healthy", "unhealthy"} \cup Restarting
\* Where a request about users is in one of its loops over inbounds.
InLoop == {"remove", "removed", "add", "added", "refused"}
Pcs == {"idle", "ips", "iface", "plugin", "kill", "killed", "done"}
         \cup InLoop \cup Locked

ASSUME OverlapAssumption == Overlap \in {"any", "perUser"}
ASSUME FaultsAssumption == Faults \subseteq {"crash", "s6", "xtls"}
ASSUME NoneAssumption == None \notin Tags /\ None \notin Creds
                         /\ None \notin Bases /\ None \notin Configs
ASSUME MaxKeyAssumption == MaxKey \in Nat
ASSUME TagsAssumption == IsFiniteSet(Tags)

VARIABLES
  online,    \* XrayService.isXrayOnline
  starting,  \* XrayService.isXrayStartedProccesing
  config,    \* InternalService.xrayConfig and emptyConfigHash, set together
  mapped,    \* InternalService.inboundsHashMap: the tags that are keys of it,
  mirror,    \*   and the credentials in the set of each tag
  xtls,      \* InternalService.xtlsConfigInbounds
  core,      \* the Xray process: "down", "boot" or "up"
  coreBase,  \* the configuration it runs,
  table,     \*   and the credentials each of its inbounds accepts
  served,    \* the inbounds it has
  cur,       \* the panel's current version of each user's credential
  h          \* the handler in each slot: its place and its local variables

agentVars == <<online, starting>>
mirrorVars == <<config, mapped, mirror, xtls>>
coreVars == <<core, coreBase, table, served>>
vars == <<agentVars, mirrorVars, coreVars, cur, h>>

Idle == [op |-> "none", pc |-> "idle", subject |-> {}, left |-> {},
         cr |-> None, tag |-> None, seen |-> {}, want |-> {}, todo |-> {},
         anyOk |-> FALSE, cfg |-> None, reply |-> "none"]

NoUsers == [t \in Tags |-> {}]

\* The service starts beside an s6 service that is marked down.
Init ==
  /\ online = FALSE /\ starting = FALSE
  /\ config = None /\ mapped = {} /\ mirror = NoUsers /\ xtls = {}
  /\ core = "down" /\ coreBase = None /\ table = NoUsers /\ served = {}
  /\ cur = [u \in Users |-> 0]
  /\ h = [p \in Procs |-> Idle]

-----------------------------------------------------------------------------
(* The panel: which requests may arrive while others are being handled.    *)

Current(u) == <<u, cur[u]>>
Owners(S) == {Owner(c) : c \in S}
Active(p) == h[p].pc # "idle"

MayBegin(p, us, alone) ==
  /\ h[p].pc = "idle"
  /\ Overlap = "perUser" =>
       \A q \in Procs : Active(q) =>
         /\ ~alone
         /\ h[q].op \notin {"start", "stop"}
         /\ Owners(h[q].subject) \cap us = {}

-----------------------------------------------------------------------------
(* Where a handler goes at the end of a turn: sets of possible new values  *)
(* of its record.  The loops over xtlsConfigInbounds iterate over the live *)
(* set: a tag that is deleted and added again is visited again.            *)

\* The handler answers; of its local variables the answer depends on some.
Done(l, r) ==
  [Idle EXCEPT !.op = l.op, !.pc = "done", !.subject = l.subject,
               !.cr = l.cr, !.want = l.want, !.cfg = l.cfg, !.reply = r]

\* for (const item of requestData): the next call that adds the user.
Adding(l) ==
  {[l EXCEPT !.pc = "add", !.tag = t, !.todo = @ \ {t}] : t \in l.todo}

\* removeUsers: the next user, or the answer.
RemoveNext(l) ==
  IF l.left = {}
  THEN {Done(l, IF l.anyOk THEN "ok" ELSE "fail")}
  ELSE {[l EXCEPT !.pc = "ips", !.cr = c, !.left = @ \ {c}, !.seen = {}] :
          c \in l.left}

\* Mutant: an addition takes the user only out of the inbounds of the request.
LoopWanted(l, tags) ==
  LET left == (IF l.op \in AddOps THEN tags \cap l.want ELSE tags) \ l.seen
  IN IF left # {}
     THEN {[l EXCEPT !.pc = "remove", !.tag = t, !.seen = @ \cup {t}] :
             t \in left}
     ELSE IF l.op \in AddOps THEN Adding([l EXCEPT !.todo = l.want])
                             ELSE RemoveNext(l)

\* for (const tag of getXtlsConfigInbounds()): the next tag, or the end.
Loop(l, tags) ==
  IF tags \ l.seen # {}
  THEN {[l EXCEPT !.pc = "remove", !.tag = t, !.seen = @ \cup {t}] :
          t \in tags \ l.seen}
  ELSE IF l.op \in AddOps THEN Adding([l EXCEPT !.todo = l.want])
                          ELSE RemoveNext(l)

\* Mutant: the loop forgets which user it is at.
NextToAddAnyone(l, tags) ==
  UNION {Loop([l EXCEPT !.left = @ \ {c}, !.seen = {}], tags) : c \in l.left}

NextToAdd(l, tags) ==
  UNION {Loop([l EXCEPT !.cr = c, !.left = @ \ {c}, !.seen = {}], tags) :
           c \in l.left}

\* After a call that adds: the next inbound, the next user, or the answer.
AddNext(l, tags) ==
  IF l.todo # {} THEN Adding(l)
  ELSE IF l.left # {} THEN NextToAdd(l, tags)
  ELSE {Done(l, IF l.anyOk \/ l.op = "addUsers" THEN "ok" ELSE "fail")}

\* Handler p moves to one of the records in S; the tags in fresh are new in
\* xtlsConfigInbounds, so that iterators of other handlers will reach them.
Move(p, S, fresh) ==
  \E n \in S :
    h' = [q \in Procs |-> IF q = p THEN n
                          ELSE [h[q] EXCEPT !.seen = @ \ fresh]]

Goto(p, n) == Move(p, {n}, {})

-----------------------------------------------------------------------------
(* HandlerService.addUser and addUsers.                                    *)

BeginAdd(p, op, creds, want, touch) ==
  /\ MayBegin(p, Owners(creds), FALSE)
  /\ xtls' = xtls \cup touch
  /\ Move(p, NextToAdd([Idle EXCEPT !.op = op, !.subject = creds,
                                    !.left = creds, !.want = want], xtls'),
          touch \ xtls)
  /\ UNCHANGED <<agentVars, config, mapped, mirror, coreVars>>

AddUser(p) ==
  \E u \in Users, want \in SUBSET Tags \ {{}} :
    /\ BeginAdd(p, "addUser", {Current(u)}, want, want)
    /\ UNCHANGED cur

\* addUser with a prevVlessUuid: the panel has replaced the credential.
RevokeUser(p) ==
  \E u \in Users, want \in SUBSET Tags \ {{}} :
    /\ cur[u] < MaxKey
    /\ cur' = [cur EXCEPT ![u] = @ + 1]
    /\ BeginAdd(p, "revokeUser", {<<u, cur[u] + 1>>}, want, want)

\* affectedInboundTags may hold tags that no user of the request is given.
AddUsers(p) ==
  \E us \in SUBSET Users \ {{}}, touch \in SUBSET Tags :
    \E want \in SUBSET touch \ {{}} :
      /\ BeginAdd(p, "addUsers", {Current(u) : u \in us}, want, touch)
      /\ UNCHANGED cur

\* The credential that the removal loop takes out of the mirror.
Outdated(l) ==
  IF l.op = "revokeUser" THEN <<Owner(l.cr), l.cr[2] - 1>> ELSE l.cr

\* InternalService.removeUserFromInbound, then the next turn of the loop.
AfterRemove(p) ==
  LET l == h[p]
      rest == mirror[l.tag] \ {Outdated(l)}
      empty == l.tag \in mapped /\ rest = {}
  IN /\ l.pc = "removed"
     /\ mirror' = [mirror EXCEPT ![l.tag] = rest]
     /\ mapped' = IF empty THEN mapped \ {l.tag} ELSE mapped
     /\ xtls' = IF empty THEN xtls \ {l.tag} ELSE xtls
     /\ Move(p, Loop(l, xtls'), {})
     /\ UNCHANGED <<agentVars, config, coreVars, cur>>

\* Mutant: the mirror is updated without looking at isOk.
AfterAddUnchecked(p) ==
  LET l == h[p]
  IN /\ l.pc \in {"added", "refused"}
     /\ mirror' = [mirror EXCEPT ![l.tag] = @ \cup {l.cr}]
     /\ mapped' = mapped \cup {l.tag}
     /\ Move(p, AddNext(l, xtls), {})
     /\ UNCHANGED <<agentVars, config, xtls, coreVars, cur>>

\* InternalService.addUserToInbound, then the next call.
AfterAdd(p) ==
  LET l == h[p]
  IN /\ l.pc \in {"added", "refused"}
     /\ IF l.pc = "added"
        THEN /\ mirror' = [mirror EXCEPT ![l.tag] = @ \cup {l.cr}]
             /\ mapped' = mapped \cup {l.tag}
        ELSE UNCHANGED <<mirror, mapped>>
     /\ Move(p, AddNext(l, xtls), {})
     /\ UNCHANGED <<agentVars, config, xtls, coreVars, cur>>

(* HandlerService.removeUser and removeUsers.                              *)

Remove(p, op, creds) ==
  /\ MayBegin(p, Owners(creds), FALSE)
  /\ LET l == [Idle EXCEPT !.op = op, !.subject = creds, !.left = creds]
     IN Move(p, IF xtls = {} THEN {Done(l, "ok")} ELSE RemoveNext(l), {})
  /\ UNCHANGED <<agentVars, mirrorVars, coreVars, cur>>

RemoveUser(p) == \E u \in Users : Remove(p, "removeUser", {Current(u)})

RemoveUsers(p) ==
  \E us \in SUBSET Users \ {{}} :
    Remove(p, "removeUsers", {Current(u) : u \in us})

\* getUserIps has answered (with the addresses or with null).
AfterIps(p) ==
  /\ h[p].pc = "ips"
  /\ Move(p, Loop(h[p], xtls), {})
  /\ UNCHANGED <<agentVars, mirrorVars, coreVars, cur>>

-----------------------------------------------------------------------------
(* XrayService.startXray.                                                  *)

BeginStart(p) ==
  \E base \in Bases, tags \in SUBSET Tags \ {{}} :
    \E users \in [Tags -> SUBSET {Current(u) : u \in Users}] :
      /\ \A t \in Tags \ tags : users[t] = {}
      /\ MayBegin(p, {}, TRUE)
      /\ Goto(p, [Idle EXCEPT !.op = "start", !.pc = "iface",
                    !.cfg = [base |-> base, tags |-> tags, users |-> users]])
      /\ UNCHANGED <<agentVars, mirrorVars, coreVars, cur>>

\* InternalService.isNeedRestartCore
NeedRestart(c) ==
  \/ config = None
  \/ c.base # config.base
  \/ Cardinality(c.tags) # Cardinality(mapped)
  \/ \E t \in mapped : t \notin c.tags \/ mirror[t] # c.users[t]

\* Mutant: a configuration that is already there is kept.
ExtractOnce(p) ==
  LET c == h[p].cfg
  IN /\ config' = IF config = None THEN c ELSE config
     /\ mapped' = c.tags /\ mirror' = c.users /\ xtls' = c.tags
     /\ Move(p, {[h[p] EXCEPT !.pc = "down"]}, c.tags)

\* generateApiConfig and InternalService.extractUsersFromConfig, up to the
\* first s6-svc.
Extract(p) ==
  LET c == h[p].cfg
  IN /\ config' = c /\ mapped' = c.tags /\ mirror' = c.users /\ xtls' = c.tags
     /\ Move(p, {[h[p] EXCEPT !.pc = "down"]}, c.tags)

\* Mutant: isXrayStartedProccesing is not tested.
StartEnterUntested(p) ==
  /\ h[p].pc = "iface"
  /\ starting' = TRUE
  /\ \E forceRestart \in BOOLEAN :
       IF online /\ ~DisableHashedSetCheck /\ ~forceRestart
       THEN /\ Goto(p, [h[p] EXCEPT !.pc = "stats"])
            /\ UNCHANGED mirrorVars
       ELSE Extract(p)
  /\ UNCHANGED <<online, coreVars, cur>>

StartEnter(p) ==
  /\ h[p].pc = "iface"
  /\ \/ /\ starting
        /\ Goto(p, Done(h[p], "busy"))
        /\ UNCHANGED <<starting, mirrorVars>>
     \/ /\ ~starting
        /\ starting' = TRUE
        /\ \E forceRestart \in BOOLEAN :
             IF online /\ ~DisableHashedSetCheck /\ ~forceRestart
             THEN /\ Goto(p, [h[p] EXCEPT !.pc = "stats"])
                  /\ UNCHANGED mirrorVars
             ELSE Extract(p)
  /\ UNCHANGED <<online, coreVars, cur>>

\* getSysStats has answered: the hashes decide.
StartCheck(p) ==
  /\ h[p].pc = "healthy"
  /\ IF NeedRestart(h[p].cfg)
     THEN Extract(p) /\ UNCHANGED starting
     ELSE /\ starting' = FALSE
          /\ Goto(p, Done(h[p], "uptodate"))
          /\ UNCHANGED mirrorVars
  /\ UNCHANGED <<online, coreVars, cur>>

\* getSysStats has failed: restart.
StartUnhealthy(p) ==
  /\ h[p].pc = "unhealthy"
  /\ online' = FALSE
  /\ Extract(p)
  /\ UNCHANGED <<starting, coreVars, cur>>

CoreGone ==
  /\ core' = "down" /\ coreBase' = None /\ table' = NoUsers /\ served' = {}

\* Mutant: the early return has no finally block.
StartFailedLocked(p) ==
  /\ Goto(p, Done(h[p], "fail"))
  /\ UNCHANGED <<agentVars, mirrorVars, cur>>

\* The restart fails: the request ends and isXrayOnline stays as it was.
StartFailed(p) ==
  /\ starting' = FALSE
  /\ Goto(p, Done(h[p], "fail"))
  /\ UNCHANGED <<online, mirrorVars, cur>>

\* s6-svc -wd -T 5000 -d
StartDown(p) ==
  /\ h[p].pc = "down"
  /\ \/ /\ CoreGone
        /\ Goto(p, [h[p] EXCEPT !.pc = "up"])
        /\ UNCHANGED <<agentVars, mirrorVars, cur>>
     \/ /\ "s6" \in Faults
        /\ CoreGone \/ UNCHANGED coreVars
        /\ StartFailed(p)

\* s6-svc -wu -T 10000 -o
StartUp(p) ==
  /\ h[p].pc = "up"
  /\ \/ /\ core' = "boot"
        /\ Goto(p, [h[p] EXCEPT !.pc = "ready"])
        /\ UNCHANGED <<agentVars, mirrorVars, coreBase, table, served, cur>>
     \/ /\ "s6" \in Faults
        /\ core' \in {core, "boot"}
        /\ StartFailed(p)
        /\ UNCHANGED <<coreBase, table, served>>

\* getXrayInternalStatus is true
StartEnd(p) ==
  /\ h[p].pc = "answered"
  /\ online' = TRUE /\ starting' = FALSE
  /\ Goto(p, Done(h[p], "started"))
  /\ UNCHANGED <<mirrorVars, coreVars, cur>>

\* ... or false: the log is read before the answer is sent.
StartNotReady(p) ==
  /\ h[p].pc = "silent"
  /\ online' = FALSE
  /\ Goto(p, [h[p] EXCEPT !.pc = "dump"])
  /\ UNCHANGED <<starting, mirrorVars, coreVars, cur>>

StartDumped(p) == h[p].pc = "dump" /\ StartFailed(p) /\ UNCHANGED coreVars

-----------------------------------------------------------------------------
(* XrayService.stopXray.                                                   *)

BeginStop(p) ==
  /\ MayBegin(p, {}, TRUE)
  /\ Goto(p, [Idle EXCEPT !.op = "stop", !.pc = "plugin"])
  /\ UNCHANGED <<agentVars, mirrorVars, coreVars, cur>>

\* The plugins are reset or synchronised, then the core is to be stopped.
StopEnter(p) ==
  /\ h[p].pc = "plugin"
  /\ \E withOnlineCheck \in BOOLEAN :
       Goto(p, IF withOnlineCheck /\ ~online THEN Done(h[p], "ok")
               ELSE [h[p] EXCEPT !.pc = "kill"])
  /\ UNCHANGED <<agentVars, mirrorVars, coreVars, cur>>

\* killAllXrayProcesses: an error of s6-svc is logged and ignored.
StopKill(p) ==
  /\ h[p].pc = "kill"
  /\ CoreGone \/ ("s6" \in Faults /\ UNCHANGED coreVars)
  /\ Goto(p, [h[p] EXCEPT !.pc = "killed"])
  /\ UNCHANGED <<agentVars, mirrorVars, cur>>

\* Mutant: the cleanup clears the lock as well.
StopEndUnlocks(p) ==
  /\ h[p].pc = "killed"
  /\ online' = FALSE /\ starting' = FALSE
  /\ config' = None /\ mapped' = {} /\ mirror' = NoUsers /\ xtls' = {}
  /\ Goto(p, Done(h[p], "ok"))
  /\ UNCHANGED <<coreVars, cur>>

\* isXrayOnline = false and InternalService.cleanup
StopEnd(p) ==
  /\ h[p].pc = "killed"
  /\ online' = FALSE
  /\ config' = None /\ mapped' = {} /\ mirror' = NoUsers /\ xtls' = {}
  /\ Goto(p, Done(h[p], "ok"))
  /\ UNCHANGED <<starting, coreVars, cur>>

\* The response is sent.
Return(p) ==
  /\ h[p].pc = "done"
  /\ Goto(p, Idle)
  /\ UNCHANGED <<agentVars, mirrorVars, coreVars, cur>>

-----------------------------------------------------------------------------
(* The Xray process and its API.                                           *)

\* The process that s6 started fetches its configuration from the service's
\* internal controller; with no configuration it has no API and no inbounds,
\* which is as good as no process.
CoreBoot ==
  /\ core = "boot"
  /\ IF config = None
     THEN CoreGone
     ELSE /\ core' = "up" /\ coreBase' = config.base
          /\ table' = config.users /\ served' = config.tags
  /\ UNCHANGED <<agentVars, mirrorVars, cur, h>>

CoreCrash ==
  /\ "crash" \in Faults /\ core # "down"
  /\ CoreGone
  /\ UNCHANGED <<agentVars, mirrorVars, cur, h>>

\* The API removes a user by name, whatever the credential.
CoreRemoves(p) ==
  LET l == h[p]
  IN /\ l.pc = "remove"
     /\ \/ /\ core = "up"
           /\ table' = [table EXCEPT
                 ![l.tag] = {c \in @ : Owner(c) # Owner(l.cr)}]
           /\ \E isOk \in BOOLEAN :
                /\ table[l.tag] # table'[l.tag] => isOk
                /\ Goto(p, [l EXCEPT !.pc = "removed",
                       !.anyOk = @ \/ (isOk /\ l.op \in RemoveOps)])
        \/ /\ core # "up" \/ "xtls" \in Faults
           /\ Goto(p, [l EXCEPT !.pc = "removed"])
           /\ UNCHANGED table
     /\ UNCHANGED <<agentVars, mirrorVars, core, coreBase, served, cur>>

\* The API refuses an inbound it does not have and a user it already has.
CoreAdds(p) ==
  LET l == h[p]
      accepted == /\ core = "up" /\ l.tag \in served
                  /\ \A c \in table[l.tag] : Owner(c) # Owner(l.cr)
  IN /\ l.pc = "add"
     /\ \/ /\ accepted
           /\ table' = [table EXCEPT ![l.tag] = @ \cup {l.cr}]
           /\ Goto(p, [l EXCEPT !.pc = "added", !.anyOk = TRUE])
        \/ /\ ~accepted \/ "xtls" \in Faults
           /\ Goto(p, [l EXCEPT !.pc = "refused"])
           /\ UNCHANGED table
     /\ UNCHANGED <<agentVars, mirrorVars, core, coreBase, served, cur>>

\* getSysStats: one call before the hashes are compared, and up to 31 of them
\* until a restarted core is ready.
CoreStats(p) ==
  /\ h[p].pc \in {"stats", "ready"}
  /\ \/ /\ core = "up"
        /\ Goto(p, [h[p] EXCEPT !.pc =
                      IF @ = "stats" THEN "healthy" ELSE "answered"])
     \/ /\ core # "up" \/ "xtls" \in Faults
        /\ Goto(p, [h[p] EXCEPT !.pc =
                      IF @ = "stats" THEN "unhealthy" ELSE "silent"])
  /\ UNCHANGED <<agentVars, mirrorVars, coreVars, cur>>

-----------------------------------------------------------------------------
Begin(p) ==
  \/ AddUser(p) \/ RevokeUser(p) \/ AddUsers(p) \/ RemoveUser(p)
  \/ RemoveUsers(p) \/ BeginStart(p) \/ BeginStop(p)

\* What goes on by itself once a request has arrived.
Handle(p) ==
  \/ AfterIps(p) \/ AfterRemove(p) \/ AfterAdd(p)
  \/ StartEnter(p) \/ StartCheck(p) \/ StartUnhealthy(p)
  \/ StartDown(p) \/ StartUp(p)
  \/ StartEnd(p) \/ StartNotReady(p) \/ StartDumped(p)
  \/ StopEnter(p) \/ StopKill(p) \/ StopEnd(p) \/ Return(p)
  \/ CoreRemoves(p) \/ CoreAdds(p) \/ CoreStats(p)

Next ==
  \/ \E p \in Procs : Begin(p) \/ Handle(p)
  \/ CoreBoot \/ CoreCrash

Spec == Init /\ [][Next]_vars

\* Every call a handler waits for has a timeout, so a handler that can move
\* on does.
FairSpec == Spec /\ \A p \in Procs : WF_vars(Handle(p))

-----------------------------------------------------------------------------
(* Properties.                                                             *)

Records ==
  [op : Ops, pc : Pcs, subject : SUBSET Creds, left : SUBSET Creds,
   cr : Creds \cup {None}, tag : Tags \cup {None}, seen : SUBSET Tags,
   want : SUBSET Tags, todo : SUBSET Tags, anyOk : BOOLEAN,
   cfg : Configs \cup {None},
   reply : {"none", "ok", "fail", "busy", "uptodate", "started"}]

\* A variable is set where the code uses it.
IsSet(l) ==
  /\ l.pc \in InLoop => l.tag \in Tags
  /\ l.pc \in InLoop \cup {"ips"} => l.cr \in Creds
  /\ l.pc \in Locked \cup {"iface"} => l.cfg \in Configs

Handlers == {l \in Records : IsSet(l)}

AgentType == online \in BOOLEAN /\ starting \in BOOLEAN
MirrorType ==
  /\ config \in Configs \cup {None}
  /\ mapped \in SUBSET Tags /\ mirror \in [Tags -> SUBSET Creds]
  /\ xtls \in SUBSET Tags
CoreType ==
  /\ core \in {"down", "boot", "up"} /\ coreBase \in Bases \cup {None}
  /\ table \in [Tags -> SUBSET Creds] /\ served \in SUBSET Tags
CurType == cur \in [Users -> 0 .. MaxKey]
HandlerType == h \in [Procs -> Handlers]

\* The fields of the three services, of the Xray process and of the requests
\* in flight always hold values of the kinds the code gives them.
TypeOK == AgentType /\ MirrorType /\ CoreType /\ CurType /\ HandlerType

\* isXrayStartedProccesing is a lock: whatever requests overlap and whatever
\* fails, at most one startXray is between taking it and its finally block,
\* and the flag is set exactly while there is one.
StartExclusive ==
  /\ \A p, q \in Procs : h[p].pc \in Locked /\ h[q].pc \in Locked => p = q
  /\ starting <=> \E p \in Procs : h[p].pc \in Locked

\* Starts are never mixed up: once startXray has replaced the configuration,
\* the one that the core will fetch is its own until it ends (or there is
\* none, when stopXray has cleared it), and if getXrayInternalStatus is true
\* while the core lives, the core runs the configuration of this request.
StartedIsOwn ==
  \A p \in Procs :
    /\ h[p].pc \in Restarting => config \in {None, h[p].cfg}
    /\ h[p].pc = "answered" /\ core = "up" =>
         coreBase = h[p].cfg.base /\ served = h[p].cfg.tags

\* What startXray promises when it skips the restart: the core that runs is
\* the one the panel wants, same base, same inbounds, same users in each.
UpToDateIsHonest ==
  \A p \in Procs :
    h[p].pc = "done" /\ h[p].reply = "uptodate" /\ core = "up" =>
      LET c == h[p].cfg
      IN coreBase = c.base /\ c.tags \subseteq served /\ table = c.users

\* After a request about one user is answered with success, and while the core
\* is known to be online, no inbound that the node knows to be in use accepts
\* that user otherwise than the request says: no revoked credential, and
\* nothing at all outside the inbounds of the request (none, for a removal).
AccessIsExact ==
  \A p \in Procs :
    LET l == h[p]
    IN l.pc = "done" /\ l.reply = "ok" /\ l.cr # None /\ online =>
         \A t \in xtls : \A c \in table[t] :
           Owner(c) = Owner(l.cr) => c = l.cr /\ t \in l.want

\* A user whose removal was answered with success cannot connect: no inbound
\* of the core accepts the user.
RemovedIsGone ==
  \A p \in Procs :
    h[p].pc = "done" /\ h[p].op = "removeUser" /\ h[p].reply = "ok" =>
      \A t \in Tags : Owners(table[t]) \cap Owners(h[p].subject) = {}

\* The panel's view of the starts of a node.
Phase(l) ==
  IF l.pc = "iface" THEN "asked"
  ELSE IF l.pc \in Restarting THEN "replaced"
  ELSE IF l.pc \in Locked THEN "admitted" ELSE l.reply
Calls == [p \in Procs |-> IF h[p].cfg = None
                          THEN [state |-> "none", cfg |-> None]
                          ELSE [state |-> Phase(h[p]), cfg |-> h[p].cfg]]
Running == IF core = "up" THEN [core |-> core, base |-> coreBase, tags |-> served]
                          ELSE [core |-> core]
Control == INSTANCE StartControl WITH call <- Calls, running <- Running

\* XrayService keeps what startXray promises the panel, with requests about
\* users, stops and faults in between.
StartsTakeTurns == Control!Spec

\* The lock is not held for ever: a start that fails in any way, or whose
\* core dies, still reaches the finally block, so that a later start is not
\* refused with "Request already in progress" for good.
LockReleased == starting ~> ~starting
=============================================================================

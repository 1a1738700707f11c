# Verification of Remnawave: panel, node agent and AesingFlow

TLA+ models of the panel (`src/backend`), of the node agent
(`src/node-aesingflow`) and of the AesingFlow transport
(`src/node-aesingflow/Xray-core/third_party/aesingflow`), the TLC runs that
check them on small instances, and theorems proved with TLAPS for every
instance. The models are translated from the code; where a document, a comment
or a text of the user interface promises something else, a run that finds the
violation shows it, or section 4 names the constants that do.

## 1. The system

The **panel** is a NestJS application that pm2 runs as three processes: the API
(`remnawave-api`), the workers of BullMQ queues (`remnawave-jobs`) and the cron
tasks (`remnawave-scheduler`). They share a PostgreSQL database and Redis, and
nothing else: each has its own memory and may restart alone. The panel reaches
its **nodes** over HTTPS. On a node, the **agent** (NestJS, one process)
controls one **Xray core** through s6 (start, stop) and through the core's gRPC
API (users, statistics), and a table of **nftables**. The core fetches its
configuration from the agent. The repository also holds the **AesingFlow**
transport, a Go library inside a fork of the Xray core, and the frontend.

### Components

| Component | State it keeps | Operations | Modelled in |
|---|---|---|---|
| Node agent: core control and user handlers (`xray.service.ts`, `handler.service.ts`, `internal.service.ts`, `xray-process.service.ts`) | `isXrayOnline`, `isXrayStartedProccesing`, `xrayConfig`, `emptyConfigHash`, `inboundsHashMap`, `xtlsConfigInbounds` | `startXray`, `stopXray`, `addUser(s)`, `removeUser(s)`, `isNeedRestartCore`, the configuration for the core | `NodeAgent`, `StartControl` |
| Node agent: plugins, nftables, torrent blocker (`plugin.service.ts`, `plugin-state.service.ts`, `nft.service.ts`, `torrent-blocker.state.ts`) | hash of the plugins' configuration, the blocker's state, the sets of the table | synchronise, clean up at a stop, recreate tables, unblock | `PluginSync` |
| Panel: life cycle of nodes (queues `startNode`, `startAllNodes`, `startAllNodesByProfile`, `stopNode`, `nodeHealthCheck`; `NodesService`, `ConfigProfileService`) | the `nodes` rows, the queues, `waitingProfiles` and `isNodesRestarted` in the scheduler | jobs that start, stop, check and delete nodes; the requests that create, edit, enable, disable, restart and delete them | `NodeLifecycle` |
| Panel: usage pipeline (`recordUserUsage`, `pushFromRedis`, `updateUsersUsage`, `resetUserTraffic`) | Redis hashes per node, history and traffic tables, the pause of the queues | collect, store, rename, push, increment, reset | `UsagePipeline` |
| Panel: users and their status | `users.status`, limits, `expire_at` | requests, watchdogs (limited, expired), resets, events | `UserSync` |
| Panel: jobs that bring users to nodes | the queues `nodeUsers`, `nodeBulkUsers` | add and remove one or many users | `UserSync` (the panel's side), `NodeAgent` (the node's side) |
| Panel: internal and external squads | members and inbounds of squads | change, add and remove members | `UserSync` (internal squads) |
| AesingFlow transport (`proxy/dialer.go`, `pkg/aesingflow/aesingflow.go`, `proxy/server.go`) | the dialer's connection and mutex, sessions, streams, the server's count of connections | dial, open, accept, serve, close, reset | `AesingFlow` |
| Panel: subscriptions and devices | `hwid_user_devices`, request history | subscription request, limit on devices | - |
| Panel: traffic of nodes, queries of nodes | counters, torrent reports | reports, resets, queries | - |
| Node agent: statistics | none | reads of the core | the health check's call is a step of `NodeLifecycle` |
| AesingFlow in Xray | adapters | listener, outbound | - |
| HashedSet | 64-bit sums | add, delete, equality | two sets with one hash are one set |
| Authentication, settings, hosts, billing, templates | single rows | read, write | - |
| Frontend; vendored Xray and libraries | - | - | - |

Every modelled component is "partly" modelled; section 6 says what is left out
of each.

### How they interact, and what is hard

* The agent handles requests of the panel concurrently; between two `await`s a
  request runs alone. `startXray` guards itself with `isXrayStartedProccesing`,
  `stopXray` and the user handlers guard themselves with nothing, and the mirror
  of the core's users (`inboundsHashMap`) is written by all of them. The panel
  later sends hashes; a mirror that says less or more than the core has makes
  the agent skip a restart that was needed.
* A sync of the plugins writes the blocker at once and the table over four
  awaits, and its hash last; a stop empties the table, a start hands the
  blocker to the core. The jobs that ask for syncs have no id and run up to 20
  at a time.
* Up to 40 `START_NODE` jobs, 30 `STOP_NODE` jobs, 40 health checks and three
  `START_ALL_BY_PROFILE` jobs run at a time. They share the columns
  `isConnecting`, `isConnected` and `isDisabled` without transactions, and a
  pause of two queues. `isConnecting` is a lock that is kept in the database,
  tested in one statement and set in another, and that outlives its holder.
* Traffic passes from a core's counters (read and reset in one call) through a
  Redis hash and a renamed hash into the history, and by jobs that increment
  into the users' totals; a reset of totals pauses the queues meanwhile, in
  Redis.
* Events about a user become jobs that are handled 75 at a time, in any order,
  without looking at the row again; a node that is being started receives none.
* The scheduler remembers in memory what it has done (`isNodesRestarted`) and
  what it must retry (`waitingProfiles`); BullMQ deduplicates by a job id that
  does not contain all of the job's data; the panel gives up on a node after 60
  seconds while the node goes on.
* In AesingFlow all dials share one connection, which a mutex guards while it is
  made; the server limits sessions and QUIC limits streams, and neither gives
  back at the same time.

What makes each component correct: for the agent, that the lock excludes and is
always given back, that a skipped restart was rightly skipped, and that the core
accepts exactly who was asked for; for the plugins, that the hash stands for
what is in force; for the life cycle, that nothing stays marked or paused with
nobody to undo it, that an enabled node ends up running the current
configuration, that the last decision about a node holds, and that a disabled
node is stopped; for usage, that no traffic is counted twice and none is lost
where nothing fails, and that a reset is not mixed with increments; for users,
that a user who is expired, limited or disabled is on no node once the jobs are
done; for AesingFlow, that connections neither leak nor exceed their limit and
that nobody waits for ever. (Subscriptions would need: that a limit on devices
is kept. It is counted and then inserted, in two statements.)

## 2. Modules

| Module | Holds |
|---|---|
| `NodeAgent`, `MCNodeAgent` | the agent of one node, and the core as its environment |
| `StartControl` | abstract specification: what `startXray` promises to those who call it |
| `NodeAgent_proofs`, `NodeAgent_refinement`, `NodeAgent_honesty` | theorems about `NodeAgent`; that it implements `StartControl`; that a skipped restart was rightly skipped |
| `NodeLifecycle`, `MCNodeLifecycle`, `NodeLifecycle_proofs` | rows, queues, cron task, administrator and nodes as the panel sees them |
| `UsagePipeline`, `MCUsagePipeline`, `UsagePipeline_proofs` | the way of traffic from a core to the tables |
| `UserSync`, `MCUserSync`, `UserSync_proofs` | users, squads, events, jobs, and who each node lets in |
| `AesingFlow`, `MCAesingFlow`, `AesingFlow_proofs` | dialer, connections, streams, proxy server |
| `PluginSync`, `MCPluginSync`, `PluginSync_proofs` | the plugins of one agent, its table and its core |

The MC modules only add model values, symmetry and the records that a `.cfg`
cannot write. All of the models have this in common: one action is what an
actor does between two awaits on another system; a handler, job or request is a
record with its place `pc` and its local variables, where `pc` names the await
it is at; faults are actions, or disjuncts, that are bounded by a constant.

### NodeAgent

One action is one turn of the event loop. A handler in a slot `p` is `h[p]`;
`Begin(p)` is the arrival of a request, `Handle(p)` everything that happens to
it by itself. What the core does while a handler waits is an action of its own
(`CoreRemoves`, `CoreAdds`, `CoreStats`), so that a core that dies between its
answer and the handler's next turn is included.

| State | Code |
|---|---|
| `online`, `starting` | `XrayService.isXrayOnline`, `isXrayStartedProccesing` |
| `config` | `InternalService.xrayConfig`, `emptyConfigHash` |
| `mapped`, `mirror` | keys and values of `inboundsHashMap` |
| `xtls` | `xtlsConfigInbounds` |
| `core`, `coreBase`, `table`, `served` | the Xray process: its state, its configuration, the credentials per inbound, its inbounds |
| `cur` | the panel's credentials (revocation makes a new version) |

`startXray` is `BeginStart`, `StartEnter` (test and set of the lock, in one turn),
`CoreStats`, `StartCheck` or `StartUnhealthy`, `Extract` (which replaces the
mirror before the core is restarted), `StartDown`, `StartUp`, `CoreStats`,
`StartEnd` or `StartNotReady` and `StartDumped`; `StartFailed` is every early
end with its `finally`. `stopXray` is `BeginStop`, `StopEnter`, `StopKill`,
`StopEnd`. The handlers of users share the loops: `Loop` iterates over the
*live* set `xtlsConfigInbounds`, as JavaScript does: a tag deleted during the
iteration is passed by, one that is deleted and added again is visited again
(`seen`, reset by `Move`).

### StartControl

A call of `startXray` is asked, then refused as busy, or admitted; an admitted
one is skipped as up to date, or replaces the configuration and then succeeds or
fails. Only one call is admitted at a time; only one that has replaced the
configuration lets a core boot; what boots takes the configuration there is; a
call succeeds only if nothing but its own configuration runs. Everything else
that an agent does must leave this alone. `NodeAgent` implements it by `Calls`
(what each handler amounts to), `Phase` and `Running`; the property
`StartsTakeTurns` is `Control!Spec`.

### PluginSync

Handlers `h[p]` are syncs, starts and stops; the locks and flags of the start
are `NodeAgent`'s `starting` and `online`, taken over in as much as a sync sees
them. `hash` stands for `lastConfigHash` and the details that are set with it;
`blocker` is `TorrentBlockerState`; `filters` are the sets of the table; `core`
is the blocker with which the core runs. A sync is `Sync` (`SyncAlias` is the
same configuration again), `ResetDone`, `CreateDone`, `IngressDone`,
`EgressDone`, `PortsDone`, `OutboundGone`, each with its failure. What a sync or a
start does to the core goes through the agent's own copy: `given` is the blocker
in `xrayConfig` (`Capture`), `booting` a process that has not fetched it yet, and
`CoreBoot` the moment it does, which may be long after the request that started
it. A start is `StartEnter`, `StartCheck`, the two halves of an s6 restart
(`StartDown`, `StartUp`), then `CoreAnswers` and `Restarted`, or `NotReady`;
either half may fail with or without having done its work (`StartDownFails`,
`StartUpFails`: the core is gone or not, comes up later or not), and
`isXrayOnline` then stays as it was. A stop is `Stop`, `CleanDone`, `Kill` (whose
failure the code ignores) and `Killed`. `tainted`, `stale` and `behind` are
history: filters in doubt (requests overlapped, nftables failed, an operator took
something out) until a request begins with the table to itself; a configuration
kept for the core, and a core, that need not have the blocker.

### NodeLifecycle

Rows are sets of nodes (`disabled`, `connecting`, `connected`, `assigned` for
"has active inbounds") and functions (`profile`). `try[w][n]` is an attempt to
start node `n`, by its `START_NODE` job (`w = Single`) or by the job of profile
`w`: both end with the same steps (`StartPrepare`, `StartRequest`,
`StartTimeout`, `StartDone`) and begin with their own (`StartRead`,
`StartClear`, `StartMark`; `ProfileBegin`, `ProfileMark`, `ProfileGather`). A
configuration is a triple of profile, version of the row and version of the
profile's content: two of them are equal exactly if the same things were changed
as often. Of the agent only `reach`, `core`, `config` and `busy` are kept, which
is what its answers depend on. `wanted` and `owed` are history: the nodes that
the administrator's last decision enabled, and the nodes of which a forced
restart was accepted. Requests that edit nodes in several statements
(`createNode`, `updateNode`, `profileModification`) go step by step through
`edit`; one of them at a time.

Disabling a node takes two awaits wherever the code does it: the row is written
(`StartClear`, `ProfileMark`, `DisableNode`), and `STOP_NODE` is enqueued
(`StartStop`, `ProfileStop`, `DisableStop`). `halting[n]` is who is between the
two, and what is lost when that process dies. Other writes that are followed by
the enqueuing of a job at once (`enableNode`, the end of `edit`) are one step with
it, as are reads with the write that follows (`disableNode`'s read of the row).

### UsagePipeline

`counter` is what each core has counted, `rec[n]` the `RECORD_USER_USAGE` job of
a node, `hash` and `processing` the Redis hashes, `push[n]` the job that pushes
them, `jobs` those of `updateUsersUsage`, `reset` the job that resets traffic;
`used`, `lifetime` and `history` are the tables. Amounts are functions from users
to multiples of a byte; the node's `consumptionMultiplier` and the rounding are
`Counted`. `sent` is history: all the traffic there has been; `late` are the
nodes whose push was deduplicated against one that was running. A worker that
dies puts its jobs back once (`StalledOnce`); the second time BullMQ fails them.

### UserSync

`status`, `squads`, `version`, `over` and `past` are the columns of users,
`inbounds` those of squads. `req` is the request or serial job under way, and
each of its awaits is a step (`UpdateRead`, `UpdateWrite`, `ResetRead`,
`ResetWrite`, ...). `Publish` puts an event into a slot of `tasks[u]`; the same
slot is then the event's handler and the jobs it makes, which read the row
(`AddReadUser`) and the nodes (`AddReadNodes`, `RemoveReadNodes`) and reach the
nodes one by one and in any order (`Job`). A job may fail at any node, connected
or not: it then leaves the core as it was, or part of the way (`Partly`), and is
not repeated. `start[n]` is a start of the node, which reads the users and hands
them to the core later (`StartCore`), or finds the agent's hashes equal and keeps
the core (`StartSkip`). `due` are the nodes of which a change of squads has asked
for a restart; one that is asked for while the node is being started may be
dropped (`StartDropped`).

`stale` is history: the pairs of node and user about which, since the node's
*core* was last restarted, jobs or starts have overlapped, an event was ignored,
a job failed, or a restart was dropped by a start that had read the users. `late`
are those of them that a start under way does not put right, because it read the
users before.

### AesingFlow

`dial[d]` is a `DialTarget` and the tunnel it makes; `mu` the holder of
`connectionMu`; `client[c]` and `server[c]` the ends of a QUIC connection;
`end`, `used`, `sessions`, `served` and `handler` its streams, as QUIC, as the
client's and as the server's `flowConn` see them; `active` is the server's
counter. Connections are used in a fixed order (they are alike, so this is the
choice of a representative). Streams are taken by the server in any order, which
allows more than `streamLoop` does.

A stream whose id the server does not get to read stays in QUIC's count for
good: it is `"stuck"`. This comes about in two ways. The stream is reset before
the id is read (`AcceptFailed`), which also happens on a live connection, when
`writeRequest` refuses the target before it writes anything (`BadTargets`) or the
connection's sessions are full; or the id, which has been written, is lost and
sent again too late (`IdTimesOut`, for the dials of `LateIds`). In the second
case the server cancels its reading only, and the dial's own `readResponse`
waits for an answer that does not come.

## 3. The runs

| Run | Instance | Shows |
|---|---|---|
| `agent_any` | 2 requests of any kind overlapping in every way, 1 user, 1 inbound, 2 base configurations; core, s6 and API fail | `TypeOK`, `StartExclusive`, `StartedIsOwn`, `LockReleased`, `StartsTakeTurns`: the start lock excludes, is always given back, a start answers only for its own configuration, and the agent implements `StartControl` |
| `agent_serial` | 1 request at a time, 2 inbounds, one revocation; the core dies | `AccessIsExact`, `UpToDateIsHonest`: the core accepts exactly what was asked for; a skipped restart was rightly skipped |
| `life_profiles` | 1 node, 2 profiles, one of six kinds of request at any moment; the network fails, the node answers late | `TypeOK`, `ConnectingIsOwned`, `PauseIsOwned` |
| `life_settled` | 1 node, three of six kinds of request, each made when nothing is going on; a core dies, a node answers late | `WantedHolds`, `DisabledIsStopped`, `RunsCurrent` |
| `life_live` | 1 node, a restart, enable or disable at any moment; network, core, a query, the workers or the whole panel fail | `PauseIsOwned`, `Reconnects` |
| `usage` | 1 node, 1 user, 2 increments at a time, a reset, one fault of six kinds and one death of the workers | `TypeOK`, `HistoryKept`, `TotalsKept`, `HashIsPushed`, `PauseIsOwned`, `LimitedIsExceeded`, `ResetIsolated`, `EventuallyCounted` |
| `users` | 1 user, 1 node, 2 squads, 2 inbounds, 1 request of any kind, 2 changes from outside; any job fails, any restart is dropped | `TypeOK`, `ExactWhenQuiet`, `EventuallyOut` |
| `flow` | 2 dials (one may be cancelled and has a target that cannot be written, the id of the other may come too late), 2 connections with room for one stream, a server for one connection, one loss | `TypeOK`, `LimitKept`, `NoLeak`, `RefusedWhileClosing`, `DialsEnd`, `ActiveReturns` |
| `plugins` | 2 of up to 5 requests at a time, 5 configurations, operators' commands, six kinds of fault | `TypeOK`, `Honest`, `CoreBlocks` |
| `agent_removed` | 1 request at a time, nothing fails | `RemovedIsGone` is violated |
| `life_inbounds` | 2 nodes of one profile, its configuration is changed once, nothing fails | `NoInboundsNotStarted` is violated |
| `flow_stale` | 2 dials, nothing is lost | `DropsOnlyStale` is violated |

### Bounds, and why they are enough

* `Procs` (2; 1 where requests come one after the other): every conflict in the
  agent is between two handlers; the locks, the skipped restarts (for users that
  do not overlap) and the plugins' hash and blocker are proved for any number.
* `MaxKey` (0 or 1): one revocation shows an old and a new credential side by
  side; nothing distinguishes a second one.
* `Tags` (1 or 2): two inbounds are needed where a loop over inbounds shrinks
  its own set (`agent_serial`); elsewhere one is enough to disagree about.
* `Bases` (1 or 2): two only where a start may meet the configuration of
  another (`agent_any`).
* `Nodes`, `Profiles` (1 or 2): jobs of different nodes share only the pause and
  the loop of their profile's job, and the safety properties are proved for any
  number of them; jobs of different profiles share a node whose profile has
  changed (`life_profiles`).
* `MaxAsked` (0 to 3): one request at any moment among jobs that are already
  running, or three in a row when each waits for the end of the last.
* `MaxFailed` (0 or 1): one fault at any step. One also keeps below BullMQ's
  limit of stalled retries, at which a job is failed without its `finally`.
* `Settled`: `WantedHolds`, `DisabledIsStopped` and `RunsCurrent` do not hold
  when requests overlap (section 4), so the runs in which they hold make the
  administrator wait. That is an assumption about the user, named as such.
* `usage`: `MaxSent` = 2 is traffic before and after the limit or a reset;
  `Slots` = 2 increments at a time, the least that can be in the wrong order.
  Two nodes (`MaxSent` = 1, safety only: 9.5 M states) and two deaths (2.9 M
  states) passed once.
* `users`: `MaxRequests` = 1 with `MaxChanges` = 2 is one decision of the
  administrator against two things that happen by themselves, which is what it
  takes for an event to overlap another or a start; `ExactWhenQuiet` is proved
  for any number.
* `flow`: two dials are what it takes for one to be in the other's way, a limit
  of one makes everybody wait. The dial of `BadTargets` takes the room that the
  other waits for, the one of `LateIds` hangs by itself: both exceptions of
  `DialsEnd` come up. The safety theorems cover any number.
* Rows at the beginning are enabled and not marked; all other states of a row
  are reached from there. `version` and `content` count requests and are bounded
  by `MaxAsked`.

`flow`, `flow_stale`, `users` and `plugins` switch the check of deadlocks off:
their dials, requests and changes are used up in the end, and nothing more need
happen.

### Fairness

Only weak fairness, and only of what the code or its platform does by itself.

* `NodeAgent`: a handler that can go on does, since each call it waits for has a
  timeout (s6-svc `-T`, deadlines of the API). Requests need not arrive; the
  core need not live.
* `NodeLifecycle`: workers take the jobs of queues that are not paused (BullMQ),
  each call to a node ends (60 seconds), the cron task runs every ten seconds, a
  deduplicated job is retried after ten seconds, the API goes on with a request.
  Nothing is asked of the administrator nor of the environment: a node that is
  unreachable may stay so, and `Reconnects` asks something only of nodes that
  are in the end reachable and of rows whose mark was not left to nobody by a
  fault.
* `UsagePipeline`: the cron task records, workers take jobs, a reset goes on.
* `UserSync`: a request goes on, the watchdogs run every few seconds or minutes, events and jobs
  are handled, a start goes on. No request, change or loss of a node is fair.
* `AesingFlow`: goroutines go on, and a lost connection is noticed by both ends
  (QUIC's idle timeout). Tunnels end, which is up to their users: without that a
  dial may wait for room for ever, as it should.
* `PluginSync` has safety properties only.

## 4. Known divergences

Shown by a run each:

* `agent_removed`. Removing the last user of an inbound (also done by `addUser`
  before it adds) deletes the tag from `xtlsConfigInbounds`
  (`internal.service.ts:189-191`); `addUserToInbound` restores only the map. A
  later `removeUser` does not visit the inbound, answers success, and the core
  still accepts the user.
* `flow_stale`. A dial that cannot open a stream closes the connection that all
  dials share, also when only its own context ended
  (`proxy/dialer.go:69`); `core-integration-manual.md:170` speaks of stale
  connections.
* `life_inbounds`. The job of a profile disables a node of which it has no tags
  of active inbounds, and the `continue` leaves only the loop that marks nodes
  (`start-all-nodes-by-profile.processor.ts:93-115`). The loop that starts nodes
  is to throw for such a node (176), but tests a `Set` made from the map's missing
  entry (174), which is empty and never falsy: the node that was just disabled is
  started without inbounds.

Found with other constants of the same modules, which is why the passing runs
are limited:

* Agent. `AccessIsExact` holds for one request at a time only. With two, even
  about different users (`Overlap = "perUser"`, two users, two inbounds): an
  inbound that a first addition has dropped from `xtlsConfigInbounds` comes back
  with the request of another user when the loop of a user whom that inbound
  still accepts is over.
* Agent. A request about a user that overlaps a restart leaves mirror and core
  different (`UpToDateIsHonest` with `Overlap = "any"`, `Faults = {}`). s6 that
  fails to stop the core (`Faults = {"s6"}`, one handler, two `Bases`): the
  mirror was replaced already, the old core is taken for the new one.
* Life cycle, marks. A query that fails, or workers that die alone, with
  `isConnecting` set leave the node out of every start and check
  (`ConnectingIsOwned` with `Faults = {"query"}` or `{"worker"}`): a job that is
  run again finds its own mark and gives up (`start-node.processor.ts:57-59`).
* Life cycle, deaths. Who dies between the write of `isDisabled` and the
  enqueuing of `STOP_NODE` (`nodes.service.ts:431-447`,
  `start-all-nodes-by-profile.processor.ts:98-113`) leaves a disabled node whose
  core runs: no job selects disabled nodes (`DisabledIsStopped` with `Faults =
  {"panel"}`). Only the `START_NODE` job is run again and finds its node.
* Life cycle, force. The ids that deduplicate jobs do not contain `force`: a
  forced restart is accepted and dropped (`ForceKept`, `Requests = {"force"}`).
* Life cycle, orders. Disabled and enabled at once (`WantedHolds`, not
  `Settled`): the late `STOP_NODE` job writes `isDisabled: true`
  (`stop-node.processor.ts:63`). An update (`WantedHolds`, `Requests =
  {"update"}`): a job that reads the row between the removal and the insertion
  of its inbounds (`nodes.service.ts:294-299`) disables it. A configuration
  changed during a start (`RunsCurrent`): the busy node refuses the second start
  and nothing compares configurations later. A disable during a start
  (`DisabledIsStopped`): the start ends after the stop and marks the node
  connected.
* Users, failures. A job that fails at a node, for whatever reason, is logged and
  never repeated (`node-users.processor.ts:44-54, 67-79`); the watchdogs pass by
  users who are EXPIRED or LIMITED already. So one failed removal leaves such a
  user in until the node's core is restarted, and even a start may keep the core
  if the agent's mirror says that the user is gone. A restart that a change of
  squads asks for while the node is being started is dropped
  (`start-node.processor.ts:57`, `nodes-queues.service.ts:84-89`), so that the
  users who were read before the change stay. `ExactWhenQuiet` and
  `EventuallyOut` excuse both by `stale`, and would not hold otherwise.
* Users. A body that disables a user and changes the squads publishes nothing
  (`ExactWhenQuiet` with `Updates <- CombinedUpdates`): `users.service.ts:213-216`
  overwrites what 169 decided, and a user who is not ACTIVE is not added (226), so
  that the user stays in. An EXPIRED or LIMITED event of a user that was deleted by
  status meanwhile is dropped, and the user stays on the nodes. Bulk changes of
  squads to none, or to squads without inbounds, leave the user on the nodes
  (`Ignored`). A reset racing the watchdog can leave a user LIMITED with nothing
  used.
* Usage. `update-users-usage` catches its errors, so that its three attempts are
  never used; a death between the commit and the end of a job counts twice in
  the totals (never in the history); what fails after the core's counters were
  read and reset is lost; traffic stored while a push runs waits for the next
  traffic, or for the hash's three hours to end (`late`); a job that stalls
  twice leaves the queues paused.
* Plugins. `recreateTables` and `unblock` leave the hash, so that a sync that
  would fill the table is skipped (`FiltersHold` with `Commands = {"recreate"}`,
  `Faults = {}`, one handler; the frontend's text `en/remnawave.json:2077` says
  "Recreate nftables rules on selected nodes"). A sync that wants a restart and
  ends during a start leaves an online core without the blocker, as does a start
  that reads the blocker while a sync has it reset; a sync that failed at the
  filters and is repeated never restarts the core (the three exceptions of
  `CoreBlocks`, by cause). A stop that overlaps a sync leaves a hash
  with an empty table; a failed sync followed by one without plugins leaves the
  filters. Syncs are not ordered and not retried (`TODO: retry` in the code), so
  that an older configuration may arrive last.
* AesingFlow. `Close` resets a stream where `docs/protocol.md` promises a
  half-close; `GOAWAY` and `CLOSE_SESSION` are never sent; a dial that waits for
  the mutex while the dialer is closed connects again. `readResponse` has no
  deadline and does not look at the context: a dial whose id reached the server
  too late waits for ever, also when its context has ended (`CancelledEnd` with
  `LateIds` = `Cancelled` = `{d1}`; `core-integration-manual.md:229` says "a
  cancelled context stops a dial"). A stream that is reset before its id is read
  keeps its room: once all room of a connection is kept like that, a dial that
  is not cancelled waits in `OpenStreamSync` as long as the connection lives.
  `DialsEnd` names these two as its exceptions, and does not hold without either.

## 5. What is proved

For every value of the constants (with the named assumptions of the modules,
which say that model values differ, that bounds are natural numbers and that
sets of things to count are finite):

| Theorem | Says |
|---|---|
| `NodeAgent_proofs!TypeCorrect` | `Spec => []TypeOK` |
| `NodeAgent_proofs!StartsExclude` | `Spec => []StartExclusive` |
| `NodeAgent_proofs!StartsIsolated` | `Spec => []StartedIsOwn` |
| `NodeAgent_proofs!AnswersAreExact` | `Spec => []AccessIsExact` when `OneByOne` |
| `NodeAgent_refinement!NodeImplementsControl` | `Spec => StartsTakeTurns`, that is `Control!Spec` |
| `NodeAgent_honesty!SkippedRightly` | `Spec => []UpToDateIsHonest` when `Orderly` |
| `NodeLifecycle_proofs!LifecycleTypeCorrect` | `Spec => []TypeOK` |
| `NodeLifecycle_proofs!PauseOwned` | `Spec => []PauseIsOwned` |
| `NodeLifecycle_proofs!ConnectingOwned` | `Spec => []ConnectingIsOwned` when `NoLostJob` |
| `NodeLifecycle_proofs!DecisionHolds` | `Spec => []WantedHolds` when `Settled`, without `"update"` |
| `NodeLifecycle_proofs!StoppedWhenDisabled` | `Spec /\ []AllOrNone /\ [][DeathsKeepStops]_vars => []DisabledIsStopped` when `Settled`, nodes are within reach, and nobody gives them inbounds |
| `UserSync_proofs!TypeCorrect` | `Spec => []TypeOK` |
| `UserSync_proofs!ExactCorrect` | `Spec => []ExactWhenQuiet` when `Separate` |
| `UsagePipeline_proofs!TypeCorrect` | `Spec => []TypeOK` |
| `UsagePipeline_proofs!HistoryIsKept` | `Spec => []HistoryKept` |
| `UsagePipeline_proofs!TotalsAreKept` | `Spec => []TotalsKept` |
| `UsagePipeline_proofs!HashWillBePushed` | `Spec => []HashIsPushed` |
| `UsagePipeline_proofs!PauseHasOwner` | `Spec => []PauseIsOwned` |
| `UsagePipeline_proofs!LimitedHasExceeded` | `Spec => []LimitedIsExceeded` |
| `UsagePipeline_proofs!ResetsAreIsolated` | `Spec => ResetIsolated` |
| `AesingFlow_proofs!TypeCorrect` | `Spec => []TypeOK` |
| `AesingFlow_proofs!LimitIsKept` | `Spec => []LimitKept` |
| `AesingFlow_proofs!NothingLeaks` | `Spec => []NoLeak` |
| `AesingFlow_proofs!RefusedOnlyWhileClosing` | `Spec => RefusedWhileClosing` |
| `PluginSync_proofs!TypeCorrect` | `Spec => []TypeOK` |
| `PluginSync_proofs!HashIsHonest` | `Spec => []Honest` |
| `PluginSync_proofs!CoreHasBlocker` | `Spec => []CoreBlocks` |

*Agent.* `TypeCorrect` needs, beyond the kinds of the fields, `IsSet`: a handler
in a loop has a user and an inbound, a start has a configuration; it rests on
lemmas about where `Loop`, `AddNext`, `RemoveNext` and `Done` lead. `Isolation`
is the inductive invariant of the next two: the lock is held by exactly the
start that is in its locked part; once that start has replaced the
configuration, it is the only one that may do so, and only a `stopXray` can take
it away; and a core that has come up since runs it. Each action either leaves
all of that alone (`QuietIsolated`), takes the lock, holds it (`HoldIsolated`) or
gives it back (`ReleaseIsolated`). The refinement uses the same invariant: every
action of `NodeAgent` is one action of `StartControl` under `Calls` and
`Running`, or leaves both unchanged.

*Honesty.* `SkippedRightly` assumes `Orderly`: start and stop run alone, requests
that overlap are about different users (`Overlap = "perUser"`), and nothing
fails but the core, which may die at any moment (`Faults \subseteq {"crash"}`);
section 4 shows what becomes of the property otherwise. The invariant has
four parts. `Requests`: what is being handled is apart and carries the latest
credentials, which makes the credential that `revokeUser` adds new to the mirror.
`Mirror`: it holds nothing newer than the panel does, and nothing under a tag it
does not know. `Restarts`: a restart under way, the configuration, the mirror and
the core that has come up since agree, and a core that boots while `isXrayOnline`
is set is one that a start waits for. `InSync`: when the core is known to be
online, every user and every inbound agree in mirror and core (`Agree`: the core
accepts nobody of whom the mirror does not know, and everybody the mirror has
with the latest credential) unless a request is between the core's answer and
its own next turn for just that user and inbound (`Window`); what is true in
that window (`WindowTrue`) is what its next turn needs to close it. So a step of
a request about users has only to be `Careful`: to leave alone all users but its
own. When `isNeedRestartCore` then finds the hashes equal, no window is open,
because a start is alone; the mirror is the configuration, inbound by inbound,
here the number of inbounds counts (`TagsAssumption`: the tags are finitely
many); and the credentials of a configuration are the latest, so that mirror and
core are equal, not merely in agreement.


`AccessIsExact` needs no mirror: `Exactness` says what the loops have done to
the core's table so far. The loop that removes has cleared the inbounds of
`xtlsConfigInbounds` it has seen (a set that shrinks under it, and of which a
tag that is dropped is no longer promised anything); the loop that adds has
given what the request asks. `CoreKnown` adds that no core comes up with old
users while `isXrayOnline` is set, unless a start waits for it. `OneByOne` (one
slot, and nothing fails but the core) is the hypothesis of the run
`agent_serial`; section 4 shows what happens with two.

*Life cycle.* Types are proved action by action. `PauseIsOwned` is inductive
with the types: only `ProfileBegin` sets the pause, with a job in its queue; a
job leaves its queue only through `ProfileFinally`, which resumes; and workers
that die put their jobs back. `ConnectingIsOwned` is not inductive: it needs to
know that the job of a profile that has marked a node will get to it. `Owned`
adds that a job marks only nodes it has selected (`SomeSelected`), and that a job
in its second half has an attempt for every node it has not finished
(`MapperTries`). The assumption `NoLostJob` excludes failing queries and dying
processes; section 4 shows that it cannot be dropped.

`WantedHolds` (`DecisionHolds`) follows an order from the administrator to the
row: `Decided` says that the row agrees with the last decision or that a job
which will write it is in its queue, and `NoRowEdit`, `FreshUnknown` that nobody
else writes meanwhile. The hypothesis `Settled` is that of the run; `"update"`
is excluded because a `START_NODE` job that reads the row between the removal
and the insertion of its inbounds disables it (section 4).
`DisabledIsStopped` needs the most: `Stopped` says what a job of a profile knows
of its nodes (`ProfSound`), that each node it is to start has an attempt
(`MapperTries`), and who will still stop or disable a node: of those without
inbounds (`Bares`), with inbounds (`Kepts`) and disabled (`Offs`); whoever is
in `halting` is one of those who will. Its
hypotheses are what the code needs: `AllOrNone` (a job of a profile finds
inbounds on all of its nodes or on none) excludes the divergence of
`life_inbounds`; `DeathsKeepStops` (nobody dies between the write of
`isDisabled` and the enqueuing of `STOP_NODE`, but for the `START_NODE` job) the
one of the deaths; a node out of reach keeps its core; and giving inbounds to a
node while a job is under way belongs to the orders of section 4. Restarts,
enabling, disabling, deletion, changes of the configuration, cores that die,
slow nodes, failing queries, and deaths of workers and of the whole panel at any
other moment are covered. `life_settled` has no deaths; the property was also
checked once with `Faults = {"worker", "panel"}` for the steps that satisfy
`DeathsKeepStops` (2.7 M states), and is violated without that.

*Users.* `ExactWhenQuiet` asks what holds of a node and a user when nothing is
under way about them; the invariant `InLine` says it of all other states: for
each pair, either a task about the user is in a queue, a request is about to
publish one, or the node is being started, and each of these carries what it
takes to bring the node to what the database says, or the node is there
already. `Noted` says that a pair that is not `stale` has one task at most, and
none during a start; `Unserved` that a node without inbounds lets nobody in.
`stale` is history: a pair becomes stale when the code lets two of these overlap,
ignores an event, fails at a job or drops a restart, and stays so until the
node's core is restarted with users that were read afterwards (section 4). So
the theorem does not say that the panel reaches its nodes whatever fails, which
it does not; it says that nothing else goes wrong, and that a restart puts right
what did.
`Separate` excludes one body: a request that disables a user and names other
squads, for which `updateUser` publishes nothing.

*Usage.* `HistoryKept` is about a sum (`ToHistory`): what is in the core's
counter, in the hands of the job that records, in the two hashes (the renamed
one as long as its push has not stored it) and in the history. Each step moves
an amount from one term to another, and only a failure makes the sum smaller. `HashIsPushed` and `PauseIsOwned` follow an amount, and the
pause, from owner to owner. `LimitedIsExceeded` and `ResetIsolated` need that no
increment runs between a reset's wait and its end, which is the pause together
with the job list being empty, unless a job outlasted the throttling.

`TotalsKept` is about a sum over all nodes and all jobs, each node's traffic
with its multiplier. `SumFunction` of the community modules is defined by
recursion on sets; what the proof needs of it (that it is a natural number, and
that a sum changes by as much as one summand does) is shown with a smallest
subset for which it would not hold, so that no induction is needed. Each step
then changes one summand: `RecordCount` takes traffic from a node and gives the
job `(amount * multiplier) \div Unit`, which is never more (`DivTimes`), and the
same where multipliers are whole. `FiniteAssumption`: there are finitely many
nodes and jobs.

*AesingFlow.* `LimitKept` needs that `active` is the number of the connections
that hold a unit (`CountInv`, with the cardinality of a finite set that changes
by one element at a time). `NoLeak` needs `Locked`: a dial that connects holds the
mutex, and there is no connection meanwhile for it to replace. `RefusedWhileClosing` relates the
three views of a stream (`StreamInv`) and the room QUIC and the server see
(`RoomInv`).

*Plugins.* `HonestInv`: unless tainted, at most one request writes to the table,
there is no hash while it writes, and the filters and the blocker are what it
has written so far, step by step; so when it sets the hash, all of its
configuration is in force. `BlocksInv`, for `CoreBlocks`, says the same of the
core (`CoreOk`, unless `behind`) and of the configuration that is kept for it
(`GivenOk`, unless `stale`), since a core may come up with that at any later
moment, whatever s6 answered. `Vouch(x, S)`: as long as `isXrayOnline` is set, or a
start is at a step of `S` and may set it, either `x` is what the agent believes in
and what every sync under way saw before it reset the blocker (`Agrees`), or a sync
is about to find that it must stop the core (`Turning`), or a request is on the way
to do so (`Killing`) and no start is. Failing s6 is covered in every outcome; what
the code gets wrong is excused by its three causes, not by its effect.

*Only model-checked:* all liveness (`LockReleased`, `Reconnects`, `RunsCurrent`,
`EventuallyCounted`, `EventuallyOut`, `DialsEnd`, `ActiveReturns`), which is out
of the prover's reach. Every invariant of a passing run is a theorem. Where a
theorem has hypotheses that the run has not, the run covers the rest on its
small instance: `life_settled` checks `WantedHolds` and `DisabledIsStopped` for
the requests and faults its `.cfg` names.

## 6. What the models leave out

* Agent: the wording of answers, the addresses that `getUserIps` reads,
  collisions of hashes, and the credentials per protocol (one per user). The
  core's API is modelled from how the agent uses it.
* Plugins: single blocked addresses with their timeouts, reports and webhook; a
  node without `CAP_NET_ADMIN`. In `NodeAgent` the plugins' part of `stopXray`
  is a step without effect.
* Life cycle: deletion of a profile; two requests that edit nodes at the same
  time; columns that no job reads to decide (names, traffic, system data); a
  version of a node that is too old; the counter of stalled jobs. Writes to a
  row that is gone fail and change nothing; an insertion of inbounds for a row
  that is gone fails as a whole. `enableNode` is one action, and `disableNode` two:
  the reads before their writes follow at once.
* Usage: the columns of bookkeeping (`onlineAt`, `lastConnectedNode`,
  `lastTriggeredThreshold`) and the events that follow an update; users with
  different limits and strategies; the switch
  `SERVICE_DISABLE_USER_USAGE_RECORDS`, which is taken as off.
* Users: one profile, one request at a time (jobs that fail are in the model, see
  section 2); workers that die (between the
  watchdog's statement and its events that leaves users on nodes); the path for
  10 000 users or more, which restarts nodes; `updateInternalSquad`'s two
  statements are one step; external squads, which change subscriptions only.
* AesingFlow: datagram sessions and the scheduler, which only test commands use;
  sessions added after `shutdown` has copied the
  list; a server whose `Serve` ends after a failed handshake.
* Not modelled at all, and why: authentication, settings, hosts, billing,
  templates and external squads read and write single rows, in one statement or
  a transaction; the statistics of the agent and the queries of nodes keep no
  state; `HashedSet` is arithmetic; the adapters of AesingFlow in Xray, the
  vendored Xray and the frontend are other projects' code or a user interface.
  The repository has some 148 000 lines; most are contracts, forms, templates,
  generated tables and third-party code without steps that could be in a wrong
  order, so that the share of all lines that the models map stays small.

## 7. Plan

What a next step would take up, in this order.

1. `DisabledIsStopped` for requests that give inbounds to nodes, and for nodes
   that are out of reach and come back.
2. `Devices`: the limit on devices, counted and then inserted.
3. `NodeLifecycle`: deletion of a profile, concurrent edits, the stalled counter.
4. The order in which the panel's syncs of plugins arrive.
5. The premises of the liveness properties as theorems (each job has an end that
   its next step comes nearer to), as far as they need no fairness.
6. AesingFlow's datagram window and scheduler, once the transport uses them.

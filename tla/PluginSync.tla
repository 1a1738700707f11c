----------------------------- MODULE PluginSync -----------------------------
(***************************************************************************)
(* The plugins of a node: what syncs, stops and starts that overlap do to  *)
(* the nftables filters, to the torrent blocker, and to the core, which is *)
(* given the blocker's rules when it is started.  A request runs to its    *)
(* next await of nftables, of s6 or of the core's API in one step; a call  *)
(* of nftables or s6 takes effect when it returns, and one of s6 that      *)
(* fails may have done its work, or may do it later.                       *)
(*                                                                         *)
(* The agent has CAP_NET_ADMIN.  The lists of addresses that the blocker   *)
(* and the dropping of connections spare are set with the blocker and      *)
(* cleared with it.  Blocks of single addresses and the reports about them *)
(* are not modelled, and NodeAgent has the rest of start and stop.         *)
(***************************************************************************)
EXTENDS Naturals

CONSTANTS
  Procs,        \* requests that may be under way at once
  Configs,      \* configurations of plugins
  Rejected,     \* those that the agent's schema refuses
  Ips, Ports,   \* what filters name
  Tags,         \* rules of the core
  Unset,        \* includeRuleTags that are left out
  None,
  Commands,     \* what operators do: "recreate", "unblock"
  Faults,       \* what may go wrong: "nft", "s6", "core" (is not ready),
                \* "crash" (it dies), "api" (an outbound is not removed),
                \* "agent" (restarts)
  MaxRequests   \* bound on requests

ConfigRecords ==
  [ingress : SUBSET Ips, egress : SUBSET Ips, ports : SUBSET Ports,
   blocker : BOOLEAN, tags : {Unset} \cup SUBSET Tags]
ASSUME ConfigsAssumption ==
  /\ Configs \subseteq ConfigRecords /\ Rejected \subseteq Configs
  /\ None \notin Configs /\ \A tags \in SUBSET Tags : tags # Unset
ASSUME BoundAssumption == MaxRequests \in Nat

VARIABLES
  h,         \* the requests
  hash,      \* lastConfigHash, and pluginConfigDetails that goes with it
  blocker,   \* TorrentBlockerState
  filters,   \* the sets of the nftables table
  starting,  \* isXrayStartedProccesing
  online,    \* isXrayOnline
  given,     \* the blocker in xrayConfig, None if there is no configuration
  booting,   \* the core is started, and has not fetched its configuration
  core,      \* the blocker as the core has it, None if the core is down
  tainted,   \* the filters need not be those of hash (see Honest)
  stale,     \* what is given to the core need not be the blocker,
  behind,    \*   nor what the core has (see CoreBlocks)
  asked      \* bound

vars == <<h, hash, blocker, filters, starting, online, given, booting, core,
          tainted, stale, behind, asked>>
pluginVars == <<hash, blocker>>
process == <<booting, core>>
doubts == <<stale, behind>>
coreVars == <<starting, online, given, process>>

Off == [on |-> FALSE, tags |-> {}]
Empty == [ingress |-> {}, egress |-> {}, ports |-> {}]
Idle == [pc |-> "idle", cfg |-> None, was |-> Off]

Init ==
  /\ h = [p \in Procs |-> Idle]
  /\ hash = None /\ blocker = Off /\ filters = Empty
  /\ starting = FALSE /\ online = FALSE
  /\ given = None /\ booting = FALSE /\ core = None
  /\ tainted = FALSE /\ stale = FALSE /\ behind = FALSE /\ asked = 0

\* What a configuration asks for
RuleTags(c) == IF c.tags = Unset THEN {} ELSE c.tags
BlockerOf(c) == IF c.blocker THEN [on |-> TRUE, tags |-> RuleTags(c)] ELSE Off
FiltersOf(c) == [ingress |-> c.ingress, egress |-> c.egress, ports |-> c.ports]

Begin(p, r) ==
  /\ h[p] = Idle /\ asked < MaxRequests
  /\ h' = [h EXCEPT ![p] = r] /\ asked' = asked + 1
Goto(p, pc) == h' = [h EXCEPT ![p].pc = pc] /\ UNCHANGED asked
Done(p) == h' = [h EXCEPT ![p] = Idle] /\ UNCHANGED asked

\* Who is at work on the table, and what that makes of the filters
Writing == {"reset", "clean", "create", "ingress", "egress", "ports"}
Writers == {p \in Procs : h[p].pc \in Writing}
BeginsToWrite == tainted' = (Writers # {})

Fault(f) == f \in Faults

-----------------------------------------------------------------------------
(* PluginService.sync.                                                     *)

ResetState == hash' = None /\ blocker' = Off

\* Mutant: it goes on as if there were a configuration.
SyncNothingGoesOn(p) ==
  /\ hash # None \/ Rejected # {}
  /\ Begin(p, [Idle EXCEPT !.pc = "create"])
  /\ ResetState /\ BeginsToWrite
  /\ UNCHANGED <<filters, coreVars, doubts>>

\* No plugin, though there is one, or one that is refused
SyncNothing(p) ==
  /\ hash # None \/ Rejected # {}
  /\ Begin(p, [Idle EXCEPT !.pc = "reset"])
  /\ ResetState /\ BeginsToWrite
  /\ UNCHANGED <<filters, coreVars, doubts>>

\* Mutant: the tags are not copied, and cleared with the blocker.
SyncAlias(p, c) ==
  /\ c # hash
  /\ Begin(p, [pc |-> "create", cfg |-> c, was |-> [blocker EXCEPT !.tags = {}]])
  /\ ResetState /\ BeginsToWrite
  /\ UNCHANGED <<filters, coreVars, doubts>>

\* The blocker is looked at before it is reset.
Sync(p, c) ==
  /\ c # hash
  /\ Begin(p, [pc |-> "create", cfg |-> c, was |-> blocker])
  /\ ResetState /\ BeginsToWrite
  /\ UNCHANGED <<filters, coreVars, doubts>>

\* StopXrayCommand with an online check: the way to the core's end, or none.
StopIfOnline(p) == IF online THEN Goto(p, "kill") ELSE Done(p)

ResetDone(p) ==
  /\ h[p].pc = "reset"
  /\ filters' = Empty
  /\ StopIfOnline(p)
  /\ UNCHANGED <<pluginVars, coreVars, tainted, doubts>>

\* The table is there: what is not nftables is set at once.
CreateDone(p) ==
  LET c == h[p].cfg
  IN /\ h[p].pc = "create"
     /\ filters' = Empty
     /\ blocker' = IF c.blocker
                   THEN [on |-> TRUE,
                         tags |-> IF c.tags = Unset THEN blocker.tags ELSE c.tags]
                   ELSE blocker
     /\ Goto(p, "ingress")
     /\ UNCHANGED <<hash, coreVars, tainted, doubts>>

IngressDone(p) ==
  /\ h[p].pc = "ingress"
  /\ filters' = [filters EXCEPT !.ingress = @ \cup h[p].cfg.ingress]
  /\ Goto(p, "egress")
  /\ UNCHANGED <<pluginVars, coreVars, tainted, doubts>>

EgressDone(p) ==
  /\ h[p].pc = "egress"
  /\ filters' = [filters EXCEPT !.egress = @ \cup h[p].cfg.egress]
  /\ Goto(p, "ports")
  /\ UNCHANGED <<pluginVars, coreVars, tainted, doubts>>

NeedsRestart(was, c) ==
  was.on # c.blocker \/ (was.on /\ c.blocker /\ was.tags # RuleTags(c))

\* A start that has read the blocker and is not over
Restarting == {"down", "up", "ready", "answered"}
BeingStarted == \E q \in Procs : h[q].pc \in Restarting
Doubt(reason) == stale' = (stale \/ reason) /\ behind' = (behind \/ reason)

\* All is written: the hash is kept, and the core gets to know of it.
PortsDone(p) ==
  LET c == h[p].cfg
      was == h[p].was
  IN /\ h[p].pc = "ports"
     /\ filters' = [filters EXCEPT !.ports = @ \cup c.ports]
     /\ hash' = c
     /\ IF was.on /\ ~c.blocker /\ c.tags = Unset THEN Goto(p, "outbound")
        ELSE IF NeedsRestart(was, c) THEN StopIfOnline(p) ELSE Done(p)
     /\ Doubt(NeedsRestart(was, c) /\ BeingStarted)
     /\ UNCHANGED <<blocker, coreVars, tainted>>

\* The blocker's outbound is removed: the rules of the core go to none.
OutboundGone(p) ==
  /\ h[p].pc = "outbound"
  /\ core' = IF core = None THEN None ELSE Off
  /\ behind' = (behind \/ blocker.on \/ \E q \in Procs : h[q].pc = "create")
  /\ Done(p)
  /\ UNCHANGED <<pluginVars, filters, starting, online, given, booting, tainted, stale>>

\* A call of nftables fails, and the sync with it; a filter without entries
\* calls nothing.
CallsNft(r) ==
  \/ r.pc \in {"reset", "create"}
  \/ r.pc \in DOMAIN Empty /\ r.cfg[r.pc] # {}
SyncFails(p) ==
  /\ CallsNft(h[p])
  /\ Done(p)
  /\ tainted' = TRUE
  /\ Doubt(h[p].pc \in DOMAIN Empty /\ NeedsRestart(h[p].was, h[p].cfg))
  /\ UNCHANGED <<pluginVars, filters, coreVars>>

OutboundFails(p) ==
  /\ h[p].pc = "outbound" /\ Done(p)
  /\ UNCHANGED <<pluginVars, filters, coreVars, tainted, doubts>>

-----------------------------------------------------------------------------
(* XrayService.startXray and stopXray.                                     *)

\* The core is to be started with the blocker there is now, which a sync may
\* have reset and not yet set again.
Capture ==
  /\ given' = blocker
  /\ stale' = (\E q \in Procs : h[q].pc = "create")

StartEnter(p) ==
  /\ ~starting /\ starting' = TRUE
  /\ IF online
     THEN Begin(p, [Idle EXCEPT !.pc = "check"]) /\ UNCHANGED <<given, stale>>
     ELSE Begin(p, [Idle EXCEPT !.pc = "down"]) /\ Capture
  /\ UNCHANGED <<pluginVars, filters, online, process, tainted, behind>>

\* The core has what it should have, or it is started again; it is taken to be
\* offline if its API does not answer.
StartCheck(p) ==
  /\ h[p].pc = "check"
  /\ \/ Done(p) /\ starting' = FALSE /\ UNCHANGED <<online, given, stale>>
     \/ Goto(p, "down") /\ Capture /\ online' \in {online, FALSE}
        /\ UNCHANGED starting
  /\ UNCHANGED <<pluginVars, filters, process, tainted, behind>>

\* The start is given up; isXrayOnline stays as it is.
GivenUp(p) == starting' = FALSE /\ Done(p)

CoreGone == core' = None /\ booting' = FALSE

\* s6-svc -wd -d
StartDown(p) ==
  /\ h[p].pc = "down"
  /\ CoreGone
  /\ Goto(p, "up")
  /\ UNCHANGED <<pluginVars, filters, starting, online, given, tainted, doubts>>

StartDownFails(p) ==
  /\ h[p].pc = "down"
  /\ CoreGone \/ UNCHANGED process
  /\ GivenUp(p)
  /\ UNCHANGED <<pluginVars, filters, online, given, tainted, doubts>>

\* s6-svc -wu -o
StartUp(p) ==
  /\ h[p].pc = "up"
  /\ booting' = TRUE
  /\ Goto(p, "ready")
  /\ UNCHANGED <<pluginVars, filters, starting, online, given, core, tainted, doubts>>

StartUpFails(p) ==
  /\ h[p].pc = "up"
  /\ booting' \in {booting, TRUE}
  /\ GivenUp(p)
  /\ UNCHANGED <<pluginVars, filters, online, given, core, tainted, doubts>>

\* The process fetches its configuration; without one it is as good as none.
CoreBoot ==
  /\ booting /\ booting' = FALSE
  /\ core' = given /\ behind' = stale
  /\ UNCHANGED <<h, pluginVars, filters, starting, online, given, tainted, stale, asked>>

\* It dies by itself, or of an earlier s6-svc -d.
CoreDies ==
  /\ (core # None \/ booting) /\ CoreGone
  /\ UNCHANGED <<h, pluginVars, filters, starting, online, given, tainted, doubts, asked>>

CoreAnswers(p) ==
  /\ h[p].pc = "ready" /\ core # None
  /\ Goto(p, "answered")
  /\ UNCHANGED <<pluginVars, filters, coreVars, tainted, doubts>>

Restarted(p) ==
  /\ h[p].pc = "answered"
  /\ online' = TRUE /\ GivenUp(p)
  /\ UNCHANGED <<pluginVars, filters, given, process, tainted, doubts>>

\* It does not answer in time; it may yet come up.
NotReady(p) ==
  /\ h[p].pc = "ready"
  /\ online' = FALSE /\ GivenUp(p)
  /\ UNCHANGED <<pluginVars, filters, given, process, tainted, doubts>>

\* Mutant: the table is emptied, the hash is kept.
StopKeepsHash(p) ==
  /\ Begin(p, [Idle EXCEPT !.pc = "clean"])
  /\ BeginsToWrite
  /\ UNCHANGED <<pluginVars, filters, coreVars, doubts>>

Stop(p) ==
  /\ Begin(p, [Idle EXCEPT !.pc = "clean"])
  /\ ResetState /\ BeginsToWrite
  /\ UNCHANGED <<filters, coreVars, doubts>>

CleanDone(p) ==
  /\ h[p].pc = "clean"
  /\ filters' = Empty
  /\ Goto(p, "kill")
  /\ UNCHANGED <<pluginVars, coreVars, tainted, doubts>>

CleanFails(p) ==
  /\ h[p].pc = "clean"
  /\ tainted' = TRUE
  /\ Goto(p, "kill")
  /\ UNCHANGED <<pluginVars, filters, coreVars, doubts>>

\* killAllXrayProcesses: an error of s6 is ignored.
Kill(p) ==
  /\ h[p].pc = "kill"
  /\ CoreGone \/ (Fault("s6") /\ UNCHANGED process)
  /\ Goto(p, "killed")
  /\ UNCHANGED <<pluginVars, filters, starting, online, given, tainted, doubts>>

\* isXrayOnline = false, and the configuration is dropped.
Killed(p) ==
  /\ h[p].pc = "killed"
  /\ online' = FALSE /\ given' = None
  /\ Done(p)
  /\ UNCHANGED <<pluginVars, filters, starting, process, tainted, doubts>>

-----------------------------------------------------------------------------
(* Operators, and the end of the agent.                                    *)

RecreateTables ==
  /\ asked < MaxRequests /\ asked' = asked + 1
  /\ filters' = Empty /\ tainted' = TRUE
  /\ UNCHANGED <<h, pluginVars, coreVars, doubts>>

UnblockIp(i) ==
  /\ asked < MaxRequests /\ asked' = asked + 1
  /\ i \in filters.ingress
  /\ filters' = [filters EXCEPT !.ingress = @ \ {i}] /\ tainted' = TRUE
  /\ UNCHANGED <<h, pluginVars, coreVars, doubts>>

\* The agent restarts and creates its table; the core is not its child.
AgentRestart ==
  /\ asked < MaxRequests /\ asked' = asked + 1
  /\ h' = [p \in Procs |-> Idle]
  /\ ResetState /\ filters' = Empty
  /\ starting' = FALSE /\ online' = FALSE /\ given' = None
  /\ tainted' = FALSE
  /\ UNCHANGED <<process, doubts>>

Next ==
  \/ \E p \in Procs :
       \/ SyncNothing(p) \/ \E c \in Configs \ Rejected : Sync(p, c)
       \/ ResetDone(p) \/ CreateDone(p) \/ IngressDone(p) \/ EgressDone(p)
       \/ PortsDone(p) \/ OutboundGone(p)
       \/ StartEnter(p) \/ StartCheck(p) \/ StartDown(p) \/ StartUp(p)
       \/ CoreAnswers(p) \/ Restarted(p)
       \/ Stop(p) \/ CleanDone(p) \/ Kill(p) \/ Killed(p)
       \/ Fault("nft") /\ (SyncFails(p) \/ CleanFails(p))
       \/ Fault("api") /\ OutboundFails(p)
       \/ (Fault("core") \/ (core = None /\ ~booting)) /\ NotReady(p)
       \/ Fault("s6") /\ (StartDownFails(p) \/ StartUpFails(p))
  \/ CoreBoot
  \/ Fault("crash") /\ CoreDies
  \/ "recreate" \in Commands /\ RecreateTables
  \/ "unblock" \in Commands /\ \E i \in Ips : UnblockIp(i)
  \/ Fault("agent") /\ AgentRestart

Spec == Init /\ [][Next]_vars

-----------------------------------------------------------------------------
(* Properties.                                                             *)

Blockers == [on : BOOLEAN, tags : SUBSET Tags]
Pcs == Writing \cup Restarting \cup {"idle", "outbound", "kill", "killed", "check"}

\* Requests, hashes, filters and blockers hold values of their kinds; a sync at
\* work on the table has a configuration.
TypeOK ==
  /\ h \in [Procs -> [pc : Pcs, cfg : Configs \cup {None}, was : Blockers]]
  /\ \A p \in Procs : h[p].pc \in {"create"} \cup DOMAIN Empty => h[p].cfg \in Configs
  /\ hash \in Configs \cup {None} /\ blocker \in Blockers
  /\ filters \in [ingress : SUBSET Ips, egress : SUBSET Ips, ports : SUBSET Ports]
  /\ starting \in BOOLEAN /\ online \in BOOLEAN /\ booting \in BOOLEAN
  /\ given \in Blockers \cup {None} /\ core \in Blockers \cup {None}
  /\ tainted \in BOOLEAN /\ stale \in BOOLEAN /\ behind \in BOOLEAN /\ asked \in Nat

\* A node that says it has a configuration, and will not be given it again, has
\* exactly its filters and its blocker, and one that says it has none has none:
\* unless requests about the table overlapped, nftables failed, or an operator
\* took something out, since the last request began with the table to itself.
Honest ==
  Writers = {} /\ ~tainted =>
    IF hash = None THEN filters = Empty /\ blocker = Off
    ELSE filters = FiltersOf(hash) /\ blocker = BlockerOf(hash)

\* When nothing is going on, a core that runs and is online has the blocker the
\* agent believes in, whatever s6 failed to do and whenever the core came up,
\* unless, since the core got its configuration or the start before that read
\* it, one of three things happened:
\*   - a sync that wanted a restart failed at the filters (plugin.service.ts:92);
\*   - a start read the blocker while a sync had it reset;
\*   - a sync that wanted a restart ended during a start;
\* or the removal of the outbound overlapped a sync that set the blocker.
CoreBlocks ==
  online /\ core # None /\ ~behind /\ blocker.on /\ (\A p \in Procs : h[p].pc = "idle") =>
    core = blocker

\* Whatever operators do, a node with a configuration has its filters.
FiltersHold == Writers = {} /\ hash # None => filters = FiltersOf(hash)
=============================================================================

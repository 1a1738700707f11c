--------------------------- MODULE NodeLifecycle ---------------------------
(***************************************************************************)
(* How the panel keeps its nodes running: the rows of the nodes table, the *)
(* BullMQ queues whose jobs start, stop, delete and check nodes, the cron  *)
(* task that feeds them, and the requests of the administrator.            *)
(*                                                                         *)
(* An action is what one actor does between two awaits on another system:  *)
(* a read or a write of the database, a request to a node.  The write that *)
(* disables a node and the call that enqueues its STOP_NODE job are two;   *)
(* any other write and the enqueuing right after it are one.  Of a node's  *)
(* control service (module NodeAgent) only what its answers depend on is   *)
(* kept: whether its core runs, and whether it is busy with a start.       *)
(***************************************************************************)
EXTENDS Naturals

CONSTANTS
  Nodes,
  Profiles,  \* config profiles
  None,
  Requests,  \* what the administrator may ask for
  Settled,   \* TRUE: the administrator waits until nothing is going on
  MaxAsked,  \* bound on the requests of the administrator
  Faults,    \* what may go wrong: "net" (a node is unreachable for a while),
             \* "core" (a core dies or does not start), "slow" (a node answers
             \* after the panel's timeout), "query" (a query for plugins or a
             \* configuration fails), "worker" (the process of the queues'
             \* workers dies and is started again), "panel" (all processes of
             \* the panel do)
  MaxFailed  \* bound on the number of faults

\* Who tries to start a node: its START_NODE job, or the job of a profile.
Single == "START_NODE"
\* Who disables a node at the administrator's request.
Api == "disableNode"
Starters == Profiles \cup {Single}
Halters == Starters \cup {Api}

ASSUME NoneAssumption == None \notin Profiles
ASSUME SingleAssumption == Profiles \cap {Single, Api} = {}
ASSUME RequestsAssumption ==
  Requests \subseteq {"create", "restart", "force", "delete", "update",
                      "enable", "disable", "modify", "config"}
ASSUME BoundAssumption == MaxAsked \in Nat /\ MaxFailed \in Nat
ASSUME SettledAssumption == Settled \in BOOLEAN

VARIABLES
  \* The nodes table: which rows there are, which nodes are yet to be created,
  \* and the nodes of which a column is true.
  known, fresh, disabled, connecting, connected,
  profile,   \* activeConfigProfileUuid of each node
  assigned,  \* the nodes that have activeInbounds
  version,   \* how often profile and inbounds of each node were changed
  content,   \* how often the configuration of each profile (or None) changed
  edit,      \* the request that is changing profile and inbounds of nodes
  \* The queues.
  try,       \* the attempts to start each node, by whom
  stop,      \* the STOP_NODE job of each node
  halting,   \* who has disabled each node and is about to enqueue its STOP_NODE
  deleting,  \* the nodes with a STOP_NODE job that is to delete them
  check,     \* the NODE_HEALTH_CHECK job of each node
  prof,      \* the START_ALL_BY_PROFILE job of each profile
  every,     \* the START_ALL_NODES job
  paused,    \* whether startNode and startAllNodes are paused
  \* The scheduler.
  waiting,   \* waitingProfiles, whose deduplicated job is to be retried
  ticked,    \* isNodesRestarted
  \* The nodes.
  reach,     \* the nodes the panel can reach
  core,      \* the nodes whose core runs
  config,    \* the configuration each node was given last
  busy,      \* whether a start is in progress: "no", "yes", or "hit" when a
             \* stop has come in between
  \* History and bounds.
  wanted,    \* the nodes that the last decision about them enabled
  owed,      \* the nodes of which a forced restart was accepted and is due
  asked, failed

rowVars == <<known, fresh, disabled, connecting, connected, profile, assigned,
            version, content>>
jobVars == <<try, stop, halting, deleting, check, prof, every, paused>>
cronVars == <<waiting, ticked>>
nodeVars == <<reach, core, config, busy>>
askVars == <<edit, asked>>
vars == <<rowVars, jobVars, cronVars, nodeVars, askVars, wanted, owed, failed>>

\* A configuration: the profile, the version of the row and of the profile.
Configs == (Profiles \cup {None}) \X Nat \X Nat
NoConfig == <<None, 0, 0>>

\* An attempt: its place, forceRestart, isStarted of the node's answer, and the
\* configuration it is to give to the node.
NoTry == [pc |-> "none", force |-> FALSE, started |-> FALSE, gives |-> NoConfig]
NoCheck == [pc |-> "none", was |-> FALSE]
NoProf == [pc |-> "none", force |-> FALSE, nodes |-> {}, some |-> {},
           todo |-> {}, row |-> [n \in Nodes |-> 0]]
\* A request that edits nodes: what it does next ("remove" or "add" inbounds, or
\* write the "row"), how it ends, and whether there are inbounds to add.
NoEdit == [pc |-> "none", ends |-> "start", nodes |-> {}, profile |-> None,
           some |-> FALSE]
NoEvery == [pc |-> "none", force |-> FALSE, todo |-> {}]

\* Where an attempt has set isConnecting and not yet reset it.
Trying == {"prepare", "request", "wait", "answered", "failed"}

\* A panel that starts over rows it has kept, and perhaps rows to come.
Init ==
  /\ known \in SUBSET Nodes /\ fresh = Nodes \ known
  /\ disabled = {} /\ connecting = {} /\ connected = {}
  /\ assigned = known
  /\ profile \in [Nodes -> Profiles \cup {None}]
  /\ \A n \in Nodes : profile[n] = None <=> n \in fresh
  /\ version = [n \in Nodes |-> 0]
  /\ content = [p \in Profiles \cup {None} |-> 0]
  /\ edit = NoEdit
  /\ try = [w \in Starters |-> [n \in Nodes |-> NoTry]]
  /\ stop = [n \in Nodes |-> "none"] /\ deleting = {}
  /\ halting = [n \in Nodes |-> {}]
  /\ check = [n \in Nodes |-> NoCheck]
  /\ prof = [p \in Profiles |-> NoProf] /\ every = NoEvery
  /\ paused = FALSE /\ waiting = {} /\ ticked = FALSE
  /\ reach = Nodes /\ core = {} /\ busy = [n \in Nodes |-> "no"]
  /\ config = [n \in Nodes |-> NoConfig]
  /\ wanted = known /\ owed = {} /\ asked = 0 /\ failed = 0

Fault(f) == f \in Faults /\ failed < MaxFailed /\ failed' = failed + 1

-----------------------------------------------------------------------------
(* NodesQueuesService: a job whose id is in its queue is not added again.  *)

AddStart(n, force) ==
  try' = IF try[Single][n].pc = "none"
         THEN [try EXCEPT ![Single][n] =
                 [NoTry EXCEPT !.pc = "waiting", !.force = force]]
         ELSE try

AddStop(n) == stop' = [stop EXCEPT ![n] = IF @ = "none" THEN "waiting" ELSE @]

\* A deduplicated job is heard of by the scheduler, which retries it later
\* (without force), unless it is waiting to do so already.
AddProfile(p, force, retrying) ==
  IF prof[p].pc = "none"
  THEN /\ prof' = [prof EXCEPT ![p] =
                     [NoProf EXCEPT !.pc = "waiting", !.force = force]]
       /\ waiting' = retrying
  ELSE prof' = prof /\ waiting' = retrying \cup {p}

AddEvery(force) ==
  every' = IF every.pc = "none"
           THEN [NoEvery EXCEPT !.pc = "waiting", !.force = force] ELSE every

-----------------------------------------------------------------------------
(* An attempt to start a node: StartNodeProcessor, and the mapper of       *)
(* StartAllNodesByProfileProcessor from the pre-check on.  A write to a row *)
(* that is gone fails and is ignored.                                      *)

Goto(w, n, pc) == try' = [try EXCEPT ![w][n].pc = pc]
End(w, n) == try' = [try EXCEPT ![w][n] = NoTry]
Configured(n) == n \in assigned /\ profile[n] # None

StartRead(n) ==
  /\ try[Single][n].pc = "waiting" /\ ~paused
  /\ IF n \notin known \/ n \in connecting THEN End(Single, n)
     ELSE try' = [try EXCEPT
            ![Single][n].pc = IF Configured(n) THEN "mark" ELSE "clear",
            ![Single][n].gives = <<profile[n], version[n], 0>>]
  /\ UNCHANGED <<rowVars, stop, halting, deleting, check, prof, every, paused,
                 cronVars, nodeVars, wanted, owed, askVars, failed>>

\* A node without profile or inbounds is disabled, and then stopped.
Clear(w, n) ==
  /\ disabled' = disabled \cup ({n} \cap known)
  /\ profile' = [profile EXCEPT ![n] = None]
  /\ connecting' = connecting \ {n} /\ connected' = connected \ {n}
  /\ halting' = [halting EXCEPT ![n] = @ \cup {w}]
  /\ owed' = owed \ {n}

Halt(w, n) ==
  /\ w \in halting[n] /\ halting' = [halting EXCEPT ![n] = @ \ {w}]
  /\ AddStop(n)

StartClear(n) ==
  /\ try[Single][n].pc = "clear" /\ Single \notin halting[n]
  /\ Clear(Single, n)
  /\ UNCHANGED <<known, fresh, assigned, version, content, try, stop, deleting,
                 check, prof, every, paused, cronVars, nodeVars, wanted,
                 askVars, failed>>

StartStop(n) ==
  /\ try[Single][n].pc = "clear" /\ Halt(Single, n)
  /\ End(Single, n)
  /\ UNCHANGED <<rowVars, deleting, check, prof, every, paused, cronVars,
                 nodeVars, wanted, owed, askVars, failed>>

\* Mutant: the write inserts a row that is gone.
StartMarkGone(n) ==
  /\ try[Single][n].pc = "mark"
  /\ connecting' = connecting \cup {n}
  /\ Goto(Single, n, "prepare")
  /\ UNCHANGED <<known, fresh, disabled, connected, profile, assigned, version,
                 content, stop, halting, deleting, check, prof, every, paused,
                 cronVars, nodeVars, wanted, owed, askVars, failed>>

StartMark(n) ==
  /\ try[Single][n].pc = "mark"
  /\ connecting' = connecting \cup ({n} \cap known)
  /\ Goto(Single, n, "prepare")
  /\ UNCHANGED <<known, fresh, disabled, connected, profile, assigned, version,
                 content, stop, halting, deleting, check, prof, every, paused,
                 cronVars, nodeVars, wanted, owed, askVars, failed>>

\* The configuration of the profile that was read, as it is by now.
WithContent(gives) == <<gives[1], gives[2], content[gives[1]]>>

\* getNodeHealth, the plugin, syncNodePlugins and the configuration; the job of
\* a profile has got it already.
StartPrepare(w, n) ==
  /\ try[w][n].pc = "prepare"
  /\ \/ /\ n \in reach
        /\ try' = [try EXCEPT ![w][n].pc = "request",
                     ![w][n].gives = IF w = Single THEN WithContent(@) ELSE @]
        /\ UNCHANGED failed
     \/ n \notin reach /\ Goto(w, n, "failed") /\ UNCHANGED failed
     \/ Fault("query") /\ End(w, n)
  /\ UNCHANGED <<rowVars, stop, halting, deleting, check, prof, every, paused,
                 cronVars, nodeVars, wanted, owed, askVars>>

Answer(w, n, isStarted) ==
  try' = [try EXCEPT ![w][n].pc = "answered", ![w][n].started = isStarted]

\* Mutant: a core that runs is taken to be up to date.
UpToDateRunning(w, n) == n \in core /\ ~try[w][n].force

UpToDate(w, n) ==
  n \in core /\ config[n] = try[w][n].gives /\ ~try[w][n].force

\* startXray: a busy node refuses; one whose core runs compares the hashes,
\* unless the restart is forced, and may find that there is nothing to do.
StartRequest(w, n) ==
  /\ try[w][n].pc = "request"
  /\ \/ /\ n \notin reach
        /\ Goto(w, n, "failed")
        /\ UNCHANGED <<core, config, busy, owed>>
     \/ /\ n \in reach
        /\ busy[n] # "no" \/ UpToDate(w, n)
        /\ Answer(w, n, busy[n] = "no")
        /\ UNCHANGED <<core, config, busy, owed>>
     \/ /\ n \in reach /\ busy[n] = "no" /\ ~UpToDate(w, n)
        /\ core' = core \ {n} /\ busy' = [busy EXCEPT ![n] = "yes"]
        /\ config' = [config EXCEPT ![n] = try[w][n].gives]
        /\ owed' = IF try[w][n].force THEN owed \ {n} ELSE owed
        /\ Goto(w, n, "wait")
  /\ UNCHANGED <<rowVars, stop, halting, deleting, check, prof, every, paused,
                 cronVars, reach, wanted, askVars, failed>>

\* The panel stops waiting.
StartTimeout(w, n) ==
  /\ try[w][n].pc = "wait"
  /\ \/ (n \notin reach \/ busy[n] = "no") /\ UNCHANGED failed
     \/ Fault("slow")
  /\ Goto(w, n, "failed")
  /\ UNCHANGED <<rowVars, stop, halting, deleting, check, prof, every, paused,
                 cronVars, nodeVars, wanted, owed, askVars>>

\* Mutant: a failed pre-check leaves isConnecting set.
StartDoneConnecting(w, n) ==
  LET isStarted == try[w][n].pc = "answered" /\ try[w][n].started
  IN /\ try[w][n].pc \in {"answered", "failed"}
     /\ connected' = IF isStarted THEN connected \cup ({n} \cap known)
                                  ELSE connected \ {n}
     /\ connecting' = IF try[w][n].pc = "answered" THEN connecting \ {n}
                                                   ELSE connecting
     /\ owed' = IF isStarted THEN owed ELSE owed \ {n}
     /\ End(w, n)
     /\ UNCHANGED <<known, fresh, disabled, profile, assigned, version,
                    content, stop, halting, deleting, check, prof, every,
                    paused, cronVars, nodeVars, wanted, askVars, failed>>

\* A restart that fails is no longer due: the row says so.
StartDone(w, n) ==
  LET isStarted == try[w][n].pc = "answered" /\ try[w][n].started
  IN /\ try[w][n].pc \in {"answered", "failed"}
     /\ connected' = IF isStarted THEN connected \cup ({n} \cap known)
                                  ELSE connected \ {n}
     /\ connecting' = connecting \ {n}
     /\ owed' = IF isStarted THEN owed ELSE owed \ {n}
     /\ End(w, n)
     /\ UNCHANGED <<known, fresh, disabled, profile, assigned, version,
                    content, stop, halting, deleting, check, prof, every,
                    paused, cronVars, nodeVars, wanted, askVars, failed>>

Try(w, n) ==
  \/ StartPrepare(w, n) \/ StartRequest(w, n) \/ StartTimeout(w, n)
  \/ StartDone(w, n)

-----------------------------------------------------------------------------
(* StopNodeProcessor.                                                      *)

\* stopXray; whether the node has answered makes no difference.
StopRequest(n) ==
  /\ stop[n] = "waiting"
  /\ IF n \in known /\ n \in reach
     THEN /\ core' = core \ {n}
          /\ busy' = [busy EXCEPT ![n] = IF @ = "yes" THEN "hit" ELSE @]
          /\ config' = [config EXCEPT ![n] = NoConfig]
     ELSE UNCHANGED <<core, config, busy>>
  /\ stop' = [stop EXCEPT ![n] = IF n \in known THEN "update" ELSE "none"]
  /\ UNCHANGED <<rowVars, try, halting, deleting, check, prof, every, paused,
                 cronVars, reach, wanted, owed, askVars, failed>>

StopUpdate(n) ==
  /\ stop[n] = "update"
  /\ connected' = connected \ {n} /\ connecting' = connecting \ {n}
  /\ disabled' = disabled \cup ({n} \cap known)
  /\ owed' = owed \ {n}
  /\ stop' = [stop EXCEPT ![n] = "none"]
  /\ UNCHANGED <<known, fresh, profile, assigned, version, content, try,
                 halting, deleting, check, prof, every, paused, cronVars,
                 nodeVars, wanted, askVars, failed>>

DeleteRow(n) ==
  /\ n \in deleting
  /\ deleting' = deleting \ {n} /\ known' = known \ {n}
  /\ disabled' = disabled \ {n} /\ connecting' = connecting \ {n}
  /\ connected' = connected \ {n} /\ assigned' = assigned \ {n}
  /\ profile' = [profile EXCEPT ![n] = None]
  /\ wanted' = wanted \ {n} /\ owed' = owed \ {n}
  /\ UNCHANGED <<fresh, version, content, try, stop, halting, check, prof,
                 every, paused, cronVars, nodeVars, askVars, failed>>

-----------------------------------------------------------------------------
(* NodeHealthCheckTask and NodeHealthCheckProcessor.                       *)

\* Mutant: disabled nodes are checked too.
TickAll ==
  /\ IF ~ticked
     THEN ticked' = TRUE /\ AddEvery(FALSE) /\ UNCHANGED check
     ELSE /\ check' = [n \in Nodes |->
               IF n \in known \ connecting /\ check[n].pc = "none"
               THEN [pc |-> "waiting", was |-> n \in connected] ELSE check[n]]
          /\ UNCHANGED <<ticked, every>>
  /\ UNCHANGED <<rowVars, try, stop, halting, deleting, prof, paused, waiting,
                 nodeVars, wanted, owed, askVars, failed>>

Tick ==
  /\ IF ~ticked
     THEN ticked' = TRUE /\ AddEvery(FALSE) /\ UNCHANGED check
     ELSE /\ check' = [n \in Nodes |->
               IF n \in (known \ disabled) \ connecting /\ check[n].pc = "none"
               THEN [pc |-> "waiting", was |-> n \in connected] ELSE check[n]]
          /\ UNCHANGED <<ticked, every>>
  /\ UNCHANGED <<rowVars, try, stop, halting, deleting, prof, paused, waiting,
                 nodeVars, wanted, owed, askVars, failed>>

\* getSystemStats, twice if need be: it needs a core that runs.
CheckStats(n) ==
  /\ check[n].pc = "waiting"
  /\ check' = [check EXCEPT ![n].pc =
                 IF n \in reach \cap core THEN "up" ELSE "lost"]
  /\ UNCHANGED <<rowVars, try, stop, halting, deleting, prof, every, paused,
                 cronVars, nodeVars, wanted, owed, askVars, failed>>

\* Mutant: a lost node is not started again.
CheckUpdateLost(n) ==
  /\ check[n].pc \in {"up", "lost"}
  /\ connected' = IF check[n].pc = "lost" THEN connected \ {n}
                  ELSE IF check[n].was THEN connected
                  ELSE connected \cup ({n} \cap known)
  /\ IF check[n].pc = "lost" \/ check[n].was THEN UNCHANGED try
     ELSE AddStart(n, FALSE)
  /\ check' = [check EXCEPT ![n] = NoCheck]
  /\ UNCHANGED <<known, fresh, disabled, connecting, profile, assigned,
                 version, content, stop, halting, deleting, prof, every,
                 paused, cronVars, nodeVars, wanted, owed, askVars, failed>>

\* A node that has come back, or was lost, is started.
CheckUpdate(n) ==
  /\ check[n].pc \in {"up", "lost"}
  /\ connected' = IF check[n].pc = "lost" THEN connected \ {n}
                  ELSE IF check[n].was THEN connected
                  ELSE connected \cup ({n} \cap known)
  /\ IF (check[n].pc = "up" /\ check[n].was) \/ n \notin known
     THEN UNCHANGED try ELSE AddStart(n, FALSE)
  /\ check' = [check EXCEPT ![n] = NoCheck]
  /\ UNCHANGED <<known, fresh, disabled, connecting, profile, assigned,
                 version, content, stop, halting, deleting, prof, every,
                 paused, cronVars, nodeVars, wanted, owed, askVars, failed>>

-----------------------------------------------------------------------------
(* StartAllNodesQueueProcessor and StartAllNodesByProfileQueueProcessor.   *)

EveryRead ==
  /\ every.pc = "waiting" /\ ~paused
  /\ every' = [every EXCEPT !.pc = "list",
                 !.todo = {profile[n] : n \in known \ disabled} \ {None}]
  /\ UNCHANGED <<rowVars, try, stop, halting, deleting, check, prof, paused,
                 cronVars, nodeVars, wanted, owed, askVars, failed>>

EveryAdd ==
  /\ every.pc = "list"
  /\ IF every.todo = {}
     THEN every' = NoEvery /\ UNCHANGED <<prof, waiting>>
     ELSE \E p \in every.todo :
            /\ AddProfile(p, every.force, waiting)
            /\ every' = [every EXCEPT !.todo = @ \ {p}]
  /\ UNCHANGED <<rowVars, try, stop, halting, deleting, check, paused, ticked,
                 nodeVars, wanted, owed, askVars, failed>>

\* The queues are paused and the nodes selected; nodes that lose their
\* inbounds from here on are no concern of the job.
ProfileBegin(p) ==
  LET S == {n \in known \ disabled : profile[n] = p}
  IN /\ prof[p].pc = "waiting"
     /\ paused' = TRUE
     /\ prof' = [prof EXCEPT ![p].pc = "mark", ![p].nodes = S, ![p].todo = S,
                             ![p].some = S \cap assigned, ![p].row = version]
     /\ UNCHANGED <<rowVars, try, stop, halting, deleting, check, every,
                    cronVars, nodeVars, wanted, owed, askVars, failed>>

\* The next node of the loop: disabled and then stopped, or marked.
ProfileMark(p) ==
  \E n \in prof[p].todo :
    /\ prof[p].pc = "mark" /\ \A m \in Nodes : p \notin halting[m]
    /\ IF n \notin prof[p].some THEN Clear(p, n)
       ELSE /\ connecting' = connecting \cup ({n} \cap known)
            /\ UNCHANGED <<disabled, profile, connected, halting, owed>>
    /\ prof' = [prof EXCEPT ![p].todo = @ \ {n}]
    /\ UNCHANGED <<known, fresh, assigned, version, content, try, stop,
                   deleting, check, every, paused, cronVars, nodeVars, wanted,
                   askVars, failed>>

ProfileStop(p) ==
  /\ \E n \in Nodes : Halt(p, n)
  /\ UNCHANGED <<rowVars, try, deleting, check, prof, every, paused, cronVars,
                 nodeVars, wanted, owed, askVars, failed>>

\* finally: the queues are resumed, whoever else has paused them.
ProfileFinally(p) ==
  paused' = FALSE /\ prof' = [prof EXCEPT ![p] = NoProf]

\* Mutant: the early return is outside of the try block.
ProfileGatherPaused(p) ==
  /\ prof[p].pc = "mark" /\ prof[p].todo = {}
  /\ \A n \in Nodes : p \notin halting[n]
  /\ \/ /\ prof[p].some = {}
        /\ prof' = [prof EXCEPT ![p] = NoProf]
        /\ UNCHANGED <<try, paused, failed>>
     \/ /\ prof[p].some # {}
        /\ prof' = [prof EXCEPT ![p].pc = "map"]
        /\ try' = [try EXCEPT ![p] = [n \in Nodes |->
             IF n \in prof[p].nodes
             THEN [NoTry EXCEPT !.pc = "prepare", !.force = prof[p].force,
                     !.gives = <<p, prof[p].row[n], content[p]>>]
             ELSE NoTry]]
        /\ UNCHANGED <<paused, failed>>
  /\ UNCHANGED <<rowVars, stop, halting, deleting, check, every, cronVars,
                 nodeVars, wanted, owed, askVars>>

\* The plugins and the configuration, then an attempt for every node selected.
ProfileGather(p) ==
  /\ prof[p].pc = "mark" /\ prof[p].todo = {}
  /\ \A n \in Nodes : p \notin halting[n]
  /\ \/ prof[p].some = {} /\ ProfileFinally(p) /\ UNCHANGED <<try, failed>>
     \/ /\ prof[p].some # {} /\ Fault("query")
        /\ ProfileFinally(p) /\ UNCHANGED try
     \/ /\ prof[p].some # {}
        /\ prof' = [prof EXCEPT ![p].pc = "map"]
        /\ try' = [try EXCEPT ![p] = [n \in Nodes |->
             IF n \in prof[p].nodes
             THEN [NoTry EXCEPT !.pc = "prepare", !.force = prof[p].force,
                     !.gives = <<p, prof[p].row[n], content[p]>>]
             ELSE NoTry]]
        /\ UNCHANGED <<paused, failed>>
  /\ UNCHANGED <<rowVars, stop, halting, deleting, check, every, cronVars,
                 nodeVars, wanted, owed, askVars>>

ProfileEnd(p) ==
  /\ prof[p].pc = "map" /\ \A n \in Nodes : try[p][n].pc = "none"
  /\ ProfileFinally(p)
  /\ UNCHANGED <<rowVars, try, stop, halting, deleting, check, every, cronVars,
                 nodeVars, wanted, owed, askVars, failed>>

\* StartAllNodesByProfileQueueEvents: ten seconds later.
Retry(p) ==
  /\ p \in waiting
  /\ AddProfile(p, FALSE, waiting \ {p})
  /\ UNCHANGED <<rowVars, try, stop, halting, deleting, check, every, paused,
                 ticked, nodeVars, wanted, owed, askVars, failed>>


-----------------------------------------------------------------------------
(* The administrator: NodesService and ConfigProfileService.               *)

\* Nothing is going on that has to do with node n.
Quiet(n) ==
  /\ try[Single][n].pc = "none" /\ stop[n] = "none" /\ halting[n] = {}
  /\ n \notin deleting /\ check[n].pc = "none" /\ busy[n] = "no"
  /\ \A p \in Profiles : prof[p].pc = "none"
  /\ every.pc = "none" /\ waiting = {} /\ edit = NoEdit

Ask(what, S) ==
  /\ what \in Requests /\ asked < MaxAsked /\ asked' = asked + 1
  /\ Settled => \A n \in S : Quiet(n)

\* A request that edits nodes goes step by step; one at a time is modelled.
Edit(pc, ends, S, p, some) ==
  /\ edit = NoEdit
  /\ edit' = [pc |-> pc, ends |-> ends, nodes |-> S, profile |-> p,
              some |-> some]

\* The row comes first, then its inbounds.
CreateNode(n) ==
  \E p \in Profiles, some \in BOOLEAN :
    /\ n \in fresh /\ Ask("create", {n}) /\ Edit("add", "start", {n}, p, some)
    /\ fresh' = fresh \ {n} /\ known' = known \cup {n}
    /\ profile' = [profile EXCEPT ![n] = p]
    /\ wanted' = wanted \cup {n}
    /\ UNCHANGED <<disabled, connecting, connected, assigned, version, content,
                   jobVars, cronVars, nodeVars, owed, failed>>

Newer(S) == [n \in Nodes |-> version[n] + IF n \in S THEN 1 ELSE 0]

Restart(force) == IF force THEN "force" ELSE "restart"

\* Mutant: the core is stopped first, by the job that disables the node.
RestartNodeStops(n) ==
  \E force \in BOOLEAN :
    /\ n \in known \ disabled /\ Ask(Restart(force), {n})
    /\ AddStart(n, force) /\ AddStop(n)
    /\ owed' = IF force THEN owed \cup {n} ELSE owed
    /\ UNCHANGED <<rowVars, halting, deleting, check, prof, every, paused,
                   cronVars, nodeVars, wanted, edit, failed>>

RestartNode(n) ==
  \E force \in BOOLEAN :
    /\ n \in known \ disabled /\ Ask(Restart(force), {n})
    /\ AddStart(n, force)
    /\ owed' = IF force THEN owed \cup {n} ELSE owed
    /\ UNCHANGED <<rowVars, stop, halting, deleting, check, prof, every,
                   paused, cronVars, nodeVars, wanted, edit, failed>>

RestartAllNodes ==
  \E force \in BOOLEAN :
    /\ known \ disabled # {} /\ Ask(Restart(force), Nodes)
    /\ AddEvery(force)
    /\ owed' = IF force THEN owed \cup {n \in known \ disabled : Configured(n)}
               ELSE owed
    /\ UNCHANGED <<rowVars, try, stop, halting, deleting, check, prof, paused,
                   cronVars, nodeVars, wanted, edit, failed>>

DeleteNode(n) ==
  /\ n \in known /\ Ask("delete", {n})
  /\ deleting' = deleting \cup {n}
  /\ UNCHANGED <<rowVars, try, stop, halting, check, prof, every, paused,
                 cronVars, nodeVars, wanted, owed, edit, failed>>

\* Who edits a node that is disabled takes it as it is.
UpdateNode(n) ==
  \E p \in Profiles, some \in BOOLEAN :
    /\ n \in known /\ Ask("update", {n})
    /\ Edit("add", IF n \in disabled THEN "row" ELSE "row, start", {n}, p, some)
    /\ assigned' = assigned \ {n}
    /\ wanted' = wanted \ ({n} \cap disabled)
    /\ UNCHANGED <<known, fresh, disabled, connecting, connected, profile,
                   version, content, jobVars, cronVars, nodeVars, owed, failed>>

EnableNode(n) ==
  /\ n \in known /\ Ask("enable", {n})
  /\ IF Configured(n)
     THEN /\ disabled' = disabled \ {n} /\ wanted' = wanted \cup {n}
          /\ AddStart(n, FALSE)
          /\ UNCHANGED <<profile, connecting, connected, owed>>
     ELSE /\ disabled' = disabled \cup {n} /\ wanted' = wanted \ {n}
          /\ owed' = owed \ {n} /\ profile' = [profile EXCEPT ![n] = None]
          /\ connecting' = connecting \ {n} /\ connected' = connected \ {n}
          /\ UNCHANGED try
  /\ UNCHANGED <<known, fresh, assigned, version, content, stop, halting,
                 deleting, check, prof, every, paused, cronVars, nodeVars,
                 edit, failed>>

\* One request at a time is about to enqueue the job.
DisableNode(n) ==
  /\ n \in known /\ Api \notin halting[n] /\ Ask("disable", {n})
  /\ profile' = [profile EXCEPT ![n] = IF Configured(n) THEN @ ELSE None]
  /\ disabled' = disabled \cup {n}
  /\ connecting' = connecting \ {n} /\ connected' = connected \ {n}
  /\ halting' = [halting EXCEPT ![n] = @ \cup {Api}]
  /\ wanted' = wanted \ {n} /\ owed' = owed \ {n}
  /\ UNCHANGED <<known, fresh, assigned, version, content, try, stop, deleting,
                 check, prof, every, paused, cronVars, nodeVars, edit, failed>>

DisableStop(n) ==
  /\ Halt(Api, n)
  /\ UNCHANGED <<rowVars, try, deleting, check, prof, every, paused, cronVars,
                 nodeVars, wanted, owed, askVars, failed>>

\* profileModification: one profile, and inbounds of it, for many nodes.
ModifyProfile(p) ==
  \E S \in SUBSET known \ {{}} :
    /\ Ask("modify", Nodes) /\ Edit("remove", "profile", S, p, TRUE)
    /\ profile' = [n \in Nodes |-> IF n \in S THEN p ELSE profile[n]]
    /\ version' = Newer(S)
    /\ wanted' = wanted \ (S \cap disabled)
    /\ UNCHANGED <<known, fresh, disabled, connecting, connected, assigned,
                   content, jobVars, cronVars, nodeVars, owed, failed>>

EditRemove ==
  /\ edit.pc = "remove"
  /\ assigned' = assigned \ edit.nodes
  /\ edit' = [edit EXCEPT !.pc = "add"]
  /\ UNCHANGED <<known, fresh, disabled, connecting, connected, profile,
                 version, content, jobVars, cronVars, nodeVars, wanted, owed,
                 asked, failed>>

\* Without inbounds, or a row for each of the nodes, the request ends here.
EditAdd ==
  /\ edit.pc = "add"
  /\ IF ~edit.some \/ ~(edit.nodes \subseteq known)
     THEN edit' = NoEdit /\ UNCHANGED <<assigned, version, try, prof, waiting>>
     ELSE /\ assigned' = assigned \cup edit.nodes
          /\ version' = Newer(edit.nodes)
          /\ \/ /\ edit.ends = "start" /\ edit' = NoEdit
                /\ \E n \in edit.nodes : AddStart(n, FALSE)
                /\ UNCHANGED <<prof, waiting>>
             \/ /\ edit.ends = "profile" /\ edit' = NoEdit
                /\ AddProfile(edit.profile, FALSE, waiting) /\ UNCHANGED try
             \/ /\ edit.ends \in {"row", "row, start"}
                /\ edit' = [edit EXCEPT !.pc = "row"]
                /\ UNCHANGED <<try, prof, waiting>>
  /\ UNCHANGED <<known, fresh, disabled, connecting, connected, profile,
                 content, stop, halting, deleting, check, every, paused,
                 ticked, nodeVars, wanted, owed, asked, failed>>

\* updateNode: isDisabled is what it was when the request began.
EditRow ==
  /\ edit.pc = "row" /\ edit' = NoEdit
  /\ \E n \in edit.nodes :
       IF n \in known
       THEN /\ profile' = [profile EXCEPT ![n] = edit.profile]
            /\ version' = Newer({n})
            /\ IF edit.ends = "row" THEN UNCHANGED try ELSE AddStart(n, FALSE)
       ELSE UNCHANGED <<profile, version, try>>
  /\ UNCHANGED <<known, fresh, disabled, connecting, connected, assigned,
                 content, stop, halting, deleting, check, prof, every, paused,
                 cronVars, nodeVars, wanted, owed, asked, failed>>

\* A new configuration may lack the inbounds that some nodes of it have.
UpdateConfigProfile(p) ==
  \E S \in SUBSET {n \in assigned : profile[n] = p} :
    /\ Ask("config", Nodes)
    /\ assigned' = assigned \ S
    /\ content' = [content EXCEPT ![p] = @ + 1]
    /\ AddProfile(p, FALSE, waiting)
    /\ UNCHANGED <<known, fresh, disabled, connecting, connected, profile,
                   version, try, stop, halting, deleting, check, every, paused,
                   ticked, nodeVars, wanted, owed, edit, failed>>

Administrator ==
  \/ RestartAllNodes
  \/ \E n \in Nodes : \/ CreateNode(n) \/ RestartNode(n) \/ DeleteNode(n)
                      \/ UpdateNode(n) \/ EnableNode(n) \/ DisableNode(n)
                      \/ DisableStop(n)
  \/ \E p \in Profiles : ModifyProfile(p) \/ UpdateConfigProfile(p)
  \/ EditRemove \/ EditAdd \/ EditRow

-----------------------------------------------------------------------------
(* The nodes.                                                              *)

\* startXray ends: the core runs, or does not if it fails to start or if a
\* stop has come in between; the answer reaches who still waits for it.
NodeAnswer(n) ==
  /\ busy[n] # "no" /\ busy' = [busy EXCEPT ![n] = "no"]
  /\ \E isStarted \in BOOLEAN :
       /\ IF isStarted \/ busy[n] = "hit" THEN UNCHANGED failed
          ELSE Fault("core")
       /\ core' = IF isStarted THEN core \cup {n} ELSE core
       /\ try' = [w \in Starters |-> [try[w] EXCEPT ![n] =
             IF @.pc = "wait" /\ n \in reach
             THEN [@ EXCEPT !.pc = "answered", !.started = isStarted] ELSE @]]
  /\ UNCHANGED <<rowVars, stop, halting, deleting, check, prof, every, paused,
                 cronVars, reach, config, wanted, owed, askVars>>

CoreDies(n) ==
  /\ n \in core /\ Fault("core")
  /\ core' = core \ {n}
  /\ UNCHANGED <<rowVars, jobVars, cronVars, reach, config, busy, wanted, owed,
                 askVars>>

Unreachable(n) ==
  /\ n \in reach /\ Fault("net")
  /\ reach' = reach \ {n}
  /\ UNCHANGED <<rowVars, jobVars, cronVars, core, config, busy, wanted, owed,
                 askVars>>

Reachable(n) ==
  /\ n \notin reach
  /\ reach' = reach \cup {n}
  /\ UNCHANGED <<rowVars, jobVars, cronVars, core, config, busy, wanted, owed,
                 askVars, failed>>

(* BullMQ runs the jobs of a worker that has died once more.               *)

Again(pc) == IF pc = "none" THEN "none" ELSE "waiting"

\* Mutant: the job of a profile is not run once more.
WorkerDiesLost ==
  /\ try' = [w \in Starters |-> [n \in Nodes |->
       IF w = Single /\ try[w][n].pc # "none"
       THEN [try[w][n] EXCEPT !.pc = "waiting", !.started = FALSE] ELSE NoTry]]
  /\ stop' = [n \in Nodes |-> Again(stop[n])]
  /\ check' = [n \in Nodes |-> [check[n] EXCEPT !.pc = Again(@)]]
  /\ prof' = [p \in Profiles |-> NoProf]
  /\ every' = [NoEvery EXCEPT !.pc = Again(every.pc), !.force = every.force]
  /\ UNCHANGED <<rowVars, deleting, paused, nodeVars, wanted, owed, asked>>

WorkerDies ==
  /\ try' = [w \in Starters |-> [n \in Nodes |->
       IF w = Single /\ try[w][n].pc # "none"
       THEN [try[w][n] EXCEPT !.pc = "waiting", !.started = FALSE] ELSE NoTry]]
  /\ stop' = [n \in Nodes |-> Again(stop[n])]
  /\ check' = [n \in Nodes |-> [check[n] EXCEPT !.pc = Again(@)]]
  /\ prof' = [p \in Profiles |-> [NoProf EXCEPT !.pc = Again(prof[p].pc),
                                                !.force = prof[p].force]]
  /\ every' = [NoEvery EXCEPT !.pc = Again(every.pc), !.force = every.force]
  /\ UNCHANGED <<rowVars, deleting, paused, nodeVars, wanted, owed, asked>>

\* Who had yet to enqueue a STOP_NODE job is gone, or reads the row again.
PanelDies ==
  \/ /\ Fault("worker") /\ WorkerDies /\ UNCHANGED <<cronVars, edit>>
     /\ halting' = [n \in Nodes |-> halting[n] \cap {Api}]
  \/ /\ Fault("panel") /\ WorkerDies
     /\ edit' = NoEdit /\ waiting' = {} /\ ticked' = FALSE
     /\ halting' = [n \in Nodes |-> {}]

-----------------------------------------------------------------------------
Job(n) ==
  \/ StartRead(n) \/ StartClear(n) \/ StartStop(n) \/ StartMark(n)
  \/ \E w \in Starters : Try(w, n)

Profile(p) ==
  \/ ProfileBegin(p) \/ ProfileMark(p) \/ ProfileStop(p) \/ ProfileGather(p)
  \/ ProfileEnd(p)

Environment ==
  \/ \E n \in Nodes : CoreDies(n) \/ Unreachable(n) \/ Reachable(n)
  \/ PanelDies

Next ==
  \/ \E n \in Nodes : \/ Job(n) \/ StopRequest(n) \/ StopUpdate(n)
                      \/ DeleteRow(n) \/ CheckStats(n) \/ CheckUpdate(n)
                      \/ NodeAnswer(n)
  \/ \E p \in Profiles : Profile(p) \/ Retry(p)
  \/ Tick \/ EveryRead \/ EveryAdd
  \/ Administrator \/ Environment

Spec == Init /\ [][Next]_vars

\* The workers take the jobs of queues that are not paused, every call to a
\* node ends, and the cron task runs every ten seconds.
FairSpec ==
  /\ Spec
  /\ WF_vars(EditRemove \/ EditAdd \/ EditRow)
  /\ WF_vars(Tick) /\ WF_vars(EveryRead \/ EveryAdd)
  /\ \A n \in Nodes :
       /\ WF_vars(\/ StartRead(n) \/ StartClear(n) \/ StartStop(n)
                  \/ StartMark(n))
       /\ \A w \in Starters : WF_vars(Try(w, n))
       /\ WF_vars(StopRequest(n) \/ StopUpdate(n)) /\ WF_vars(DeleteRow(n))
       /\ WF_vars(CheckStats(n) \/ CheckUpdate(n)) /\ WF_vars(NodeAnswer(n))
       /\ WF_vars(DisableStop(n))
  /\ \A p \in Profiles : WF_vars(Profile(p)) /\ WF_vars(Retry(p))

-----------------------------------------------------------------------------
(* Properties.                                                             *)

Tries == [pc : Trying \cup {"none", "waiting", "clear", "mark"},
          force : BOOLEAN, started : BOOLEAN, gives : Configs]
Profs == [pc : {"none", "waiting", "mark", "map"}, force : BOOLEAN,
          nodes : SUBSET Nodes, some : SUBSET Nodes, todo : SUBSET Nodes,
          row : [Nodes -> Nat]]

Checks == [pc : {"none", "waiting", "up", "lost"}, was : BOOLEAN]
Everys == [pc : {"none", "waiting", "list"}, force : BOOLEAN,
           todo : SUBSET Profiles]
Edits == [pc : {"none", "remove", "add", "row"},
          ends : {"start", "row", "row, start", "profile"},
          nodes : SUBSET Nodes, profile : Profiles \cup {None}, some : BOOLEAN]

RowType ==
  /\ known \in SUBSET Nodes /\ fresh \in SUBSET Nodes
  /\ disabled \in SUBSET known /\ connecting \in SUBSET known
  /\ connected \in SUBSET known /\ assigned \in SUBSET known
  /\ profile \in [Nodes -> Profiles \cup {None}]
  /\ version \in [Nodes -> Nat] /\ content \in [Profiles \cup {None} -> Nat]
TryType == try \in [Starters -> [Nodes -> Tries]]
ProfType == prof \in [Profiles -> Profs]
QueueType ==
  /\ stop \in [Nodes -> {"none", "waiting", "update"}]
  /\ halting \in [Nodes -> SUBSET Halters]
  /\ deleting \in SUBSET Nodes
  /\ check \in [Nodes -> Checks] /\ every \in Everys
  /\ paused \in BOOLEAN
CronType == waiting \in SUBSET Profiles /\ ticked \in BOOLEAN
NodeType ==
  /\ reach \in SUBSET Nodes /\ core \in SUBSET Nodes
  /\ config \in [Nodes -> Configs]
  /\ busy \in [Nodes -> {"no", "yes", "hit"}]
AskType ==
  edit \in Edits /\ (edit.pc = "none" \/ edit.profile \in Profiles)
HistoryType ==
  /\ wanted \in SUBSET known /\ owed \in SUBSET Nodes
  /\ asked \in 0 .. MaxAsked /\ failed \in 0 .. MaxFailed

\* Every column, job and flag holds a value of its kind, and only nodes that
\* have a row are disabled, connecting or connected.
TypeOK ==
  /\ RowType /\ TryType /\ ProfType /\ QueueType /\ CronType /\ NodeType
  /\ AskType /\ HistoryType

\* Who has set isConnecting of node n and will reset it.
Owns(w, n) ==
  \/ try[w][n].pc \in Trying
  \/ w # Single /\ prof[w].pc = "mark" /\ n \in prof[w].some \ prof[w].todo

\* isConnecting keeps a node from being started and from being checked; so
\* while it is set somebody is about to reset it, whatever jobs of one node
\* and of its profiles overlap and whatever the nodes answer.
ConnectingIsOwned == \A n \in connecting : \E w \in Starters : Owns(w, n)

\* The queues are paused only while a job that resumes them is in its queue.
PauseIsOwned == paused => \E p \in Profiles : prof[p].pc # "none"

\* Once nothing is going on, a node that has profile and inbounds is disabled
\* exactly if the administrator's last decision about it says so: no job that
\* comes late has the last word.
WantedHolds ==
  \A n \in known : Quiet(n) =>
    /\ n \notin wanted => n \in disabled
    /\ n \in wanted /\ Configured(n) => n \notin disabled

\* Once nothing is going on, a disabled node is stopped, and does not count as
\* connected: as long as no job of a profile finds inbounds on some of its nodes
\* and none on others.
DisabledIsStopped ==
  \A n \in disabled : Quiet(n) => n \notin core /\ n \notin connected

\* No process dies between the write that disables a node and the call that
\* enqueues its STOP_NODE job, but for the START_NODE job, which comes back.
DeathsKeepStops ==
  PanelDies => \A n \in Nodes : halting[n] \ halting'[n] \subseteq {Single}

\* The mapper throws for a node of which it has no tags of active inbounds, so
\* a node that the job has disabled for lack of inbounds is not started by it.
NoInboundsNotStarted ==
  \A p \in Profiles, n \in Nodes :
    prof[p].pc = "map" /\ n \in prof[p].nodes \ prof[p].some
      => try[p][n].pc \notin {"wait", "answered"}

\* A forced restart that was accepted is carried out, or the node is shown as
\* not started or disabled: some job in a queue still carries it.
ForceKept ==
  \A n \in owed :
    \/ \E w \in Starters : try[w][n].pc # "none" /\ try[w][n].force
    \/ \E p \in Profiles : prof[p].pc # "none" /\ prof[p].force
    \/ every.pc # "none" /\ every.force

\* A node that stays enabled, configured and within reach ends up with a core
\* that runs, and as connected, for good: whatever was going on before, and
\* whatever query failed or process died, unless isConnecting was left to
\* nobody by that.
Reconnects ==
  \A n \in Nodes :
    <>[](/\ n \in (known \ disabled) \cap reach /\ Configured(n)
         /\ n \in connecting => \E w \in Starters : Owns(w, n))
      => <>[](n \in connected \cap core)

\* The node was last given the configuration that the rows now call for.
Current(n) ==
  Configured(n) /\ config[n] = <<profile[n], version[n], content[profile[n]]>>

\* Such a node also ends up with the configuration that the rows call for, not
\* with one that an attempt which began before the last change has read.
RunsCurrent ==
  \A n \in Nodes :
    <>[](n \in (known \ disabled) \cap reach /\ Configured(n))
      => <>[](n \in core /\ Current(n))
=============================================================================

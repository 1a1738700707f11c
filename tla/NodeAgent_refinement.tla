------------------------ MODULE NodeAgent_refinement ------------------------
(* NodeAgent implements StartControl: every step of a handler, of the core *)
(* or of a fault is a step of the starts' contract, or none.               *)
EXTENDS NodeAgent_proofs

-----------------------------------------------------------------------------
(* What the mapping needs beyond Isolation: only starts ask for a          *)
(* configuration, and who has had the core's answer has not seen it        *)
(* restart since.                                                          *)

OnlyStarts ==
  \A p \in Procs :
    h[p].pc \notin Locked \cup {"iface", "done"} => h[p].cfg = None
AnsweredUp == \A p \in Procs : h[p].pc = "answered" => core # "boot"
Refines == TypeOK /\ Isolation /\ OnlyStarts /\ AnsweredUp

CallOf(l) == IF l.cfg = None THEN [state |-> "none", cfg |-> None]
             ELSE [state |-> Phase(l), cfg |-> l.cfg]

\* A call depends on its handler's record alone.
LEMMA CallsDef ==
  /\ Calls = [p \in Procs |-> CallOf(h[p])]
  /\ Calls' = [p \in Procs |-> CallOf(h'[p])]
  BY DEF Calls, CallOf, Phase, Locked, Restarting

\* Records that differ in the tags still to visit are the same call.
LEMMA SameCall ==
  ASSUME NEW n, NEW l, Same(n, l)
  PROVE  CallOf(n) = CallOf(l)
  BY DEF CallOf, Phase, Same

\* A step that changes no call.
LEMMA CallsKept ==
  ASSUME \A q \in Procs : CallOf(h'[q]) = CallOf(h[q])
  PROVE  Calls' = Calls
  BY CallsDef

\* A step that changes what has become of one call.
LEMMA CallBecomes ==
  ASSUME NEW p \in Procs, NEW x,
         CallOf(h[p]).cfg = CallOf(h'[p]).cfg, CallOf(h'[p]).state = x,
         \A q \in Procs \ {p} : Same(h'[q], h[q])
  PROVE  Calls' = [Calls EXCEPT ![p].state = x]
<1>1. \A q \in Procs \ {p} : CallOf(h'[q]) = CallOf(h[q])
  BY SameCall
<1>2. CallOf(h'[p]) = [CallOf(h[p]) EXCEPT !.state = x]
  BY DEF CallOf
<1> QED BY <1>1, <1>2, CallsDef

\* The record of one that is at work on a start.
LEMMA AtWork ==
  ASSUME HandlerType, NEW p \in Procs, h[p].pc \in Locked \cup {"iface"}
  PROVE  /\ h[p].cfg \in Configs /\ h[p].cfg # None
         /\ Calls[p].state = Phase(h[p]) /\ Calls[p].cfg = h[p].cfg
<1>1. h[p].cfg \in Configs /\ h[p].cfg # None
  BY NoneAssumption DEF HandlerType, Handlers, IsSet
<1> QED BY <1>1, CallsDef DEF CallOf

\* Going on with a start.
LEMMA MovedCall ==
  ASSUME HandlerType, NEW p \in Procs, NEW x \in Locked,
         h[p].pc \in Locked \cup {"iface"}, MovesTo(p, x)
  PROVE  Calls' = [Calls EXCEPT ![p].state =
                     IF x \in Restarting THEN "replaced" ELSE "admitted"]
<1>1. h[p].cfg # None /\ h'[p].cfg = h[p].cfg /\ h'[p].pc = x
  BY AtWork DEF MovesTo
<1>2. x # "iface"
  BY DEF Locked, Restarting
<1>3. Phase(h'[p]) = IF x \in Restarting THEN "replaced" ELSE "admitted"
  BY <1>1, <1>2 DEF Phase
<1> QED BY <1>1, <1>3, CallBecomes DEF CallOf, MovesTo

\* Answering a start.
LEMMA AnsweredCall ==
  ASSUME HandlerType, NEW p \in Procs, h[p].pc \in Locked \cup {"iface"},
         NEW r \in {"none", "ok", "fail", "busy", "uptodate", "started"},
         Goto(p, Done(h[p], r))
  PROVE  Calls' = [Calls EXCEPT ![p].state = r]
<1>1. /\ Done(h[p], r) \in Handlers /\ Done(h[p], r).pc = "done"
      /\ Done(h[p], r).reply = r /\ Done(h[p], r).cfg = h[p].cfg
  BY DoneType DEF HandlerType, Continues
<1>2. h'[p] = Done(h[p], r) /\ \A q \in Procs \ {p} : Same(h'[q], h[q])
  BY <1>1, GotoType
<1>3. h[p].cfg # None
  BY AtWork
<1>4. Phase(h'[p]) = r
  BY <1>1, <1>2 DEF Phase, Locked, Restarting
<1> QED BY <1>1, <1>2, <1>3, <1>4, CallBecomes DEF CallOf

\* A step of a handler that is at no start changes no call.
LEMMA ElsewhereCalls ==
  ASSUME OnlyStarts, NEW p \in Procs, Elsewhere(p),
         \A q \in Procs \ {p} : Same(h'[q], h[q])
  PROVE  Calls' = Calls
<1>1. h[p].cfg = None /\ h'[p].cfg = None
  BY DEF OnlyStarts, Elsewhere
<1>2. \A q \in Procs : CallOf(h'[q]) = CallOf(h[q])
  BY <1>1, SameCall DEF CallOf
<1> QED BY <1>2, CallsKept

\* The core of the contract is unchanged when the core's part is.
LEMMA RunningKept ==
  /\ UNCHANGED <<core, coreBase, served>> => Running' = Running
  /\ CoreGone => Running' = Control!Down
  BY DEF Running, CoreGone, Control!Down

\* Somebody is at work on a start exactly while the lock is taken.
LEMMA BusyLock ==
  ASSUME HandlerType, StartExclusive
  PROVE  Control!Busy <=> starting
<1>1. ASSUME NEW q \in Procs, h[q].pc \in Locked
      PROVE  Calls[q].state \in Control!Turn
  <2>1. Calls[q].state = Phase(h[q]) /\ h[q].pc # "iface"
    <3>1. "iface" \notin Locked
      BY DEF Locked, Restarting
    <3> QED BY <1>1, <3>1, AtWork
  <2> QED BY <1>1, <2>1 DEF Phase, Control!Turn
<1>2. ASSUME NEW q \in Procs, Calls[q].state \in Control!Turn
      PROVE  h[q].pc \in Locked
  <2>1. h[q].reply \notin Control!Turn
    BY DEF HandlerType, Handlers, Records, Control!Turn
  <2>2. CallOf(h[q]).state \in Control!Turn
    BY <1>2, CallsDef
  <2>3. Phase(h[q]) \in Control!Turn
    BY <2>2 DEF CallOf, Control!Turn
  <2> QED BY <2>1, <2>3 DEF Phase, Control!Turn, Locked
<1>3. (\E q \in Procs : h[q].pc \in Locked) <=> Control!Busy
  BY <1>1, <1>2, Zenon DEF Control!Busy
<1> QED BY <1>3, Zenon DEF StartExclusive
-----------------------------------------------------------------------------
(* Each action, as a step of the contract.                                 *)

\* A request of another kind is no step.
LEMMA QuietStep ==
  ASSUME Refines, NEW p \in Procs, Quiet(p), Elsewhere(p)
  PROVE  UNCHANGED Control!vars
<1>1. Calls' = Calls
  BY ElsewhereCalls DEF Refines, Quiet
<1>2. config' = config /\ Running' = Running
  BY RunningKept DEF Quiet
<1> QED BY <1>1, <1>2 DEF Control!vars

\* A request to start arrives.
LEMMA AskStep ==
  ASSUME Refines, NEW p \in Procs, BeginStart(p)
  PROVE  Control!Ask(p)
<1>1. PICK base \in Bases, tags \in SUBSET Tags \ {{}},
           users \in [Tags -> SUBSET {Current(u) : u \in Users}] :
        /\ h[p].pc = "idle"
        /\ Goto(p, [Idle EXCEPT !.op = "start", !.pc = "iface",
                      !.cfg = [base |-> base, tags |-> tags, users |-> users]])
        /\ UNCHANGED <<agentVars, mirrorVars, coreVars, cur>>
  BY DEF BeginStart, MayBegin
<1> DEFINE c == [base |-> base, tags |-> tags, users |-> users]
           n == [Idle EXCEPT !.op = "start", !.pc = "iface", !.cfg = c]
<1>2. c \in Configs
  <2>1. {Current(u) : u \in Users} \in SUBSET Creds
    BY CredTypes DEF Refines, TypeOK
  <2>2. users \in [Tags -> SUBSET Creds]
    BY <2>1
  <2> QED BY <2>2 DEF Configs
<1> HIDE DEF c
<1>3. n \in Handlers /\ n.pc = "iface" /\ n.cfg = c
  BY <1>2 DEF Idle, Handlers, Records, IsSet, Ops, Pcs, InLoop, Locked, Restarting
<1>4. Goto(p, n)
  BY <1>1 DEF c
<1> HIDE DEF n
<1>5. h'[p] = n /\ \A q \in Procs \ {p} : Same(h'[q], h[q])
  BY <1>3, <1>4, GotoType DEF Refines, TypeOK
<1>6. c # None
  BY <1>2, NoneAssumption
<1>7. CallOf(h'[p]) = [state |-> "asked", cfg |-> c]
  BY <1>3, <1>5, <1>6 DEF CallOf, Phase
<1>8. Calls[p] = Control!NoCall
  BY <1>1, CallsDef DEF CallOf, Control!NoCall, Refines, OnlyStarts, Locked, Restarting
<1>9. Calls' = [Calls EXCEPT ![p] = [state |-> "asked", cfg |-> c]]
  BY <1>5, <1>7, SameCall, CallsDef
<1>10. UNCHANGED <<config, Running>>
  BY <1>1, RunningKept DEF mirrorVars, coreVars
<1>11. Calls'[p].state = "asked"
  BY <1>8, <1>9, CallsDef
<1> QED BY <1>2, <1>8, <1>9, <1>10, <1>11 DEF Control!Ask

\* The lock and the flags decide about a start that begins.
LEMMA EnterStep ==
  ASSUME Refines, NEW p \in Procs, StartEnter(p)
  PROVE  Control!Refuse(p) \/ Control!Admit(p) \/ Control!Replace(p)
<1>1. h[p].pc = "iface" /\ UNCHANGED coreVars
  BY DEF StartEnter
<1>2. /\ HandlerType /\ StartExclusive
      /\ Calls[p].state = "asked" /\ Calls[p].cfg = h[p].cfg
  <2>1. HandlerType /\ StartExclusive
    BY DEF Refines, TypeOK, Isolation
  <2> QED BY <1>1, <2>1, AtWork DEF Phase
<1>3. Running' = Running
  BY <1>1, RunningKept DEF coreVars
<1>4. CASE Goto(p, Done(h[p], "busy")) /\ starting /\ UNCHANGED <<starting, mirrorVars>>
  <2>1. Calls' = [Calls EXCEPT ![p].state = "busy"]
    BY <1>1, <1>2, <1>4, AnsweredCall
  <2> QED BY <1>2, <1>3, <1>4, <2>1, BusyLock
        DEF Control!Refuse, Control!Becomes, mirrorVars
<1>5. CASE ~starting /\ Goto(p, [h[p] EXCEPT !.pc = "stats"]) /\ UNCHANGED mirrorVars
  <2>1. MovesTo(p, "stats")
    BY <1>1, <1>2, <1>5, StartMove DEF Locked
  <2>2. Calls' = [Calls EXCEPT ![p].state = "admitted"]
    BY <1>1, <1>2, <2>1, MovedCall DEF Locked, Restarting
  <2> QED BY <1>2, <1>3, <1>5, <2>2, BusyLock
        DEF Control!Admit, Control!Becomes, mirrorVars
<1>6. CASE ~starting /\ Extract(p)
  <2>1. MovesTo(p, "down") /\ config' = h[p].cfg
    BY <1>1, <1>2, <1>6, ExtractType
  <2>2. Calls' = [Calls EXCEPT ![p].state = "replaced"]
    BY <1>1, <1>2, <2>1, MovedCall DEF Locked, Restarting
  <2> QED BY <1>2, <1>3, <1>6, <2>1, <2>2, BusyLock
        DEF Control!Replace, Control!Becomes
<1> QED BY <1>4, <1>5, <1>6, Zenon DEF StartEnter

\* The hashes, or a core that does not answer, decide about one admitted.
LEMMA CheckStep ==
  ASSUME Refines, NEW p \in Procs, StartCheck(p) \/ StartUnhealthy(p)
  PROVE  Control!Skip(p) \/ Control!Replace(p)
<1>1. h[p].pc \in {"healthy", "unhealthy"} /\ UNCHANGED coreVars
  BY DEF StartCheck, StartUnhealthy
<1>2. HandlerType /\ h[p].pc \in Locked \ Restarting
  BY <1>1 DEF Refines, TypeOK, Locked, Restarting
<1>3. Calls[p].state = "admitted" /\ Calls[p].cfg = h[p].cfg
  BY <1>1, <1>2, AtWork DEF Phase
<1>4. Running' = Running
  BY <1>1, RunningKept DEF coreVars
<1>5. CASE Extract(p)
  <2>1. MovesTo(p, "down") /\ config' = h[p].cfg
    BY <1>1, <1>2, <1>5, ExtractType
  <2>2. Calls' = [Calls EXCEPT ![p].state = "replaced"]
    BY <1>2, <2>1, MovedCall DEF Locked, Restarting
  <2> QED BY <1>3, <1>4, <2>1, <2>2 DEF Control!Replace, Control!Becomes
<1>6. CASE ~NeedRestart(h[p].cfg) /\ Goto(p, Done(h[p], "uptodate")) /\ UNCHANGED mirrorVars
  <2>1. Calls' = [Calls EXCEPT ![p].state = "uptodate"]
    BY <1>2, <1>6, AnsweredCall
  <2>2. config # None /\ config.base = h[p].cfg.base /\ config' = config
    BY <1>6 DEF NeedRestart, mirrorVars
  <2> QED BY <1>3, <1>4, <2>1, <2>2 DEF Control!Skip, Control!Becomes
<1> QED BY <1>5, <1>6, Zenon DEF StartCheck, StartUnhealthy

\* The call of one that has replaced the configuration.
LEMMA ReplacedCall ==
  ASSUME HandlerType, NEW p \in Procs, h[p].pc \in Restarting
  PROVE  /\ h[p].pc \in Locked
         /\ Calls[p].state = "replaced" /\ Calls[p].cfg = h[p].cfg
<1>1. h[p].pc \in Locked /\ h[p].pc # "iface"
  BY DEF Locked, Restarting
<1> QED BY <1>1, AtWork DEF Phase

\* A move that only goes on with a restart changes no call.
LEMMA RestartGoesOn ==
  ASSUME HandlerType, NEW p \in Procs, h[p].pc \in Restarting,
         NEW x \in Restarting, MovesTo(p, x)
  PROVE  Calls' = Calls
<1>1. x \in Locked
  BY DEF Locked
<1>2. Calls[p] = CallOf(h[p]) /\ h[p].cfg # None /\ "iface" \notin Restarting
  BY ReplacedCall, AtWork, CallsDef DEF Restarting
<1>3. CallOf(h'[p]) = CallOf(h[p])
  BY <1>2 DEF CallOf, Phase, MovesTo
<1>4. \A q \in Procs : CallOf(h'[q]) = CallOf(h[q])
  BY <1>3, SameCall DEF MovesTo
<1> QED BY <1>4, CallsKept

\* A restart fails, with the core as it was, gone, or about to boot.
LEMMA FailStep ==
  ASSUME Refines, NEW p \in Procs, h[p].pc \in Restarting, StartFailed(p),
         Running' \in {Running, Control!Down, Control!Boot}
  PROVE  Control!Fail(p)
<1>1. HandlerType
  BY DEF Refines, TypeOK
<1>2. Calls' = [Calls EXCEPT ![p].state = "fail"]
  BY <1>1, ReplacedCall, AnsweredCall DEF StartFailed
<1>3. Calls[p].state = "replaced" /\ config' = config
  BY <1>1, ReplacedCall DEF StartFailed, mirrorVars
<1> QED BY <1>2, <1>3 DEF Control!Fail, Control!Becomes

\* The first s6-svc ends the core, or the start, or both.
LEMMA DownStep ==
  ASSUME Refines, NEW p \in Procs, StartDown(p)
  PROVE  Control!Die \/ Control!Fail(p)
<1>1. h[p].pc = "down" /\ h[p].pc \in Restarting /\ HandlerType
  BY DEF StartDown, Restarting, Refines, TypeOK
<1>2. CASE CoreGone /\ Goto(p, [h[p] EXCEPT !.pc = "up"]) /\ UNCHANGED mirrorVars
  <2>1. MovesTo(p, "up")
    BY <1>1, <1>2, StartMove DEF Locked, Restarting
  <2>2. Calls' = Calls
    BY <1>1, <2>1, RestartGoesOn DEF Restarting
  <2> QED BY <1>2, <2>2, RunningKept DEF Control!Die, mirrorVars
<1>3. CASE (CoreGone \/ UNCHANGED coreVars) /\ StartFailed(p)
  <2>1. Running' \in {Running, Control!Down, Control!Boot}
    BY <1>3, RunningKept DEF coreVars
  <2> QED BY <1>1, <1>3, <2>1, FailStep
<1> QED BY <1>2, <1>3, Zenon DEF StartDown

\* The second s6-svc lets a core boot, or fails.
LEMMA UpStep ==
  ASSUME Refines, NEW p \in Procs, StartUp(p)
  PROVE  Control!Spawn \/ Control!Fail(p)
<1>1. h[p].pc = "up" /\ h[p].pc \in Restarting /\ HandlerType
  BY DEF StartUp, Restarting, Refines, TypeOK
<1>2. CASE core' = "boot" /\ Goto(p, [h[p] EXCEPT !.pc = "ready"]) /\ UNCHANGED mirrorVars
  <2>1. MovesTo(p, "ready")
    BY <1>1, <1>2, StartMove DEF Locked, Restarting
  <2>2. Calls' = Calls /\ Calls[p].state = "replaced"
    BY <1>1, <2>1, RestartGoesOn, ReplacedCall DEF Restarting
  <2>3. Running' = Control!Boot
    BY <1>2 DEF Running, Control!Boot
  <2> QED BY <1>2, <2>2, <2>3 DEF Control!Spawn, mirrorVars
<1>3. CASE /\ core' \in {core, "boot"} /\ StartFailed(p)
           /\ UNCHANGED <<coreBase, table, served>>
  <2>1. core' = core => Running' = Running
    BY <1>3, RunningKept
  <2>2. core' = "boot" => Running' = Control!Boot
    BY DEF Running, Control!Boot
  <2>3. Running' \in {Running, Control!Down, Control!Boot}
    BY <1>3, <2>1, <2>2
  <2> QED BY <1>1, <1>3, <2>3, FailStep
<1> QED BY <1>2, <1>3, Zenon DEF StartUp

\* What getSysStats answers is no step.
LEMMA StatsStep ==
  ASSUME Refines, NEW p \in Procs, CoreStats(p)
  PROVE  UNCHANGED Control!vars
<1>1. HandlerType /\ UNCHANGED <<config, core, coreBase, served>>
  BY CoreStatsType DEF Refines, TypeOK
<1>2. CASE h[p].pc = "stats"
           /\ (MovesTo(p, "healthy") \/ MovesTo(p, "unhealthy"))
  <2>1. CallOf(h'[p]) = CallOf(h[p])
    BY <1>2 DEF CallOf, Phase, MovesTo, Locked, Restarting
  <2>2. \A q \in Procs : CallOf(h'[q]) = CallOf(h[q])
    BY <1>2, <2>1, SameCall DEF MovesTo
  <2> QED BY <1>1, <2>2, CallsKept, RunningKept DEF Control!vars
<1>3. CASE h[p].pc = "ready"
           /\ (MovesTo(p, "answered") \/ MovesTo(p, "silent"))
  <2>1. Calls' = Calls
    BY <1>1, <1>3, RestartGoesOn DEF Restarting
  <2> QED BY <1>1, <2>1, RunningKept DEF Control!vars
<1> QED BY <1>2, <1>3, CoreStatsType DEF Refines

\* A start that saw its core answer succeeds with the core it asked for.
LEMMA EndStep ==
  ASSUME Refines, NEW p \in Procs,
         StartEnd(p) \/ StartNotReady(p) \/ StartDumped(p)
  PROVE  Control!Succeed(p) \/ Control!Fail(p) \/ UNCHANGED Control!vars
<1>1. HandlerType
  BY DEF Refines, TypeOK
<1>2. CASE StartEnd(p)
  <2>1. /\ h[p].pc = "answered" /\ Goto(p, Done(h[p], "started"))
        /\ UNCHANGED <<mirrorVars, coreVars>>
    BY <1>2 DEF StartEnd
  <2>2. h[p].pc \in Restarting
    BY <2>1 DEF Restarting
  <2>3. Calls' = [Calls EXCEPT ![p].state = "started"]
    BY <1>1, <2>1, <2>2, ReplacedCall, AnsweredCall
  <2>4. Calls[p].state = "replaced" /\ Calls[p].cfg = h[p].cfg
    BY <1>1, <2>2, ReplacedCall
  <2>5. /\ core \in {"down", "up"}
        /\ core = "up" => coreBase = h[p].cfg.base /\ served = h[p].cfg.tags
    BY <2>1 DEF Refines, TypeOK, CoreType, AnsweredUp, Isolation, StartedIsOwn
  <2>6. Running \in {Control!Down, Control!Image(h[p].cfg)}
    BY <2>5 DEF Running, Control!Down, Control!Image
  <2>7. UNCHANGED <<config, Running>>
    BY <2>1, RunningKept DEF mirrorVars, coreVars
  <2> QED BY <2>3, <2>4, <2>6, <2>7 DEF Control!Succeed, Control!Becomes
<1>3. CASE StartNotReady(p)
  <2>1. /\ h[p].pc = "silent" /\ Goto(p, [h[p] EXCEPT !.pc = "dump"])
        /\ UNCHANGED <<mirrorVars, coreVars>>
    BY <1>3 DEF StartNotReady
  <2>2. MovesTo(p, "dump")
    BY <1>1, <2>1, StartMove DEF Locked, Restarting
  <2>3. Calls' = Calls
    BY <1>1, <2>1, <2>2, RestartGoesOn DEF Restarting
  <2> QED BY <2>1, <2>3, RunningKept DEF Control!vars, mirrorVars, coreVars
<1>4. CASE StartDumped(p)
  <2>1. h[p].pc = "dump" /\ StartFailed(p) /\ UNCHANGED coreVars
    BY <1>4 DEF StartDumped
  <2>2. h[p].pc \in Restarting
    BY <2>1 DEF Restarting
  <2> QED BY <2>1, <2>2, RunningKept, FailStep DEF coreVars
<1> QED BY <1>2, <1>3, <1>4

\* stopXray ends the core, then clears the configuration.
LEMMA StopStep ==
  ASSUME Refines, NEW p \in Procs, StopKill(p) \/ StopEnd(p)
  PROVE  Control!Die \/ Control!Clear \/ UNCHANGED Control!vars
<1>1. Calls' = Calls
  BY StopType, ElsewhereCalls DEF Refines
<1>2. CASE StopKill(p)
  <2>1. (CoreGone \/ UNCHANGED coreVars) /\ config' = config
    BY <1>2 DEF StopKill, mirrorVars
  <2> QED BY <1>1, <2>1, RunningKept DEF Control!Die, Control!vars, coreVars
<1>3. CASE StopEnd(p)
  <2>1. config' = None /\ UNCHANGED coreVars
    BY <1>3 DEF StopEnd
  <2> QED BY <1>1, <2>1, RunningKept DEF Control!Clear, coreVars
<1> QED BY <1>2, <1>3

\* The core boots with what it fetches, or dies.
LEMMA CoreStep ==
  ASSUME Refines, CoreBoot \/ CoreCrash
  PROVE  Control!Fetch \/ Control!Die
<1>1. UNCHANGED <<mirrorVars, h>>
  BY DEF CoreBoot, CoreCrash
<1>2. Calls' = Calls /\ config' = config
  BY <1>1, CallsDef DEF mirrorVars
<1>3. CASE CoreGone
  BY <1>2, <1>3, RunningKept DEF Control!Die
<1>4. CASE /\ core = "boot" /\ config # None /\ core' = "up"
           /\ coreBase' = config.base /\ served' = config.tags
  <2>1. Running = Control!Boot /\ Running' = Control!Image(config)
    BY <1>4 DEF Running, Control!Boot, Control!Image
  <2> QED BY <1>2, <1>4, <2>1 DEF Control!Fetch
<1> QED BY <1>3, <1>4 DEF CoreBoot, CoreCrash

\* Sending the answer forgets the call, if it was a start's.
LEMMA ForgetStep ==
  ASSUME Refines, NEW p \in Procs, Return(p)
  PROVE  Control!Forget(p) \/ UNCHANGED Control!vars
<1>1. /\ h[p].pc = "done" /\ Goto(p, Idle)
      /\ UNCHANGED <<mirrorVars, coreVars>> /\ HandlerType
  BY DEF Return, Refines, TypeOK
<1>2. h'[p] = Idle /\ \A q \in Procs \ {p} : Same(h'[q], h[q])
  BY <1>1, IdleType, GotoType
<1>3. CallOf(h'[p]) = Control!NoCall
  BY <1>2 DEF CallOf, Idle, Control!NoCall
<1>4. UNCHANGED <<config, Running>>
  BY <1>1, RunningKept DEF mirrorVars, coreVars
<1>5. CASE h[p].cfg = None
  <2>1. \A q \in Procs : CallOf(h'[q]) = CallOf(h[q])
    BY <1>2, <1>3, <1>5, SameCall DEF CallOf, Control!NoCall
  <2> QED BY <1>4, <2>1, CallsKept DEF Control!vars
<1>6. CASE h[p].cfg # None
  <2>1. Calls[p].state = h[p].reply
    BY <1>1, <1>6, CallsDef DEF CallOf, Phase, Locked, Restarting
  <2>2. h[p].reply \notin {"asked"} \cup Control!Turn
    BY <1>1 DEF HandlerType, Handlers, Records, Control!Turn
  <2>3. Calls' = [Calls EXCEPT ![p] = Control!NoCall]
    BY <1>2, <1>3, SameCall, CallsDef
  <2> QED BY <1>4, <2>1, <2>2, <2>3 DEF Control!Forget
<1> QED BY <1>5, <1>6

-----------------------------------------------------------------------------
(* The invariant, and the theorem.                                         *)

\* Who moves on with a start, or has no configuration, keeps OnlyStarts; a core
\* that is not started behind an answer keeps AnsweredUp.
LEMMA StartsKept ==
  ASSUME OnlyStarts, AnsweredUp, NEW p \in Procs,
         \A q \in Procs \ {p} : Same(h'[q], h[q]),
         h'[p].cfg = None \/ h'[p].pc \in Locked \cup {"iface", "done"},
         core' = "boot" => core = "boot",
         h'[p].pc = "answered" => core' # "boot"
  PROVE  OnlyStarts' /\ AnsweredUp'
<1>1. OnlyStarts'
  BY DEF OnlyStarts, Same
<1>2. AnsweredUp'
  BY DEF AnsweredUp, Same
<1> QED BY <1>1, <1>2

\* So does a step of a handler that is at no start.
LEMMA ElsewhereKept ==
  ASSUME OnlyStarts, AnsweredUp, NEW p \in Procs, Elsewhere(p),
         h'[p].pc \notin Locked, core' = "boot" => core = "boot",
         \A q \in Procs \ {p} : Same(h'[q], h[q])
  PROVE  OnlyStarts' /\ AnsweredUp'
<1>1. h'[p].cfg = None
  BY DEF OnlyStarts, Elsewhere
<1>2. h'[p].pc # "answered"
  BY DEF Locked, Restarting
<1> QED BY <1>1, <1>2, StartsKept

\* The steps of startXray keep both.
LEMMA StartKeeps ==
  ASSUME Refines, NEW p \in Procs,
         \/ StartEnter(p) \/ StartCheck(p) \/ StartUnhealthy(p)
         \/ StartDown(p) \/ StartEnd(p) \/ StartNotReady(p) \/ StartDumped(p)
  PROVE  OnlyStarts' /\ AnsweredUp'
<1> DEFINE S == {"stats", "down", "up", "dump", "done"}
<1>0. TypeOK /\ OnlyStarts /\ AnsweredUp
  BY DEF Refines
<1>1. ASSUME NEW x \in S, MovesTo(p, x), core' = "boot" => core = "boot"
      PROVE  OnlyStarts' /\ AnsweredUp'
  <2>1. x \in Locked \cup {"iface", "done"} /\ x # "answered"
    BY DEF Locked, Restarting
  <2> QED BY <1>0, <1>1, <2>1, StartsKept DEF MovesTo
<1>2. CASE StartEnter(p)
  <2>1. CASE Goto(p, Done(h[p], "busy")) /\ UNCHANGED coreVars
    <3>1. MovesTo(p, "done")
      BY <1>0, <2>1, DoneMove DEF TypeOK
    <3> QED BY <1>1, <2>1, <3>1 DEF coreVars
  <2>2. CASE (MovesTo(p, "stats") \/ MovesTo(p, "down")) /\ UNCHANGED coreVars
    BY <1>1, <2>2 DEF coreVars
  <2>3. /\ h[p].pc = "iface" /\ UNCHANGED coreVars
        /\ \/ Goto(p, Done(h[p], "busy"))
           \/ Goto(p, [h[p] EXCEPT !.pc = "stats"])
           \/ Extract(p)
    BY <1>2 DEF StartEnter
  <2>4. ASSUME Goto(p, [h[p] EXCEPT !.pc = "stats"]) PROVE MovesTo(p, "stats")
    BY <1>0, <2>3, <2>4, StartMove DEF TypeOK, Locked
  <2>5. ASSUME Extract(p) PROVE MovesTo(p, "down")
    BY <1>0, <2>3, <2>5, ExtractType DEF TypeOK
  <2> QED BY <2>1, <2>2, <2>3, <2>4, <2>5
<1>3. CASE StartCheck(p) \/ StartUnhealthy(p)
  <2>1. UNCHANGED coreVars /\ (MovesTo(p, "down") \/ MovesTo(p, "done"))
    BY <1>0, <1>3, StartCheckType
  <2> QED BY <1>1, <2>1 DEF coreVars
<1>4. CASE StartDown(p)
  <2>1. MovesTo(p, "up") \/ MovesTo(p, "done")
    BY <1>0, <1>4, StartDownType
  <2>2. core' = "boot" => core = "boot"
    BY <1>4 DEF StartDown, CoreGone, coreVars
  <2> QED BY <1>1, <2>1, <2>2
<1>5. CASE StartEnd(p) \/ StartNotReady(p) \/ StartDumped(p)
  <2>1. UNCHANGED coreVars /\ (MovesTo(p, "dump") \/ MovesTo(p, "done"))
    BY <1>0, <1>5, StartEndType
  <2> QED BY <1>1, <2>1 DEF coreVars
<1> QED BY <1>2, <1>3, <1>4, <1>5

\* A core that is started is started by the only one at work on a start.
LEMMA UpKeeps ==
  ASSUME Refines, NEW p \in Procs, StartUp(p)
  PROVE  OnlyStarts' /\ AnsweredUp'
<1>1. h[p].pc = "up" /\ (MovesTo(p, "ready") \/ MovesTo(p, "done"))
  BY StartUpType DEF Refines
<1>2. \A q \in Procs \ {p} : h[q].pc # "answered"
  BY <1>1 DEF Refines, Isolation, StartExclusive, Locked, Restarting
<1>3. OnlyStarts'
  BY <1>1 DEF Refines, OnlyStarts, MovesTo, Same, Locked, Restarting
<1>4. AnsweredUp'
  BY <1>1, <1>2 DEF AnsweredUp, MovesTo, Same
<1> QED BY <1>3, <1>4

\* What getSysStats answers keeps both: a core that answers is up.
LEMMA StatsKeeps ==
  ASSUME Refines, NEW p \in Procs, CoreStats(p)
  PROVE  OnlyStarts' /\ AnsweredUp'
<1>1. /\ core' = core
      /\ \/ MovesTo(p, "healthy") \/ MovesTo(p, "unhealthy")
         \/ MovesTo(p, "answered") \/ MovesTo(p, "silent")
  BY CoreStatsType DEF Refines
<1>2. h'[p].pc \in Locked
  BY <1>1 DEF MovesTo, Locked, Restarting
<1>3. CASE core # "boot"
  BY <1>1, <1>2, <1>3, StartsKept DEF Refines, MovesTo
<1>4. CASE core = "boot"
  <2>1. h[p] \in Handlers
    BY DEF Refines, TypeOK, HandlerType
  <2>2. h'[p].pc # "answered"
    <3>1. /\ h[p].pc \in {"stats", "ready"}
          /\ Goto(p, [h[p] EXCEPT !.pc =
                        IF @ = "stats" THEN "unhealthy" ELSE "silent"])
      BY <1>4 DEF CoreStats
    <3> DEFINE x == IF h[p].pc = "stats" THEN "unhealthy" ELSE "silent"
    <3>2. Goto(p, [h[p] EXCEPT !.pc = x])
      BY <3>1, <2>1 DEF Handlers, Records
    <3>3. x \in {"unhealthy", "silent"} /\ x \in Locked
      BY DEF Locked, Restarting
    <3> HIDE DEF x
    <3>4. h[p].pc \in Locked
      BY <3>1 DEF Locked, Restarting
    <3>5. MovesTo(p, x)
      BY <3>2, <3>3, <3>4, StartMove DEF Refines, TypeOK
    <3> QED BY <3>3, <3>5 DEF MovesTo
  <2> QED BY <1>1, <1>2, <2>2, StartsKept DEF Refines, MovesTo
<1> QED BY <1>3, <1>4

\* A step of a request: of the contract, or none, and within the invariant.
LEMMA ProcStep ==
  ASSUME Refines, NEW p \in Procs, Begin(p) \/ Handle(p)
  PROVE  [Control!Next]_(Control!vars) /\ OnlyStarts' /\ AnsweredUp'
<1>0. TypeOK /\ OnlyStarts /\ AnsweredUp
  BY DEF Refines
<1>1. CASE Quiet(p) /\ Elsewhere(p)
  <2>1. UNCHANGED Control!vars
    BY <1>1, QuietStep
  <2>2. OnlyStarts' /\ AnsweredUp'
    BY <1>0, <1>1, ElsewhereKept DEF Quiet
  <2> QED BY <2>1, <2>2
<1>2. CASE BeginStart(p)
  <2>1. Quiet(p) /\ h'[p].pc # "answered"
    BY <1>0, <1>2, BeginStartType DEF Quiet, Locked, Restarting
  <2>2. h'[p].pc = "iface"
    <3>1. PICK c : Goto(p, [Idle EXCEPT !.op = "start", !.pc = "iface", !.cfg = c])
      BY <1>2 DEF BeginStart
    <3> DEFINE n == [Idle EXCEPT !.op = "start", !.pc = "iface", !.cfg = c]
    <3>2. n.pc = "iface"
      BY DEF Idle
    <3>3. h'[p] = n
      BY <3>1 DEF Goto, Move
    <3> QED BY <3>2, <3>3
  <2>3. OnlyStarts' /\ AnsweredUp'
    BY <1>0, <2>1, <2>2, StartsKept DEF Quiet
  <2> QED BY <1>2, <2>3, AskStep DEF Control!Next
<1>3. CASE Return(p)
  <2>1. h'[p] = Idle /\ Quiet(p)
    BY <1>0, <1>3, ReturnType, IdleType, GotoType DEF Return, TypeOK
  <2>2. OnlyStarts' /\ AnsweredUp'
    BY <1>0, <2>1, StartsKept DEF Idle, Quiet
  <2> QED BY <1>3, <2>2, ForgetStep DEF Control!Next
<1>4. CASE StopKill(p) \/ StopEnd(p)
  <2>1. OnlyStarts' /\ AnsweredUp'
    BY <1>0, <1>4, StopType, ElsewhereKept DEF CoreGone, coreVars
  <2> QED BY <1>4, <2>1, StopStep DEF Control!Next
<1>5. CASE StartEnter(p)
  BY <1>5, EnterStep, StartKeeps DEF Control!Next
<1>6. CASE StartCheck(p) \/ StartUnhealthy(p)
  BY <1>6, CheckStep, StartKeeps DEF Control!Next
<1>7. CASE StartDown(p)
  BY <1>7, DownStep, StartKeeps DEF Control!Next
<1>8. CASE StartUp(p)
  BY <1>8, UpStep, UpKeeps DEF Control!Next
<1>9. CASE CoreStats(p)
  BY <1>9, StatsStep, StatsKeeps
<1>10. CASE StartEnd(p) \/ StartNotReady(p) \/ StartDumped(p)
  BY <1>10, EndStep, StartKeeps DEF Control!Next
<1>11. ASSUME \/ AddUser(p) \/ RevokeUser(p) \/ AddUsers(p)
              \/ RemoveUser(p) \/ RemoveUsers(p) \/ BeginStop(p)
              \/ AfterIps(p) \/ AfterRemove(p) \/ AfterAdd(p) \/ StopEnter(p)
              \/ CoreRemoves(p) \/ CoreAdds(p)
       PROVE  Quiet(p) /\ Elsewhere(p)
  BY <1>0, <1>11, AddsType, RemovesType, BeginStopType, LoopStepType,
     StopEnterType, CoreUsersType
<1> QED BY <1>1, <1>2, <1>3, <1>4, <1>5, <1>6, <1>7, <1>8, <1>9, <1>10, <1>11
        DEF Begin, Handle

\* The node implements the contract of starts, for any number of requests that
\* overlap, any users, inbounds, configurations and faults.
THEOREM NodeImplementsControl == Spec => StartsTakeTurns
<1>1. Init => Control!Init /\ OnlyStarts /\ AnsweredUp
  <2> SUFFICES ASSUME Init PROVE Control!Init /\ OnlyStarts /\ AnsweredUp
    OBVIOUS
  <2>1. \A p \in Procs : h[p] = Idle
    BY DEF Init
  <2>2. Calls = [p \in Procs |-> Control!NoCall]
    BY <2>1, CallsDef DEF CallOf, Idle, Control!NoCall
  <2>3. config = None /\ Running = Control!Down /\ core = "down"
    BY DEF Init, Running, Control!Down
  <2> QED BY <2>1, <2>2, <2>3 DEF Control!Init, OnlyStarts, AnsweredUp, Idle
<1>2. Refines /\ [Next]_vars =>
        [Control!Next]_(Control!vars) /\ OnlyStarts' /\ AnsweredUp'
  <2> SUFFICES ASSUME Refines, [Next]_vars
      PROVE [Control!Next]_(Control!vars) /\ OnlyStarts' /\ AnsweredUp'
    OBVIOUS
  <2>1. CASE UNCHANGED vars
    <3>1. UNCHANGED <<config, core, coreBase, served, h>>
      BY <2>1 DEF vars, mirrorVars, coreVars
    <3>2. Calls' = Calls /\ Running' = Running
      BY <3>1, CallsDef, RunningKept
    <3> QED BY <3>1, <3>2 DEF Control!vars, Refines, OnlyStarts, AnsweredUp
  <2>2. ASSUME NEW p \in Procs, Begin(p) \/ Handle(p)
        PROVE [Control!Next]_(Control!vars) /\ OnlyStarts' /\ AnsweredUp'
    BY <2>2, ProcStep
  <2>3. CASE CoreBoot \/ CoreCrash
    <3>1. h' = h /\ core' # "boot"
      BY <2>3 DEF CoreBoot, CoreCrash, CoreGone
    <3>2. OnlyStarts' /\ AnsweredUp'
      BY <3>1 DEF Refines, OnlyStarts, AnsweredUp
    <3> QED BY <2>3, <3>2, CoreStep DEF Control!Next
  <2> QED BY <2>1, <2>2, <2>3 DEF Next
<1>3. Spec => [](OnlyStarts /\ AnsweredUp)
  BY <1>1, <1>2, TypeCorrect, IsolationInvariant, PTL DEF Spec, Refines
<1>4. Spec => []Refines
  BY <1>3, TypeCorrect, IsolationInvariant, PTL DEF Refines
<1> QED BY <1>1, <1>2, <1>4, PTL DEF Spec, StartsTakeTurns, Control!Spec
=============================================================================

------------------------- MODULE PluginSync_proofs -------------------------
(* Proofs about PluginSync: types, that the hash is honest, and that the    *)
(* core has the blocker.                                                   *)
EXTENDS PluginSync, TLAPS

Filling == {"ingress", "egress", "ports"}

LEMMA FillingIsDomain == DOMAIN Empty = Filling
  BY DEF Empty, Filling

-----------------------------------------------------------------------------
(* What the steps of a request do to the requests.                         *)

HType == h \in [Procs -> [pc : Pcs, cfg : Configs \cup {None}, was : Blockers]]

LEMMA IdleType == Idle \in [pc : Pcs, cfg : Configs \cup {None}, was : Blockers]
  BY DEF Idle, Off, Pcs, Blockers

LEMMA BeginEffect ==
  ASSUME HType, NEW p \in Procs, NEW r, Begin(p, r)
  PROVE  /\ h[p] = Idle /\ h'[p] = r
         /\ \A q \in Procs \ {p} : h'[q] = h[q]
         /\ h' = [q \in Procs |-> IF q = p THEN r ELSE h[q]]
         /\ asked' = asked + 1
  BY DEF Begin, HType

LEMMA DoneEffect ==
  ASSUME HType, NEW p \in Procs, Done(p)
  PROVE  /\ h'[p] = Idle
         /\ \A q \in Procs \ {p} : h'[q] = h[q]
         /\ h' = [q \in Procs |-> IF q = p THEN Idle ELSE h[q]]
         /\ asked' = asked
  BY DEF Done, HType

LEMMA GotoEffect ==
  ASSUME HType, NEW p \in Procs, NEW pc, Goto(p, pc)
  PROVE  /\ h'[p] = [pc |-> pc, cfg |-> h[p].cfg, was |-> h[p].was]
         /\ h'[p].pc = pc
         /\ \A q \in Procs \ {p} : h'[q] = h[q]
         /\ h' = [q \in Procs |-> IF q = p THEN [pc |-> pc, cfg |-> h[p].cfg, was |-> h[p].was]
                                  ELSE h[q]]
         /\ asked' = asked
<1>1. h[p] = [pc |-> h[p].pc, cfg |-> h[p].cfg, was |-> h[p].was]
  BY DEF HType
<1>2. [h[p] EXCEPT !.pc = pc] = [pc |-> pc, cfg |-> h[p].cfg, was |-> h[p].was]
  BY <1>1
<1>3. h' = [h EXCEPT ![p] = [h[p] EXCEPT !.pc = pc]] /\ asked' = asked
  BY DEF Goto
<1> QED BY <1>2, <1>3 DEF HType

-----------------------------------------------------------------------------
(* Types.                                                                  *)

LEMMA ConfigType ==
  ASSUME NEW c \in Configs
  PROVE  /\ c \in ConfigRecords
         /\ RuleTags(c) \in SUBSET Tags /\ BlockerOf(c) \in Blockers
         /\ c # None
  BY ConfigsAssumption DEF ConfigRecords, RuleTags, BlockerOf, Blockers, Off

LEMMA OffType == Off \in Blockers
  BY DEF Off, Blockers

FilterRecords == [ingress : SUBSET Ips, egress : SUBSET Ips, ports : SUBSET Ports]

LEMMA EmptyType == Empty \in FilterRecords
  BY DEF Empty, FilterRecords

\* The requests of a step stay in their types: the one that moves gets a record
\* of its type, with a configuration where it needs one.
HasConfig == \A p \in Procs : h[p].pc \in {"create"} \cup Filling => h[p].cfg \in Configs

LEMMA TypeParts ==
  TypeOK <=> /\ HType /\ HasConfig
             /\ hash \in Configs \cup {None} /\ blocker \in Blockers
             /\ filters \in FilterRecords
             /\ starting \in BOOLEAN /\ online \in BOOLEAN /\ booting \in BOOLEAN
             /\ given \in Blockers \cup {None} /\ core \in Blockers \cup {None}
             /\ tainted \in BOOLEAN /\ stale \in BOOLEAN /\ behind \in BOOLEAN /\ asked \in Nat
  BY FillingIsDomain DEF TypeOK, HType, HasConfig, FilterRecords

LEMMA BeginType ==
  ASSUME HType, HasConfig, asked \in Nat, NEW p \in Procs, NEW r, Begin(p, r),
         r \in [pc : Pcs, cfg : Configs \cup {None}, was : Blockers],
         r.pc \in {"create"} \cup Filling => r.cfg \in Configs
  PROVE  HType' /\ HasConfig' /\ asked' \in Nat
<1>1. HType'
  BY BeginEffect DEF HType
<1>2. HasConfig'
  BY BeginEffect DEF HasConfig
<1> QED BY <1>1, <1>2, BeginEffect

LEMMA DoneType ==
  ASSUME HType, HasConfig, asked \in Nat, NEW p \in Procs, Done(p)
  PROVE  HType' /\ HasConfig' /\ asked' \in Nat
<1>1. HType'
  BY DoneEffect, IdleType DEF HType
<1>2. HasConfig'
  BY DoneEffect DEF HasConfig, Idle, Filling
<1> QED BY <1>1, <1>2, DoneEffect

LEMMA GotoType ==
  ASSUME HType, HasConfig, asked \in Nat, NEW p \in Procs, NEW pc \in Pcs, Goto(p, pc),
         pc \in {"create"} \cup Filling => h[p].cfg \in Configs
  PROVE  HType' /\ HasConfig' /\ asked' \in Nat
<1> DEFINE r == [pc |-> pc, cfg |-> h[p].cfg, was |-> h[p].was]
<1>3. r \in [pc : Pcs, cfg : Configs \cup {None}, was : Blockers]
  BY DEF HType
<1>4. h' = [q \in Procs |-> IF q = p THEN r ELSE h[q]] /\ r.pc = pc /\ r.cfg = h[p].cfg
  BY GotoEffect
<1> HIDE DEF r
<1>1. HType'
  BY <1>3, <1>4 DEF HType
<1>2. HasConfig'
  BY <1>4 DEF HasConfig
<1> QED BY <1>1, <1>2, GotoEffect

LEMMA StopIfOnlineType ==
  ASSUME HType, HasConfig, asked \in Nat, NEW p \in Procs, StopIfOnline(p)
  PROVE  HType' /\ HasConfig' /\ asked' \in Nat
<1>1. CASE online
  <2>1. Goto(p, "kill") BY <1>1 DEF StopIfOnline
  <2> QED BY <2>1, GotoType DEF Pcs, Filling
<1>2. CASE ~online
  <2>1. Done(p) BY <1>2 DEF StopIfOnline
  <2> QED BY <2>1, DoneType
<1> QED BY <1>1, <1>2

LEMMA InitType == Init => TypeOK
<1> SUFFICES ASSUME Init PROVE TypeOK
  OBVIOUS
<1>1. HType
  BY IdleType DEF Init, HType
<1>2. HasConfig
  BY DEF Init, HasConfig, Idle, Filling
<1>3. asked \in Nat
  BY DEF Init
<1> QED BY <1>1, <1>2, <1>3, TypeParts, OffType, EmptyType DEF Init

\* Everything but the requests
Rest ==
  /\ hash \in Configs \cup {None} /\ blocker \in Blockers /\ filters \in FilterRecords
  /\ starting \in BOOLEAN /\ online \in BOOLEAN /\ booting \in BOOLEAN
  /\ given \in Blockers \cup {None} /\ core \in Blockers \cup {None}
  /\ tainted \in BOOLEAN /\ stale \in BOOLEAN /\ behind \in BOOLEAN

Requests == HType /\ HasConfig /\ asked \in Nat

LEMMA SyncNothingType ==
  ASSUME Requests, Rest, NEW p \in Procs, SyncNothing(p)
  PROVE  Requests' /\ Rest'
<1>1. Begin(p, [Idle EXCEPT !.pc = "reset"])
  BY DEF SyncNothing
<1>2. /\ [Idle EXCEPT !.pc = "reset"] \in [pc : Pcs, cfg : Configs \cup {None}, was : Blockers]
      /\ [Idle EXCEPT !.pc = "reset"].pc \in {"create"} \cup Filling => [Idle EXCEPT !.pc = "reset"].cfg \in Configs
  BY IdleType DEF Filling, Pcs, Writing, Idle, Rest, Blockers
<1>3. Requests'
  BY <1>1, <1>2, BeginType DEF Requests
<1> QED BY <1>3, OffType, EmptyType DEF SyncNothing, Rest, pluginVars, coreVars, process, doubts, Doubt, ResetState, BeginsToWrite

LEMMA SyncType ==
  ASSUME Requests, Rest, NEW p \in Procs, NEW c \in Configs, Sync(p, c)
  PROVE  Requests' /\ Rest'
<1>1. Begin(p, [pc |-> "create", cfg |-> c, was |-> blocker])
  BY DEF Sync
<1>2. /\ [pc |-> "create", cfg |-> c, was |-> blocker] \in [pc : Pcs, cfg : Configs \cup {None}, was : Blockers]
      /\ [pc |-> "create", cfg |-> c, was |-> blocker].pc \in {"create"} \cup Filling => [pc |-> "create", cfg |-> c, was |-> blocker].cfg \in Configs
  BY IdleType, ConfigType DEF Filling, Pcs, Writing, Idle, Rest, Blockers
<1>3. Requests'
  BY <1>1, <1>2, BeginType DEF Requests
<1> QED BY <1>3, OffType, EmptyType DEF Sync, Rest, pluginVars, coreVars, process, doubts, Doubt, ResetState, BeginsToWrite

LEMMA ResetDoneType ==
  ASSUME Requests, Rest, NEW p \in Procs, ResetDone(p)
  PROVE  Requests' /\ Rest'
<1>1. StopIfOnline(p)
  BY DEF ResetDone
<1>3. Requests'
  BY <1>1, StopIfOnlineType DEF Requests
<1> QED BY <1>3, OffType, EmptyType DEF ResetDone, Rest, pluginVars, coreVars, process, doubts, Doubt

LEMMA CreateDoneType ==
  ASSUME Requests, Rest, NEW p \in Procs, CreateDone(p)
  PROVE  Requests' /\ Rest'
<1>1. Goto(p, "ingress") /\ "ingress" \in Pcs
  BY DEF CreateDone, Pcs, Writing
<1>2. "ingress" \in {"create"} \cup Filling => h[p].cfg \in Configs
  BY DEF CreateDone, Requests, HasConfig, Filling
<1>3. Requests'
  BY <1>1, <1>2, GotoType DEF Requests
<1>4. h[p].cfg \in Configs /\ h[p].cfg \in ConfigRecords
  BY ConfigType DEF CreateDone, Requests, HasConfig, Filling
<1>5. h[p].cfg.tags # Unset => h[p].cfg.tags \in SUBSET Tags
  BY <1>4 DEF ConfigRecords
<1> QED BY <1>3, OffType, EmptyType, <1>4, <1>5 DEF CreateDone, Rest, pluginVars, coreVars, process, doubts, Doubt, FilterRecords, ConfigRecords, Blockers

LEMMA IngressDoneType ==
  ASSUME Requests, Rest, NEW p \in Procs, IngressDone(p)
  PROVE  Requests' /\ Rest'
<1>1. Goto(p, "egress") /\ "egress" \in Pcs
  BY DEF IngressDone, Pcs, Writing
<1>2. "egress" \in {"create"} \cup Filling => h[p].cfg \in Configs
  BY DEF IngressDone, Requests, HasConfig, Filling
<1>3. Requests'
  BY <1>1, <1>2, GotoType DEF Requests
<1>4. h[p].cfg \in Configs /\ h[p].cfg \in ConfigRecords
  BY ConfigType DEF IngressDone, Requests, HasConfig, Filling
<1> QED BY <1>3, OffType, EmptyType, <1>4 DEF IngressDone, Rest, pluginVars, coreVars, process, doubts, Doubt, FilterRecords, ConfigRecords

LEMMA EgressDoneType ==
  ASSUME Requests, Rest, NEW p \in Procs, EgressDone(p)
  PROVE  Requests' /\ Rest'
<1>1. Goto(p, "ports") /\ "ports" \in Pcs
  BY DEF EgressDone, Pcs, Writing
<1>2. "ports" \in {"create"} \cup Filling => h[p].cfg \in Configs
  BY DEF EgressDone, Requests, HasConfig, Filling
<1>3. Requests'
  BY <1>1, <1>2, GotoType DEF Requests
<1>4. h[p].cfg \in Configs /\ h[p].cfg \in ConfigRecords
  BY ConfigType DEF EgressDone, Requests, HasConfig, Filling
<1> QED BY <1>3, OffType, EmptyType, <1>4 DEF EgressDone, Rest, pluginVars, coreVars, process, doubts, Doubt, FilterRecords, ConfigRecords

LEMMA PortsDoneType ==
  ASSUME Requests, Rest, NEW p \in Procs, PortsDone(p)
  PROVE  Requests' /\ Rest'
<1>1. Goto(p, "outbound") \/ StopIfOnline(p) \/ Done(p)
  BY DEF PortsDone
<1>3. Requests'
  <2>1. CASE Goto(p, "outbound")
    BY <2>1, GotoType DEF Requests, Pcs, Filling
  <2>2. CASE StopIfOnline(p)
    BY <2>2, StopIfOnlineType DEF Requests
  <2>3. CASE Done(p)
    BY <2>3, DoneType DEF Requests
  <2> QED BY <1>1, <2>1, <2>2, <2>3
<1>4. h[p].cfg \in Configs /\ h[p].cfg \in ConfigRecords
  BY ConfigType DEF PortsDone, Requests, HasConfig, Filling
<1> QED BY <1>3, OffType, EmptyType, <1>4 DEF PortsDone, Rest, pluginVars, coreVars, process, doubts, Doubt, FilterRecords, ConfigRecords

LEMMA StartEnterType ==
  ASSUME Requests, Rest, NEW p \in Procs, StartEnter(p)
  PROVE  Requests' /\ Rest'
<1>1. PICK pc \in {"down", "check"} : Begin(p, [Idle EXCEPT !.pc = pc])
  BY DEF StartEnter
<1>2. /\ [Idle EXCEPT !.pc = pc] \in [pc : Pcs, cfg : Configs \cup {None}, was : Blockers]
      /\ [Idle EXCEPT !.pc = pc].pc \notin {"create"} \cup Filling
  BY IdleType DEF Idle, Pcs, Restarting, Filling
<1>3. Requests'
  BY <1>1, <1>2, BeginType DEF Requests
<1> QED BY <1>3 DEF StartEnter, Capture, Rest, pluginVars, process

LEMMA StartCheckType ==
  ASSUME Requests, Rest, NEW p \in Procs, StartCheck(p)
  PROVE  Requests' /\ Rest'
<1>1. Requests'
  <2>1. CASE Done(p)
    BY <2>1, DoneType DEF Requests
  <2>2. CASE Goto(p, "down")
    BY <2>2, GotoType DEF Requests, Pcs, Restarting, Filling
  <2> QED BY <2>1, <2>2 DEF StartCheck
<1> QED BY <1>1 DEF StartCheck, Capture, Rest, pluginVars, process

\* A start or a stop goes on to where no configuration is needed.
Onward(p) ==
  \/ StartDown(p) \/ StartUp(p) \/ CoreAnswers(p) \/ CleanDone(p) \/ CleanFails(p) \/ Kill(p)

\* A request ends.
Ends(p) ==
  \/ OutboundGone(p) \/ OutboundFails(p) \/ SyncFails(p) \/ Restarted(p) \/ NotReady(p)
  \/ StartDownFails(p) \/ StartUpFails(p) \/ Killed(p)

LEMMA OnwardType ==
  ASSUME Requests, Rest, NEW p \in Procs, Onward(p)
  PROVE  Requests' /\ Rest'
<1>1. PICK pc \in {"up", "ready", "answered", "kill", "killed"} : Goto(p, pc)
  BY DEF Onward, StartDown, StartUp, CoreAnswers, CleanDone, CleanFails, Kill
<1>2. Requests'
  BY <1>1, GotoType DEF Requests, Pcs, Restarting, Filling
<1> QED BY <1>2, EmptyType DEF Onward, StartDown, StartUp, CoreAnswers, CleanDone, CleanFails,
           Kill, CoreGone, Rest, pluginVars, coreVars, process, doubts

LEMMA EndsType ==
  ASSUME Requests, Rest, NEW p \in Procs, Ends(p)
  PROVE  Requests' /\ Rest'
<1>1. Done(p)
  BY DEF Ends, OutboundGone, OutboundFails, SyncFails, Restarted, NotReady, StartDownFails,
         StartUpFails, Killed, GivenUp
<1>2. Requests'
  BY <1>1, DoneType DEF Requests
<1>3. hash' \in Configs \cup {None} /\ blocker' \in Blockers /\ filters' \in FilterRecords
  BY DEF Ends, OutboundGone, OutboundFails, SyncFails, Restarted, NotReady, StartDownFails,
         StartUpFails, Killed, Rest, pluginVars
<1>4. /\ starting' \in BOOLEAN /\ online' \in BOOLEAN /\ booting' \in BOOLEAN
      /\ given' \in Blockers \cup {None} /\ core' \in Blockers \cup {None}
      /\ tainted' \in BOOLEAN
  BY OffType DEF Ends, OutboundGone, OutboundFails, SyncFails, Restarted, NotReady,
         StartDownFails, StartUpFails, Killed, GivenUp, CoreGone, Rest, coreVars, process
<1>5. stale' \in BOOLEAN /\ behind' \in BOOLEAN
  BY DEF Ends, OutboundGone, OutboundFails, SyncFails, Restarted, NotReady,
         StartDownFails, StartUpFails, Killed, Doubt, Rest, doubts
<1> QED BY <1>2, <1>3, <1>4, <1>5 DEF Rest

LEMMA StopType ==
  ASSUME Requests, Rest, NEW p \in Procs, Stop(p)
  PROVE  Requests' /\ Rest'
<1>1. Begin(p, [Idle EXCEPT !.pc = "clean"])
  BY DEF Stop
<1>2. /\ [Idle EXCEPT !.pc = "clean"] \in [pc : Pcs, cfg : Configs \cup {None}, was : Blockers]
      /\ [Idle EXCEPT !.pc = "clean"].pc \in {"create"} \cup Filling => [Idle EXCEPT !.pc = "clean"].cfg \in Configs
  BY IdleType DEF Filling, Pcs, Writing, Idle, Rest, Blockers
<1>3. Requests'
  BY <1>1, <1>2, BeginType DEF Requests
<1> QED BY <1>3, OffType, EmptyType DEF Stop, Rest, pluginVars, coreVars, process, doubts, Doubt, ResetState, BeginsToWrite

LEMMA OthersType ==
  ASSUME Requests, Rest,
         RecreateTables \/ (\E i \in Ips : UnblockIp(i)) \/ AgentRestart \/ CoreBoot \/ CoreDies
  PROVE  Requests' /\ Rest'
<1>1. CASE RecreateTables
  BY <1>1, EmptyType DEF RecreateTables, Requests, HType, HasConfig, Rest, pluginVars, coreVars, process, doubts, Doubt
<1>2. CASE \E i \in Ips : UnblockIp(i)
  BY <1>2 DEF UnblockIp, Requests, HType, HasConfig, Rest, pluginVars, coreVars, process, doubts, Doubt, FilterRecords
<1>3. CASE AgentRestart
  <2>1. HType' /\ HasConfig'
    BY <1>3, IdleType DEF AgentRestart, HType, HasConfig, Idle, Filling
  <2>2. asked' \in Nat
    BY <1>3 DEF AgentRestart, Requests
  <2>3. Requests'
    BY <2>1, <2>2 DEF Requests
  <2>4. Rest'
    BY <1>3, EmptyType, OffType DEF AgentRestart, ResetState, Rest, process, doubts
  <2> QED BY <2>3, <2>4
<1>4. CASE CoreBoot \/ CoreDies
  BY <1>4 DEF CoreBoot, CoreDies, CoreGone, Requests, HType, HasConfig, Rest, pluginVars, doubts
<1> QED BY <1>1, <1>2, <1>3, <1>4

LEMMA StepType == TypeOK /\ [Next]_vars => TypeOK'
<1> SUFFICES ASSUME TypeOK, [Next]_vars PROVE TypeOK'
  OBVIOUS
<1>1. Requests /\ Rest
  BY TypeParts DEF Requests, Rest
<1>2. Requests' /\ Rest'
  <2>1. ASSUME NEW p \in Procs, NEW c \in Configs \ Rejected, Sync(p, c) PROVE Requests' /\ Rest'
    BY <1>1, <2>1, SyncType
  <2>2. ASSUME NEW p \in Procs, SyncNothing(p) PROVE Requests' /\ Rest'
    BY <1>1, <2>2, SyncNothingType
  <2>3. ASSUME NEW p \in Procs, ResetDone(p) PROVE Requests' /\ Rest'
    BY <1>1, <2>3, ResetDoneType
  <2>4. ASSUME NEW p \in Procs, CreateDone(p) PROVE Requests' /\ Rest'
    BY <1>1, <2>4, CreateDoneType
  <2>5. ASSUME NEW p \in Procs, IngressDone(p) PROVE Requests' /\ Rest'
    BY <1>1, <2>5, IngressDoneType
  <2>6. ASSUME NEW p \in Procs, EgressDone(p) PROVE Requests' /\ Rest'
    BY <1>1, <2>6, EgressDoneType
  <2>7. ASSUME NEW p \in Procs, PortsDone(p) PROVE Requests' /\ Rest'
    BY <1>1, <2>7, PortsDoneType
  <2>8. ASSUME NEW p \in Procs, StartEnter(p) PROVE Requests' /\ Rest'
    BY <1>1, <2>8, StartEnterType
  <2>9. ASSUME NEW p \in Procs, StartCheck(p) PROVE Requests' /\ Rest'
    BY <1>1, <2>9, StartCheckType
  <2>10. ASSUME NEW p \in Procs, Stop(p) PROVE Requests' /\ Rest'
    BY <1>1, <2>10, StopType
  <2>11. ASSUME NEW p \in Procs, Onward(p) PROVE Requests' /\ Rest'
    BY <1>1, <2>11, OnwardType
  <2>12. ASSUME NEW p \in Procs, Ends(p) PROVE Requests' /\ Rest'
    BY <1>1, <2>12, EndsType
  <2>13. CASE RecreateTables \/ (\E i \in Ips : UnblockIp(i)) \/ AgentRestart \/ CoreBoot \/ CoreDies
    BY <1>1, <2>13, OthersType
  <2>14. CASE UNCHANGED vars
    BY <1>1, <2>14 DEF vars, pluginVars, coreVars, process, doubts, Requests, HType, HasConfig, Rest
  <2> QED BY <2>1, <2>2, <2>3, <2>4, <2>5, <2>6, <2>7, <2>8, <2>9, <2>10, <2>11, <2>12, <2>13, <2>14
       DEF Next, Onward, Ends
<1> QED BY <1>2, FillingIsDomain DEF TypeOK, Requests, HType, HasConfig, Rest, FilterRecords

\* Every part of the state stays in its type, and a sync that is at work on the
\* table has a configuration.
THEOREM TypeCorrect == Spec => []TypeOK
<1> QED BY InitType, StepType, PTL DEF Spec

-----------------------------------------------------------------------------
(* The hash is honest: unless tainted, one request at most is at work on   *)
(* the table, there is no hash meanwhile, and the filters and the blocker  *)
(* are what that request has written so far.                               *)

Busy(p) == h[p].pc \in Writing
Alone == \A p, q \in Procs : Busy(p) /\ Busy(q) => p = q

Written(r) ==
  [ingress |-> IF r.pc = "ingress" THEN {} ELSE r.cfg.ingress,
   egress |-> IF r.pc = "ports" THEN r.cfg.egress ELSE {},
   ports |-> {}]

SoFar(p) ==
  /\ h[p].pc \in Writing => hash = None
  /\ h[p].pc \in {"reset", "clean", "create"} => blocker = Off
  /\ h[p].pc \in Filling => blocker = BlockerOf(h[p].cfg) /\ filters = Written(h[p])

Settled ==
  IF hash = None THEN filters = Empty /\ blocker = Off
  ELSE filters = FiltersOf(hash) /\ blocker = BlockerOf(hash)

HonestInv ==
  ~tainted => /\ Alone
              /\ \A p \in Procs : SoFar(p)
              /\ (\A p \in Procs : ~Busy(p)) => Settled

LEMMA WritersBusy == \A p \in Procs : p \in Writers <=> Busy(p)
  BY DEF Writers, Busy

\* A request that starts to write: it has the table to itself, or it is tainted.
LEMMA BeginHonest ==
  ASSUME HType, NEW p \in Procs, NEW r, Begin(p, r), BeginsToWrite, ResetState,
         r.pc \in {"reset", "clean", "create"}
  PROVE  HonestInv'
<1> SUFFICES ASSUME ~tainted'
             PROVE  Alone' /\ (\A q \in Procs : SoFar(q)') /\ ~(\A q \in Procs : ~Busy(q)')
  BY DEF HonestInv
<1>1. \A q \in Procs : ~Busy(q)
  BY DEF BeginsToWrite, Writers, Busy
<1>2. h'[p] = r /\ \A q \in Procs \ {p} : h'[q] = h[q]
  BY BeginEffect
<1>3. \A q \in Procs \ {p} : h'[q].pc \notin Writing
  BY <1>1, <1>2 DEF Busy
<1>4. h'[p].pc \in {"reset", "clean", "create"}
  BY <1>2
<1>5. Alone' /\ Busy(p)'
  BY <1>3, <1>4 DEF Alone, Busy, Writing
<1>6. ASSUME NEW q \in Procs PROVE SoFar(q)'
  <2>1. CASE q = p
    BY <2>1, <1>4 DEF SoFar, ResetState, Filling, Writing
  <2>2. CASE q # p
    BY <2>2, <1>3 DEF SoFar, Filling, Writing
  <2> QED BY <2>1, <2>2
<1> QED BY <1>5, <1>6

\* The request that writes goes on, or is done.
LEMMA WriteHonest ==
  ASSUME HonestInv, NEW p \in Procs, Busy(p), UNCHANGED tainted,
         \A q \in Procs \ {p} : h'[q] = h[q],
         ~tainted => IF Busy(p)' THEN SoFar(p)' ELSE Settled'
  PROVE  HonestInv'
<1> SUFFICES ASSUME ~tainted
             PROVE  Alone' /\ (\A q \in Procs : SoFar(q)')
                    /\ ((\A q \in Procs : ~Busy(q)') => Settled')
  BY DEF HonestInv
<1>1. \A q \in Procs \ {p} : h'[q].pc \notin Writing
  BY DEF HonestInv, Alone, Busy
<1>2. Alone'
  BY <1>1 DEF Alone, Busy
<1>3. ASSUME NEW q \in Procs PROVE SoFar(q)'
  <2>1. CASE q # p \/ ~Busy(p)'
    BY <2>1, <1>1 DEF SoFar, Busy, Filling, Writing
  <2>2. CASE q = p /\ Busy(p)'
    BY <2>2
  <2> QED BY <2>1, <2>2
<1> QED BY <1>2, <1>3

\* A request that does not write leaves everything as it is.
LEMMA QuietHonest ==
  ASSUME HonestInv, NEW p \in Procs, ~Busy(p), ~Busy(p)',
         \A q \in Procs \ {p} : h'[q] = h[q],
         UNCHANGED <<hash, blocker, filters, tainted>>
  PROVE  HonestInv'
<1> SUFFICES ASSUME ~tainted
             PROVE  Alone' /\ (\A q \in Procs : SoFar(q)')
                    /\ ((\A q \in Procs : ~Busy(q)') => Settled')
  BY DEF HonestInv
<1>1. \A q \in Procs : Busy(q)' <=> Busy(q)
  BY DEF Busy
<1>2. Alone'
  BY <1>1 DEF HonestInv, Alone
<1>3. ASSUME NEW q \in Procs PROVE SoFar(q)'
  <2>1. CASE q = p
    BY <2>1 DEF SoFar, Busy, Filling, Writing
  <2>2. CASE q # p
    BY <2>2 DEF HonestInv, SoFar, Written, BlockerOf, RuleTags
  <2> QED BY <2>1, <2>2
<1>4. (\A q \in Procs : ~Busy(q)') => Settled'
  BY <1>1 DEF HonestInv, Settled, FiltersOf, BlockerOf, RuleTags
<1> QED BY <1>2, <1>3, <1>4

LEMMA InitHonest == Init => HonestInv
  BY DEF Init, HonestInv, Alone, SoFar, Settled, Busy, Writing, Filling, Idle

LEMMA StopIfOnlineEffect ==
  ASSUME HType, NEW p \in Procs, StopIfOnline(p)
  PROVE  /\ h'[p].pc \in {"kill", "idle"}
         /\ \A q \in Procs \ {p} : h'[q] = h[q]
<1>1. CASE online
  BY <1>1, GotoEffect DEF StopIfOnline
<1>2. CASE ~online
  BY <1>2, DoneEffect DEF StopIfOnline, Idle
<1> QED BY <1>1, <1>2

-----------------------------------------------------------------------------
(* One lemma per step that touches the table.                              *)

LEMMA ResetDoneHonest ==
  ASSUME HType, HonestInv, NEW p \in Procs, ResetDone(p)
  PROVE  HonestInv'
<1>1. h'[p].pc \in {"kill", "idle"} /\ \A q \in Procs \ {p} : h'[q] = h[q]
  BY StopIfOnlineEffect DEF ResetDone
<1>2. Busy(p) /\ ~Busy(p)' /\ UNCHANGED tainted
  BY <1>1 DEF ResetDone, Busy, Writing
<1>3. ~tainted => Settled'
  BY DEF ResetDone, HonestInv, SoFar, Settled, pluginVars, Writing
<1> QED BY <1>1, <1>2, <1>3, WriteHonest

LEMMA CleanDoneHonest ==
  ASSUME HType, HonestInv, NEW p \in Procs, CleanDone(p)
  PROVE  HonestInv'
<1>1. h'[p].pc = "kill" /\ \A q \in Procs \ {p} : h'[q] = h[q]
  BY GotoEffect DEF CleanDone
<1>2. Busy(p) /\ ~Busy(p)' /\ UNCHANGED tainted
  BY <1>1 DEF CleanDone, Busy, Writing
<1>3. ~tainted => Settled'
  BY DEF CleanDone, HonestInv, SoFar, Settled, pluginVars, Writing
<1> QED BY <1>1, <1>2, <1>3, WriteHonest

LEMMA CreateDoneHonest ==
  ASSUME Requests, HonestInv, NEW p \in Procs, CreateDone(p)
  PROVE  HonestInv'
<1>1. /\ h'[p] = [pc |-> "ingress", cfg |-> h[p].cfg, was |-> h[p].was]
      /\ \A q \in Procs \ {p} : h'[q] = h[q]
  BY GotoEffect DEF CreateDone, Requests
<1>2. Busy(p) /\ Busy(p)' /\ UNCHANGED tainted
  BY <1>1 DEF CreateDone, Busy, Writing
<1>3. h[p].cfg \in Configs /\ h[p].cfg \in ConfigRecords
  BY ConfigType DEF CreateDone, Requests, HasConfig
<1>4. ASSUME ~tainted PROVE SoFar(p)'
  <2>1. hash' = None /\ blocker = Off
    BY <1>4 DEF CreateDone, HonestInv, SoFar, Writing
  <2>2. blocker' = BlockerOf(h'[p].cfg)
    BY <2>1, <1>1, <1>3 DEF CreateDone, BlockerOf, RuleTags, Off, ConfigRecords
  <2>3. filters' = Written(h'[p])
    BY <1>1 DEF CreateDone, Written, Empty
  <2> QED BY <2>1, <2>2, <2>3, <1>1 DEF SoFar, Filling, Writing
<1> QED BY <1>1, <1>2, <1>4, WriteHonest

LEMMA IngressDoneHonest ==
  ASSUME Requests, HonestInv, NEW p \in Procs, IngressDone(p)
  PROVE  HonestInv'
<1>1. /\ h'[p] = [pc |-> "egress", cfg |-> h[p].cfg, was |-> h[p].was]
      /\ \A q \in Procs \ {p} : h'[q] = h[q]
  BY GotoEffect DEF IngressDone, Requests
<1>2. Busy(p) /\ Busy(p)' /\ UNCHANGED tainted
  BY <1>1 DEF IngressDone, Busy, Writing
<1>4. ASSUME ~tainted PROVE SoFar(p)'
  <2>1. hash' = None /\ blocker' = BlockerOf(h'[p].cfg) /\ filters = Written(h[p])
    BY <1>4, <1>1 DEF IngressDone, HonestInv, SoFar, Writing, Filling, pluginVars
  <2>3. filters' = Written(h'[p])
    BY <2>1, <1>1 DEF IngressDone, Written
  <2> QED BY <2>1, <2>3, <1>1 DEF SoFar, Filling, Writing
<1> QED BY <1>1, <1>2, <1>4, WriteHonest

LEMMA EgressDoneHonest ==
  ASSUME Requests, HonestInv, NEW p \in Procs, EgressDone(p)
  PROVE  HonestInv'
<1>1. /\ h'[p] = [pc |-> "ports", cfg |-> h[p].cfg, was |-> h[p].was]
      /\ \A q \in Procs \ {p} : h'[q] = h[q]
  BY GotoEffect DEF EgressDone, Requests
<1>2. Busy(p) /\ Busy(p)' /\ UNCHANGED tainted
  BY <1>1 DEF EgressDone, Busy, Writing
<1>4. ASSUME ~tainted PROVE SoFar(p)'
  <2>1. hash' = None /\ blocker' = BlockerOf(h'[p].cfg) /\ filters = Written(h[p])
    BY <1>4, <1>1 DEF EgressDone, HonestInv, SoFar, Writing, Filling, pluginVars
  <2>3. filters' = Written(h'[p])
    BY <2>1, <1>1 DEF EgressDone, Written
  <2> QED BY <2>1, <2>3, <1>1 DEF SoFar, Filling, Writing
<1> QED BY <1>1, <1>2, <1>4, WriteHonest

\* Only now there is a hash, and everything it stands for.
LEMMA PortsDoneHonest ==
  ASSUME Requests, HonestInv, NEW p \in Procs, PortsDone(p)
  PROVE  HonestInv'
<1>1. h'[p].pc \in {"outbound", "kill", "idle"} /\ \A q \in Procs \ {p} : h'[q] = h[q]
  <2>1. CASE Goto(p, "outbound")
    BY <2>1, GotoEffect DEF Requests
  <2>2. CASE StopIfOnline(p)
    BY <2>2, StopIfOnlineEffect DEF Requests
  <2>3. CASE Done(p)
    BY <2>3, DoneEffect DEF Requests, Idle
  <2> QED BY <2>1, <2>2, <2>3 DEF PortsDone
<1>2. Busy(p) /\ ~Busy(p)' /\ UNCHANGED tainted
  BY <1>1 DEF PortsDone, Busy, Writing
<1>3. h[p].cfg \in Configs /\ h[p].cfg # None
  BY ConfigType DEF PortsDone, Requests, HasConfig, Filling
<1>4. ASSUME ~tainted PROVE Settled'
  <2>1. blocker' = BlockerOf(h[p].cfg) /\ filters = Written(h[p])
    BY <1>4 DEF PortsDone, HonestInv, SoFar, Writing, Filling
  <2>2. filters' = FiltersOf(h[p].cfg)
    BY <2>1 DEF PortsDone, Written, FiltersOf
  <2>3. hash' = h[p].cfg
    BY DEF PortsDone
  <2> QED BY <2>1, <2>2, <2>3, <1>3 DEF Settled
<1> QED BY <1>1, <1>2, <1>4, WriteHonest

\* The steps of requests that do not write
Elsewhere(p) ==
  \/ OutboundGone(p) \/ OutboundFails(p) \/ StartEnter(p) \/ StartCheck(p)
  \/ StartDown(p) \/ StartUp(p) \/ CoreAnswers(p) \/ Kill(p)
  \/ Restarted(p) \/ NotReady(p) \/ StartDownFails(p) \/ StartUpFails(p) \/ Killed(p)

LEMMA ElsewhereHonest ==
  ASSUME HType, HonestInv, NEW p \in Procs, Elsewhere(p)
  PROVE  HonestInv'
<1>1. UNCHANGED <<hash, blocker, filters, tainted>>
  BY DEF Elsewhere, OutboundGone, OutboundFails, StartEnter, StartCheck, StartDown, StartUp,
         CoreAnswers, Kill, Restarted, NotReady, StartDownFails, StartUpFails, Killed, pluginVars
<1>2. ~Busy(p)
  <2>1. CASE StartEnter(p)
    BY <2>1, BeginEffect DEF StartEnter, Busy, Idle, Writing, Begin
  <2>2. CASE ~StartEnter(p)
    BY <2>2 DEF Elsewhere, OutboundGone, OutboundFails, StartCheck, StartDown, StartUp,
                CoreAnswers, Kill, Restarted, NotReady, StartDownFails, StartUpFails, Killed,
                Busy, Writing
  <2> QED BY <2>1, <2>2
<1>3. /\ h'[p].pc \in {"idle", "check", "killed"} \cup Restarting
      /\ \A q \in Procs \ {p} : h'[q] = h[q]
  <2>1. CASE StartEnter(p)
    <3>1. PICK pc \in {"down", "check"} : Begin(p, [Idle EXCEPT !.pc = pc])
      BY <2>1 DEF StartEnter
    <3>2. [Idle EXCEPT !.pc = pc].pc = pc
      BY DEF Idle
    <3> QED BY <3>1, <3>2, BeginEffect DEF Restarting
  <2>2. CASE Done(p)
    BY <2>2, DoneEffect DEF Idle
  <2>3. ASSUME NEW pc \in {"down", "up", "ready", "answered", "killed"}, Goto(p, pc)
        PROVE  <1>3!1 /\ <1>3!2
    BY <2>3, GotoEffect DEF Restarting
  <2> QED BY <2>1, <2>2, <2>3 DEF Elsewhere, OutboundGone, OutboundFails, StartCheck, StartDown,
             StartUp, CoreAnswers, Kill, Restarted, NotReady, StartDownFails, StartUpFails,
             Killed, GivenUp
<1>4. ~Busy(p)'
  BY <1>3 DEF Busy, Writing, Restarting
<1> QED BY <1>1, <1>2, <1>3, <1>4, QuietHonest

\* The steps that leave the filters in doubt
LEMMA TaintedHonest ==
  ASSUME \/ \E p \in Procs : SyncFails(p) \/ CleanFails(p)
         \/ RecreateTables \/ \E i \in Ips : UnblockIp(i)
  PROVE  HonestInv'
  BY DEF SyncFails, CleanFails, RecreateTables, UnblockIp, HonestInv

LEMMA RestartHonest ==
  ASSUME AgentRestart
  PROVE  HonestInv'
<1>1. \A p \in Procs : h'[p] = Idle
  BY DEF AgentRestart
<1>2. \A p \in Procs : h'[p].pc = "idle"
  BY <1>1 DEF Idle
<1>3. Settled'
  BY DEF AgentRestart, ResetState, Settled
<1> QED BY <1>2, <1>3 DEF HonestInv, Alone, SoFar, Busy, Writing, Filling

LEMMA StepHonest == TypeOK /\ HonestInv /\ [Next]_vars => HonestInv'
<1> SUFFICES ASSUME TypeOK, HonestInv, [Next]_vars PROVE HonestInv'
  OBVIOUS
<1>1. Requests /\ HType
  BY TypeParts DEF Requests
<1>2. ASSUME NEW p \in Procs, SyncNothing(p) PROVE HonestInv'
  <2>1. [Idle EXCEPT !.pc = "reset"].pc = "reset"
    BY DEF Idle
  <2> QED BY <1>1, <1>2, <2>1, BeginHonest DEF SyncNothing
<1>3. ASSUME NEW p \in Procs, NEW c \in Configs, Sync(p, c) PROVE HonestInv'
  <2> DEFINE r == [pc |-> "create", cfg |-> c, was |-> blocker]
  <2>1. r.pc = "create"
    OBVIOUS
  <2>2. Begin(p, r) /\ ResetState /\ BeginsToWrite
    BY <1>3 DEF Sync
  <2> QED BY <1>1, <2>1, <2>2, BeginHonest
<1>4. ASSUME NEW p \in Procs, Stop(p) PROVE HonestInv'
  <2>1. [Idle EXCEPT !.pc = "clean"].pc = "clean"
    BY DEF Idle
  <2> QED BY <1>1, <1>4, <2>1, BeginHonest DEF Stop
<1>5. ASSUME NEW p \in Procs,
             \/ ResetDone(p) \/ CleanDone(p) \/ CreateDone(p)
             \/ IngressDone(p) \/ EgressDone(p) \/ PortsDone(p)
      PROVE  HonestInv'
  BY <1>1, <1>5, ResetDoneHonest, CleanDoneHonest, CreateDoneHonest, IngressDoneHonest,
     EgressDoneHonest, PortsDoneHonest
<1>6. ASSUME NEW p \in Procs, Elsewhere(p) PROVE HonestInv'
  BY <1>1, <1>6, ElsewhereHonest
<1>7. CASE \/ \E p \in Procs : SyncFails(p) \/ CleanFails(p)
           \/ RecreateTables \/ \E i \in Ips : UnblockIp(i)
  BY <1>7, TaintedHonest
<1>8. CASE AgentRestart
  BY <1>8, RestartHonest
<1>9. CASE UNCHANGED vars \/ CoreBoot \/ CoreDies
  BY <1>9 DEF vars, pluginVars, CoreBoot, CoreDies, HonestInv, Alone, SoFar, Settled, Busy,
              Written, FiltersOf, BlockerOf, RuleTags
<1> QED BY <1>2, <1>3, <1>4, <1>5, <1>6, <1>7, <1>8, <1>9 DEF Next, Elsewhere

\* For any configurations and any number of requests at once: a node that says
\* it has a configuration has exactly its filters and its blocker, unless
\* requests overlapped, nftables failed or an operator took something out.
THEOREM HashIsHonest == Spec => []Honest
<1>1. HonestInv => Honest
  BY WritersBusy DEF HonestInv, Honest, Settled
<1> QED BY <1>1, InitType, StepType, InitHonest, StepHonest, PTL DEF Spec
-----------------------------------------------------------------------------
(* The core has the blocker.  What is given to the core and what the core  *)
(* has agree with the agent, or a sync that is not over is to see to it:   *)
(* one that has turned the blocker on, or given it other rules, is going   *)
(* to stop the core, unless a start goes on meanwhile.                     *)

Raised == {"up", "ready", "answered"}
In(S) == \E q \in Procs : h[q].pc \in S

\* x is what the agent believes in, and what syncs saw before they reset it.
Agrees(x) ==
  /\ blocker.on => x = blocker
  /\ \A p \in Procs : h[p].pc = "create" /\ h[p].was.on => x = h[p].was

\* A sync that is about to learn that it must stop the core, and one that will
Turning(p) ==
  h[p].pc \in Filling /\ h[p].cfg.blocker /\ NeedsRestart(h[p].was, h[p].cfg)
Killing(p) == h[p].pc \in {"kill", "killed"}

Vouch(x, S) ==
  online \/ In(S) =>
    \/ Agrees(x)
    \/ \E p \in Procs : Turning(p)
    \/ ~In(S) /\ \E p \in Procs : Killing(p)

CoreOk == ~behind => \A x \in Blockers \ {None} : core = x => Vouch(x, Raised)
GivenOk == ~stale => \A x \in Blockers \ {None} : given = x => Vouch(x, Restarting)
OffIsOff == ~blocker.on => blocker = Off

BlocksInv == OffIsOff /\ CoreOk /\ GivenOk

LEMMA InitBlocks == Init => BlocksInv
  BY DEF Init, BlocksInv, OffIsOff, CoreOk, GivenOk

LEMMA BeingStartedIn == BeingStarted <=> In(Restarting)
  BY DEF BeingStarted, In

\* A request that goes on without setting the blocker, and neither comes up with
\* a core nor forgets to stop one.
LEMMA AsideVouch ==
  ASSUME NEW x, NEW S, Vouch(x, S), NEW p \in Procs, UNCHANGED blocker,
         \A q \in Procs \ {p} : h'[q] = h[q],
         h'[p].pc # "create",
         h'[p].pc \in S => h[p].pc \in S,
         online' => online \/ In(S),
         Turning(p) => Turning(p)',
         online' /\ Killing(p) => Killing(p)'
  PROVE  Vouch(x, S)'
<1> SUFFICES ASSUME online' \/ In(S)'
             PROVE  \/ Agrees(x)'
                    \/ \E q \in Procs : Turning(q)'
                    \/ ~In(S)' /\ \E q \in Procs : Killing(q)'
  BY DEF Vouch
<1>1. In(S)' => In(S)
  BY DEF In
<1>2. CASE Agrees(x)
  BY <1>2 DEF Agrees
<1>3. ASSUME NEW q \in Procs, Turning(q) PROVE Turning(q)'
  BY <1>3 DEF Turning, NeedsRestart, RuleTags
<1>4. ASSUME ~In(S), NEW q \in Procs, Killing(q) PROVE Killing(q)'
  BY <1>1, <1>4 DEF Killing
<1> QED BY <1>1, <1>2, <1>3, <1>4 DEF Vouch

\* Nothing changes that counts.
LEMMA SameVouch ==
  ASSUME NEW x, NEW S, Vouch(x, S), UNCHANGED <<h, blocker, online>>
  PROVE  Vouch(x, S)'
  BY DEF Vouch, In, Agrees, Turning, Killing, NeedsRestart, RuleTags

\* A request that begins to write notes the blocker and resets it.
LEMMA BeginVouch ==
  ASSUME NEW x, NEW S \in SUBSET Restarting, Vouch(x, S), HType, NEW p \in Procs, NEW r,
         Begin(p, r), ResetState, UNCHANGED online,
         r.pc \in {"reset", "clean", "create"},
         r.pc = "create" => r.was = blocker
  PROVE  Vouch(x, S)'
<1>1. h[p] = Idle /\ h'[p] = r /\ \A q \in Procs \ {p} : h'[q] = h[q]
  BY BeginEffect
<1>2. ~blocker'.on
  BY DEF ResetState, Off
<1>3. In(S)' <=> In(S)
  <2>1. h[p].pc \notin S /\ h'[p].pc \notin S
    BY <1>1 DEF Idle, Restarting
  <2> QED BY <1>1, <2>1 DEF In
<1>4. Agrees(x) => Agrees(x)'
  <2>1. ASSUME Agrees(x), NEW q \in Procs, h'[q].pc = "create", h'[q].was.on
        PROVE  x = h'[q].was
    BY <1>1, <2>1 DEF Agrees
  <2> QED BY <1>2, <2>1 DEF Agrees
<1>5. ASSUME NEW q \in Procs, Turning(q) \/ Killing(q)
      PROVE  h'[q] = h[q]
  BY <1>1, <1>5 DEF Turning, Killing, Idle, Filling
<1>6. ASSUME NEW q \in Procs
      PROVE  (Turning(q) => Turning(q)') /\ (Killing(q) => Killing(q)')
  BY <1>5 DEF Turning, Killing, NeedsRestart, RuleTags
<1> QED BY <1>3, <1>4, <1>6 DEF Vouch

\* The blocker is set: as in x, or the core will be stopped.
LEMMA CreateDoneVouch ==
  ASSUME NEW x, NEW S \in SUBSET Restarting, Vouch(x, S), OffIsOff, TypeOK, Requests,
         NEW p \in Procs, CreateDone(p)
  PROVE  Vouch(x, S)'
<1> DEFINE c == h[p].cfg
           w == h[p].was
<1>1. /\ h'[p] = [pc |-> "ingress", cfg |-> c, was |-> w]
      /\ \A q \in Procs \ {p} : h'[q] = h[q]
  BY GotoEffect DEF CreateDone, Requests
<1>2. h[p].pc = "create" /\ UNCHANGED online
  BY DEF CreateDone, coreVars
<1>3. c \in ConfigRecords /\ w \in Blockers /\ blocker \in Blockers
  BY <1>2, ConfigType, TypeParts DEF Requests, HasConfig, HType
<1>4. blocker' = IF c.blocker THEN [on |-> TRUE,
                                    tags |-> IF c.tags = Unset THEN blocker.tags ELSE c.tags]
                 ELSE blocker
  BY DEF CreateDone
<1>5. In(S)' <=> In(S)
  <2>1. h[p].pc \notin S /\ h'[p].pc \notin S
    BY <1>1, <1>2 DEF Restarting
  <2> QED BY <1>1, <2>1 DEF In
<1>6. ASSUME NEW q \in Procs
      PROVE  (Turning(q) => Turning(q)') /\ (Killing(q) => Killing(q)')
  <2>1. CASE q = p
    BY <2>1, <1>2 DEF Turning, Killing, Filling
  <2>2. CASE q # p
    BY <2>2, <1>1 DEF Turning, Killing, NeedsRestart, RuleTags
  <2> QED BY <2>1, <2>2
<1>7. CASE c.blocker /\ NeedsRestart(w, c)
  <2>1. h'[p].pc \in Filling /\ h'[p].cfg = c /\ h'[p].was = w
    BY <1>1 DEF Filling
  <2>2. Turning(p)'
    BY <1>7, <2>1 DEF Turning, NeedsRestart, RuleTags
  <2> QED BY <2>2 DEF Vouch
<1>8. CASE Agrees(x) /\ ~(c.blocker /\ NeedsRestart(w, c))
  <2>1. blocker'.on => x = blocker'
    <3>1. CASE ~c.blocker
      BY <1>4, <1>8, <3>1 DEF Agrees
    <3>2. CASE c.blocker
      <4>1. w.on /\ w.tags = RuleTags(c)
        BY <1>3, <1>8, <3>2 DEF NeedsRestart, ConfigRecords, Blockers
      <4>2. x = w /\ w = [on |-> TRUE, tags |-> RuleTags(c)]
        BY <1>2, <1>3, <1>8, <4>1 DEF Agrees, Blockers
      <4>3. CASE c.tags # Unset
        BY <1>4, <3>2, <4>2, <4>3 DEF RuleTags
      <4>4. CASE c.tags = Unset /\ blocker.on
        <5>1. blocker = [on |-> TRUE, tags |-> blocker.tags]
          BY <1>3, <4>4 DEF Blockers
        <5> QED BY <1>4, <1>8, <3>2, <4>4, <5>1 DEF Agrees
      <4>5. CASE c.tags = Unset /\ ~blocker.on
        <5>1. blocker.tags = {}
          BY <4>5 DEF OffIsOff, Off
        <5> QED BY <1>4, <3>2, <4>2, <4>5, <5>1 DEF RuleTags
      <4> QED BY <4>3, <4>4, <4>5
    <3> QED BY <3>1, <3>2
  <2>2. ASSUME NEW q \in Procs, h'[q].pc = "create", h'[q].was.on
        PROVE  x = h'[q].was
    BY <1>1, <1>8, <2>2 DEF Agrees
  <2> QED BY <2>1, <2>2 DEF Agrees, Vouch
<1> QED BY <1>2, <1>5, <1>6, <1>7, <1>8 DEF Vouch

\* A sync that is to stop the core does so when it has written, unless a start
\* is going on or the core is offline.
LEMMA PortsDoneVouch ==
  ASSUME NEW x, NEW S \in SUBSET Restarting, Vouch(x, S), Requests,
         NEW p \in Procs, PortsDone(p),
         ~(NeedsRestart(h[p].was, h[p].cfg) /\ BeingStarted)
  PROVE  Vouch(x, S)'
<1>1. h[p].pc = "ports" /\ UNCHANGED <<blocker, online>>
  BY DEF PortsDone, coreVars
<1>2. h'[p].pc \in {"outbound", "kill", "idle"} /\ \A q \in Procs \ {p} : h'[q] = h[q]
  <2>1. CASE Goto(p, "outbound")
    BY <2>1, GotoEffect DEF Requests
  <2>2. CASE StopIfOnline(p)
    BY <2>2, StopIfOnlineEffect DEF Requests
  <2>3. CASE Done(p)
    BY <2>3, DoneEffect DEF Requests, Idle
  <2> QED BY <2>1, <2>2, <2>3 DEF PortsDone
<1>3. h[p].pc \notin S /\ h'[p].pc \notin S
  BY <1>1, <1>2 DEF Restarting
<1>4. CASE ~Turning(p)
  BY <1>1, <1>2, <1>3, <1>4, AsideVouch DEF Killing
<1>5. CASE Turning(p)
  <2>1. h[p].cfg.blocker /\ NeedsRestart(h[p].was, h[p].cfg)
    BY <1>5 DEF Turning
  <2>2. ~In(S)'
    BY <2>1, <1>2, <1>3 DEF BeingStarted, In
  <2>3. online => Killing(p)'
    <3>1. ASSUME online PROVE Goto(p, "kill")
      BY <2>1, <3>1 DEF PortsDone, StopIfOnline
    <3> QED BY <3>1, GotoEffect DEF Requests, Killing
  <2> QED BY <1>1, <2>2, <2>3 DEF Vouch
<1> QED BY <1>4, <1>5

-----------------------------------------------------------------------------
(* Step by step.                                                           *)

\* Steps after which neither a sync nor a start has anything new to answer for
Unconcerned(p) ==
  \/ ResetDone(p) \/ IngressDone(p) \/ EgressDone(p) \/ CleanDone(p) \/ CleanFails(p)
  \/ OutboundFails(p) \/ SyncFails(p) \/ OutboundGone(p) \/ StartDown(p) \/ StartUp(p)
  \/ CoreAnswers(p) \/ Restarted(p) \/ NotReady(p) \/ StartDownFails(p) \/ StartUpFails(p)
  \/ Kill(p) \/ Killed(p)

\* The hypotheses of AsideVouch for them
Aside(p, S) ==
  /\ UNCHANGED blocker /\ \A q \in Procs \ {p} : h'[q] = h[q]
  /\ h'[p].pc # "create" /\ (h'[p].pc \in S => h[p].pc \in S)
  /\ online' => online \/ In(S)
  /\ Turning(p) => Turning(p)' \/ (behind' /\ stale')
  /\ online' /\ Killing(p) => Killing(p)'

LEMMA UnconcernedMoves ==
  ASSUME Requests, NEW p \in Procs, Unconcerned(p), NEW S \in {Raised, Restarting},
         ~(StartDown(p) /\ S = Raised)
  PROVE  Aside(p, S)
<1>1. CASE ResetDone(p)
  <2>1. h'[p].pc \in {"kill", "idle"} /\ \A q \in Procs \ {p} : h'[q] = h[q]
    BY <1>1, StopIfOnlineEffect DEF ResetDone, Requests
  <2> QED BY <1>1, <2>1 DEF ResetDone, Aside, Turning, Killing, Filling, pluginVars, coreVars,
             Raised, Restarting
<1>2. CASE IngressDone(p) \/ EgressDone(p)
  <2>1. PICK pc \in Filling : Goto(p, pc) /\ h[p].pc \in Filling
    BY <1>2 DEF IngressDone, EgressDone, Filling
  <2>2. UNCHANGED <<blocker, online>>
    BY <1>2 DEF IngressDone, EgressDone, pluginVars, coreVars
  <2>3. /\ h'[p] = [pc |-> pc, cfg |-> h[p].cfg, was |-> h[p].was]
        /\ \A q \in Procs \ {p} : h'[q] = h[q]
    BY <2>1, GotoEffect DEF Requests
  <2>4. Turning(p) => Turning(p)'
    <3>1. h'[p].pc \in Filling /\ h'[p].cfg = h[p].cfg /\ h'[p].was = h[p].was
      BY <2>1, <2>3
    <3> QED BY <3>1 DEF Turning, NeedsRestart, RuleTags
  <2>5. h'[p].pc \in Filling /\ ~Killing(p)
    BY <2>1, <2>3 DEF Filling, Killing
  <2> QED BY <2>2, <2>3, <2>4, <2>5 DEF Aside, Filling, Raised, Restarting
<1>3. CASE CleanDone(p) \/ CleanFails(p) \/ Kill(p)
  <2>1. h'[p].pc \in {"kill", "killed"} /\ \A q \in Procs \ {p} : h'[q] = h[q]
    BY <1>3, GotoEffect DEF CleanDone, CleanFails, Kill, Requests
  <2>2. UNCHANGED <<blocker, online>> /\ h[p].pc \in {"clean", "kill"}
    BY <1>3 DEF CleanDone, CleanFails, Kill, pluginVars, coreVars
  <2> QED BY <2>1, <2>2 DEF Aside, Turning, Killing, Filling, Raised, Restarting
<1>4. CASE OutboundFails(p) \/ OutboundGone(p) \/ SyncFails(p) \/ NotReady(p)
           \/ StartDownFails(p) \/ StartUpFails(p) \/ Killed(p) \/ Restarted(p)
  <2>1. h'[p] = Idle /\ \A q \in Procs \ {p} : h'[q] = h[q]
    BY <1>4, DoneEffect DEF OutboundFails, OutboundGone, SyncFails, NotReady, StartDownFails,
       StartUpFails, Killed, Restarted, GivenUp, Requests
  <2>2. UNCHANGED blocker
    BY <1>4 DEF OutboundFails, OutboundGone, SyncFails, NotReady, StartDownFails,
       StartUpFails, Killed, Restarted, pluginVars
  <2>3. online' => online \/ h[p].pc = "answered"
    BY <1>4 DEF OutboundFails, OutboundGone, SyncFails, NotReady, StartDownFails,
       StartUpFails, Killed, Restarted, coreVars
  <2>4. online' => online \/ In(S)
    BY <2>3 DEF In, Raised, Restarting
  <2>5. Turning(p) => behind' /\ stale'
    BY <1>4, FillingIsDomain DEF Turning, OutboundFails, OutboundGone, SyncFails, NotReady,
       StartDownFails, StartUpFails, Killed, Restarted, Doubt, Filling
  <2>6. Killing(p) => ~online'
    BY <1>4, FillingIsDomain DEF Killing, OutboundFails, OutboundGone, SyncFails, CallsNft,
       NotReady, StartDownFails, StartUpFails, Killed, Restarted, Filling
  <2> QED BY <2>1, <2>2, <2>4, <2>5, <2>6 DEF Aside, Idle, Raised, Restarting
<1>5. CASE StartDown(p) \/ StartUp(p) \/ CoreAnswers(p)
  <2>1. h'[p].pc \in Raised /\ \A q \in Procs \ {p} : h'[q] = h[q]
    BY <1>5, GotoEffect DEF StartDown, StartUp, CoreAnswers, Requests, Raised
  <2>2. UNCHANGED <<blocker, online>> /\ h[p].pc \in Restarting
    BY <1>5 DEF StartDown, StartUp, CoreAnswers, pluginVars, coreVars, Restarting
  <2>3. h[p].pc \in Raised \/ StartDown(p)
    BY <1>5 DEF StartUp, CoreAnswers, Raised
  <2> QED BY <2>1, <2>2, <2>3 DEF Aside, Turning, Killing, Filling, Raised, Restarting
<1> QED BY <1>1, <1>2, <1>3, <1>4, <1>5 DEF Unconcerned

LEMMA AsideKeeps ==
  ASSUME NEW x, NEW S, Vouch(x, S), NEW p \in Procs, Aside(p, S), ~behind' \/ ~stale'
  PROVE  Vouch(x, S)'
  BY AsideVouch DEF Aside

LEMMA UnconcernedBlocks ==
  ASSUME TypeOK, Requests, BlocksInv, NEW p \in Procs, Unconcerned(p)
  PROVE  BlocksInv'
<1>1. Aside(p, Restarting)
  BY UnconcernedMoves DEF Raised, Restarting
<1>2. OffIsOff'
  BY <1>1 DEF BlocksInv, OffIsOff, Aside
<1>3. given' \in {given, None} /\ (~stale' => ~stale)
  <2>1. given' \in {given, None}
    BY DEF Unconcerned, ResetDone, IngressDone, EgressDone, CleanDone, CleanFails,
       OutboundFails, SyncFails, OutboundGone, StartDown, StartUp, CoreAnswers, Restarted,
       NotReady, StartDownFails, StartUpFails, Kill, Killed, coreVars
  <2>2. CASE SyncFails(p)
    BY <2>1, <2>2 DEF SyncFails, Doubt, TypeOK
  <2>3. CASE ~SyncFails(p)
    <3>1. stale' = stale
      BY <2>3 DEF Unconcerned, ResetDone, IngressDone, EgressDone, CleanDone, CleanFails,
         OutboundFails, OutboundGone, StartDown, StartUp, CoreAnswers, Restarted,
         NotReady, StartDownFails, StartUpFails, Kill, Killed, doubts
    <3> QED BY <2>1, <3>1
  <2> QED BY <2>2, <2>3
<1>4. GivenOk'
  <2> SUFFICES ASSUME ~stale', NEW x \in Blockers \ {None}, given' = x
               PROVE  Vouch(x, Restarting)'
    BY DEF GivenOk
  <2>1. Vouch(x, Restarting)
    BY <1>3 DEF BlocksInv, GivenOk
  <2> QED BY <1>1, <2>1, AsideKeeps
<1>5. CASE OutboundGone(p)
  <2>1. h'[p] = Idle /\ \A q \in Procs \ {p} : h'[q] = h[q]
    BY <1>5, DoneEffect DEF OutboundGone, Requests
  <2>2. ~behind' => ~blocker'.on /\ \A q \in Procs : h'[q].pc # "create"
    <3>1. behind' = (behind \/ blocker.on \/ \E q \in Procs : h[q].pc = "create")
          /\ blocker' = blocker
      BY <1>5 DEF OutboundGone, pluginVars
    <3>2. ASSUME ~behind' PROVE ~blocker.on /\ \A q \in Procs : h[q].pc # "create"
      BY <3>1, <3>2
    <3> QED BY <2>1, <3>1, <3>2 DEF Idle
  <2>3. CoreOk'
    BY <2>2 DEF CoreOk, Vouch, Agrees
  <2> QED BY <1>2, <1>4, <2>3 DEF BlocksInv
<1>6. CASE ~OutboundGone(p)
  <2>1. core' \in {core, None} /\ (~behind' => ~behind) /\ (StartDown(p) => core' = None)
    <3>1. core' \in {core, None} /\ (StartDown(p) => core' = None)
      BY <1>6 DEF Unconcerned, ResetDone, IngressDone, EgressDone, CleanDone, CleanFails,
         OutboundFails, SyncFails, StartDown, StartUp, CoreAnswers, Restarted, CoreGone,
         NotReady, StartDownFails, StartUpFails, Kill, Killed, coreVars, process
    <3>2. CASE SyncFails(p)
      BY <3>1, <3>2 DEF SyncFails, Doubt, TypeOK
    <3>3. CASE ~SyncFails(p)
      <4>1. behind' = behind
        BY <1>6, <3>3 DEF Unconcerned, ResetDone, IngressDone, EgressDone, CleanDone,
           CleanFails, OutboundFails, StartDown, StartUp, CoreAnswers, Restarted,
           NotReady, StartDownFails, StartUpFails, Kill, Killed, doubts
      <4> QED BY <3>1, <4>1
    <3> QED BY <3>2, <3>3
  <2>2. CoreOk'
    <3> SUFFICES ASSUME ~behind', NEW x \in Blockers \ {None}, core' = x
                 PROVE  Vouch(x, Raised)'
      BY DEF CoreOk
    <3>1. ~StartDown(p) /\ Vouch(x, Raised)
      BY <2>1 DEF BlocksInv, CoreOk
    <3>2. Aside(p, Raised)
      BY <3>1, UnconcernedMoves
    <3> QED BY <3>1, <3>2, AsideKeeps
  <2> QED BY <1>2, <1>4, <2>2 DEF BlocksInv
<1> QED BY <1>5, <1>6

\* A request that touches the blocker
LEMMA WriteBlocks ==
  ASSUME TypeOK, Requests, BlocksInv, OffIsOff', UNCHANGED <<given, core>>,
         ~stale' => ~stale, ~behind' => ~behind,
         \A x : \A S \in SUBSET Restarting : ~behind' \/ ~stale' => (Vouch(x, S) => Vouch(x, S)')
  PROVE  BlocksInv'
<1>1. Raised \in SUBSET Restarting /\ Restarting \in SUBSET Restarting
  BY DEF Raised, Restarting
<1>2. CoreOk'
  BY <1>1 DEF BlocksInv, CoreOk
<1>3. GivenOk'
  BY <1>1 DEF BlocksInv, GivenOk
<1> QED BY <1>2, <1>3 DEF BlocksInv

LEMMA SyncBlocks ==
  ASSUME TypeOK, Requests, BlocksInv, NEW p \in Procs,
         \/ SyncNothing(p) \/ Stop(p) \/ (\E c \in Configs : Sync(p, c))
         \/ CreateDone(p) \/ PortsDone(p)
  PROVE  BlocksInv'
<1>1. CASE SyncNothing(p) \/ Stop(p) \/ \E c \in Configs : Sync(p, c)
  <2>1. PICK r : Begin(p, r) /\ r.pc \in {"reset", "clean", "create"}
                 /\ (r.pc = "create" => r.was = blocker)
    <3>1. CASE SyncNothing(p) \/ Stop(p)
      BY <3>1 DEF SyncNothing, Stop, Idle
    <3>2. ASSUME NEW c \in Configs, Sync(p, c)
          PROVE  \E r : Begin(p, r) /\ r.pc = "create" /\ r.was = blocker
      BY <3>2 DEF Sync
    <3> QED BY <1>1, <3>1, <3>2
  <2>2. ResetState /\ UNCHANGED <<coreVars, doubts>>
    BY <1>1 DEF SyncNothing, Stop, Sync
  <2>3. OffIsOff'
    BY <2>2 DEF OffIsOff, ResetState
  <2>4. ASSUME NEW x, NEW S \in SUBSET Restarting, Vouch(x, S) PROVE Vouch(x, S)'
    BY <2>1, <2>2, <2>4, BeginVouch DEF Requests, coreVars
  <2> QED BY <2>2, <2>3, <2>4, WriteBlocks DEF coreVars, process, doubts
<1>2. CASE CreateDone(p)
  <2>1. UNCHANGED <<coreVars, doubts>>
    BY <1>2 DEF CreateDone
  <2>2. OffIsOff'
    BY <1>2 DEF CreateDone, OffIsOff, BlocksInv
  <2>3. ASSUME NEW x, NEW S \in SUBSET Restarting, Vouch(x, S) PROVE Vouch(x, S)'
    BY <1>2, <2>3, CreateDoneVouch DEF BlocksInv
  <2> QED BY <2>1, <2>2, <2>3, WriteBlocks DEF coreVars, process, doubts
<1>3. CASE PortsDone(p)
  <2> DEFINE reason == NeedsRestart(h[p].was, h[p].cfg) /\ BeingStarted
  <2>1. /\ UNCHANGED <<given, core, blocker>> /\ (~stale' => ~stale) /\ (~behind' => ~behind)
        /\ ~behind' \/ ~stale' => ~reason
    <3>1. UNCHANGED <<given, core, blocker>> /\ Doubt(reason)
      BY <1>3 DEF PortsDone, coreVars, process
    <3> HIDE DEF reason
    <3> QED BY <3>1 DEF Doubt, TypeOK
  <2>2. OffIsOff'
    BY <2>1 DEF OffIsOff, BlocksInv
  <2>3. ASSUME NEW x, NEW S \in SUBSET Restarting, Vouch(x, S), ~behind' \/ ~stale'
        PROVE  Vouch(x, S)'
    BY <1>3, <2>1, <2>3, PortsDoneVouch
  <2> QED BY <2>1, <2>2, <2>3, WriteBlocks
<1> QED BY <1>1, <1>2, <1>3

\* A start that reads the blocker gives it to the core, unless a sync has reset
\* it; one that finds nothing to do leaves everything as it is.
LEMMA StartBlocks ==
  ASSUME TypeOK, Requests, BlocksInv, NEW p \in Procs, StartEnter(p) \/ StartCheck(p)
  PROVE  BlocksInv'
<1>1. /\ h[p].pc \in {"idle", "check"} /\ h'[p].pc \in {"idle", "check", "down"}
      /\ \A q \in Procs \ {p} : h'[q] = h[q]
  <2>1. CASE StartEnter(p)
    <3>1. PICK pc \in {"down", "check"} : Begin(p, [Idle EXCEPT !.pc = pc])
      BY <2>1 DEF StartEnter
    <3>2. [Idle EXCEPT !.pc = pc].pc = pc /\ Idle.pc = "idle"
      BY DEF Idle
    <3> QED BY <3>1, <3>2, BeginEffect DEF Requests
  <2>2. CASE StartCheck(p)
    <3>1. CASE Done(p)
      BY <2>2, <3>1, DoneEffect DEF StartCheck, Requests, Idle
    <3>2. CASE Goto(p, "down")
      BY <2>2, <3>2, GotoEffect DEF StartCheck, Requests
    <3> QED BY <2>2, <3>1, <3>2 DEF StartCheck
  <2> QED BY <2>1, <2>2
<1>2. UNCHANGED <<blocker, core, behind>> /\ (online' => online)
  <2>1. UNCHANGED <<blocker, core, behind>>
    BY DEF StartEnter, StartCheck, pluginVars, process
  <2>2. online' = online \/ online' = FALSE
    BY DEF StartEnter, StartCheck
  <2> QED BY <2>1, <2>2
<1>3. OffIsOff'
  BY <1>2 DEF BlocksInv, OffIsOff
<1>4. ASSUME NEW x, NEW S \in {Raised, Restarting}, Vouch(x, S),
             h'[p].pc \in S => h[p].pc \in S
      PROVE  Vouch(x, S)'
  <2>1. h'[p].pc # "create" /\ ~Turning(p) /\ ~Killing(p)
    BY <1>1 DEF Turning, Killing, Filling
  <2> QED BY <1>1, <1>2, <1>4, <2>1, AsideVouch
<1>5. h'[p].pc \notin Raised
  BY <1>1 DEF Raised
<1>6. CoreOk'
  BY <1>2, <1>4, <1>5 DEF BlocksInv, CoreOk
<1>7. CASE h'[p].pc \in Restarting
  <2>1. Capture
    <3>1. CASE StartEnter(p)
      <4>1. [Idle EXCEPT !.pc = "check"].pc \notin Restarting
        BY DEF Idle, Restarting
      <4> QED BY <1>7, <3>1, <4>1, BeginEffect DEF StartEnter, Requests
    <3>2. CASE StartCheck(p)
      <4>1. ~Done(p)
        BY <1>7, DoneEffect DEF Requests, Idle, Restarting
      <4> QED BY <3>2, <4>1 DEF StartCheck
    <3> QED BY <3>1, <3>2
  <2>2. ASSUME ~stale' PROVE \A q \in Procs : h'[q].pc # "create"
    BY <1>1, <2>1, <2>2 DEF Capture
  <2>3. GivenOk'
    <3> SUFFICES ASSUME ~stale', NEW x \in Blockers, given' = x PROVE Agrees(x)'
      BY DEF GivenOk, Vouch
    <3> QED BY <1>2, <2>1, <2>2 DEF Agrees, Capture
  <2> QED BY <1>3, <1>6, <2>3 DEF BlocksInv
<1>8. CASE h'[p].pc \notin Restarting
  <2>1. UNCHANGED <<given, stale>>
    <3>1. CASE StartEnter(p)
      <4>1. [Idle EXCEPT !.pc = "down"].pc \in Restarting
        BY DEF Idle, Restarting
      <4> QED BY <1>8, <3>1, <4>1, BeginEffect DEF StartEnter, Requests
    <3>2. CASE StartCheck(p)
      <4>1. ~Goto(p, "down")
        BY <1>8, GotoEffect DEF Requests, Restarting
      <4> QED BY <3>2, <4>1 DEF StartCheck
    <3> QED BY <3>1, <3>2
  <2>2. GivenOk'
    BY <1>4, <1>8, <2>1 DEF BlocksInv, GivenOk
  <2> QED BY <1>3, <1>6, <2>2 DEF BlocksInv
<1> QED BY <1>7, <1>8

\* Steps of no request
LEMMA OthersBlocks ==
  ASSUME TypeOK, BlocksInv,
         \/ RecreateTables \/ (\E i \in Ips : UnblockIp(i)) \/ AgentRestart
         \/ CoreBoot \/ CoreDies \/ UNCHANGED vars
  PROVE  BlocksInv'
<1>1. CASE AgentRestart
  <2>1. ~online' /\ \A q \in Procs : h'[q].pc = "idle"
    BY <1>1 DEF AgentRestart, Idle
  <2>2. ~In(Raised)' /\ ~In(Restarting)'
    BY <2>1 DEF In, Raised, Restarting
  <2>3. OffIsOff'
    BY <1>1 DEF AgentRestart, ResetState, OffIsOff
  <2> QED BY <2>1, <2>2, <2>3 DEF BlocksInv, CoreOk, GivenOk, Vouch
<1>2. CASE ~AgentRestart
  <2>1. UNCHANGED <<h, blocker, online, given, stale>>
    BY <1>2 DEF RecreateTables, UnblockIp, CoreBoot, CoreDies, vars, pluginVars, coreVars, doubts
  <2>2. ASSUME NEW x, NEW S, Vouch(x, S) PROVE Vouch(x, S)'
    BY <2>1, <2>2, SameVouch
  <2>3. OffIsOff' /\ GivenOk'
    BY <2>1, <2>2 DEF BlocksInv, OffIsOff, GivenOk
  <2>4. CASE CoreBoot
    <3>1. core' = given /\ behind' = stale
      BY <2>4 DEF CoreBoot
    <3>2. ASSUME NEW x, Vouch(x, Restarting) PROVE Vouch(x, Raised)
      BY <3>2 DEF Vouch, In, Raised, Restarting
    <3>3. CoreOk'
      BY <2>2, <3>1, <3>2 DEF BlocksInv, CoreOk, GivenOk
    <3> QED BY <2>3, <3>3 DEF BlocksInv
  <2>5. CASE ~CoreBoot
    <3>1. core' \in {core, None} /\ behind' = behind
      BY <1>2, <2>5 DEF RecreateTables, UnblockIp, CoreDies, CoreGone, vars, pluginVars,
         coreVars, process, doubts
    <3>2. CoreOk'
      BY <2>2, <3>1 DEF BlocksInv, CoreOk
    <3> QED BY <2>3, <3>2 DEF BlocksInv
  <2> QED BY <2>4, <2>5
<1> QED BY <1>1, <1>2

LEMMA StepBlocks == TypeOK /\ BlocksInv /\ [Next]_vars => BlocksInv'
<1> SUFFICES ASSUME TypeOK, BlocksInv, [Next]_vars PROVE BlocksInv'
  OBVIOUS
<1>1. Requests
  BY TypeParts DEF Requests
<1>2. ASSUME NEW p \in Procs,
             \/ SyncNothing(p) \/ Stop(p) \/ (\E c \in Configs : Sync(p, c))
             \/ CreateDone(p) \/ PortsDone(p)
      PROVE  BlocksInv'
  BY <1>1, <1>2, SyncBlocks
<1>3. ASSUME NEW p \in Procs, StartEnter(p) \/ StartCheck(p) PROVE BlocksInv'
  BY <1>1, <1>3, StartBlocks
<1>4. ASSUME NEW p \in Procs, Unconcerned(p) PROVE BlocksInv'
  BY <1>1, <1>4, UnconcernedBlocks
<1>5. CASE \/ RecreateTables \/ (\E i \in Ips : UnblockIp(i)) \/ AgentRestart
           \/ CoreBoot \/ CoreDies \/ UNCHANGED vars
  BY <1>5, OthersBlocks
<1> QED BY <1>2, <1>3, <1>4, <1>5 DEF Next, Unconcerned

\* For any configurations, requests and faults: when nothing is going on, a core
\* that runs and is online has the blocker the agent believes in, whatever s6
\* left undone or did late, unless a sync that wanted a restart failed at the
\* filters or ended during a start, a start read the blocker while a sync had it
\* reset, or the removal of the outbound overlapped a sync.
THEOREM CoreHasBlocker == Spec => []CoreBlocks
<1>1. TypeOK /\ BlocksInv => CoreBlocks
  <2> SUFFICES ASSUME TypeOK, BlocksInv, online, core # None, ~behind, blocker.on,
                      \A p \in Procs : h[p].pc = "idle"
               PROVE  core = blocker
    BY DEF CoreBlocks
  <2>1. core \in Blockers \ {None}
    BY DEF TypeOK
  <2>2. Vouch(core, Raised)
    BY <2>1 DEF BlocksInv, CoreOk
  <2>3. \A p \in Procs : ~Turning(p) /\ ~Killing(p)
    BY DEF Turning, Killing, Filling
  <2> QED BY <2>2, <2>3 DEF Vouch, Agrees
<1> QED BY <1>1, InitType, StepType, InitBlocks, StepBlocks, PTL DEF Spec
=============================================================================

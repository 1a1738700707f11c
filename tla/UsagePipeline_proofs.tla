----------------------- MODULE UsagePipeline_proofs -----------------------
(***************************************************************************)
(* Proofs about UsagePipeline, for any nodes, users, multipliers, limits   *)
(* and faults.  TypeOK, HistoryKept, HashIsPushed and TotalsKept are       *)
(* inductive; PauseIsOwned, LimitedIsExceeded and ResetIsolated follow     *)
(* from ResetInv.                                                          *)
(***************************************************************************)
EXTENDS UsagePipeline, FiniteSetTheorems, TLAPS

(* What the helpers return. *)

LEMMA NothingType == Nothing \in Amounts
BY DEF Nothing, Amounts

LEMMA PlusType == ASSUME NEW a \in Amounts, NEW b \in Amounts
                  PROVE  Plus(a, b) \in Amounts
BY DEF Plus, Amounts

LEMMA KeptType == ASSUME NEW a \in Amounts PROVE Kept(a) \in Amounts
BY DEF Kept, Amounts

LEMMA CountedType == ASSUME NEW a \in Amounts, NEW n \in Nodes
                     PROVE  Counted(n, a) \in Amounts
<1>1. ASSUME NEW u \in Users PROVE (a[u] * Multiplier[n]) \div Unit \in Nat
  <2>1. a[u] \in Nat /\ Multiplier[n] \in Nat
    BY MultiplierAssumption DEF Amounts
  <2>2. a[u] * Multiplier[n] \in Nat BY <2>1
  <2>. QED BY <2>2, UnitAssumption
<1>. QED BY <1>1 DEF Counted, Amounts

LEMMA ZeroedType == ASSUME used \in Amounts, NEW S PROVE Zeroed(S) \in Amounts
BY DEF Zeroed, Amounts

LEMMA EmptyTypes ==
  NoRec \in Recs /\ NoPush \in Pushes /\ NoJob \in Jobs /\ NoReset \in Resets
BY NothingType DEF NoRec, NoPush, NoJob, NoReset, Recs, Pushes, Jobs, Resets

(* Types: one lemma for each action. *)

LEMMA TrafficType == ASSUME TypeOK, NEW n \in Nodes, NEW u \in Users, Traffic(n, u)
                     PROVE  TypeOK'
BY DEF TypeOK, Traffic, Amounts, redisVars, dbVars, boundVars

LEMMA RecordEnqueueType == ASSUME TypeOK, NEW n \in Nodes, RecordEnqueue(n)
                           PROVE  TypeOK'
BY DEF TypeOK, RecordEnqueue, RecGoto, Recs, redisVars, dbVars, boundVars

LEMMA RecordStatsType == ASSUME TypeOK, NEW n \in Nodes, RecordStats(n)
                         PROVE  TypeOK'
<1>1. counter' \in [Nodes -> Amounts] /\ failed' \in SUBSET Faults
  BY NothingType DEF TypeOK, RecordStats, Fault
<1>2. CASE rec' = [rec EXCEPT ![n] = IF counter[n] = Nothing THEN NoRec
                     ELSE [@ EXCEPT !.pc = "got", !.list = counter[n]]]
  <2>1. [rec[n] EXCEPT !.pc = "got", !.list = counter[n]] \in Recs
    BY DEF TypeOK, Recs
  <2>2. [rec[n] EXCEPT !.pc = "got", !.list = counter[n]].list = counter[n]
    BY DEF TypeOK, Recs
  <2>3. rec' \in [Nodes -> Recs]
    BY <1>2, <2>1, EmptyTypes DEF TypeOK
  <2>4. ASSUME NEW m \in Nodes, rec'[m].pc \in {"got", "stored", "counted"}
        PROVE  rec'[m].list # Nothing
    BY <1>2, <2>2, <2>4 DEF TypeOK, NoRec
  <2>. QED BY <1>1, <2>3, <2>4 DEF TypeOK, RecordStats, redisVars, dbVars
<1>3. CASE RecEnd(n)
  BY <1>1, <1>3, EmptyTypes DEF TypeOK, RecordStats, RecEnd, NoRec, redisVars, dbVars
<1>. QED BY <1>2, <1>3 DEF RecordStats

LEMMA RecordStoreType == ASSUME TypeOK, NEW n \in Nodes, RecordStore(n)
                         PROVE  TypeOK'
<1>1. Plus(hash[n], Kept(rec[n].list)) \in Amounts
  BY PlusType, KeptType DEF TypeOK, Recs
<1>2. hash' \in [Nodes -> Amounts] /\ failed' \in SUBSET Faults
  BY <1>1 DEF TypeOK, RecordStore, Fault
<1>3. /\ rec' \in [Nodes -> Recs]
      /\ \A m \in Nodes : rec'[m].pc \in {"got", "stored", "counted"} =>
           rec'[m].list # Nothing
  <2>1. CASE RecGoto(n, "stored")
    BY <2>1 DEF TypeOK, RecordStore, RecGoto, Recs
  <2>2. CASE RecEnd(n)
    BY <2>2, EmptyTypes DEF TypeOK, RecEnd, NoRec
  <2>. QED BY <2>1, <2>2 DEF RecordStore
<1>. QED BY <1>2, <1>3 DEF TypeOK, RecordStore, dbVars

LEMMA RecordCountType == ASSUME TypeOK, NEW n \in Nodes, RecordCount(n)
                         PROVE  TypeOK'
<1>1. Counted(n, Kept(rec[n].list)) \in Amounts
  BY CountedType, KeptType DEF TypeOK, Recs
<1>2. [NoJob EXCEPT !.pc = "waiting", !.add = Counted(n, Kept(rec[n].list))] \in Jobs
  BY <1>1 DEF NoJob, Jobs
<1>3. jobs' \in [Slots -> Jobs] /\ failed' \in SUBSET Faults
  BY <1>2 DEF TypeOK, RecordCount, Fault
<1>4. /\ rec' \in [Nodes -> Recs]
      /\ \A m \in Nodes : rec'[m].pc \in {"got", "stored", "counted"} =>
           rec'[m].list # Nothing
  <2>1. CASE RecGoto(n, "counted")
    BY <2>1 DEF TypeOK, RecordCount, RecGoto, Recs
  <2>2. CASE RecEnd(n)
    BY <2>2, EmptyTypes DEF TypeOK, RecEnd, NoRec
  <2>. QED BY <2>1, <2>2 DEF RecordCount
<1>. QED BY <1>3, <1>4 DEF TypeOK, RecordCount, redisVars, dbVars

LEMMA RecordPushType == ASSUME TypeOK, NEW n \in Nodes, RecordPush(n)
                        PROVE  TypeOK'
<1>1. push' \in [Nodes -> Pushes]
  BY DEF TypeOK, RecordPush, Pushes
<1>2. late' \in SUBSET Nodes /\ failed' \in SUBSET Faults
  BY DEF TypeOK, RecordPush, Fault
<1>3. /\ rec' \in [Nodes -> Recs]
      /\ \A m \in Nodes : rec'[m].pc \in {"got", "stored", "counted"} =>
           rec'[m].list # Nothing
  BY EmptyTypes DEF TypeOK, RecordPush, RecEnd, NoRec
<1>. QED BY <1>1, <1>2, <1>3 DEF TypeOK, RecordPush, dbVars

LEMMA ExpireType == ASSUME TypeOK, NEW n \in Nodes, Expire(n)
                    PROVE  TypeOK'
BY NothingType DEF TypeOK, Expire, Fault, dbVars

LEMMA PushTakeType == ASSUME TypeOK, NEW n \in Nodes, PushTake(n)
                      PROVE  TypeOK'
<1>1. hash' \in [Nodes -> Amounts] /\ processing' \in [Nodes -> Amounts]
  BY NothingType DEF TypeOK, PushTake
<1>2. push' \in [Nodes -> Pushes]
  BY DEF TypeOK, PushTake, PushGoto, Pushes
<1>3. failed' \in SUBSET Faults
  BY DEF TypeOK, PushTake, Fault
<1>. QED BY <1>1, <1>2, <1>3 DEF TypeOK, PushTake, dbVars

LEMMA PushStoreType == ASSUME TypeOK, NEW n \in Nodes, PushStore(n)
                       PROVE  TypeOK'
<1>1. history' \in [Nodes -> Amounts] /\ failed' \in SUBSET Faults
  BY PlusType DEF TypeOK, PushStore, Fault
<1>2. push' \in [Nodes -> Pushes]
  BY DEF TypeOK, PushStore, PushGoto, Pushes
<1>. QED BY <1>1, <1>2 DEF TypeOK, PushStore

LEMMA PushCleanType == ASSUME TypeOK, NEW n \in Nodes, PushClean(n)
                       PROVE  TypeOK'
BY NothingType, EmptyTypes DEF TypeOK, PushClean, Fault, dbVars

LEMMA UsageTakeType == ASSUME TypeOK, NEW s \in Slots, UsageTake(s)
                       PROVE  TypeOK'
BY DEF TypeOK, UsageTake, Jobs, redisVars, dbVars, boundVars

LEMMA UsageApplyType == ASSUME TypeOK, NEW s \in Slots, UsageApply(s)
                        PROVE  TypeOK'
<1>1. jobs[s].add \in Amounts BY DEF TypeOK, Jobs
<1>2. used' \in Amounts /\ lifetime' \in Amounts /\ failed' \in SUBSET Faults
  BY <1>1, PlusType DEF TypeOK, UsageApply, Fault
<1>3. jobs' \in [Slots -> Jobs] BY DEF TypeOK, UsageApply, Jobs
<1>. QED BY <1>2, <1>3 DEF TypeOK, UsageApply, redisVars

LEMMA UsageDoneType == ASSUME TypeOK, NEW s \in Slots, UsageDone(s)
                       PROVE  TypeOK'
BY EmptyTypes DEF TypeOK, UsageDone, redisVars, dbVars, boundVars

LEMMA ResetEnqueueType == ASSUME TypeOK, ResetEnqueue PROVE TypeOK'
BY DEF TypeOK, ResetEnqueue, ResetGoto, Resets, redisVars, dbVars

LEMMA ResetPauseType == ASSUME TypeOK, ResetPause PROVE TypeOK'
BY DEF TypeOK, ResetPause, ResetGoto, Resets, redisVars, dbVars, boundVars

LEMMA ResetBeginType == ASSUME TypeOK, ResetBegin PROVE TypeOK'
BY DEF TypeOK, ResetBegin, ResetGoto, Resets, Fault, redisVars, dbVars

LEMMA ResetSelectType == ASSUME TypeOK, ResetSelect PROVE TypeOK'
BY DEF TypeOK, ResetSelect, ResetGoto, Resets, Fault, redisVars, dbVars

LEMMA ResetWriteType == ASSUME TypeOK, ResetWrite PROVE TypeOK'
BY ZeroedType DEF TypeOK, ResetWrite, Resets, Fault, redisVars

LEMMA ResetLimitedType == ASSUME TypeOK, ResetLimited PROVE TypeOK'
<1>1. used' \in Amounts /\ limited' \in SUBSET Users /\ failed' \in SUBSET Faults
  BY ZeroedType DEF TypeOK, ResetLimited, Fault
<1>2. reset' \in Resets BY DEF TypeOK, ResetLimited, ResetGoto, Resets
<1>. QED BY <1>1, <1>2 DEF TypeOK, ResetLimited, redisVars

LEMMA ResetResumeType == ASSUME TypeOK, ResetResume PROVE TypeOK'
BY EmptyTypes DEF TypeOK, ResetResume, redisVars, dbVars, boundVars

LEMMA WatchdogType == ASSUME TypeOK, Watchdog PROVE TypeOK'
BY DEF TypeOK, Watchdog, redisVars, boundVars

LEMMA WorkerDiesType == ASSUME TypeOK, WorkerDies PROVE TypeOK'
<1>1. /\ rec' \in [Nodes -> Recs]
      /\ \A m \in Nodes : rec'[m].pc \in {"got", "stored", "counted"} =>
           rec'[m].list # Nothing
  BY EmptyTypes DEF TypeOK, WorkerDies, Stalled, NoRec, Recs
<1>2. push' \in [Nodes -> Pushes]
  BY EmptyTypes DEF TypeOK, WorkerDies, Stalled, NoPush, Pushes
<1>3. jobs' \in [Slots -> Jobs]
  BY EmptyTypes DEF TypeOK, WorkerDies, Stalled, Jobs
<1>4. reset' \in Resets
  BY EmptyTypes DEF TypeOK, WorkerDies, Stalled, NoReset, Resets
<1>. QED BY <1>1, <1>2, <1>3, <1>4 DEF TypeOK, WorkerDies, dbVars

LEMMA TypeInit == Init => TypeOK
<1>. SUFFICES ASSUME Init PROVE TypeOK
  OBVIOUS
<1>1. /\ rec \in [Nodes -> Recs] /\ push \in [Nodes -> Pushes]
      /\ jobs \in [Slots -> Jobs] /\ reset \in Resets
  BY EmptyTypes DEF Init
<1>2. \A n \in Nodes : rec[n].pc = "none"
  BY DEF Init, NoRec
<1>. QED BY <1>1, <1>2, NothingType DEF Init, TypeOK

LEMMA TypeStep == TypeOK /\ [Next]_vars => TypeOK'
<1>. SUFFICES ASSUME TypeOK, [Next]_vars PROVE TypeOK'
  OBVIOUS
<1>1. CASE UNCHANGED vars
  BY <1>1 DEF TypeOK, vars, redisVars, dbVars, boundVars
<1>2. ASSUME NEW n \in Nodes, NEW u \in Users, Traffic(n, u) PROVE TypeOK'
  BY <1>2, TrafficType
<1>3. ASSUME NEW n \in Nodes, RecordEnqueue(n) PROVE TypeOK'
  BY <1>3, RecordEnqueueType
<1>4. ASSUME NEW n \in Nodes, RecordStats(n) PROVE TypeOK'
  BY <1>4, RecordStatsType
<1>5. ASSUME NEW n \in Nodes, RecordStore(n) PROVE TypeOK'
  BY <1>5, RecordStoreType
<1>6. ASSUME NEW n \in Nodes, RecordCount(n) PROVE TypeOK'
  BY <1>6, RecordCountType
<1>7. ASSUME NEW n \in Nodes, RecordPush(n) PROVE TypeOK'
  BY <1>7, RecordPushType
<1>8. ASSUME NEW n \in Nodes, Expire(n) PROVE TypeOK'
  BY <1>8, ExpireType
<1>9. ASSUME NEW n \in Nodes, PushTake(n) PROVE TypeOK'
  BY <1>9, PushTakeType
<1>10. ASSUME NEW n \in Nodes, PushStore(n) PROVE TypeOK'
  BY <1>10, PushStoreType
<1>11. ASSUME NEW n \in Nodes, PushClean(n) PROVE TypeOK'
  BY <1>11, PushCleanType
<1>12. ASSUME NEW s \in Slots, UsageTake(s) PROVE TypeOK'
  BY <1>12, UsageTakeType
<1>13. ASSUME NEW s \in Slots, UsageApply(s) PROVE TypeOK'
  BY <1>13, UsageApplyType
<1>14. ASSUME NEW s \in Slots, UsageDone(s) PROVE TypeOK'
  BY <1>14, UsageDoneType
<1>15. CASE ResetEnqueue BY <1>15, ResetEnqueueType
<1>16. CASE ResetPause BY <1>16, ResetPauseType
<1>17. CASE ResetBegin BY <1>17, ResetBeginType
<1>18. CASE ResetSelect BY <1>18, ResetSelectType
<1>19. CASE ResetWrite BY <1>19, ResetWriteType
<1>20. CASE ResetLimited BY <1>20, ResetLimitedType
<1>21. CASE ResetResume BY <1>21, ResetResumeType
<1>22. CASE Watchdog BY <1>22, WatchdogType
<1>23. CASE WorkerDies BY <1>23, WorkerDiesType
<1>. QED
  BY <1>1, <1>2, <1>3, <1>4, <1>5, <1>6, <1>7, <1>8, <1>9, <1>10, <1>11, <1>12, <1>13, <1>14, <1>15, <1>16, <1>17, <1>18, <1>19, <1>20, <1>21, <1>22, <1>23
  DEF Next, Record, Push, Usage, Reset

\* Counters, hashes, tables and jobs hold values of their kinds, and a job that
\* has got an answer from a node has got something to record.
THEOREM TypeCorrect == Spec => []TypeOK
BY TypeInit, TypeStep, PTL DEF Spec

-----------------------------------------------------------------------------
(* The history.                                                            *)

LEMMA FaultsGrow == ASSUME TypeOK, Next
                    PROVE  failed \subseteq failed' /\ deaths <= deaths'
                           /\ deaths' \in Nat
<1>1. CASE WorkerDies BY <1>1 DEF WorkerDies, TypeOK
<1>2. ASSUME NEW n \in Nodes,
             \/ \E u \in Users : Traffic(n, u)
             \/ RecordEnqueue(n) \/ Record(n) \/ Push(n) \/ Expire(n)
      PROVE  failed \subseteq failed' /\ deaths' = deaths
  BY <1>2 DEF Traffic, RecordEnqueue, Record, RecordStats, RecordStore, RecordCount,
    RecordPush, Push, PushTake, PushStore, PushClean, Expire, Fault, boundVars
<1>3. ASSUME NEW s \in Slots, Usage(s)
      PROVE  failed \subseteq failed' /\ deaths' = deaths
  BY <1>3 DEF Usage, UsageTake, UsageApply, UsageDone, Fault, boundVars
<1>4. CASE ResetEnqueue \/ Reset \/ Watchdog
  <2>1. failed \subseteq failed' /\ deaths' = deaths
    BY <1>4 DEF ResetEnqueue, Reset, ResetPause, ResetBegin, ResetSelect, ResetWrite,
      ResetLimited, ResetResume, Watchdog, Fault, boundVars
  <2>. QED BY <2>1 DEF TypeOK
<1>. QED BY <1>1, <1>2, <1>3, <1>4 DEF Next, TypeOK

LEMMA LosslessBefore == ASSUME TypeOK, Next, Lossless' PROVE Lossless
<1>1. failed \subseteq failed' /\ deaths <= deaths' /\ deaths \in Nat
  BY FaultsGrow DEF TypeOK
<1>2. failed' \subseteq {"slow"} /\ deaths' = 0 /\ IgnoreBelow <= 1
  BY DEF Lossless
<1>3. failed \subseteq {"slow"} BY <1>1, <1>2
<1>4. deaths = 0 BY <1>1, <1>2
<1>. QED BY <1>2, <1>3, <1>4 DEF Lossless

LEMMA KeptAll == ASSUME NEW a \in Amounts, NEW u \in Users
                 PROVE  Kept(a)[u] \in Nat /\ Kept(a)[u] <= a[u]
                        /\ (IgnoreBelow <= 1 => Kept(a)[u] = a[u])
BY LimitAssumption DEF Kept, Amounts

\* What HistoryKept says of one user over one node.
KeptFor(n, u) ==
  /\ ToHistory(n, u) <= sent[n][u]
  /\ Lossless => ToHistory(n, u) = sent[n][u]

LEMMA ToHistoryType == ASSUME TypeOK, NEW n \in Nodes, NEW u \in Users
                       PROVE  ToHistory(n, u) \in Nat /\ sent[n][u] \in Nat
<1>1. counter[n][u] \in Nat /\ hash[n][u] \in Nat /\ processing[n][u] \in Nat
      /\ history[n][u] \in Nat /\ rec[n].list[u] \in Nat /\ sent[n][u] \in Nat
  BY DEF TypeOK, Recs, Amounts
<1>. QED BY <1>1 DEF ToHistory

LEMMA KeptAfter ==
  ASSUME TypeOK, TypeOK', Next, NEW n \in Nodes, NEW u \in Users, KeptFor(n, u),
         UNCHANGED sent[n][u], ToHistory(n, u)' <= ToHistory(n, u),
         Lossless' => ToHistory(n, u)' = ToHistory(n, u)
  PROVE  KeptFor(n, u)'
<1>1. /\ ToHistory(n, u) \in Nat /\ ToHistory(n, u)' \in Nat
      /\ sent[n][u] \in Nat /\ sent'[n][u] \in Nat
  <2>1. ToHistory(n, u) \in Nat /\ sent[n][u] \in Nat BY ToHistoryType
  <2>2. /\ counter'[n][u] \in Nat /\ hash'[n][u] \in Nat /\ processing'[n][u] \in Nat
        /\ history'[n][u] \in Nat /\ rec'[n].list[u] \in Nat /\ sent'[n][u] \in Nat
    BY DEF TypeOK, Recs, Amounts
  <2>. QED BY <2>1, <2>2 DEF ToHistory
<1>. QED BY <1>1, LosslessBefore DEF KeptFor

LEMMA KeptFrame ==
  ASSUME TypeOK, TypeOK', Next, NEW n \in Nodes, NEW u \in Users, KeptFor(n, u),
         UNCHANGED <<counter[n], rec[n], hash[n], processing[n], push[n],
                     history[n], sent[n]>>
  PROVE  KeptFor(n, u)'
<1>1. ToHistory(n, u)' = ToHistory(n, u) BY DEF ToHistory
<1>2. ToHistory(n, u) \in Nat BY ToHistoryType
<1>. QED BY <1>1, <1>2, KeptAfter

LEMMA HistoryStep == TypeOK /\ TypeOK' /\ HistoryKept /\ [Next]_vars => HistoryKept'
<1>. SUFFICES ASSUME TypeOK, TypeOK', HistoryKept, [Next]_vars,
                     NEW m \in Nodes, NEW v \in Users
              PROVE  KeptFor(m, v)'
  BY DEF HistoryKept, KeptFor
<1>0. KeptFor(m, v) BY DEF HistoryKept, KeptFor
<1>1. CASE UNCHANGED vars
  BY <1>0, <1>1 DEF vars, redisVars, dbVars, boundVars, KeptFor, ToHistory, Lossless
<1>. SUFFICES ASSUME Next PROVE KeptFor(m, v)'
  BY <1>1
<1>t. /\ counter[m][v] \in Nat /\ hash[m][v] \in Nat
      /\ processing[m][v] \in Nat /\ history[m][v] \in Nat
      /\ rec[m].list[v] \in Nat /\ rec[m].list \in Amounts
      /\ sent[m][v] \in Nat
  BY DEF TypeOK, Recs, Amounts
<1>k. /\ Kept(rec[m].list)[v] \in Nat
      /\ Kept(rec[m].list)[v] <= rec[m].list[v]
      /\ IgnoreBelow <= 1 => Kept(rec[m].list)[v] = rec[m].list[v]
  BY <1>t, KeptAll
<1>2. ASSUME NEW n \in Nodes, NEW u \in Users, Traffic(n, u) PROVE KeptFor(m, v)'
  <2>1. UNCHANGED <<rec, hash, processing, push, history, failed, deaths>>
    BY <1>2 DEF Traffic, redisVars, dbVars, boundVars
  <2>2. CASE m = n /\ v = u
    <3>1. counter'[m][v] = counter[m][v] + 1 /\ sent'[m][v] = sent[m][v] + 1
      BY <1>2, <2>2 DEF Traffic, TypeOK, Amounts
    <3>. QED BY <1>0, <1>t, <2>1, <3>1 DEF KeptFor, ToHistory, Lossless
  <2>3. CASE ~(m = n /\ v = u)
    <3>1. counter'[m][v] = counter[m][v] /\ sent'[m][v] = sent[m][v]
      BY <1>2, <2>3 DEF Traffic, TypeOK, Amounts
    <3>. QED BY <1>0, <1>t, <2>1, <3>1 DEF KeptFor, ToHistory, Lossless
  <2>. QED BY <2>2, <2>3
<1>3. ASSUME NEW n \in Nodes, Record(n) \/ RecordEnqueue(n) \/ Push(n) \/ Expire(n),
             m # n
      PROVE  KeptFor(m, v)'
  BY <1>0, <1>3, KeptFrame
  DEF Record, Push, RecordEnqueue, RecordStats, RecordStore, RecordCount,
    RecordPush, PushTake, PushStore, PushClean, Expire, RecGoto, RecEnd, PushGoto,
    TypeOK, redisVars, dbVars
<1>4. CASE RecordEnqueue(m)
  <2>1. ToHistory(m, v)' = ToHistory(m, v) /\ UNCHANGED sent
    BY <1>4 DEF RecordEnqueue, RecGoto, ToHistory, TypeOK, redisVars, dbVars
  <2>. QED BY <1>0, <2>1, ToHistoryType, KeptAfter
<1>5. CASE RecordStats(m)
  <2>1. UNCHANGED <<hash, processing, push, history, sent>> /\ rec[m].pc = "waiting"
    BY <1>5 DEF RecordStats, redisVars, dbVars
  <2>2. CASE rec' = [rec EXCEPT ![m] = IF counter[m] = Nothing THEN NoRec
                       ELSE [@ EXCEPT !.pc = "got", !.list = counter[m]]]
             /\ counter' = [counter EXCEPT ![m] = Nothing]
    <3>1. counter'[m][v] = 0 BY <2>2 DEF TypeOK, Nothing
    <3>2. IF counter[m] = Nothing THEN rec'[m].pc = "none"
          ELSE rec'[m].pc = "got" /\ rec'[m].list = counter[m]
      BY <2>2 DEF TypeOK, Recs, NoRec
    <3>3. counter[m] = Nothing => counter[m][v] = 0 BY DEF Nothing
    <3>4. ToHistory(m, v)' = ToHistory(m, v)
      BY <1>t, <2>1, <3>1, <3>2, <3>3 DEF ToHistory
    <3>. QED BY <1>0, <2>1, <3>4, ToHistoryType, KeptAfter
  <2>3. CASE Fault("net") /\ RecEnd(m)
             /\ counter' \in {counter, [counter EXCEPT ![m] = Nothing]}
    <3>1. ~Lossless' BY <2>3 DEF Fault, Lossless
    <3>2. counter'[m][v] \in {counter[m][v], 0} BY <2>3 DEF TypeOK, Nothing
    <3>3. rec'[m].pc = "none" BY <2>3 DEF RecEnd, NoRec, TypeOK
    <3>4. ToHistory(m, v)' <= ToHistory(m, v)
      BY <1>t, <2>1, <3>2, <3>3 DEF ToHistory
    <3>. QED BY <1>0, <2>1, <3>1, <3>4, KeptAfter
  <2>. QED BY <1>5, <2>2, <2>3 DEF RecordStats
<1>6. CASE RecordStore(m)
  <2>1. UNCHANGED <<counter, processing, push, history, sent>> /\ rec[m].pc = "got"
        /\ rec'[m].pc \in {"stored", "none"}
    BY <1>6 DEF RecordStore, RecGoto, RecEnd, NoRec, TypeOK, Recs, dbVars
  <2>2. Plus(hash[m], Kept(rec[m].list))[v] = hash[m][v] + Kept(rec[m].list)[v]
    BY DEF Plus
  <2>3. CASE hash' = [hash EXCEPT ![m] = Plus(@, Kept(rec[m].list))]
    <3>1. hash'[m][v] = hash[m][v] + Kept(rec[m].list)[v] BY <2>2, <2>3 DEF TypeOK
    <3>2. ToHistory(m, v)' <= ToHistory(m, v)
          /\ (IgnoreBelow <= 1 => ToHistory(m, v)' = ToHistory(m, v))
      BY <1>t, <1>k, <2>1, <3>1 DEF ToHistory
    <3>. QED BY <1>0, <2>1, <3>2, KeptAfter DEF Lossless
  <2>4. CASE Fault("redis") /\ hash' = hash
    <3>1. ~Lossless' BY <2>4 DEF Fault, Lossless
    <3>2. ToHistory(m, v)' <= ToHistory(m, v) BY <1>t, <2>1, <2>4 DEF ToHistory
    <3>. QED BY <1>0, <2>1, <3>1, <3>2, KeptAfter
  <2>. QED BY <1>6, <2>3, <2>4 DEF RecordStore
<1>7. CASE RecordCount(m) \/ RecordPush(m)
  <2>1. /\ UNCHANGED <<counter, hash, processing, history, sent>>
        /\ rec[m].pc # "got" /\ rec'[m].pc # "got"
        /\ push[m].pc = "scan" <=> push'[m].pc = "scan"
    BY <1>7 DEF RecordCount, RecordPush, RecGoto, RecEnd, NoRec, TypeOK, Recs,
      Pushes, redisVars, dbVars
  <2>2. ToHistory(m, v)' = ToHistory(m, v) BY <2>1 DEF ToHistory
  <2>. QED BY <1>0, <2>1, <2>2, ToHistoryType, KeptAfter
<1>8. CASE Expire(m)
  <2>1. ~Lossless' BY <1>8 DEF Expire, Fault, Lossless
  <2>2. UNCHANGED <<counter, rec, processing, push, history, sent>>
        /\ hash'[m][v] = 0
    BY <1>8 DEF Expire, Nothing, TypeOK, dbVars
  <2>3. ToHistory(m, v)' <= ToHistory(m, v) BY <1>t, <2>2 DEF ToHistory
  <2>. QED BY <1>0, <2>1, <2>2, <2>3, KeptAfter
<1>9. CASE PushTake(m)
  <2>1. UNCHANGED <<counter, rec, history, sent>> /\ push[m].pc = "waiting"
    BY <1>9 DEF PushTake, dbVars
  <2>2. CASE /\ processing' = [processing EXCEPT ![m] = hash[m]]
             /\ hash' = [hash EXCEPT ![m] = Nothing]
             /\ PushGoto(m, "scan")
    <3>1. processing'[m][v] = hash[m][v] /\ hash'[m][v] = 0 /\ push'[m].pc = "scan"
      BY <2>2 DEF TypeOK, Nothing, PushGoto, Pushes
    <3>2. ToHistory(m, v)' = ToHistory(m, v) BY <1>t, <2>1, <3>1 DEF ToHistory
    <3>. QED BY <1>0, <2>1, <3>2, ToHistoryType, KeptAfter
  <2>3. CASE PushGoto(m, "clean") /\ UNCHANGED <<hash, processing>>
    <3>1. push'[m].pc = "clean" BY <2>3 DEF TypeOK, PushGoto, Pushes
    <3>2. ToHistory(m, v)' = ToHistory(m, v) BY <2>1, <2>3, <3>1 DEF ToHistory
    <3>. QED BY <1>0, <2>1, <3>2, ToHistoryType, KeptAfter
  <2>. QED BY <1>9, <2>2, <2>3 DEF PushTake
<1>10. CASE PushStore(m)
  <2>1. /\ UNCHANGED <<counter, rec, hash, processing, sent>>
        /\ push[m].pc = "scan" /\ push'[m].pc = "clean"
    BY <1>10 DEF PushStore, PushGoto, TypeOK, Pushes
  <2>2. CASE history' = [history EXCEPT ![m] = Plus(@, processing[m])]
    <3>1. history'[m][v] = history[m][v] + processing[m][v]
      BY <2>2 DEF TypeOK, Plus
    <3>2. ToHistory(m, v)' = ToHistory(m, v) BY <1>t, <2>1, <3>1 DEF ToHistory
    <3>. QED BY <1>0, <2>1, <3>2, ToHistoryType, KeptAfter
  <2>3. CASE Fault("db") /\ UNCHANGED history
    <3>1. ~Lossless' BY <2>3 DEF Fault, Lossless
    <3>2. ToHistory(m, v)' <= ToHistory(m, v) BY <1>t, <2>1, <2>3 DEF ToHistory
    <3>. QED BY <1>0, <2>1, <3>1, <3>2, KeptAfter
  <2>. QED BY <1>10, <2>2, <2>3 DEF PushStore
<1>11. CASE PushClean(m)
  <2>1. /\ UNCHANGED <<counter, rec, hash, history, sent>>
        /\ push[m].pc = "clean" /\ push'[m].pc = "none"
    BY <1>11 DEF PushClean, NoPush, TypeOK, dbVars
  <2>2. ToHistory(m, v)' = ToHistory(m, v) BY <2>1 DEF ToHistory
  <2>. QED BY <1>0, <2>1, <2>2, ToHistoryType, KeptAfter
<1>12. CASE (\E s \in Slots : Usage(s)) \/ ResetEnqueue \/ Reset \/ Watchdog
  <2>1. UNCHANGED <<counter, rec, hash, processing, push, history, sent>>
    BY <1>12 DEF Usage, UsageTake, UsageApply, UsageDone, ResetEnqueue, Reset,
      ResetPause, ResetBegin, ResetSelect, ResetWrite, ResetLimited, ResetResume,
      Watchdog, redisVars, dbVars
  <2>. QED BY <1>0, <2>1, KeptFrame
<1>13. CASE WorkerDies
  <2>1. ~Lossless' BY <1>13 DEF WorkerDies, Lossless, TypeOK
  <2>2. /\ UNCHANGED <<counter, hash, processing, history, sent>>
        /\ rec'[m].pc # "got" /\ push'[m].pc # "scan"
    BY <1>13 DEF WorkerDies, Stalled, NoRec, NoPush, TypeOK, Recs, Pushes, dbVars
  <2>3. ToHistory(m, v)' <= ToHistory(m, v) BY <1>t, <2>2 DEF ToHistory
  <2>. QED BY <1>0, <2>1, <2>2, <2>3, KeptAfter
<1>. QED
  BY <1>2, <1>3, <1>4, <1>5, <1>6, <1>7, <1>8, <1>9, <1>10, <1>11, <1>12, <1>13
  DEF Next, Record, Push

LEMMA HistoryInit == Init => HistoryKept
BY DEF Init, HistoryKept, ToHistory, Nothing, NoRec, NoPush

\* No traffic is entered into the history twice, whatever fails, wherever the
\* workers die and whatever jobs are run again; and if nothing fails, none is
\* lost between the counters, the list, the two hashes and the table.
THEOREM HistoryIsKept == Spec => []HistoryKept
<1>1. TypeOK /\ HistoryKept /\ [Next]_vars => (TypeOK /\ HistoryKept)'
  BY TypeStep, HistoryStep
<1>2. Init => TypeOK /\ HistoryKept
  BY TypeInit, HistoryInit
<1>. QED BY <1>1, <1>2, PTL DEF Spec

-----------------------------------------------------------------------------
(* The hash and the job that pushes it.                                    *)

\* What HashIsPushed says of one node.
PushedFor(n) ==
  hash[n] # Nothing /\ failed \subseteq {"slow", "db", "net"} /\ deaths = 0 =>
    push[n].pc = "waiting" \/ rec[n].pc \in {"stored", "counted"} \/ n \in late

LEMMA HashStep == TypeOK /\ HashIsPushed /\ [Next]_vars => HashIsPushed'
<1>. SUFFICES ASSUME TypeOK, HashIsPushed, [Next]_vars, NEW m \in Nodes
              PROVE  PushedFor(m)'
  BY DEF HashIsPushed, PushedFor
<1>0. PushedFor(m) BY DEF HashIsPushed, PushedFor
<1>1. CASE UNCHANGED vars
  BY <1>0, <1>1 DEF vars, redisVars, dbVars, boundVars, PushedFor
<1>. SUFFICES ASSUME Next PROVE PushedFor(m)'
  BY <1>1
<1>2. failed' \subseteq {"slow", "db", "net"} /\ deaths' = 0 =>
        failed \subseteq {"slow", "db", "net"} /\ deaths = 0
  <2>1. failed \subseteq failed' /\ deaths <= deaths' /\ deaths \in Nat
    BY FaultsGrow DEF TypeOK
  <2>2. deaths' = 0 => deaths = 0 BY <2>1
  <2>. QED BY <2>1, <2>2
<1>3. ASSUME UNCHANGED <<hash[m], push[m], rec[m]>>, m \in late => m \in late'
      PROVE  PushedFor(m)'
  BY <1>0, <1>2, <1>3 DEF PushedFor
<1>4. ASSUME NEW n \in Nodes, Record(n) \/ RecordEnqueue(n) \/ Push(n) \/ Expire(n),
             m # n
      PROVE  PushedFor(m)'
  BY <1>3, <1>4
  DEF Record, Push, RecordEnqueue, RecordStats, RecordStore, RecordCount,
    RecordPush, PushTake, PushStore, PushClean, Expire, RecGoto, RecEnd, PushGoto,
    TypeOK, redisVars
<1>5. CASE RecordEnqueue(m) \/ RecordStats(m)
  <2>1. UNCHANGED <<hash, push, late>> /\ rec[m].pc \notin {"stored", "counted"}
    BY <1>5 DEF RecordEnqueue, RecordStats, redisVars
  <2>. QED BY <1>0, <1>2, <2>1 DEF PushedFor
<1>6. CASE RecordStore(m)
  <2>1. CASE RecGoto(m, "stored")
    BY <2>1 DEF PushedFor, RecGoto, TypeOK, Recs
  <2>2. CASE Fault("redis")
    BY <2>2 DEF Fault, PushedFor
  <2>. QED BY <1>6, <2>1, <2>2 DEF RecordStore
<1>7. CASE RecordCount(m)
  <2>1. CASE RecGoto(m, "counted")
    BY <2>1 DEF PushedFor, RecGoto, TypeOK, Recs
  <2>2. CASE Fault("redis")
    BY <2>2 DEF Fault, PushedFor
  <2>. QED BY <1>7, <2>1, <2>2 DEF RecordCount
<1>8. CASE RecordPush(m)
  <2>1. CASE push[m].pc = "none" /\ push' = [push EXCEPT ![m].pc = "waiting"]
    BY <2>1 DEF PushedFor, TypeOK, Pushes
  <2>2. CASE /\ push' = push
             /\ late' = IF push[m].pc = "waiting" THEN late ELSE late \cup {m}
    BY <2>2 DEF PushedFor
  <2>3. CASE Fault("redis")
    BY <2>3 DEF Fault, PushedFor
  <2>. QED BY <1>8, <2>1, <2>2, <2>3 DEF RecordPush
<1>9. CASE Expire(m)
  BY <1>9 DEF Expire, Fault, PushedFor
<1>10. CASE PushTake(m)
  <2>1. CASE hash' = [hash EXCEPT ![m] = Nothing] \/ (hash[m] = Nothing /\ hash' = hash)
    BY <2>1 DEF PushedFor, TypeOK
  <2>2. CASE Fault("redis")
    BY <2>2 DEF Fault, PushedFor
  <2>. QED BY <1>10, <2>1, <2>2 DEF PushTake
<1>11. CASE PushStore(m) \/ PushClean(m)
  <2>1. UNCHANGED <<hash, rec, late>> /\ push[m].pc # "waiting"
    BY <1>11 DEF PushStore, PushClean
  <2>. QED BY <1>0, <1>2, <2>1 DEF PushedFor
<1>12. CASE \/ \E n \in Nodes, u \in Users : Traffic(n, u)
            \/ \E s \in Slots : Usage(s)
            \/ ResetEnqueue \/ Reset \/ Watchdog
  BY <1>3, <1>12 DEF Traffic, Usage, UsageTake, UsageApply, UsageDone, ResetEnqueue,
    Reset, ResetPause, ResetBegin, ResetSelect, ResetWrite, ResetLimited,
    ResetResume, Watchdog, redisVars
<1>13. CASE WorkerDies
  BY <1>13 DEF WorkerDies, PushedFor, TypeOK
<1>. QED
  BY <1>4, <1>5, <1>6, <1>7, <1>8, <1>9, <1>10, <1>11, <1>12, <1>13
  DEF Next, Record, Push

LEMMA HashInit == Init => HashIsPushed
BY DEF Init, HashIsPushed

\* Traffic in the hash of a node is on its way: the job that will push it is in
\* its queue, or will be when the record that stored it ends, or the traffic was
\* stored while the push before was running.
THEOREM HashWillBePushed == Spec => []HashIsPushed
<1>1. TypeOK /\ HashIsPushed /\ [Next]_vars => (TypeOK /\ HashIsPushed)'
  BY TypeStep, HashStep
<1>2. Init => TypeOK /\ HashIsPushed
  BY TypeInit, HashInit
<1>. QED BY <1>1, <1>2, PTL DEF Spec

-----------------------------------------------------------------------------
(* Resets.  The queues stay paused from the first step of a reset to its   *)
(* last; a job that had begun is waited for; and a reset is given up only  *)
(* when the workers have died twice.                                       *)

Holding == {"throttle", "select", "write", "limited", "resume"}
Writing == {"select", "write", "limited"}

ResetInv ==
  /\ reset.pc \in Holding => paused
  /\ reset.pc \in Writing /\ "slow" \notin failed =>
       \A s \in Slots : jobs[s].pc \notin {"active", "applied"}
  /\ reset.stalled => deaths >= 1
  /\ PauseIsOwned
  /\ LimitedIsExceeded

LEMMA OutsideReset ==
  ASSUME TypeOK, ResetInv, UNCHANGED <<reset, paused, used, limited>>,
         failed \subseteq failed', deaths <= deaths', deaths' \in Nat,
         \A s \in Slots : jobs'[s].pc \in {"active", "applied"} =>
           ~paused \/ jobs[s].pc \in {"active", "applied"}
  PROVE  ResetInv'
<1>1. deaths \in Nat BY DEF TypeOK
<1>2. /\ reset'.pc \in Holding => paused'
      /\ reset'.pc \in Writing /\ "slow" \notin failed' =>
           \A s \in Slots : jobs'[s].pc \notin {"active", "applied"}
      /\ reset'.stalled => deaths' >= 1
  BY <1>1 DEF ResetInv, Holding, Writing
<1>3. PauseIsOwned' BY <1>1 DEF ResetInv, PauseIsOwned
<1>4. LimitedIsExceeded' BY <1>1 DEF ResetInv, LimitedIsExceeded
<1>. QED BY <1>2, <1>3, <1>4 DEF ResetInv

LEMMA UsedGrows ==
  ASSUME TypeOK, NEW s \in Slots, UsageApply(s), NEW u \in Users
  PROVE  used'[u] >= used[u] /\ used[u] \in Nat /\ used'[u] \in Nat
<1>1. used[u] \in Nat /\ jobs[s].add[u] \in Nat BY DEF TypeOK, Amounts, Jobs
<1>2. used'[u] = used[u] \/ used'[u] = used[u] + jobs[s].add[u]
  BY DEF UsageApply, Plus
<1>. QED BY <1>1, <1>2

LEMMA ResetInvStep == TypeOK /\ ResetInv /\ [Next]_vars => ResetInv'
<1>. SUFFICES ASSUME TypeOK, ResetInv, [Next]_vars PROVE ResetInv'
  OBVIOUS
<1>1. CASE UNCHANGED vars
  BY <1>1 DEF vars, redisVars, dbVars, boundVars, ResetInv, PauseIsOwned,
    LimitedIsExceeded
<1>. SUFFICES ASSUME Next PROVE ResetInv'
  BY <1>1
<1>2. /\ failed \subseteq failed' /\ deaths <= deaths'
      /\ deaths \in Nat /\ deaths' \in Nat
  BY FaultsGrow DEF TypeOK
<1>3. ASSUME NEW n \in Nodes,
             \/ \E u \in Users : Traffic(n, u)
             \/ RecordEnqueue(n) \/ Record(n) \/ Push(n) \/ Expire(n)
      PROVE  ResetInv'
  <2>1. UNCHANGED <<reset, paused, used, limited>>
    BY <1>3 DEF Traffic, RecordEnqueue, Record, RecordStats, RecordStore,
      RecordCount, RecordPush, Push, PushTake, PushStore, PushClean, Expire, dbVars
  <2>3. ASSUME NEW s \in Slots, jobs'[s].pc \in {"active", "applied"}
        PROVE  jobs[s].pc \in {"active", "applied"}
    <3>1. CASE UNCHANGED jobs BY <2>3, <3>1
    <3>2. CASE RecordCount(n)
      BY <2>3, <3>2 DEF RecordCount, NoJob, TypeOK, Jobs
    <3>. QED BY <1>3, <3>1, <3>2 DEF Traffic, RecordEnqueue, Record, RecordStats,
      RecordStore, RecordPush, Push, PushTake, PushStore, PushClean, Expire
  <2>. QED BY <1>2, <2>1, <2>3, OutsideReset
<1>4. ASSUME NEW s \in Slots, UsageTake(s) \/ UsageDone(s) PROVE ResetInv'
  <2>1. UNCHANGED <<reset, paused, used, limited, failed>>
    BY <1>4 DEF UsageTake, UsageDone, dbVars, boundVars
  <2>2. ASSUME NEW r \in Slots, jobs'[r].pc \in {"active", "applied"}
        PROVE  ~paused \/ jobs[r].pc \in {"active", "applied"}
    BY <1>4, <2>2 DEF UsageTake, UsageDone, NoJob, TypeOK, Jobs
  <2>. QED BY <1>2, <2>1, <2>2, OutsideReset
<1>5. ASSUME NEW s \in Slots, UsageApply(s) PROVE ResetInv'
  <2>1. UNCHANGED <<reset, paused, limited, deaths>> /\ jobs[s].pc = "active"
    BY <1>5 DEF UsageApply, Fault
  <2>2. \A r \in Slots : jobs'[r].pc \in {"active", "applied"} =>
          jobs[r].pc \in {"active", "applied"}
    BY <1>5 DEF UsageApply, TypeOK, Jobs
  <2>3. LimitedIsExceeded'
    <3>. SUFFICES ASSUME NEW u \in limited', used'[u] < Limit
                  PROVE  reset'.pc \notin {"none", "resume"} \/ "db" \in failed'
                         \/ deaths' >= 2
      BY DEF LimitedIsExceeded
    <3>1. u \in limited /\ u \in Users BY <2>1 DEF TypeOK
    <3>2. used[u] < Limit BY <1>5, <3>1, UsedGrows, LimitAssumption
    <3>. QED BY <1>2, <2>1, <3>1, <3>2 DEF ResetInv, LimitedIsExceeded
  <2>. QED BY <1>2, <2>1, <2>2, <2>3 DEF ResetInv, PauseIsOwned, Holding, Writing
<1>6. CASE ResetEnqueue \/ ResetPause
  <2>1. UNCHANGED <<jobs, used, limited, failed, deaths>>
        /\ reset.pc \in {"none", "waiting"} /\ reset'.pc \in {"waiting", "throttle"}
        /\ (reset'.pc = "throttle" => paused') /\ reset'.stalled = reset.stalled
    BY <1>6 DEF ResetEnqueue, ResetPause, ResetGoto, TypeOK, Resets, dbVars, boundVars
  <2>. QED BY <2>1 DEF ResetInv, PauseIsOwned, LimitedIsExceeded, Holding, Writing
<1>7. CASE ResetBegin
  <2>1. UNCHANGED <<jobs, paused, used, limited, deaths>>
        /\ reset.pc = "throttle" /\ reset'.pc = "select"
        /\ reset'.stalled = reset.stalled
    BY <1>7 DEF ResetBegin, ResetGoto, TypeOK, Resets, dbVars
  <2>2. "slow" \notin failed' =>
          \A s \in Slots : jobs[s].pc \notin {"active", "applied"}
    BY <1>7 DEF ResetBegin, InProgress, Fault
  <2>. QED BY <2>1, <2>2 DEF ResetInv, PauseIsOwned, LimitedIsExceeded, Holding,
    Writing
<1>8. CASE ResetSelect \/ ResetWrite
  <2>1. UNCHANGED <<jobs, paused, limited, deaths>>
        /\ reset.pc \in Writing /\ reset'.pc \in {"write", "limited"}
        /\ reset'.stalled = reset.stalled
    BY <1>8 DEF ResetSelect, ResetWrite, ResetGoto, Fault, Writing, TypeOK, Resets,
      dbVars
  <2>2. paused' /\ (reset'.stalled => deaths' >= 1)
    BY <2>1 DEF ResetInv, Holding, Writing
  <2>3. "slow" \notin failed' =>
          \A s \in Slots : jobs'[s].pc \notin {"active", "applied"}
    <3>1. reset.pc \in Writing BY <2>1
    <3>2. jobs' = jobs BY <2>1
    <3>3. "slow" \notin failed' => "slow" \notin failed
      BY <1>2
    <3>. QED BY <3>1, <3>2, <3>3 DEF ResetInv
  <2>. QED BY <2>1, <2>2, <2>3 DEF ResetInv, PauseIsOwned, LimitedIsExceeded
<1>9. CASE ResetLimited
  <2>1. UNCHANGED <<jobs, paused, deaths>>
        /\ reset.pc = "limited" /\ reset'.pc = "resume"
        /\ reset'.stalled = reset.stalled
        /\ (limited' = {} \/ "db" \in failed')
    BY <1>9 DEF ResetLimited, ResetGoto, Fault, TypeOK, Resets
  <2>. QED BY <2>1 DEF ResetInv, PauseIsOwned, LimitedIsExceeded, Holding, Writing
<1>10. CASE ResetResume
  <2>1. UNCHANGED <<jobs, used, limited, failed, deaths>> /\ reset.pc = "resume"
        /\ paused' = FALSE /\ reset'.pc = "none" /\ reset'.stalled = FALSE
    BY <1>10 DEF ResetResume, NoReset, dbVars, boundVars
  <2>. QED BY <2>1 DEF ResetInv, PauseIsOwned, LimitedIsExceeded, Holding, Writing
<1>11. CASE Watchdog
  <2>1. UNCHANGED <<jobs, paused, reset, used, failed, deaths>>
        /\ limited' = limited \cup {u \in Users : used[u] >= Limit}
    BY <1>11 DEF Watchdog, boundVars
  <2>2. LimitedIsExceeded'
    <3>. SUFFICES ASSUME NEW u \in limited', used[u] < Limit
                  PROVE  reset.pc \notin {"none", "resume"} \/ "db" \in failed
                         \/ deaths >= 2
      BY <2>1 DEF LimitedIsExceeded
    <3>1. ~(u \in Users /\ used[u] >= Limit)
      BY LimitAssumption DEF TypeOK, Amounts
    <3>2. u \in limited BY <2>1, <3>1
    <3>. QED BY <3>2 DEF ResetInv, LimitedIsExceeded
  <2>. QED BY <2>1, <2>2 DEF ResetInv, PauseIsOwned, Holding, Writing
<1>12. CASE WorkerDies
  <2>1. UNCHANGED <<paused, used, limited, failed>> /\ deaths' = deaths + 1
        /\ reset' = Stalled(reset, NoReset, NoReset)
    BY <1>12 DEF WorkerDies, dbVars
  <2>2. reset'.pc \in {"none", "waiting"} /\ (reset'.stalled => deaths' >= 1)
    BY <1>2, <2>1 DEF Stalled, NoReset, ResetInv
  <2>3. reset'.pc = "none" => reset.pc = "none" \/ deaths' >= 2
    BY <1>2, <2>1 DEF Stalled, NoReset, ResetInv
  <2>4. PauseIsOwned' BY <1>2, <2>1, <2>3 DEF ResetInv, PauseIsOwned
  <2>5. LimitedIsExceeded'
    BY <1>2, <2>1, <2>2, <2>3 DEF ResetInv, LimitedIsExceeded
  <2>. QED BY <2>2, <2>4, <2>5 DEF ResetInv, Holding, Writing
<1>. QED
  BY <1>3, <1>4, <1>5, <1>6, <1>7, <1>8, <1>9, <1>10, <1>11, <1>12
  DEF Next, Usage, Reset

LEMMA ResetInvInit == Init => ResetInv
BY DEF Init, ResetInv, PauseIsOwned, LimitedIsExceeded, NoReset, Holding, Writing

\* What a reset relies on, and what it owns, holds in every state: the two
\* properties below are parts of it, and ResetIsolated follows from it.
THEOREM ResetInvariant == Spec => [](TypeOK /\ ResetInv)
<1>1. TypeOK /\ ResetInv /\ [Next]_vars => (TypeOK /\ ResetInv)'
  BY TypeStep, ResetInvStep
<1>2. Init => TypeOK /\ ResetInv
  BY TypeInit, ResetInvInit
<1>. QED BY <1>1, <1>2, PTL DEF Spec

\* The queues are paused only while a job that resumes them is in its queue,
\* unless BullMQ has failed that job because its worker died twice.
THEOREM PauseHasOwner == Spec => []PauseIsOwned
BY ResetInvariant, PTL DEF ResetInv

\* A user below the limit is not LIMITED, unless a reset is about to activate
\* the user, or could not.
THEOREM LimitedHasExceeded == Spec => []LimitedIsExceeded
BY ResetInvariant, PTL DEF ResetInv

LEMMA IsolatedStep ==
  ASSUME TypeOK, ResetInv, [Next]_vars, reset.pc \in Writing, "slow" \notin failed,
         NEW u \in Users
  PROVE  used'[u] <= used[u]
<1>1. used[u] \in Nat BY DEF TypeOK, Amounts
<1>2. \A s \in Slots : ~UsageApply(s)
  BY DEF ResetInv, UsageApply
<1>3. CASE ResetWrite \/ ResetLimited
  <2>1. used'[u] \in {0, used[u]} BY <1>3 DEF ResetWrite, ResetLimited, Zeroed
  <2>. QED BY <1>1, <2>1
<1>4. CASE ~ResetWrite /\ ~ResetLimited
  <2>1. UNCHANGED used
    BY <1>2, <1>4
    DEF Next, vars, dbVars, Traffic, RecordEnqueue, Record, RecordStats, RecordStore,
      RecordCount, RecordPush, Push, PushTake, PushStore, PushClean, Expire, Usage,
      UsageTake, UsageDone, ResetEnqueue, Reset, ResetPause, ResetBegin, ResetSelect,
      ResetResume, Watchdog, WorkerDies
  <2>. QED BY <1>1, <2>1
<1>. QED BY <1>3, <1>4

\* While a reset writes, no job increments what it sets to zero, unless a job
\* outlasted the throttling.
THEOREM ResetsAreIsolated == Spec => ResetIsolated
<1>1. TypeOK /\ ResetInv /\ [Next]_vars =>
        [reset.pc \in {"select", "write", "limited"} /\ "slow" \notin failed =>
           \A u \in Users : used'[u] <= used[u]]_vars
  BY IsolatedStep DEF Writing
<1>. QED BY <1>1, ResetInvariant, PTL DEF Spec, ResetIsolated

-----------------------------------------------------------------------------
(* Sums over finite sets.  A sum is defined by recursion on subsets; what    *)
(* holds of it is shown with a smallest set of which it would not hold.     *)

Pick(s) == CHOOSE x \in s : TRUE

\* g has the sum of f over each subset of S.
Sums(f, S, g) ==
  g = [s \in SUBSET S |-> IF s = {} THEN 0 ELSE f[Pick(s)] + g[s \ {Pick(s)}]]
Partial(f, S) == CHOOSE g : Sums(f, S, g)

LEMMA SumIsPartial == \A f : SumFunction(f) = Partial(f, DOMAIN f)[DOMAIN f]
  BY DEF SumFunction, SumFunctionOnSet, FoldFunctionOnSet,
         MapThenFoldSet, Partial, Sums, Pick

\* A set of finite sets has a smallest one.
LEMMA LeastSet ==
  ASSUME NEW S, IsFiniteSet(S), NEW T \in SUBSET (SUBSET S), T # {}
  PROVE  \E s \in T : \A t \in SUBSET s : t # s => t \notin T
<1>1. SUBSET S = FiniteSubsetsOf(S)
  BY FS_FiniteSubsetsOfFinite
<1>2. IsWellFoundedOn(StrictSubsetOrdering(S), SUBSET S)
  BY <1>1, FS_StrictSubsetOrderingWellFounded
<1>3. PICK s \in T : \A t \in T : <<t, s>> \notin StrictSubsetOrdering(S)
  BY <1>2, WFMin
<1>4. ASSUME NEW t \in SUBSET s, t # s, t \in T PROVE FALSE
  <2>1. <<t, s>> \in StrictSubsetOrdering(S)
    BY <1>4 DEF StrictSubsetOrdering
  <2> QED BY <1>3, <1>4, <2>1
<1> QED BY <1>4

LEMMA PickIn == \A s : s # {} => Pick(s) \in s
  BY DEF Pick

LEMMA SumsAt ==
  ASSUME NEW f, NEW S, NEW g, Sums(f, S, g), NEW s \in SUBSET S
  PROVE  g[s] = IF s = {} THEN 0 ELSE f[Pick(s)] + g[s \ {Pick(s)}]
  BY DEF Sums

\* Sums over smaller sets are parts of sums over larger ones.
LEMMA SumsAgree ==
  ASSUME NEW f, NEW S, IsFiniteSet(S), NEW U \in SUBSET S, NEW V \in SUBSET S,
         NEW g, NEW h, Sums(f, U, g), Sums(f, V, h)
  PROVE  \A s \in SUBSET (U \cap V) : g[s] = h[s]
<1> DEFINE Bad == {s \in SUBSET (U \cap V) : g[s] # h[s]}
<1> SUFFICES ASSUME Bad # {} PROVE FALSE
  OBVIOUS
<1>1. PICK s \in Bad : \A t \in SUBSET s : t # s => t \notin Bad
  <2>1. Bad \in SUBSET (SUBSET S)
    OBVIOUS
  <2> HIDE DEF Bad
  <2> QED BY <2>1, LeastSet
<1>2. s \in SUBSET U /\ s \in SUBSET V /\ g[s] # h[s]
  BY <1>1
<1>3. s # {}
  BY <1>2, SumsAt
<1> DEFINE t == s \ {Pick(s)}
<1>4. t \in SUBSET s /\ t # s
  BY <1>3, PickIn
<1>5. g[t] = h[t]
  BY <1>1, <1>4
<1>6. g[s] = f[Pick(s)] + g[t] /\ h[s] = f[Pick(s)] + h[t]
  BY <1>2, <1>3, SumsAt
<1> QED BY <1>2, <1>5, <1>6

\* The recursive definition of the sum has a solution.
LEMMA SumsExist ==
  ASSUME NEW f, NEW S, IsFiniteSet(S)
  PROVE  Sums(f, S, Partial(f, S))
<1> DEFINE Bad == {T \in SUBSET S : ~Sums(f, T, Partial(f, T))}
<1> SUFFICES ASSUME Bad # {} PROVE FALSE
  OBVIOUS
<1>1. PICK T \in Bad : \A U \in SUBSET T : U # T => U \notin Bad
  <2>1. Bad \in SUBSET (SUBSET S)
    OBVIOUS
  <2> HIDE DEF Bad
  <2> QED BY <2>1, LeastSet
<1>2. T \in SUBSET S /\ \A U \in SUBSET T : U # T => Sums(f, U, Partial(f, U))
  BY <1>1
<1> DEFINE rest(s) == s \ {Pick(s)}
           g == [s \in SUBSET T |-> IF s = {} THEN 0
                                    ELSE f[Pick(s)] + Partial(f, rest(s))[rest(s)]]
<1>3. \A s \in SUBSET T : s # {} =>
         rest(s) \in SUBSET T /\ rest(s) # T /\ rest(s) \in SUBSET s
  BY PickIn
<1>4. ASSUME NEW s \in SUBSET T, s # {}
      PROVE  g[rest(s)] = Partial(f, rest(s))[rest(s)]
  <2> DEFINE u == rest(s)
  <2>1. u \in SUBSET T /\ u # T
    BY <1>3, <1>4
  <2>2. Sums(f, u, Partial(f, u))
    BY <1>2, <2>1
  <2>3. CASE u = {}
    <3>1. g[u] = 0
      BY <2>1, <2>3
    <3>2. Partial(f, u)[u] = 0
      BY <2>2, <2>3, SumsAt
    <3> QED BY <3>1, <3>2
  <2>4. CASE u # {}
    <3> DEFINE v == rest(u)
    <3>1. g[u] = f[Pick(u)] + Partial(f, v)[v]
      BY <2>1, <2>4
    <3>2. v \in SUBSET T /\ v # T /\ v \in SUBSET u
      BY <1>3, <2>1, <2>4
    <3>3. Sums(f, v, Partial(f, v))
      BY <1>2, <3>2
    <3>4. u \in SUBSET S /\ v \in SUBSET S /\ v \in SUBSET (u \cap v)
      BY <1>2, <2>1, <3>2
    <3>5. Partial(f, u)[v] = Partial(f, v)[v]
      <4> HIDE DEF u, v
      <4> QED BY <2>2, <3>3, <3>4, SumsAgree
    <3>6. Partial(f, u)[u] = f[Pick(u)] + Partial(f, u)[v]
      <4>1. u \in SUBSET u
        OBVIOUS
      <4> HIDE DEF u
      <4> QED BY <4>1, <2>2, <2>4, SumsAt
    <3> QED BY <3>1, <3>5, <3>6
  <2> QED BY <2>3, <2>4
<1>5. Sums(f, T, g)
  <2>1. ASSUME NEW s \in SUBSET T
        PROVE  g[s] = IF s = {} THEN 0 ELSE f[Pick(s)] + g[rest(s)]
    BY <1>4
  <2>2. g = [s \in SUBSET T |-> g[s]]
    OBVIOUS
  <2> HIDE DEF g
  <2>3. g = [s \in SUBSET T |-> IF s = {} THEN 0 ELSE f[Pick(s)] + g[rest(s)]]
    BY <2>1, <2>2
  <2> QED BY <2>3 DEF Sums
<1>6. Sums(f, T, Partial(f, T))
  <2> HIDE DEF g
  <2> QED BY <1>5 DEF Partial
<1> QED BY <1>1, <1>6

LEMMA SumType ==
  ASSUME NEW S, IsFiniteSet(S), NEW f \in [S -> Nat]
  PROVE  SumFunction(f) \in Nat
<1> DEFINE P == Partial(f, S)
           Bad == {s \in SUBSET S : P[s] \notin Nat}
<1> SUFFICES ASSUME Bad # {} PROVE FALSE
  BY SumIsPartial
<1>1. PICK s \in Bad : \A t \in SUBSET s : t # s => t \notin Bad
  <2>1. Bad \in SUBSET (SUBSET S)
    OBVIOUS
  <2> HIDE DEF Bad
  <2> QED BY <2>1, LeastSet
<1>2. Sums(f, S, P)
  BY SumsExist
<1> HIDE DEF P
<1>3. P[s] = IF s = {} THEN 0 ELSE f[Pick(s)] + P[s \ {Pick(s)}]
  <2>1. s \in SUBSET S
    BY <1>1
  <2> QED BY <1>2, <2>1, SumsAt
<1>4. s # {} => Pick(s) \in s
  BY PickIn
<1> QED BY <1>1, <1>3, <1>4

\* When one summand changes, the sum changes by as much.
LEMMA SumChanges ==
  ASSUME NEW S, IsFiniteSet(S), NEW f \in [S -> Nat], NEW g \in [S -> Nat],
         NEW x \in S, \A y \in S \ {x} : g[y] = f[y]
  PROVE  SumFunction(g) = SumFunction(f) + g[x] - f[x]
<1> DEFINE F == Partial(f, S)
           G == Partial(g, S)
           d(s) == IF x \in s THEN g[x] - f[x] ELSE 0
           Bad == {s \in SUBSET S : ~(F[s] \in Int /\ G[s] = F[s] + d(s))}
<1>1. Sums(f, S, F) /\ Sums(g, S, G)
  BY SumsExist
<1>2. SumFunction(f) = F[S] /\ SumFunction(g) = G[S]
  BY SumIsPartial
<1>3. Bad = {}
  <2> SUFFICES ASSUME Bad # {} PROVE FALSE
    OBVIOUS
  <2>1. PICK s \in Bad : \A t \in SUBSET s : t # s => t \notin Bad
    <3>1. Bad \in SUBSET (SUBSET S)
      OBVIOUS
    <3> HIDE DEF Bad
    <3> QED BY <3>1, LeastSet
  <2> HIDE DEF F, G
  <2>2. s \in SUBSET S /\ ~(F[s] \in Int /\ G[s] = F[s] + d(s))
    BY <2>1
  <2>3. /\ F[s] = IF s = {} THEN 0 ELSE f[Pick(s)] + F[s \ {Pick(s)}]
        /\ G[s] = IF s = {} THEN 0 ELSE g[Pick(s)] + G[s \ {Pick(s)}]
    <3>1. s \in SUBSET S
      BY <2>2
    <3> HIDE DEF Bad
    <3> QED BY <1>1, <3>1, SumsAt
  <2>4. s # {}
    BY <2>2, <2>3
  <2> DEFINE y == Pick(s)
             t == s \ {y}
  <2>5. y \in s /\ t \in SUBSET s /\ t # s
    BY <2>4, PickIn
  <2>6. F[t] \in Int /\ G[t] = F[t] + d(t)
    BY <2>1, <2>5
  <2>7. F[s] = f[y] + F[t] /\ G[s] = g[y] + G[t]
    BY <2>3, <2>4
  <2>8. f[y] \in Int /\ g[y] \in Int /\ f[x] \in Int /\ g[x] \in Int
    BY <2>2, <2>5
  <2>9. CASE y = x
    <3>1. d(t) = 0 /\ d(s) = g[x] - f[x]
      BY <2>5, <2>9
    <3> QED BY <3>1, <2>2, <2>6, <2>7, <2>8, <2>9
  <2>10. CASE y # x
    <3>1. d(t) = d(s) /\ g[y] = f[y]
      BY <2>2, <2>5, <2>10
    <3>2. d(s) \in Int
      BY <2>8
    <3> HIDE DEF d
    <3> QED BY <3>1, <3>2, <2>2, <2>6, <2>7, <2>8
  <2> QED BY <2>9, <2>10
<1>4. S \notin Bad
  BY <1>3
<1>5. F[S] \in Int /\ G[S] = F[S] + (g[x] - f[x])
  BY <1>4
<1> QED BY <1>2, <1>5

-----------------------------------------------------------------------------
(* The totals.                                                             *)

Increments(u) == [s \in Slots |-> Increment(s, u)]
Weighted(u) == [n \in Nodes |-> Multiplier[n] * Underway(n, u)]
Weights(u) == [n \in Nodes |-> Multiplier[n] * sent[n][u]]

\* What TotalsKept says of one user.
TotalFor(u) ==
  /\ deaths = 0 => ToTotals(u) <= Due(u)
  /\ Lossless /\ Divisible => ToTotals(u) = Due(u)

LEMMA TimesType == ASSUME NEW a \in Nat, NEW b \in Nat PROVE a * b \in Nat
OBVIOUS

\* What the totals are made of are natural numbers, before and after a step.
Summands ==
  \A u \in Users :
    /\ \A n \in Nodes : Underway(n, u) \in Nat /\ sent[n][u] \in Nat
    /\ \A s \in Slots : Increment(s, u) \in Nat
    /\ lifetime[u] \in Nat
    /\ Increments(u) \in [Slots -> Nat]
    /\ Weighted(u) \in [Nodes -> Nat] /\ Weights(u) \in [Nodes -> Nat]

LEMMA SummandsAre == TypeOK => Summands
<1> SUFFICES ASSUME TypeOK, NEW u \in Users
             PROVE  /\ \A n \in Nodes : Underway(n, u) \in Nat /\ sent[n][u] \in Nat
                    /\ \A s \in Slots : Increment(s, u) \in Nat
                    /\ lifetime[u] \in Nat
                    /\ Increments(u) \in [Slots -> Nat]
                    /\ Weighted(u) \in [Nodes -> Nat] /\ Weights(u) \in [Nodes -> Nat]
  BY DEF Summands
<1>1. /\ \A n \in Nodes : Underway(n, u) \in Nat /\ sent[n][u] \in Nat
      /\ \A s \in Slots : Increment(s, u) \in Nat
      /\ lifetime[u] \in Nat
  BY DEF TypeOK, Amounts, Recs, Jobs, Underway, Increment
<1>2. ASSUME NEW n \in Nodes
      PROVE  Multiplier[n] * Underway(n, u) \in Nat /\ Multiplier[n] * sent[n][u] \in Nat
  BY <1>1, TimesType, MultiplierAssumption
<1>. QED BY <1>1, <1>2 DEF Increments, Weighted, Weights

Totals ==
  \A u \in Users :
    /\ ToTotals(u) = Unit * (lifetime[u] + SumFunction(Increments(u)))
                       + SumFunction(Weighted(u))
    /\ Due(u) = SumFunction(Weights(u))
    /\ SumFunction(Increments(u)) \in Nat
    /\ SumFunction(Weighted(u)) \in Nat
    /\ ToTotals(u) \in Nat /\ Due(u) \in Nat

LEMMA TotalsAre == TypeOK => Totals
<1> SUFFICES ASSUME Summands, NEW u \in Users
             PROVE  /\ ToTotals(u) = Unit * (lifetime[u] + SumFunction(Increments(u)))
                                       + SumFunction(Weighted(u))
                    /\ Due(u) = SumFunction(Weights(u))
                    /\ SumFunction(Increments(u)) \in Nat
                    /\ SumFunction(Weighted(u)) \in Nat
                    /\ ToTotals(u) \in Nat /\ Due(u) \in Nat
  BY SummandsAre DEF Totals
<1>1. /\ SumFunction(Increments(u)) \in Nat
      /\ SumFunction(Weighted(u)) \in Nat /\ SumFunction(Weights(u)) \in Nat
  BY SumType, FiniteAssumption DEF Summands
<1>2. Unit * (lifetime[u] + SumFunction(Increments(u))) \in Nat
  BY <1>1, TimesType, UnitAssumption DEF Summands
<1>3. /\ ToTotals(u) = Unit * (lifetime[u] + SumFunction(Increments(u)))
                         + SumFunction(Weighted(u))
      /\ Due(u) = SumFunction(Weights(u))
  BY DEF ToTotals, Due, Increments, Weighted, Weights
<1>. QED BY <1>1, <1>2, <1>3

LEMMA SummandsAfter == TypeOK' => Summands' /\ Totals'
BY SummandsAre, TotalsAre, PTL

\* A step that concerns one node and one increment at most.
LEMMA OneNode ==
  ASSUME TypeOK, TypeOK', NEW u \in Users, NEW n \in Nodes,
         \A m \in Nodes \ {n} : Underway(m, u)' = Underway(m, u)
  PROVE  SumFunction(Weighted(u))' = SumFunction(Weighted(u))
           + Multiplier[n] * Underway(n, u)' - Multiplier[n] * Underway(n, u)
<1> DEFINE f == Weighted(u)
           g == Weighted(u)'
<1>1. f \in [Nodes -> Nat] /\ g \in [Nodes -> Nat]
  BY SummandsAre, SummandsAfter DEF Summands
<1>2. \A m \in Nodes \ {n} : g[m] = f[m]
  BY DEF Weighted
<1>3. g[n] = Multiplier[n] * Underway(n, u)' /\ f[n] = Multiplier[n] * Underway(n, u)
  BY DEF Weighted
<1> HIDE DEF f, g
<1>4. SumFunction(g) = SumFunction(f) + g[n] - f[n]
  BY <1>1, <1>2, SumChanges, FiniteAssumption
<1>. QED BY <1>3, <1>4 DEF f, g

LEMMA OneSent ==
  ASSUME TypeOK, TypeOK', NEW u \in Users, NEW n \in Nodes,
         \A m \in Nodes \ {n} : sent'[m][u] = sent[m][u]
  PROVE  SumFunction(Weights(u))' = SumFunction(Weights(u))
           + Multiplier[n] * sent'[n][u] - Multiplier[n] * sent[n][u]
<1> DEFINE f == Weights(u)
           g == Weights(u)'
<1>1. f \in [Nodes -> Nat] /\ g \in [Nodes -> Nat]
  BY SummandsAre, SummandsAfter DEF Summands
<1>2. \A m \in Nodes \ {n} : g[m] = f[m]
  BY DEF Weights
<1>3. g[n] = Multiplier[n] * sent'[n][u] /\ f[n] = Multiplier[n] * sent[n][u]
  BY DEF Weights
<1> HIDE DEF f, g
<1>4. SumFunction(g) = SumFunction(f) + g[n] - f[n]
  BY <1>1, <1>2, SumChanges, FiniteAssumption
<1>. QED BY <1>3, <1>4 DEF f, g

LEMMA OneJob ==
  ASSUME TypeOK, TypeOK', NEW u \in Users, NEW s \in Slots,
         \A r \in Slots \ {s} : Increment(r, u)' = Increment(r, u)
  PROVE  SumFunction(Increments(u))' = SumFunction(Increments(u))
           + Increment(s, u)' - Increment(s, u)
<1> DEFINE f == Increments(u)
           g == Increments(u)'
<1>1. f \in [Slots -> Nat] /\ g \in [Slots -> Nat]
  BY SummandsAre, SummandsAfter DEF Summands
<1>2. \A r \in Slots \ {s} : g[r] = f[r]
  BY DEF Increments
<1>3. g[s] = Increment(s, u)' /\ f[s] = Increment(s, u)
  BY DEF Increments
<1> HIDE DEF f, g
<1>4. SumFunction(g) = SumFunction(f) + g[s] - f[s]
  BY <1>1, <1>2, SumChanges, FiniteAssumption
<1>. QED BY <1>3, <1>4 DEF f, g

\* The steps that make nothing more.
LEMMA TotalAfter ==
  ASSUME TypeOK, TypeOK', Next, NEW u \in Users, TotalFor(u), UNCHANGED sent,
         deaths' = 0 => ToTotals(u)' <= ToTotals(u),
         Lossless' /\ Divisible => ToTotals(u)' = ToTotals(u)
  PROVE  TotalFor(u)'
<1>1. /\ ToTotals(u) \in Nat /\ ToTotals(u)' \in Nat
      /\ Due(u) \in Nat /\ Due(u)' = Due(u)
  <2>1. ToTotals(u) \in Nat /\ Due(u) \in Nat
    BY TotalsAre DEF Totals
  <2>2. ToTotals(u)' \in Nat
    BY SummandsAfter DEF Totals
  <2>3. Due(u)' = Due(u)
    BY DEF Due
  <2> QED BY <2>1, <2>2, <2>3
<1>2. deaths' = 0 => deaths = 0
  BY FaultsGrow DEF TypeOK
<1>3. Lossless' => Lossless
  <2>1. failed \subseteq failed'
    BY FaultsGrow
  <2> QED BY <1>2, <2>1 DEF Lossless
<1>4. Divisible' <=> Divisible
  BY DEF Divisible
<1> HIDE DEF Lossless, Divisible
<1>. QED BY <1>1, <1>2, <1>3, <1>4 DEF TotalFor

LEMMA TotalQuiet ==
  ASSUME TypeOK, TypeOK', Next, NEW u \in Users, TotalFor(u),
         UNCHANGED <<sent, lifetime>>,
         \A n \in Nodes : Underway(n, u)' = Underway(n, u),
         \A s \in Slots : Increment(s, u)' = Increment(s, u)
  PROVE  TotalFor(u)'
<1>1. Increments(u)' = Increments(u) /\ Weighted(u)' = Weighted(u)
  BY DEF Increments, Weighted
<1>2. ToTotals(u)' = ToTotals(u)
  BY <1>1 DEF ToTotals, Increments, Weighted
<1>3. ToTotals(u) \in Nat
  BY TotalsAre DEF Totals
<1>. QED BY <1>2, <1>3, TotalAfter

\* Division rounds down, and not at all where the multiplier is whole.
LEMMA DivTimes ==
  ASSUME NEW a \in Nat, NEW k \in Nat, NEW d \in Nat \ {0}
  PROVE  /\ (a * k) \div d \in Nat /\ d * ((a * k) \div d) <= k * a
         /\ k % d = 0 => d * ((a * k) \div d) = k * a
<1> DEFINE p == a * k
<1>1. p \in Nat
  BY TimesType
<1>2. ASSUME NEW x \in Nat
      PROVE  /\ x \div d \in Nat /\ x % d \in 0 .. (d - 1)
             /\ x = (d * (x \div d)) + (x % d)
  OBVIOUS
<1>3. p \div d \in Nat /\ d * (p \div d) <= p
  <2> HIDE DEF p
  <2>1. p \div d \in Nat /\ p % d \in 0 .. (d - 1) /\ p = (d * (p \div d)) + (p % d)
    BY <1>1, <1>2
  <2> QED BY <2>1, <1>1, TimesType
<1>4. p = k * a
  OBVIOUS
<1>5. ASSUME k % d = 0 PROVE d * (p \div d) = p
  <2> DEFINE q == k \div d
  <2>1. q \in Nat /\ k = d * q
    BY <1>2, <1>5
  <2> HIDE DEF q
  <2>2. p = d * (a * q)
    BY <2>1
  <2>3. a * q \in Nat
    BY <2>1, TimesType
  <2>4. ASSUME NEW y \in Nat PROVE (d * y) \div d = y
    OBVIOUS
  <2>5. p \div d = a * q
    BY <2>2, <2>3, <2>4
  <2> QED BY <2>2, <2>5
<1> QED BY <1>3, <1>4, <1>5

LEMMA TimesMonotone ==
  ASSUME NEW d \in Nat, NEW a \in Nat, NEW b \in Nat, a <= b
  PROVE  d * a <= d * b
<1> DEFINE c == b - a
<1>1. c \in Nat /\ b = a + c
  OBVIOUS
<1> HIDE DEF c
<1>2. d * b = (d * a) + (d * c)
  BY <1>1
<1>3. d * c \in Nat /\ d * a \in Nat
  BY <1>1, TimesType
<1> QED BY <1>2, <1>3

\* The steps that lose what is underway from one node, or nothing.
LEMMA TotalLess ==
  ASSUME TypeOK, TypeOK', Next, NEW u \in Users, TotalFor(u), NEW n \in Nodes,
         UNCHANGED <<sent, lifetime>>,
         \A m \in Nodes \ {n} : Underway(m, u)' = Underway(m, u),
         \A s \in Slots : Increment(s, u)' = Increment(s, u),
         Underway(n, u)' <= Underway(n, u),
         Lossless' => Underway(n, u)' = Underway(n, u)
  PROVE  TotalFor(u)'
<1> DEFINE a == Underway(n, u)
           b == Underway(n, u)'
           W == SumFunction(Weighted(u))
           X == SumFunction(Weighted(u))'
           T == Unit * (lifetime[u] + SumFunction(Increments(u)))
<1>1. a \in Nat /\ b \in Nat /\ b <= a /\ (Lossless' => b = a)
  <2>1. a \in Nat
    BY SummandsAre DEF Summands
  <2>2. b \in Nat
    BY SummandsAfter DEF Summands
  <2> QED BY <2>1, <2>2
<1>2. Multiplier[n] * b <= Multiplier[n] * a
      /\ Multiplier[n] * b \in Nat /\ Multiplier[n] * a \in Nat
  <2> HIDE DEF a, b
  <2>1. Multiplier[n] \in Nat
    BY MultiplierAssumption
  <2> QED BY <1>1, <2>1, TimesMonotone, TimesType
<1>3. X = W + (Multiplier[n] * b) - (Multiplier[n] * a)
  BY OneNode
<1>4. Increments(u)' = Increments(u)
  BY DEF Increments
<1>5. ToTotals(u) = T + W /\ W \in Nat /\ T \in Nat
  <2>1. ToTotals(u) = T + W /\ W \in Nat /\ SumFunction(Increments(u)) \in Nat
    BY TotalsAre DEF Totals
  <2>2. lifetime[u] \in Nat
    BY SummandsAre DEF Summands
  <2>3. lifetime[u] + SumFunction(Increments(u)) \in Nat
    BY <2>1, <2>2
  <2> QED BY <2>1, <2>3, TimesType, UnitAssumption
<1>6. ToTotals(u)' = T + X /\ X \in Nat
  <2>1. ToTotals(u)' = (Unit * (lifetime'[u] + SumFunction(Increments(u)'))) + X /\ X \in Nat
    BY SummandsAfter DEF Totals
  <2>2. Unit' = Unit /\ lifetime'[u] = lifetime[u]
    OBVIOUS
  <2> QED BY <2>1, <2>2, <1>4
<1>7. ToTotals(u)' <= ToTotals(u) /\ (Lossless' => ToTotals(u)' = ToTotals(u))
  <2> HIDE DEF W, X, T
  <2>1. X <= W
    BY <1>2, <1>3, <1>5, <1>6
  <2>2. Lossless' => X = W
    BY <1>1, <1>2, <1>3, <1>5, <1>6
  <2> QED BY <2>1, <2>2, <1>5, <1>6
<1>. QED BY <1>7, TotalAfter

\* Traffic: what is due grows by as much as what is underway.
LEMMA TotalTraffic ==
  ASSUME TypeOK, TypeOK', NEW u \in Users, TotalFor(u), NEW n \in Nodes, NEW v \in Users,
         Traffic(n, v)
  PROVE  TotalFor(u)'
<1> DEFINE S == SumFunction(Weights(u))
           W == SumFunction(Weighted(u))
           T == Unit * (lifetime[u] + SumFunction(Increments(u)))
           M == Multiplier[n]
           a == Underway(n, u)
           c == sent[n][u]
           k == IF u = v THEN 1 ELSE 0
<1>1. /\ \A m \in Nodes \ {n} : Underway(m, u)' = Underway(m, u) /\ sent'[m][u] = sent[m][u]
      /\ Underway(n, u)' = a + k /\ sent'[n][u] = c + k
  <2>1. /\ counter \in [Nodes -> [Users -> Nat]] /\ sent \in [Nodes -> [Users -> Nat]]
        /\ rec \in [Nodes -> Recs]
    BY DEF TypeOK, Amounts
  <2>2. \A m \in Nodes \ {n} : sent'[m] = sent[m] /\ counter'[m] = counter[m]
    BY <2>1 DEF Traffic
  <2>3. sent'[n][u] = sent[n][u] + k /\ counter'[n][u] = counter[n][u] + k
    BY <2>1 DEF Traffic
  <2>4. rec' = rec
    BY DEF Traffic
  <2>5. counter[n][u] \in Nat /\ rec[n].list[u] \in Nat
    BY <2>1 DEF Recs, Amounts
  <2> QED BY <2>2, <2>3, <2>4, <2>5 DEF Underway
<1>2. M \in Nat /\ a \in Nat /\ c \in Nat
  BY SummandsAre, MultiplierAssumption DEF Summands
<1>3. /\ M * (a + k) = (M * a) + (M * k) /\ M * (c + k) = (M * c) + (M * k)
      /\ M * a \in Nat /\ M * c \in Nat /\ M * k \in Nat
  <2> HIDE DEF M, a, c
  <2> QED BY <1>2, TimesType
<1>4. SumFunction(Weighted(u))' = W + (M * k)
  <2>1. SumFunction(Weighted(u))' = W + (M * (a + k)) - (M * a)
    BY <1>1, OneNode
  <2>2. W \in Nat
    BY TotalsAre DEF Totals
  <2> HIDE DEF M, a, k, W
  <2> QED BY <2>1, <2>2, <1>3
<1>5. Due(u)' = Due(u) + (M * k) /\ Due(u) \in Nat
  <2>1. SumFunction(Weights(u))' = S + (M * (c + k)) - (M * c)
    BY <1>1, OneSent
  <2>2. Due(u) = S /\ Due(u) \in Nat /\ Due(u)' = SumFunction(Weights(u))'
    BY TotalsAre, SummandsAfter DEF Totals
  <2> HIDE DEF M, c, k, S
  <2> QED BY <2>1, <2>2, <1>3
<1>6. Increments(u)' = Increments(u) /\ lifetime' = lifetime
  BY DEF Increments, Increment, Traffic, dbVars
<1>7. ToTotals(u)' = ToTotals(u) + (M * k) /\ ToTotals(u) \in Nat
  <2>1. ToTotals(u)' = (Unit * (lifetime'[u] + SumFunction(Increments(u)'))) + SumFunction(Weighted(u))'
    BY SummandsAfter DEF Totals
  <2>2. ToTotals(u) = T + W /\ ToTotals(u) \in Nat /\ W \in Nat /\ T \in Nat
    <3>1. ToTotals(u) = T + W /\ ToTotals(u) \in Nat /\ W \in Nat
          /\ SumFunction(Increments(u)) \in Nat
      BY TotalsAre DEF Totals
    <3>2. lifetime[u] + SumFunction(Increments(u)) \in Nat
      BY <3>1, SummandsAre DEF Summands
    <3> QED BY <3>1, <3>2, TimesType, UnitAssumption
  <2>3. ToTotals(u)' = T + (W + (M * k))
    BY <2>1, <1>4, <1>6
  <2> HIDE DEF T, W, M, k
  <2> QED BY <2>2, <2>3, <1>3
<1>8. deaths' = deaths /\ (Lossless' <=> Lossless) /\ (Divisible' <=> Divisible)
  BY DEF Traffic, boundVars, Lossless, Divisible
<1> HIDE DEF M, k, Lossless, Divisible
<1>. QED BY <1>3, <1>5, <1>7, <1>8 DEF TotalFor

\* The job takes over what is underway from the node, with its multiplier, rounded
\* down.
LEMMA TotalCount ==
  ASSUME TypeOK, TypeOK', Next, NEW u \in Users, TotalFor(u), NEW n \in Nodes,
         NEW s \in Slots, NEW list \in Amounts, NEW b \in Nat,
         UNCHANGED <<sent, lifetime>>,
         \A m \in Nodes \ {n} : Underway(m, u)' = Underway(m, u),
         \A r \in Slots \ {s} : Increment(r, u)' = Increment(r, u),
         Increment(s, u) = 0, Increment(s, u)' = Counted(n, Kept(list))[u],
         Underway(n, u) = b + list[u], Underway(n, u)' = b
  PROVE  TotalFor(u)'
<1> DEFINE M == Multiplier[n]
           l == list[u]
           k == Kept(list)[u]
           C == (k * M) \div Unit
           J == SumFunction(Increments(u))
           W == SumFunction(Weighted(u))
           L == lifetime[u]
<1>1. M \in Nat /\ l \in Nat /\ k \in Nat /\ k <= l /\ (Lossless' => k = l)
  <2>1. IgnoreBelow <= 1 => k = l
    BY KeptAll
  <2>2. Lossless' => IgnoreBelow <= 1
    BY DEF Lossless
  <2> QED BY <2>1, <2>2, KeptAll, MultiplierAssumption DEF Amounts
<1>2. /\ C \in Nat /\ Unit * C <= M * k
      /\ Divisible => Unit * C = M * k
  <2>1. Divisible => M % Unit = 0
    BY DEF Divisible
  <2> HIDE DEF M, k
  <2> QED BY <1>1, <2>1, DivTimes, UnitAssumption
<1>3. M * k <= M * l /\ M * k \in Nat /\ M * l \in Nat
  <2> HIDE DEF M, k, l
  <2> QED BY <1>1, TimesMonotone, TimesType
<1>4. SumFunction(Increments(u))' = J + C
  <2>1. SumFunction(Increments(u))' = J + Increment(s, u)' - Increment(s, u)
    BY OneJob
  <2>2. Counted(n, Kept(list))[u] = C
    BY DEF Counted
  <2>3. J \in Nat
    BY TotalsAre DEF Totals
  <2> HIDE DEF J, C
  <2> QED BY <2>1, <2>2, <2>3, <1>2
<1>5. SumFunction(Weighted(u))' = W - (M * l)
  <2>1. SumFunction(Weighted(u))' = W + (M * b) - (M * (b + l))
    BY OneNode
  <2>2. W \in Nat
    BY TotalsAre DEF Totals
  <2> HIDE DEF M, l, W
  <2>3. M * (b + l) = (M * b) + (M * l) /\ M * b \in Nat
    BY <1>1, TimesType
  <2> QED BY <2>1, <2>2, <2>3, <1>3
<1>6. /\ ToTotals(u) = (Unit * (L + J)) + W
      /\ ToTotals(u)' = (Unit * (L + (J + C))) + (W - (M * l))
  <2>1. ToTotals(u)' = (Unit * (lifetime'[u] + SumFunction(Increments(u))'))
                         + SumFunction(Weighted(u))'
    BY SummandsAfter DEF Totals
  <2>2. ToTotals(u) = (Unit * (L + J)) + W
    BY TotalsAre DEF Totals
  <2> QED BY <2>1, <2>2, <1>4, <1>5
<1>7. W \in Nat /\ J \in Nat /\ L \in Nat /\ Unit \in Nat
  BY SummandsAre, TotalsAre, UnitAssumption DEF Summands, Totals
<1>8. /\ ToTotals(u)' <= ToTotals(u)
      /\ Lossless' /\ Divisible => ToTotals(u)' = ToTotals(u)
  <2> HIDE DEF M, l, k, C, J, W, L
  <2>1. Unit * (L + (J + C)) = (Unit * (L + J)) + (Unit * C)
        /\ Unit * (L + J) \in Nat /\ Unit * C \in Nat
    <3>1. L + J \in Nat
      BY <1>7
    <3> QED BY <3>1, <1>2, <1>7, TimesType
  <2>2. ToTotals(u)' = ToTotals(u) + (Unit * C) - (M * l)
    BY <2>1, <1>3, <1>6, <1>7
  <2>3. ToTotals(u) \in Nat
    BY TotalsAre DEF Totals
  <2>4. Unit * C <= M * l
    BY <1>2, <1>3, <2>1
  <2>5. Lossless' /\ Divisible => Unit * C = M * l
    BY <1>1, <1>2
  <2> QED BY <2>1, <2>2, <2>3, <2>4, <2>5, <1>3
<1>. QED BY <1>8, TotalAfter

\* The increment of the totals, if its statement does not fail.
LEMMA TotalApply ==
  ASSUME TypeOK, TypeOK', Next, NEW u \in Users, TotalFor(u), NEW s \in Slots,
         UsageApply(s)
  PROVE  TotalFor(u)'
<1> DEFINE a == jobs[s].add[u]
           J == SumFunction(Increments(u))
           W == SumFunction(Weighted(u))
           L == lifetime[u]
<1>1. a \in Nat /\ L \in Nat /\ J \in Nat /\ W \in Nat /\ Unit \in Nat
  <2>1. a \in Nat
    BY DEF TypeOK, Jobs, Amounts
  <2> QED BY <2>1, SummandsAre, TotalsAre, UnitAssumption DEF Summands, Totals
<1>2. /\ Increment(s, u) = a /\ Increment(s, u)' = 0
      /\ \A r \in Slots \ {s} : Increment(r, u)' = Increment(r, u)
  BY DEF UsageApply, Increment, TypeOK, Jobs
<1>3. SumFunction(Increments(u))' = J - a
  <2>1. SumFunction(Increments(u))' = J + Increment(s, u)' - Increment(s, u)
    BY <1>2, OneJob
  <2> HIDE DEF J, a
  <2> QED BY <2>1, <1>1, <1>2
<1>4. Weighted(u)' = Weighted(u) /\ sent' = sent
  BY DEF UsageApply, Weighted, Underway
<1>5. ToTotals(u) = (Unit * (L + J)) + W
  BY TotalsAre DEF Totals
<1>6. ToTotals(u)' = (Unit * (lifetime'[u] + (J - a))) + W
      /\ lifetime'[u] \in Nat /\ J - a \in Nat
  <2>1. /\ ToTotals(u)' = (Unit * (lifetime'[u] + SumFunction(Increments(u))'))
                            + SumFunction(Weighted(u))'
        /\ SumFunction(Increments(u))' \in Nat
    BY SummandsAfter DEF Totals
  <2>2. lifetime'[u] \in Nat
    BY SummandsAfter DEF Summands
  <2> QED BY <2>1, <2>2, <1>3, <1>4
<1>7. \/ lifetime'[u] = L + a
      \/ lifetime'[u] = L /\ ~(Lossless')
  <2>1. CASE lifetime' = Plus(lifetime, jobs[s].add)
    BY <2>1 DEF Plus
  <2>2. CASE Fault("db") /\ UNCHANGED <<used, lifetime>>
    BY <2>2 DEF Fault, Lossless
  <2> QED BY <2>1, <2>2 DEF UsageApply
<1>8. /\ ToTotals(u)' <= ToTotals(u)
      /\ Lossless' => ToTotals(u)' = ToTotals(u)
  <2> DEFINE x == L + J
             y == lifetime'[u] + (J - a)
  <2>1. x \in Nat /\ y \in Nat /\ y <= x /\ (Lossless' => y = x)
    <3> HIDE DEF L, J, a
    <3> QED BY <1>1, <1>6, <1>7
  <2> HIDE DEF x, y
  <2>2. Unit * y <= Unit * x /\ Unit * y \in Nat /\ Unit * x \in Nat
    BY <2>1, <1>1, TimesMonotone, TimesType
  <2>3. ToTotals(u) = (Unit * x) + W /\ ToTotals(u)' = (Unit * y) + W
    BY <1>5, <1>6 DEF x, y
  <2>4. Lossless' => ToTotals(u)' = ToTotals(u)
    BY <2>1, <2>3
  <2> HIDE DEF W
  <2> QED BY <2>2, <2>3, <2>4, <1>1
<1>. QED BY <1>4, <1>8, TotalAfter

LEMMA TotalRecord ==
  ASSUME TypeOK, TypeOK', Next, NEW u \in Users, TotalFor(u), NEW n \in Nodes, Record(n)
  PROVE  TotalFor(u)'
<1>1. /\ rec[n] \in Recs /\ counter[n][u] \in Nat /\ rec[n].list[u] \in Nat
      /\ counter \in [Nodes -> Amounts] /\ rec \in [Nodes -> Recs]
      /\ counter' \in [Nodes -> Amounts] /\ rec' \in [Nodes -> Recs]
      /\ NoRec.pc = "none"
  BY DEF TypeOK, Recs, Amounts, NoRec
<1>2. CASE RecordStats(n)
  <2>1. /\ UNCHANGED <<sent, lifetime, jobs, deaths>>
        /\ rec[n].pc = "waiting" /\ Underway(n, u) = counter[n][u]
    BY <1>1, <1>2 DEF RecordStats, dbVars, Underway
  <2>2. \A m \in Nodes \ {n} : Underway(m, u)' = Underway(m, u)
    <3>1. \A m \in Nodes \ {n} : rec'[m] = rec[m]
      BY <1>1, <1>2 DEF RecordStats, RecEnd
    <3>2. \A m \in Nodes \ {n} : counter'[m] = counter[m]
      BY <1>1, <1>2 DEF RecordStats
    <3> QED BY <3>1, <3>2 DEF Underway
  <2>3. /\ Underway(n, u)' <= Underway(n, u)
        /\ Lossless' => Underway(n, u)' = Underway(n, u)
    <3>1. CASE /\ rec' = [rec EXCEPT ![n] =
                      IF counter[n] = Nothing THEN NoRec
                      ELSE [@ EXCEPT !.pc = "got", !.list = counter[n]]]
               /\ counter' = [counter EXCEPT ![n] = Nothing]
      <4>1. counter'[n][u] = 0
        BY <3>1, <1>1 DEF Nothing
      <4>2. CASE counter[n] = Nothing
        <5>1. rec'[n] = NoRec /\ counter[n][u] = 0
          BY <3>1, <4>2, <1>1 DEF Nothing
        <5> QED BY <5>1, <4>1, <2>1, <1>1 DEF Underway
      <4>3. CASE counter[n] # Nothing
        <5>1. rec'[n].pc = "got" /\ rec'[n].list = counter[n]
          BY <3>1, <4>3, <1>1 DEF Recs
        <5> QED BY <5>1, <4>1, <2>1, <1>1 DEF Underway
      <4> QED BY <4>2, <4>3
    <3>2. CASE /\ Fault("net") /\ RecEnd(n)
               /\ counter' \in {counter, [counter EXCEPT ![n] = Nothing]}
      <4>1. counter'[n][u] \in {counter[n][u], 0} /\ rec'[n] = NoRec
        BY <3>2, <1>1 DEF Nothing, RecEnd
      <4>2. ~(Lossless')
        BY <3>2 DEF Fault, Lossless
      <4> QED BY <4>1, <4>2, <2>1, <1>1 DEF Underway
    <3> QED BY <3>1, <3>2, <1>2 DEF RecordStats
  <2> QED BY <2>1, <2>2, <2>3, TotalLess DEF Increment
<1>3. CASE RecordStore(n)
  <2>1. UNCHANGED <<sent, lifetime, jobs, deaths, counter>> /\ rec[n].pc = "got"
    BY <1>3 DEF RecordStore, dbVars
  <2>2. \/ rec'[n].pc = "stored" /\ rec'[n].list = rec[n].list
        \/ rec'[n] = NoRec /\ ~(Lossless')
    <3>1. CASE RecGoto(n, "stored")
      BY <3>1, <1>1 DEF RecGoto, Recs
    <3>2. CASE Fault("redis") /\ RecEnd(n)
      BY <3>2, <1>1 DEF RecEnd, Fault, Lossless
    <3> QED BY <3>1, <3>2, <1>3 DEF RecordStore
  <2>3. \A m \in Nodes \ {n} : rec'[m] = rec[m]
    <3>1. CASE RecGoto(n, "stored")
      BY <3>1, <1>1 DEF RecGoto
    <3>2. CASE RecEnd(n)
      BY <3>2, <1>1 DEF RecEnd
    <3> QED BY <3>1, <3>2, <1>3 DEF RecordStore
  <2>4. \A m \in Nodes \ {n} : Underway(m, u)' = Underway(m, u)
    BY <2>1, <2>3 DEF Underway
  <2>5. /\ Underway(n, u)' <= Underway(n, u)
        /\ Lossless' => Underway(n, u)' = Underway(n, u)
    BY <2>1, <2>2, <1>1 DEF Underway
  <2> QED BY <2>1, <2>4, <2>5, TotalLess DEF Increment
<1>4. CASE RecordCount(n)
  <2>1. UNCHANGED <<sent, lifetime, deaths, counter>> /\ rec[n].pc = "stored"
    BY <1>4 DEF RecordCount, dbVars
  <2>2. rec'[n].pc \in {"counted", "none"} /\ \A m \in Nodes \ {n} : rec'[m] = rec[m]
    <3>1. CASE RecGoto(n, "counted")
      BY <3>1, <1>1 DEF RecGoto, Recs
    <3>2. CASE RecEnd(n)
      BY <3>2, <1>1 DEF RecEnd
    <3> QED BY <3>1, <3>2, <1>4 DEF RecordCount
  <2>3. /\ \A m \in Nodes \ {n} : Underway(m, u)' = Underway(m, u)
        /\ Underway(n, u) = counter[n][u] + rec[n].list[u]
        /\ Underway(n, u)' = counter[n][u]
    BY <2>1, <2>2, <1>1 DEF Underway
  <2>4. ASSUME UNCHANGED jobs, Lossless' => rec[n].list[u] = 0
        PROVE  TotalFor(u)'
    BY <2>1, <2>3, <2>4, <1>1, TotalLess DEF Increment
  <2>5. CASE Fault("redis") /\ RecEnd(n) /\ UNCHANGED jobs
    BY <2>4, <2>5 DEF Fault, Lossless
  <2>6. CASE Kept(rec[n].list) = Nothing /\ UNCHANGED jobs
    <3>1. rec[n].list \in Amounts
      BY <1>1 DEF Recs
    <3>2. Lossless' => rec[n].list[u] = 0
      BY <3>1, <2>6, KeptAll DEF Nothing, Lossless
    <3> QED BY <3>2, <2>4, <2>6
  <2>7. CASE \E s \in Slots : /\ jobs[s].pc = "none"
                              /\ jobs' = [jobs EXCEPT ![s] =
                                   [NoJob EXCEPT !.pc = "waiting",
                                      !.add = Counted(n, Kept(rec[n].list))]]
    <3>1. PICK s \in Slots : /\ jobs[s].pc = "none"
                             /\ jobs' = [jobs EXCEPT ![s] =
                                   [NoJob EXCEPT !.pc = "waiting",
                                      !.add = Counted(n, Kept(rec[n].list))]]
      BY <2>7
    <3> DEFINE j == [NoJob EXCEPT !.pc = "waiting",
                                  !.add = Counted(n, Kept(rec[n].list))]
    <3>2. j.pc = "waiting" /\ j.add = Counted(n, Kept(rec[n].list))
      BY DEF NoJob
    <3> HIDE DEF j
    <3>3. jobs'[s] = j /\ \A r \in Slots \ {s} : jobs'[r] = jobs[r]
      BY <3>1 DEF TypeOK, j
    <3>4. /\ \A r \in Slots \ {s} : Increment(r, u)' = Increment(r, u)
          /\ Increment(s, u) = 0 /\ Increment(s, u)' = Counted(n, Kept(rec[n].list))[u]
      BY <3>1, <3>2, <3>3 DEF Increment
    <3>5. rec[n].list \in Amounts
      BY <1>1 DEF Recs
    <3> QED BY <3>4, <3>5, <2>1, <2>3, <1>1, TotalCount
  <2> QED BY <2>5, <2>6, <2>7, <1>4 DEF RecordCount
<1>5. CASE RecordPush(n)
  <2>1. UNCHANGED <<sent, lifetime, jobs, counter>> /\ rec[n].pc = "counted"
        /\ rec'[n] = NoRec /\ \A m \in Nodes \ {n} : rec'[m] = rec[m]
    BY <1>1, <1>5 DEF RecordPush, RecEnd, dbVars
  <2>2. \A m \in Nodes : Underway(m, u)' = Underway(m, u)
    BY <2>1, <1>1 DEF Underway
  <2> QED BY <2>1, <2>2, TotalQuiet DEF Increment
<1>. QED BY <1>2, <1>3, <1>4, <1>5 DEF Record

LEMMA TotalStep == TypeOK /\ TypeOK' /\ TotalsKept /\ [Next]_vars => TotalsKept'
<1>. SUFFICES ASSUME TypeOK, TypeOK', TotalsKept, [Next]_vars, NEW u \in Users
              PROVE  TotalFor(u)'
  BY DEF TotalsKept, TotalFor
<1>0. TotalFor(u)
  BY DEF TotalsKept, TotalFor
<1>1. CASE UNCHANGED vars
  BY <1>0, <1>1 DEF vars, redisVars, dbVars, boundVars, TotalFor, Lossless, Divisible,
    ToTotals, Due, Increment, Underway
<1>2. CASE Next
  <2>q. ASSUME UNCHANGED <<sent, lifetime, counter, rec, jobs>> PROVE TotalFor(u)'
    BY <2>q, <1>0, <1>2, TotalQuiet DEF Underway, Increment
  <2>1. CASE \E n \in Nodes, v \in Users : Traffic(n, v)
    BY <2>1, <1>0, TotalTraffic
  <2>2. ASSUME NEW n \in Nodes, RecordEnqueue(n) PROVE TotalFor(u)'
    <3>1. UNCHANGED <<sent, lifetime, jobs, counter>> /\ rec[n].pc = "none"
          /\ rec'[n].pc = "waiting" /\ \A m \in Nodes \ {n} : rec'[m] = rec[m]
      BY <2>2 DEF RecordEnqueue, RecGoto, dbVars, TypeOK, Recs
    <3>2. \A m \in Nodes : Underway(m, u)' = Underway(m, u)
      BY <3>1 DEF Underway
    <3> QED BY <3>1, <3>2, <1>0, <1>2, TotalQuiet DEF Increment
  <2>3. ASSUME NEW n \in Nodes, Record(n) PROVE TotalFor(u)'
    BY <2>3, <1>0, <1>2, TotalRecord
  <2>4. ASSUME NEW n \in Nodes, Push(n) \/ Expire(n) PROVE TotalFor(u)'
    BY <2>4, <2>q DEF Push, PushTake, PushStore, PushClean, Expire, dbVars
  <2>5. ASSUME NEW s \in Slots, UsageTake(s) \/ UsageDone(s) PROVE TotalFor(u)'
    <3>1. UNCHANGED <<sent, lifetime, rec, counter>>
      BY <2>5 DEF UsageTake, UsageDone, dbVars
    <3>2. Increment(s, u)' = Increment(s, u) /\ \A r \in Slots \ {s} : jobs'[r] = jobs[r]
      BY <2>5 DEF UsageTake, UsageDone, Increment, TypeOK, Jobs, NoJob
    <3>3. \A r \in Slots : Increment(r, u)' = Increment(r, u)
      BY <3>2 DEF Increment
    <3> QED BY <3>1, <3>3, <1>0, <1>2, TotalQuiet DEF Underway
  <2>6. ASSUME NEW s \in Slots, UsageApply(s) PROVE TotalFor(u)'
    BY <2>6, <1>0, <1>2, TotalApply
  <2>7. CASE ResetEnqueue \/ Reset \/ Watchdog
    BY <2>7, <2>q DEF ResetEnqueue, Reset, ResetPause, ResetBegin, ResetSelect, ResetWrite,
      ResetLimited, ResetResume, Watchdog, dbVars
  <2>8. CASE WorkerDies
    <3>1. deaths' # 0
      BY <2>8 DEF WorkerDies, TypeOK
    <3> QED BY <3>1 DEF TotalFor, Lossless
  <2> QED BY <2>1, <2>2, <2>3, <2>4, <2>5, <2>6, <2>7, <2>8, <1>2 DEF Next, Usage
<1>. QED BY <1>1, <1>2

LEMMA SumOfZeros ==
  ASSUME NEW S, IsFiniteSet(S), NEW f, f \in [S -> {0}]
  PROVE  SumFunction(f) = 0
<1> DEFINE P == Partial(f, S)
           Bad == {s \in SUBSET S : P[s] # 0}
<1> SUFFICES ASSUME Bad # {} PROVE FALSE
  BY SumIsPartial
<1>1. PICK T \in Bad : \A t \in SUBSET T : t # T => t \notin Bad
  <2>1. Bad \in SUBSET (SUBSET S) /\ Bad # {}
    OBVIOUS
  <2> HIDE DEF Bad
  <2> QED BY <2>1, LeastSet
<1>2. P[T] = IF T = {} THEN 0 ELSE f[Pick(T)] + P[T \ {Pick(T)}]
  BY SumsExist, SumsAt
<1> HIDE DEF P
<1>3. CASE T = {}
  BY <1>1, <1>2, <1>3
<1>4. CASE T # {}
  <2>1. Pick(T) \in T
    BY <1>4, PickIn
  <2>2. P[T \ {Pick(T)}] = 0
    BY <1>1, <2>1
  <2>3. f[Pick(T)] = 0
    BY <1>1, <2>1
  <2> QED BY <1>1, <1>2, <1>4, <2>2, <2>3
<1> QED BY <1>3, <1>4

LEMMA TotalInit == Init => TotalsKept
<1>. SUFFICES ASSUME Init, NEW u \in Users PROVE TotalFor(u)
  BY DEF TotalsKept, TotalFor
<1>1. /\ \A n \in Nodes : Underway(n, u) = 0 /\ sent[n][u] = 0
      /\ \A s \in Slots : Increment(s, u) = 0
      /\ lifetime[u] = 0
  BY DEF Init, Underway, Increment, NoRec, NoJob, Nothing
<1>2. \A n \in Nodes : Multiplier[n] * Underway(n, u) = 0 /\ Multiplier[n] * sent[n][u] = 0
  BY <1>1, MultiplierAssumption
<1>3. /\ SumFunction(Increments(u)) = 0
      /\ SumFunction(Weighted(u)) = 0 /\ SumFunction(Weights(u)) = 0
  <2>1. /\ Increments(u) \in [Slots -> {0}]
        /\ Weighted(u) \in [Nodes -> {0}] /\ Weights(u) \in [Nodes -> {0}]
    BY <1>1, <1>2 DEF Increments, Weighted, Weights
  <2> QED BY <2>1, SumOfZeros, FiniteAssumption
<1>4. /\ ToTotals(u) = (Unit * (lifetime[u] + SumFunction(Increments(u))))
                         + SumFunction(Weighted(u))
      /\ Due(u) = SumFunction(Weights(u))
  BY TypeInit, TotalsAre DEF Totals
<1>5. ToTotals(u) = 0 /\ Due(u) = 0
  BY <1>1, <1>3, <1>4, UnitAssumption
<1>. QED BY <1>5 DEF TotalFor

\* Whatever fails, the totals never get more than the nodes have counted, with each
\* node's multiplier, unless a worker dies; and where nothing is lost and the
\* multipliers are whole, they get all of it (updateUserUsage and
\* bulkIncrementUsedTraffic).
THEOREM TotalsAreKept == Spec => []TotalsKept
<1>1. TypeOK /\ TotalsKept /\ [Next]_vars => (TypeOK /\ TotalsKept)'
  BY TypeStep, TotalStep
<1>2. Init => TypeOK /\ TotalsKept
  BY TypeInit, TotalInit
<1>. QED BY <1>1, <1>2, PTL DEF Spec
=============================================================================

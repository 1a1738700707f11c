--------------------------- MODULE UsagePipeline ---------------------------
(***************************************************************************)
(* How the traffic of users gets from the nodes to the database: a cron    *)
(* task reads and zeroes the counters of every node, the amounts go into a *)
(* hash in Redis (one for each node) and into jobs that increment the      *)
(* users' totals; a delayed job moves the hash to the history table.  The  *)
(* jobs that reset traffic pause both queues while they write, and the     *)
(* watchdog limits users that have used up their traffic.                  *)
(*                                                                         *)
(* An action is what one actor does between two awaits on another system.  *)
(* The users of the model have one traffic limit and one reset strategy.   *)
(***************************************************************************)
EXTENDS Naturals, FiniteSets, Functions

CONSTANTS
  Nodes, Users,
  Slots,        \* jobs of updateUsersUsage there may be at a time
  Multiplier,   \* the consumption multiplier of each node, in parts of Unit
  Unit,
  IgnoreBelow,  \* USER_USAGE_IGNORE_BELOW_BYTES
  Limit,        \* trafficLimitBytes, 0 for none
  MaxSent,      \* bound on the traffic of a user over a node
  MaxResets,    \* bound on the jobs that reset traffic
  Faults,       \* what may go wrong: "net" (the answer of a node is lost),
                \* "redis" (Redis or a queue refuses), "db" (a statement
                \* fails), "ttl" (a hash is not written to for three hours),
                \* "slow" (throttling ends before the jobs do), "worker" (the
                \* workers' process dies and is started again)
  MaxFailed,    \* bound on the faults other than "worker",
  MaxDeaths     \*   and on those

Amounts == [Users -> Nat]
Nothing == [u \in Users |-> 0]

ASSUME FiniteAssumption == IsFiniteSet(Nodes) /\ IsFiniteSet(Slots)
ASSUME UnitAssumption == Unit \in Nat \ {0}
ASSUME MultiplierAssumption == Multiplier \in [Nodes -> Nat]
ASSUME LimitAssumption == Limit \in Nat /\ IgnoreBelow \in Nat
ASSUME BoundAssumption ==
  MaxSent \in Nat /\ MaxResets \in Nat /\ MaxFailed \in Nat /\ MaxDeaths \in Nat

VARIABLES
  counter,    \* the counters of the core of each node
  rec,        \* the RECORD_USER_USAGE job of each node
  hash,       \* node_user_usage:<id> in Redis, which exists if not empty,
  processing, \*   and what a push has renamed it to
  push,       \* the job that pushes the hash of each node
  late,       \* the nodes whose last push was not enqueued, because the one
              \*   before it was running
  jobs,       \* the jobs of updateUsersUsage
  paused,     \* whether updateUsersUsage and the pushes are paused
  reset,      \* the job that resets traffic
  used, lifetime,  \* the table user_traffic
  history,    \* the table nodes_user_usage_history
  limited,    \* the users that are LIMITED; the others are ACTIVE
  sent,       \* history: the traffic there has been
  resets, failed, deaths  \* bounds

redisVars == <<hash, processing, push, late>>
dbVars == <<used, lifetime, history, limited>>
boundVars == <<resets, failed, deaths>>
vars == <<counter, rec, redisVars, jobs, paused, reset, dbVars, sent, boundVars>>

NoRec == [pc |-> "none", list |-> Nothing, stalled |-> FALSE]
NoJob == [pc |-> "none", add |-> Nothing, stalled |-> FALSE]
NoPush == [pc |-> "none", stalled |-> FALSE]
NoReset == [pc |-> "none", ids |-> {}, stalled |-> FALSE]

Init ==
  /\ counter = [n \in Nodes |-> Nothing]
  /\ rec = [n \in Nodes |-> NoRec]
  /\ hash = [n \in Nodes |-> Nothing] /\ processing = [n \in Nodes |-> Nothing]
  /\ push = [n \in Nodes |-> NoPush] /\ late = {}
  /\ jobs = [s \in Slots |-> NoJob]
  /\ paused = FALSE /\ reset = NoReset
  /\ used = Nothing /\ lifetime = Nothing /\ limited = {}
  /\ history = [n \in Nodes |-> Nothing]
  /\ sent = [n \in Nodes |-> Nothing]
  /\ resets = 0 /\ failed = {} /\ deaths = 0

\* Each kind of fault happens once at most.
Fault(f) ==
  /\ f \in Faults \ failed /\ Cardinality(failed) < MaxFailed
  /\ failed' = failed \cup {f}

Plus(a, b) == [u \in Users |-> a[u] + b[u]]

Traffic(n, u) ==
  /\ sent[n][u] < MaxSent
  /\ sent' = [sent EXCEPT ![n][u] = @ + 1]
  /\ counter' = [counter EXCEPT ![n][u] = @ + 1]
  /\ UNCHANGED <<rec, redisVars, jobs, paused, reset, dbVars, boundVars>>

-----------------------------------------------------------------------------
(* RecordUserUsageTask and RecordUserUsageQueueProcessor.  A job that fails *)
(* anywhere ends: what it has read from the node is gone.                  *)

RecEnd(n) == rec' = [rec EXCEPT ![n] = NoRec]
RecGoto(n, pc) == rec' = [rec EXCEPT ![n].pc = pc]

\* recordUserUsageBulk: one job for each node at a time.
RecordEnqueue(n) ==
  /\ rec[n].pc = "none"
  /\ RecGoto(n, "waiting")
  /\ UNCHANGED <<counter, redisVars, jobs, paused, reset, dbVars, sent,
                 boundVars>>

\* Mutant: the list may be empty.
RecordStatsEmpty(n) ==
  /\ rec[n].pc = "waiting"
  /\ rec' = [rec EXCEPT ![n].pc = "got", ![n].list = counter[n]]
  /\ counter' = [counter EXCEPT ![n] = Nothing]
  /\ UNCHANGED <<redisVars, jobs, paused, reset, dbVars, sent, boundVars>>

\* getUsersStats with reset: true.  The node leaves out users without traffic.
RecordStats(n) ==
  /\ rec[n].pc = "waiting"
  /\ \/ /\ rec' = [rec EXCEPT ![n] =
                 IF counter[n] = Nothing THEN NoRec
                 ELSE [@ EXCEPT !.pc = "got", !.list = counter[n]]]
        /\ counter' = [counter EXCEPT ![n] = Nothing]
        /\ UNCHANGED failed
     \/ /\ Fault("net")
        /\ counter' \in {counter, [counter EXCEPT ![n] = Nothing]}
        /\ RecEnd(n)
  /\ UNCHANGED <<redisVars, jobs, paused, reset, dbVars, sent, resets, deaths>>

\* Amounts below the threshold are dropped.
Kept(list) == [u \in Users |-> IF list[u] < IgnoreBelow THEN 0 ELSE list[u]]

\* multiplyConsumption
Counted(n, list) == [u \in Users |-> (list[u] * Multiplier[n]) \div Unit]

\* The pipeline of hincrby.  One that fails may have been executed, and the
\* results of its commands are not looked at.
RecordStore(n) ==
  LET stored == [hash EXCEPT ![n] = Plus(@, Kept(rec[n].list))]
  IN /\ rec[n].pc = "got"
     /\ \/ hash' = stored /\ RecGoto(n, "stored") /\ UNCHANGED failed
        \/ /\ Fault("redis") /\ hash' \in {hash, stored}
           /\ RecEnd(n) \/ RecGoto(n, "stored")
     /\ UNCHANGED <<counter, processing, push, late, jobs, paused, reset,
                    dbVars, sent, resets, deaths>>

\* updateUserUsage
RecordCount(n) ==
  LET list == Kept(rec[n].list)
  IN /\ rec[n].pc = "stored"
     /\ \/ /\ IF list = Nothing THEN UNCHANGED jobs
              ELSE \E s \in Slots :
                     /\ jobs[s].pc = "none"
                     /\ jobs' = [jobs EXCEPT ![s] =
                           [NoJob EXCEPT !.pc = "waiting",
                                         !.add = Counted(n, list)]]
           /\ RecGoto(n, "counted")
           /\ UNCHANGED failed
        \/ Fault("redis") /\ RecEnd(n) /\ UNCHANGED jobs
     /\ UNCHANGED <<counter, redisVars, paused, reset, dbVars, sent, resets,
                    deaths>>

\* recordUserUsageDelayed: deduplicated until the job before it has ended.
RecordPush(n) ==
  /\ rec[n].pc = "counted"
  /\ \/ /\ IF push[n].pc = "none"
           THEN push' = [push EXCEPT ![n].pc = "waiting"] /\ late' = late \ {n}
           ELSE /\ push' = push
                /\ late' = IF push[n].pc = "waiting" THEN late
                           ELSE late \cup {n}
        /\ UNCHANGED failed
     \/ Fault("redis") /\ UNCHANGED <<push, late>>
  /\ RecEnd(n)
  /\ UNCHANGED <<counter, hash, processing, jobs, paused, reset, dbVars, sent,
                 resets, deaths>>

\* The hash has a time to live.
Expire(n) ==
  /\ hash[n] # Nothing /\ Fault("ttl")
  /\ hash' = [hash EXCEPT ![n] = Nothing]
  /\ UNCHANGED <<counter, rec, processing, push, late, jobs, paused, reset,
                 dbVars, sent, resets, deaths>>

-----------------------------------------------------------------------------
(* PushFromRedisQueueProcessor.                                            *)

PushGoto(n, pc) == push' = [push EXCEPT ![n].pc = pc]

\* Mutant: what a push that died has left is pushed again.
PushTakeAgain(n) ==
  /\ push[n].pc = "waiting" /\ ~paused
  /\ IF processing[n] # Nothing
     THEN PushGoto(n, "scan") /\ UNCHANGED <<hash, processing>>
     ELSE IF hash[n] = Nothing
     THEN PushGoto(n, "clean") /\ UNCHANGED <<hash, processing>>
     ELSE /\ processing' = [processing EXCEPT ![n] = hash[n]]
          /\ hash' = [hash EXCEPT ![n] = Nothing]
          /\ PushGoto(n, "scan")
  /\ UNCHANGED <<counter, rec, late, jobs, paused, reset, dbVars, sent, resets,
                 deaths, failed>>

\* Mutant: exists is asked about the other key.
PushTakeOther(n) ==
  /\ push[n].pc = "waiting" /\ ~paused
  /\ IF processing[n] = Nothing
     THEN PushGoto(n, "clean") /\ UNCHANGED <<hash, processing>>
     ELSE /\ processing' = [processing EXCEPT ![n] = hash[n]]
          /\ hash' = [hash EXCEPT ![n] = Nothing]
          /\ PushGoto(n, "scan")
  /\ UNCHANGED <<counter, rec, late, jobs, paused, reset, dbVars, sent, resets,
                 deaths, failed>>

\* exists and rename
PushTake(n) ==
  /\ push[n].pc = "waiting" /\ ~paused
  /\ \/ /\ hash[n] # Nothing
        /\ processing' = [processing EXCEPT ![n] = hash[n]]
        /\ hash' = [hash EXCEPT ![n] = Nothing]
        /\ PushGoto(n, "scan")
        /\ UNCHANGED failed
     \/ /\ hash[n] = Nothing /\ PushGoto(n, "clean")
        /\ UNCHANGED <<hash, processing, failed>>
     \/ /\ Fault("redis") /\ PushGoto(n, "clean")
        /\ UNCHANGED <<hash, processing>>
  /\ UNCHANGED <<counter, rec, late, jobs, paused, reset, dbVars, sent, resets,
                 deaths>>

\* BulkUpsertUserHistoryEntryCommand, whose handler swallows errors.
PushStore(n) ==
  /\ push[n].pc = "scan"
  /\ \/ history' = [history EXCEPT ![n] = Plus(@, processing[n])]
        /\ UNCHANGED failed
     \/ Fault("db") /\ UNCHANGED history
  /\ PushGoto(n, "clean")
  /\ UNCHANGED <<counter, rec, hash, processing, late, jobs, paused, reset,
                 used, lifetime, limited, sent, resets, deaths>>

\* finally
PushClean(n) ==
  /\ push[n].pc = "clean"
  /\ \/ processing' = [processing EXCEPT ![n] = Nothing] /\ UNCHANGED failed
     \/ Fault("redis") /\ UNCHANGED processing
  /\ push' = [push EXCEPT ![n] = NoPush]
  /\ UNCHANGED <<counter, rec, hash, late, jobs, paused, reset, dbVars, sent,
                 resets, deaths>>

-----------------------------------------------------------------------------
(* UpdateUsersUsageQueueProcessor.                                         *)

UsageTake(s) ==
  /\ jobs[s].pc = "waiting" /\ ~paused
  /\ jobs' = [jobs EXCEPT ![s].pc = "active"]
  /\ UNCHANGED <<counter, rec, redisVars, paused, reset, dbVars, sent,
                 boundVars>>

\* Mutant: a job that has failed is attempted again, though it was committed.
UsageApplyRetry(s) ==
  /\ jobs[s].pc = "active"
  /\ used' = Plus(used, jobs[s].add)
  /\ lifetime' = Plus(lifetime, jobs[s].add)
  /\ \/ jobs' = [jobs EXCEPT ![s].pc = "applied"] /\ UNCHANGED failed
     \/ Fault("db") /\ jobs' = [jobs EXCEPT ![s].pc = "waiting"]
  /\ UNCHANGED <<counter, rec, redisVars, paused, reset, history, limited,
                 sent, resets, deaths>>

\* bulkIncrementUsedTraffic; an error is logged, and the job counts as done.
UsageApply(s) ==
  /\ jobs[s].pc = "active"
  /\ \/ /\ used' = Plus(used, jobs[s].add)
        /\ lifetime' = Plus(lifetime, jobs[s].add)
        /\ UNCHANGED failed
     \/ Fault("db") /\ UNCHANGED <<used, lifetime>>
  /\ jobs' = [jobs EXCEPT ![s].pc = "applied"]
  /\ UNCHANGED <<counter, rec, redisVars, paused, reset, history, limited,
                 sent, resets, deaths>>

\* FIRST_CONNECTED is fired, and the job is completed.
UsageDone(s) ==
  /\ jobs[s].pc = "applied"
  /\ jobs' = [jobs EXCEPT ![s] = NoJob]
  /\ UNCHANGED <<counter, rec, redisVars, paused, reset, dbVars, sent,
                 boundVars>>

-----------------------------------------------------------------------------
(* ResetUserTrafficQueueProcessor and throttleQueues.                      *)

ResetGoto(pc) == reset' = [reset EXCEPT !.pc = pc]

ResetEnqueue ==
  /\ reset.pc = "none" /\ resets < MaxResets
  /\ resets' = resets + 1
  /\ ResetGoto("waiting")
  /\ UNCHANGED <<counter, rec, redisVars, jobs, paused, dbVars, sent, failed,
                 deaths>>

\* q.pause()
ResetPause ==
  /\ reset.pc = "waiting"
  /\ paused' = TRUE
  /\ ResetGoto("throttle")
  /\ UNCHANGED <<counter, rec, redisVars, jobs, dbVars, sent, boundVars>>

InProgress ==
  \/ \E s \in Slots : jobs[s].pc \in {"active", "applied"}
  \/ \E n \in Nodes : push[n].pc \in {"scan", "clean"}

\* Mutant: only the pushes are waited for.
ResetBeginEarly ==
  /\ reset.pc = "throttle"
  /\ \A n \in Nodes : push[n].pc \notin {"scan", "clean"}
  /\ ResetGoto("select")
  /\ UNCHANGED <<counter, rec, redisVars, jobs, paused, dbVars, sent, resets,
                 deaths, failed>>

\* No worker is active, or ten attempts were made.
ResetBegin ==
  /\ reset.pc = "throttle"
  /\ \/ ~InProgress /\ UNCHANGED failed
     \/ InProgress /\ Fault("slow")
  /\ ResetGoto("select")
  /\ UNCHANGED <<counter, rec, redisVars, jobs, paused, dbVars, sent, resets,
                 deaths>>

\* resetUserTraffic of the repository: the users that are not LIMITED.
ResetSelect ==
  /\ reset.pc = "select"
  /\ \/ /\ reset' = [reset EXCEPT !.pc = "write", !.ids = Users \ limited]
        /\ UNCHANGED failed
     \/ Fault("db") /\ ResetGoto("limited")
  /\ UNCHANGED <<counter, rec, redisVars, jobs, paused, dbVars, sent, resets,
                 deaths>>

Zeroed(S) == [u \in Users |-> IF u \in S THEN 0 ELSE used[u]]

ResetWrite ==
  /\ reset.pc = "write"
  /\ \/ used' = Zeroed(reset.ids) /\ UNCHANGED failed
     \/ Fault("db") /\ UNCHANGED used
  /\ reset' = [reset EXCEPT !.pc = "limited", !.ids = {}]
  /\ UNCHANGED <<counter, rec, redisVars, jobs, paused, lifetime, history,
                 limited, sent, resets, deaths>>

\* Mutant: the users that were LIMITED when the job began.
ResetLimitedFirst ==
  /\ reset.pc = "limited"
  /\ LET S == {u \in limited : used[u] # 0}
     IN used' = Zeroed(S) /\ limited' = limited \ S
  /\ ResetGoto("resume")
  /\ UNCHANGED <<counter, rec, redisVars, jobs, paused, lifetime, history,
                 sent, resets, deaths, failed>>

\* resetLimitedUserTraffic
ResetLimited ==
  /\ reset.pc = "limited"
  /\ \/ used' = Zeroed(limited) /\ limited' = {} /\ UNCHANGED failed
     \/ Fault("db") /\ UNCHANGED <<used, limited>>
  /\ ResetGoto("resume")
  /\ UNCHANGED <<counter, rec, redisVars, jobs, paused, lifetime, history,
                 sent, resets, deaths>>

\* Mutant: the queues are only resumed if users were activated.
ResetResumeSome ==
  /\ reset.pc = "resume"
  /\ paused' = (paused /\ \A u \in Users : used[u] # 0)
  /\ reset' = NoReset
  /\ UNCHANGED <<counter, rec, redisVars, jobs, dbVars, sent, boundVars>>

\* activateQueues
ResetResume ==
  /\ reset.pc = "resume"
  /\ paused' = FALSE
  /\ reset' = NoReset
  /\ UNCHANGED <<counter, rec, redisVars, jobs, dbVars, sent, boundVars>>

\* updateExceededTrafficUsers, one statement.
Watchdog ==
  /\ Limit # 0
  /\ limited' = limited \cup {u \in Users : used[u] >= Limit}
  /\ UNCHANGED <<counter, rec, redisVars, jobs, paused, reset, used, lifetime,
                 history, sent, boundVars>>

-----------------------------------------------------------------------------
(* A job whose worker died is run once more, without what it had in memory; *)
(* the second time it fails, and no finally block of it runs.              *)

\* Mutant: the job fails the first time.
StalledOnce(job, again, none) ==
  IF job.pc \in {"none", "waiting"} THEN job ELSE none

Stalled(job, again, none) ==
  IF job.pc \in {"none", "waiting"} THEN job
  ELSE IF job.stalled THEN none
  ELSE [again EXCEPT !.pc = "waiting", !.stalled = TRUE]

WorkerDies ==
  /\ "worker" \in Faults /\ deaths < MaxDeaths /\ deaths' = deaths + 1
  /\ rec' = [n \in Nodes |-> Stalled(rec[n], NoRec, NoRec)]
  /\ push' = [n \in Nodes |-> Stalled(push[n], NoPush, NoPush)]
  /\ jobs' = [s \in Slots |-> Stalled(jobs[s], jobs[s], NoJob)]
  /\ reset' = Stalled(reset, NoReset, NoReset)
  /\ UNCHANGED <<counter, hash, processing, late, paused, dbVars, sent, resets,
                 failed>>

-----------------------------------------------------------------------------
Record(n) == RecordStats(n) \/ RecordStore(n) \/ RecordCount(n) \/ RecordPush(n)
Push(n) == PushTake(n) \/ PushStore(n) \/ PushClean(n)
Usage(s) == UsageTake(s) \/ UsageApply(s) \/ UsageDone(s)
Reset ==
  \/ ResetPause \/ ResetBegin \/ ResetSelect \/ ResetWrite \/ ResetLimited
  \/ ResetResume

Next ==
  \/ \E n \in Nodes : \/ \E u \in Users : Traffic(n, u)
                      \/ RecordEnqueue(n) \/ Record(n) \/ Push(n) \/ Expire(n)
  \/ \E s \in Slots : Usage(s)
  \/ ResetEnqueue \/ Reset \/ Watchdog \/ WorkerDies

Spec == Init /\ [][Next]_vars

\* The cron task runs every fifteen seconds, and the workers take the jobs of
\* queues that are not paused.
FairSpec ==
  /\ Spec
  /\ \A n \in Nodes : WF_vars(RecordEnqueue(n)) /\ WF_vars(Record(n))
                      /\ WF_vars(Push(n))
  /\ \A s \in Slots : WF_vars(Usage(s))
  /\ WF_vars(Reset)

-----------------------------------------------------------------------------
(* Properties.                                                             *)

Recs == [pc : {"none", "waiting", "got", "stored", "counted"}, list : Amounts,
         stalled : BOOLEAN]
Pushes == [pc : {"none", "waiting", "scan", "clean"}, stalled : BOOLEAN]
Jobs == [pc : {"none", "waiting", "active", "applied"}, add : Amounts,
         stalled : BOOLEAN]
Resets == [pc : {"none", "waiting", "throttle", "select", "write", "limited",
                 "resume"}, ids : SUBSET Users, stalled : BOOLEAN]

\* Counters, hashes, tables and jobs hold values of their kinds, and a job that
\* has got an answer from a node has got something to record.
TypeOK ==
  /\ counter \in [Nodes -> Amounts] /\ sent \in [Nodes -> Amounts]
  /\ rec \in [Nodes -> Recs]
  /\ \A n \in Nodes : rec[n].pc \in {"got", "stored", "counted"} =>
                        rec[n].list # Nothing
  /\ hash \in [Nodes -> Amounts] /\ processing \in [Nodes -> Amounts]
  /\ push \in [Nodes -> Pushes] /\ late \in SUBSET Nodes
  /\ jobs \in [Slots -> Jobs] /\ paused \in BOOLEAN /\ reset \in Resets
  /\ used \in Amounts /\ lifetime \in Amounts
  /\ history \in [Nodes -> Amounts] /\ limited \in SUBSET Users
  /\ resets \in Nat /\ failed \in SUBSET Faults /\ deaths \in Nat

\* No statement, call or answer has failed in a way that loses traffic, and no
\* amount is too small to count.
Lossless == failed \subseteq {"slow"} /\ deaths = 0 /\ IgnoreBelow <= 1

\* The traffic of u over n that the history table has or can still get.
ToHistory(n, u) ==
  counter[n][u] + (IF rec[n].pc = "got" THEN rec[n].list[u] ELSE 0)
    + hash[n][u] + (IF push[n].pc = "scan" THEN processing[n][u] ELSE 0)
    + history[n][u]

\* No traffic is entered into the history twice, whatever fails, wherever the
\* workers die and whatever jobs are run again; and if nothing fails, none is
\* lost between the counters, the list, the two hashes and the table.
HistoryKept ==
  \A n \in Nodes, u \in Users :
    /\ ToHistory(n, u) <= sent[n][u]
    /\ Lossless => ToHistory(n, u) = sent[n][u]

\* The traffic of u over n that no increment has yet, and what an increment will
\* still add to the total of u.
Underway(n, u) ==
  counter[n][u] + (IF rec[n].pc \in {"got", "stored"} THEN rec[n].list[u] ELSE 0)
Increment(s, u) == IF jobs[s].pc \in {"waiting", "active"} THEN jobs[s].add[u] ELSE 0

\* What the total of u has or can still get, and what it should have in the end,
\* in parts of Unit.
ToTotals(u) ==
  Unit * (lifetime[u] + SumFunction([s \in Slots |-> Increment(s, u)]))
    + SumFunction([n \in Nodes |-> Multiplier[n] * Underway(n, u)])
Due(u) == SumFunction([n \in Nodes |-> Multiplier[n] * sent[n][u]])

Divisible == \A n \in Nodes : Multiplier[n] % Unit = 0

\* The same for the totals, with each node's multiplier, as long as no worker
\* dies: then a job that was committed may be run again.
TotalsKept ==
  \A u \in Users :
    /\ deaths = 0 => ToTotals(u) <= Due(u)
    /\ Lossless /\ Divisible => ToTotals(u) = Due(u)

\* Traffic in the hash of a node is on its way: the job that will push it is in
\* its queue, or will be when the record that stored it ends.  The exception is
\* traffic that was stored while the push before was running, which waits for
\* the node's next traffic.
HashIsPushed ==
  \A n \in Nodes : hash[n] # Nothing /\ failed \subseteq {"slow", "db", "net"}
                   /\ deaths = 0 =>
    push[n].pc = "waiting" \/ rec[n].pc \in {"stored", "counted"} \/ n \in late

\* While a reset writes, no job increments what it sets to zero, unless a job
\* outlasted the throttling.
ResetIsolated ==
  [][reset.pc \in {"select", "write", "limited"} /\ "slow" \notin failed =>
       \A u \in Users : used'[u] <= used[u]]_vars

\* The queues are paused only while a job that resumes them is in its queue,
\* unless BullMQ has failed that job because its worker died twice.
PauseIsOwned == paused /\ deaths < 2 => reset.pc # "none"

\* A user below the limit is not LIMITED, unless a reset is about to activate
\* the user, or could not.
LimitedIsExceeded ==
  \A u \in limited : used[u] < Limit =>
    reset.pc \notin {"none", "resume"} \/ "db" \in failed \/ deaths >= 2

AllCounted == Lossless => \A u \in Users : Unit * lifetime[u] = Due(u)

\* If nothing fails, all traffic ends up in the totals, though resets pause the
\* queues in between.
EventuallyCounted == <>[]AllCounted
=============================================================================

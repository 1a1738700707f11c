------------------------ MODULE NodeLifecycle_proofs ------------------------
(* Theorems about NodeLifecycle, for any number of nodes, profiles, requests *)
(* and faults: type correctness, who resumes the queues, who resets          *)
(* isConnecting, whether the administrator's last decision about a node      *)
(* holds, and whether a disabled node is stopped.                            *)
EXTENDS NodeLifecycle, TLAPS

-----------------------------------------------------------------------------
(* The helpers of the actions keep the types.                              *)

Pcs == Trying \cup {"none", "waiting", "clear", "mark"}

\* What an attempt starts from is well typed.
LEMMA NoTryType == NoTry \in Tries /\ Single \in Starters
  BY DEF NoTry, NoConfig, Tries, Configs, Starters

\* A new value for a field of an attempt.
LEMMA TryFields ==
  ASSUME NEW t \in Tries
  PROVE  /\ \A x \in Pcs : [t EXCEPT !.pc = x] \in Tries
         /\ \A b \in BOOLEAN : [t EXCEPT !.started = b] \in Tries
         /\ \A g \in Configs : [t EXCEPT !.gives = g] \in Tries
<1>1. \A x \in Pcs : [t EXCEPT !.pc = x] \in Tries
  BY DEF Tries, Pcs
<1>2. \A b \in BOOLEAN : [t EXCEPT !.started = b] \in Tries
  BY DEF Tries
<1>3. \A g \in Configs : [t EXCEPT !.gives = g] \in Tries
  BY DEF Tries
<1> QED BY <1>1, <1>2, <1>3

\* A new place and a new answer.
LEMMA TryAnswered ==
  ASSUME NEW t \in Tries, NEW x \in Pcs, NEW b \in BOOLEAN
  PROVE  [t EXCEPT !.pc = x, !.started = b] \in Tries
<1> DEFINE q == [t EXCEPT !.pc = x]
<1>1. q \in Tries
  BY TryFields
<1> HIDE DEF q
<1>2. [q EXCEPT !.started = b] \in Tries
  BY <1>1, TryFields
<1> QED BY <1>2 DEF q

\* A new record for one attempt.
LEMMA TrySet ==
  ASSUME TryType, NEW w \in Starters, NEW n \in Nodes, NEW r \in Tries,
         try' = [try EXCEPT ![w][n] = r]
  PROVE  TryType'
  BY DEF TryType

\* Another place for one attempt.
LEMMA GotoType ==
  ASSUME TryType, NEW w \in Starters, NEW n \in Nodes, NEW pc \in Pcs,
         Goto(w, n, pc)
  PROVE  TryType'
<1> DEFINE r == [try[w][n] EXCEPT !.pc = pc]
<1>1. r \in Tries
  BY DEF TryType, Tries, Pcs
<1>2. try' = [try EXCEPT ![w][n] = r]
  BY DEF Goto
<1> QED BY <1>1, <1>2, TrySet

\* An attempt ends.
LEMMA EndType ==
  ASSUME TryType, NEW w \in Starters, NEW n \in Nodes, End(w, n)
  PROVE  TryType'
  BY TrySet, NoTryType DEF End

\* An attempt is answered.
LEMMA AnswerType ==
  ASSUME TryType, NEW w \in Starters, NEW n \in Nodes, NEW b \in BOOLEAN,
         Answer(w, n, b)
  PROVE  TryType'
<1> DEFINE r == [try[w][n] EXCEPT !.pc = "answered", !.started = b]
<1>1. r \in Tries
  BY TryAnswered DEF TryType, Pcs, Trying
<1>2. try' = [try EXCEPT ![w][n] = r]
  BY DEF Answer, TryType
<1> QED BY <1>1, <1>2, TrySet

\* The START_NODE job of a node is added.
LEMMA AddStartType ==
  ASSUME TryType, NEW n \in Nodes, NEW force \in BOOLEAN, AddStart(n, force)
  PROVE  TryType'
<1> DEFINE r == [NoTry EXCEPT !.pc = "waiting", !.force = force]
<1>1. r \in Tries
  BY NoTryType DEF Tries, NoTry
<1>2. CASE try[Single][n].pc = "none"
  <2>1. try' = [try EXCEPT ![Single][n] = r]
    BY <1>2 DEF AddStart
  <2> QED BY <1>1, <2>1, TrySet, NoTryType
<1>3. CASE try[Single][n].pc # "none"
  BY <1>3 DEF AddStart, TryType
<1> QED BY <1>2, <1>3

\* The START_ALL_BY_PROFILE job of a profile is added, or to be retried.
LEMMA AddProfileType ==
  ASSUME ProfType, NEW p \in Profiles, NEW force \in BOOLEAN,
         NEW S \in SUBSET Profiles, AddProfile(p, force, S)
  PROVE  ProfType' /\ waiting' \in SUBSET Profiles
<1> DEFINE r == [NoProf EXCEPT !.pc = "waiting", !.force = force]
<1>1. r \in Profs
  BY DEF NoProf, Profs
<1> QED BY <1>1 DEF AddProfile, ProfType

\* The START_ALL_NODES job is added.
LEMMA AddEveryType ==
  ASSUME QueueType, NEW force \in BOOLEAN, AddEvery(force)
  PROVE  every' \in Everys
<1>1. [NoEvery EXCEPT !.pc = "waiting", !.force = force] \in Everys
  BY DEF NoEvery, Everys
<1> QED BY <1>1 DEF AddEvery, QueueType

\* The NODE_HEALTH_CHECK job of a node is added.
LEMMA CheckAdded ==
  ASSUME NEW n
  PROVE  [pc |-> "waiting", was |-> n \in connected] \in Checks
  BY DEF Checks

\* The job of a profile ends.
LEMMA FinallyType ==
  ASSUME ProfType, NEW p \in Profiles, ProfileFinally(p)
  PROVE  ProfType' /\ paused' \in BOOLEAN
<1>1. NoProf \in Profs
  BY DEF NoProf, Profs
<1> QED BY <1>1 DEF ProfileFinally, ProfType

\* The state of a request that edits nodes.
LEMMA EditType ==
  ASSUME NEW pc \in {"remove", "add"}, NEW S \in SUBSET Nodes,
         NEW ends \in {"start", "row", "row, start", "profile"},
         NEW p \in Profiles, NEW some \in BOOLEAN, Edit(pc, ends, S, p, some)
  PROVE  AskType'
  BY DEF Edit, AskType, Edits

\* There is none, or it goes on.
LEMMA EditsType ==
  ASSUME AskType
  PROVE  /\ NoEdit \in Edits
         /\ \A x \in {"add", "row"} : [edit EXCEPT !.pc = x] \in Edits
         /\ edit.nodes \in SUBSET Nodes
         /\ edit.pc = "none" \/ edit.profile \in Profiles
         /\ NoEdit.pc = "none"
         /\ \A x : [edit EXCEPT !.pc = x].profile = edit.profile
  BY DEF AskType, Edits, NoEdit

\* The bounds on requests and on faults.
LEMMA BoundsType ==
  ASSUME HistoryType
  PROVE  /\ \A what, S : Ask(what, S) => asked' \in 0 .. MaxAsked
         /\ \A f : Fault(f) => failed' \in 0 .. MaxFailed
  BY BoundAssumption DEF HistoryType, Ask, Fault

\* A new version for some rows.
LEMMA NewerType ==
  ASSUME RowType, NEW S, version' = Newer(S)
  PROVE  version' \in [Nodes -> Nat]
  BY DEF RowType, Newer

-----------------------------------------------------------------------------
(* Type correctness: what every action can disturb.                        *)

\* The job reads the row.
LEMMA StartReadType ==
  ASSUME TypeOK, NEW n \in Nodes, StartRead(n)
  PROVE  TypeOK'
<1>1. RowType' /\ ProfType' /\ QueueType' /\ CronType' /\ NodeType' /\
     AskType' /\ HistoryType'
  BY DEF TypeOK, RowType, ProfType, QueueType, CronType, NodeType, AskType,
         HistoryType, StartRead, rowVars, jobVars, cronVars, nodeVars, askVars,
         Goto
<1>2. TryType'
  <2> DEFINE g == <<profile[n], version[n], 0>>
             q(x) == [try[Single][n] EXCEPT !.pc = x]
  <2>1. g \in Configs
    BY DEF TypeOK, RowType, Configs
  <2>2. \A x \in {"mark", "clear"} : [q(x) EXCEPT !.gives = g] \in Tries
    <3> SUFFICES ASSUME NEW x \in {"mark", "clear"}
                 PROVE  [q(x) EXCEPT !.gives = g] \in Tries
      OBVIOUS
    <3>1. q(x) \in Tries
      BY TryFields, NoTryType DEF TypeOK, TryType, Pcs
    <3> HIDE DEF q, g
    <3> QED BY <2>1, <3>1, TryFields
  <2>3. CASE End(Single, n)
    BY <2>3, EndType, NoTryType DEF TypeOK
  <2>4. CASE ~End(Single, n)
    <3>1. PICK x \in {"mark", "clear"} :
            try' = [try EXCEPT ![Single][n].pc = x, ![Single][n].gives = g]
      BY <2>4 DEF StartRead
    <3>2. try' = [try EXCEPT ![Single][n] = [q(x) EXCEPT !.gives = g]]
      BY <3>1, NoTryType DEF TypeOK, TryType
    <3> QED BY <2>2, <3>2, TrySet, NoTryType DEF TypeOK
  <2> QED BY <2>3, <2>4
<1> QED BY <1>1, <1>2 DEF TypeOK

\* A row without inbounds is disabled.
LEMMA StartClearType ==
  ASSUME TypeOK, NEW n \in Nodes, StartClear(n)
  PROVE  TypeOK'
<1>1. ProfType' /\ CronType' /\ NodeType' /\ AskType'
  BY DEF TypeOK, ProfType, CronType, NodeType, AskType, StartClear, rowVars,
         jobVars, cronVars, nodeVars, askVars
<1>2. RowType'
  BY DEF TypeOK, RowType, StartClear, Clear
<1>3. TryType'
  BY DEF TypeOK, TryType, StartClear
<1>4. QueueType'
  BY DEF TypeOK, QueueType, StartClear, Clear, Halters, Starters
<1>5. HistoryType'
  BY DEF TypeOK, HistoryType, StartClear, RowType, Clear, askVars
<1> QED BY <1>1, <1>2, <1>3, <1>4, <1>5 DEF TypeOK

\* The STOP_NODE job of a disabled node is enqueued.
LEMMA HaltType ==
  ASSUME TypeOK, NEW w, NEW n \in Nodes, Halt(w, n),
         UNCHANGED <<deleting, check, every, paused>>
  PROVE  QueueType'
  BY DEF TypeOK, QueueType, Halt, AddStop

\* By the START_NODE job, by the job of a profile, and by a request.
LEMMA StartStopType ==
  ASSUME TypeOK, NEW n \in Nodes, StartStop(n)
  PROVE  TypeOK'
<1>1. /\ RowType' /\ ProfType' /\ CronType' /\ NodeType' /\ AskType'
      /\ HistoryType'
  BY DEF TypeOK, RowType, ProfType, CronType, NodeType, AskType, HistoryType,
         StartStop, rowVars, cronVars, nodeVars, askVars
<1>2. TryType'
  BY EndType, NoTryType DEF TypeOK, StartStop
<1>3. QueueType'
  BY HaltType DEF StartStop
<1> QED BY <1>1, <1>2, <1>3 DEF TypeOK

LEMMA ProfileStopType ==
  ASSUME TypeOK, NEW p \in Profiles, ProfileStop(p)
  PROVE  TypeOK'
<1>1. /\ RowType' /\ TryType' /\ ProfType' /\ CronType' /\ NodeType'
      /\ AskType' /\ HistoryType'
  BY DEF TypeOK, RowType, TryType, ProfType, CronType, NodeType, AskType,
         HistoryType, ProfileStop, rowVars, cronVars, nodeVars, askVars
<1>2. QueueType'
  BY HaltType DEF ProfileStop
<1> QED BY <1>1, <1>2 DEF TypeOK

LEMMA DisableStopType ==
  ASSUME TypeOK, NEW n \in Nodes, DisableStop(n)
  PROVE  TypeOK'
<1>1. /\ RowType' /\ TryType' /\ ProfType' /\ CronType' /\ NodeType'
      /\ AskType' /\ HistoryType'
  BY DEF TypeOK, RowType, TryType, ProfType, CronType, NodeType, AskType,
         HistoryType, DisableStop, rowVars, cronVars, nodeVars, askVars
<1>2. QueueType'
  BY HaltType DEF DisableStop
<1> QED BY <1>1, <1>2 DEF TypeOK

\* isConnecting is set.
LEMMA StartMarkType ==
  ASSUME TypeOK, NEW n \in Nodes, StartMark(n)
  PROVE  TypeOK'
<1>1. ProfType' /\ QueueType' /\ CronType' /\ NodeType' /\ AskType' /\
     HistoryType'
  BY DEF TypeOK, ProfType, QueueType, CronType, NodeType, AskType, HistoryType,
         StartMark, rowVars, jobVars, cronVars, nodeVars, askVars
<1>2. RowType'
  BY DEF TypeOK, RowType, StartMark
<1>3. TryType'
  BY GotoType, NoTryType DEF TypeOK, TryType, StartMark, Pcs, Trying
<1> QED BY <1>1, <1>2, <1>3 DEF TypeOK

\* The pre-check.
LEMMA StartPrepareType ==
  ASSUME TypeOK, NEW w \in Starters, NEW n \in Nodes, StartPrepare(w, n)
  PROVE  TypeOK'
<1>1. RowType' /\ ProfType' /\ QueueType' /\ CronType' /\ NodeType' /\ AskType'
  BY DEF TypeOK, RowType, ProfType, QueueType, CronType, NodeType, AskType,
         StartPrepare, rowVars, jobVars, cronVars, nodeVars, askVars
<1>2. TryType'
  <2> DEFINE t == try[w][n]
             g == IF w = Single THEN WithContent(t.gives) ELSE t.gives
             q == [t EXCEPT !.pc = "request"]
             r == [q EXCEPT !.gives = g]
  <2>1. CASE n \in reach
    <3>1. g \in Configs
      BY DEF TypeOK, TryType, Tries, RowType, Configs, WithContent
    <3>2. q \in Tries
      BY TryFields DEF TypeOK, TryType, Pcs, Trying
    <3>3. r \in Tries
      <4> HIDE DEF q, g
      <4> QED BY <3>1, <3>2, TryFields
    <3>4. CASE try' = [try EXCEPT ![w][n].pc = "request",
                 ![w][n].gives = IF w = Single THEN WithContent(@) ELSE @]
      <4>1. try' = [try EXCEPT ![w][n] = r]
        BY <3>4 DEF TypeOK, TryType, Tries
      <4> QED BY <3>3, <4>1, TrySet DEF TypeOK
    <3>5. CASE End(w, n)
      BY <3>5, EndType DEF TypeOK
    <3> QED BY <2>1, <3>4, <3>5 DEF StartPrepare
  <2>2. CASE Goto(w, n, "failed")
    BY <2>2, GotoType DEF TypeOK, Pcs, Trying
  <2>3. CASE End(w, n)
    BY <2>3, EndType DEF TypeOK
  <2> QED BY <2>1, <2>2, <2>3 DEF StartPrepare
<1>3. HistoryType'
  BY BoundsType
    DEF TypeOK, HistoryType, StartPrepare, RowType, rowVars, askVars
<1> QED BY <1>1, <1>2, <1>3 DEF TypeOK

\* The request to the node.
LEMMA StartRequestType ==
  ASSUME TypeOK, NEW w \in Starters, NEW n \in Nodes, StartRequest(w, n)
  PROVE  TypeOK'
<1>1. RowType' /\ ProfType' /\ QueueType' /\ CronType' /\ AskType'
  BY DEF TypeOK, RowType, ProfType, QueueType, CronType, AskType, StartRequest,
         rowVars, jobVars, cronVars, nodeVars, askVars
<1>2. TryType'
  BY GotoType, AnswerType DEF TypeOK, TryType, StartRequest, Pcs, Trying
<1>3. NodeType'
  <2>1. try[w][n].gives \in Configs
    BY DEF TypeOK, TryType, Tries
  <2> QED BY <2>1 DEF TypeOK, NodeType, StartRequest
<1>4. HistoryType'
  BY DEF TypeOK, HistoryType, StartRequest, RowType, rowVars, askVars
<1> QED BY <1>1, <1>2, <1>3, <1>4 DEF TypeOK

\* The panel stops waiting.
LEMMA StartTimeoutType ==
  ASSUME TypeOK, NEW w \in Starters, NEW n \in Nodes, StartTimeout(w, n)
  PROVE  TypeOK'
<1>1. RowType' /\ ProfType' /\ QueueType' /\ CronType' /\ NodeType' /\ AskType'
  BY DEF TypeOK, RowType, ProfType, QueueType, CronType, NodeType, AskType,
         StartTimeout, rowVars, jobVars, cronVars, nodeVars, askVars
<1>2. TryType'
  BY GotoType DEF TypeOK, TryType, StartTimeout, Pcs, Trying
<1>3. HistoryType'
  BY BoundsType
    DEF TypeOK, HistoryType, StartTimeout, RowType, rowVars, askVars
<1> QED BY <1>1, <1>2, <1>3 DEF TypeOK

\* The outcome is written.
LEMMA StartDoneType ==
  ASSUME TypeOK, NEW w \in Starters, NEW n \in Nodes, StartDone(w, n)
  PROVE  TypeOK'
<1>1. ProfType' /\ QueueType' /\ CronType' /\ NodeType' /\ AskType'
  BY DEF TypeOK, ProfType, QueueType, CronType, NodeType, AskType, StartDone,
         rowVars, jobVars, cronVars, nodeVars, askVars
<1>2. RowType'
  BY DEF TypeOK, RowType, StartDone
<1>3. TryType'
  BY EndType DEF TypeOK, TryType, StartDone
<1>4. HistoryType'
  BY DEF TypeOK, HistoryType, StartDone, RowType, askVars
<1> QED BY <1>1, <1>2, <1>3, <1>4 DEF TypeOK

\* The node is told to stop.
LEMMA StopRequestType ==
  ASSUME TypeOK, NEW n \in Nodes, StopRequest(n)
  PROVE  TypeOK'
<1>1. RowType' /\ TryType' /\ ProfType' /\ CronType' /\ AskType' /\
     HistoryType'
  BY DEF TypeOK, RowType, TryType, ProfType, CronType, AskType, HistoryType,
         StopRequest, rowVars, jobVars, cronVars, nodeVars, askVars
<1>2. QueueType'
  BY DEF TypeOK, QueueType, StopRequest
<1>3. NodeType'
  BY DEF TypeOK, NodeType, StopRequest, NoConfig, Configs
<1> QED BY <1>1, <1>2, <1>3 DEF TypeOK

\* The row of a stopped node is written.
LEMMA StopUpdateType ==
  ASSUME TypeOK, NEW n \in Nodes, StopUpdate(n)
  PROVE  TypeOK'
<1>1. TryType' /\ ProfType' /\ CronType' /\ NodeType' /\ AskType'
  BY DEF TypeOK, TryType, ProfType, CronType, NodeType, AskType, StopUpdate,
         rowVars, jobVars, cronVars, nodeVars, askVars
<1>2. RowType'
  BY DEF TypeOK, RowType, StopUpdate
<1>3. QueueType'
  BY DEF TypeOK, QueueType, StopUpdate
<1>4. HistoryType'
  BY DEF TypeOK, HistoryType, StopUpdate, RowType, askVars
<1> QED BY <1>1, <1>2, <1>3, <1>4 DEF TypeOK

\* A row is deleted.
LEMMA DeleteRowType ==
  ASSUME TypeOK, NEW n \in Nodes, DeleteRow(n)
  PROVE  TypeOK'
<1>1. TryType' /\ ProfType' /\ CronType' /\ NodeType' /\ AskType'
  BY DEF TypeOK, TryType, ProfType, CronType, NodeType, AskType, DeleteRow,
         rowVars, jobVars, cronVars, nodeVars, askVars
<1>2. RowType'
  BY DEF TypeOK, RowType, DeleteRow
<1>3. QueueType'
  BY DEF TypeOK, QueueType, DeleteRow
<1>4. HistoryType'
  BY DEF TypeOK, HistoryType, DeleteRow, askVars
<1> QED BY <1>1, <1>2, <1>3, <1>4 DEF TypeOK

\* The cron task.
LEMMA TickType ==
  ASSUME TypeOK, Tick
  PROVE  TypeOK'
<1>1. RowType' /\ TryType' /\ ProfType' /\ NodeType' /\ AskType' /\
     HistoryType'
  BY DEF TypeOK, RowType, TryType, ProfType, NodeType, AskType, HistoryType,
         Tick, rowVars, jobVars, cronVars, nodeVars, askVars
<1>2. QueueType'
  <2>1. check' \in [Nodes -> Checks]
    <3>1. CASE ~ticked
      BY <3>1 DEF TypeOK, QueueType, Tick
    <3>2. CASE ticked
      <4> DEFINE r(m) == [pc |-> "waiting", was |-> m \in connected]
      <4>1. \A m \in Nodes : r(m) \in Checks
        BY CheckAdded
      <4>2. \A m \in Nodes : check[m] \in Checks
        BY DEF TypeOK, QueueType
      <4>3. check' = [m \in Nodes |->
               IF m \in (known \ disabled) \ connecting /\ check[m].pc = "none"
               THEN r(m) ELSE check[m]]
        BY <3>2, Zenon DEF Tick
      <4> HIDE DEF r
      <4> QED BY <4>1, <4>2, <4>3
    <3> QED BY <3>1, <3>2
  <2>2. every' \in Everys
    BY AddEveryType DEF TypeOK, QueueType, Tick
  <2> QED BY <2>1, <2>2 DEF TypeOK, QueueType, Tick
<1>3. CronType'
  BY DEF TypeOK, CronType, Tick
<1> QED BY <1>1, <1>2, <1>3 DEF TypeOK

\* A node is asked for its statistics.
LEMMA CheckStatsType ==
  ASSUME TypeOK, NEW n \in Nodes, CheckStats(n)
  PROVE  TypeOK'
<1>1. RowType' /\ TryType' /\ ProfType' /\ CronType' /\ NodeType' /\
     AskType' /\ HistoryType'
  BY DEF TypeOK, RowType, TryType, ProfType, CronType, NodeType, AskType,
         HistoryType, CheckStats, rowVars, jobVars, cronVars, nodeVars, askVars
<1>2. QueueType'
  <2>1. \A x \in {"up", "lost"} : [check[n] EXCEPT !.pc = x] \in Checks
    BY DEF TypeOK, QueueType, Checks
  <2>2. \E x \in {"up", "lost"} :
          check' = [check EXCEPT ![n] = [check[n] EXCEPT !.pc = x]]
    BY DEF CheckStats
  <2> QED BY <2>1, <2>2 DEF TypeOK, QueueType, CheckStats
<1> QED BY <1>1, <1>2 DEF TypeOK

\* The outcome of a health check is written.
LEMMA CheckUpdateType ==
  ASSUME TypeOK, NEW n \in Nodes, CheckUpdate(n)
  PROVE  TypeOK'
<1>1. ProfType' /\ CronType' /\ NodeType' /\ AskType' /\ HistoryType'
  BY DEF TypeOK, ProfType, CronType, NodeType, AskType, HistoryType,
         CheckUpdate, rowVars, jobVars, cronVars, nodeVars, askVars
<1>2. RowType'
  BY DEF TypeOK, RowType, CheckUpdate
<1>3. TryType'
  BY AddStartType DEF TypeOK, TryType, CheckUpdate
<1>4. QueueType'
  <2>1. NoCheck \in Checks
    BY DEF NoCheck, Checks
  <2> QED BY <2>1 DEF TypeOK, QueueType, CheckUpdate
<1> QED BY <1>1, <1>2, <1>3, <1>4 DEF TypeOK

\* The profiles in use are read.
LEMMA EveryReadType ==
  ASSUME TypeOK, EveryRead
  PROVE  TypeOK'
<1>1. RowType' /\ TryType' /\ ProfType' /\ CronType' /\ NodeType' /\
     AskType' /\ HistoryType'
  BY DEF TypeOK, RowType, TryType, ProfType, CronType, NodeType, AskType,
         HistoryType, EveryRead, rowVars, jobVars, cronVars, nodeVars, askVars
<1>2. QueueType'
  <2> DEFINE S == {profile[n] : n \in known \ disabled} \ {None}
  <2>1. S \in SUBSET Profiles
    BY DEF TypeOK, RowType
  <2>2. every' \in Everys
    <3> HIDE DEF S
    <3> QED BY <2>1 DEF TypeOK, QueueType, Everys, EveryRead, S
  <2> QED BY <2>2 DEF TypeOK, QueueType, EveryRead
<1> QED BY <1>1, <1>2 DEF TypeOK

\* The job of a profile is added, or there is none left.
LEMMA EveryAddType ==
  ASSUME TypeOK, EveryAdd
  PROVE  TypeOK'
<1>1. RowType' /\ TryType' /\ NodeType' /\ AskType' /\ HistoryType'
  BY DEF TypeOK, RowType, TryType, NodeType, AskType, HistoryType, EveryAdd,
         rowVars, jobVars, cronVars, nodeVars, askVars
<1>2. ProfType'
  <2>1. every.force \in BOOLEAN /\ every.todo \in SUBSET Profiles
    BY DEF TypeOK, QueueType, Everys
  <2>2. CASE every.todo = {}
    BY <2>2 DEF TypeOK, EveryAdd, ProfType
  <2>3. CASE every.todo # {}
    BY <2>1, <2>3, AddProfileType DEF TypeOK, EveryAdd, CronType
  <2> QED BY <2>2, <2>3
<1>3. CronType'
  <2>1. every.force \in BOOLEAN /\ every.todo \in SUBSET Profiles
    BY DEF TypeOK, QueueType, Everys
  <2>2. CASE every.todo = {}
    BY <2>2 DEF TypeOK, EveryAdd, CronType
  <2>3. CASE every.todo # {}
    BY <2>1, <2>3, AddProfileType DEF TypeOK, EveryAdd, CronType
  <2> QED BY <2>2, <2>3
<1>4. QueueType'
  <2>1. NoEvery \in Everys
    BY DEF NoEvery, Everys
  <2>2. /\ \A S \in SUBSET Profiles : [every EXCEPT !.todo = S] \in Everys
        /\ every.todo \in SUBSET Profiles
    BY DEF TypeOK, QueueType, Everys
  <2> QED BY <2>1, <2>2 DEF TypeOK, QueueType, EveryAdd
<1> QED BY <1>1, <1>2, <1>3, <1>4 DEF TypeOK

\* The nodes of a profile are selected.
LEMMA ProfileBeginType ==
  ASSUME TypeOK, NEW p \in Profiles, ProfileBegin(p)
  PROVE  TypeOK'
<1>1. RowType' /\ TryType' /\ CronType' /\ NodeType' /\ AskType' /\
     HistoryType'
  BY DEF TypeOK, RowType, TryType, CronType, NodeType, AskType, HistoryType,
         ProfileBegin, rowVars, jobVars, cronVars, nodeVars, askVars
<1>2. ProfType'
  <2> DEFINE S == {n \in known \ disabled : profile[n] = p}
             r == [prof[p] EXCEPT !.pc = "mark", !.nodes = S, !.todo = S,
                                  !.some = S \cap assigned, !.row = version]
  <2>1. S \in SUBSET Nodes /\ S \cap assigned \in SUBSET Nodes
    BY DEF TypeOK, RowType
  <2>2. r \in Profs
    <3>1. prof[p] \in Profs /\ version \in [Nodes -> Nat]
      BY DEF TypeOK, RowType, ProfType
    <3> HIDE DEF S
    <3> QED BY <2>1, <3>1 DEF Profs
  <2>3. prof' = [prof EXCEPT ![p] = r]
    BY DEF TypeOK, ProfType, ProfileBegin
  <2> HIDE DEF r
  <2> QED BY <2>2, <2>3 DEF TypeOK, ProfType
<1>3. QueueType'
  BY DEF TypeOK, QueueType, ProfileBegin
<1> QED BY <1>1, <1>2, <1>3 DEF TypeOK

\* The next of them is marked, or disabled.
LEMMA ProfileMarkType ==
  ASSUME TypeOK, NEW p \in Profiles, ProfileMark(p)
  PROVE  TypeOK'
<1>1. TryType' /\ CronType' /\ NodeType' /\ AskType'
  BY DEF TypeOK, TryType, CronType, NodeType, AskType, ProfileMark, rowVars,
         jobVars, cronVars, nodeVars, askVars
<1>2. RowType'
  BY DEF TypeOK, RowType, ProfileMark, Clear
<1>3. ProfType'
  <2>1. PICK n \in prof[p].todo : prof' = [prof EXCEPT ![p].todo = @ \ {n}]
    BY DEF ProfileMark
  <2>2. [prof[p] EXCEPT !.todo = @ \ {n}] \in Profs
    BY DEF TypeOK, ProfType, Profs
  <2> QED BY <2>1, <2>2 DEF TypeOK, ProfType
<1>4. QueueType'
  BY DEF TypeOK, QueueType, ProfileMark, Clear, Halters, Starters
<1>5. HistoryType'
  BY DEF TypeOK, HistoryType, ProfileMark, RowType, Clear, askVars
<1> QED BY <1>1, <1>2, <1>3, <1>4, <1>5 DEF TypeOK

\* The configuration is made, or cannot be.
LEMMA ProfileGatherType ==
  ASSUME TypeOK, NEW p \in Profiles, ProfileGather(p)
  PROVE  TypeOK'
<1>1. RowType' /\ CronType' /\ NodeType' /\ AskType'
  BY DEF TypeOK, RowType, CronType, NodeType, AskType, ProfileGather, rowVars,
         jobVars, cronVars, nodeVars, askVars
<1>2. TryType'
  <2> DEFINE r(n) == [NoTry EXCEPT !.pc = "prepare", !.force = prof[p].force,
                        !.gives = <<p, prof[p].row[n], content[p]>>]
  <2>1. \A n \in Nodes : r(n) \in Tries /\ NoTry \in Tries
    BY DEF TypeOK, RowType, ProfType, Profs, Tries, NoTry, NoConfig, Configs,
           Trying
  <2>2. CASE UNCHANGED try
    BY <2>2 DEF TypeOK, TryType
  <2>3. CASE try' = [try EXCEPT ![p] = [n \in Nodes |->
               IF n \in prof[p].nodes THEN r(n) ELSE NoTry]]
    <3> HIDE DEF r
    <3> QED BY <2>3, <2>1 DEF TypeOK, TryType, Starters
  <2> QED BY <2>2, <2>3 DEF ProfileGather
<1>3. ProfType'
  <2> DEFINE r == [prof[p] EXCEPT !.pc = "map"]
  <2>1. r \in Profs /\ NoProf \in Profs
    BY DEF TypeOK, ProfType, Profs, NoProf
  <2>2. prof' = [prof EXCEPT ![p] = NoProf] \/ prof' = [prof EXCEPT ![p] = r]
    BY DEF ProfileGather, ProfileFinally
  <2> QED BY <2>1, <2>2 DEF TypeOK, ProfType
<1>4. QueueType'
  BY FinallyType DEF TypeOK, QueueType, ProfileGather
<1>5. HistoryType'
  BY BoundsType
    DEF TypeOK, HistoryType, ProfileGather, RowType, rowVars, askVars
<1> QED BY <1>1, <1>2, <1>3, <1>4, <1>5 DEF TypeOK

\* The job of a profile ends.
LEMMA ProfileEndType ==
  ASSUME TypeOK, NEW p \in Profiles, ProfileEnd(p)
  PROVE  TypeOK'
<1>1. RowType' /\ TryType' /\ CronType' /\ NodeType' /\ AskType' /\
     HistoryType'
  BY DEF TypeOK, RowType, TryType, CronType, NodeType, AskType, HistoryType,
         ProfileEnd, rowVars, jobVars, cronVars, nodeVars, askVars
<1>2. ProfType'
  BY FinallyType DEF TypeOK, ProfType, ProfileEnd
<1>3. QueueType'
  BY FinallyType DEF TypeOK, QueueType, ProfileEnd
<1> QED BY <1>1, <1>2, <1>3 DEF TypeOK

\* The job of a profile is added late.
LEMMA RetryType ==
  ASSUME TypeOK, NEW p \in Profiles, Retry(p)
  PROVE  TypeOK'
<1>1. RowType' /\ TryType' /\ QueueType' /\ NodeType' /\ AskType' /\
     HistoryType'
  BY DEF TypeOK, RowType, TryType, QueueType, NodeType, AskType, HistoryType,
         Retry, rowVars, jobVars, cronVars, nodeVars, askVars
<1>2. ProfType'
  BY AddProfileType DEF TypeOK, ProfType, Retry, CronType
<1>3. CronType'
  BY AddProfileType DEF TypeOK, CronType, Retry
<1> QED BY <1>1, <1>2, <1>3 DEF TypeOK

\* A row is inserted.
LEMMA CreateNodeType ==
  ASSUME TypeOK, NEW n \in Nodes, CreateNode(n)
  PROVE  TypeOK'
<1>1. TryType' /\ ProfType' /\ QueueType' /\ CronType' /\ NodeType'
  BY DEF TypeOK, TryType, ProfType, QueueType, CronType, NodeType, CreateNode,
         rowVars, jobVars, cronVars, nodeVars, askVars
<1>2. RowType'
  BY DEF TypeOK, RowType, CreateNode, Ask
<1>3. AskType'
  <2>1. PICK p \in Profiles, some \in BOOLEAN :
          Edit("add", "start", {n}, p, some)
    BY DEF CreateNode
  <2> QED BY <2>1, EditType
<1>4. HistoryType'
  BY BoundsType DEF TypeOK, HistoryType, CreateNode, RowType, askVars
<1> QED BY <1>1, <1>2, <1>3, <1>4 DEF TypeOK

\* A restart is accepted.
LEMMA RestartNodeType ==
  ASSUME TypeOK, NEW n \in Nodes, RestartNode(n)
  PROVE  TypeOK'
<1>1. RowType' /\ ProfType' /\ QueueType' /\ CronType' /\ NodeType' /\ AskType'
  BY DEF TypeOK, RowType, ProfType, QueueType, CronType, NodeType, AskType,
         RestartNode, rowVars, jobVars, cronVars, nodeVars, askVars, Ask
<1>2. TryType'
  BY AddStartType DEF TypeOK, TryType, RestartNode
<1>3. HistoryType'
  BY BoundsType DEF TypeOK, HistoryType, RestartNode, RowType, rowVars, askVars
<1> QED BY <1>1, <1>2, <1>3 DEF TypeOK

\* A restart of all nodes is accepted.
LEMMA RestartAllNodesType ==
  ASSUME TypeOK, RestartAllNodes
  PROVE  TypeOK'
<1>1. RowType' /\ TryType' /\ ProfType' /\ CronType' /\ NodeType' /\ AskType'
  BY DEF TypeOK, RowType, TryType, ProfType, CronType, NodeType, AskType,
         RestartAllNodes, rowVars, jobVars, cronVars, nodeVars, askVars
<1>2. QueueType'
  BY AddEveryType DEF TypeOK, QueueType, RestartAllNodes
<1>3. HistoryType'
  BY BoundsType
    DEF TypeOK, HistoryType, RestartAllNodes, RowType, rowVars, askVars
<1> QED BY <1>1, <1>2, <1>3 DEF TypeOK

\* A deletion is accepted.
LEMMA DeleteNodeType ==
  ASSUME TypeOK, NEW n \in Nodes, DeleteNode(n)
  PROVE  TypeOK'
<1>1. RowType' /\ TryType' /\ ProfType' /\ CronType' /\ NodeType' /\ AskType'
  BY DEF TypeOK, RowType, TryType, ProfType, CronType, NodeType, AskType,
         DeleteNode, rowVars, jobVars, cronVars, nodeVars, askVars
<1>2. QueueType'
  BY DEF TypeOK, QueueType, DeleteNode
<1>3. HistoryType'
  BY BoundsType DEF TypeOK, HistoryType, DeleteNode, RowType, rowVars, askVars
<1> QED BY <1>1, <1>2, <1>3 DEF TypeOK

\* An update begins.
LEMMA UpdateNodeType ==
  ASSUME TypeOK, NEW n \in Nodes, UpdateNode(n)
  PROVE  TypeOK'
<1>1. TryType' /\ ProfType' /\ QueueType' /\ CronType' /\ NodeType'
  BY DEF TypeOK, TryType, ProfType, QueueType, CronType, NodeType, UpdateNode,
         rowVars, jobVars, cronVars, nodeVars, askVars
<1>2. RowType'
  BY DEF TypeOK, RowType, UpdateNode
<1>3. AskType'
  <2> QED BY EditType DEF UpdateNode
<1>4. HistoryType'
  BY BoundsType DEF TypeOK, HistoryType, UpdateNode, RowType, askVars
<1> QED BY <1>1, <1>2, <1>3, <1>4 DEF TypeOK

\* A node is enabled, if it can be.
LEMMA EnableNodeType ==
  ASSUME TypeOK, NEW n \in Nodes, EnableNode(n)
  PROVE  TypeOK'
<1>1. ProfType' /\ QueueType' /\ CronType' /\ NodeType' /\ AskType'
  BY DEF TypeOK, ProfType, QueueType, CronType, NodeType, AskType, EnableNode,
         rowVars, jobVars, cronVars, nodeVars, askVars
<1>2. RowType'
  BY DEF TypeOK, RowType, EnableNode, Configured
<1>3. TryType'
  BY AddStartType DEF TypeOK, TryType, EnableNode
<1>4. HistoryType'
  BY BoundsType DEF TypeOK, HistoryType, EnableNode, RowType, askVars
<1> QED BY <1>1, <1>2, <1>3, <1>4 DEF TypeOK

\* A node is disabled.
LEMMA DisableNodeType ==
  ASSUME TypeOK, NEW n \in Nodes, DisableNode(n)
  PROVE  TypeOK'
<1>1. TryType' /\ ProfType' /\ CronType' /\ NodeType' /\ AskType'
  BY DEF TypeOK, TryType, ProfType, CronType, NodeType, AskType, DisableNode,
         rowVars, jobVars, cronVars, nodeVars, askVars
<1>2. RowType'
  BY DEF TypeOK, RowType, DisableNode
<1>3. QueueType'
  BY DEF TypeOK, QueueType, DisableNode, Halters
<1>4. HistoryType'
  BY BoundsType DEF TypeOK, HistoryType, DisableNode, RowType, askVars
<1> QED BY <1>1, <1>2, <1>3, <1>4 DEF TypeOK

\* A modification of many nodes begins.
LEMMA ModifyProfileType ==
  ASSUME TypeOK, NEW p \in Profiles, ModifyProfile(p)
  PROVE  TypeOK'
<1>1. TryType' /\ ProfType' /\ QueueType' /\ CronType' /\ NodeType'
  BY DEF TypeOK, TryType, ProfType, QueueType, CronType, NodeType,
         ModifyProfile, rowVars, jobVars, cronVars, nodeVars, askVars
<1>2. RowType'
  BY NewerType DEF TypeOK, RowType, ModifyProfile
<1>3. AskType'
  BY EditType DEF TypeOK, AskType, ModifyProfile, RowType
<1>4. HistoryType'
  BY BoundsType DEF TypeOK, HistoryType, ModifyProfile, RowType, askVars
<1> QED BY <1>1, <1>2, <1>3, <1>4 DEF TypeOK

\* A configuration is changed.
LEMMA UpdateConfigProfileType ==
  ASSUME TypeOK, NEW p \in Profiles, UpdateConfigProfile(p)
  PROVE  TypeOK'
<1>1. TryType' /\ QueueType' /\ NodeType' /\ AskType'
  BY DEF TypeOK, TryType, QueueType, NodeType, AskType, UpdateConfigProfile,
         rowVars, jobVars, cronVars, nodeVars, askVars
<1>2. RowType'
  BY DEF TypeOK, RowType, UpdateConfigProfile
<1>3. ProfType'
  BY AddProfileType DEF TypeOK, ProfType, UpdateConfigProfile, CronType
<1>4. CronType'
  BY AddProfileType DEF TypeOK, CronType, UpdateConfigProfile
<1>5. HistoryType'
  BY BoundsType DEF TypeOK, HistoryType, UpdateConfigProfile, RowType, askVars
<1> QED BY <1>1, <1>2, <1>3, <1>4, <1>5 DEF TypeOK

\* Inbounds are removed.
LEMMA EditRemoveType ==
  ASSUME TypeOK, EditRemove
  PROVE  TypeOK'
<1>1. TryType' /\ ProfType' /\ QueueType' /\ CronType' /\ NodeType'
  BY DEF TypeOK, TryType, ProfType, QueueType, CronType, NodeType, EditRemove,
         rowVars, jobVars, cronVars, nodeVars, askVars
<1>2. RowType'
  BY DEF TypeOK, RowType, EditRemove, AskType
<1>3. AskType'
  BY EditsType DEF TypeOK, AskType, EditRemove
<1>4. HistoryType'
  BY DEF TypeOK, HistoryType, EditRemove, RowType, askVars
<1> QED BY <1>1, <1>2, <1>3, <1>4 DEF TypeOK

\* Inbounds are added, and a job perhaps.
LEMMA EditAddType ==
  ASSUME TypeOK, EditAdd
  PROVE  TypeOK'
<1>1. QueueType' /\ NodeType'
  BY DEF TypeOK, QueueType, NodeType, EditAdd, rowVars, jobVars, cronVars,
         nodeVars, askVars
<1>2. RowType'
  BY NewerType DEF TypeOK, RowType, EditAdd, AskType
<1>3. TryType'
  <2>1. CASE UNCHANGED try
    BY <2>1 DEF TypeOK, TryType
  <2>2. CASE \E n \in edit.nodes : AddStart(n, FALSE)
    BY <2>2, AddStartType, EditsType DEF TypeOK
  <2> QED BY <2>1, <2>2 DEF EditAdd
<1>4. ProfType'
  BY AddProfileType, EditsType DEF TypeOK, ProfType, EditAdd, CronType
<1>5. CronType'
  BY AddProfileType, EditsType DEF TypeOK, CronType, EditAdd
<1>6. AskType'
  BY EditsType DEF TypeOK, AskType, EditAdd
<1>7. HistoryType'
  BY DEF TypeOK, HistoryType, EditAdd, RowType, askVars
<1> QED BY <1>1, <1>2, <1>3, <1>4, <1>5, <1>6, <1>7 DEF TypeOK

\* The row of an updated node is written.
LEMMA EditRowType ==
  ASSUME TypeOK, EditRow
  PROVE  TypeOK'
<1>1. ProfType' /\ QueueType' /\ CronType' /\ NodeType'
  BY DEF TypeOK, ProfType, QueueType, CronType, NodeType, EditRow, rowVars,
         jobVars, cronVars, nodeVars, askVars
<1>2. RowType'
  BY NewerType DEF TypeOK, RowType, EditRow, AskType
<1>3. TryType'
  <2>1. CASE UNCHANGED try
    BY <2>1 DEF TypeOK, TryType
  <2>2. CASE \E n \in edit.nodes : AddStart(n, FALSE)
    BY <2>2, AddStartType, EditsType DEF TypeOK
  <2> QED BY <2>1, <2>2 DEF EditRow
<1>4. AskType'
  BY EditsType DEF TypeOK, AskType, EditRow
<1>5. HistoryType'
  BY DEF TypeOK, HistoryType, EditRow, RowType, askVars
<1> QED BY <1>1, <1>2, <1>3, <1>4, <1>5 DEF TypeOK

\* A node answers.
LEMMA NodeAnswerType ==
  ASSUME TypeOK, NEW n \in Nodes, NodeAnswer(n)
  PROVE  TypeOK'
<1>1. RowType' /\ ProfType' /\ QueueType' /\ CronType' /\ AskType'
  BY DEF TypeOK, RowType, ProfType, QueueType, CronType, AskType, NodeAnswer,
         rowVars, jobVars, cronVars, nodeVars, askVars
<1>2. TryType'
  <2>1. PICK isStarted \in BOOLEAN :
          try' = [w \in Starters |-> [try[w] EXCEPT ![n] =
             IF @.pc = "wait" /\ n \in reach
             THEN [@ EXCEPT !.pc = "answered", !.started = isStarted] ELSE @]]
    BY DEF NodeAnswer
  <2>2. \A w \in Starters :
          [try[w][n] EXCEPT !.pc = "answered", !.started = isStarted] \in Tries
    BY TryAnswered DEF TypeOK, TryType, Pcs, Trying
  <2> QED BY <2>1, <2>2 DEF TypeOK, TryType
<1>3. NodeType'
  BY DEF TypeOK, NodeType, NodeAnswer
<1>4. HistoryType'
  BY BoundsType DEF TypeOK, HistoryType, NodeAnswer, RowType, rowVars, askVars
<1> QED BY <1>1, <1>2, <1>3, <1>4 DEF TypeOK

\* A core dies.
LEMMA CoreDiesType ==
  ASSUME TypeOK, NEW n \in Nodes, CoreDies(n)
  PROVE  TypeOK'
<1>1. RowType' /\ TryType' /\ ProfType' /\ QueueType' /\ CronType' /\ AskType'
  BY DEF TypeOK, RowType, TryType, ProfType, QueueType, CronType, AskType,
         CoreDies, rowVars, jobVars, cronVars, nodeVars, askVars
<1>2. NodeType'
  BY DEF TypeOK, NodeType, CoreDies
<1>3. HistoryType'
  BY BoundsType DEF TypeOK, HistoryType, CoreDies, RowType, rowVars, askVars
<1> QED BY <1>1, <1>2, <1>3 DEF TypeOK

\* A node becomes unreachable.
LEMMA UnreachableType ==
  ASSUME TypeOK, NEW n \in Nodes, Unreachable(n)
  PROVE  TypeOK'
<1>1. RowType' /\ TryType' /\ ProfType' /\ QueueType' /\ CronType' /\ AskType'
  BY DEF TypeOK, RowType, TryType, ProfType, QueueType, CronType, AskType,
         Unreachable, rowVars, jobVars, cronVars, nodeVars, askVars
<1>2. NodeType'
  BY DEF TypeOK, NodeType, Unreachable
<1>3. HistoryType'
  BY BoundsType DEF TypeOK, HistoryType, Unreachable, RowType, rowVars, askVars
<1> QED BY <1>1, <1>2, <1>3 DEF TypeOK

\* A node becomes reachable.
LEMMA ReachableType ==
  ASSUME TypeOK, NEW n \in Nodes, Reachable(n)
  PROVE  TypeOK'
<1>1. RowType' /\ TryType' /\ ProfType' /\ QueueType' /\ CronType' /\
     AskType' /\ HistoryType'
  BY DEF TypeOK, RowType, TryType, ProfType, QueueType, CronType, AskType,
         HistoryType, Reachable, rowVars, jobVars, cronVars, nodeVars, askVars
<1>2. NodeType'
  BY DEF TypeOK, NodeType, Reachable
<1> QED BY <1>1, <1>2 DEF TypeOK

\* The workers die, or the whole panel.
LEMMA PanelDiesType ==
  ASSUME TypeOK, PanelDies
  PROVE  TypeOK'
<1>1. RowType' /\ NodeType'
  BY DEF TypeOK, RowType, NodeType, PanelDies, rowVars, jobVars, cronVars,
         nodeVars, askVars, WorkerDies
<1>2. TryType'
  <2>1. WorkerDies
    BY DEF PanelDies
  <2>2. \A w \in Starters, n \in Nodes :
          [try[w][n] EXCEPT !.pc = "waiting", !.started = FALSE] \in Tries
    BY TryAnswered DEF TypeOK, TryType, Pcs
  <2> QED BY <2>1, <2>2, NoTryType DEF WorkerDies, TryType
<1>3. ProfType'
  <2>1. WorkerDies
    BY DEF PanelDies
  <2>2. \A p \in Profiles : [NoProf EXCEPT !.pc = Again(prof[p].pc),
                                          !.force = prof[p].force] \in Profs
    BY DEF TypeOK, ProfType, Profs, NoProf, Again
  <2> QED BY <2>1, <2>2 DEF WorkerDies, ProfType
<1>4. QueueType'
  <2>1. WorkerDies
    BY DEF PanelDies
  <2>2. \A n \in Nodes : [check[n] EXCEPT !.pc = Again(@)] \in Checks
    BY DEF TypeOK, QueueType, Checks, Again
  <2>3. [NoEvery EXCEPT !.pc = Again(every.pc), !.force = every.force]
          \in Everys
    BY DEF TypeOK, QueueType, Everys, Again, NoEvery
  <2>4. \A n \in Nodes : Again(stop[n]) \in {"none", "waiting", "update"}
    BY DEF Again
  <2>5. halting' \in [Nodes -> SUBSET Halters]
    BY DEF TypeOK, QueueType, PanelDies
  <2> QED BY <2>1, <2>2, <2>3, <2>4, <2>5 DEF TypeOK, WorkerDies, QueueType
<1>5. CronType'
  BY DEF TypeOK, CronType, PanelDies, cronVars
<1>6. AskType'
  BY EditsType DEF TypeOK, AskType, PanelDies
<1>7. HistoryType'
  BY BoundsType
    DEF TypeOK, HistoryType, PanelDies, WorkerDies, RowType, rowVars, askVars
<1> QED BY <1>1, <1>2, <1>3, <1>4, <1>5, <1>6, <1>7 DEF TypeOK

-----------------------------------------------------------------------------
(* Type correctness: every step, and every behaviour.                      *)

\* The attempts of a node's own job.
LEMMA JobType ==
  ASSUME TypeOK, NEW n \in Nodes, Job(n)
  PROVE  TypeOK'
<1>1. CASE StartRead(n) \/ StartClear(n) \/ StartStop(n) \/ StartMark(n)
  BY <1>1, StartReadType, StartClearType, StartStopType, StartMarkType
<1>2. CASE \E w \in Starters : Try(w, n)
  BY <1>2, StartPrepareType, StartRequestType, StartTimeoutType, StartDoneType
     DEF Try
<1> QED BY <1>1, <1>2 DEF Job

\* What the administrator asks for.
LEMMA AdministratorType ==
  ASSUME TypeOK, Administrator
  PROVE  TypeOK'
<1>1. ASSUME NEW n \in Nodes,
             \/ CreateNode(n) \/ RestartNode(n) \/ DeleteNode(n)
             \/ UpdateNode(n) \/ EnableNode(n) \/ DisableNode(n)
             \/ DisableStop(n)
      PROVE  TypeOK'
  BY <1>1, CreateNodeType, RestartNodeType, DeleteNodeType, UpdateNodeType,
     EnableNodeType, DisableNodeType, DisableStopType
<1>2. ASSUME NEW p \in Profiles, ModifyProfile(p) \/ UpdateConfigProfile(p)
      PROVE  TypeOK'
  BY <1>2, ModifyProfileType, UpdateConfigProfileType
<1>3. CASE RestartAllNodes \/ EditRemove \/ EditAdd \/ EditRow
  BY <1>3, RestartAllNodesType, EditRemoveType, EditAddType, EditRowType
<1> QED BY <1>1, <1>2, <1>3 DEF Administrator

\* Every step keeps the types.
LEMMA NextType ==
  ASSUME TypeOK, [Next]_vars
  PROVE  TypeOK'
<1>1. ASSUME NEW n \in Nodes,
             \/ Job(n) \/ StopRequest(n) \/ StopUpdate(n) \/ DeleteRow(n)
             \/ CheckStats(n) \/ CheckUpdate(n) \/ NodeAnswer(n)
      PROVE  TypeOK'
  BY <1>1, JobType, StopRequestType, StopUpdateType, DeleteRowType,
     CheckStatsType, CheckUpdateType, NodeAnswerType
<1>2. ASSUME NEW p \in Profiles, Profile(p) \/ Retry(p)
      PROVE  TypeOK'
  BY <1>2, ProfileBeginType, ProfileMarkType, ProfileStopType,
     ProfileGatherType, ProfileEndType, RetryType DEF Profile
<1>3. CASE Tick \/ EveryRead \/ EveryAdd \/ Administrator
  BY <1>3, TickType, EveryReadType, EveryAddType, AdministratorType
<1>4. CASE Environment
  BY <1>4, CoreDiesType, UnreachableType, ReachableType, PanelDiesType
     DEF Environment
<1>5. CASE UNCHANGED vars
  BY <1>5 DEF TypeOK, RowType, TryType, ProfType, QueueType, CronType, NodeType,
     AskType, HistoryType, vars, rowVars, jobVars, cronVars, nodeVars, askVars
<1> QED BY <1>1, <1>2, <1>3, <1>4, <1>5 DEF Next

\* The first state has the types.
LEMMA InitType ==
  ASSUME Init
  PROVE  TypeOK
<1>1. RowType /\ CronType /\ NodeType
  BY DEF Init, RowType, CronType, NodeType, NoConfig, Configs
<1>2. TryType
  BY NoTryType DEF Init, TryType
<1>3. ProfType
  BY DEF Init, ProfType, NoProf, Profs
<1>4. QueueType
  <2>1. NoCheck \in Checks /\ NoEvery \in Everys
    BY DEF NoCheck, Checks, NoEvery, Everys
  <2> QED BY <2>1 DEF Init, QueueType
<1>5. AskType /\ HistoryType
  BY BoundAssumption DEF Init, AskType, Edits, NoEdit, HistoryType
<1> QED BY <1>1, <1>2, <1>3, <1>4, <1>5 DEF TypeOK

\* Every column, job and flag always holds a value of its kind, and only nodes
\* that have a row are disabled, connecting, connected or wanted.
THEOREM LifecycleTypeCorrect == Spec => []TypeOK
<1>1. Init => TypeOK
  BY InitType
<1>2. TypeOK /\ [Next]_vars => TypeOK'
  BY NextType
<1> QED BY <1>1, <1>2, PTL DEF Spec

-----------------------------------------------------------------------------
(* Who resumes the queues.                                                 *)

\* A job that is in its queue is still there after another one was added.
LEMMA AddProfileKeeps ==
  ASSUME ProfType, NEW p \in Profiles, NEW force \in BOOLEAN, NEW S,
         AddProfile(p, force, S), NEW q \in Profiles
  PROVE  prof[q].pc # "none" => prof'[q].pc # "none"
  BY DEF AddProfile, ProfType

\* The job of a profile selects its nodes, and leaves other jobs alone.
LEMMA ProfileBeginMarks ==
  ASSUME ProfType, NEW p \in Profiles, ProfileBegin(p)
  PROVE  /\ prof[p].pc = "waiting" /\ prof'[p].pc = "mark"
         /\ prof'[p].todo = prof'[p].nodes
         /\ prof'[p].some \subseteq prof'[p].nodes
         /\ \A q \in Profiles \ {p} : prof'[q] = prof[q]
<1> DEFINE S == {n \in known \ disabled : profile[n] = p}
           r == [prof[p] EXCEPT !.pc = "mark", !.nodes = S, !.todo = S,
                                !.some = S \cap assigned, !.row = version]
<1>1. prof' = [prof EXCEPT ![p] = r]
  BY DEF ProfType, ProfileBegin
<1>2. prof[p] \in Profs
  BY DEF ProfType
<1>3. /\ r.pc = "mark" /\ r.todo = r.nodes /\ r.some \subseteq r.nodes
  <2> HIDE DEF S
  <2> QED BY <1>2 DEF Profs
<1> HIDE DEF r
<1> QED BY <1>1, <1>3 DEF ProfType, ProfileBegin

\* An action that neither pauses the queues nor ends a job of a profile.
LEMMA PauseKept ==
  ASSUME PauseIsOwned, paused' = paused,
         \A p \in Profiles : prof[p].pc # "none" => prof'[p].pc # "none"
  PROVE  PauseIsOwned'
  BY DEF PauseIsOwned

\* Every step keeps a job that resumes the queues.  Only ProfileBegin pauses
\* them; only ProfileFinally ends a job of a profile, and it resumes them, no
\* matter who else has paused them; a worker that dies leaves its job behind.
LEMMA NextPause ==
  ASSUME TypeOK, PauseIsOwned, [Next]_vars
  PROVE  PauseIsOwned'
<1> USE DEF TypeOK
<1>1. CASE UNCHANGED <<paused, prof>>
  BY <1>1, PauseKept
<1>2. ASSUME NEW p \in Profiles, NEW force \in BOOLEAN, NEW S,
             AddProfile(p, force, S), UNCHANGED paused
      PROVE  PauseIsOwned'
  BY <1>2, PauseKept, AddProfileKeeps
<1>3. ASSUME NEW p \in Profiles, Profile(p)
      PROVE  PauseIsOwned'
  <2>1. CASE ProfileBegin(p)
    BY <2>1, ProfileBeginMarks DEF PauseIsOwned
  <2>2. CASE ProfileMark(p)
    <3>1. \A q \in Profiles : prof'[q].pc = prof[q].pc
      BY <2>2 DEF ProfileMark, ProfType, Profs
    <3> QED BY <2>2, <3>1, PauseKept DEF ProfileMark
  <2>3. CASE ProfileGather(p)
    <3>1. CASE ProfileFinally(p)
      BY <3>1 DEF ProfileFinally, PauseIsOwned
    <3>2. CASE prof' = [prof EXCEPT ![p].pc = "map"] /\ UNCHANGED paused
      <4>1. \A q \in Profiles : prof[q].pc # "none" => prof'[q].pc # "none"
        BY <3>2 DEF ProfType, Profs
      <4> QED BY <3>2, <4>1, PauseKept
    <3> QED BY <2>3, <3>1, <3>2 DEF ProfileGather
  <2>4. CASE ProfileEnd(p)
    BY <2>4 DEF ProfileEnd, ProfileFinally, PauseIsOwned
  <2>5. CASE ProfileStop(p)
    BY <1>1, <2>5 DEF ProfileStop
  <2> QED BY <1>3, <2>1, <2>2, <2>3, <2>4, <2>5 DEF Profile
<1>4. CASE PanelDies
  <2>1. WorkerDies
    BY <1>4 DEF PanelDies
  <2>2. \A q \in Profiles : prof[q].pc # "none" => prof'[q].pc # "none"
    BY <2>1 DEF WorkerDies, NoProf, Again
  <2> QED BY <2>1, <2>2, PauseKept DEF WorkerDies, jobVars
<1>5. ASSUME NEW n \in Nodes,
             \/ Job(n) \/ StopRequest(n) \/ StopUpdate(n) \/ DeleteRow(n)
             \/ CheckStats(n) \/ CheckUpdate(n) \/ NodeAnswer(n)
      PROVE  UNCHANGED <<paused, prof>>
  <2>1. CASE Job(n)
    BY <2>1 DEF Job, Try, StartRead, StartClear, StartStop, StartMark,
       StartPrepare, StartRequest, StartTimeout, StartDone
  <2>2. CASE ~Job(n)
    BY <1>5, <2>2 DEF StopRequest, StopUpdate, DeleteRow, CheckStats,
       CheckUpdate, NodeAnswer
  <2> QED BY <2>1, <2>2
<1>6. CASE \E p \in Profiles : Retry(p)
  BY <1>2, <1>6 DEF Retry
<1>7. CASE Tick \/ EveryRead
  BY <1>1, <1>7 DEF Tick, EveryRead
<1>8. CASE EveryAdd
  <2>1. every.force \in BOOLEAN /\ every.todo \in SUBSET Profiles
    BY DEF QueueType, Everys
  <2> QED BY <1>1, <1>2, <1>8, <2>1 DEF EveryAdd
<1>9. CASE Administrator
  <2>1. CASE RestartAllNodes
    BY <1>1, <2>1 DEF RestartAllNodes
  <2>2. ASSUME NEW n \in Nodes,
               \/ CreateNode(n) \/ RestartNode(n) \/ DeleteNode(n)
               \/ UpdateNode(n) \/ EnableNode(n) \/ DisableNode(n)
               \/ DisableStop(n)
        PROVE  UNCHANGED <<paused, prof>>
    BY <2>2 DEF CreateNode, RestartNode, DeleteNode, UpdateNode, EnableNode,
       DisableNode, DisableStop, jobVars
  <2>3. CASE \E p \in Profiles : ModifyProfile(p)
    BY <1>1, <2>3 DEF ModifyProfile, jobVars
  <2>4. CASE \E p \in Profiles : UpdateConfigProfile(p)
    BY <1>2, <2>4 DEF UpdateConfigProfile
  <2>5. CASE EditRemove \/ EditRow
    BY <1>1, <2>5 DEF EditRemove, EditRow, jobVars
  <2>6. CASE EditAdd
    BY <1>1, <1>2, <2>6, EditsType DEF EditAdd
  <2> QED BY <1>1, <1>9, <2>1, <2>2, <2>3, <2>4, <2>5, <2>6 DEF Administrator
<1>10. CASE Environment
  <2>1. ASSUME NEW n \in Nodes, CoreDies(n) \/ Unreachable(n) \/ Reachable(n)
        PROVE  UNCHANGED <<paused, prof>>
    BY <2>1 DEF CoreDies, Unreachable, Reachable, jobVars
  <2> QED BY <1>1, <1>4, <1>10, <2>1 DEF Environment
<1>11. CASE UNCHANGED vars
  BY <1>1, <1>11 DEF vars, jobVars
<1> QED BY <1>1, <1>3, <1>5, <1>6, <1>7, <1>8, <1>9, <1>10, <1>11 DEF Next

\* The queues are paused only while a job that resumes them is in its queue:
\* with any number of profiles whose jobs overlap, and through every fault.
THEOREM PauseOwned == Spec => []PauseIsOwned
<1>1. Init => TypeOK /\ PauseIsOwned
  BY InitType DEF Init, PauseIsOwned
<1>2. TypeOK /\ PauseIsOwned /\ [Next]_vars => TypeOK' /\ PauseIsOwned'
  BY NextType, NextPause
<1> QED BY <1>1, <1>2, PTL DEF Spec

-----------------------------------------------------------------------------
(* Who resets isConnecting, as long as no query fails and no worker dies.  *)

\* The job of a profile has inbounds for some of the nodes it has selected.
SomeSelected == \A p \in Profiles : prof[p].some \subseteq prof[p].nodes

\* It makes attempts only in the mapper.
MapperTries ==
  \A p \in Profiles : prof[p].pc # "map" =>
    \A n \in Nodes : try[p][n].pc = "none"

Owned == ConnectingIsOwned /\ SomeSelected /\ MapperTries

\* A profile is not the job of a node.
LEMMA ProfileStarts == \A p \in Profiles : p \in Starters /\ p # Single
  BY SingleAssumption DEF Starters

\* An action that marks no node, and touches no attempt or job of a profile.
LEMMA OwnedKept ==
  ASSUME Owned, connecting' \subseteq connecting, UNCHANGED <<try, prof>>
  PROVE  Owned'
  BY DEF Owned, ConnectingIsOwned, SomeSelected, MapperTries, Owns

\* An action that moves one attempt: of the job of a node, or one under way.
LEMMA OwnedTry ==
  ASSUME TryType, Owned, NEW w \in Starters, NEW n \in Nodes, UNCHANGED prof,
         connecting' \subseteq connecting \cup {n},
         w = Single \/ try[w][n].pc # "none",
         NEW r, try' = [try EXCEPT ![w][n] = r],
         \/ n \notin connecting'
         \/ r.pc \in Trying
         \/ n \in connecting /\ try[w][n].pc \notin Trying
  PROVE  Owned'
<1>1. \A v \in Starters, m \in Nodes :
        v # w \/ m # n => try'[v][m] = try[v][m]
  BY DEF TryType
<1>2. try'[w][n] = r
  BY DEF TryType
<1>3. ConnectingIsOwned'
  <2> SUFFICES ASSUME NEW m \in connecting'
               PROVE  \E v \in Starters : Owns(v, m)'
    BY DEF ConnectingIsOwned
  <2>1. CASE m = n /\ r.pc \in Trying
    BY <1>2, <2>1 DEF Owns
  <2>2. CASE m = n /\ r.pc \notin Trying
    <3>1. PICK v \in Starters : Owns(v, n)
      BY <2>2 DEF Owned, ConnectingIsOwned
    <3>2. CASE try[v][n].pc \in Trying
      BY <1>1, <2>2, <3>2 DEF Owns
    <3> QED BY <2>2, <3>1, <3>2 DEF Owns
  <2>3. CASE m # n
    <3>1. m \in connecting
      BY <2>3
    <3>2. PICK v \in Starters : Owns(v, m)
      BY <3>1 DEF Owned, ConnectingIsOwned
    <3>3. CASE try[v][m].pc \in Trying
      <4>1. try'[v] = IF v = w THEN [try[w] EXCEPT ![n] = r] ELSE try[v]
        BY DEF TryType
      <4>2. try'[v][m] = try[v][m]
        BY <2>3, <4>1
      <4> QED BY <3>3, <4>2 DEF Owns
    <3> QED BY <3>2, <3>3 DEF Owns
  <2> QED BY <2>1, <2>2, <2>3
<1>4. MapperTries'
  <2> SUFFICES ASSUME NEW p \in Profiles, prof[p].pc # "map", NEW m \in Nodes
               PROVE  try'[p][m].pc = "none"
    BY DEF MapperTries
  <2>1. try[p][m].pc = "none"
    BY DEF Owned, MapperTries
  <2> QED BY <1>1, <2>1, ProfileStarts
<1>5. SomeSelected'
  BY DEF Owned, SomeSelected
<1> QED BY <1>3, <1>4, <1>5 DEF Owned

\* The START_NODE job of a node is added.
LEMMA OwnedAddStart ==
  ASSUME TryType, Owned, NEW n \in Nodes, NEW force, UNCHANGED prof,
         connecting' \subseteq connecting, AddStart(n, force)
  PROVE  Owned'
<1> DEFINE r == [NoTry EXCEPT !.pc = "waiting", !.force = force]
<1>1. CASE try[Single][n].pc = "none"
  <2>1. try' = [try EXCEPT ![Single][n] = r]
    BY <1>1 DEF AddStart
  <2>2. try[Single][n].pc \notin Trying
    BY <1>1 DEF Trying
  <2>3. n \notin connecting' \/ n \in connecting
    OBVIOUS
  <2> HIDE DEF r
  <2> QED BY <2>1, <2>2, <2>3, OwnedTry, NoTryType
<1>2. CASE try[Single][n].pc # "none"
  BY <1>2, OwnedKept DEF AddStart
<1> QED BY <1>1, <1>2

\* The START_ALL_BY_PROFILE job of a profile is added.
LEMMA OwnedAddProfile ==
  ASSUME ProfType, Owned, NEW p \in Profiles, NEW force, NEW S, UNCHANGED try,
         connecting' \subseteq connecting, AddProfile(p, force, S)
  PROVE  Owned'
<1> DEFINE r == [NoProf EXCEPT !.pc = "waiting", !.force = force]
<1>1. CASE prof[p].pc = "none"
  <2>1. r.pc = "waiting" /\ r.some = {} /\ r.nodes = {}
    BY DEF NoProf
  <2>2. prof' = [prof EXCEPT ![p] = r]
    BY <1>1 DEF AddProfile
  <2> HIDE DEF r
  <2>3. /\ prof'[p] = r
        /\ \A q \in Profiles \ {p} : prof'[q] = prof[q]
    BY <2>2 DEF ProfType
  <2>4. ConnectingIsOwned'
    <3> SUFFICES ASSUME NEW m \in connecting'
                 PROVE  \E v \in Starters : Owns(v, m)'
      BY DEF ConnectingIsOwned
    <3>1. PICK v \in Starters : Owns(v, m)
      BY DEF Owned, ConnectingIsOwned
    <3>2. v = p => try[v][m].pc \in Trying
      BY <1>1, <3>1 DEF Owns
    <3> QED BY <2>3, <3>1, <3>2 DEF Owns, Starters
  <2>5. SomeSelected' /\ MapperTries'
    BY <1>1, <2>1, <2>3 DEF Owned, SomeSelected, MapperTries
  <2> QED BY <2>4, <2>5 DEF Owned
<1>2. CASE prof[p].pc # "none"
  BY <1>2, OwnedKept DEF AddProfile
<1> QED BY <1>1, <1>2

\* The job of a profile begins, having marked no node yet.
LEMMA ProfileBeginOwned ==
  ASSUME ProfType, Owned, NEW p \in Profiles, ProfileBegin(p)
  PROVE  Owned'
<1>1. UNCHANGED <<try, connecting>>
  BY DEF ProfileBegin, rowVars
<1>2. ConnectingIsOwned'
  <2> SUFFICES ASSUME NEW m \in connecting
               PROVE  \E v \in Starters : Owns(v, m)'
    BY <1>1 DEF ConnectingIsOwned
  <2>1. PICK v \in Starters : Owns(v, m)
    BY DEF Owned, ConnectingIsOwned
  <2>2. v = p => try[v][m].pc \in Trying
    BY <2>1, ProfileBeginMarks DEF Owns
  <2> QED BY <1>1, <2>1, <2>2, ProfileBeginMarks DEF Owns, Starters
<1>3. SomeSelected' /\ MapperTries'
  BY <1>1, ProfileBeginMarks DEF Owned, SomeSelected, MapperTries
<1> QED BY <1>2, <1>3 DEF Owned

\* It marks a node, and with that owns it, or clears its mark.
LEMMA ProfileMarkOwned ==
  ASSUME ProfType, Owned, NEW p \in Profiles, ProfileMark(p)
  PROVE  Owned'
<1>1. PICK n \in prof[p].todo :
        /\ prof[p].pc = "mark"
        /\ IF n \notin prof[p].some THEN Clear(p, n)
           ELSE connecting' = connecting \cup ({n} \cap known)
        /\ prof' = [prof EXCEPT ![p].todo = @ \ {n}]
        /\ UNCHANGED try
  BY DEF ProfileMark
<1> DEFINE r == [prof[p] EXCEPT !.todo = @ \ {n}]
<1>2. /\ r.pc = prof[p].pc /\ r.some = prof[p].some /\ r.nodes = prof[p].nodes
      /\ r.todo = prof[p].todo \ {n}
  BY DEF ProfType, Profs
<1>3. prof' = [prof EXCEPT ![p] = r]
  BY <1>1
<1> HIDE DEF r
<1>4. prof'[p] = r /\ \A q \in Profiles \ {p} : prof'[q] = prof[q]
  BY <1>3 DEF ProfType
<1>5. ConnectingIsOwned'
  <2> SUFFICES ASSUME NEW m \in connecting'
               PROVE  \E v \in Starters : Owns(v, m)'
    BY DEF ConnectingIsOwned
  <2>1. CASE m \in connecting
    <3>1. PICK v \in Starters : Owns(v, m)
      BY <2>1 DEF Owned, ConnectingIsOwned
    <3> QED BY <1>1, <1>2, <1>4, <3>1 DEF Owns, Starters
  <2>2. CASE m \notin connecting
    <3>1. m = n /\ n \in prof[p].some
      BY <1>1, <2>2 DEF Clear
    <3> QED BY <1>1, <1>2, <1>4, <3>1, ProfileStarts DEF Owns
  <2> QED BY <2>1, <2>2
<1>6. SomeSelected' /\ MapperTries'
  BY <1>1, <1>2, <1>4 DEF Owned, SomeSelected, MapperTries
<1> QED BY <1>5, <1>6 DEF Owned

\* The job of a profile ends when it owns no node.
LEMMA OwnedFinally ==
  ASSUME ProfType, Owned, NEW p \in Profiles, ProfileFinally(p),
         UNCHANGED <<try, connecting>>,
         \A n \in Nodes : try[p][n].pc = "none",
         prof[p].pc = "map" \/ prof[p].some = {}
  PROVE  Owned'
<1>1. NoProf.some = {} /\ NoProf.nodes = {} /\ NoProf.pc = "none"
  BY DEF NoProf
<1>2. prof'[p] = NoProf /\ \A q \in Profiles \ {p} : prof'[q] = prof[q]
  BY DEF ProfileFinally, ProfType
<1>3. ConnectingIsOwned'
  <2> SUFFICES ASSUME NEW m \in connecting
               PROVE  \E v \in Starters : Owns(v, m)'
    BY DEF ConnectingIsOwned
  <2>1. PICK v \in Starters : Owns(v, m)
    BY DEF Owned, ConnectingIsOwned
  <2>2. v = p => try[v][m].pc \in Trying
    BY <2>1 DEF Owns
  <2> QED BY <1>2, <2>1, <2>2 DEF Owns, Starters
<1>4. SomeSelected' /\ MapperTries'
  BY <1>1, <1>2 DEF Owned, SomeSelected, MapperTries
<1> QED BY <1>3, <1>4 DEF Owned

\* It hands the nodes it has marked to the attempts of its mapper.
LEMMA ProfileGatherOwned ==
  ASSUME TypeOK, Owned, NEW p \in Profiles, ProfileGather(p),
         "query" \notin Faults
  PROVE  Owned'
<1> USE DEF TypeOK
<1>1. /\ UNCHANGED connecting
      /\ prof[p].pc = "mark" /\ prof[p].todo = {}
      /\ \A n \in Nodes : try[p][n].pc = "none"
  BY DEF ProfileGather, rowVars, Owned, MapperTries
<1>2. CASE prof[p].some = {} /\ ProfileFinally(p) /\ UNCHANGED try
  BY <1>1, <1>2, OwnedFinally
<1>3. CASE prof[p].some # {} /\ prof' = [prof EXCEPT ![p].pc = "map"]
  <2> DEFINE t(n) == [NoTry EXCEPT !.pc = "prepare", !.force = prof[p].force,
                        !.gives = <<p, prof[p].row[n], content[p]>>]
  <2>1. \A n : t(n).pc = "prepare"
    BY DEF NoTry
  <2>2. try' = [try EXCEPT ![p] =
                  [n \in Nodes |-> IF n \in prof[p].nodes THEN t(n) ELSE NoTry]]
    BY <1>3 DEF ProfileGather, ProfileFinally, ProfType, Profs, NoProf
  <2> HIDE DEF t
  <2>3. /\ \A v \in Starters \ {p} : try'[v] = try[v]
        /\ \A n \in Nodes : n \in prof[p].nodes => try'[p][n] = t(n)
    BY <2>2, ProfileStarts DEF TryType
  <2>4. /\ prof'[p].pc = "map" /\ prof'[p].some = prof[p].some
        /\ prof'[p].nodes = prof[p].nodes
        /\ \A q \in Profiles \ {p} : prof'[q] = prof[q]
    BY <1>3 DEF ProfType, Profs
  <2>5. ConnectingIsOwned'
    <3> SUFFICES ASSUME NEW m \in connecting
                 PROVE  \E v \in Starters : Owns(v, m)'
      BY <1>1 DEF ConnectingIsOwned
    <3>1. PICK v \in Starters : Owns(v, m)
      BY DEF Owned, ConnectingIsOwned
    <3>2. m \in Nodes
      BY DEF RowType
    <3>3. CASE v = p
      <4>1. m \in prof[p].nodes
        BY <1>1, <3>1, <3>2, <3>3 DEF Owns, Owned, SomeSelected, Trying
      <4>2. try'[p][m].pc \in Trying
        BY <2>1, <2>3, <3>2, <4>1 DEF Trying
      <4> QED BY <3>3, <4>2 DEF Owns
    <3>4. CASE v # p
      BY <2>3, <2>4, <3>1, <3>4 DEF Owns, Starters
    <3> QED BY <3>3, <3>4
  <2>6. SomeSelected'
    BY <2>4 DEF Owned, SomeSelected
  <2>7. MapperTries'
    BY <2>3, <2>4, ProfileStarts DEF Owned, MapperTries
  <2> QED BY <2>5, <2>6, <2>7 DEF Owned
<1> QED BY <1>2, <1>3 DEF ProfileGather, Fault

\* It ends when every attempt of its mapper has.
LEMMA ProfileEndOwned ==
  ASSUME TypeOK, Owned, NEW p \in Profiles, ProfileEnd(p)
  PROVE  Owned'
  BY OwnedFinally DEF TypeOK, ProfileEnd, rowVars

\* Who waits for a node goes on to write the outcome.
LEMMA NodeAnswerOwned ==
  ASSUME TypeOK, Owned, NEW n \in Nodes, NodeAnswer(n)
  PROVE  Owned'
<1> USE DEF TypeOK
<1>1. UNCHANGED <<connecting, prof>>
  BY DEF NodeAnswer, rowVars
<1>2. PICK isStarted \in BOOLEAN :
        try' = [w \in Starters |-> [try[w] EXCEPT ![n] =
           IF @.pc = "wait" /\ n \in reach
           THEN [@ EXCEPT !.pc = "answered", !.started = isStarted] ELSE @]]
  BY DEF NodeAnswer
<1>3. \A w \in Starters, m \in Nodes :
        \/ try'[w][m].pc = try[w][m].pc
        \/ try[w][m].pc = "wait" /\ try'[w][m].pc = "answered"
  <2> SUFFICES ASSUME NEW w \in Starters, NEW m \in Nodes
               PROVE  \/ try'[w][m].pc = try[w][m].pc
                      \/ try[w][m].pc = "wait" /\ try'[w][m].pc = "answered"
    OBVIOUS
  <2> DEFINE r == [try[w][n] EXCEPT !.pc = "answered", !.started = isStarted]
  <2>1. r.pc = "answered"
    BY DEF TryType, Tries
  <2>2. try'[w][m] = try[w][m] \/ (try[w][m].pc = "wait" /\ try'[w][m] = r)
    BY <1>2 DEF TryType
  <2> HIDE DEF r
  <2> QED BY <2>1, <2>2
<1>4. ConnectingIsOwned'
  <2> SUFFICES ASSUME NEW m \in connecting
               PROVE  \E v \in Starters : Owns(v, m)'
    BY <1>1 DEF ConnectingIsOwned
  <2>1. PICK v \in Starters : Owns(v, m)
    BY DEF Owned, ConnectingIsOwned
  <2>2. m \in Nodes
    BY DEF RowType
  <2> QED BY <1>1, <1>3, <2>1, <2>2 DEF Owns, Trying
<1>5. SomeSelected'
  BY <1>1 DEF Owned, SomeSelected
<1>6. MapperTries'
  BY <1>1, <1>3, ProfileStarts DEF Owned, MapperTries
<1> QED BY <1>4, <1>5, <1>6 DEF Owned

\* The job of a node, up to its mark.
LEMMA StartOwned ==
  ASSUME TypeOK, Owned, NEW n \in Nodes,
         StartRead(n) \/ StartClear(n) \/ StartStop(n) \/ StartMark(n)
  PROVE  Owned'
<1> USE NoTryType DEF TypeOK
<1>1. CASE StartRead(n)
  <2>1. UNCHANGED <<connecting, prof>> /\ try[Single][n].pc \notin Trying
    BY <1>1 DEF StartRead, rowVars, Trying
  <2>2. PICK r : try' = [try EXCEPT ![Single][n] = r]
    <3> DEFINE q == [try[Single][n] EXCEPT
                 !.pc = IF Configured(n) THEN "mark" ELSE "clear",
                 !.gives = <<profile[n], version[n], 0>>]
    <3>1. \/ try' = [try EXCEPT ![Single][n] = NoTry]
          \/ try' = [try EXCEPT ![Single][n] = q]
      BY <1>1 DEF StartRead, End, TryType
    <3> HIDE DEF q
    <3> QED BY <3>1
  <2> QED BY <2>1, <2>2, OwnedTry
<1>2. CASE StartClear(n)
  BY <1>2, OwnedKept DEF StartClear, Clear
<1>3. CASE StartMark(n)
  <2> DEFINE r == [try[Single][n] EXCEPT !.pc = "prepare"]
  <2>1. r.pc \in Trying
    BY DEF TryType, Tries, Trying
  <2>2. /\ try' = [try EXCEPT ![Single][n] = r] /\ UNCHANGED prof
        /\ connecting' \subseteq connecting \cup {n}
    BY <1>3 DEF StartMark, Goto
  <2> HIDE DEF r
  <2> QED BY <2>1, <2>2, OwnedTry
<1>4. CASE StartStop(n)
  BY <1>4, OwnedTry DEF StartStop, End, rowVars, Trying
<1> QED BY <1>1, <1>2, <1>3, <1>4

\* An attempt under way goes on until it writes its outcome.
LEMMA TryOwned ==
  ASSUME TypeOK, Owned, NEW w \in Starters, NEW n \in Nodes, Try(w, n),
         "query" \notin Faults
  PROVE  Owned'
<1> USE DEF TypeOK
<1>1. /\ UNCHANGED prof
      /\ try[w][n].pc # "none"
  BY DEF Try, StartPrepare, StartRequest, StartTimeout, StartDone
<1>2. CASE StartDone(w, n)
  BY <1>1, <1>2, OwnedTry DEF StartDone, End
<1>3. CASE ~StartDone(w, n)
  <2>1. UNCHANGED connecting
    BY <1>3 DEF Try, StartPrepare, StartRequest, StartTimeout, rowVars
  <2>2. \E r : r.pc \in Trying /\ try' = [try EXCEPT ![w][n] = r]
    <3>1. ASSUME NEW pc \in Trying, Goto(w, n, pc)
          PROVE  \E r : r.pc \in Trying /\ try' = [try EXCEPT ![w][n] = r]
      <4> DEFINE r == [try[w][n] EXCEPT !.pc = pc]
      <4>1. r.pc \in Trying
        BY DEF TryType, Tries
      <4>2. try' = [try EXCEPT ![w][n] = r]
        BY <3>1 DEF Goto
      <4> HIDE DEF r
      <4> QED BY <4>1, <4>2
    <3>2. ASSUME NEW b, Answer(w, n, b)
          PROVE  \E r : r.pc \in Trying /\ try' = [try EXCEPT ![w][n] = r]
      <4> DEFINE r == [try[w][n] EXCEPT !.pc = "answered", !.started = b]
      <4>1. r.pc \in Trying
        BY DEF TryType, Tries, Trying
      <4>2. try' = [try EXCEPT ![w][n] = r]
        BY <3>2 DEF Answer, TryType
      <4> HIDE DEF r
      <4> QED BY <4>1, <4>2
    <3>3. CASE StartPrepare(w, n)
      <4> DEFINE g == IF w = Single THEN WithContent(try[w][n].gives)
                      ELSE try[w][n].gives
                 r == [try[w][n] EXCEPT !.pc = "request", !.gives = g]
      <4>1. r.pc \in Trying
        <5> HIDE DEF g
        <5> QED BY DEF TryType, Tries, Trying
      <4>2. \/ try' = [try EXCEPT ![w][n] = r]
            \/ Goto(w, n, "failed")
        BY <3>3 DEF StartPrepare, Fault, TryType, Tries
      <4> HIDE DEF r
      <4> QED BY <3>1, <4>1, <4>2 DEF Trying
    <3>4. CASE StartRequest(w, n)
      BY <3>1, <3>2, <3>4 DEF StartRequest, Trying
    <3>5. CASE StartTimeout(w, n)
      BY <3>1, <3>5 DEF StartTimeout, Trying
    <3> QED BY <1>3, <3>3, <3>4, <3>5 DEF Try
  <2> QED BY <1>1, <2>1, <2>2, OwnedTry
<1> QED BY <1>2, <1>3

\* A fault that is left out does not happen.
NoLostJob == Faults \cap {"query", "worker", "panel"} = {}

\* Every step keeps somebody who resets isConnecting.
LEMMA NextOwned ==
  ASSUME TypeOK, Owned, [Next]_vars, NoLostJob
  PROVE  Owned'
<1> USE DEF TypeOK
<1>1. "query" \notin Faults /\ "worker" \notin Faults /\ "panel" \notin Faults
  BY DEF NoLostJob
<1>2. CASE connecting' \subseteq connecting /\ UNCHANGED <<try, prof>>
  BY <1>2, OwnedKept
<1>3. ASSUME NEW n \in Nodes, NEW force \in BOOLEAN, AddStart(n, force),
             connecting' \subseteq connecting, UNCHANGED prof
      PROVE  Owned'
  BY <1>3, OwnedAddStart
<1>4. ASSUME NEW p \in Profiles, NEW force \in BOOLEAN, NEW S,
             AddProfile(p, force, S), UNCHANGED <<try, connecting>>
      PROVE  Owned'
  BY <1>4, OwnedAddProfile
<1>5. ASSUME NEW n \in Nodes,
             \/ Job(n) \/ StopRequest(n) \/ StopUpdate(n) \/ DeleteRow(n)
             \/ CheckStats(n) \/ CheckUpdate(n) \/ NodeAnswer(n)
      PROVE  Owned'
  <2>1. CASE Job(n) \/ NodeAnswer(n)
    BY <1>1, <2>1, StartOwned, TryOwned, NodeAnswerOwned DEF Job
  <2>2. CASE StopRequest(n) \/ StopUpdate(n) \/ DeleteRow(n) \/ CheckStats(n)
    BY <1>2, <2>2 DEF StopRequest, StopUpdate, DeleteRow, CheckStats, rowVars
  <2>3. CASE CheckUpdate(n)
    BY <1>2, <1>3, <2>3 DEF CheckUpdate
  <2> QED BY <1>5, <2>1, <2>2, <2>3
<1>6. ASSUME NEW p \in Profiles, Profile(p) \/ Retry(p)
      PROVE  Owned'
  <2>1. CASE Profile(p) /\ ~ProfileStop(p)
    BY <1>1, <2>1, ProfileBeginOwned, ProfileMarkOwned, ProfileGatherOwned,
       ProfileEndOwned DEF Profile
  <2>2. CASE Retry(p)
    BY <1>4, <2>2 DEF Retry, rowVars
  <2>3. CASE ProfileStop(p)
    BY <1>2, <2>3 DEF ProfileStop, rowVars
  <2> QED BY <1>6, <2>1, <2>2, <2>3
<1>7. CASE Tick \/ EveryRead
  BY <1>2, <1>7 DEF Tick, EveryRead, rowVars
<1>8. CASE EveryAdd
  <2>1. every.force \in BOOLEAN /\ every.todo \in SUBSET Profiles
    BY DEF QueueType, Everys
  <2> QED BY <1>2, <1>4, <1>8, <2>1 DEF EveryAdd, rowVars
<1>9. CASE Administrator
  <2>1. CASE RestartAllNodes
    BY <1>2, <2>1 DEF RestartAllNodes, rowVars
  <2>2. ASSUME NEW n \in Nodes,
               \/ CreateNode(n) \/ DeleteNode(n) \/ UpdateNode(n)
               \/ DisableNode(n) \/ DisableStop(n)
        PROVE  Owned'
    BY <1>2, <2>2 DEF CreateNode, DeleteNode, UpdateNode, DisableNode,
       DisableStop, jobVars, rowVars
  <2>3. ASSUME NEW n \in Nodes, RestartNode(n) \/ EnableNode(n)
        PROVE  Owned'
    BY <1>2, <1>3, <2>3 DEF RestartNode, EnableNode, rowVars
  <2>4. ASSUME NEW p \in Profiles, ModifyProfile(p) \/ UpdateConfigProfile(p)
        PROVE  Owned'
    BY <1>2, <1>4, <2>4 DEF ModifyProfile, UpdateConfigProfile, jobVars
  <2>5. CASE EditRemove
    BY <1>2, <2>5 DEF EditRemove, jobVars
  <2>6. CASE EditAdd \/ EditRow
    BY <1>2, <1>3, <1>4, <2>6, EditsType DEF EditAdd, EditRow
  <2> QED BY <1>9, <2>1, <2>2, <2>3, <2>4, <2>5, <2>6 DEF Administrator
<1>10. CASE Environment
  <2>1. ASSUME NEW n \in Nodes, CoreDies(n) \/ Unreachable(n) \/ Reachable(n)
        PROVE  Owned'
    BY <1>2, <2>1 DEF CoreDies, Unreachable, Reachable, jobVars, rowVars
  <2>2. ~PanelDies
    BY <1>1 DEF PanelDies, Fault
  <2> QED BY <1>10, <2>1, <2>2 DEF Environment
<1>11. CASE UNCHANGED vars
  BY <1>2, <1>11 DEF vars, jobVars, rowVars
<1> QED BY <1>5, <1>6, <1>7, <1>8, <1>9, <1>10, <1>11 DEF Next

\* While isConnecting of a node is set, somebody is about to reset it: with any
\* number of profiles and nodes whose jobs overlap, whatever the nodes answer
\* and the administrator asks, as long as no query fails and no worker dies.
THEOREM ConnectingOwned ==
  ASSUME NoLostJob
  PROVE  Spec => []ConnectingIsOwned
<1>1. Init => TypeOK /\ Owned
  <2> SUFFICES ASSUME Init
               PROVE  TypeOK /\ Owned
    OBVIOUS
  <2>1. ConnectingIsOwned
    BY DEF Init, ConnectingIsOwned
  <2>2. SomeSelected
    BY DEF Init, SomeSelected, NoProf
  <2>3. MapperTries
    BY ProfileStarts DEF Init, MapperTries, NoTry
  <2> QED BY <2>1, <2>2, <2>3, InitType DEF Owned
<1>2. TypeOK /\ Owned /\ [Next]_vars => TypeOK' /\ Owned'
  BY NextType, NextOwned
<1>3. Owned => ConnectingIsOwned
  BY DEF Owned
<1> QED BY <1>1, <1>2, <1>3, PTL DEF Spec

-----------------------------------------------------------------------------
(* The administrator's last decision, if he waits until nothing is going on *)
(* and edits no single node (the write of the row at the end of that edit   *)
(* may come after a job has disabled the node: TLC finds it).               *)

\* The node has a STOP_NODE job, or is about to have one.
Stopping(n) == stop[n] # "none" \/ halting[n] # {}

\* A node that is not wanted is disabled at once; one that is wanted is only
\* disabled, or about to be by its STOP_NODE job, for lack of inbounds, which
\* has cost it its profile too.
Decided ==
  \A n \in known :
    /\ n \notin wanted => n \in disabled
    /\ n \in wanted /\ (Stopping(n) \/ n \in disabled) => profile[n] = None

\* Requests that start many nodes, or one, do not write a row at their end.
NoRowEdit == edit.pc # "row" /\ edit.ends \in {"start", "profile"}

\* A row that is yet to come is not there.
FreshUnknown == fresh \cap known = {}

Decisions == Decided /\ NoRowEdit /\ FreshUnknown

\* A job or a fault that leaves the decisions, and the columns they are about,
\* alone.
LEMMA DecidedKept ==
  ASSUME Decisions,
         UNCHANGED <<known, fresh, disabled, profile, wanted, edit>>,
         \A n \in Nodes : Stopping(n)' => Stopping(n),
         TypeOK
  PROVE  Decisions'
  BY DEF Decisions, Decided, NoRowEdit, FreshUnknown, TypeOK, RowType

\* Who finds a node without inbounds takes its profile too.
LEMMA DecidedClear ==
  ASSUME TypeOK, Decisions, NEW w, NEW n \in Nodes, Clear(w, n),
         UNCHANGED <<known, fresh, wanted, edit, stop>>
  PROVE  Decisions'
  BY DEF Decisions, Decided, NoRowEdit, FreshUnknown, TypeOK, RowType,
         QueueType, Clear, Stopping

\* Who is about to enqueue the STOP_NODE job does it.
LEMMA DecidedHalt ==
  ASSUME TypeOK, Decisions, NEW w, NEW n \in Nodes, Halt(w, n),
         UNCHANGED <<rowVars, wanted, edit>>
  PROVE  Decisions'
<1>1. \A m \in Nodes : Stopping(m)' => Stopping(m)
  BY DEF Halt, AddStop, Stopping, TypeOK, QueueType
<1> QED BY <1>1, DecidedKept DEF rowVars

\* The administrator has waited for everything about the nodes he asks about.
LEMMA AskQuiet ==
  ASSUME Settled, NEW what, NEW S, Ask(what, S), NEW n \in S
  PROVE  Quiet(n)
  BY DEF Ask

\* Every step keeps the decisions.
LEMMA NextDecided ==
  ASSUME TypeOK, Decisions, [Next]_vars, Settled, "update" \notin Requests
  PROVE  Decisions'
<1>1. CASE UNCHANGED <<rowVars, stop, halting, wanted, edit>>
  BY <1>1, DecidedKept DEF rowVars, Stopping
<1>2. ASSUME NEW n \in Nodes,
             \/ Job(n) \/ StopRequest(n) \/ StopUpdate(n) \/ DeleteRow(n)
             \/ CheckStats(n) \/ CheckUpdate(n) \/ NodeAnswer(n)
      PROVE  Decisions'
  <2>1. CASE StartRead(n) \/ StartMark(n) \/ \E w \in Starters : Try(w, n)
    <3>1. UNCHANGED <<known, fresh, disabled, profile, wanted, edit, stop,
                      halting>>
      BY <2>1 DEF StartRead, StartMark, Try, StartPrepare, StartRequest,
         StartTimeout, StartDone, rowVars, askVars
    <3> QED BY <3>1, DecidedKept DEF Stopping
  <2>2. CASE StartClear(n)
    BY <2>2, DecidedClear DEF StartClear, askVars
  <2>3. CASE StopRequest(n)
    <3>1. \A m \in Nodes : Stopping(m)' => Stopping(m)
      BY <2>3 DEF StopRequest, TypeOK, QueueType, Stopping
    <3> QED BY <2>3, <3>1, DecidedKept DEF StopRequest, rowVars, askVars
  <2>4. CASE StopUpdate(n)
    BY <2>4 DEF StopUpdate, askVars, Decisions, Decided, NoRowEdit,
       FreshUnknown, TypeOK, RowType, QueueType, Stopping
  <2>5. CASE DeleteRow(n)
    BY <2>5 DEF DeleteRow, askVars, Decisions, Decided, NoRowEdit,
       FreshUnknown, TypeOK, RowType, QueueType, Stopping
  <2>6. CASE CheckStats(n) \/ CheckUpdate(n) \/ NodeAnswer(n)
    <3>1. UNCHANGED <<known, fresh, disabled, profile, wanted, edit, stop,
                      halting>>
      BY <2>6 DEF CheckStats, CheckUpdate, NodeAnswer, rowVars, askVars
    <3> QED BY <3>1, DecidedKept DEF Stopping
  <2>7. CASE StartStop(n)
    BY <2>7, DecidedHalt DEF StartStop, askVars
  <2> QED BY <1>2, <2>1, <2>2, <2>3, <2>4, <2>5, <2>6, <2>7 DEF Job
<1>3. ASSUME NEW p \in Profiles, Profile(p) \/ Retry(p)
      PROVE  Decisions'
  <2>1. CASE ProfileMark(p)
    <3>1. PICK n \in prof[p].todo :
            IF n \notin prof[p].some THEN Clear(p, n)
            ELSE UNCHANGED <<disabled, profile, connected, halting, owed>>
      BY <2>1 DEF ProfileMark
    <3>2. n \in Nodes
      BY DEF TypeOK, ProfType, Profs
    <3>3. UNCHANGED <<known, fresh, wanted, edit, stop>>
      BY <2>1 DEF ProfileMark, askVars
    <3>4. CASE Clear(p, n)
      BY <3>2, <3>3, <3>4, DecidedClear
    <3>5. CASE UNCHANGED <<disabled, profile, halting>>
      BY <3>3, <3>5, DecidedKept DEF Stopping
    <3> QED BY <3>1, <3>4, <3>5
  <2>2. CASE ProfileStop(p)
    BY <2>2, DecidedHalt DEF ProfileStop, askVars
  <2>3. CASE ~ProfileMark(p) /\ ~ProfileStop(p)
    BY <1>1, <1>3, <2>3 DEF Profile, ProfileBegin, ProfileGather, ProfileEnd,
       Retry, askVars
  <2> QED BY <2>1, <2>2, <2>3
<1>4. CASE Tick \/ EveryRead \/ EveryAdd
  BY <1>1, <1>4 DEF Tick, EveryRead, EveryAdd, askVars
<1>5. CASE Administrator
  <2>1. CASE RestartAllNodes
    BY <1>1, <2>1 DEF RestartAllNodes
  <2>2. ASSUME NEW n \in Nodes, RestartNode(n) \/ DeleteNode(n)
        PROVE  Decisions'
    BY <1>1, <2>2 DEF RestartNode, DeleteNode
  <2>3. ASSUME NEW n \in Nodes, CreateNode(n)
        PROVE  Decisions'
    <3>1. PICK p \in Profiles, some \in BOOLEAN :
            /\ n \in fresh /\ Ask("create", {n})
            /\ Edit("add", "start", {n}, p, some)
            /\ fresh' = fresh \ {n} /\ known' = known \cup {n}
            /\ profile' = [profile EXCEPT ![n] = p]
            /\ wanted' = wanted \cup {n}
            /\ UNCHANGED <<disabled, stop, halting>>
      BY <2>3 DEF CreateNode, jobVars
    <3>2. ~Stopping(n) /\ n \notin disabled
      BY <3>1, AskQuiet DEF Quiet, Stopping, TypeOK, RowType, Decisions,
         FreshUnknown
    <3>3. NoRowEdit'
      BY <3>1 DEF NoRowEdit, Edit
    <3>4. FreshUnknown'
      BY <3>1 DEF Decisions, FreshUnknown
    <3>5. Decided'
      BY <3>1, <3>2 DEF Decisions, Decided, TypeOK, RowType, Stopping
    <3> QED BY <3>3, <3>4, <3>5 DEF Decisions
  <2>4. ASSUME NEW n \in Nodes, EnableNode(n)
        PROVE  Decisions'
    <3>1. ~Stopping(n)
      BY <2>4, AskQuiet DEF EnableNode, Quiet, Stopping
    <3> QED BY <2>4, <3>1 DEF EnableNode, Decisions, Decided, NoRowEdit,
            FreshUnknown, TypeOK, RowType, Stopping
  <2>5. ASSUME NEW n \in Nodes, DisableNode(n)
        PROVE  Decisions'
    BY <2>5 DEF DisableNode, Decisions, Decided, NoRowEdit, FreshUnknown,
       TypeOK, RowType, QueueType, Stopping
  <2>6. ASSUME NEW p \in Profiles, ModifyProfile(p)
        PROVE  Decisions'
    <3>1. PICK S \in SUBSET known :
            /\ Ask("modify", Nodes) /\ Edit("remove", "profile", S, p, TRUE)
            /\ profile' = [n \in Nodes |-> IF n \in S THEN p ELSE profile[n]]
            /\ wanted' = wanted \ (S \cap disabled)
            /\ UNCHANGED <<known, fresh, disabled, stop, halting>>
      BY <2>6 DEF ModifyProfile, jobVars
    <3>2. \A n \in Nodes : ~Stopping(n)
      BY <3>1, AskQuiet DEF Quiet, Stopping
    <3>3. NoRowEdit'
      BY <3>1 DEF NoRowEdit, Edit
    <3> QED BY <3>1, <3>2, <3>3
            DEF Decisions, Decided, FreshUnknown, TypeOK, RowType, Stopping
  <2>7. ASSUME NEW p \in Profiles, UpdateConfigProfile(p)
        PROVE  Decisions'
    BY <2>7, DecidedKept DEF UpdateConfigProfile, Stopping
  <2>8. CASE EditRemove \/ EditAdd
    <3>1. UNCHANGED <<known, fresh, disabled, profile, wanted, stop, halting>>
      BY <2>8 DEF EditRemove, EditAdd, jobVars
    <3>2. NoRowEdit'
      <4>1. edit' = NoEdit \/ edit' = [edit EXCEPT !.pc = "add"]
        BY <2>8 DEF EditRemove, EditAdd, Decisions, NoRowEdit
      <4>2. edit \in Edits
        BY DEF TypeOK, AskType
      <4>3. [edit EXCEPT !.pc = "add"].ends = edit.ends
        BY <4>2 DEF Edits
      <4>4. [edit EXCEPT !.pc = "add"].pc = "add"
        BY <4>2 DEF Edits
      <4>5. edit.ends \in {"start", "profile"}
        BY DEF Decisions, NoRowEdit
      <4>6. NoEdit.pc = "none" /\ NoEdit.ends = "start"
        BY DEF NoEdit
      <4>7. edit'.pc \in {"none", "add"} /\ edit'.ends \in {"start", "profile"}
        BY <4>1, <4>3, <4>4, <4>5, <4>6
      <4> QED BY <4>7 DEF NoRowEdit
    <3> QED BY <3>1, <3>2
            DEF Decisions, Decided, FreshUnknown, TypeOK, RowType, Stopping
  <2>9. ~EditRow
    BY DEF Decisions, NoRowEdit, EditRow
  <2>10. \A n \in Nodes : ~UpdateNode(n)
    BY DEF UpdateNode, Ask
  <2>11. ASSUME NEW n \in Nodes, DisableStop(n)
         PROVE  Decisions'
    BY <2>11, DecidedHalt DEF DisableStop, askVars
  <2> QED BY <1>5, <2>1, <2>2, <2>3, <2>4, <2>5, <2>6, <2>7, <2>8, <2>9,
          <2>10, <2>11 DEF Administrator
<1>6. CASE Environment
  <2>1. ASSUME NEW n \in Nodes, CoreDies(n) \/ Unreachable(n) \/ Reachable(n)
        PROVE  Decisions'
    BY <1>1, <2>1 DEF CoreDies, Unreachable, Reachable, jobVars, askVars
  <2>2. CASE PanelDies
    <3>1. /\ UNCHANGED <<known, fresh, disabled, profile, wanted>>
          /\ \A n \in Nodes : Stopping(n)' => Stopping(n)
          /\ edit' = edit \/ edit' = NoEdit
      BY <2>2 DEF PanelDies, WorkerDies, Again, rowVars, Stopping
    <3>2. NoRowEdit'
      BY <3>1 DEF Decisions, NoRowEdit, NoEdit
    <3> QED BY <3>1, <3>2
            DEF Decisions, Decided, FreshUnknown, TypeOK, RowType, Stopping
  <2> QED BY <1>6, <2>1, <2>2 DEF Environment
<1>7. CASE UNCHANGED vars
  BY <1>1, <1>7 DEF vars, jobVars, askVars
<1> QED BY <1>2, <1>3, <1>4, <1>5, <1>6, <1>7 DEF Next

\* When nothing is going on with a node that has profile and inbounds, it is
\* disabled exactly if the last decision says so: for any number of nodes and
\* profiles and through every fault, if the administrator waits for quiet and
\* does not edit single nodes.
THEOREM DecisionHolds ==
  ASSUME Settled, "update" \notin Requests
  PROVE  Spec => []WantedHolds
<1>1. Init => TypeOK /\ Decisions
  <2> SUFFICES ASSUME Init
               PROVE  Decisions
    BY InitType
  <2>1. Decided
    BY DEF Init, Decided, Stopping
  <2>2. NoRowEdit
    BY DEF Init, NoRowEdit, NoEdit
  <2>3. FreshUnknown
    BY DEF Init, FreshUnknown
  <2> QED BY <2>1, <2>2, <2>3 DEF Decisions
<1>2. TypeOK /\ Decisions /\ [Next]_vars => TypeOK' /\ Decisions'
  BY NextType, NextDecided
<1>3. Decisions => WantedHolds
  BY DEF Decisions, Decided, WantedHolds, Configured
<1> QED BY <1>1, <1>2, <1>3, PTL DEF Spec

-----------------------------------------------------------------------------
(* Disabled nodes are stopped, if the administrator waits until nothing is  *)
(* going on, nodes are within reach and lose inbounds only by a change of   *)
(* their profile's configuration, and no job of a profile finds inbounds on *)
(* some of its nodes and none on others: such a job starts the node that it *)
(* has just disabled (NoInboundsNotStarted).                                  *)

\* The job of a profile has found inbounds on all of its nodes or on none.
AllOrNone ==
  \A p \in Profiles : prof[p].some = {} \/ prof[p].some = prof[p].nodes

\* What a job of a profile knows of its nodes stays true while it runs.
ProfSound ==
  \A p \in Profiles :
    /\ prof[p].some \subseteq prof[p].nodes /\ prof[p].todo \subseteq prof[p].nodes
    /\ prof[p].pc \in {"none", "waiting"} => prof[p].nodes = {}
    /\ prof[p].some \cap known \subseteq assigned
    /\ (prof[p].todo \ prof[p].some) \cap assigned = {}

\* The job of its profile is about to find a node without inbounds.
Due(n) ==
  \E p \in Profiles :
    /\ profile[n] = p
    /\ prof[p].pc = "waiting" \/ (prof[p].pc = "mark" /\ n \in prof[p].todo)

\* Nobody starts a node without inbounds, and it is disabled or about to be.
Bare(n) ==
  /\ \A p \in Profiles : try[p][n].pc = "none"
  /\ try[Single][n].pc \in {"none", "waiting", "clear"} /\ busy[n] = "no"
  /\ n \notin disabled => Due(n)

\* A node with inbounds has its profile; if it is disabled, nobody is at it.
Kept(n) ==
  /\ try[Single][n].pc # "clear" /\ profile[n] # None
  /\ n \in disabled =>
       /\ \A w \in Starters : try[w][n].pc = "none"
       /\ check[n].pc = "none" /\ busy[n] = "no"
       /\ \A p \in Profiles : n \notin prof[p].nodes

\* Somebody is about to enqueue the STOP_NODE job: a START_NODE job that finds
\* the node without inbounds does, if not at once then when it is run again.
Owes(n) == halting[n] \ {Single} # {} \/ try[Single][n].pc # "none"

\* A disabled node runs only until its STOP_NODE job, and is taken for connected
\* only until that job or the one that finds it without inbounds.
Off(n) ==
  /\ n \notin connecting
  /\ n \in core => stop[n] = "waiting" \/ (stop[n] = "none" /\ Owes(n))
  /\ n \in connected => /\ n \notin assigned
                        /\ stop[n] # "none" \/ try[Single][n].pc # "none"

Bares == \A n \in known \ assigned : Bare(n)
Kepts == \A n \in known \cap assigned : Kept(n)
Offs == \A n \in disabled : Off(n)
Stops == \A n \in known : Stopping(n) => n \in disabled
Rests == reach = Nodes /\ edit.pc = "none"

Stopped ==
  ProfSound /\ MapperTries /\ Bares /\ Kepts /\ Offs /\ Stops /\ Rests

\* Who may be started is not disabled and has inbounds.
LEMMA Startable ==
  ASSUME TypeOK, Stopped, NEW n \in known, NEW w \in Starters,
         try[w][n].pc \in Trying \cup {"mark"} \/ busy[n] # "no"
  PROVE  n \in assigned \ disabled
<1>1. n \in Nodes
  BY DEF TypeOK, RowType
<1>2. w # Single => w \in Profiles
  BY DEF Starters
<1>3. n \in assigned
  BY <1>2 DEF Stopped, Bares, Bare, Trying
<1>4. n \notin disabled
  BY <1>3 DEF Stopped, Kepts, Kept, Trying
<1> QED BY <1>3, <1>4

\* A step that is about node n: everything about other nodes stays as it is,
\* or is given up, and the jobs of profiles may be done with the node.
OnlyAbout(n) ==
  /\ known' \subseteq known /\ assigned' \subseteq assigned
  /\ known' \cap assigned \subseteq assigned'
  /\ \A m \in Nodes \ {n} :
       /\ (m \in known' <=> m \in known) /\ (m \in assigned' <=> m \in assigned)
       /\ (m \in disabled' <=> m \in disabled) /\ profile'[m] = profile[m]
       /\ stop'[m] = stop[m] /\ halting'[m] = halting[m]
       /\ busy'[m] = busy[m]
       /\ m \in connecting' => m \in connecting
       /\ m \in connected' => m \in connected
       /\ m \in core' => m \in core
       /\ check[m].pc = "none" => check'[m].pc = "none"
       /\ \A w \in Starters : try'[w][m].pc = try[w][m].pc
  /\ \A p \in Profiles :
       /\ prof'[p].pc = prof[p].pc /\ prof'[p].nodes = prof[p].nodes
       /\ prof'[p].some = prof[p].some /\ prof'[p].todo \subseteq prof[p].todo
       /\ prof[p].todo \ {n} \subseteq prof'[p].todo
       /\ prof[p].pc # "map" => try'[p][n].pc = "none"
  /\ UNCHANGED <<reach, edit>>

\* Then it is enough to look at that node.
LEMMA NodeStep ==
  ASSUME TypeOK, TypeOK', Stopped, NEW n \in Nodes, OnlyAbout(n),
         n \in known' \ assigned' => Bare(n)',
         n \in known' \cap assigned' => Kept(n)',
         n \in disabled' => Off(n)',
         n \in known' /\ Stopping(n)' => n \in disabled'
  PROVE  Stopped'
<1>1. /\ disabled \subseteq known /\ known \subseteq Nodes
      /\ disabled' \subseteq known' /\ assigned \subseteq known
      /\ assigned' \subseteq known'
  BY DEF TypeOK, RowType
<1>2. \A m \in Nodes \ {n} : Due(m) => Due(m)'
  <2> SUFFICES ASSUME NEW m \in Nodes \ {n}, Due(m)
               PROVE  Due(m)'
    OBVIOUS
  <2>1. PICK p \in Profiles : /\ profile[m] = p
                              /\ \/ prof[p].pc = "waiting"
                                 \/ prof[p].pc = "mark" /\ m \in prof[p].todo
    BY DEF Due
  <2> QED BY <2>1 DEF Due, OnlyAbout
<1>3. Single \in Starters /\ \A p \in Profiles : p \in Starters
  BY DEF Starters
<1>4. ProfSound'
  <2> SUFFICES ASSUME NEW p \in Profiles
               PROVE  /\ prof'[p].some \subseteq prof'[p].nodes
                      /\ prof'[p].todo \subseteq prof'[p].nodes
                      /\ prof'[p].pc \in {"none", "waiting"} => prof'[p].nodes = {}
                      /\ prof'[p].some \cap known' \subseteq assigned'
                      /\ (prof'[p].todo \ prof'[p].some) \cap assigned' = {}
    BY DEF ProfSound
  <2> QED BY DEF Stopped, ProfSound, OnlyAbout
<1>5. MapperTries'
  <2> SUFFICES ASSUME NEW p \in Profiles, prof[p].pc # "map", NEW m \in Nodes
               PROVE  try'[p][m].pc = "none"
    BY DEF MapperTries, OnlyAbout
  <2>1. CASE m = n
    BY <2>1 DEF OnlyAbout
  <2>2. CASE m # n
    BY <1>3, <2>2 DEF Stopped, MapperTries, OnlyAbout
  <2> QED BY <2>1, <2>2
<1>6. Bares'
  <2> SUFFICES ASSUME NEW m \in known' \ assigned', m # n
               PROVE  Bare(m)'
    BY DEF Bares
  <2>1. m \in Nodes \ {n} /\ m \in known \ assigned
    BY <1>1 DEF OnlyAbout
  <2> QED BY <1>2, <1>3, <2>1 DEF Stopped, Bares, Bare, OnlyAbout
<1>7. Kepts'
  <2> SUFFICES ASSUME NEW m \in known' \cap assigned', m # n
               PROVE  Kept(m)'
    BY DEF Kepts
  <2>1. m \in Nodes \ {n} /\ m \in known \cap assigned
    BY <1>1 DEF OnlyAbout
  <2> QED BY <1>3, <2>1 DEF Stopped, Kepts, Kept, OnlyAbout
<1>8. Offs'
  <2> SUFFICES ASSUME NEW m \in disabled', m # n
               PROVE  Off(m)'
    BY DEF Offs
  <2>1. m \in Nodes \ {n} /\ m \in disabled
    BY <1>1 DEF OnlyAbout
  <2> QED BY <1>3, <2>1 DEF Stopped, Offs, Off, Owes, OnlyAbout
<1>9. Stops'
  <2> SUFFICES ASSUME NEW m \in known', m # n, Stopping(m)'
               PROVE  m \in disabled'
    BY DEF Stops, Stopping
  <2>1. m \in Nodes \ {n} /\ m \in known
    BY <1>1 DEF OnlyAbout
  <2> QED BY <2>1 DEF Stopped, Stops, Stopping, OnlyAbout
<1>10. Rests'
  BY DEF Stopped, Rests, OnlyAbout
<1> QED BY <1>4, <1>5, <1>6, <1>7, <1>8, <1>9, <1>10 DEF Stopped

\* The columns and jobs that Stopped is about, but for those of an attempt.
rest == <<known, disabled, profile, assigned, stop, halting, check, prof, reach,
          edit>>

\* A step that is about a node that may be started, or is gone.
LEMMA StartableStep ==
  ASSUME TypeOK, TypeOK', Stopped, NEW n \in Nodes,
         n \in known => n \in assigned \ disabled,
         UNCHANGED rest,
         \A m \in Nodes \ {n} :
           /\ m \in connecting' => m \in connecting
           /\ m \in connected' => m \in connected
           /\ m \in core' => m \in core
           /\ busy'[m] = busy[m]
           /\ \A w \in Starters : try'[w][m].pc = try[w][m].pc,
         n \in known => try'[Single][n].pc # "clear",
         \A p \in Profiles : prof[p].pc # "map" => try'[p][n].pc = "none"
  PROVE  Stopped'
<1>1. OnlyAbout(n)
  BY DEF OnlyAbout, rest
<1>2. n \notin known' \ assigned' /\ n \notin disabled'
  BY DEF rest, TypeOK, RowType
<1>3. n \in known' \cap assigned' => Kept(n)'
  BY <1>2 DEF rest, Stopped, Kepts, Kept
<1>4. n \in known' => ~Stopping(n)'
  BY DEF rest, Stopped, Stops, Stopping
<1> QED BY <1>1, <1>2, <1>3, <1>4, NodeStep

\* What moving an attempt does to the places of all of them.
LEMMA Places ==
  ASSUME TypeOK, NEW w \in Starters, NEW n \in Nodes
  PROVE  /\ \A pc : Goto(w, n, pc) => try'[w][n].pc = pc
         /\ End(w, n) => try'[w][n].pc = "none"
         /\ \A b : Answer(w, n, b) => try'[w][n].pc = "answered"
         /\ (\E pc : Goto(w, n, pc)) \/ End(w, n) \/ (\E b : Answer(w, n, b))
              => \A v \in Starters, m \in Nodes :
                   v # w \/ m # n => try'[v][m] = try[v][m]
<1>1. try \in [Starters -> [Nodes -> Tries]]
  BY DEF TypeOK, TryType
<1>2. \A t \in Tries : \A pc : [t EXCEPT !.pc = pc].pc = pc
  BY DEF Tries
<1>3. \A t \in Tries : \A pc, b : [t EXCEPT !.pc = pc, !.started = b].pc = pc
  BY DEF Tries
<1>4. ASSUME NEW pc, Goto(w, n, pc)
      PROVE  /\ try'[w][n].pc = pc
             /\ \A v \in Starters, m \in Nodes :
                  v # w \/ m # n => try'[v][m] = try[v][m]
  <2>1. try' = [try EXCEPT ![w][n] = [try[w][n] EXCEPT !.pc = pc]]
    BY <1>1, <1>4 DEF Goto
  <2> QED BY <1>1, <1>2, <2>1
<1>5. ASSUME End(w, n)
      PROVE  /\ try'[w][n].pc = "none"
             /\ \A v \in Starters, m \in Nodes :
                  v # w \/ m # n => try'[v][m] = try[v][m]
  BY <1>1, <1>5 DEF End, NoTry
<1>6. ASSUME NEW b, Answer(w, n, b)
      PROVE  /\ try'[w][n].pc = "answered"
             /\ \A v \in Starters, m \in Nodes :
                  v # w \/ m # n => try'[v][m] = try[v][m]
  <2>1. try' = [try EXCEPT ![w][n] =
                  [try[w][n] EXCEPT !.pc = "answered", !.started = b]]
    BY <1>1, <1>6 DEF Answer
  <2> QED BY <1>1, <1>3, <2>1
<1> QED BY <1>4, <1>5, <1>6

\* An attempt goes on or ends.
LEMMA TryStopped ==
  ASSUME TypeOK, TypeOK', Stopped, NEW w \in Starters, NEW n \in Nodes,
         Try(w, n)
  PROVE  Stopped'
<1>1. try[w][n].pc \in Trying
  BY DEF Try, StartPrepare, StartRequest, StartTimeout, StartDone, Trying
<1>2. n \in known => n \in assigned \ disabled
  BY <1>1, Startable
<1>3. UNCHANGED rest
  BY DEF Try, StartPrepare, StartRequest, StartTimeout, StartDone, rest,
     rowVars, nodeVars, askVars
<1>4. \A m \in Nodes \ {n} : /\ m \in connecting' => m \in connecting
                             /\ m \in connected' => m \in connected
                             /\ m \in core' => m \in core
                             /\ busy'[m] = busy[m]
  BY DEF Try, StartPrepare, StartRequest, StartTimeout, StartDone, rowVars,
     nodeVars, TypeOK, NodeType
<1>5. /\ try'[w][n].pc # "clear"
      /\ \A v \in Starters, m \in Nodes :
           v # w \/ m # n => try'[v][m].pc = try[v][m].pc
  <2>1. CASE StartPrepare(w, n)
    <3>1. CASE (\E pc \in {"failed"} : Goto(w, n, pc)) \/ End(w, n)
      BY <3>1, Places
    <3>2. CASE try' = [try EXCEPT ![w][n].pc = "request",
                 ![w][n].gives = IF w = Single THEN WithContent(@) ELSE @]
      <4> DEFINE t == try[w][n]
                 q == [t EXCEPT !.pc = "request"]
                 r == [q EXCEPT !.gives =
                         IF w = Single THEN WithContent(q.gives) ELSE q.gives]
      <4>1. t \in Tries
        BY DEF TypeOK, TryType
      <4>2. r.pc = "request"
        BY <4>1 DEF Tries
      <4>3. try' = [try EXCEPT ![w][n] = r]
        BY <3>2, <4>1 DEF TypeOK, TryType, Tries
      <4> HIDE DEF r
      <4> QED BY <4>2, <4>3 DEF TypeOK, TryType
    <3> QED BY <2>1, <3>1, <3>2 DEF StartPrepare
  <2>2. CASE StartRequest(w, n)
    <3>1. \/ \E pc \in {"failed", "wait"} : Goto(w, n, pc)
          \/ \E b : Answer(w, n, b)
      BY <2>2 DEF StartRequest
    <3> QED BY <3>1, Places
  <2>3. CASE StartTimeout(w, n)
    <3>1. \E pc \in {"failed"} : Goto(w, n, pc)
      BY <2>3 DEF StartTimeout
    <3> QED BY <3>1, Places
  <2>4. CASE StartDone(w, n)
    BY <2>4, Places DEF StartDone
  <2> QED BY <2>1, <2>2, <2>3, <2>4 DEF Try
<1>6. n \in known => try'[Single][n].pc # "clear"
  BY <1>2, <1>5, NoTryType DEF Stopped, Kepts, Kept
<1>7. \A p \in Profiles : prof[p].pc # "map" => try'[p][n].pc = "none"
  <2> SUFFICES ASSUME NEW p \in Profiles, prof[p].pc # "map"
               PROVE  try'[p][n].pc = "none"
    OBVIOUS
  <2>1. try[p][n].pc = "none"
    BY DEF Stopped, MapperTries
  <2>2. p # w
    BY <1>1, <2>1 DEF Trying
  <2> QED BY <1>5, <2>1, <2>2, ProfileStarts
<1> QED BY <1>2, <1>3, <1>4, <1>5, <1>6, <1>7, StartableStep

\* A marked node is one that may be started, or is gone.
LEMMA StartMarkStopped ==
  ASSUME TypeOK, TypeOK', Stopped, NEW n \in Nodes, StartMark(n)
  PROVE  Stopped'
<1>1. n \in known => n \in assigned \ disabled
  BY Startable, NoTryType DEF StartMark
<1>2. /\ try'[Single][n].pc = "prepare"
      /\ \A v \in Starters, m \in Nodes :
           v # Single \/ m # n => try'[v][m] = try[v][m]
  <2>1. \E pc \in {"prepare"} : Goto(Single, n, pc)
    BY DEF StartMark
  <2> QED BY <2>1, Places, NoTryType
<1>3. \A p \in Profiles : prof[p].pc # "map" => try'[p][n].pc = "none"
  BY <1>2, ProfileStarts DEF Stopped, MapperTries
<1>4. /\ UNCHANGED rest
      /\ \A m \in Nodes \ {n} : /\ m \in connecting' => m \in connecting
                                /\ m \in connected' => m \in connected
                                /\ m \in core' => m \in core
                                /\ busy'[m] = busy[m]
  BY DEF StartMark, rest, nodeVars, askVars
<1> QED BY <1>1, <1>2, <1>3, <1>4, StartableStep

\* So is a node that answers.
LEMMA NodeAnswerStopped ==
  ASSUME TypeOK, TypeOK', Stopped, NEW n \in Nodes, NodeAnswer(n)
  PROVE  Stopped'
<1>1. n \in known => n \in assigned \ disabled
  BY Startable, NoTryType DEF NodeAnswer
<1>2. PICK isStarted \in BOOLEAN :
        /\ core' = IF isStarted THEN core \cup {n} ELSE core
        /\ try' = [w \in Starters |-> [try[w] EXCEPT ![n] =
             IF @.pc = "wait" /\ n \in reach
             THEN [@ EXCEPT !.pc = "answered", !.started = isStarted] ELSE @]]
  BY DEF NodeAnswer
<1>3. \A w \in Starters :
        /\ \A m \in Nodes \ {n} : try'[w][m].pc = try[w][m].pc
        /\ try'[w][n].pc = try[w][n].pc
             \/ (try[w][n].pc = "wait" /\ try'[w][n].pc = "answered")
  <2> SUFFICES ASSUME NEW w \in Starters
               PROVE  /\ \A m \in Nodes \ {n} : try'[w][m].pc = try[w][m].pc
                      /\ try'[w][n].pc = try[w][n].pc
                         \/ (try[w][n].pc = "wait" /\ try'[w][n].pc = "answered")
    OBVIOUS
  <2> DEFINE r == [try[w][n] EXCEPT !.pc = "answered", !.started = isStarted]
  <2>1. try[w] \in [Nodes -> Tries]
    BY DEF TypeOK, TryType
  <2>2. r.pc = "answered"
    BY <2>1 DEF Tries
  <2>3. try'[w] = [try[w] EXCEPT ![n] =
                     IF @.pc = "wait" /\ n \in reach THEN r ELSE @]
    BY <1>2
  <2> HIDE DEF r
  <2> QED BY <2>1, <2>2, <2>3
<1>4. n \in known => try'[Single][n].pc # "clear"
  BY <1>1, <1>3, NoTryType DEF Stopped, Kepts, Kept
<1>5. \A p \in Profiles : prof[p].pc # "map" => try'[p][n].pc = "none"
  BY <1>3, ProfileStarts DEF Stopped, MapperTries
<1>6. /\ UNCHANGED rest
      /\ \A m \in Nodes \ {n} : /\ m \in connecting' => m \in connecting
                                /\ m \in connected' => m \in connected
                                /\ m \in core' => m \in core
                                /\ busy'[m] = busy[m]
  BY <1>2 DEF NodeAnswer, rest, rowVars, askVars, TypeOK, NodeType
<1> QED BY <1>1, <1>3, <1>4, <1>5, <1>6, StartableStep

\* A step that leaves the jobs of profiles and their attempts alone.
LEMMA TriesKept ==
  ASSUME Stopped, NEW n \in Nodes,
         \A w \in Starters, m \in Nodes :
           w # Single \/ m # n => try'[w][m] = try[w][m]
  PROVE  /\ \A m \in Nodes \ {n}, w \in Starters : try'[w][m].pc = try[w][m].pc
         /\ \A p \in Profiles : try'[p][n] = try[p][n]
         /\ \A p \in Profiles : prof[p].pc # "map" => try'[p][n].pc = "none"
  BY ProfileStarts DEF Stopped, MapperTries

\* The START_NODE job of a node is there once it was added.
LEMMA AddStartPlaces ==
  ASSUME TypeOK, NEW n \in Nodes, NEW force, AddStart(n, force)
  PROVE  /\ \A w \in Starters, m \in Nodes :
              w # Single \/ m # n => try'[w][m] = try[w][m]
         /\ try'[Single][n].pc =
              IF try[Single][n].pc = "none" THEN "waiting"
                                            ELSE try[Single][n].pc
  BY NoTryType DEF AddStart, TypeOK, TryType, NoTry

\* The START_NODE job of a node is added, unless the node is disabled and has
\* inbounds.
LEMMA AddStartStopped ==
  ASSUME TypeOK, TypeOK', Stopped, NEW n \in Nodes, NEW force, AddStart(n, force),
         n \in assigned => n \notin disabled,
         UNCHANGED <<rest, connecting, connected, core, busy>>
  PROVE  Stopped'
<1>1. /\ \A w \in Starters, m \in Nodes :
           w # Single \/ m # n => try'[w][m] = try[w][m]
      /\ try'[Single][n].pc =
           IF try[Single][n].pc = "none" THEN "waiting" ELSE try[Single][n].pc
  BY AddStartPlaces
<1>2. OnlyAbout(n)
  BY <1>1, TriesKept DEF OnlyAbout, rest
<1>3. n \in known' \ assigned' => Bare(n)'
  BY <1>1, TriesKept DEF rest, Stopped, Bares, Bare, Due
<1>4. n \in known' \cap assigned' => Kept(n)'
  BY <1>1, TriesKept DEF rest, Stopped, Kepts, Kept
<1>5. n \in disabled' => Off(n)'
  BY <1>1 DEF rest, Stopped, Offs, Off, Owes
<1>6. n \in known' /\ Stopping(n)' => n \in disabled'
  BY DEF rest, Stopped, Stops, Stopping
<1> QED BY <1>2, <1>3, <1>4, <1>5, <1>6, NodeStep

\* The START_NODE job goes for a start only if the row has inbounds.
LEMMA StartReadStopped ==
  ASSUME TypeOK, TypeOK', Stopped, NEW n \in Nodes, StartRead(n)
  PROVE  Stopped'
<1>1. /\ UNCHANGED <<rest, connecting, connected, core, busy>>
      /\ try[Single][n].pc = "waiting"
  BY DEF StartRead, rest, rowVars, nodeVars, askVars
<1>2. /\ \A w \in Starters, m \in Nodes :
           w # Single \/ m # n => try'[w][m] = try[w][m]
      /\ IF n \notin known \/ n \in connecting
         THEN try'[Single][n].pc = "none"
         ELSE try'[Single][n].pc = IF Configured(n) THEN "mark" ELSE "clear"
  <2>1. CASE n \notin known \/ n \in connecting
    BY <2>1, Places, NoTryType DEF StartRead
  <2>2. CASE n \in known \ connecting
    <3> DEFINE x == IF Configured(n) THEN "mark" ELSE "clear"
               g == <<profile[n], version[n], 0>>
               q == [try[Single][n] EXCEPT !.pc = x]
               r == [q EXCEPT !.gives = g]
    <3>1. try[Single][n] \in Tries
      BY NoTryType DEF TypeOK, TryType
    <3>2. r.pc = x
      BY <3>1 DEF Tries
    <3>3. try' = [try EXCEPT ![Single][n].pc = x, ![Single][n].gives = g]
      BY <2>2 DEF StartRead
    <3> HIDE DEF x, g
    <3>4. try' = [try EXCEPT ![Single][n] = r]
      BY <3>3, NoTryType DEF TypeOK, TryType
    <3> HIDE DEF r
    <3>5. /\ try'[Single][n].pc = x
          /\ \A w \in Starters, m \in Nodes :
               w # Single \/ m # n => try'[w][m] = try[w][m]
      BY <3>2, <3>4, NoTryType DEF TypeOK, TryType
    <3> QED BY <2>2, <3>5 DEF x
  <2> QED BY <2>1, <2>2
<1>3. n \in known \cap assigned => Configured(n) /\ n \notin disabled
  BY <1>1, NoTryType DEF Configured, Stopped, Kepts, Kept
<1>4. OnlyAbout(n)
  BY <1>1, <1>2, TriesKept DEF OnlyAbout, rest
<1>5. n \in known' \ assigned' => Bare(n)'
  BY <1>1, <1>2, TriesKept DEF rest, Stopped, Bares, Bare, Due, Configured
<1>6. n \in known' \cap assigned' => Kept(n)'
  BY <1>1, <1>2, <1>3, TriesKept DEF rest, Stopped, Kepts, Kept
<1>7. n \in disabled' => Off(n)'
  <2> SUFFICES ASSUME n \in disabled
               PROVE  Off(n)'
    BY <1>1 DEF rest
  <2>1. n \in known /\ n \notin assigned /\ n \notin connecting
    BY <1>3 DEF TypeOK, RowType, Stopped, Offs, Off, Owes
  <2> QED BY <1>1, <1>2, <2>1 DEF rest, Stopped, Offs, Off, Owes, Configured
<1>8. n \in known' /\ Stopping(n)' => n \in disabled'
  BY <1>1 DEF rest, Stopped, Stops, Stopping
<1> QED BY <1>4, <1>5, <1>6, <1>7, <1>8, NodeStep

\* A node without inbounds is disabled, and its STOP_NODE job is owed, or is
\* there, or is done with stopping the node.
LEMMA ClearStopped ==
  ASSUME TypeOK, TypeOK', Stopped, NEW w, NEW n \in Nodes, Clear(w, n),
         n \notin assigned, w = Single => try[Single][n].pc # "none",
         UNCHANGED <<known, assigned, try, stop, check, reach, core, busy,
                     edit>>,
         \A p \in Profiles :
           /\ prof'[p].pc = prof[p].pc /\ prof'[p].nodes = prof[p].nodes
           /\ prof'[p].some = prof[p].some
           /\ prof'[p].todo \subseteq prof[p].todo
           /\ prof[p].todo \ {n} \subseteq prof'[p].todo
  PROVE  Stopped'
<1>1. /\ disabled' = disabled \cup ({n} \cap known)
      /\ profile' = [profile EXCEPT ![n] = None]
      /\ connecting' = connecting \ {n} /\ connected' = connected \ {n}
      /\ halting' = [halting EXCEPT ![n] = @ \cup {w}]
  BY DEF Clear
<1>2. OnlyAbout(n)
  BY <1>1 DEF OnlyAbout, TypeOK, RowType, QueueType, Stopped, MapperTries
<1>3. n \in known' \ assigned' => Bare(n)'
  BY <1>1 DEF Stopped, Bares, Bare
<1>4. n \in disabled' => Off(n)'
  <2>1. stop[n] # "none" /\ n \in known /\ n \in core => stop[n] = "waiting"
    BY DEF Stopped, Stops, Stopping, Offs, Off
  <2>2. Owes(n)'
    BY <1>1 DEF TypeOK, QueueType, Owes
  <2> QED BY <1>1, <2>1, <2>2 DEF Off, TypeOK, RowType
<1>5. n \in known' => n \in disabled'
  BY <1>1
<1> QED BY <1>2, <1>3, <1>4, <1>5, NodeStep

\* By the START_NODE job, too.
LEMMA StartClearStopped ==
  ASSUME TypeOK, TypeOK', Stopped, NEW n \in Nodes, StartClear(n)
  PROVE  Stopped'
<1>1. n \notin assigned
  BY DEF StartClear, Stopped, Kepts, Kept, TypeOK, RowType
<1> QED BY <1>1, ClearStopped DEF StartClear, nodeVars, askVars

\* Who owes a STOP_NODE job enqueues it.
LEMMA HaltStopped ==
  ASSUME TypeOK, TypeOK', Stopped, NEW w, NEW n \in Nodes, Halt(w, n),
         UNCHANGED <<known, disabled, connecting, connected, profile, assigned,
                     prof, check, reach, core, busy, edit>>,
         \A v \in Starters, m \in Nodes :
           v # Single \/ m # n => try'[v][m] = try[v][m],
         try'[Single][n].pc \in {"none", try[Single][n].pc}
  PROVE  Stopped'
<1>1. /\ w \in halting[n]
      /\ halting' = [halting EXCEPT ![n] = @ \ {w}]
      /\ stop' = [stop EXCEPT ![n] = IF @ = "none" THEN "waiting" ELSE @]
  BY DEF Halt, AddStop
<1>2. /\ \A m \in Nodes \ {n} : stop'[m] = stop[m] /\ halting'[m] = halting[m]
      /\ stop'[n] = IF stop[n] = "none" THEN "waiting" ELSE stop[n]
  BY <1>1 DEF TypeOK, QueueType
<1>3. OnlyAbout(n)
  BY <1>2, TriesKept DEF OnlyAbout
<1>4. n \in known' \ assigned' => Bare(n)'
  BY TriesKept DEF Stopped, Bares, Bare, Due
<1>5. n \in known' \cap assigned' => Kept(n)'
  BY TriesKept DEF Stopped, Kepts, Kept
<1>6. n \in disabled' => Off(n)'
  BY <1>2 DEF Stopped, Offs, Off, Owes
<1>7. n \in known' => n \in disabled'
  BY <1>1 DEF Stopped, Stops, Stopping
<1> QED BY <1>3, <1>4, <1>5, <1>6, <1>7, NodeStep

\* It is the START_NODE job, the job of a profile, or a request.
LEMMA StartStopStopped ==
  ASSUME TypeOK, TypeOK', Stopped, NEW n \in Nodes, StartStop(n)
  PROVE  Stopped'
<1>1. /\ try'[Single][n].pc = "none"
      /\ \A v \in Starters, m \in Nodes :
           v # Single \/ m # n => try'[v][m] = try[v][m]
  BY Places, NoTryType DEF StartStop
<1> QED BY <1>1, HaltStopped DEF StartStop, rowVars, nodeVars, askVars

LEMMA OthersStopStopped ==
  ASSUME TypeOK, TypeOK', Stopped,
         \/ \E p \in Profiles : ProfileStop(p)
         \/ \E n \in Nodes : DisableStop(n)
  PROVE  Stopped'
<1>1. UNCHANGED <<known, disabled, connecting, connected, profile, assigned,
                  try, prof, check, reach, core, busy, edit>>
  BY DEF ProfileStop, DisableStop, rowVars, nodeVars, askVars
<1>2. \E w \in Halters : \E n \in Nodes : Halt(w, n)
  BY DEF Halters, Starters, ProfileStop, DisableStop
<1> QED BY <1>1, <1>2, HaltStopped

\* And the job of a profile, which marks the others.
LEMMA ProfileMarkStopped ==
  ASSUME TypeOK, TypeOK', Stopped, NEW p \in Profiles, ProfileMark(p)
  PROVE  Stopped'
<1>1. PICK n \in prof[p].todo :
        /\ prof[p].pc = "mark"
        /\ IF n \notin prof[p].some THEN Clear(p, n)
           ELSE /\ connecting' = connecting \cup ({n} \cap known)
                /\ UNCHANGED <<disabled, profile, connected, halting, owed>>
        /\ prof' = [prof EXCEPT ![p].todo = @ \ {n}]
  BY DEF ProfileMark
<1>2. n \in Nodes
  BY DEF TypeOK, ProfType, Profs
<1>3. \A q \in Profiles :
        /\ prof'[q].pc = prof[q].pc /\ prof'[q].nodes = prof[q].nodes
        /\ prof'[q].some = prof[q].some /\ prof'[q].todo \subseteq prof[q].todo
        /\ prof[q].todo \ {n} \subseteq prof'[q].todo
  BY <1>1 DEF TypeOK, ProfType, Profs
<1>4. UNCHANGED <<known, assigned, stop, check, reach, core, busy, edit, try>>
  BY DEF ProfileMark, nodeVars, askVars
<1>5. CASE n \notin prof[p].some
  <2>1. n \notin assigned /\ Clear(p, n) /\ p # Single
    BY <1>1, <1>5, ProfileStarts DEF Stopped, ProfSound
  <2> QED BY <1>2, <1>3, <1>4, <2>1, ClearStopped
<1>6. CASE n \in prof[p].some
  <2>1. /\ connecting' = connecting \cup ({n} \cap known)
        /\ UNCHANGED <<disabled, profile, connected, halting>>
    BY <1>1, <1>6
  <2>2. n \in known => n \in assigned
    BY <1>6 DEF Stopped, ProfSound
  <2>3. n \notin disabled
    BY <1>1, <2>2 DEF Stopped, ProfSound, Kepts, Kept, TypeOK, RowType
  <2>4. OnlyAbout(n)
    BY <1>2, <1>3, <1>4, <2>1 DEF OnlyAbout, Stopped, MapperTries
  <2>5. n \in known' \cap assigned' => Kept(n)'
    BY <1>3, <1>4, <2>1 DEF Stopped, Kepts, Kept
  <2>6. n \in known' => ~Stopping(n)'
    BY <1>4, <2>1, <2>3 DEF Stopped, Stops, Stopping
  <2> QED BY <1>2, <1>4, <2>1, <2>2, <2>3, <2>4, <2>5, <2>6, NodeStep
<1> QED BY <1>5, <1>6

\* What no attempt and no job of a profile is part of.
LEMMA QuietlyAbout ==
  ASSUME TypeOK, Stopped, NEW n \in Nodes, UNCHANGED <<try, prof, reach, edit>>,
         known' \subseteq known, assigned' \subseteq assigned,
         known' \cap assigned \subseteq assigned',
         \A m \in Nodes \ {n} :
           /\ (m \in known' <=> m \in known)
           /\ (m \in assigned' <=> m \in assigned)
           /\ (m \in disabled' <=> m \in disabled) /\ profile'[m] = profile[m]
           /\ stop'[m] = stop[m] /\ halting'[m] = halting[m]
           /\ busy'[m] = busy[m]
           /\ m \in connecting' => m \in connecting
           /\ m \in connected' => m \in connected
           /\ m \in core' => m \in core
           /\ check[m].pc = "none" => check'[m].pc = "none"
  PROVE  OnlyAbout(n)
  BY DEF OnlyAbout, Stopped, MapperTries

\* The node is told to stop: it is within reach.
LEMMA StopRequestStopped ==
  ASSUME TypeOK, TypeOK', Stopped, NEW n \in Nodes, StopRequest(n)
  PROVE  Stopped'
<1>1. UNCHANGED <<known, disabled, connecting, connected, profile, assigned,
                  try, halting, prof, check, reach, edit>>
  BY DEF StopRequest, rowVars, askVars
<1>2. n \in known => n \notin core' /\ n \in disabled
  BY DEF StopRequest, Stopped, Rests, Stops, Stopping
<1>3. busy'[n] = "no" <=> busy[n] = "no"
  BY DEF StopRequest, TypeOK, NodeType
<1>4. OnlyAbout(n)
  <2>1. \A m \in Nodes \ {n} : /\ stop'[m] = stop[m] /\ busy'[m] = busy[m]
                               /\ m \in core' => m \in core
    BY DEF StopRequest, TypeOK, QueueType, NodeType
  <2> QED BY <1>1, <2>1, QuietlyAbout
<1>5. n \in known' \ assigned' => Bare(n)'
  BY <1>1, <1>3 DEF Stopped, Bares, Bare, Due
<1>6. n \in known' \cap assigned' => Kept(n)'
  BY <1>1, <1>3 DEF Stopped, Kepts, Kept
<1>7. n \in disabled' => Off(n)'
  <2> SUFFICES ASSUME n \in disabled
               PROVE  Off(n)'
    BY <1>1
  <2>1. n \in known
    BY DEF TypeOK, RowType
  <2>2. stop'[n] = "update"
    BY <2>1 DEF StopRequest, TypeOK, QueueType
  <2> QED BY <1>1, <1>2, <2>1, <2>2 DEF Stopped, Offs, Off, Owes
<1> QED BY <1>1, <1>2, <1>4, <1>5, <1>6, <1>7, NodeStep

\* The row of a node that was told to stop is written.
LEMMA StopUpdateStopped ==
  ASSUME TypeOK, TypeOK', Stopped, NEW n \in Nodes, StopUpdate(n)
  PROVE  Stopped'
<1>1. /\ UNCHANGED <<known, profile, assigned, try, halting, prof, check,
                     reach, core, busy, edit>>
      /\ connected' = connected \ {n} /\ connecting' = connecting \ {n}
      /\ disabled' = disabled \cup ({n} \cap known)
      /\ stop[n] = "update" /\ stop' = [stop EXCEPT ![n] = "none"]
  BY DEF StopUpdate, nodeVars, askVars
<1>2. disabled' = disabled
  BY <1>1 DEF Stopped, Stops, Stopping
<1>3. stop'[n] = "none" /\ \A m \in Nodes \ {n} : stop'[m] = stop[m]
  BY <1>1 DEF TypeOK, QueueType
<1>4. OnlyAbout(n)
  BY <1>1, <1>2, <1>3, QuietlyAbout
<1>5. n \in known' \ assigned' => Bare(n)'
  BY <1>1, <1>2 DEF Stopped, Bares, Bare, Due
<1>6. n \in known' \cap assigned' => Kept(n)'
  BY <1>1, <1>2 DEF Stopped, Kepts, Kept
<1>7. n \in disabled' => Off(n)'
  BY <1>1, <1>2 DEF Stopped, Offs, Off, Owes
<1> QED BY <1>1, <1>3, <1>4, <1>5, <1>6, <1>7, NodeStep

\* A row is deleted.
LEMMA DeleteRowStopped ==
  ASSUME TypeOK, TypeOK', Stopped, NEW n \in Nodes, DeleteRow(n)
  PROVE  Stopped'
<1>1. /\ known' = known \ {n} /\ disabled' = disabled \ {n}
      /\ connecting' = connecting \ {n} /\ connected' = connected \ {n}
      /\ assigned' = assigned \ {n} /\ profile' = [profile EXCEPT ![n] = None]
      /\ UNCHANGED <<try, stop, halting, prof, check, reach, core, busy, edit>>
  BY DEF DeleteRow, nodeVars, askVars
<1>2. \A m \in Nodes \ {n} : profile'[m] = profile[m]
  BY <1>1 DEF TypeOK, RowType
<1>3. OnlyAbout(n)
  BY <1>1, <1>2, QuietlyAbout
<1> QED BY <1>1, <1>3, NodeStep

\* A node is asked for its statistics.
LEMMA CheckStatsStopped ==
  ASSUME TypeOK, TypeOK', Stopped, NEW n \in Nodes, CheckStats(n)
  PROVE  Stopped'
<1>1. /\ UNCHANGED <<known, disabled, connecting, connected, profile, assigned,
                     try, stop, halting, prof, reach, core, busy, edit>>
      /\ check[n].pc = "waiting"
      /\ \A m \in Nodes \ {n} : check'[m] = check[m]
  BY DEF CheckStats, rowVars, nodeVars, askVars, TypeOK, QueueType
<1>2. OnlyAbout(n)
  BY <1>1, QuietlyAbout
<1>3. n \in known' \ assigned' => Bare(n)'
  BY <1>1 DEF Stopped, Bares, Bare, Due
<1>4. n \in known' \cap assigned' => Kept(n)'
  BY <1>1 DEF Stopped, Kepts, Kept
<1>5. n \in disabled' => Off(n)'
  BY <1>1 DEF Stopped, Offs, Off, Owes
<1> QED BY <1>1, <1>2, <1>3, <1>4, <1>5, NodeStep DEF Stopped, Stops, Stopping

\* What a node that nothing is going on with is not part of.
LEMMA QuietNode ==
  ASSUME TypeOK, Stopped, NEW n \in Nodes, Quiet(n)
  PROVE  /\ \A w \in Starters : try[w][n].pc = "none"
         /\ (\A p \in Profiles : prof[p].nodes = {}) /\ ~Due(n)
         /\ stop[n] = "none" /\ halting[n] = {}
         /\ check[n].pc = "none" /\ busy[n] = "no"
<1>1. \A p \in Profiles : prof[p].pc = "none"
  BY DEF Quiet
<1>2. \A p \in Profiles : try[p][n].pc = "none"
  BY <1>1 DEF Stopped, MapperTries
<1>3. \A w \in Starters : try[w][n].pc = "none"
  BY <1>2 DEF Quiet, Starters
<1>4. \A p \in Profiles : prof[p].nodes = {}
  BY <1>1 DEF Stopped, ProfSound
<1>5. ~Due(n)
  BY <1>1 DEF Due
<1> QED BY <1>3, <1>4, <1>5 DEF Quiet

\* A node that answers again counts as connected while its START_NODE job waits.
LEMMA CheckUpdateStopped ==
  ASSUME TypeOK, TypeOK', Stopped, NEW n \in Nodes, CheckUpdate(n)
  PROVE  Stopped'
<1>1. /\ check[n].pc \in {"up", "lost"}
      /\ UNCHANGED <<known, disabled, connecting, profile, assigned, stop,
                     halting, prof, reach, core, busy, edit>>
      /\ \A m \in Nodes \ {n} : check'[m] = check[m]
      /\ connected' = IF check[n].pc = "lost" THEN connected \ {n}
                      ELSE IF check[n].was THEN connected
                      ELSE connected \cup ({n} \cap known)
  BY DEF CheckUpdate, nodeVars, askVars, TypeOK, QueueType
<1>2. /\ \A w \in Starters, m \in Nodes :
           w # Single \/ m # n => try'[w][m] = try[w][m]
      /\ try'[Single][n].pc \in {"waiting", try[Single][n].pc}
      /\ try[Single][n].pc # "none" => try'[Single][n].pc = try[Single][n].pc
      /\ ~(check[n].pc = "up" /\ check[n].was) /\ n \in known
           => try'[Single][n].pc # "none"
  <2>1. CASE (check[n].pc = "up" /\ check[n].was) \/ n \notin known
    <3>1. try' = try
      BY <2>1 DEF CheckUpdate
    <3> QED BY <2>1, <3>1
  <2>2. CASE ~((check[n].pc = "up" /\ check[n].was) \/ n \notin known)
    <3>1. AddStart(n, FALSE)
      BY <2>2 DEF CheckUpdate
    <3> QED BY <3>1, AddStartPlaces
  <2> QED BY <2>1, <2>2
<1>3. n \in assigned => n \notin disabled
  BY <1>1 DEF Stopped, Kepts, Kept, TypeOK, RowType
<1>4. OnlyAbout(n)
  BY <1>1, <1>2, TriesKept DEF OnlyAbout
<1>5. n \in known' \ assigned' => Bare(n)'
  BY <1>1, <1>2, TriesKept DEF Stopped, Bares, Bare, Due
<1>6. n \in known' \cap assigned' => Kept(n)'
  BY <1>1, <1>2, <1>3 DEF Stopped, Kepts, Kept
<1>7. n \in disabled' => Off(n)'
  <2> SUFFICES ASSUME n \in disabled
               PROVE  Off(n)'
    BY <1>1
  <2>1. n \in known /\ n \notin assigned
    BY <1>3 DEF TypeOK, RowType
  <2>2. n \in connected' =>
          stop'[n] # "none" \/ try'[Single][n].pc # "none"
    <3>1. n \in connected =>
            stop[n] # "none" \/ try[Single][n].pc # "none"
      BY DEF Stopped, Offs, Off, Owes
    <3> QED BY <1>1, <1>2, <2>1, <3>1
  <2>3. Owes(n) => Owes(n)'
    BY <1>1, <1>2 DEF Owes
  <2> QED BY <1>1, <2>1, <2>2, <2>3 DEF Stopped, Offs, Off
<1> QED BY <1>1, <1>4, <1>5, <1>6, <1>7, NodeStep DEF Stopped, Stops, Stopping

\* A node is enabled, or found to have no inbounds.
LEMMA EnableNodeStopped ==
  ASSUME TypeOK, TypeOK', Stopped, NEW n \in Nodes, EnableNode(n), Settled
  PROVE  Stopped'
<1>1. Quiet(n) /\ n \in known
  BY AskQuiet DEF EnableNode
<1>2. UNCHANGED <<known, assigned, stop, halting, prof, check, reach, core,
                  busy, edit>>
  BY DEF EnableNode, nodeVars
<1>3. CASE Configured(n)
  <2>1. /\ disabled' = disabled \ {n}
        /\ UNCHANGED <<profile, connecting, connected>>
    BY <1>3 DEF EnableNode
  <2>2. /\ \A w \in Starters, m \in Nodes :
             w # Single \/ m # n => try'[w][m] = try[w][m]
        /\ try'[Single][n].pc = "waiting"
    BY <1>1, <1>3, AddStartPlaces DEF EnableNode, Quiet
  <2>3. OnlyAbout(n)
    BY <1>2, <2>1, <2>2, TriesKept DEF OnlyAbout
  <2>4. Kept(n)'
    BY <1>2, <1>3, <2>1, <2>2 DEF Kept, Configured
  <2> QED BY <1>1, <1>2, <1>3, <2>1, <2>3, <2>4, NodeStep, QuietNode
          DEF Configured, Stopping
<1>4. CASE ~Configured(n)
  <2>1. /\ disabled' = disabled \cup {n}
        /\ profile' = [profile EXCEPT ![n] = None]
        /\ connecting' = connecting \ {n} /\ connected' = connected \ {n}
        /\ UNCHANGED try
    BY <1>4 DEF EnableNode
  <2>2. n \notin assigned
    BY <1>1, <1>4 DEF Configured, Stopped, Kepts, Kept
  <2>3. n \in disabled /\ n \notin core
    <3>1. n \in disabled
      BY <1>1, <2>2, QuietNode DEF Stopped, Bares, Bare, TypeOK, AskType
    <3>2. ~Owes(n) /\ stop[n] = "none"
      BY <1>1, QuietNode, NoTryType DEF Owes
    <3> QED BY <3>1, <3>2 DEF Stopped, Offs, Off
  <2>4. OnlyAbout(n)
    <3>1. \A m \in Nodes \ {n} : profile'[m] = profile[m]
      BY <2>1 DEF TypeOK, RowType
    <3> QED BY <1>2, <2>1, <3>1, QuietlyAbout
  <2>5. Bare(n)'
    BY <1>1, <1>2, <2>1, <2>2 DEF Stopped, Bares, Bare
  <2>6. Off(n)'
    BY <1>2, <2>1, <2>3 DEF Off, Owes
  <2> QED BY <1>2, <2>1, <2>2, <2>4, <2>5, <2>6, NodeStep
<1> QED BY <1>3, <1>4

\* A node is disabled, and its STOP_NODE job owed.
LEMMA DisableNodeStopped ==
  ASSUME TypeOK, TypeOK', Stopped, NEW n \in Nodes, DisableNode(n), Settled
  PROVE  Stopped'
<1>1. Quiet(n) /\ n \in known
  BY AskQuiet DEF DisableNode
<1>2. /\ UNCHANGED <<known, assigned, try, stop, prof, check, reach, core, busy,
                     edit>>
      /\ profile' = [profile EXCEPT ![n] = IF Configured(n) THEN @ ELSE None]
      /\ disabled' = disabled \cup {n}
      /\ connecting' = connecting \ {n} /\ connected' = connected \ {n}
  BY DEF DisableNode, nodeVars
<1>3. /\ stop[n] = "none" /\ Api \in halting'[n]
      /\ \A m \in Nodes \ {n} : halting'[m] = halting[m]
  BY <1>1, QuietNode DEF DisableNode, TypeOK, QueueType
<1>4. /\ \A m \in Nodes \ {n} : profile'[m] = profile[m]
      /\ n \in assigned => profile'[n] = profile[n]
  BY <1>1, <1>2 DEF TypeOK, RowType, Stopped, Kepts, Kept, Configured
<1>5. OnlyAbout(n)
  BY <1>2, <1>3, <1>4, QuietlyAbout
<1>6. n \in known' \ assigned' => Bare(n)'
  BY <1>2 DEF Stopped, Bares, Bare
<1>7. n \in known' \cap assigned' => Kept(n)'
  BY <1>1, <1>2, <1>4, QuietNode DEF Stopped, Kepts, Kept
<1>8. Off(n)'
  BY <1>2, <1>3 DEF Off, Owes, Api, Single
<1> QED BY <1>2, <1>5, <1>6, <1>7, <1>8, NodeStep

\* A job of a profile that waits has no nodes yet.
LEMMA NoProfNodes ==
  \A pc, force :
    LET r == [NoProf EXCEPT !.pc = pc, !.force = force]
    IN  r.pc = pc /\ r.nodes = {} /\ r.some = {} /\ r.todo = {}
  BY DEF NoProf

\* The job of a profile is there once it was added.
LEMMA AddProfileJobs ==
  ASSUME TypeOK, NEW p \in Profiles, NEW force, NEW S, AddProfile(p, force, S)
  PROVE  /\ \A q \in Profiles \ {p} : prof'[q] = prof[q]
         /\ prof[p].pc # "none" => prof'[p] = prof[p]
         /\ prof[p].pc = "none" =>
              /\ prof'[p].pc = "waiting" /\ prof'[p].nodes = {}
              /\ prof'[p].some = {} /\ prof'[p].todo = {}
<1> DEFINE r == [NoProf EXCEPT !.pc = "waiting", !.force = force]
<1>1. r.pc = "waiting" /\ r.nodes = {} /\ r.some = {} /\ r.todo = {}
  BY NoProfNodes
<1>2. prof' = IF prof[p].pc = "none" THEN [prof EXCEPT ![p] = r] ELSE prof
  BY DEF AddProfile
<1> HIDE DEF r
<1> QED BY <1>1, <1>2 DEF TypeOK, ProfType

\* So it takes no nodes at once.
LEMMA AddProfileStopped ==
  ASSUME TypeOK, TypeOK', Stopped, NEW p \in Profiles, NEW force, NEW S,
         AddProfile(p, force, S),
         UNCHANGED <<known, disabled, connecting, connected, profile, assigned,
                     try, stop, halting, check, reach, core, busy, edit>>
  PROVE  Stopped'
<1>1. \A q \in Profiles :
        \/ prof'[q] = prof[q]
        \/ /\ prof[q].pc = "none" /\ prof'[q].pc = "waiting"
           /\ prof'[q].nodes = {} /\ prof'[q].some = {} /\ prof'[q].todo = {}
  BY AddProfileJobs
<1>2. ProfSound'
  BY <1>1 DEF Stopped, ProfSound
<1>3. MapperTries'
  BY <1>1 DEF Stopped, MapperTries
<1>4. \A n \in Nodes : Due(n) => Due(n)'
  BY <1>1 DEF Due
<1>5. Bares'
  BY <1>4 DEF Stopped, Bares, Bare, TypeOK, RowType
<1>6. Kepts'
  BY <1>1 DEF Stopped, Kepts, Kept
<1>7. Offs' /\ Stops' /\ Rests'
  BY DEF Stopped, Offs, Off, Owes, Stops, Stopping, Rests
<1> QED BY <1>2, <1>3, <1>5, <1>6, <1>7 DEF Stopped

\* A core that dies, and nodes that somebody looks at.
LEMMA SmallStopped ==
  ASSUME TypeOK, Stopped, core' \subseteq core,
         UNCHANGED <<rest, try, connecting, connected, busy>>
  PROVE  Stopped'
<1>1. \A n \in Nodes : Due(n) => Due(n)'
  BY DEF Due, rest
<1>2. ProfSound' /\ MapperTries'
  BY DEF Stopped, ProfSound, MapperTries, rest
<1>3. Bares'
  BY <1>1 DEF Stopped, Bares, Bare, TypeOK, RowType, rest
<1>4. Kepts' /\ Offs' /\ Stops' /\ Rests'
  BY DEF Stopped, Kepts, Kept, Offs, Off, Owes, Stops, Stopping, Rests, rest
<1> QED BY <1>2, <1>3, <1>4 DEF Stopped

\* The cron task checks nodes that are not disabled.
LEMMA TickStopped ==
  ASSUME TypeOK, Stopped, Tick
  PROVE  Stopped'
<1>1. UNCHANGED <<known, disabled, connecting, connected, profile, assigned,
                  try, stop, halting, prof, reach, core, busy, edit>>
  BY DEF Tick, rowVars, nodeVars, askVars
<1>2. \A n \in disabled : check'[n] = check[n]
  BY DEF Tick, TypeOK, RowType
<1>3. \A n \in Nodes : Due(n) => Due(n)'
  BY <1>1 DEF Due
<1>4. ProfSound' /\ MapperTries'
  BY <1>1 DEF Stopped, ProfSound, MapperTries
<1>5. Bares'
  BY <1>1, <1>3 DEF Stopped, Bares, Bare, TypeOK, RowType
<1>6. Kepts' /\ Offs' /\ Stops' /\ Rests'
  BY <1>1, <1>2 DEF Stopped, Kepts, Kept, Offs, Off, Owes, Stops, Stopping,
     Rests
<1> QED BY <1>4, <1>5, <1>6 DEF Stopped

\* The job of a profile takes the nodes that are not disabled.
LEMMA ProfileBeginStopped ==
  ASSUME TypeOK, Stopped, NEW p \in Profiles, ProfileBegin(p)
  PROVE  Stopped'
<1> DEFINE S == {n \in known \ disabled : profile[n] = p}
           r == [prof[p] EXCEPT !.pc = "mark", !.nodes = S, !.todo = S,
                                !.some = S \cap assigned, !.row = version]
<1>1. UNCHANGED <<known, disabled, connecting, connected, profile, assigned,
                  try, stop, halting, check, reach, core, busy, edit>>
  BY DEF ProfileBegin, rowVars, nodeVars, askVars
<1>2. prof' = [prof EXCEPT ![p] = r]
  BY DEF TypeOK, ProfType, ProfileBegin
<1>3. r.pc = "mark" /\ r.nodes = S /\ r.todo = S /\ r.some = S \cap assigned
  <2>1. prof[p] \in Profs
    BY DEF TypeOK, ProfType
  <2> HIDE DEF S
  <2> QED BY <2>1 DEF Profs
<1>4. \A n : n \in S <=> n \in known \ disabled /\ profile[n] = p
  OBVIOUS
<1> HIDE DEF r, S
<1>5. /\ prof'[p].pc = "mark" /\ prof'[p].nodes = S /\ prof'[p].todo = S
      /\ prof'[p].some = S \cap assigned
      /\ \A q \in Profiles \ {p} : prof'[q] = prof[q]
      /\ prof[p].pc = "waiting"
  BY <1>2, <1>3 DEF TypeOK, ProfType, ProfileBegin
<1>6. ProfSound'
  BY <1>1, <1>5 DEF Stopped, ProfSound
<1>7. MapperTries'
  BY <1>1, <1>5 DEF Stopped, MapperTries
<1>8. Bares'
  <2> SUFFICES ASSUME NEW n \in known \ assigned
               PROVE  Bare(n)'
    BY <1>1 DEF Bares
  <2>1. n \notin disabled => Due(n)'
    <3> SUFFICES ASSUME n \notin disabled
                 PROVE  Due(n)'
      OBVIOUS
    <3>1. PICK q \in Profiles :
            /\ profile[n] = q
            /\ prof[q].pc = "waiting" \/ (prof[q].pc = "mark" /\ n \in prof[q].todo)
      BY DEF Stopped, Bares, Bare, Due
    <3>2. CASE q = p
      BY <1>1, <1>4, <1>5, <3>1, <3>2 DEF Due
    <3>3. CASE q # p
      BY <1>1, <1>5, <3>1, <3>3 DEF Due
    <3> QED BY <3>2, <3>3
  <2> QED BY <1>1, <2>1 DEF Stopped, Bares, Bare
<1>9. Kepts'
  <2> SUFFICES ASSUME NEW n \in known \cap assigned
               PROVE  Kept(n)'
    BY <1>1 DEF Kepts
  <2>1. n \in disabled => \A q \in Profiles : n \notin prof'[q].nodes
    BY <1>4, <1>5 DEF Stopped, Kepts, Kept
  <2> QED BY <1>1, <2>1 DEF Stopped, Kepts, Kept
<1>10. Offs' /\ Stops' /\ Rests'
  BY <1>1 DEF Stopped, Offs, Off, Owes, Stops, Stopping, Rests
<1> QED BY <1>6, <1>7, <1>8, <1>9, <1>10 DEF Stopped

\* It ends.
LEMMA FinallyStopped ==
  ASSUME TypeOK, Stopped, NEW p \in Profiles, ProfileFinally(p),
         \A n \in Nodes : try[p][n].pc = "none",
         prof[p].pc = "map" \/ (prof[p].pc = "mark" /\ prof[p].todo = {}),
         UNCHANGED <<known, disabled, connecting, connected, profile, assigned,
                     try, stop, halting, check, reach, core, busy, edit>>
  PROVE  Stopped'
<1>1. /\ prof'[p].pc = "none" /\ prof'[p].nodes = {} /\ prof'[p].some = {}
      /\ prof'[p].todo = {} /\ \A q \in Profiles \ {p} : prof'[q] = prof[q]
  BY DEF ProfileFinally, NoProf, TypeOK, ProfType
<1>2. ProfSound'
  BY <1>1 DEF Stopped, ProfSound
<1>3. MapperTries'
  BY <1>1 DEF Stopped, MapperTries
<1>4. \A n \in Nodes : Due(n) => Due(n)'
  BY <1>1 DEF Due
<1>5. Bares'
  BY <1>4 DEF Stopped, Bares, Bare, TypeOK, RowType
<1>6. Kepts'
  BY <1>1 DEF Stopped, Kepts, Kept
<1>7. Offs' /\ Stops' /\ Rests'
  BY DEF Stopped, Offs, Off, Owes, Stops, Stopping, Rests
<1> QED BY <1>2, <1>3, <1>5, <1>6, <1>7 DEF Stopped

\* It starts the nodes it has selected, if all of them have inbounds.
LEMMA ProfileGatherStopped ==
  ASSUME TypeOK, Stopped, AllOrNone, NEW p \in Profiles, ProfileGather(p)
  PROVE  Stopped'
<1>1. /\ UNCHANGED <<known, disabled, connecting, connected, profile, assigned,
                     stop, halting, check, reach, core, busy, edit>>
      /\ prof[p].pc = "mark" /\ prof[p].todo = {}
      /\ \A n \in Nodes : try[p][n].pc = "none"
  BY DEF ProfileGather, rowVars, nodeVars, askVars, Stopped, MapperTries
<1>2. CASE ProfileFinally(p) /\ UNCHANGED try
  BY <1>1, <1>2, FinallyStopped
<1>3. CASE prof[p].some # {} /\ prof' = [prof EXCEPT ![p].pc = "map"]
  <2> DEFINE t(n) == [NoTry EXCEPT !.pc = "prepare", !.force = prof[p].force,
                        !.gives = <<p, prof[p].row[n], content[p]>>]
  <2>1. NoTry.pc = "none"
    BY DEF NoTry
  <2>2. try' = [try EXCEPT ![p] =
                  [n \in Nodes |-> IF n \in prof[p].nodes THEN t(n) ELSE NoTry]]
    BY <1>3 DEF ProfileGather, ProfileFinally, TypeOK, ProfType, Profs, NoProf
  <2> HIDE DEF t
  <2>3. /\ \A v \in Starters \ {p} : try'[v] = try[v]
        /\ \A n \in Nodes : n \notin prof[p].nodes => try'[p][n].pc = "none"
    BY <2>1, <2>2, ProfileStarts DEF TypeOK, TryType
  <2>4. /\ prof'[p].pc = "map" /\ prof'[p].some = prof[p].some
        /\ prof'[p].nodes = prof[p].nodes /\ prof'[p].todo = {}
        /\ \A q \in Profiles \ {p} : prof'[q] = prof[q]
    BY <1>1, <1>3 DEF TypeOK, ProfType, Profs
  <2>5. /\ prof[p].nodes \cap known \subseteq assigned
        /\ prof[p].some = prof[p].nodes
    BY <1>3 DEF AllOrNone, Stopped, ProfSound
  <2>6. ProfSound'
    BY <1>1, <2>4, <2>5 DEF Stopped, ProfSound
  <2>7. MapperTries'
    BY <2>3, <2>4, ProfileStarts DEF Stopped, MapperTries
  <2>8. Bares'
    <3> SUFFICES ASSUME NEW n \in known \ assigned
                 PROVE  Bare(n)'
      BY <1>1 DEF Bares
    <3>1. n \in Nodes
      BY DEF TypeOK, RowType
    <3>2. Due(n) => Due(n)'
      BY <1>1, <2>4 DEF Due
    <3>3. \A q \in Profiles : try'[q][n].pc = "none"
      <4> SUFFICES ASSUME NEW q \in Profiles
                   PROVE  try'[q][n].pc = "none"
        OBVIOUS
      <4>1. CASE q = p
        BY <2>3, <2>5, <3>1, <4>1
      <4>2. CASE q # p
        BY <2>3, <4>2, ProfileStarts DEF Stopped, Bares, Bare
      <4> QED BY <4>1, <4>2
    <3>4. try'[Single] = try[Single]
      BY <2>3, ProfileStarts, NoTryType
    <3> QED BY <1>1, <3>2, <3>3, <3>4 DEF Stopped, Bares, Bare
  <2>9. try'[Single] = try[Single]
    BY <2>3, ProfileStarts, NoTryType
  <2>10. Kepts'
    <3> SUFFICES ASSUME NEW n \in known \cap assigned
                 PROVE  Kept(n)'
      BY <1>1 DEF Kepts
    <3>1. n \in Nodes
      BY DEF TypeOK, RowType
    <3>2. n \in disabled => /\ \A w \in Starters : try'[w][n].pc = "none"
                            /\ \A q \in Profiles : n \notin prof'[q].nodes
      <4> SUFFICES ASSUME n \in disabled
                   PROVE  /\ \A w \in Starters : try'[w][n].pc = "none"
                          /\ \A q \in Profiles : n \notin prof'[q].nodes
        OBVIOUS
      <4>1. /\ \A w \in Starters : try[w][n].pc = "none"
            /\ \A q \in Profiles : n \notin prof[q].nodes
        BY DEF Stopped, Kepts, Kept
      <4> QED BY <2>3, <2>4, <3>1, <4>1
    <3> QED BY <1>1, <2>9, <3>2 DEF Stopped, Kepts, Kept
  <2>11. Offs' /\ Stops' /\ Rests'
    BY <1>1, <2>9 DEF Stopped, Offs, Off, Owes, Stops, Stopping, Rests
  <2> QED BY <2>6, <2>7, <2>8, <2>10, <2>11 DEF Stopped
<1> QED BY <1>2, <1>3 DEF ProfileGather

\* A profile's configuration changes: nothing is going on with any node.
LEMMA UpdateConfigProfileStopped ==
  ASSUME TypeOK, TypeOK', Stopped, NEW p \in Profiles, UpdateConfigProfile(p),
         Settled
  PROVE  Stopped'
<1>1. PICK S \in SUBSET {n \in assigned : profile[n] = p} :
        /\ Ask("config", Nodes)
        /\ assigned' = assigned \ S
        /\ AddProfile(p, FALSE, waiting)
  BY DEF UpdateConfigProfile
<1>2. UNCHANGED <<known, disabled, connecting, connected, profile, try, stop,
                  halting, check, reach, core, busy, edit>>
  BY DEF UpdateConfigProfile, nodeVars
<1>3. CASE S = {}
  BY <1>1, <1>2, <1>3, AddProfileStopped
<1>4. CASE S # {}
  <2>1. PICK n \in S : n \in Nodes
    BY <1>4 DEF TypeOK, RowType
  <2>2. \A m \in Nodes : Quiet(m)
    BY <1>1, AskQuiet
  <2>3. \A q \in Profiles : prof[q].pc = "none"
    BY <2>1, <2>2 DEF Quiet
  <2>4. /\ prof'[p].pc = "waiting" /\ prof'[p].nodes = {} /\ prof'[p].some = {}
        /\ prof'[p].todo = {} /\ \A q \in Profiles \ {p} : prof'[q] = prof[q]
    BY <1>1, <2>3, AddProfileJobs
  <2>5. ProfSound'
    BY <1>2, <2>3, <2>4 DEF Stopped, ProfSound
  <2>6. MapperTries'
    BY <1>2, <2>3, <2>4 DEF Stopped, MapperTries
  <2>7. Bares'
    <3> SUFFICES ASSUME NEW m \in known \ assigned'
                 PROVE  Bare(m)'
      BY <1>2 DEF Bares
    <3>1. m \in Nodes
      BY DEF TypeOK, RowType
    <3>2. /\ \A w \in Starters : try[w][m].pc = "none"
          /\ busy[m] = "no" /\ ~Due(m)
      BY <2>2, <3>1, QuietNode
    <3>3. CASE m \in S
      <4>1. Due(m)'
        BY <1>2, <2>4, <3>3 DEF Due
      <4> QED BY <1>2, <3>2, <4>1, ProfileStarts, NoTryType DEF Bare
    <3>4. CASE m \notin S
      <4>1. m \in disabled
        BY <1>1, <3>2, <3>4 DEF Stopped, Bares, Bare
      <4> QED BY <1>2, <3>2, <4>1, ProfileStarts, NoTryType DEF Bare
    <3> QED BY <3>3, <3>4
  <2>8. Kepts'
    <3> SUFFICES ASSUME NEW m \in known \cap assigned, m \notin S
                 PROVE  Kept(m)'
      BY <1>1, <1>2 DEF Kepts
    <3>1. \A q \in Profiles : m \notin prof'[q].nodes
      BY <2>3, <2>4 DEF Stopped, ProfSound
    <3> QED BY <1>2, <3>1 DEF Stopped, Kepts, Kept
  <2>9. Offs' /\ Stops' /\ Rests'
    BY <1>1, <1>2 DEF Stopped, Offs, Off, Owes, Stops, Stopping, Rests
  <2> QED BY <2>5, <2>6, <2>7, <2>8, <2>9 DEF Stopped
<1> QED BY <1>3, <1>4

\* The jobs are run once more from their beginning, and no stop is lost.
LEMMA PanelDiesStopped ==
  ASSUME TypeOK, Stopped, PanelDies, DeathsKeepStops
  PROVE  Stopped'
<1>1. /\ UNCHANGED <<known, disabled, connecting, connected, profile, assigned,
                     reach, core, busy>>
      /\ edit'.pc = "none"
  <2>1. WorkerDies /\ (edit' = edit \/ edit' = NoEdit)
    BY DEF PanelDies
  <2>2. NoEdit.pc = "none"
    BY DEF NoEdit
  <2> QED BY <2>1, <2>2 DEF WorkerDies, rowVars, nodeVars, Stopped, Rests
<1>2. \A n \in Nodes :
        /\ \A p \in Profiles : try'[p][n].pc = "none"
        /\ try'[Single][n].pc =
             IF try[Single][n].pc = "none" THEN "none" ELSE "waiting"
        /\ stop'[n] = IF stop[n] = "none" THEN "none" ELSE "waiting"
        /\ check[n].pc = "none" => check'[n].pc = "none"
        /\ halting'[n] \subseteq halting[n]
        /\ halting[n] \ {Single} \subseteq halting'[n]
  <2> SUFFICES ASSUME NEW n \in Nodes
               PROVE  /\ \A p \in Profiles : try'[p][n].pc = "none"
                      /\ try'[Single][n].pc =
                           IF try[Single][n].pc = "none" THEN "none"
                                                         ELSE "waiting"
                      /\ stop'[n] = IF stop[n] = "none" THEN "none"
                                                        ELSE "waiting"
                      /\ check[n].pc = "none" => check'[n].pc = "none"
                      /\ halting'[n] \subseteq halting[n]
                      /\ halting[n] \ {Single} \subseteq halting'[n]
    OBVIOUS
  <2>1. WorkerDies
    BY DEF PanelDies
  <2>2. NoTry.pc = "none"
    BY DEF NoTry
  <2>3. \A p \in Profiles : try'[p][n] = NoTry
    BY <2>1, ProfileStarts DEF WorkerDies
  <2>4. try'[Single][n].pc =
          IF try[Single][n].pc = "none" THEN "none" ELSE "waiting"
    <3> DEFINE r == [try[Single][n] EXCEPT !.pc = "waiting", !.started = FALSE]
    <3>1. try'[Single][n] = IF try[Single][n].pc # "none" THEN r ELSE NoTry
      BY <2>1, NoTryType DEF WorkerDies
    <3>2. try[Single][n] \in Tries
      BY NoTryType DEF TypeOK, TryType
    <3>3. r.pc = "waiting"
      BY <3>2 DEF Tries
    <3> HIDE DEF r
    <3> QED BY <2>2, <3>1, <3>3
  <2>5. stop'[n] = IF stop[n] = "none" THEN "none" ELSE "waiting"
    BY <2>1 DEF WorkerDies, Again
  <2>6. check[n].pc = "none" => check'[n].pc = "none"
    BY <2>1 DEF WorkerDies, Again, TypeOK, QueueType, Checks
  <2>7. /\ halting'[n] \subseteq halting[n]
        /\ halting[n] \ {Single} \subseteq halting'[n]
    BY DEF PanelDies, DeathsKeepStops
  <2> QED BY <2>2, <2>3, <2>4, <2>5, <2>6, <2>7
<1>3. \A p \in Profiles :
        /\ prof'[p].nodes = {} /\ prof'[p].some = {} /\ prof'[p].todo = {}
        /\ prof'[p].pc = IF prof[p].pc = "none" THEN "none" ELSE "waiting"
  <2> SUFFICES ASSUME NEW p \in Profiles
               PROVE  /\ prof'[p].nodes = {} /\ prof'[p].some = {}
                      /\ prof'[p].todo = {} /\ prof'[p].pc = Again(prof[p].pc)
    BY DEF Again
  <2> DEFINE r == [NoProf EXCEPT !.pc = Again(prof[p].pc),
                                 !.force = prof[p].force]
  <2>1. prof'[p] = r
    BY DEF PanelDies, WorkerDies
  <2>2. r.nodes = {} /\ r.some = {} /\ r.todo = {} /\ r.pc = Again(prof[p].pc)
    BY NoProfNodes
  <2> HIDE DEF r
  <2> QED BY <2>1, <2>2
<1>4. ProfSound'
  BY <1>3 DEF ProfSound
<1>5. MapperTries'
  BY <1>2 DEF MapperTries
<1>6. \A n \in Nodes : Due(n) => Due(n)'
  BY <1>1, <1>3 DEF Due
<1>7. Bares'
  <2> SUFFICES ASSUME NEW n \in known \ assigned
               PROVE  Bare(n)'
    BY <1>1 DEF Bares
  <2>1. n \in Nodes
    BY DEF TypeOK, RowType
  <2> QED BY <1>1, <1>2, <1>6, <2>1 DEF Stopped, Bares, Bare
<1>8. Kepts'
  <2> SUFFICES ASSUME NEW n \in known \cap assigned
               PROVE  Kept(n)'
    BY <1>1 DEF Kepts
  <2>1. n \in Nodes
    BY DEF TypeOK, RowType
  <2>2. n \in disabled => \A w \in Starters : try'[w][n].pc = "none"
    BY <1>2, <2>1, NoTryType DEF Stopped, Kepts, Kept, Starters
  <2> QED BY <1>1, <1>2, <1>3, <2>1, <2>2 DEF Stopped, Kepts, Kept
<1>9. Offs'
  <2> SUFFICES ASSUME NEW n \in disabled
               PROVE  Off(n)'
    BY <1>1 DEF Offs
  <2>1. n \in Nodes
    BY DEF TypeOK, RowType
  <2> QED BY <1>1, <1>2, <2>1 DEF Stopped, Offs, Off, Owes
<1>10. Stops'
  <2> SUFFICES ASSUME NEW n \in known, Stopping(n)'
               PROVE  n \in disabled
    BY <1>1 DEF Stops, Stopping
  <2>1. n \in Nodes
    BY DEF TypeOK, RowType
  <2> QED BY <1>2, <2>1 DEF Stopped, Stops, Stopping
<1>11. Rests'
  BY <1>1 DEF Stopped, Rests
<1> QED BY <1>4, <1>5, <1>7, <1>8, <1>9, <1>10, <1>11 DEF Stopped

\* Every step keeps it, unless a job of a profile finds inbounds on some of its
\* nodes only, or a process dies that had yet to enqueue a STOP_NODE job.
LEMMA NextStopped ==
  ASSUME TypeOK, TypeOK', Stopped, AllOrNone, [Next]_vars,
         [DeathsKeepStops]_vars, Settled,
         "net" \notin Faults, Requests \cap {"create", "update", "modify"} = {}
  PROVE  Stopped'
<1>1. CASE UNCHANGED <<rest, try, connecting, connected, busy>> /\ core' \subseteq core
  BY <1>1, SmallStopped
<1>2. ASSUME NEW n \in Nodes,
             \/ Job(n) \/ StopRequest(n) \/ StopUpdate(n) \/ DeleteRow(n)
             \/ CheckStats(n) \/ CheckUpdate(n) \/ NodeAnswer(n)
      PROVE  Stopped'
  BY <1>2, StartReadStopped, StartClearStopped, StartStopStopped,
     StartMarkStopped, TryStopped, StopRequestStopped, StopUpdateStopped,
     DeleteRowStopped, CheckStatsStopped, CheckUpdateStopped, NodeAnswerStopped
     DEF Job
<1>3. ASSUME NEW p \in Profiles, Profile(p) \/ Retry(p)
      PROVE  Stopped'
  <2>1. CASE ProfileEnd(p)
    BY <2>1, FinallyStopped DEF ProfileEnd, rowVars, nodeVars, askVars
  <2>2. CASE Retry(p)
    BY <2>2, AddProfileStopped DEF Retry, rowVars, nodeVars, askVars
  <2> QED BY <1>3, <2>1, <2>2, ProfileBeginStopped, ProfileMarkStopped,
          ProfileGatherStopped, OthersStopStopped DEF Profile
<1>4. CASE EveryRead
  BY <1>1, <1>4 DEF EveryRead, rest, rowVars, nodeVars, askVars
<1>5. CASE EveryAdd
  <2>1. every.force \in BOOLEAN /\ every.todo \in SUBSET Profiles
    BY DEF TypeOK, QueueType, Everys
  <2>2. CASE every.todo = {}
    BY <1>1, <1>5, <2>2 DEF EveryAdd, rest, rowVars, nodeVars, askVars
  <2>3. CASE every.todo # {}
    <3>1. PICK p \in Profiles : AddProfile(p, every.force, waiting)
      BY <1>5, <2>1, <2>3 DEF EveryAdd
    <3>2. UNCHANGED <<known, disabled, connecting, connected, profile,
                      assigned, try, stop, halting, check, reach, core, busy,
                      edit>>
      BY <1>5 DEF EveryAdd, rowVars, nodeVars, askVars
    <3> QED BY <3>1, <3>2, AddProfileStopped
  <2> QED BY <2>2, <2>3
<1>6. CASE Administrator
  <2>1. CASE RestartAllNodes
    BY <1>1, <2>1 DEF RestartAllNodes, rest, rowVars, nodeVars
  <2>2. ASSUME NEW n \in Nodes, DeleteNode(n)
        PROVE  Stopped'
    BY <1>1, <2>2 DEF DeleteNode, rest, rowVars, nodeVars
  <2>3. ASSUME NEW n \in Nodes, RestartNode(n)
        PROVE  Stopped'
    <3>1. PICK force \in BOOLEAN : n \in known \ disabled /\ AddStart(n, force)
      BY <2>3 DEF RestartNode
    <3>2. UNCHANGED <<rest, connecting, connected, core, busy>>
      BY <2>3 DEF RestartNode, rest, rowVars, nodeVars
    <3> QED BY <3>1, <3>2, AddStartStopped
  <2>4. /\ \A n \in Nodes : ~CreateNode(n) /\ ~UpdateNode(n)
        /\ \A p \in Profiles : ~ModifyProfile(p)
    BY DEF CreateNode, UpdateNode, ModifyProfile, Ask
  <2>5. ~EditRemove /\ ~EditAdd /\ ~EditRow
    BY DEF EditRemove, EditAdd, EditRow, Stopped, Rests
  <2> QED BY <1>6, <2>1, <2>2, <2>3, <2>4, <2>5, EnableNodeStopped,
          DisableNodeStopped, OthersStopStopped, UpdateConfigProfileStopped
          DEF Administrator
<1>7. CASE Environment
  <2>1. ASSUME NEW n \in Nodes, CoreDies(n)
        PROVE  Stopped'
    BY <1>1, <2>1 DEF CoreDies, rest, rowVars, jobVars, askVars
  <2>2. \A n \in Nodes : ~Unreachable(n) /\ ~Reachable(n)
    BY DEF Unreachable, Reachable, Fault, Stopped, Rests
  <2>3. CASE PanelDies
    <3>1. CASE UNCHANGED vars
      BY <1>1, <3>1 DEF vars, rest, rowVars, jobVars, nodeVars, askVars
    <3> QED BY <2>3, <3>1, PanelDiesStopped
  <2> QED BY <1>7, <2>1, <2>2, <2>3 DEF Environment
<1>8. CASE UNCHANGED vars
  BY <1>1, <1>8 DEF vars, rest, rowVars, jobVars, nodeVars, askVars
<1> QED BY <1>2, <1>3, <1>4, <1>5, <1>6, <1>7, <1>8, TickStopped DEF Next

\* Once nothing is going on with a disabled node, it is stopped and does not
\* count as connected: for any number of nodes and profiles, while cores die,
\* queries fail and processes of the panel die and are started again, if the
\* administrator waits for quiet and does not give inbounds to nodes, nodes are
\* within reach, and neither of two things happens after which the code does
\* leave a disabled node running: a job of a profile that finds inbounds on some
\* of its nodes only, and a death between the write that disables a node and the
\* call that enqueues its STOP_NODE job (but for that of the START_NODE job).
THEOREM StoppedWhenDisabled ==
  ASSUME Settled, "net" \notin Faults,
         Requests \cap {"create", "update", "modify"} = {}
  PROVE  Spec /\ []AllOrNone /\ [][DeathsKeepStops]_vars
           => []DisabledIsStopped
<1>1. Init => TypeOK /\ Stopped
  <2> SUFFICES ASSUME Init
               PROVE  Stopped
    BY InitType
  <2>1. ProfSound
    BY DEF Init, ProfSound, NoProf
  <2>2. MapperTries
    BY ProfileStarts DEF Init, MapperTries, NoTry
  <2>3. Bares /\ Offs /\ Stops
    BY DEF Init, Bares, Offs, Stops, Stopping
  <2>4. Kepts
    BY NoTryType DEF Init, Kepts, Kept, NoTry
  <2>5. Rests
    BY DEF Init, Rests, NoEdit
  <2> QED BY <2>1, <2>2, <2>3, <2>4, <2>5 DEF Stopped
<1>2. TypeOK /\ Stopped /\ AllOrNone /\ [Next]_vars /\ [DeathsKeepStops]_vars
        => TypeOK' /\ Stopped'
  BY NextType, NextStopped
<1>3. Stopped => DisabledIsStopped
  BY DEF Stopped, Offs, Off, Owes, DisabledIsStopped, Quiet
<1> QED BY <1>1, <1>2, <1>3, PTL DEF Spec

=============================================================================

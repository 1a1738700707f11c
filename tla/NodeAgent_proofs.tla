-------------------------- MODULE NodeAgent_proofs --------------------------
(* Theorems about NodeAgent: type correctness, the lock of startXray and   *)
(* the isolation of starts, for every set of requests, users, inbounds and *)
(* faults, whatever the requests that overlap; and that answers about      *)
(* users are exact when the panel asks one at a time.                      *)
EXTENDS NodeAgent, TLAPS

-----------------------------------------------------------------------------
(* Where the records that a handler moves to lie.                          *)

\* The places a request about users can be at, and those it can move to.
UserPcs == InLoop \cup {"ips"}
NextPcs == {"ips", "remove", "add", "done"}

\* n continues the request of l: same operation, subject and configuration.
Continues(n, l) ==
  /\ n.op = l.op /\ n.subject = l.subject /\ n.cfg = l.cfg
  /\ n.pc \in NextPcs

\* The record of an idle slot is well typed.
LEMMA IdleType == Idle \in Handlers
  BY DEF Idle, Handlers, Records, IsSet, Ops, Pcs, InLoop, Locked, Restarting

\* An answer is well typed, and continues the request.
LEMMA DoneType ==
  ASSUME NEW l \in Handlers,
         NEW r \in {"none", "ok", "fail", "busy", "uptodate", "started"}
  PROVE  /\ Done(l, r) \in Handlers
         /\ Continues(Done(l, r), l)
         /\ Done(l, r).pc = "done" /\ Done(l, r).reply = r
<1> DEFINE n == Done(l, r)
<1>1. n \in Records
  BY DEF Done, Idle, Handlers, Records, Pcs
<1>2. /\ n.op = l.op /\ n.subject = l.subject /\ n.cfg = l.cfg
      /\ n.pc = "done" /\ n.reply = r
  BY DEF Done, Idle
<1>3. IsSet(n)
  BY <1>2 DEF IsSet, InLoop, Locked, Restarting
<1> QED BY <1>1, <1>2, <1>3 DEF Handlers, Continues, NextPcs

\* Changing the place of a handler.
LEMMA PcType ==
  ASSUME NEW l \in Handlers, NEW x \in Pcs, IsSet([l EXCEPT !.pc = x])
  PROVE  /\ [l EXCEPT !.pc = x] \in Handlers
         /\ [l EXCEPT !.pc = x].pc = x /\ [l EXCEPT !.pc = x].cfg = l.cfg
  BY DEF Handlers, Records

\* The records of Adding are well typed and continue the request.
LEMMA AddingType ==
  ASSUME NEW l \in Handlers, l.cr \in Creds, NEW n \in Adding(l)
  PROVE  n \in Handlers /\ Continues(n, l)
<1>1. PICK t \in l.todo : n = [l EXCEPT !.pc = "add", !.tag = t,
                                        !.todo = l.todo \ {t}]
  BY DEF Adding
<1>2. t \in Tags /\ l.todo \ {t} \in SUBSET Tags
  BY DEF Handlers, Records
<1>3. n \in Records /\ n.tag = t /\ n.cr = l.cr /\ n.pc = "add"
  BY <1>1, <1>2 DEF Handlers, Records, Pcs, InLoop
<1>4. IsSet(n)
  BY <1>2, <1>3 DEF IsSet, InLoop, Locked, Restarting
<1> QED BY <1>1, <1>3, <1>4 DEF Handlers, Records, Continues, NextPcs

\* So do those of RemoveNext.
LEMMA RemoveNextType ==
  ASSUME NEW l \in Handlers, NEW n \in RemoveNext(l)
  PROVE  n \in Handlers /\ Continues(n, l)
<1>1. CASE l.left = {}
  <2>1. \E r \in {"ok", "fail"} : n = Done(l, r)
    BY <1>1 DEF RemoveNext
  <2> QED BY <2>1, DoneType
<1>2. CASE l.left # {}
  <2>1. PICK c \in l.left : n = [l EXCEPT !.pc = "ips", !.cr = c,
                                          !.left = l.left \ {c}, !.seen = {}]
    BY <1>2 DEF RemoveNext
  <2>2. c \in Creds /\ l.left \ {c} \in SUBSET Creds
    BY DEF Handlers, Records
  <2>3. n \in Records /\ n.cr = c /\ n.pc = "ips"
    BY <2>1, <2>2 DEF Handlers, Records, Pcs
  <2>4. IsSet(n)
    BY <2>2, <2>3 DEF IsSet, InLoop, Locked, Restarting
  <2> QED BY <2>1, <2>3, <2>4 DEF Handlers, Records, Continues, NextPcs
<1> QED BY <1>1, <1>2

\* So do those of Loop, whatever the set of tags it runs over.
LEMMA LoopType ==
  ASSUME NEW l \in Handlers, l.cr \in Creds, NEW tags \in SUBSET Tags,
         NEW n \in Loop(l, tags)
  PROVE  n \in Handlers /\ Continues(n, l)
<1>1. CASE tags \ l.seen # {}
  <2>1. PICK t \in tags \ l.seen :
          n = [l EXCEPT !.pc = "remove", !.tag = t, !.seen = @ \cup {t}]
    BY <1>1 DEF Loop
  <2>2. n \in Records /\ n.tag = t /\ n.cr = l.cr /\ n.pc = "remove"
    BY <2>1 DEF Handlers, Records, Pcs, InLoop
  <2>3. IsSet(n)
    BY <2>1, <2>2 DEF IsSet, InLoop, Locked, Restarting
  <2> QED BY <2>1, <2>2, <2>3 DEF Handlers, Records, Continues, NextPcs
<1>2. CASE tags \ l.seen = {} /\ l.op \in AddOps
  <2> DEFINE m == [l EXCEPT !.todo = l.want]
  <2>1. /\ m \in Records /\ m.op = l.op /\ m.subject = l.subject
        /\ m.cfg = l.cfg /\ m.pc = l.pc /\ m.cr = l.cr /\ m.tag = l.tag
    BY DEF Handlers, Records
  <2>2. n \in Adding(m)
    BY <1>2 DEF Loop
  <2> HIDE DEF m
  <2>3. IsSet(m)
    BY <2>1 DEF IsSet, Handlers
  <2>4. n \in Handlers /\ Continues(n, m)
    BY <2>1, <2>2, <2>3, AddingType DEF Handlers
  <2> QED BY <2>1, <2>4 DEF Continues
<1>3. CASE tags \ l.seen = {} /\ l.op \notin AddOps
  BY <1>3, RemoveNextType DEF Loop
<1> QED BY <1>1, <1>2, <1>3

\* So do those of NextToAdd.
LEMMA NextToAddType ==
  ASSUME NEW l \in Handlers, NEW tags \in SUBSET Tags,
         NEW n \in NextToAdd(l, tags)
  PROVE  n \in Handlers /\ Continues(n, l)
<1>1. PICK c \in l.left :
        n \in Loop([l EXCEPT !.cr = c, !.left = @ \ {c}, !.seen = {}], tags)
  BY DEF NextToAdd
<1> DEFINE m == [l EXCEPT !.cr = c, !.left = @ \ {c}, !.seen = {}]
<1>2. /\ m \in Records /\ m.op = l.op /\ m.subject = l.subject
      /\ m.cfg = l.cfg /\ m.pc = l.pc /\ m.cr = c /\ m.tag = l.tag
      /\ c \in Creds
  BY DEF Handlers, Records
<1>3. n \in Loop(m, tags)
  BY <1>1
<1> HIDE DEF m
<1>4. IsSet(m)
  BY <1>2 DEF IsSet, Handlers
<1>5. n \in Handlers /\ Continues(n, m)
  BY <1>2, <1>3, <1>4, LoopType DEF Handlers
<1> QED BY <1>2, <1>5 DEF Continues

\* So do those of AddNext.
LEMMA AddNextType ==
  ASSUME NEW l \in Handlers, l.cr \in Creds, NEW tags \in SUBSET Tags,
         NEW n \in AddNext(l, tags)
  PROVE  n \in Handlers /\ Continues(n, l)
<1>1. CASE l.todo # {}
  BY <1>1, AddingType DEF AddNext
<1>2. CASE l.todo = {} /\ l.left # {}
  BY <1>2, NextToAddType DEF AddNext
<1>3. CASE l.todo = {} /\ l.left = {}
  <2>1. \E r \in {"ok", "fail"} : n = Done(l, r)
    BY <1>3 DEF AddNext
  <2> QED BY <2>1, DoneType
<1> QED BY <1>1, <1>2, <1>3

\* n is l, apart from the tags that its loop has still to visit.
Same(n, l) ==
  /\ n.op = l.op /\ n.pc = l.pc /\ n.subject = l.subject /\ n.left = l.left
  /\ n.cr = l.cr /\ n.tag = l.tag /\ n.want = l.want /\ n.todo = l.todo
  /\ n.anyOk = l.anyOk /\ n.cfg = l.cfg /\ n.reply = l.reply

\* Two records that differ only in the tags still to visit are of one type.
LEMMA SeenOnly ==
  ASSUME NEW l \in Handlers, NEW fresh
  PROVE  /\ [l EXCEPT !.seen = @ \ fresh] \in Handlers
         /\ Same([l EXCEPT !.seen = @ \ fresh], l)
<1> DEFINE n == [l EXCEPT !.seen = @ \ fresh]
<1>1. n \in Records /\ Same(n, l)
  BY DEF Handlers, Records, Same
<1> HIDE DEF n
<1>2. IsSet(n)
  BY <1>1 DEF Same, IsSet, Handlers
<1> QED BY <1>1, <1>2 DEF Handlers, n

\* A move changes the handler that moves, and in the others only which tags
\* their loops have still to visit.
LEMMA MoveType ==
  ASSUME HandlerType, NEW p \in Procs, NEW S, NEW fresh,
         Move(p, S, fresh), S \subseteq Handlers
  PROVE  /\ HandlerType'
         /\ h'[p] \in S
         /\ \A q \in Procs \ {p} : Same(h'[q], h[q])
<1>1. PICK n \in S :
        h' = [q \in Procs |-> IF q = p THEN n
                              ELSE [h[q] EXCEPT !.seen = @ \ fresh]]
  BY DEF Move
<1>2. \A q \in Procs : /\ [h[q] EXCEPT !.seen = @ \ fresh] \in Handlers
                       /\ Same([h[q] EXCEPT !.seen = @ \ fresh], h[q])
  BY SeenOnly DEF HandlerType
<1> QED BY <1>1, <1>2 DEF HandlerType

\* A move to a single record leaves the other handlers as they are.
LEMMA GotoType ==
  ASSUME HandlerType, NEW p \in Procs, NEW n \in Handlers, Goto(p, n)
  PROVE  /\ HandlerType'
         /\ h'[p] = n
         /\ \A q \in Procs \ {p} : h'[q] = h[q]
         /\ \A q \in Procs \ {p} : Same(h'[q], h[q])
<1>1. h' = [q \in Procs |-> IF q = p THEN n
                            ELSE [h[q] EXCEPT !.seen = @ \ {}]]
  BY DEF Goto, Move
<1>2. \A q \in Procs : [h[q] EXCEPT !.seen = @ \ {}] = h[q]
  BY DEF Handlers, Records, HandlerType
<1>3. \A l : Same(l, l)
  BY DEF Same
<1> QED BY <1>1, <1>2, <1>3 DEF HandlerType

-----------------------------------------------------------------------------
(* Type correctness, and what each action leaves alone.                    *)

\* Values that a step leaves alone keep their types.
LEMMA Kept ==
  /\ AgentType /\ UNCHANGED agentVars => AgentType'
  /\ MirrorType /\ UNCHANGED mirrorVars => MirrorType'
  /\ CoreType /\ UNCHANGED coreVars => CoreType'
  /\ CurType /\ UNCHANGED cur => CurType'
<1>1. AgentType /\ UNCHANGED agentVars => AgentType'
  BY Zenon DEF AgentType, agentVars
<1>2. MirrorType /\ UNCHANGED mirrorVars => MirrorType'
  BY DEF MirrorType, mirrorVars
<1>3. CoreType /\ UNCHANGED coreVars => CoreType'
  BY DEF CoreType, coreVars
<1>4. CurType /\ UNCHANGED cur => CurType'
  BY DEF CurType
<1> QED BY <1>1, <1>2, <1>3, <1>4

\* The credentials the panel sends are credentials.
LEMMA CredTypes ==
  ASSUME CurType
  PROVE  /\ \A u \in Users : Current(u) \in Creds
         /\ \A u \in Users : cur[u] < MaxKey => <<u, cur[u] + 1>> \in Creds
  BY MaxKeyAssumption DEF CurType, Current, Creds

\* What the actions of requests about users and the arrivals of requests do
\* not touch: they take no lock, release none, and leave the starts alone.
Quiet(p) ==
  /\ UNCHANGED <<starting, config, core, coreBase, served>>
  /\ h[p].pc \notin Locked /\ h'[p].pc \notin Locked
  /\ \A q \in Procs \ {p} : Same(h'[q], h[q])

\* p is not at work on a start, and does not take up one.
Elsewhere(p) ==
  /\ h[p].pc \notin Locked \cup {"iface", "done"}
  /\ h'[p].pc # "iface" /\ h'[p].cfg \in {None, h[p].cfg}

\* A request that adds users begins with well typed records.
LEMMA BeginAddType ==
  ASSUME TypeOK, NEW p \in Procs, NEW op \in AddOps, NEW creds \in SUBSET Creds,
         NEW want \in SUBSET Tags, NEW touch \in SUBSET Tags,
         BeginAdd(p, op, creds, want, touch), CurType'
  PROVE  TypeOK' /\ Quiet(p) /\ Elsewhere(p)
<1> DEFINE l == [Idle EXCEPT !.op = op, !.subject = creds, !.left = creds,
                             !.want = want]
<1>1. l \in Handlers
  BY DEF Idle, Handlers, Records, IsSet, Ops, Pcs, InLoop, Locked, Restarting
<1>b. l.cfg = None
  BY DEF Idle
<1>2. xtls' \in SUBSET Tags
  BY DEF BeginAdd, TypeOK, MirrorType
<1>3. Move(p, NextToAdd(l, xtls'), touch \ xtls)
  BY DEF BeginAdd
<1> HIDE DEF l
<1>4. \A n \in NextToAdd(l, xtls') : n \in Handlers /\ Continues(n, l)
  BY <1>1, <1>2, NextToAddType
<1>5. /\ HandlerType'
      /\ h'[p] \in NextToAdd(l, xtls')
      /\ \A q \in Procs \ {p} : Same(h'[q], h[q])
  <2>1. NextToAdd(l, xtls') \subseteq Handlers
    BY <1>4
  <2> QED BY <2>1, <1>3, MoveType DEF TypeOK
<1>6. /\ UNCHANGED <<agentVars, coreVars>> /\ UNCHANGED <<config, mapped, mirror>>
      /\ h[p].pc = "idle"
  BY DEF BeginAdd, MayBegin
<1>7. MirrorType'
  BY <1>2, <1>6 DEF MirrorType, TypeOK
<1>8. TypeOK'
  BY <1>5, <1>6, <1>7, Kept DEF TypeOK
<1>9. h[p].pc \notin Locked /\ h'[p].pc \notin Locked
  BY <1>4, <1>5, <1>6 DEF Continues, NextPcs, Locked, Restarting
<1>10. Elsewhere(p)
  BY <1>b, <1>4, <1>5, <1>6 DEF Continues, NextPcs, Locked, Restarting, Elsewhere
<1> QED BY <1>5, <1>6, <1>8, <1>9, <1>10 DEF Quiet, agentVars, coreVars

\* addUser, with or without a revoked credential, and addUsers begin well typed.
LEMMA AddsType ==
  ASSUME TypeOK, NEW p \in Procs,
         AddUser(p) \/ RevokeUser(p) \/ AddUsers(p)
  PROVE  TypeOK' /\ Quiet(p) /\ Elsewhere(p)
<1> USE DEF AddOps
<1>1. CASE AddUser(p)
  <2>1. PICK u \in Users, want \in SUBSET Tags \ {{}} :
          BeginAdd(p, "addUser", {Current(u)}, want, want) /\ UNCHANGED cur
    BY <1>1 DEF AddUser
  <2>2. CurType' /\ {Current(u)} \in SUBSET Creds
    BY <2>1, CredTypes, Kept DEF TypeOK
  <2> QED BY <2>1, <2>2, BeginAddType
<1>2. CASE RevokeUser(p)
  <2>1. PICK u \in Users, want \in SUBSET Tags \ {{}} :
          /\ cur[u] < MaxKey
          /\ cur' = [cur EXCEPT ![u] = @ + 1]
          /\ BeginAdd(p, "revokeUser", {<<u, cur[u] + 1>>}, want, want)
    BY <1>2 DEF RevokeUser
  <2>2. CurType'
    BY <2>1, MaxKeyAssumption DEF TypeOK, CurType
  <2>3. {<<u, cur[u] + 1>>} \in SUBSET Creds
    BY <2>1, CredTypes DEF TypeOK
  <2> QED BY <2>1, <2>2, <2>3, BeginAddType
<1>3. CASE AddUsers(p)
  <2>1. PICK us \in SUBSET Users \ {{}}, touch \in SUBSET Tags :
          \E want \in SUBSET touch \ {{}} :
            /\ BeginAdd(p, "addUsers", {Current(u) : u \in us}, want, touch)
            /\ UNCHANGED cur
    BY <1>3 DEF AddUsers
  <2>2. PICK want \in SUBSET touch \ {{}} :
            /\ BeginAdd(p, "addUsers", {Current(u) : u \in us}, want, touch)
            /\ UNCHANGED cur
    BY <2>1
  <2>3. /\ {Current(u) : u \in us} \in SUBSET Creds /\ want \in SUBSET Tags
        /\ CurType'
    BY <2>2, CredTypes, Kept DEF TypeOK
  <2> QED BY <2>2, <2>3, BeginAddType
<1> QED BY <1>1, <1>2, <1>3

\* removeUser and removeUsers begin well typed.
LEMMA RemovesType ==
  ASSUME TypeOK, NEW p \in Procs, RemoveUser(p) \/ RemoveUsers(p)
  PROVE  TypeOK' /\ Quiet(p) /\ Elsewhere(p)
<1>1. PICK op \in RemoveOps, creds \in SUBSET Creds : Remove(p, op, creds)
  <2>1. CASE RemoveUser(p)
    <3>1. PICK u \in Users : Remove(p, "removeUser", {Current(u)})
      BY <2>1 DEF RemoveUser
    <3> QED BY <3>1, CredTypes DEF TypeOK, RemoveOps
  <2>2. CASE RemoveUsers(p)
    <3>1. PICK us \in SUBSET Users \ {{}} :
            Remove(p, "removeUsers", {Current(u) : u \in us})
      BY <2>2 DEF RemoveUsers
    <3>2. {Current(u) : u \in us} \in SUBSET Creds
      BY CredTypes DEF TypeOK
    <3> QED BY <3>1, <3>2 DEF RemoveOps
  <2> QED BY <2>1, <2>2
<1> DEFINE l == [Idle EXCEPT !.op = op, !.subject = creds, !.left = creds]
           S == IF xtls = {} THEN {Done(l, "ok")} ELSE RemoveNext(l)
<1>2. l \in Handlers
  BY DEF Idle, Handlers, Records, IsSet, Ops, Pcs, InLoop, Locked, Restarting
<1>b. l.cfg = None
  BY DEF Idle
<1>3. Move(p, S, {})
  BY <1>1 DEF Remove
<1> HIDE DEF l
<1>4. \A n \in S : n \in Handlers /\ Continues(n, l)
  BY <1>2, DoneType, RemoveNextType
<1> HIDE DEF S
<1>5. HandlerType' /\ h'[p] \in S /\ \A q \in Procs \ {p} : Same(h'[q], h[q])
  <2>1. S \subseteq Handlers
    BY <1>4
  <2> QED BY <2>1, <1>3, MoveType DEF TypeOK
<1>6. UNCHANGED <<agentVars, mirrorVars, coreVars, cur>> /\ h[p].pc = "idle"
  BY <1>1 DEF Remove, MayBegin
<1>7. TypeOK'
  BY <1>5, <1>6, Kept DEF TypeOK
<1>8. h[p].pc \notin Locked /\ h'[p].pc \notin Locked
  BY <1>4, <1>5, <1>6 DEF Continues, NextPcs, Locked, Restarting
<1>9. Elsewhere(p)
  BY <1>b, <1>4, <1>5, <1>6 DEF Continues, NextPcs, Locked, Restarting, Elsewhere
<1> QED BY <1>5, <1>6, <1>7, <1>8, <1>9 DEF Quiet, agentVars, mirrorVars, coreVars

\* The turns of the loops over inbounds keep the types.
LEMMA LoopStepType ==
  ASSUME TypeOK, NEW p \in Procs, AfterIps(p) \/ AfterRemove(p) \/ AfterAdd(p)
  PROVE  TypeOK' /\ Quiet(p) /\ Elsewhere(p)
<1>0. h[p] \in Handlers
  BY DEF TypeOK, HandlerType
<1>a. h[p].cr \in Creds
  BY <1>0 DEF AfterIps, AfterRemove, AfterAdd, Handlers, IsSet, InLoop
<1>1. PICK S : /\ Move(p, S, {})
               /\ \A n \in S : n \in Handlers /\ Continues(n, h[p])
  <2>1. CASE AfterIps(p)
    BY <2>1, <1>0, <1>a, LoopType DEF AfterIps, TypeOK, MirrorType
  <2>2. CASE AfterRemove(p)
    <3>1. xtls' \in SUBSET Tags
      BY <2>2 DEF AfterRemove, TypeOK, MirrorType
    <3> QED BY <2>2, <3>1, <1>0, <1>a, LoopType DEF AfterRemove
  <2>3. CASE AfterAdd(p)
    BY <2>3, <1>0, <1>a, AddNextType DEF AfterAdd, TypeOK, MirrorType
  <2> QED BY <2>1, <2>2, <2>3
<1>2. HandlerType' /\ h'[p] \in S /\ \A q \in Procs \ {p} : Same(h'[q], h[q])
  <2>1. S \subseteq Handlers
    BY <1>1
  <2> QED BY <2>1, <1>1, MoveType DEF TypeOK
<1>3. /\ UNCHANGED <<agentVars, coreVars, cur>> /\ UNCHANGED config
      /\ h[p].pc \in UserPcs
  BY DEF AfterIps, AfterRemove, AfterAdd, mirrorVars, UserPcs, InLoop
<1>4. MirrorType'
  <2>1. CASE AfterIps(p)
    BY <2>1, Kept DEF AfterIps, TypeOK
  <2>2. CASE AfterRemove(p)
    BY <2>2 DEF AfterRemove, TypeOK, MirrorType
  <2>3. CASE AfterAdd(p) /\ h[p].pc = "added"
    <3>1. /\ mirror' = [mirror EXCEPT ![h[p].tag] = @ \cup {h[p].cr}]
          /\ mapped' = mapped \cup {h[p].tag} /\ xtls' = xtls
      BY <2>3 DEF AfterAdd
    <3>2. h[p].tag \in Tags /\ h[p].cr \in Creds
      BY <1>0, <2>3 DEF Handlers, IsSet, InLoop
    <3> QED BY <3>1, <3>2, <1>3 DEF TypeOK, MirrorType
  <2>4. CASE AfterAdd(p) /\ h[p].pc # "added"
    BY <2>4 DEF AfterAdd, TypeOK, MirrorType
  <2> QED BY <2>1, <2>2, <2>3, <2>4
<1>5. TypeOK'
  BY <1>2, <1>3, <1>4, Kept DEF TypeOK
<1>6. h[p].pc \notin Locked /\ h'[p].pc \notin Locked
  BY <1>1, <1>2, <1>3 DEF Continues, NextPcs, UserPcs, InLoop, Locked, Restarting
<1>7. Elsewhere(p)
  BY <1>1, <1>2, <1>3 DEF Continues, NextPcs, UserPcs, InLoop, Locked,
                          Restarting, Elsewhere
<1> QED BY <1>2, <1>3, <1>5, <1>6, <1>7 DEF Quiet, agentVars, coreVars

\* A handler that moves from one unlocked place to another and changes
\* nothing else.
LEMMA QuietGoto ==
  ASSUME TypeOK, NEW p \in Procs, NEW n \in Handlers, Goto(p, n),
         UNCHANGED <<agentVars, mirrorVars, coreVars, cur>>,
         h[p].pc \notin Locked, n.pc \notin Locked
  PROVE  TypeOK' /\ Quiet(p)
<1>1. HandlerType' /\ h'[p] = n /\ \A q \in Procs \ {p} : Same(h'[q], h[q])
  BY GotoType DEF TypeOK
<1> QED BY <1>1, Kept DEF TypeOK, Quiet, agentVars, mirrorVars, coreVars

\* A request to start arrives with a well typed configuration.
LEMMA BeginStartType ==
  ASSUME TypeOK, NEW p \in Procs, BeginStart(p)
  PROVE  TypeOK' /\ Quiet(p)
<1>1. PICK base \in Bases, tags \in SUBSET Tags \ {{}},
           users \in [Tags -> SUBSET {Current(u) : u \in Users}] :
        /\ h[p].pc = "idle"
        /\ Goto(p, [Idle EXCEPT !.op = "start", !.pc = "iface",
                      !.cfg = [base |-> base, tags |-> tags, users |-> users]])
        /\ UNCHANGED <<agentVars, mirrorVars, coreVars, cur>>
  BY DEF BeginStart, MayBegin
<1> DEFINE c == [base |-> base, tags |-> tags, users |-> users]
           n == [Idle EXCEPT !.op = "start", !.pc = "iface", !.cfg = c]
<1>2. c \in Configs
  <2>1. {Current(u) : u \in Users} \in SUBSET Creds
    BY CredTypes DEF TypeOK
  <2>2. users \in [Tags -> SUBSET Creds]
    BY <2>1
  <2> QED BY <2>2 DEF Configs
<1> HIDE DEF c
<1>3. n \in Handlers /\ n.pc = "iface"
  BY <1>2 DEF Idle, Handlers, Records, IsSet, Ops, Pcs, InLoop, Locked, Restarting
<1> HIDE DEF n
<1> QED BY <1>1, <1>3, QuietGoto DEF Locked, Restarting, n, c

\* A request to stop arrives well typed.
LEMMA BeginStopType ==
  ASSUME TypeOK, NEW p \in Procs, BeginStop(p)
  PROVE  TypeOK' /\ Quiet(p) /\ Elsewhere(p)
<1> DEFINE n == [Idle EXCEPT !.op = "stop", !.pc = "plugin"]
<1>1. n \in Handlers /\ n.pc = "plugin" /\ n.cfg = None
  BY DEF Idle, Handlers, Records, IsSet, Ops, Pcs, InLoop, Locked, Restarting
<1>2. /\ h[p].pc = "idle" /\ Goto(p, n)
      /\ UNCHANGED <<agentVars, mirrorVars, coreVars, cur>>
  BY DEF BeginStop, MayBegin
<1> HIDE DEF n
<1>3. h'[p] = n
  BY <1>1, <1>2, GotoType DEF TypeOK
<1>4. Elsewhere(p)
  BY <1>1, <1>2, <1>3 DEF Locked, Restarting, Elsewhere
<1> QED BY <1>1, <1>2, <1>4, QuietGoto DEF Locked, Restarting

\* stopXray after the plugins, before the core is stopped, keeps the types.
LEMMA StopEnterType ==
  ASSUME TypeOK, NEW p \in Procs, StopEnter(p)
  PROVE  TypeOK' /\ Quiet(p) /\ Elsewhere(p)
<1>0. h[p] \in Handlers
  BY DEF TypeOK, HandlerType
<1>1. /\ h[p].pc = "plugin"
      /\ UNCHANGED <<agentVars, mirrorVars, coreVars, cur>>
      /\ \/ Goto(p, Done(h[p], "ok"))
         \/ Goto(p, [h[p] EXCEPT !.pc = "kill"])
  BY DEF StopEnter
<1>2. /\ Done(h[p], "ok") \in Handlers /\ Done(h[p], "ok").pc = "done"
      /\ Done(h[p], "ok").cfg = h[p].cfg
  BY <1>0, DoneType DEF Continues
<1>3. /\ [h[p] EXCEPT !.pc = "kill"] \in Handlers
      /\ [h[p] EXCEPT !.pc = "kill"].pc = "kill"
      /\ [h[p] EXCEPT !.pc = "kill"].cfg = h[p].cfg
  BY <1>0 DEF Handlers, Records, IsSet, Pcs, InLoop, Locked, Restarting
<1>4. h'[p].pc \in {"done", "kill"} /\ h'[p].cfg = h[p].cfg
  BY <1>1, <1>2, <1>3, GotoType DEF TypeOK
<1>5. Elsewhere(p)
  BY <1>1, <1>4 DEF Locked, Restarting, Elsewhere
<1> QED BY <1>1, <1>2, <1>3, <1>5, QuietGoto DEF Locked, Restarting

\* Sending the response frees the slot.
LEMMA ReturnType ==
  ASSUME TypeOK, NEW p \in Procs, Return(p)
  PROVE  TypeOK' /\ Quiet(p)
  BY IdleType, QuietGoto DEF Return, Idle, Locked, Restarting

\* What the core does for a request about users.
LEMMA CoreUsersType ==
  ASSUME TypeOK, NEW p \in Procs, CoreRemoves(p) \/ CoreAdds(p)
  PROVE  TypeOK' /\ Quiet(p) /\ Elsewhere(p)
<1>0. h[p] \in Handlers
  BY DEF TypeOK, HandlerType
<1>1. h[p].pc \in InLoop /\ h[p].tag \in Tags /\ h[p].cr \in Creds
  BY <1>0 DEF CoreRemoves, CoreAdds, InLoop, Handlers, IsSet
<1>2. PICK x \in {"removed", "added", "refused"}, b \in BOOLEAN :
        Goto(p, [h[p] EXCEPT !.pc = x, !.anyOk = b])
  <2>1. h[p].anyOk \in BOOLEAN
    BY <1>0, Zenon DEF Handlers, Records
  <2>2. CASE CoreRemoves(p)
    <3>1. CASE \E isOk \in BOOLEAN :
                 Goto(p, [h[p] EXCEPT !.pc = "removed",
                          !.anyOk = @ \/ (isOk /\ h[p].op \in RemoveOps)])
      <4>1. PICK isOk \in BOOLEAN :
                 Goto(p, [h[p] EXCEPT !.pc = "removed",
                          !.anyOk = @ \/ (isOk /\ h[p].op \in RemoveOps)])
        BY <3>1
      <4>2. (h[p].anyOk \/ (isOk /\ h[p].op \in RemoveOps)) \in BOOLEAN
        OBVIOUS
      <4> QED BY <4>1, <4>2, Zenon
    <3>2. CASE Goto(p, [h[p] EXCEPT !.pc = "removed"])
      <4>1. [h[p] EXCEPT !.pc = "removed"]
              = [h[p] EXCEPT !.pc = "removed", !.anyOk = h[p].anyOk]
        BY <1>0 DEF Handlers, Records
      <4> QED BY <3>2, <4>1, <2>1, Zenon
    <3> QED BY <2>2, <3>1, <3>2, Zenon DEF CoreRemoves
  <2>3. CASE CoreAdds(p)
    <3>1. CASE Goto(p, [h[p] EXCEPT !.pc = "added", !.anyOk = TRUE])
      BY <3>1
    <3>2. CASE Goto(p, [h[p] EXCEPT !.pc = "refused"])
      <4>1. [h[p] EXCEPT !.pc = "refused"]
              = [h[p] EXCEPT !.pc = "refused", !.anyOk = h[p].anyOk]
        BY <1>0 DEF Handlers, Records
      <4> QED BY <3>2, <4>1, <2>1, Zenon
    <3> QED BY <2>3, <3>1, <3>2, Zenon DEF CoreAdds
  <2> QED BY <2>2, <2>3
<1> DEFINE n == [h[p] EXCEPT !.pc = x, !.anyOk = b]
<1>3. n \in Handlers /\ n.pc = x /\ n.cfg = h[p].cfg
  BY <1>0, <1>1 DEF Handlers, Records, IsSet, Pcs, InLoop, Locked, Restarting
<1> HIDE DEF n
<1>4. HandlerType' /\ h'[p] = n /\ \A q \in Procs \ {p} : Same(h'[q], h[q])
  BY <1>2, <1>3, GotoType DEF TypeOK, n
<1>5. CoreType' /\ UNCHANGED <<agentVars, mirrorVars, core, coreBase, served, cur>>
  <2>1. CASE CoreRemoves(p)
    BY <1>1, <2>1 DEF CoreRemoves, CoreType, TypeOK
  <2>2. CASE CoreAdds(p)
    BY <1>1, <2>2 DEF CoreAdds, CoreType, TypeOK
  <2> QED BY <2>1, <2>2
<1>6. TypeOK'
  BY <1>4, <1>5, Kept DEF TypeOK
<1>7. h[p].pc \notin Locked /\ h'[p].pc \notin Locked
  BY <1>1, <1>3, <1>4 DEF InLoop, Locked, Restarting
<1>8. Elsewhere(p)
  BY <1>1, <1>3, <1>4 DEF InLoop, Locked, Restarting, Elsewhere
<1> QED BY <1>4, <1>5, <1>6, <1>7, <1>8 DEF Quiet, agentVars, mirrorVars

\* A handler that keeps its request and moves to the place x.
MovesTo(p, x) ==
  /\ h'[p].pc = x /\ h'[p].cfg = h[p].cfg
  /\ \A q \in Procs \ {p} : Same(h'[q], h[q])

\* A move that changes only the place of a handler keeps its record well typed.
LEMMA PcMove ==
  ASSUME HandlerType, NEW p \in Procs, NEW x \in Pcs,
         Goto(p, [h[p] EXCEPT !.pc = x]), IsSet([h[p] EXCEPT !.pc = x])
  PROVE  HandlerType' /\ MovesTo(p, x)
<1> DEFINE n == [h[p] EXCEPT !.pc = x]
<1>1. n \in Handlers /\ n.pc = x /\ n.cfg = h[p].cfg
  BY PcType DEF HandlerType
<1> HIDE DEF n
<1>2. HandlerType' /\ h'[p] = n /\ \A q \in Procs \ {p} : Same(h'[q], h[q])
  BY <1>1, GotoType DEF n
<1> QED BY <1>1, <1>2 DEF MovesTo

\* Between the places of a start, or of a stop, nothing new has to be set.
LEMMA StartMove ==
  ASSUME HandlerType, NEW p \in Procs, NEW x \in Locked,
         h[p].pc \in Locked \cup {"iface"}, Goto(p, [h[p] EXCEPT !.pc = x])
  PROVE  HandlerType' /\ MovesTo(p, x)
<1>1. h[p].cfg \in Configs
  BY DEF HandlerType, Handlers, IsSet
<1>2. IsSet([h[p] EXCEPT !.pc = x])
  BY <1>1 DEF HandlerType, Handlers, Records, IsSet, InLoop, Locked, Restarting
<1> QED BY <1>2, PcMove DEF Pcs

\* An answer is a move to a well typed record.
LEMMA DoneMove ==
  ASSUME HandlerType, NEW p \in Procs,
         NEW r \in {"none", "ok", "fail", "busy", "uptodate", "started"},
         Goto(p, Done(h[p], r))
  PROVE  HandlerType' /\ MovesTo(p, "done")
<1> DEFINE n == Done(h[p], r)
<1>1. n \in Handlers /\ n.pc = "done" /\ n.cfg = h[p].cfg
  BY DoneType DEF HandlerType, Continues
<1> HIDE DEF n
<1>2. HandlerType' /\ h'[p] = n /\ \A q \in Procs \ {p} : Same(h'[q], h[q])
  BY <1>1, GotoType DEF n
<1> QED BY <1>1, <1>2 DEF MovesTo

\* extractUsersFromConfig replaces the mirror with a well typed one.
LEMMA ExtractType ==
  ASSUME HandlerType, NEW p \in Procs,
         h[p].pc \in {"iface", "healthy", "unhealthy"}, Extract(p)
  PROVE  /\ HandlerType' /\ MirrorType' /\ MovesTo(p, "down")
         /\ config' = h[p].cfg
<1>1. h[p].cfg \in Configs
  BY DEF HandlerType, Handlers, IsSet, Locked
<1>2. MirrorType' /\ config' = h[p].cfg
  BY <1>1 DEF Extract, MirrorType, Configs
<1> DEFINE n == [h[p] EXCEPT !.pc = "down"]
<1>3. n \in Handlers /\ n.pc = "down" /\ n.cfg = h[p].cfg
  BY <1>1 DEF HandlerType, Handlers, Records, IsSet, Pcs, InLoop, Locked, Restarting
<1>4. Move(p, {n}, h[p].cfg.tags)
  BY DEF Extract
<1> HIDE DEF n
<1>5. HandlerType' /\ h'[p] = n /\ \A q \in Procs \ {p} : Same(h'[q], h[q])
  <2>1. {n} \subseteq Handlers
    BY <1>3
  <2> QED BY <1>4, <2>1, MoveType
<1> QED BY <1>2, <1>3, <1>5 DEF MovesTo

\* A core that is gone is well typed.
LEMMA CoreGoneType == CoreGone => CoreType'
  BY DEF CoreGone, CoreType, NoUsers

\* The steps of startXray that take or hold its lock.
LEMMA StartEnterType ==
  ASSUME TypeOK, NEW p \in Procs, StartEnter(p)
  PROVE  /\ TypeOK' /\ h[p].pc = "iface" /\ UNCHANGED coreVars
         /\ \/ Quiet(p)
            \/ /\ ~starting /\ starting'
               /\ \/ MovesTo(p, "stats") /\ UNCHANGED config
                  \/ MovesTo(p, "down") /\ config' = h[p].cfg
<1>1. h[p].pc = "iface" /\ UNCHANGED <<online, coreVars, cur>>
  BY DEF StartEnter
<1>2. CASE Goto(p, Done(h[p], "busy")) /\ UNCHANGED <<starting, mirrorVars>>
  <2>1. HandlerType' /\ MovesTo(p, "done")
    BY <1>2, DoneMove DEF TypeOK
  <2>2. TypeOK'
    BY <1>1, <1>2, <2>1, Kept DEF TypeOK, agentVars
  <2>3. Quiet(p)
    BY <1>1, <1>2, <2>1 DEF Quiet, MovesTo, Locked, Restarting, mirrorVars, coreVars
  <2> QED BY <1>1, <2>2, <2>3
<1>3. CASE /\ ~starting /\ starting' = TRUE
           /\ Goto(p, [h[p] EXCEPT !.pc = "stats"]) /\ UNCHANGED mirrorVars
  <2>1. HandlerType' /\ MovesTo(p, "stats")
    BY <1>1, <1>3, StartMove DEF TypeOK, Locked
  <2>2. AgentType'
    BY <1>1, <1>3, Zenon DEF TypeOK, AgentType
  <2>3. TypeOK' /\ UNCHANGED config
    BY <1>1, <1>3, <2>1, <2>2, Kept DEF TypeOK, mirrorVars
  <2> QED BY <1>1, <1>3, <2>1, <2>3
<1>4. CASE ~starting /\ starting' = TRUE /\ Extract(p)
  <2>1. /\ HandlerType' /\ MirrorType' /\ MovesTo(p, "down")
        /\ config' = h[p].cfg
    BY <1>1, <1>4, ExtractType DEF TypeOK
  <2>2. AgentType'
    BY <1>1, <1>4, Zenon DEF TypeOK, AgentType
  <2>3. TypeOK'
    BY <1>1, <2>1, <2>2, Kept DEF TypeOK
  <2> QED BY <1>1, <1>4, <2>1, <2>3
<1> QED BY <1>2, <1>3, <1>4, Zenon DEF StartEnter

\* Comparing the hashes, or failing to reach the core, keeps the types.
LEMMA StartCheckType ==
  ASSUME TypeOK, NEW p \in Procs, StartCheck(p) \/ StartUnhealthy(p)
  PROVE  /\ TypeOK' /\ h[p].pc \in {"healthy", "unhealthy"} /\ UNCHANGED coreVars
         /\ \/ MovesTo(p, "down") /\ config' = h[p].cfg /\ starting' = starting
            \/ MovesTo(p, "done") /\ UNCHANGED config /\ ~starting'
<1>1. h[p].pc \in {"healthy", "unhealthy"} /\ UNCHANGED <<coreVars, cur>>
  BY DEF StartCheck, StartUnhealthy
<1>2. CASE /\ online' \in BOOLEAN /\ starting' = starting /\ Extract(p)
  <2>1. /\ HandlerType' /\ MirrorType' /\ MovesTo(p, "down")
        /\ config' = h[p].cfg
    BY <1>1, <1>2, ExtractType DEF TypeOK
  <2>2. AgentType'
    BY <1>1, <1>2, Zenon DEF TypeOK, AgentType
  <2>3. TypeOK'
    BY <1>1, <2>1, <2>2, Kept DEF TypeOK
  <2> QED BY <1>1, <1>2, <2>1, <2>3
<1>3. CASE /\ UNCHANGED online /\ starting' = FALSE
           /\ Goto(p, Done(h[p], "uptodate")) /\ UNCHANGED mirrorVars
  <2>1. HandlerType' /\ MovesTo(p, "done")
    BY <1>3, DoneMove DEF TypeOK
  <2>2. AgentType'
    BY <1>1, <1>3, Zenon DEF TypeOK, AgentType
  <2>3. TypeOK' /\ UNCHANGED config
    BY <1>1, <1>3, <2>1, <2>2, Kept DEF TypeOK, mirrorVars
  <2> QED BY <1>1, <1>3, <2>1, <2>3
<1>4. CASE StartCheck(p)
  <2>1. online' = online /\ online \in BOOLEAN
    BY <1>4, Zenon DEF StartCheck, TypeOK, AgentType
  <2>2. online' \in BOOLEAN
    BY <2>1, Zenon
  <2> QED BY <1>2, <1>3, <1>4, <2>2, Zenon DEF StartCheck
<1>5. CASE StartUnhealthy(p)
  <2>1. online' \in BOOLEAN /\ starting' = starting /\ Extract(p)
    BY <1>5, Zenon DEF StartUnhealthy
  <2> QED BY <1>2, <2>1
<1> QED BY <1>4, <1>5

\* A restart that fails.
LEMMA StartFailedType ==
  ASSUME TypeOK, NEW p \in Procs, StartFailed(p), CoreType'
  PROVE  /\ TypeOK' /\ MovesTo(p, "done") /\ UNCHANGED config /\ ~starting'
<1>1. /\ UNCHANGED <<online, mirrorVars, cur>> /\ starting' = FALSE
      /\ Goto(p, Done(h[p], "fail"))
  BY DEF StartFailed
<1>2. HandlerType' /\ MovesTo(p, "done")
  BY <1>1, DoneMove DEF TypeOK
<1>3. AgentType'
  BY <1>1, Zenon DEF TypeOK, AgentType
<1>4. TypeOK' /\ UNCHANGED config
  BY <1>1, <1>2, <1>3, Kept DEF TypeOK, mirrorVars
<1> QED BY <1>1, <1>2, <1>4

\* The first s6-svc of a restart keeps the types.
LEMMA StartDownType ==
  ASSUME TypeOK, NEW p \in Procs, StartDown(p)
  PROVE  /\ TypeOK' /\ h[p].pc = "down" /\ UNCHANGED config
         /\ \/ MovesTo(p, "up") /\ UNCHANGED starting /\ core' = "down"
            \/ MovesTo(p, "done") /\ ~starting'
<1>1. CASE CoreGone /\ Goto(p, [h[p] EXCEPT !.pc = "up"])
           /\ UNCHANGED <<agentVars, mirrorVars, cur>> /\ h[p].pc = "down"
  <2>1. HandlerType' /\ MovesTo(p, "up")
    BY <1>1, StartMove DEF TypeOK, Locked, Restarting
  <2>2. TypeOK'
    BY <1>1, <2>1, CoreGoneType, Kept DEF TypeOK
  <2> QED BY <1>1, <2>1, <2>2 DEF CoreGone, agentVars, mirrorVars
<1>2. CASE (CoreGone \/ UNCHANGED coreVars) /\ StartFailed(p)
           /\ h[p].pc = "down"
  <2>1. CoreType'
    BY <1>2, CoreGoneType, Kept DEF TypeOK
  <2> QED BY <1>2, <2>1, StartFailedType
<1> QED BY <1>1, <1>2 DEF StartDown

\* The second s6-svc of a restart keeps the types.
LEMMA StartUpType ==
  ASSUME TypeOK, NEW p \in Procs, StartUp(p)
  PROVE  /\ TypeOK' /\ h[p].pc = "up" /\ UNCHANGED <<config, coreBase, served>>
         /\ core' \in {core, "boot"}
         /\ \/ MovesTo(p, "ready") /\ UNCHANGED starting
            \/ MovesTo(p, "done") /\ ~starting'
<1>0. CoreType'
  BY DEF StartUp, TypeOK, CoreType
<1>1. CASE /\ core' = "boot" /\ Goto(p, [h[p] EXCEPT !.pc = "ready"])
           /\ UNCHANGED <<agentVars, mirrorVars, coreBase, table, served, cur>>
           /\ h[p].pc = "up"
  <2>1. HandlerType' /\ MovesTo(p, "ready")
    BY <1>1, StartMove DEF TypeOK, Locked, Restarting
  <2>2. TypeOK'
    BY <1>0, <1>1, <2>1, Kept DEF TypeOK
  <2> QED BY <1>1, <2>1, <2>2 DEF agentVars, mirrorVars
<1>2. CASE /\ core' \in {core, "boot"} /\ StartFailed(p) /\ h[p].pc = "up"
           /\ UNCHANGED <<coreBase, table, served>>
  BY <1>0, <1>2, StartFailedType
<1> QED BY <1>1, <1>2 DEF StartUp

\* The three ends of a restart that came up, or did not, keep the types.
LEMMA StartEndType ==
  ASSUME TypeOK, NEW p \in Procs,
         StartEnd(p) \/ StartNotReady(p) \/ StartDumped(p)
  PROVE  /\ TypeOK' /\ h[p].pc \in {"answered", "silent", "dump"}
         /\ UNCHANGED config /\ UNCHANGED coreVars
         /\ \/ MovesTo(p, "dump") /\ UNCHANGED starting
            \/ MovesTo(p, "done") /\ ~starting'
<1>1. CASE StartEnd(p)
  <2>1. /\ h[p].pc = "answered" /\ Goto(p, Done(h[p], "started"))
        /\ online' = TRUE /\ starting' = FALSE
        /\ UNCHANGED <<mirrorVars, coreVars, cur>>
    BY <1>1 DEF StartEnd
  <2>2. HandlerType' /\ MovesTo(p, "done")
    BY <2>1, DoneMove DEF TypeOK
  <2>3. AgentType'
    BY <2>1, Zenon DEF AgentType
  <2>4. TypeOK' /\ UNCHANGED config
    BY <2>1, <2>2, <2>3, Kept DEF TypeOK, mirrorVars
  <2> QED BY <2>1, <2>2, <2>4
<1>2. CASE StartNotReady(p)
  <2>1. /\ h[p].pc = "silent" /\ Goto(p, [h[p] EXCEPT !.pc = "dump"])
        /\ online' = FALSE /\ starting' = starting
        /\ UNCHANGED <<mirrorVars, coreVars, cur>>
    BY <1>2, Zenon DEF StartNotReady
  <2>2. HandlerType' /\ MovesTo(p, "dump")
    BY <2>1, StartMove DEF TypeOK, Locked, Restarting
  <2>3. AgentType'
    BY <2>1, Zenon DEF TypeOK, AgentType
  <2>4. TypeOK' /\ UNCHANGED config
    BY <2>1, <2>2, <2>3, Kept DEF TypeOK, mirrorVars
  <2> QED BY <2>1, <2>2, <2>4
<1>3. CASE StartDumped(p)
  <2>1. h[p].pc = "dump" /\ StartFailed(p) /\ UNCHANGED coreVars
    BY <1>3 DEF StartDumped
  <2>2. CoreType'
    BY <2>1, Kept DEF TypeOK
  <2> QED BY <2>1, <2>2, StartFailedType
<1> QED BY <1>1, <1>2, <1>3

\* An answer of getSysStats keeps the types.
LEMMA CoreStatsType ==
  ASSUME TypeOK, NEW p \in Procs, CoreStats(p)
  PROVE  /\ TypeOK' /\ UNCHANGED <<starting, config, core, coreBase, served>>
         /\ \/ h[p].pc = "stats"
               /\ (MovesTo(p, "healthy") \/ MovesTo(p, "unhealthy"))
            \/ h[p].pc = "ready"
               /\ (MovesTo(p, "answered") \/ MovesTo(p, "silent"))
<1>1. UNCHANGED <<agentVars, mirrorVars, coreVars, cur>>
  BY DEF CoreStats
<1>2. CASE h[p].pc = "stats"
  <2>1. PICK x \in {"healthy", "unhealthy"} : Goto(p, [h[p] EXCEPT !.pc = x])
    BY <1>2 DEF CoreStats
  <2>2. HandlerType' /\ MovesTo(p, x)
    BY <1>2, <2>1, StartMove DEF TypeOK, Locked
  <2>3. TypeOK'
    BY <1>1, <2>2, Kept DEF TypeOK
  <2> QED BY <1>1, <1>2, <2>2, <2>3 DEF agentVars, mirrorVars, coreVars
<1>3. CASE h[p].pc = "ready"
  <2>1. PICK x \in {"answered", "silent"} : Goto(p, [h[p] EXCEPT !.pc = x])
    BY <1>3 DEF CoreStats
  <2>2. HandlerType' /\ MovesTo(p, x)
    BY <1>3, <2>1, StartMove DEF TypeOK, Locked, Restarting
  <2>3. TypeOK'
    BY <1>1, <2>2, Kept DEF TypeOK
  <2> QED BY <1>1, <1>3, <2>2, <2>3 DEF agentVars, mirrorVars, coreVars
<1> QED BY <1>2, <1>3 DEF CoreStats

\* The steps of stopXray that stop the core and clear the mirror: they may
\* come at any moment of a start.
LEMMA StopType ==
  ASSUME TypeOK, NEW p \in Procs, StopKill(p) \/ StopEnd(p)
  PROVE  /\ TypeOK' /\ UNCHANGED starting /\ config' \in {config, None}
         /\ CoreGone \/ UNCHANGED coreVars
         /\ h[p].pc \notin Locked /\ h'[p].pc \notin Locked
         /\ Elsewhere(p)
         /\ \A q \in Procs \ {p} : Same(h'[q], h[q])
<1>0. h[p] \in Handlers
  BY DEF TypeOK, HandlerType
<1>1. CASE StopKill(p)
  <2>1. /\ h[p].pc = "kill" /\ Goto(p, [h[p] EXCEPT !.pc = "killed"])
        /\ CoreGone \/ UNCHANGED coreVars
        /\ UNCHANGED <<agentVars, mirrorVars, cur>>
    BY <1>1 DEF StopKill
  <2>2. IsSet([h[p] EXCEPT !.pc = "killed"])
    BY <1>0 DEF Handlers, Records, IsSet, InLoop, Locked, Restarting
  <2>3. HandlerType' /\ MovesTo(p, "killed")
    BY <2>1, <2>2, PcMove DEF TypeOK, Pcs
  <2>4. TypeOK'
    BY <2>1, <2>3, CoreGoneType, Kept DEF TypeOK
  <2> QED BY <2>1, <2>3, <2>4 DEF MovesTo, Elsewhere, Locked, Restarting,
                              agentVars, mirrorVars
<1>2. CASE StopEnd(p)
  <2>1. /\ h[p].pc = "killed" /\ Goto(p, Done(h[p], "ok"))
        /\ online' = FALSE /\ starting' = starting
        /\ config' = None /\ mapped' = {} /\ mirror' = NoUsers /\ xtls' = {}
        /\ UNCHANGED <<coreVars, cur>>
    BY <1>2, Zenon DEF StopEnd
  <2>2. HandlerType' /\ MovesTo(p, "done")
    BY <2>1, DoneMove DEF TypeOK
  <2>3. AgentType'
    BY <2>1, Zenon DEF TypeOK, AgentType
  <2>4. MirrorType'
    BY <2>1 DEF MirrorType, NoUsers
  <2>5. TypeOK'
    BY <2>1, <2>2, <2>3, <2>4, Kept DEF TypeOK
  <2> QED BY <2>1, <2>2, <2>5 DEF MovesTo, Elsewhere, Locked, Restarting
<1> QED BY <1>1, <1>2

\* The core that boots, or dies.
LEMMA CoreStepType ==
  ASSUME TypeOK, CoreBoot \/ CoreCrash
  PROVE  /\ TypeOK' /\ UNCHANGED <<starting, config, h>>
         /\ \/ core' = "down"
            \/ /\ core = "boot" /\ config # None /\ core' = "up"
               /\ coreBase' = config.base /\ served' = config.tags
<1>1. UNCHANGED <<agentVars, mirrorVars, cur, h>>
  BY DEF CoreBoot, CoreCrash
<1>2. CASE CoreGone
  <2>1. TypeOK'
    BY <1>1, <1>2, CoreGoneType, Kept DEF TypeOK, HandlerType
  <2> QED BY <1>1, <1>2, <2>1 DEF CoreGone, agentVars, mirrorVars
<1>3. CASE /\ core = "boot" /\ config # None /\ core' = "up"
           /\ coreBase' = config.base /\ table' = config.users
           /\ served' = config.tags
  <2>1. CoreType'
    BY <1>3 DEF TypeOK, MirrorType, CoreType, Configs
  <2>2. TypeOK'
    BY <1>1, <2>1, Kept DEF TypeOK, HandlerType
  <2> QED BY <1>1, <1>3, <2>2 DEF agentVars, mirrorVars
<1> QED BY <1>2, <1>3 DEF CoreBoot, CoreCrash

-----------------------------------------------------------------------------
\* Each service, the core and every request in flight keep to their types.
THEOREM TypeCorrect == Spec => []TypeOK
<1>1. Init => TypeOK
  <2> SUFFICES ASSUME Init PROVE TypeOK
    OBVIOUS
  <2>1. AgentType
    BY Zenon DEF Init, AgentType
  <2>2. MirrorType /\ CoreType
    BY DEF Init, MirrorType, CoreType, NoUsers
  <2>3. CurType
    BY MaxKeyAssumption DEF Init, CurType
  <2>4. HandlerType
    BY IdleType DEF Init, HandlerType
  <2> QED BY <2>1, <2>2, <2>3, <2>4 DEF TypeOK
<1>2. TypeOK /\ [Next]_vars => TypeOK'
  <2> SUFFICES ASSUME TypeOK, [Next]_vars PROVE TypeOK'
    OBVIOUS
  <2>1. CASE UNCHANGED vars
    BY <2>1, Kept DEF vars, TypeOK, HandlerType
  <2>2. ASSUME NEW p \in Procs, Begin(p) PROVE TypeOK'
    BY <2>2, AddsType, RemovesType, BeginStartType, BeginStopType DEF Begin
  <2>3. ASSUME NEW p \in Procs, Handle(p) PROVE TypeOK'
    BY <2>3, LoopStepType, StartEnterType, StartCheckType, StartDownType,
       StartUpType, StartEndType, StopEnterType, StopType, ReturnType,
       CoreUsersType, CoreStatsType DEF Handle
  <2>4. CASE CoreBoot \/ CoreCrash
    BY <2>4, CoreStepType
  <2> QED BY <2>1, <2>2, <2>3, <2>4 DEF Next
<1> QED BY <1>1, <1>2, PTL DEF Spec

-----------------------------------------------------------------------------
(* The lock of startXray and the isolation of starts.  StartedIsOwn is not *)
(* inductive: what makes the answering core the request's own is that no   *)
(* core lives between s6's two commands, and that from then on a core that *)
(* is up has fetched the configuration of the one request at work.         *)

Booted == {"ready", "answered", "silent", "dump"}

CoreOfStart ==
  \A p \in Procs :
    /\ h[p].pc = "up" => core = "down"
    /\ h[p].pc \in Booted /\ core = "up" =>
         coreBase = h[p].cfg.base /\ served = h[p].cfg.tags

Isolation == StartExclusive /\ StartedIsOwn /\ CoreOfStart

\* Steps that leave the starts alone keep them isolated.
LEMMA QuietIsolated ==
  ASSUME Isolation, NEW p \in Procs, Quiet(p)
  PROVE  Isolation'
<1>1. \A q \in Procs : h'[q].pc \in Locked \/ h[q].pc \in Locked =>
        h'[q].pc = h[q].pc /\ h'[q].cfg = h[q].cfg
  BY DEF Quiet, Same
<1>2. Restarting \subseteq Locked /\ Booted \subseteq Locked
      /\ "up" \in Locked /\ "answered" \in Locked
  BY DEF Locked, Restarting, Booted
<1>3. starting' = starting /\ config' = config /\ core' = core
      /\ coreBase' = coreBase /\ served' = served
  BY DEF Quiet
<1>4. StartExclusive'
  <2>1. \A q \in Procs : h'[q].pc \in Locked <=> h[q].pc \in Locked
    BY <1>1
  <2> QED BY <2>1, <1>3, Zenon DEF Isolation, StartExclusive
<1>5. StartedIsOwn'
  BY <1>1, <1>2, <1>3 DEF Isolation, StartedIsOwn
<1>6. CoreOfStart'
  BY <1>1, <1>2, <1>3 DEF Isolation, CoreOfStart
<1> QED BY <1>4, <1>5, <1>6 DEF Isolation

\* When p holds the lock or is about to take it, only p matters.
LEMMA Holder ==
  ASSUME Isolation, NEW p \in Procs,
         h[p].pc \in Locked \/ ~starting,
         \A q \in Procs \ {p} : Same(h'[q], h[q])
  PROVE  \A q \in Procs \ {p} : h'[q].pc \notin Locked
<1>1. \A q \in Procs \ {p} : h[q].pc \notin Locked
  BY Zenon DEF Isolation, StartExclusive
<1> QED BY <1>1 DEF Same

\* When only p may be at work on a start, isolation is a matter of p's record.
LEMMA HolderIsolated ==
  ASSUME NEW p \in Procs,
         \A q \in Procs \ {p} : h'[q].pc \notin Locked,
         starting' <=> h'[p].pc \in Locked,
         h'[p].pc \in Restarting => config' \in {None, h'[p].cfg},
         h'[p].pc = "up" => core' = "down",
         h'[p].pc \in Booted /\ core' = "up" =>
           coreBase' = h'[p].cfg.base /\ served' = h'[p].cfg.tags
  PROVE  Isolation'
<1>1. Restarting \subseteq Locked /\ Booted \subseteq Locked
      /\ "up" \in Locked /\ "answered" \in Booted
  BY DEF Locked, Restarting, Booted
<1>2. StartExclusive'
  BY Zenon DEF StartExclusive
<1>3. StartedIsOwn'
  BY <1>1 DEF StartedIsOwn
<1>4. CoreOfStart'
  BY <1>1 DEF CoreOfStart
<1> QED BY <1>2, <1>3, <1>4 DEF Isolation

\* A request that ends its start leaves the lock free.
LEMMA ReleaseIsolated ==
  ASSUME Isolation, NEW p \in Procs, h[p].pc \in Locked,
         MovesTo(p, "done"), ~starting'
  PROVE  Isolation'
<1>1. \A q \in Procs \ {p} : h'[q].pc \notin Locked
  BY Holder DEF MovesTo
<1>2. h'[p].pc = "done" /\ "done" \notin Locked
      /\ "done" \notin Restarting /\ "done" \notin Booted
  BY DEF MovesTo, Locked, Restarting, Booted
<1>3. starting' <=> h'[p].pc \in Locked
  BY <1>2, Zenon
<1> QED BY <1>1, <1>2, <1>3, HolderIsolated

\* A request that goes on with its start keeps the lock.
LEMMA HoldIsolated ==
  ASSUME Isolation, NEW p \in Procs, NEW x \in Locked,
         MovesTo(p, x),
         \/ h[p].pc \in Locked /\ starting' = starting
         \/ ~starting /\ starting',
         x \in Restarting => config' \in {None, h[p].cfg},
         x = "up" => core' = "down",
         x \in Booted /\ core' = "up" =>
           coreBase' = h[p].cfg.base /\ served' = h[p].cfg.tags
  PROVE  Isolation'
<1>1. \A q \in Procs \ {p} : h'[q].pc \notin Locked
  BY Holder DEF MovesTo
<1>2. h'[p].pc = x /\ h'[p].cfg = h[p].cfg
  BY DEF MovesTo
<1>3. h[p].pc \in Locked => starting
  BY Zenon DEF Isolation, StartExclusive
<1>4. starting'
  <2>1. CASE h[p].pc \in Locked /\ starting' = starting
    <3>1. starting
      BY <1>3, <2>1
    <3> QED BY <2>1, <3>1
  <2> QED BY <2>1
<1>5. starting' <=> h'[p].pc \in Locked
  BY <1>2, <1>4, Zenon
<1> QED BY <1>1, <1>2, <1>5, HolderIsolated

\* Every step of startXray keeps the starts isolated.
LEMMA IsolationStart ==
  ASSUME TypeOK, Isolation, NEW p \in Procs,
         \/ StartEnter(p) \/ StartCheck(p) \/ StartUnhealthy(p)
         \/ StartDown(p) \/ StartUp(p) \/ CoreStats(p)
         \/ StartEnd(p) \/ StartNotReady(p) \/ StartDumped(p)
  PROVE  Isolation'
<1> USE DEF Locked, Restarting, Booted
<1>1. CASE StartEnter(p)
  <2>1. CASE Quiet(p)
    BY <2>1, QuietIsolated
  <2>2. CASE ~starting /\ starting' /\ MovesTo(p, "stats")
    BY <2>2, HoldIsolated
  <2>3. CASE ~starting /\ starting' /\ MovesTo(p, "down") /\ config' = h[p].cfg
    BY <2>3, HoldIsolated
  <2> QED BY <1>1, <2>1, <2>2, <2>3, StartEnterType, Zenon
<1>2. CASE StartCheck(p) \/ StartUnhealthy(p)
  <2>1. /\ h[p].pc \in {"healthy", "unhealthy"}
        /\ \/ MovesTo(p, "down") /\ config' = h[p].cfg /\ starting' = starting
           \/ MovesTo(p, "done") /\ ~starting'
    BY <1>2, StartCheckType, Zenon
  <2>2. CASE MovesTo(p, "down") /\ config' = h[p].cfg /\ starting' = starting
    BY <2>1, <2>2, HoldIsolated
  <2>3. CASE MovesTo(p, "done") /\ ~starting'
    BY <2>1, <2>3, ReleaseIsolated
  <2> QED BY <2>1, <2>2, <2>3, Zenon
<1>3. CASE StartDown(p)
  <2>1. h[p].pc = "down" /\ config' = config
        /\ \/ MovesTo(p, "up") /\ starting' = starting /\ core' = "down"
           \/ MovesTo(p, "done") /\ ~starting'
    BY <1>3, StartDownType, Zenon
  <2>2. config \in {None, h[p].cfg}
    BY <2>1 DEF Isolation, StartedIsOwn
  <2>3. CASE MovesTo(p, "up") /\ starting' = starting /\ core' = "down"
    BY <2>1, <2>2, <2>3, HoldIsolated
  <2>4. CASE MovesTo(p, "done") /\ ~starting'
    BY <2>1, <2>4, ReleaseIsolated
  <2> QED BY <2>1, <2>3, <2>4, Zenon
<1>4. CASE StartUp(p)
  <2>1. h[p].pc = "up" /\ config' = config /\ core' \in {core, "boot"}
        /\ \/ MovesTo(p, "ready") /\ starting' = starting
           \/ MovesTo(p, "done") /\ ~starting'
    BY <1>4, StartUpType, Zenon
  <2>2. config \in {None, h[p].cfg} /\ core' # "up"
    BY <2>1 DEF Isolation, StartedIsOwn, CoreOfStart
  <2>3. CASE MovesTo(p, "ready") /\ starting' = starting
    BY <2>1, <2>2, <2>3, HoldIsolated
  <2>4. CASE MovesTo(p, "done") /\ ~starting'
    BY <2>1, <2>4, ReleaseIsolated
  <2> QED BY <2>1, <2>3, <2>4, Zenon
<1>5. CASE CoreStats(p)
  <2>1. /\ starting' = starting /\ config' = config /\ core' = core
        /\ coreBase' = coreBase /\ served' = served
        /\ \/ h[p].pc = "stats"
               /\ (MovesTo(p, "healthy") \/ MovesTo(p, "unhealthy"))
           \/ h[p].pc = "ready"
               /\ (MovesTo(p, "answered") \/ MovesTo(p, "silent"))
    BY <1>5, CoreStatsType, Zenon
  <2>2. CASE h[p].pc = "stats"
    BY <2>1, <2>2, HoldIsolated
  <2>3. CASE h[p].pc = "ready"
    <3>1. /\ config \in {None, h[p].cfg}
          /\ core = "up" => coreBase = h[p].cfg.base /\ served = h[p].cfg.tags
      BY <2>3 DEF Isolation, StartedIsOwn, CoreOfStart
    <3> QED BY <2>1, <2>3, <3>1, HoldIsolated
  <2> QED BY <2>1, <2>2, <2>3
<1>6. CASE StartEnd(p) \/ StartNotReady(p) \/ StartDumped(p)
  <2>1. /\ h[p].pc \in {"answered", "silent", "dump"} /\ config' = config
        /\ UNCHANGED coreVars
        /\ \/ MovesTo(p, "dump") /\ starting' = starting
           \/ MovesTo(p, "done") /\ ~starting'
    BY <1>6, StartEndType, Zenon
  <2>2. CASE MovesTo(p, "dump") /\ starting' = starting
    <3>1. /\ config \in {None, h[p].cfg}
          /\ core = "up" => coreBase = h[p].cfg.base /\ served = h[p].cfg.tags
      BY <2>1 DEF Isolation, StartedIsOwn, CoreOfStart
    <3>2. core' = core /\ coreBase' = coreBase /\ served' = served
      BY <2>1 DEF coreVars
    <3> QED BY <2>1, <2>2, <3>1, <3>2, HoldIsolated
  <2>3. CASE MovesTo(p, "done") /\ ~starting'
    BY <2>1, <2>3, ReleaseIsolated
  <2> QED BY <2>1, <2>2, <2>3, Zenon
<1> QED BY <1>1, <1>2, <1>3, <1>4, <1>5, <1>6

\* A stop in the middle of a start takes its core or its configuration away,
\* but never gives it another one.
LEMMA IsolationStop ==
  ASSUME TypeOK, Isolation, NEW p \in Procs, StopKill(p) \/ StopEnd(p)
  PROVE  Isolation'
<1>1. /\ starting' = starting /\ config' \in {config, None}
      /\ core' = "down"
         \/ (core' = core /\ coreBase' = coreBase /\ served' = served)
      /\ h[p].pc \notin Locked /\ h'[p].pc \notin Locked
      /\ \A q \in Procs \ {p} : Same(h'[q], h[q])
  BY StopType DEF CoreGone, coreVars
<1>2. \A q \in Procs : h'[q].pc \in Locked \/ h[q].pc \in Locked =>
        h'[q].pc = h[q].pc /\ h'[q].cfg = h[q].cfg
  BY <1>1 DEF Same
<1>3. Restarting \subseteq Locked /\ Booted \subseteq Locked
      /\ "up" \in Locked /\ "answered" \in Locked
  BY DEF Locked, Restarting, Booted
<1>4. StartExclusive'
  <2>1. \A q \in Procs : h'[q].pc \in Locked <=> h[q].pc \in Locked
    BY <1>1, <1>2
  <2> QED BY <2>1, <1>1, Zenon DEF Isolation, StartExclusive
<1>5. StartedIsOwn'
  BY <1>1, <1>2, <1>3 DEF Isolation, StartedIsOwn
<1>6. CoreOfStart'
  BY <1>1, <1>2, <1>3 DEF Isolation, CoreOfStart
<1> QED BY <1>4, <1>5, <1>6 DEF Isolation

\* The core that boots fetches the configuration of the start at work.
LEMMA IsolationCore ==
  ASSUME TypeOK, Isolation, CoreBoot \/ CoreCrash
  PROVE  Isolation'
<1>1. /\ starting' = starting /\ config' = config /\ h' = h
      /\ \/ core' = "down"
         \/ /\ core = "boot" /\ config # None /\ core' = "up"
            /\ coreBase' = config.base /\ served' = config.tags
  BY CoreStepType, Zenon
<1>2. StartExclusive'
  BY <1>1, Zenon DEF Isolation, StartExclusive
<1>3. Booted \subseteq Restarting /\ "answered" \in Booted
  BY DEF Restarting, Booted
<1>4. ASSUME NEW p \in Procs, core' = "up"
      PROVE  /\ h[p].pc # "up"
             /\ h[p].pc \in Booted =>
                  coreBase' = h[p].cfg.base /\ served' = h[p].cfg.tags
  BY <1>1, <1>3, <1>4 DEF Isolation, StartedIsOwn, CoreOfStart
<1>5. core' \in {"down", "up"}
  BY <1>1
<1>6. StartedIsOwn'
  BY <1>1, <1>3, <1>4 DEF Isolation, StartedIsOwn
<1>7. CoreOfStart'
  BY <1>1, <1>4, <1>5 DEF CoreOfStart
<1> QED BY <1>2, <1>6, <1>7 DEF Isolation

\* Isolation holds in every state: it is the inductive form of the two theorems
\* below, which it strengthens with what a booted core has fetched.
LEMMA IsolationInvariant == Spec => []Isolation
<1>1. Init => Isolation
  <2> SUFFICES ASSUME Init PROVE Isolation
    OBVIOUS
  <2>1. ~starting /\ \A p \in Procs : h[p].pc = "idle"
    BY Zenon DEF Init, Idle
  <2>2. "idle" \notin Locked /\ "idle" \notin Restarting /\ "idle" \notin Booted
    BY DEF Locked, Restarting, Booted
  <2>3. StartExclusive
    BY <2>1, <2>2, Zenon DEF StartExclusive
  <2>4. StartedIsOwn /\ CoreOfStart
    BY <2>1, <2>2 DEF StartedIsOwn, CoreOfStart
  <2> QED BY <2>3, <2>4 DEF Isolation
<1>2. TypeOK /\ Isolation /\ [Next]_vars => Isolation'
  <2> SUFFICES ASSUME TypeOK, Isolation, [Next]_vars PROVE Isolation'
    OBVIOUS
  <2>1. CASE UNCHANGED vars
    BY <2>1 DEF vars, agentVars, mirrorVars, coreVars, Isolation,
                StartExclusive, StartedIsOwn, CoreOfStart
  <2>2. ASSUME NEW p \in Procs, Begin(p) PROVE Isolation'
    BY <2>2, AddsType, RemovesType, BeginStartType, BeginStopType,
       QuietIsolated DEF Begin
  <2>3. ASSUME NEW p \in Procs, Handle(p) PROVE Isolation'
    BY <2>3, LoopStepType, StopEnterType, ReturnType, CoreUsersType,
       QuietIsolated, IsolationStart, IsolationStop DEF Handle
  <2>4. CASE CoreBoot \/ CoreCrash
    BY <2>4, IsolationCore
  <2> QED BY <2>1, <2>2, <2>3, <2>4 DEF Next
<1> QED BY <1>1, <1>2, TypeCorrect, PTL DEF Spec

\* At most one startXray is at work, and the flag says whether one is: for
\* every set of requests that overlap and whatever fails.
THEOREM StartsExclude == Spec => []StartExclusive
<1>1. Isolation => StartExclusive
  BY DEF Isolation
<1> QED BY <1>1, IsolationInvariant, PTL

\* A start never answers for the configuration of another one.
THEOREM StartsIsolated == Spec => []StartedIsOwn
<1>1. Isolation => StartedIsOwn
  BY DEF Isolation
<1> QED BY <1>1, IsolationInvariant, PTL

-----------------------------------------------------------------------------
(* One request at a time.                                                  *)

\* The panel waits for an answer before it asks again, and nothing but the core
\* fails.
OneByOne == Faults \subseteq {"crash"} /\ \A p, q \in Procs : p = q

\* No inbound of X gives the user of n anything in T, or anything but what n asks.
GoneFrom(n, X, T) == \A t \in X : \A c \in T[t] : Owner(c) # Owner(n.cr)
HeldIn(n, X, T) ==
  \A t \in X : \A c \in T[t] : Owner(c) = Owner(n.cr) => c = n.cr /\ t \in n.want

\* The loop that removes has cleared the inbounds it has seen, the loop that adds
\* gives what the request asks, and so does an answer.
Fits(n, X, T) ==
  /\ n.pc = "ips" => n.seen = {}
  /\ n.pc = "remove" => GoneFrom(n, (X \cap n.seen) \ {n.tag}, T)
  /\ n.pc = "removed" => GoneFrom(n, X \cap n.seen, T)
  /\ n.pc \in {"add", "added", "refused"} =>
       n.tag \in n.want /\ n.todo \subseteq n.want /\ HeldIn(n, X, T)
  /\ n.pc \in {"plugin", "kill", "killed"} => n.cr = None
  /\ n.pc = "done" /\ n.reply = "ok" /\ n.cr # None => HeldIn(n, X, T)

\* While isXrayOnline is set, a core boots only if a start waits for it.
CoreKnown(p) ==
  /\ core # "up" => table = NoUsers
  /\ h[p].pc = "up" => core = "down"
  /\ h[p].pc = "answered" => core # "boot"
  /\ online /\ core = "boot" => h[p].pc \in {"ready", "silent"}

Exactness(p) == CoreKnown(p) /\ (online => Fits(h[p], xtls, table))

\* Where nothing is promised.
Free(n) ==
  \/ n.pc \in Locked \cup {"iface", "idle"}
  \/ n.pc = "done" /\ n.reply \in {"busy", "uptodate", "started", "fail"}

\* There Fits holds, whatever the core accepts.
LEMMA FreeFits == ASSUME NEW n, Free(n), NEW X, NEW T PROVE Fits(n, X, T)
BY DEF Free, Fits, Locked, Restarting

LEMMA DoneIs ==
  ASSUME NEW l, NEW r
  PROVE  /\ Done(l, r).pc = "done" /\ Done(l, r).reply = r
         /\ Done(l, r).cr = l.cr /\ Done(l, r).want = l.want
BY DEF Done, Idle

LEMMA MoveIn ==
  ASSUME NEW p \in Procs, NEW S, NEW fresh, Move(p, S, fresh)
  PROVE  h'[p] \in S
BY DEF Move

LEMMA GotoIs == ASSUME NEW p \in Procs, NEW n, Goto(p, n) PROVE h'[p] = n
BY MoveIn DEF Goto

LEMMA AddingFits ==
  ASSUME NEW l \in Handlers, l.todo \subseteq l.want, NEW X, NEW T, HeldIn(l, X, T),
         NEW n \in Adding(l)
  PROVE  Fits(n, X, T) /\ n.pc = "add"
<1>1. PICK t \in l.todo : n = [l EXCEPT !.pc = "add", !.tag = t,
                                        !.todo = l.todo \ {t}]
  BY DEF Adding
<1>2. n.pc = "add" /\ n.tag = t /\ n.todo = l.todo \ {t} /\ n.want = l.want /\ n.cr = l.cr
  BY <1>1 DEF Handlers, Records
<1>3. HeldIn(n, X, T)
  BY <1>2 DEF HeldIn
<1> QED BY <1>2, <1>3 DEF Fits

LEMMA RemoveNextFits ==
  ASSUME NEW l \in Handlers, NEW X, NEW T, l.cr = None \/ HeldIn(l, X, T),
         NEW n \in RemoveNext(l)
  PROVE  Fits(n, X, T)
<1>1. CASE l.left = {}
  <2>1. PICK r \in {"ok", "fail"} : n = Done(l, r)
    BY <1>1 DEF RemoveNext
  <2>2. n.pc = "done" /\ n.cr = l.cr /\ n.want = l.want
    BY <2>1, DoneIs
  <2> QED BY <2>2 DEF Fits, HeldIn
<1>2. CASE l.left # {}
  <2>1. PICK c \in l.left : n = [l EXCEPT !.pc = "ips", !.cr = c,
                                          !.left = l.left \ {c}, !.seen = {}]
    BY <1>2 DEF RemoveNext
  <2>2. n.pc = "ips" /\ n.seen = {}
    BY <2>1 DEF Handlers, Records
  <2> QED BY <2>2 DEF Fits
<1> QED BY <1>1, <1>2

\* The next turn of the loop over inbounds, when those seen are cleared.
LEMMA LoopFits ==
  ASSUME NEW l \in Handlers, NEW X \in SUBSET Tags, NEW T,
         GoneFrom(l, X \cap l.seen, T), NEW n \in Loop(l, X)
  PROVE  Fits(n, X, T)
<1>1. CASE X \ l.seen # {}
  <2>1. PICK t \in X \ l.seen :
          n = [l EXCEPT !.pc = "remove", !.tag = t, !.seen = @ \cup {t}]
    BY <1>1 DEF Loop
  <2>2. n.pc = "remove" /\ n.tag = t /\ n.seen = l.seen \cup {t} /\ n.cr = l.cr
    BY <2>1 DEF Handlers, Records
  <2>3. GoneFrom(n, (X \cap n.seen) \ {n.tag}, T)
    BY <2>2 DEF GoneFrom
  <2> QED BY <2>2, <2>3 DEF Fits
<1>2. CASE X \ l.seen = {}
  <2>1. HeldIn(l, X, T)
    BY <1>2 DEF GoneFrom, HeldIn
  <2>2. CASE l.op \in AddOps
    <3> DEFINE m == [l EXCEPT !.todo = l.want]
    <3>1. /\ m \in Records /\ m.pc = l.pc /\ m.tag = l.tag /\ m.cr = l.cr
          /\ m.cfg = l.cfg /\ m.todo = l.want /\ m.want = l.want
      BY DEF Handlers, Records
    <3>2. n \in Adding(m)
      BY <1>2, <2>2 DEF Loop
    <3> HIDE DEF m
    <3>3. m \in Handlers /\ HeldIn(m, X, T)
      BY <3>1, <2>1 DEF Handlers, IsSet, HeldIn
    <3> QED BY <3>1, <3>2, <3>3, AddingFits
  <2>3. CASE l.op \notin AddOps
    BY <1>2, <2>1, <2>3, RemoveNextFits DEF Loop
  <2> QED BY <2>2, <2>3
<1> QED BY <1>1, <1>2

LEMMA NextToAddFits ==
  ASSUME NEW l \in Handlers, NEW X \in SUBSET Tags, NEW T, NEW n \in NextToAdd(l, X)
  PROVE  Fits(n, X, T)
<1>1. PICK c \in l.left :
        n \in Loop([l EXCEPT !.cr = c, !.left = @ \ {c}, !.seen = {}], X)
  BY DEF NextToAdd
<1> DEFINE m == [l EXCEPT !.cr = c, !.left = @ \ {c}, !.seen = {}]
<1>2. /\ m \in Records /\ m.pc = l.pc /\ m.tag = l.tag /\ m.cr = c /\ c \in Creds
      /\ m.cfg = l.cfg /\ m.seen = {}
  BY DEF Handlers, Records
<1>3. n \in Loop(m, X)
  BY <1>1
<1> HIDE DEF m
<1>4. m \in Handlers
  BY <1>2 DEF Handlers, IsSet
<1>5. GoneFrom(m, X \cap m.seen, T)
  BY <1>2 DEF GoneFrom
<1> QED BY <1>3, <1>4, <1>5, LoopFits

LEMMA AddNextFits ==
  ASSUME NEW l \in Handlers, NEW X \in SUBSET Tags, NEW T,
         l.todo \subseteq l.want, HeldIn(l, X, T), NEW n \in AddNext(l, X)
  PROVE  Fits(n, X, T)
<1>1. CASE l.todo # {}
  BY <1>1, AddingFits DEF AddNext
<1>2. CASE l.todo = {} /\ l.left # {}
  BY <1>2, NextToAddFits DEF AddNext
<1>3. CASE l.todo = {} /\ l.left = {}
  <2>1. PICK r \in {"ok", "fail"} : n = Done(l, r)
    BY <1>3 DEF AddNext
  <2>2. n.pc = "done" /\ n.cr = l.cr /\ n.want = l.want
    BY <2>1, DoneIs
  <2> QED BY <2>2 DEF Fits, HeldIn
<1> QED BY <1>1, <1>2, <1>3

\* A step that leaves the core alone and moves p elsewhere.
LEMMA CoreStill ==
  ASSUME NEW p \in Procs, CoreKnown(p), UNCHANGED <<core, table>>,
         online' = online \/ ~online',
         h[p].pc \notin {"ready", "silent"} \/ ~online',
         h'[p].pc \notin {"up", "answered"}
  PROVE  CoreKnown(p)'
BY DEF CoreKnown

\* A request about users arrives.
LEMMA UserArriveFits ==
  ASSUME TypeOK, NEW p \in Procs, Exactness(p),
         AddUser(p) \/ RevokeUser(p) \/ AddUsers(p) \/ RemoveUser(p) \/ RemoveUsers(p)
  PROVE  Exactness(p)'
<1>0. CurType
  BY DEF TypeOK
<1>1. ASSUME NEW op \in AddOps, NEW creds \in SUBSET Creds, NEW want \in SUBSET Tags,
             NEW touch \in SUBSET Tags, BeginAdd(p, op, creds, want, touch)
      PROVE  Exactness(p)'
  <2> DEFINE l == [Idle EXCEPT !.op = op, !.subject = creds, !.left = creds,
                               !.want = want]
  <2>1. l \in Handlers
    BY DEF Idle, Handlers, Records, IsSet, Ops, Pcs, InLoop, Locked, Restarting
  <2>2. xtls' \in SUBSET Tags /\ Move(p, NextToAdd(l, xtls'), touch \ xtls)
    BY <1>1 DEF BeginAdd, TypeOK, MirrorType
  <2> HIDE DEF l
  <2>3. h'[p] \in NextToAdd(l, xtls')
    BY <2>2, MoveIn
  <2>4. Fits(h'[p], xtls', table)
    BY <2>1, <2>2, <2>3, NextToAddFits
  <2>5. h'[p].pc \in NextPcs
    BY <2>1, <2>2, <2>3, NextToAddType DEF Continues
  <2>6. UNCHANGED <<online, core, table>> /\ h[p].pc = "idle"
    BY <1>1 DEF BeginAdd, MayBegin, agentVars, coreVars
  <2> QED BY <2>4, <2>5, <2>6, CoreStill DEF Exactness, NextPcs
<1>2. ASSUME NEW op \in RemoveOps, NEW creds \in SUBSET Creds, Remove(p, op, creds)
      PROVE  Exactness(p)'
  <2> DEFINE l == [Idle EXCEPT !.op = op, !.subject = creds, !.left = creds]
  <2>1. l \in Handlers /\ l.cr = None
    BY DEF Idle, Handlers, Records, IsSet, Ops, Pcs, InLoop, Locked, Restarting, RemoveOps
  <2>2. Move(p, IF xtls = {} THEN {Done(l, "ok")} ELSE RemoveNext(l), {})
    BY <1>2 DEF Remove
  <2> HIDE DEF l
  <2>3. h'[p] = Done(l, "ok") \/ h'[p] \in RemoveNext(l)
    BY <2>2, MoveIn
  <2>4. Fits(h'[p], xtls, table) /\ h'[p].pc \in NextPcs
    <3>1. CASE h'[p] = Done(l, "ok")
      <4>1. h'[p].pc = "done" /\ h'[p].cr = None
        BY <2>1, <3>1, DoneIs
      <4> QED BY <4>1 DEF Fits, NextPcs
    <3>2. CASE h'[p] \in RemoveNext(l)
      BY <2>1, <3>2, RemoveNextFits, RemoveNextType DEF Continues
    <3> QED BY <2>3, <3>1, <3>2
  <2>5. UNCHANGED <<online, core, table, xtls>> /\ h[p].pc = "idle"
    BY <1>2 DEF Remove, MayBegin, agentVars, coreVars, mirrorVars
  <2> QED BY <2>4, <2>5, CoreStill DEF Exactness, NextPcs
<1>3. CASE AddUser(p)
  BY <1>0, <1>1, <1>3, CredTypes DEF AddUser, AddOps
<1>4. CASE RevokeUser(p)
  <2>1. PICK u \in Users, want \in SUBSET Tags \ {{}} :
          cur[u] < MaxKey /\ BeginAdd(p, "revokeUser", {<<u, cur[u] + 1>>}, want, want)
    BY <1>4 DEF RevokeUser
  <2>2. {<<u, cur[u] + 1>>} \in SUBSET Creds
    BY <1>0, <2>1, CredTypes
  <2> QED BY <2>1, <2>2, <1>1 DEF AddOps
<1>5. CASE AddUsers(p)
  <2>0. PICK us \in SUBSET Users \ {{}}, touch \in SUBSET Tags :
          \E want \in SUBSET touch \ {{}} :
            BeginAdd(p, "addUsers", {Current(u) : u \in us}, want, touch)
    BY <1>5 DEF AddUsers
  <2>1. PICK want \in SUBSET touch \ {{}} :
          BeginAdd(p, "addUsers", {Current(u) : u \in us}, want, touch)
    BY <2>0
  <2>2. {Current(u) : u \in us} \in SUBSET Creds
    BY <1>0, CredTypes
  <2> QED BY <2>1, <2>2, <1>1 DEF AddOps
<1>6. CASE RemoveUser(p)
  BY <1>0, <1>2, <1>6, CredTypes DEF RemoveUser, RemoveOps
<1>7. CASE RemoveUsers(p)
  <2>1. PICK us \in SUBSET Users \ {{}} :
          Remove(p, "removeUsers", {Current(u) : u \in us})
    BY <1>7 DEF RemoveUsers
  <2>2. {Current(u) : u \in us} \in SUBSET Creds
    BY <1>0, CredTypes
  <2> QED BY <2>1, <2>2, <1>2 DEF RemoveOps
<1> QED BY <1>3, <1>4, <1>5, <1>6, <1>7

\* The turns of its loops.
LEMMA LoopStepFits ==
  ASSUME TypeOK, NEW p \in Procs, Exactness(p),
         AfterIps(p) \/ AfterRemove(p) \/ AfterAdd(p)
  PROVE  Exactness(p)'
<1> DEFINE l == h[p]
<1>0. l \in Handlers /\ l.pc \in UserPcs /\ xtls \in SUBSET Tags
  BY DEF TypeOK, HandlerType, MirrorType, AfterIps, AfterRemove, AfterAdd, UserPcs, InLoop
<1>a. l.cr \in Creds
  BY <1>0 DEF Handlers, IsSet, UserPcs
<1>b. l.pc \notin {"ready", "silent"}
  BY <1>0 DEF UserPcs, InLoop
<1>1. CASE AfterIps(p)
  <2>1. h'[p] \in Loop(l, xtls) /\ UNCHANGED <<online, core, table, xtls>> /\ l.pc = "ips"
    BY <1>1, MoveIn DEF AfterIps, agentVars, coreVars, mirrorVars
  <2>2. h'[p].pc \in NextPcs
    BY <1>0, <1>a, <2>1, LoopType DEF Continues
  <2>3. ASSUME online PROVE Fits(h'[p], xtls, table)
    <3>1. GoneFrom(l, xtls \cap l.seen, table)
      BY <2>1, <2>3 DEF Exactness, Fits, GoneFrom
    <3> QED BY <1>0, <2>1, <3>1, LoopFits
  <2> QED BY <1>b, <2>1, <2>2, <2>3, CoreStill DEF Exactness, NextPcs
<1>2. CASE AfterRemove(p)
  <2>1. /\ h'[p] \in Loop(l, xtls') /\ UNCHANGED <<online, core, table>>
        /\ xtls' \subseteq xtls /\ l.pc = "removed"
    BY <1>2, MoveIn DEF AfterRemove, agentVars, coreVars
  <2>2. h'[p].pc \in NextPcs
    BY <1>0, <1>a, <2>1, LoopType DEF Continues
  <2>3. ASSUME online PROVE Fits(h'[p], xtls', table)
    <3>1. GoneFrom(l, xtls' \cap l.seen, table)
      BY <2>1, <2>3 DEF Exactness, Fits, GoneFrom
    <3> QED BY <1>0, <2>1, <3>1, LoopFits
  <2> QED BY <1>b, <2>1, <2>2, <2>3, CoreStill DEF Exactness, NextPcs
<1>3. CASE AfterAdd(p)
  <2>1. /\ h'[p] \in AddNext(l, xtls) /\ UNCHANGED <<online, core, table, xtls>>
        /\ l.pc \in {"added", "refused"}
    BY <1>3, MoveIn DEF AfterAdd, agentVars, coreVars
  <2>2. h'[p].pc \in NextPcs
    BY <1>0, <1>a, <2>1, AddNextType DEF Continues
  <2>3. ASSUME online PROVE Fits(h'[p], xtls, table)
    <3>1. l.todo \subseteq l.want /\ HeldIn(l, xtls, table)
      BY <2>1, <2>3 DEF Exactness, Fits
    <3> QED BY <1>0, <2>1, <3>1, AddNextFits
  <2> QED BY <1>b, <2>1, <2>2, <2>3, CoreStill DEF Exactness, NextPcs
<1> QED BY <1>1, <1>2, <1>3

\* The core does what it is asked, or there is none.
LEMMA CoreUserFits ==
  ASSUME OneByOne, TypeOK, NEW p \in Procs, Exactness(p), CoreRemoves(p) \/ CoreAdds(p)
  PROVE  Exactness(p)'
<1> DEFINE l == h[p]
           n == h'[p]
<1>0. l \in Records /\ table \in [Tags -> SUBSET Creds] /\ "xtls" \notin Faults
      /\ (l.pc \in InLoop => l.tag \in Tags)
  BY DEF TypeOK, HandlerType, Handlers, IsSet, CoreType, OneByOne
<1>1. CASE CoreRemoves(p)
  <2>1. /\ l.pc = "remove" /\ UNCHANGED <<online, core, xtls>> /\ l.tag \in Tags
    BY <1>0, <1>1 DEF CoreRemoves, agentVars, mirrorVars, InLoop
  <2>2. n.pc = "removed" /\ n.seen = l.seen /\ n.cr = l.cr /\ n.tag = l.tag
    <3>1. CASE \E isOk \in BOOLEAN :
                 Goto(p, [h[p] EXCEPT !.pc = "removed",
                          !.anyOk = @ \/ (isOk /\ h[p].op \in RemoveOps)])
      <4>1. PICK isOk \in BOOLEAN :
              Goto(p, [h[p] EXCEPT !.pc = "removed",
                       !.anyOk = @ \/ (isOk /\ h[p].op \in RemoveOps)])
        BY <3>1
      <4> DEFINE b == l.anyOk \/ (isOk /\ l.op \in RemoveOps)
      <4>2. Goto(p, [l EXCEPT !.pc = "removed", !.anyOk = b])
        BY <4>1
      <4> HIDE DEF b
      <4> QED BY <1>0, <4>2, GotoIs DEF Records
    <3>2. CASE Goto(p, [h[p] EXCEPT !.pc = "removed"])
      BY <1>0, <3>2, GotoIs DEF Records
    <3> QED BY <1>1, <3>1, <3>2, Zenon DEF CoreRemoves
  <2>3. \/ /\ core = "up"
           /\ table' = [table EXCEPT ![l.tag] = {c \in @ : Owner(c) # Owner(l.cr)}]
        \/ core # "up" /\ table' = table
    <3>1. CASE /\ core = "up"
               /\ table' = [table EXCEPT ![l.tag] = {c \in @ : Owner(c) # Owner(l.cr)}]
      BY <3>1
    <3>2. CASE (core # "up" \/ "xtls" \in Faults) /\ UNCHANGED table
               /\ table' = table
      BY <1>0, <3>2
    <3> QED BY <1>1, <3>1, <3>2 DEF CoreRemoves
  <2>4. CoreKnown(p)'
    BY <2>1, <2>2, <2>3 DEF Exactness, CoreKnown
  <2>5. ASSUME online PROVE Fits(n, xtls, table')
    <3>1. GoneFrom(l, (xtls \cap l.seen) \ {l.tag}, table)
      BY <2>1, <2>5 DEF Exactness, Fits
    <3>2. GoneFrom(n, xtls \cap n.seen, table')
      <4>1. CASE core # "up" /\ table' = table
        <5>1. table' = NoUsers
          BY <4>1 DEF Exactness, CoreKnown
        <5>2. xtls \cap n.seen \subseteq Tags
          BY DEF TypeOK, MirrorType
        <5> QED BY <5>1, <5>2 DEF GoneFrom, NoUsers
      <4>2. CASE table' = [table EXCEPT ![l.tag] = {c \in @ : Owner(c) # Owner(l.cr)}]
        <5>1. /\ table'[l.tag] = {c \in table[l.tag] : Owner(c) # Owner(l.cr)}
              /\ \A t \in Tags \ {l.tag} : table'[t] = table[t]
          BY <1>0, <2>1, <4>2
        <5>2. xtls \subseteq Tags
          BY DEF TypeOK, MirrorType
        <5> QED BY <2>2, <3>1, <5>1, <5>2 DEF GoneFrom
      <4> QED BY <2>3, <4>1, <4>2
    <3> QED BY <2>2, <3>2 DEF Fits
  <2> QED BY <2>1, <2>4, <2>5 DEF Exactness
<1>2. CASE CoreAdds(p)
  <2>1. /\ l.pc = "add" /\ UNCHANGED <<online, core, xtls>> /\ l.tag \in Tags
    BY <1>0, <1>2 DEF CoreAdds, agentVars, mirrorVars, InLoop
  <2>2. /\ n.pc \in {"added", "refused"} /\ n.want = l.want /\ n.todo = l.todo
        /\ n.cr = l.cr /\ n.tag = l.tag
    <3>1. CASE Goto(p, [h[p] EXCEPT !.pc = "added", !.anyOk = TRUE])
      BY <1>0, <3>1, GotoIs DEF Records
    <3>2. CASE Goto(p, [h[p] EXCEPT !.pc = "refused"])
      BY <1>0, <3>2, GotoIs DEF Records
    <3> QED BY <1>2, <3>1, <3>2, Zenon DEF CoreAdds
  <2>3. \/ core = "up" /\ table' = [table EXCEPT ![l.tag] = @ \cup {l.cr}]
        \/ table' = table
    BY <1>2 DEF CoreAdds
  <2>4. CoreKnown(p)'
    BY <2>1, <2>2, <2>3 DEF Exactness, CoreKnown
  <2>5. ASSUME online PROVE Fits(n, xtls, table')
    <3>1. l.tag \in l.want /\ l.todo \subseteq l.want /\ HeldIn(l, xtls, table)
      BY <2>1, <2>5 DEF Exactness, Fits
    <3>2. HeldIn(n, xtls, table')
      <4>1. \A t \in Tags, c \in Creds \cup {None} : c \in table'[t] =>
              c \in table[t] \/ (c = l.cr /\ t = l.tag)
        BY <1>0, <2>1, <2>3
      <4>2. xtls \subseteq Tags /\ \A t \in Tags : table'[t] \subseteq Creds \cup {None}
        <5>1. xtls \subseteq Tags /\ l.cr \in Creds \cup {None}
          BY <1>0 DEF TypeOK, MirrorType, Records
        <5>2. \A t \in Tags : table[t] \subseteq Creds
          BY <1>0
        <5> QED BY <1>0, <5>1, <5>2, <2>1, <2>3
      <4> QED BY <2>2, <3>1, <4>1, <4>2 DEF HeldIn
    <3> QED BY <2>2, <3>1, <3>2 DEF Fits
  <2> QED BY <2>1, <2>4, <2>5 DEF Exactness
<1> QED BY <1>1, <1>2

LEMMA FreeStep ==
  ASSUME NEW p \in Procs, CoreKnown(p)', Free(h'[p])
  PROVE  Exactness(p)'
BY FreeFits DEF Exactness

\* The steps of startXray, and the end of a request.
LEMMA StartFits ==
  ASSUME OneByOne, TypeOK, NEW p \in Procs, Exactness(p),
         \/ BeginStart(p) \/ StartEnter(p) \/ StartCheck(p) \/ StartUnhealthy(p)
         \/ StartDown(p) \/ StartUp(p) \/ CoreStats(p)
         \/ StartEnd(p) \/ StartNotReady(p) \/ StartDumped(p) \/ Return(p)
  PROVE  Exactness(p)'
<1> DEFINE l == h[p]
           n == h'[p]
<1>0. l \in Records /\ CoreKnown(p) /\ "s6" \notin Faults /\ "xtls" \notin Faults
  BY DEF TypeOK, HandlerType, Handlers, OneByOne, Exactness
<1>p. /\ \A x \in {"down", "up", "ready", "answered", "silent", "dump", "stats",
                   "healthy", "unhealthy"} : x \in Locked
      /\ \A m : m.pc \in Locked \cup {"iface", "idle"} => Free(m)
      /\ \A m : m.pc = "done" /\ m.reply \in {"busy", "uptodate", "started", "fail"}
                  => Free(m)
  BY DEF Locked, Restarting, Free
<1>d. ASSUME NEW r \in {"busy", "uptodate", "started", "fail"}, Goto(p, Done(l, r))
      PROVE  n.pc = "done" /\ Free(n)
  BY <1>d, <1>p, GotoIs, DoneIs
<1>e. ASSUME Extract(p) PROVE n.pc = "down" /\ Free(n)
  <2>1. n = [l EXCEPT !.pc = "down"]
    BY <1>e, MoveIn DEF Extract
  <2>2. n.pc = "down"
    BY <1>0, <2>1 DEF Records
  <2> QED BY <2>2, <1>p
<1>g. ASSUME NEW x \in Locked, Goto(p, [l EXCEPT !.pc = x]) PROVE n.pc = x /\ Free(n)
  <2>1. n.pc = x
    BY <1>0, <1>g, GotoIs DEF Records
  <2> QED BY <2>1, <1>p
<1>1. CASE BeginStart(p)
  <2>1. UNCHANGED <<online, core, table>> /\ l.pc = "idle"
    BY <1>1 DEF BeginStart, MayBegin, agentVars, coreVars
  <2>2. n.pc = "iface"
    <3>1. PICK c : Goto(p, [Idle EXCEPT !.op = "start", !.pc = "iface", !.cfg = c])
      BY <1>1 DEF BeginStart
    <3> QED BY <3>1, GotoIs DEF Idle
  <2> QED BY <1>0, <1>p, <2>1, <2>2, CoreStill, FreeStep
<1>2. CASE StartEnter(p)
  <2>1. UNCHANGED <<online, core, table>> /\ l.pc = "iface"
    BY <1>2 DEF StartEnter, coreVars
  <2>2. n.pc \in {"done", "stats", "down"} /\ Free(n)
    <3>1. \/ Goto(p, Done(l, "busy")) \/ Goto(p, [l EXCEPT !.pc = "stats"]) \/ Extract(p)
      BY <1>2, Zenon DEF StartEnter
    <3> QED BY <3>1, <1>d, <1>e, <1>g, <1>p
  <2> QED BY <1>0, <2>1, <2>2, CoreStill, FreeStep
<1>3. CASE StartCheck(p)
  <2>1. UNCHANGED <<online, core, table>> /\ l.pc = "healthy"
    BY <1>3 DEF StartCheck, coreVars
  <2>2. n.pc \in {"done", "down"} /\ Free(n)
    <3>1. Goto(p, Done(l, "uptodate")) \/ Extract(p)
      BY <1>3, Zenon DEF StartCheck
    <3> QED BY <3>1, <1>d, <1>e
  <2> QED BY <1>0, <2>1, <2>2, CoreStill, FreeStep
<1>4. CASE StartUnhealthy(p)
  <2>1. UNCHANGED <<core, table>> /\ ~online'
    BY <1>4 DEF StartUnhealthy, coreVars
  <2>2. n.pc = "down" /\ Free(n)
    BY <1>4, <1>e DEF StartUnhealthy
  <2> QED BY <1>0, <2>1, <2>2, CoreStill, FreeStep
<1>5. CASE StartDown(p)
  <2>1. core' = "down" /\ table' = NoUsers /\ Goto(p, [l EXCEPT !.pc = "up"])
    BY <1>0, <1>5 DEF StartDown, CoreGone
  <2>2. n.pc = "up" /\ Free(n)
    BY <2>1, <1>g, <1>p
  <2> QED BY <2>1, <2>2, FreeStep DEF CoreKnown
<1>6. CASE StartUp(p)
  <2>1. core' = "boot" /\ table' = table /\ l.pc = "up" /\ Goto(p, [l EXCEPT !.pc = "ready"])
    BY <1>0, <1>6 DEF StartUp
  <2>2. n.pc = "ready" /\ Free(n)
    BY <2>1, <1>g, <1>p
  <2> QED BY <1>0, <2>1, <2>2, FreeStep DEF CoreKnown
<1>7. CASE CoreStats(p)
  <2>1. UNCHANGED <<online, core, table>> /\ l.pc \in {"stats", "ready"}
    BY <1>7 DEF CoreStats, agentVars, coreVars
  <2>2. \/ l.pc = "stats" /\ n.pc \in {"healthy", "unhealthy"} /\ Free(n)
        \/ l.pc = "ready" /\ core = "up" /\ n.pc = "answered" /\ Free(n)
        \/ l.pc = "ready" /\ n.pc = "silent" /\ Free(n)
    <3>1. CASE core = "up" /\ Goto(p, [l EXCEPT !.pc =
                                         IF @ = "stats" THEN "healthy" ELSE "answered"])
      <4>1. CASE l.pc = "stats"
        <5>1. Goto(p, [l EXCEPT !.pc = "healthy"])
          BY <3>1, <4>1
        <5> QED BY <4>1, <5>1, <1>g, <1>p
      <4>2. CASE l.pc = "ready"
        <5>1. Goto(p, [l EXCEPT !.pc = "answered"])
          BY <3>1, <4>2
        <5> QED BY <3>1, <4>2, <5>1, <1>g, <1>p
      <4> QED BY <2>1, <4>1, <4>2
    <3>2. CASE Goto(p, [l EXCEPT !.pc = IF @ = "stats" THEN "unhealthy" ELSE "silent"])
      <4>1. CASE l.pc = "stats"
        <5>1. Goto(p, [l EXCEPT !.pc = "unhealthy"])
          BY <3>2, <4>1
        <5> QED BY <4>1, <5>1, <1>g, <1>p
      <4>2. CASE l.pc = "ready"
        <5>1. Goto(p, [l EXCEPT !.pc = "silent"])
          BY <3>2, <4>2
        <5> QED BY <4>2, <5>1, <1>g, <1>p
      <4> QED BY <2>1, <4>1, <4>2
    <3> QED BY <1>7, <3>1, <3>2, Zenon DEF CoreStats
  <2> QED BY <1>0, <2>1, <2>2, FreeStep DEF CoreKnown
<1>8. CASE StartEnd(p)
  <2>1. UNCHANGED <<core, table>> /\ l.pc = "answered"
    BY <1>8 DEF StartEnd, coreVars
  <2>2. n.pc = "done" /\ Free(n)
    BY <1>8, <1>d DEF StartEnd
  <2> QED BY <1>0, <2>1, <2>2, FreeStep DEF CoreKnown
<1>9. CASE StartNotReady(p)
  <2>1. UNCHANGED <<core, table>> /\ ~online' /\ Goto(p, [l EXCEPT !.pc = "dump"])
    BY <1>9 DEF StartNotReady, coreVars
  <2>2. n.pc = "dump" /\ Free(n)
    BY <2>1, <1>g, <1>p
  <2> QED BY <1>0, <2>1, <2>2, CoreStill, FreeStep
<1>10. CASE StartDumped(p)
  <2>1. UNCHANGED <<online, core, table>> /\ l.pc = "dump" /\ Goto(p, Done(l, "fail"))
    BY <1>10 DEF StartDumped, StartFailed, coreVars
  <2>2. n.pc = "done" /\ Free(n)
    BY <2>1, <1>d
  <2> QED BY <1>0, <2>1, <2>2, CoreStill, FreeStep
<1>11. CASE Return(p)
  <2>1. UNCHANGED <<online, core, table>> /\ l.pc = "done" /\ n = Idle
    BY <1>11, GotoIs DEF Return, agentVars, coreVars
  <2>2. n.pc = "idle"
    BY <2>1 DEF Idle
  <2> QED BY <1>0, <1>p, <2>1, <2>2, CoreStill, FreeStep
<1> QED BY <1>1, <1>2, <1>3, <1>4, <1>5, <1>6, <1>7, <1>8, <1>9, <1>10, <1>11

\* The steps of stopXray: its answer is not about a user.
LEMMA StopFits ==
  ASSUME OneByOne, TypeOK, NEW p \in Procs, Exactness(p),
         BeginStop(p) \/ StopEnter(p) \/ StopKill(p) \/ StopEnd(p)
  PROVE  Exactness(p)'
<1> DEFINE l == h[p]
           n == h'[p]
<1>0. l \in Records /\ CoreKnown(p) /\ "s6" \notin Faults
  BY DEF TypeOK, HandlerType, Handlers, OneByOne, Exactness
<1>1. CASE BeginStop(p)
  <2>1. UNCHANGED <<online, core, table>> /\ l.pc = "idle"
        /\ n = [Idle EXCEPT !.op = "stop", !.pc = "plugin"]
    BY <1>1, GotoIs DEF BeginStop, MayBegin, agentVars, coreVars
  <2>2. n.pc = "plugin" /\ n.cr = None
    BY <2>1 DEF Idle
  <2>3. Fits(n, xtls', table')
    BY <2>2 DEF Fits
  <2> QED BY <1>0, <2>1, <2>2, <2>3, CoreStill DEF Exactness
<1>2. CASE StopEnter(p)
  <2>1. UNCHANGED <<online, core, table>> /\ l.pc = "plugin"
    BY <1>2 DEF StopEnter, agentVars, coreVars
  <2>2. n = Done(l, "ok") \/ n = [l EXCEPT !.pc = "kill"]
    BY <1>2, GotoIs DEF StopEnter
  <2>3. n.pc \in {"done", "kill"} /\ n.cr = l.cr
    BY <1>0, <2>2, DoneIs DEF Records
  <2>4. online => Fits(n, xtls', table')
    BY <2>1, <2>3 DEF Exactness, Fits
  <2> QED BY <1>0, <2>1, <2>3, <2>4, CoreStill DEF Exactness
<1>3. CASE StopKill(p)
  <2>1. core' = "down" /\ table' = NoUsers /\ online' = online /\ l.pc = "kill"
        /\ n = [l EXCEPT !.pc = "killed"]
    BY <1>0, <1>3, GotoIs DEF StopKill, CoreGone, agentVars
  <2>2. n.pc = "killed" /\ n.cr = l.cr
    BY <1>0, <2>1 DEF Records
  <2>3. online => Fits(n, xtls', table')
    BY <2>1, <2>2 DEF Exactness, Fits
  <2> QED BY <2>1, <2>2, <2>3 DEF Exactness, CoreKnown
<1>4. CASE StopEnd(p)
  <2>1. UNCHANGED <<core, table>> /\ ~online' /\ n = Done(l, "ok")
    BY <1>4, GotoIs DEF StopEnd, coreVars
  <2>2. n.pc = "done"
    BY <2>1, DoneIs
  <2> QED BY <1>0, <2>1, <2>2, CoreStill DEF Exactness
<1> QED BY <1>1, <1>2, <1>3, <1>4

\* A core that comes up or dies.
LEMMA CoreFits ==
  ASSUME TypeOK, NEW p \in Procs, Exactness(p), CoreBoot \/ CoreCrash
  PROVE  Exactness(p)'
<1>0. h' = h /\ online' = online /\ xtls' = xtls /\ CoreKnown(p)
      /\ xtls \subseteq Tags
  BY DEF CoreBoot, CoreCrash, agentVars, mirrorVars, Exactness, TypeOK, MirrorType
<1>1. CASE core' = "down" /\ table' = NoUsers
  <2>1. CoreKnown(p)'
    BY <1>0, <1>1 DEF CoreKnown
  <2>2. ASSUME online PROVE Fits(h[p], xtls, table')
    <3>1. \A X \in SUBSET xtls : GoneFrom(h[p], X, NoUsers) /\ HeldIn(h[p], X, NoUsers)
      BY <1>0 DEF GoneFrom, HeldIn, NoUsers
    <3> QED BY <1>1, <2>2, <3>1 DEF Exactness, Fits
  <2> QED BY <1>0, <2>1, <2>2 DEF Exactness
<1>2. CASE core = "boot" /\ core' = "up"
  <2>1. CoreKnown(p)'
    BY <1>0, <1>2 DEF CoreKnown
  <2>2. online => Free(h[p])
    BY <1>0, <1>2 DEF CoreKnown, Free, Locked, Restarting
  <2> QED BY <1>0, <2>1, <2>2, FreeFits DEF Exactness
<1> QED BY <1>1, <1>2 DEF CoreBoot, CoreCrash, CoreGone

LEMMA ExactStep ==
  ASSUME OneByOne
  PROVE  TypeOK /\ (\A p \in Procs : Exactness(p)) /\ [Next]_vars
           => (\A p \in Procs : Exactness(p))'
<1> SUFFICES ASSUME TypeOK, NEW p \in Procs, Exactness(p), [Next]_vars
             PROVE  Exactness(p)'
  OBVIOUS
<1>1. CASE UNCHANGED vars
  BY <1>1 DEF vars, agentVars, mirrorVars, coreVars, Exactness, CoreKnown
<1>2. ASSUME NEW q \in Procs, Begin(q) \/ Handle(q) PROVE Exactness(p)'
  <2>1. q = p
    BY DEF OneByOne
  <2>2. CASE Begin(q)
    BY <2>1, <2>2, UserArriveFits, StartFits, StopFits DEF Begin
  <2>3. CASE Handle(q)
    BY <2>1, <2>3, LoopStepFits, CoreUserFits, StartFits, StopFits DEF Handle
  <2> QED BY <1>2, <2>2, <2>3
<1>3. CASE CoreBoot \/ CoreCrash
  BY <1>3, CoreFits
<1> QED BY <1>1, <1>2, <1>3 DEF Next

LEMMA ExactInit == Init => \A p \in Procs : Exactness(p)
<1> SUFFICES ASSUME Init, NEW p \in Procs PROVE Exactness(p)
  OBVIOUS
<1>1. h[p].pc = "idle"
  BY DEF Init, Idle
<1> QED BY <1>1 DEF Init, Exactness, CoreKnown, Fits

LEMMA FitsExact ==
  (\A p \in Procs : Exactness(p)) => AccessIsExact
BY DEF Exactness, Fits, HeldIn, AccessIsExact

\* After an answer of success about one user, and while isXrayOnline is set, the
\* inbounds in use accept that user as the request says: addUser and addUsers, and
\* removeUser and removeUsers, for any users, inbounds and revocations.
THEOREM AnswersAreExact == ASSUME OneByOne PROVE Spec => []AccessIsExact
<1> DEFINE I == \A p \in Procs : Exactness(p)
<1>1. TypeOK /\ I /\ [Next]_vars => I'
  BY ExactStep
<1>2. Init => I
  BY ExactInit
<1>3. I => AccessIsExact
  BY FitsExact
<1> HIDE DEF I
<1> QED BY <1>1, <1>2, <1>3, TypeCorrect, PTL DEF Spec
=============================================================================

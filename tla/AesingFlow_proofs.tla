-------------------------- MODULE AesingFlow_proofs --------------------------
(***************************************************************************)
(* Proofs about AesingFlow, for any dials, connections, limits and losses. *)
(* The type invariant and the limit on connections need that the server's  *)
(* count is exact (CountInv); that no connection leaks needs what the      *)
(* mutex protects (Locked); that the server refuses a stream only while    *)
(* another one is being closed needs how QUIC's count and the two tables   *)
(* of sessions relate (StreamInv).                                         *)
(***************************************************************************)
EXTENDS AesingFlow, FiniteSetTheorems, TLAPS

(* The invariants.                                                         *)

Counted == {c \in Conns : server[c].pc \in {"busy", "handshake", "ready"}}

\* The server counts exactly the connections that it has accepted and not
\* given up; one that the client has not dialled has not arrived.
CountInv ==
  /\ IsFiniteSet(Counted) /\ active = Cardinality(Counted)
  /\ \A c \in Conns : client[c].quic = "none" => server[c].pc = "none"

\* Whoever connects holds connectionMu, and there is no connection meanwhile.
Locked ==
  \A d \in Dials : dial[d].pc \in {"connect", "handshake"} =>
                     mu = d /\ connection = NoConn

Early == {"idle", "lock", "connect", "handshake", "open", "sync"}
Opened == {"id", "ensure", "request", "answer", "up", "close", "remove"}
Live == {"queued", "taken", "serving", "closing", "removing"}

\* A stream that is counted, registered or handled has been opened; only live
\* handlers have a session; what is not counted any more was closed by both.
StreamInv ==
  /\ \A d \in Dials : dial[d].pc \in Early => end[d] = "none"
  /\ \A d \in Dials : dial[d].pc \in Opened => end[d] # "none"
  /\ \A d \in used \cup sessions \cup served : end[d] # "none"
  /\ \A d \in Dials : handler[d] # "none" => end[d] # "none"
  /\ \A d \in served : handler[d] \in Live
  /\ \A d \in Dials : end[d] # "none" /\ handler[d] \notin {"refused", "removing", "gone"}
                        => d \in used

\* QUIC keeps to its limit.
RoomInv == \A c \in Conns \cup {NoConn} : Cardinality(used \cap On(c)) <= MaxStreams

-----------------------------------------------------------------------------
(* What groups of actions leave alone.                                     *)

LEMMA HandlerFrame ==
  ASSUME NEW d \in Dials, HandlerOn(d)
  PROVE  UNCHANGED <<dialerVars, connVars, sessions, end>>
BY DEF HandlerOn, AcceptStream, AcceptFailed, IdTimesOut, ServeStream, AnswerStream, EndStream,
       CloseServed, RemoveServed, Complete, Handled, dialerVars, connVars

LEMMA ServerFrame ==
  ASSUME NEW c \in Conns, ServerOn(c)
  PROVE  UNCHANGED <<dialerVars, client, losses, used, end, sessions, handler>>
BY DEF ServerOn, Accept, AcceptFails, Authenticate, ServerShutdown, ServerGoto,
       dialerVars, streamVars

LEMMA NoticeFrame ==
  ASSUME NEW c \in Conns, Notice(c) \/ Lose(c)
  PROVE  UNCHANGED <<dialerVars, active, used, served, handler>>
BY DEF Notice, ClientNotices, ServerNotices, ClientShutdown, Shutdown, Lose,
       dialerVars, streamVars

LEMMA DialFrame ==
  ASSUME NEW d \in Dials, Dial(d) \/ DialOn(d)
  PROVE  UNCHANGED <<close, active, losses, served, handler>>
BY DEF Dial, DialOn, GetConnection, Connect, ConnectDone, ConnectFail, OpenStream,
       OpenStreamSync, OpenFails, WriteId, EnsureStream, WriteRequest, ReadResponse, TunnelEnds,
       CloseStream, RemoveStream, ResetConnection, ResetShut, ResetQuit, Shutdown,
       Quit, connVars, streamVars

LEMMA CloseFrame ==
  ASSUME Close \/ CloseOn
  PROVE  UNCHANGED <<mu, dial, server, active, losses, used, served, handler>>
BY DEF Close, CloseOn, CloseShut, CloseQuit, Shutdown, Quit, connVars, streamVars

-----------------------------------------------------------------------------
(* The server's count.                                                     *)

LEMMA CountInit == Init => CountInv /\ LimitKept
<1> SUFFICES ASSUME Init
             PROVE  CountInv /\ LimitKept
  OBVIOUS
<1>1. Counted = {} /\ Admitted = {}
  BY DEF Init, Counted, Admitted
<1>2. IsFiniteSet({}) /\ Cardinality({}) = 0
  BY FS_EmptySet
<1> QED BY <1>1, <1>2, LimitAssumption DEF Init, CountInv, LimitKept

\* Steps that change no connection's place at the server.
LEMMA CountQuiet ==
  ASSUME CountInv, LimitKept, UNCHANGED active,
         \A c \in Conns : server'[c].pc = server[c].pc,
         \A c \in Conns : client'[c].quic = "none" => client[c].quic = "none"
  PROVE  CountInv' /\ LimitKept'
<1>1. Counted' = Counted /\ Admitted' = Admitted
  BY DEF Counted, Admitted
<1> QED BY <1>1 DEF CountInv, LimitKept

LEMMA CountDial ==
  ASSUME TypeOK, CountInv, LimitKept, NEW d \in Dials, Dial(d) \/ DialOn(d)
  PROVE  CountInv' /\ LimitKept'
<1>1. active' = active
  BY DialFrame
<1>2. CASE Connect(d) /\ ~UNCHANGED <<client, server>>
  <2>1. PICK c \in Conns : /\ client[c].quic = "none"
                           /\ client' = [client EXCEPT ![c].quic = "up"]
                           /\ server' = [server EXCEPT ![c] = [quic |-> "up", pc |-> "waiting"]]
    BY <1>2 DEF Connect, Unused
  <2>2. server[c].pc = "none"
    BY <2>1 DEF CountInv
  <2>3. Counted' = Counted /\ Admitted' = Admitted
    BY <2>1, <2>2 DEF Counted, Admitted, TypeOK, ConnType
  <2>4. \A b \in Conns : client'[b].quic = "none" => server'[b].pc = "none"
    BY <2>1 DEF CountInv, TypeOK, ConnType, ClientEnds
  <2> QED BY <1>1, <2>3, <2>4 DEF CountInv, LimitKept
<1>3. CASE ConnectDone(d) \/ ConnectFail(d)
  BY <1>1, <1>3, CountQuiet
     DEF ConnectDone, ConnectFail, TypeOK, ConnType, ClientEnds
<1>4. CASE ResetShut(d) \/ ResetQuit(d)
  BY <1>1, <1>4, CountQuiet
     DEF ResetShut, ResetQuit, Shutdown, Quit, TypeOK, ConnType, ClientEnds
<1>5. CASE UNCHANGED <<client, server>>
  BY <1>1, <1>5, CountQuiet
<1>6. \/ Connect(d) /\ ~UNCHANGED <<client, server>>
      \/ ConnectDone(d) \/ ConnectFail(d) \/ ResetShut(d) \/ ResetQuit(d)
      \/ UNCHANGED <<client, server>>
  BY DEF Dial, DialOn, GetConnection, OpenStream, OpenStreamSync, OpenFails,
         WriteId, EnsureStream, WriteRequest, ReadResponse, TunnelEnds, CloseStream, RemoveStream,
         ResetConnection, connVars
<1> QED BY <1>2, <1>3, <1>4, <1>5, <1>6

LEMMA CountClose ==
  ASSUME TypeOK, CountInv, LimitKept, Close \/ CloseOn
  PROVE  CountInv' /\ LimitKept'
<1>1. UNCHANGED <<active, server>>
  BY CloseFrame
<1>2. \A c \in Conns : client'[c].quic = "none" => client[c].quic = "none"
  BY DEF Close, CloseOn, CloseShut, CloseQuit, Shutdown, Quit, connVars, TypeOK,
         ConnType, ClientEnds
<1> QED BY <1>1, <1>2, CountQuiet

LEMMA CountNotice ==
  ASSUME TypeOK, CountInv, LimitKept, NEW c \in Conns, Notice(c) \/ Lose(c)
  PROVE  CountInv' /\ LimitKept'
<1>1. active' = active
  BY NoticeFrame
<1>2. \A b \in Conns : /\ server'[b].pc = server[b].pc
                       /\ client'[b].quic = "none" => client[b].quic = "none"
  BY DEF Notice, ClientNotices, ServerNotices, ClientShutdown, Shutdown, Lose,
         TypeOK, ConnType, ClientEnds, ServerEnds
<1> QED BY <1>1, <1>2, CountQuiet

LEMMA CountAccept ==
  ASSUME TypeOK, CountInv, LimitKept, NEW c \in Conns, Accept(c)
  PROVE  CountInv' /\ LimitKept'
<1>1. c \notin Counted /\ Counted' = Counted \cup {c}
  BY DEF Accept, ServerGoto, Counted, TypeOK, ConnType, ServerEnds
<1>2. IsFiniteSet(Counted') /\ Cardinality(Counted') = Cardinality(Counted) + 1
  BY <1>1, FS_AddElement DEF CountInv
<1>3. active' = Cardinality(Counted')
  BY <1>2 DEF Accept, CountInv
<1>4. CASE active + 1 > MaxConnections
  <2>1. Admitted' = Admitted
    BY <1>4 DEF Accept, ServerGoto, Admitted, TypeOK, ConnType, ServerEnds
  <2> QED BY <2>1, <1>2, <1>3 DEF Accept, ServerGoto, CountInv, LimitKept, TypeOK, ConnType,
                                  ServerEnds
<1>5. CASE ~(active + 1 > MaxConnections)
  <2>1. Admitted' \subseteq Counted'
    BY DEF Admitted, Counted
  <2>2. Cardinality(Admitted') <= Cardinality(Counted')
    BY <1>2, <2>1, FS_Subset
  <2>3. Cardinality(Admitted') \in Nat
    BY <1>2, <2>1, FS_Subset, FS_CardinalityType
  <2>4. LimitKept'
    BY <1>3, <1>5, <2>2, <2>3, LimitAssumption DEF Accept, LimitKept, TypeOK, ConnType
  <2> QED BY <2>4, <1>2, <1>3 DEF Accept, ServerGoto, CountInv, TypeOK, ConnType, ServerEnds
<1> QED BY <1>4, <1>5

LEMMA CountGone ==
  ASSUME TypeOK, CountInv, LimitKept, NEW c \in Conns,
         AcceptFails(c) \/ ServerShutdown(c)
  PROVE  CountInv' /\ LimitKept' /\ active' \in Nat
<1>1. c \in Counted /\ Counted' = Counted \ {c}
  BY DEF AcceptFails, ServerShutdown, ServerGoto, Counted, TypeOK, ConnType, ServerEnds
<1>2. IsFiniteSet(Counted') /\ Cardinality(Counted') = Cardinality(Counted) - 1
  BY <1>1, FS_RemoveElement DEF CountInv
<1>3. active' = Cardinality(Counted')
  BY <1>2 DEF AcceptFails, ServerShutdown, CountInv
<1>4. Admitted' \subseteq Admitted /\ Admitted \subseteq Counted
  BY DEF AcceptFails, ServerShutdown, ServerGoto, Admitted, Counted, TypeOK, ConnType, ServerEnds
<1>5. IsFiniteSet(Admitted)
  BY <1>4, FS_Subset DEF CountInv
<1>6. Cardinality(Admitted') <= Cardinality(Admitted) /\ IsFiniteSet(Admitted')
  BY <1>4, <1>5, FS_Subset
<1>7. Cardinality(Admitted') \in Nat /\ Cardinality(Admitted) \in Nat
  BY <1>5, <1>6, FS_CardinalityType
<1>8. LimitKept'
  BY <1>6, <1>7, LimitAssumption DEF LimitKept
<1>9. \A b \in Conns : client'[b].quic = "none" => server'[b].pc = "none"
  BY DEF AcceptFails, ServerShutdown, ServerGoto, CountInv, TypeOK, ConnType, ServerEnds
<1> QED BY <1>2, <1>3, <1>8, <1>9, FS_CardinalityType DEF CountInv

LEMMA CountServer ==
  ASSUME TypeOK, CountInv, LimitKept, NEW c \in Conns, ServerOn(c)
  PROVE  CountInv' /\ LimitKept'
<1>1. CASE Authenticate(c)
  <2>1. Counted' = Counted /\ Admitted' = Admitted /\ UNCHANGED <<active, client>>
    BY <1>1 DEF Authenticate, ServerGoto, Counted, Admitted, TypeOK, ConnType, ServerEnds
  <2>2. \A b \in Conns : client[b].quic = "none" => server'[b].pc = "none"
    BY <1>1 DEF Authenticate, ServerGoto, CountInv, TypeOK, ConnType, ServerEnds
  <2> QED BY <2>1, <2>2 DEF CountInv, LimitKept
<1>2. CASE ~Authenticate(c)
  BY <1>2, CountAccept, CountGone DEF ServerOn
<1> QED BY <1>1, <1>2

LEMMA CountNext ==
  ASSUME TypeOK, CountInv, LimitKept, [Next]_vars
  PROVE  CountInv' /\ LimitKept'
<1>1. ASSUME NEW d \in Dials, Dial(d) \/ DialOn(d)
      PROVE  CountInv' /\ LimitKept'
  BY <1>1, CountDial
<1>2. ASSUME NEW d \in Dials, HandlerOn(d)
      PROVE  CountInv' /\ LimitKept'
  <2>1. UNCHANGED <<active, server, client>>
    BY <1>2, HandlerFrame DEF connVars
  <2> QED BY <2>1, CountQuiet
<1>3. CASE Close \/ CloseOn
  BY <1>3, CountClose
<1>4. ASSUME NEW c \in Conns, Lose(c) \/ Notice(c)
      PROVE  CountInv' /\ LimitKept'
  BY <1>4, CountNotice
<1>5. ASSUME NEW c \in Conns, ServerOn(c)
      PROVE  CountInv' /\ LimitKept'
  BY <1>5, CountServer
<1>6. CASE UNCHANGED vars
  <2>1. UNCHANGED <<active, server, client>>
    BY <1>6 DEF vars, connVars
  <2> QED BY <2>1, CountQuiet
<1> QED BY <1>1, <1>2, <1>3, <1>4, <1>5, <1>6 DEF Next

-----------------------------------------------------------------------------
(* Types.                                                                  *)

LEMMA InitType == Init => TypeOK
<1> SUFFICES ASSUME Init
             PROVE  TypeOK
  OBVIOUS
<1>1. DialerType
  BY DEF Init, DialerType, DialRecords
<1>2. ConnType
  BY DEF Init, ConnType, ClientEnds, ServerEnds
<1>3. StreamType
  BY DEF Init, StreamType
<1> QED BY <1>1, <1>2, <1>3 DEF TypeOK

LEMMA DialerTypeDial ==
  ASSUME TypeOK, NEW d \in Dials, Dial(d) \/ DialOn(d)
  PROVE  DialerType'
<1>1. close' = close
  BY DialFrame
<1>2. CASE Dial(d) \/ GetConnection(d)
  BY <1>1, <1>2 DEF Dial, GetConnection, Goto, TypeOK, DialerType, DialRecords
<1>3. CASE Connect(d)
  BY <1>1, <1>3 DEF Connect, Unused, Goto, TypeOK, DialerType, DialRecords
<1>4. CASE ConnectDone(d) \/ ConnectFail(d)
  BY <1>1, <1>4 DEF ConnectDone, ConnectFail, Goto, TypeOK, DialerType, DialRecords
<1>5. CASE OpenStream(d) \/ OpenStreamSync(d) \/ OpenFails(d)
  BY <1>1, <1>5 DEF OpenStream, OpenStreamSync, OpenFails, Goto, TypeOK, DialerType, DialRecords
<1>6. CASE WriteId(d) \/ EnsureStream(d) \/ WriteRequest(d) \/ ReadResponse(d)
  BY <1>1, <1>6 DEF WriteId, EnsureStream, WriteRequest, ReadResponse, Goto, TypeOK, DialerType, DialRecords
<1>7. CASE TunnelEnds(d) \/ CloseStream(d) \/ RemoveStream(d)
  BY <1>1, <1>7 DEF TunnelEnds, CloseStream, RemoveStream, Goto, TypeOK, DialerType, DialRecords
<1>8. CASE ResetConnection(d) \/ ResetShut(d) \/ ResetQuit(d)
  BY <1>1, <1>8 DEF ResetConnection, ResetShut, ResetQuit, Goto, TypeOK, DialerType, DialRecords
<1> QED BY <1>2, <1>3, <1>4, <1>5, <1>6, <1>7, <1>8 DEF DialOn

\* What shutdown leaves is typed.
LEMMA ShutdownType ==
  ASSUME TypeOK, NEW c \in Conns, Shutdown(c)
  PROVE  ConnType' /\ StreamType'
<1>1. ConnType'
  BY DEF Shutdown, TypeOK, ConnType, ClientEnds
<1>2. StreamType'
  BY DEF Shutdown, TypeOK, StreamType
<1> QED BY <1>1, <1>2

LEMMA QuitType ==
  ASSUME TypeOK, NEW c \in Conns, Quit(c)
  PROVE  ConnType' /\ StreamType'
<1>1. ConnType'
  BY DEF Quit, TypeOK, ConnType, ClientEnds
<1>2. StreamType'
  BY DEF Quit, streamVars, TypeOK, StreamType
<1> QED BY <1>1, <1>2

LEMMA DialType ==
  ASSUME TypeOK, NEW d \in Dials, Dial(d) \/ DialOn(d)
  PROVE  TypeOK'
<1>1. DialerType'
  BY DialerTypeDial
<1>2. CASE ResetShut(d) \/ ResetQuit(d)
  <2>1. dial[d].conn \in Conns
    BY <1>2 DEF ResetShut, ResetQuit, TypeOK, DialerType
  <2> QED BY <1>1, <1>2, <2>1, ShutdownType, QuitType DEF ResetShut, ResetQuit, TypeOK
<1>3. CASE ~(ResetShut(d) \/ ResetQuit(d))
  <2>1. active' = active /\ losses' = losses
    BY DialFrame
  <2>2. CASE Connect(d)
    <3>1. ConnType'
      <4>1. CASE UNCHANGED <<client, server>>
        BY <2>1, <4>1 DEF TypeOK, ConnType
      <4>2. CASE ~UNCHANGED <<client, server>>
        <5>1. PICK c \in Conns :
                /\ client' = [client EXCEPT ![c].quic = "up"]
                /\ server' = [server EXCEPT ![c] = [quic |-> "up", pc |-> "waiting"]]
          BY <2>2, <4>2 DEF Connect, Unused
        <5> QED BY <2>1, <5>1 DEF TypeOK, ConnType, ClientEnds, ServerEnds
      <4> QED BY <4>1, <4>2
    <3>2. StreamType'
      BY <2>2 DEF Connect, streamVars, TypeOK, StreamType
    <3> QED BY <1>1, <3>1, <3>2 DEF TypeOK
  <2>3. CASE ConnectDone(d) \/ ConnectFail(d)
    <3>1. ConnType'
      BY <2>1, <2>3 DEF ConnectDone, ConnectFail, TypeOK, ConnType, ClientEnds
    <3>2. StreamType'
      BY <2>3 DEF ConnectDone, ConnectFail, streamVars, TypeOK, StreamType
    <3> QED BY <1>1, <3>1, <3>2 DEF TypeOK
  <2>4. CASE OpenStreamSync(d) \/ WriteId(d) \/ EnsureStream(d) \/ CloseStream(d) \/ RemoveStream(d)
    <3>1. UNCHANGED connVars
      BY <2>4 DEF OpenStreamSync, WriteId, EnsureStream, CloseStream, RemoveStream
    <3>2. StreamType'
      BY <2>4 DEF OpenStreamSync, WriteId, EnsureStream, CloseStream, RemoveStream,
                  TypeOK, StreamType
    <3> QED BY <1>1, <3>1, <3>2 DEF connVars, TypeOK, ConnType
  <2>5. CASE UNCHANGED <<connVars, streamVars>>
    BY <1>1, <2>5 DEF connVars, streamVars, TypeOK, ConnType, StreamType
  <2>6. \/ Connect(d) \/ ConnectDone(d) \/ ConnectFail(d)
        \/ OpenStreamSync(d) \/ WriteId(d) \/ EnsureStream(d) \/ CloseStream(d) \/ RemoveStream(d)
        \/ UNCHANGED <<connVars, streamVars>>
    BY <1>3 DEF Dial, DialOn, GetConnection, OpenStream, OpenFails, WriteRequest, ReadResponse, TunnelEnds,
                ResetConnection
  <2> QED BY <2>2, <2>3, <2>4, <2>5, <2>6
<1> QED BY <1>2, <1>3

LEMMA CloseType ==
  ASSUME TypeOK, Close \/ CloseOn
  PROVE  TypeOK'
<1>1. DialerType'
  <2>1. UNCHANGED <<mu, dial>>
    BY CloseFrame
  <2> QED BY <2>1 DEF Close, CloseOn, CloseShut, CloseQuit, TypeOK, DialerType
<1>2. CASE Close
  BY <1>1, <1>2 DEF Close, connVars, streamVars, TypeOK, ConnType, StreamType
<1>3. CASE CloseOn
  <2>1. close.conn \in Conns
    BY <1>3 DEF CloseOn, CloseShut, CloseQuit, TypeOK, DialerType
  <2> QED BY <1>1, <1>3, <2>1, ShutdownType, QuitType DEF CloseOn, CloseShut, CloseQuit, TypeOK
<1> QED BY <1>2, <1>3

LEMMA HandlerTypes ==
  ASSUME TypeOK, NEW d \in Dials, HandlerOn(d)
  PROVE  TypeOK'
<1>1. UNCHANGED <<dialerVars, connVars, sessions, end>>
  BY HandlerFrame
<1>2. DialerType' /\ ConnType'
  BY <1>1 DEF dialerVars, connVars, TypeOK, DialerType, ConnType
<1>3. StreamType'
  BY <1>1 DEF HandlerOn, AcceptStream, AcceptFailed, IdTimesOut, ServeStream, AnswerStream, EndStream,
              CloseServed, RemoveServed, Complete, Handled, TypeOK, StreamType
<1> QED BY <1>2, <1>3 DEF TypeOK

LEMMA NoticeType ==
  ASSUME TypeOK, NEW c \in Conns, Lose(c) \/ Notice(c)
  PROVE  TypeOK'
<1>1. DialerType'
  BY NoticeFrame DEF dialerVars, TypeOK, DialerType
<1>2. CASE ClientShutdown(c)
  BY <1>1, <1>2, ShutdownType DEF ClientShutdown, TypeOK
<1>3. CASE Lose(c) \/ ClientNotices(c) \/ ServerNotices(c)
  <2>1. ConnType'
    BY <1>3 DEF Lose, ClientNotices, ServerNotices, TypeOK, ConnType, ClientEnds, ServerEnds
  <2>2. StreamType'
    BY <1>3 DEF Lose, ClientNotices, ServerNotices, streamVars, TypeOK, StreamType
  <2> QED BY <1>1, <2>1, <2>2 DEF TypeOK
<1> QED BY <1>2, <1>3 DEF Notice

LEMMA ServerType ==
  ASSUME TypeOK, CountInv', NEW c \in Conns, ServerOn(c)
  PROVE  TypeOK'
<1>1. UNCHANGED <<dialerVars, client, losses, used, end, sessions, handler>>
  BY ServerFrame
<1>2. DialerType'
  BY <1>1 DEF dialerVars, TypeOK, DialerType
<1>3. active' \in Nat
  BY FS_CardinalityType DEF CountInv
<1>4. server' \in [Conns -> ServerEnds]
  BY DEF ServerOn, Accept, AcceptFails, Authenticate, ServerShutdown, ServerGoto,
         TypeOK, ConnType, ServerEnds
<1>5. served' \in SUBSET Dials
  BY DEF ServerOn, Accept, AcceptFails, Authenticate, ServerShutdown, streamVars,
         TypeOK, StreamType
<1> QED BY <1>1, <1>2, <1>3, <1>4, <1>5 DEF TypeOK, ConnType, StreamType

LEMMA NextType ==
  ASSUME TypeOK, CountInv, LimitKept, [Next]_vars
  PROVE  TypeOK'
<1>1. CountInv'
  BY CountNext
<1>2. CASE UNCHANGED vars
  BY <1>2 DEF vars, dialerVars, connVars, streamVars, TypeOK, DialerType, ConnType, StreamType
<1> QED BY <1>1, <1>2, DialType, CloseType, HandlerTypes, NoticeType, ServerType DEF Next

\* Every part of the state stays in its type, for any dials and connections.
THEOREM TypeCorrect == Spec => []TypeOK
<1>1. Init => TypeOK /\ CountInv /\ LimitKept
  BY InitType, CountInit
<1>2. TypeOK /\ CountInv /\ LimitKept /\ [Next]_vars => (TypeOK /\ CountInv /\ LimitKept)'
  BY NextType, CountNext
<1> QED BY <1>1, <1>2, PTL DEF Spec

\* The server never serves more connections than MaxConnections.
THEOREM LimitIsKept == Spec => []LimitKept
<1>1. Init => TypeOK /\ CountInv /\ LimitKept
  BY InitType, CountInit
<1>2. TypeOK /\ CountInv /\ LimitKept /\ [Next]_vars => (TypeOK /\ CountInv /\ LimitKept)'
  BY NextType, CountNext
<1> QED BY <1>1, <1>2, PTL DEF Spec

-----------------------------------------------------------------------------
(* No connection leaks.                                                    *)

Leaks == Locked /\ NoLeak

LEMMA LeakInit == Init => Leaks
BY DEF Init, Leaks, Locked, NoLeak, Up

\* Steps of others than the dialer, which open no connection.
LEMMA LeakQuiet ==
  ASSUME Leaks, UNCHANGED dialerVars, \A c \in Conns : Up(c)' => Up(c)
  PROVE  Leaks'
BY DEF Leaks, Locked, NoLeak, dialerVars, On

\* Who connects: the new connection is its own until it is the dialer's.
LEMMA LeakConnect ==
  ASSUME TypeOK, Leaks, NEW d \in Dials, Connect(d) \/ ConnectDone(d) \/ ConnectFail(d)
  PROVE  Leaks'
<1>1. mu = d /\ connection = NoConn
  BY DEF Connect, ConnectDone, ConnectFail, Leaks, Locked
<1>2. \A e \in Dials \ {d} : dial[e].pc \notin {"connect", "handshake"}
  BY <1>1 DEF Leaks, Locked
<1>3. \A e \in Dials \ {d} : dial'[e] = dial[e]
  BY DEF Connect, ConnectDone, ConnectFail, Goto, TypeOK, DialerType
<1>4. Locked'
  BY <1>1, <1>2, <1>3 DEF Connect, ConnectDone, ConnectFail, Goto, Locked, TypeOK, DialerType, DialRecords
<1>5. CASE Connect(d)
  <2> SUFFICES NoLeak'
    BY <1>4 DEF Leaks
  <2>0. connection' = connection /\ close' = close /\ dial[d].pc = "connect"
    BY <1>5 DEF Connect
  <2>1. CASE UNCHANGED <<client, server>>
    BY <2>0, <1>3, <2>1 DEF Leaks, NoLeak, Up, On
  <2>2. CASE ~UNCHANGED <<client, server>>
    <3>1. PICK c \in Conns : /\ dial' = [dial EXCEPT ![d] = [pc |-> "handshake", conn |-> c]]
                             /\ client' = [client EXCEPT ![c].quic = "up"]
      BY <1>5, <2>2 DEF Connect, Unused
    <3>2. dial'[d].pc = "handshake" /\ d \in On(c)'
      BY <3>1 DEF TypeOK, DialerType, On
    <3>3. \A b \in Conns \ {c} : Up(b)' => Up(b)
      BY <3>1 DEF Up, TypeOK, ConnType
    <3>4. \A b \in Conns : \A e \in On(b) \ {d} : e \in On(b)' /\ dial'[e] = dial[e]
      BY <1>3 DEF On
    <3> QED BY <2>0, <3>2, <3>3, <3>4 DEF Leaks, NoLeak, On
  <2> QED BY <2>1, <2>2
<1>6. CASE ConnectDone(d)
  <2>1. connection' = dial[d].conn /\ close' = close /\ \A b \in Conns : Up(b)' => Up(b)
    BY <1>6 DEF ConnectDone, Up, TypeOK, ConnType, ClientEnds
  <2>2. NoLeak'
    BY <1>1, <1>3, <2>1, NoneAssumption DEF Leaks, NoLeak, On
  <2> QED BY <1>4, <2>2 DEF Leaks
<1>7. CASE ConnectFail(d)
  <2>1. UNCHANGED <<connection, close>> /\ \A b \in Conns : Up(b)' => Up(b) /\ b # dial[d].conn
    BY <1>7 DEF ConnectFail, Up, TypeOK, ConnType, ClientEnds
  <2>2. NoLeak'
    BY <1>3, <2>1 DEF Leaks, NoLeak, On
  <2> QED BY <1>4, <2>2 DEF Leaks
<1> QED BY <1>5, <1>6, <1>7

LEMMA LeakReset ==
  ASSUME TypeOK, Leaks, NEW d \in Dials, ResetConnection(d) \/ ResetShut(d) \/ ResetQuit(d)
  PROVE  Leaks'
<1>1. \A e \in Dials \ {d} : dial'[e] = dial[e]
  BY DEF ResetConnection, ResetShut, ResetQuit, Goto, TypeOK, DialerType
<1>2. Locked'
  BY <1>1 DEF ResetConnection, ResetShut, ResetQuit, Goto, Leaks, Locked, TypeOK, DialerType,
              DialRecords
<1>3. CASE ResetConnection(d) \/ ResetShut(d)
  <2>1. dial'[d].pc \in {"shut", "quit"} /\ dial'[d].conn = dial[d].conn /\ close' = close
    BY <1>3 DEF ResetConnection, ResetShut, Goto, TypeOK, DialerType, DialRecords
  <2>2. \A b \in Conns : Up(b)' => Up(b)
    BY <1>3 DEF ResetConnection, ResetShut, Shutdown, Up, connVars, TypeOK, ConnType, ClientEnds
  <2>3. connection' = connection \/ connection = dial[d].conn
    BY <1>3 DEF ResetConnection, ResetShut
  <2>4. NoLeak'
    BY <1>1, <2>1, <2>2, <2>3 DEF Leaks, NoLeak, On
  <2> QED BY <1>2, <2>4 DEF Leaks
<1>4. CASE ResetQuit(d)
  <2>1. UNCHANGED <<connection, close>> /\ \A b \in Conns : Up(b)' => Up(b) /\ b # dial[d].conn
    BY <1>4 DEF ResetQuit, Quit, Up, TypeOK, ConnType, ClientEnds
  <2>2. NoLeak'
    BY <1>1, <2>1 DEF Leaks, NoLeak, On
  <2> QED BY <1>2, <2>2 DEF Leaks
<1> QED BY <1>3, <1>4

LEMMA LeakOther ==
  ASSUME TypeOK, Leaks, NEW d \in Dials, Dial(d) \/ DialOn(d),
         ~(Connect(d) \/ ConnectDone(d) \/ ConnectFail(d)),
         ~(ResetConnection(d) \/ ResetShut(d) \/ ResetQuit(d))
  PROVE  Leaks'
<1>1. \A e \in Dials \ {d} : dial'[e] = dial[e]
  BY DEF Dial, DialOn, GetConnection, OpenStream, OpenStreamSync, OpenFails, WriteId,
         EnsureStream, WriteRequest, ReadResponse, TunnelEnds, CloseStream, RemoveStream, Goto, TypeOK, DialerType
<1>2. /\ UNCHANGED <<connection, close, client>>
      /\ dial[d].pc \notin {"connect", "handshake", "shut", "quit"}
  BY DEF Dial, DialOn, GetConnection, OpenStream, OpenStreamSync, OpenFails, WriteId,
         EnsureStream, WriteRequest, ReadResponse, TunnelEnds, CloseStream, RemoveStream, connVars
<1>3. /\ dial'[d].pc # "handshake"
      /\ dial'[d].pc = "connect" => mu' = d /\ mu = NoDial /\ connection = NoConn
      /\ dial'[d].pc # "connect" => mu' = mu
  BY DEF Dial, DialOn, GetConnection, OpenStream, OpenStreamSync, OpenFails, WriteId,
         EnsureStream, WriteRequest, ReadResponse, TunnelEnds, CloseStream, RemoveStream, Goto, TypeOK, DialerType,
         DialRecords
<1>4. Locked'
  BY <1>1, <1>2, <1>3, NoneAssumption DEF Leaks, Locked
<1>5. NoLeak'
  BY <1>1, <1>2 DEF Leaks, NoLeak, Up, On
<1> QED BY <1>4, <1>5 DEF Leaks

LEMMA LeakClose ==
  ASSUME TypeOK, Leaks, Close \/ CloseOn
  PROVE  Leaks'
<1>1. UNCHANGED <<mu, dial>>
  BY CloseFrame
<1>2. Locked'
  BY <1>1, NoneAssumption DEF Close, CloseOn, CloseShut, CloseQuit, Leaks, Locked
<1>3. CASE Close
  BY <1>1, <1>2, <1>3, NoneAssumption DEF Close, connVars, Leaks, NoLeak, Up, On, TypeOK, DialerType
<1>4. CASE CloseShut
  BY <1>1, <1>2, <1>4 DEF CloseShut, Shutdown, Leaks, NoLeak, Up, On, TypeOK, DialerType, ConnType, ClientEnds
<1>5. CASE CloseQuit
  BY <1>1, <1>2, <1>5 DEF CloseQuit, Quit, Leaks, NoLeak, Up, On, TypeOK, DialerType, ConnType, ClientEnds
<1> QED BY <1>3, <1>4, <1>5 DEF CloseOn

LEMMA LeakNext ==
  ASSUME TypeOK, Leaks, [Next]_vars
  PROVE  Leaks'
<1>1. ASSUME NEW d \in Dials, Dial(d) \/ DialOn(d)
      PROVE  Leaks'
  BY <1>1, LeakConnect, LeakReset, LeakOther
<1>2. ASSUME NEW d \in Dials, HandlerOn(d)
      PROVE  Leaks'
  BY <1>2, HandlerFrame, LeakQuiet DEF connVars, Up
<1>3. ASSUME NEW c \in Conns, Lose(c) \/ Notice(c)
      PROVE  Leaks'
  <2>1. \A b \in Conns : Up(b)' => Up(b)
    BY <1>3 DEF Lose, Notice, ClientNotices, ServerNotices, ClientShutdown, Shutdown, Up,
                TypeOK, ConnType, ClientEnds
  <2> QED BY <1>3, <2>1, NoticeFrame, LeakQuiet
<1>4. ASSUME NEW c \in Conns, ServerOn(c)
      PROVE  Leaks'
  BY <1>4, ServerFrame, LeakQuiet DEF Up
<1>5. CASE UNCHANGED vars
  BY <1>5, LeakQuiet DEF vars, connVars, Up
<1> QED BY <1>1, <1>2, <1>3, <1>4, <1>5, LeakClose DEF Next

\* A connection that the client keeps open is the dialer's, or somebody is about
\* to make it the dialer's or to close it.
THEOREM NothingLeaks == Spec => []NoLeak
<1> DEFINE Inv == TypeOK /\ CountInv /\ LimitKept /\ Leaks
<1>1. Init => Inv
  BY InitType, CountInit, LeakInit
<1>2. Inv /\ [Next]_vars => Inv'
  BY NextType, CountNext, LeakNext
<1>3. Inv => NoLeak
  BY DEF Leaks
<1> QED BY <1>1, <1>2, <1>3, PTL DEF Spec

-----------------------------------------------------------------------------
(* Streams, and why the server has room for those that QUIC lets through.  *)

Streams == StreamInv /\ RoomInv

LEMMA StreamInit == Init => Streams
<1> SUFFICES ASSUME Init
             PROVE  Streams
  OBVIOUS
<1>1. StreamInv
  BY DEF Init, StreamInv, Opened
<1>2. \A c \in Conns \cup {NoConn} : used \cap On(c) = {}
  BY DEF Init
<1> QED BY <1>1, <1>2, FS_EmptySet, LimitAssumption DEF Streams, RoomInv

\* RoomInv where no stream is opened: a dial changes its connection early.
LEMMA RoomKept ==
  ASSUME TypeOK, Streams, used' \subseteq used,
         \A d \in Dials : dial'[d].conn = dial[d].conn \/ dial[d].pc \in Early
  PROVE  RoomInv'
<1> SUFFICES ASSUME NEW c \in Conns \cup {NoConn}
             PROVE  Cardinality((used \cap On(c))') <= MaxStreams
  BY DEF RoomInv
<1>1. (used \cap On(c))' \subseteq used \cap On(c)
  BY DEF On, Streams, StreamInv
<1>2. IsFiniteSet(used \cap On(c))
  BY DialsAssumption, FS_Subset DEF On
<1>3. /\ Cardinality((used \cap On(c))') <= Cardinality(used \cap On(c))
      /\ Cardinality((used \cap On(c))') \in Nat /\ Cardinality(used \cap On(c)) \in Nat
  BY <1>1, <1>2, FS_Subset, FS_CardinalityType
<1> QED BY <1>3, LimitAssumption DEF Streams, RoomInv

\* Steps that touch neither a dial nor a stream.
LEMMA StreamQuiet ==
  ASSUME TypeOK, Streams, UNCHANGED <<dial, used, end, sessions, handler>>,
         served' \subseteq served
  PROVE  Streams'
<1>1. RoomInv'
  BY RoomKept
<1> QED BY <1>1 DEF Streams, StreamInv

LEMMA StreamShutdown ==
  ASSUME TypeOK, Streams, NEW c \in Conns, Shutdown(c),
         \A d \in Dials : /\ dial'[d].conn = dial[d].conn
                          /\ dial'[d].pc = dial[d].pc \/ dial'[d].pc = "quit"
  PROVE  Streams'
<1>1. RoomInv'
  <2>1. used' \subseteq used
    BY DEF Shutdown
  <2> QED BY <2>1, RoomKept
<1>2. /\ sessions' \subseteq sessions /\ UNCHANGED <<used, served, handler>>
      /\ \A d \in Dials : end'[d] = end[d] \/ (d \in sessions /\ end'[d] = "reset")
  BY DEF Shutdown, TypeOK, StreamType
<1>3. \A d \in sessions : end[d] # "none"
  BY DEF Streams, StreamInv
<1>4. \A d \in Dials : end'[d] = "none" <=> end[d] = "none"
  BY <1>2, <1>3
<1>5. StreamInv'
  BY <1>2, <1>4 DEF Streams, StreamInv, Early, Opened, TypeOK, StreamType
<1> QED BY <1>1, <1>5 DEF Streams

LEMMA StreamOpen ==
  ASSUME TypeOK, Streams, NEW d \in Dials, OpenStreamSync(d)
  PROVE  Streams'
<1>1. /\ dial' = [dial EXCEPT ![d].pc = "id"] /\ end' = [end EXCEPT ![d] = "open"]
      /\ used' = used \cup {d} /\ UNCHANGED <<sessions, served, handler>>
      /\ dial[d].conn \in Conns
  BY DEF OpenStreamSync, Goto, TypeOK, DialerType
<1>2. \A c \in Conns \cup {NoConn} : On(c)' = On(c)
  BY <1>1 DEF On, TypeOK, DialerType, DialRecords
<1>3. ASSUME NEW c \in Conns \cup {NoConn}
      PROVE  Cardinality((used \cap On(c))') <= MaxStreams
  <2>1. IsFiniteSet(used \cap On(c)) /\ Cardinality(used \cap On(c)) \in Nat
    BY DialsAssumption, FS_Subset, FS_CardinalityType DEF On
  <2>2. CASE dial[d].conn = c
    <3>1. (used \cap On(c))' = (used \cap On(c)) \cup {d}
      BY <1>1, <1>2, <2>2 DEF On
    <3>2. \/ Cardinality((used \cap On(c))') = Cardinality(used \cap On(c))
          \/ Cardinality((used \cap On(c))') = Cardinality(used \cap On(c)) + 1
      BY <2>1, <3>1, FS_AddElement
    <3>3. Cardinality(used \cap On(c)) < MaxStreams
      BY <2>2 DEF OpenStreamSync
    <3> QED BY <2>1, <3>2, <3>3, LimitAssumption
  <2>3. CASE dial[d].conn # c
    <3>1. (used \cap On(c))' = used \cap On(c)
      BY <1>1, <1>2, <2>3 DEF On
    <3> QED BY <3>1 DEF Streams, RoomInv
  <2> QED BY <2>2, <2>3
<1>4. RoomInv'
  BY <1>3 DEF RoomInv
<1>5. StreamInv'
  BY <1>1 DEF Streams, StreamInv, Early, Opened, TypeOK, StreamType, DialerType, DialRecords
<1> QED BY <1>4, <1>5 DEF Streams

LEMMA StreamDial ==
  ASSUME TypeOK, Streams, NEW d \in Dials, Dial(d) \/ DialOn(d)
  PROVE  Streams'
<1>1. CASE OpenStreamSync(d)
  BY <1>1, StreamOpen
<1>2. CASE ResetShut(d)
  <2>1. dial[d].conn \in Conns
    BY <1>2 DEF ResetShut, TypeOK, DialerType
  <2>2. \A e \in Dials : /\ dial'[e].conn = dial[e].conn
                         /\ dial'[e].pc = dial[e].pc \/ dial'[e].pc = "quit"
    BY <1>2 DEF ResetShut, Goto, TypeOK, DialerType, DialRecords
  <2> QED BY <1>2, <2>1, <2>2, StreamShutdown DEF ResetShut
<1>3. CASE ~(OpenStreamSync(d) \/ ResetShut(d))
  <2>1. UNCHANGED <<used, served, handler>>
    BY <1>3, DialFrame
       DEF Dial, DialOn, GetConnection, Connect, ConnectDone, ConnectFail, OpenStream,
           OpenFails, WriteId, EnsureStream, WriteRequest, ReadResponse, TunnelEnds, CloseStream, RemoveStream,
           ResetConnection, ResetQuit, Quit, streamVars
  <2>2. \A e \in Dials \ {d} : dial'[e] = dial[e] /\ end'[e] = end[e]
    <3>1. \A e \in Dials \ {d} : dial'[e] = dial[e]
      BY <1>3 DEF Dial, DialOn, GetConnection, Connect, ConnectDone, ConnectFail, OpenStream,
           OpenFails, WriteId, EnsureStream, WriteRequest, ReadResponse, TunnelEnds, CloseStream, RemoveStream,
           ResetConnection, ResetQuit, Goto, TypeOK, DialerType
    <3>2. \A e \in Dials \ {d} : end'[e] = end[e]
      BY <1>3 DEF Dial, DialOn, GetConnection, Connect, ConnectDone, ConnectFail, OpenStream,
           OpenFails, WriteId, EnsureStream, WriteRequest, ReadResponse, TunnelEnds, CloseStream, RemoveStream,
           ResetConnection, ResetQuit, Quit, streamVars, TypeOK, StreamType
    <3> QED BY <3>1, <3>2
  <2>3. CASE Dial(d) \/ GetConnection(d) \/ Connect(d) \/ ConnectDone(d) \/ ConnectFail(d)
             \/ OpenStream(d) \/ OpenFails(d)
    <3>1. /\ UNCHANGED <<end, sessions>>
          /\ dial[d].pc \in Early \cup {"open"}
          /\ dial'[d].pc \notin Opened
          /\ dial'[d].pc \in Early => dial[d].pc \in Early
      BY <2>3 DEF Dial, GetConnection, Connect, ConnectDone, ConnectFail, OpenStream,
           OpenFails, Goto, streamVars, Early, Opened, TypeOK, DialerType, DialRecords
    <3>2. dial'[d].conn = dial[d].conn \/ dial[d].pc \in Early
      BY <2>3 DEF Dial, GetConnection, Connect, ConnectDone, ConnectFail, OpenStream,
           OpenFails, Goto, Early, TypeOK, DialerType, DialRecords
    <3>3. RoomInv'
      BY <2>1, <2>2, <3>2, RoomKept
    <3>4. StreamInv'
      BY <2>1, <2>2, <3>1 DEF Streams, StreamInv
    <3> QED BY <3>3, <3>4 DEF Streams
  <2>4. CASE WriteId(d) \/ EnsureStream(d) \/ WriteRequest(d) \/ ReadResponse(d) \/ TunnelEnds(d)
             \/ CloseStream(d) \/ RemoveStream(d)
    <3>1. /\ dial[d].pc \in Opened /\ dial'[d].pc \notin Early
          /\ dial'[d].conn = dial[d].conn
      BY <2>4 DEF WriteId, EnsureStream, WriteRequest, ReadResponse, TunnelEnds, CloseStream, RemoveStream,
           Goto, Early, Opened, TypeOK, DialerType, DialRecords
    <3>2. sessions' \subseteq sessions \cup {d} /\ (end[d] # "none" => end'[d] # "none")
      BY <2>4 DEF WriteId, EnsureStream, WriteRequest, ReadResponse, TunnelEnds, CloseStream, RemoveStream,
           streamVars, TypeOK, StreamType
    <3>3. end[d] # "none" /\ end'[d] # "none"
      BY <3>1, <3>2 DEF Streams, StreamInv
    <3>4. RoomInv'
      BY <2>1, <2>2, <3>1, RoomKept
    <3>5. StreamInv'
      BY <2>1, <2>2, <3>1, <3>2, <3>3 DEF Streams, StreamInv, TypeOK, StreamType
    <3> QED BY <3>4, <3>5 DEF Streams
  <2>5. CASE ResetConnection(d) \/ ResetQuit(d)
    <3>1. /\ UNCHANGED <<end, sessions>> /\ dial'[d].conn = dial[d].conn
          /\ dial'[d].pc \notin Early \cup Opened
      BY <2>5 DEF ResetConnection, ResetQuit, Quit, Goto, streamVars, Early, Opened,
           TypeOK, DialerType, DialRecords
    <3>2. RoomInv'
      BY <2>1, <2>2, <3>1, RoomKept
    <3>3. StreamInv'
      BY <2>1, <2>2, <3>1 DEF Streams, StreamInv
    <3> QED BY <3>2, <3>3 DEF Streams
  <2> QED BY <1>3, <2>3, <2>4, <2>5 DEF DialOn
<1> QED BY <1>1, <1>2, <1>3

LEMMA StreamClose ==
  ASSUME TypeOK, Streams, Close \/ CloseOn
  PROVE  Streams'
<1>1. UNCHANGED dial
  BY CloseFrame
<1>2. CASE CloseShut
  <2>1. close.conn \in Conns
    BY <1>2 DEF CloseShut, TypeOK, DialerType
  <2> QED BY <1>1, <1>2, <2>1, StreamShutdown DEF CloseShut
<1>3. CASE Close \/ CloseQuit
  BY <1>1, <1>3, StreamQuiet DEF Close, CloseQuit, Quit, streamVars
<1> QED BY <1>2, <1>3 DEF CloseOn

LEMMA StreamHandler ==
  ASSUME TypeOK, Streams, NEW d \in Dials, HandlerOn(d)
  PROVE  Streams'
<1>1. UNCHANGED <<dial, end, sessions>>
  BY HandlerFrame DEF dialerVars
<1>2. RoomInv'
  <2>1. used' \subseteq used
    BY DEF HandlerOn, AcceptStream, AcceptFailed, IdTimesOut, ServeStream, AnswerStream, EndStream,
           CloseServed, RemoveServed, Complete
  <2> QED BY <1>1, <2>1, RoomKept
<1>3. \A e \in Dials \ {d} : handler'[e] = handler[e]
  BY DEF HandlerOn, AcceptStream, AcceptFailed, IdTimesOut, ServeStream, AnswerStream, EndStream,
         CloseServed, RemoveServed, Complete, Handled, TypeOK, StreamType
<1>4. CASE AcceptStream(d) \/ AcceptFailed(d) \/ IdTimesOut(d)
  <2>1. /\ end[d] # "none" /\ handler[d] = "none" /\ used' = used
        /\ served' = served \/ (served' = served \cup {d} /\ handler'[d] = "queued")
        /\ handler'[d] \in {"queued", "refused", "stuck"}
    BY <1>4 DEF AcceptStream, AcceptFailed, IdTimesOut, Handled, TypeOK, StreamType
  <2>2. d \notin served /\ d \in used
    BY <2>1 DEF Streams, StreamInv, Live
  <2>3. StreamInv'
    BY <1>1, <1>3, <2>1, <2>2 DEF Streams, StreamInv, Live, TypeOK, StreamType
  <2> QED BY <1>2, <2>3 DEF Streams
<1>5. CASE ServeStream(d) \/ AnswerStream(d) \/ EndStream(d) \/ CloseServed(d)
  <2>1. /\ handler[d] \in Live \ {"removing"} /\ handler'[d] \in Live
        /\ UNCHANGED <<used, served>>
    BY <1>5 DEF ServeStream, AnswerStream, EndStream, CloseServed, Handled, Live, TypeOK, StreamType
  <2>2. StreamInv'
    BY <1>1, <1>3, <2>1 DEF Streams, StreamInv, Live, TypeOK, StreamType
  <2> QED BY <1>2, <2>2 DEF Streams
<1>6. CASE RemoveServed(d)
  <2>1. /\ handler[d] = "removing" /\ handler'[d] = "gone" /\ used' = used
        /\ served' = served \ {d}
    BY <1>6 DEF RemoveServed, Handled, TypeOK, StreamType
  <2>2. StreamInv'
    BY <1>1, <1>3, <2>1 DEF Streams, StreamInv, Live, TypeOK, StreamType
  <2> QED BY <1>2, <2>2 DEF Streams
<1>7. CASE Complete(d)
  <2>1. /\ handler[d] \in {"refused", "removing", "gone"} /\ used' = used \ {d}
        /\ UNCHANGED <<served, handler>>
    BY <1>7 DEF Complete
  <2>2. StreamInv'
    BY <1>1, <2>1 DEF Streams, StreamInv
  <2> QED BY <1>2, <2>2 DEF Streams
<1> QED BY <1>4, <1>5, <1>6, <1>7 DEF HandlerOn

LEMMA StreamNext ==
  ASSUME TypeOK, Streams, [Next]_vars
  PROVE  Streams'
<1>1. ASSUME NEW c \in Conns, Lose(c) \/ Notice(c)
      PROVE  Streams'
  <2>1. UNCHANGED dial
    BY <1>1, NoticeFrame DEF dialerVars
  <2>2. CASE ClientShutdown(c)
    BY <2>1, <2>2, StreamShutdown DEF ClientShutdown
  <2>3. CASE Lose(c) \/ ClientNotices(c) \/ ServerNotices(c)
    BY <2>1, <2>3, StreamQuiet DEF Lose, ClientNotices, ServerNotices, streamVars
  <2> QED BY <1>1, <2>2, <2>3 DEF Notice
<1>2. ASSUME NEW c \in Conns, ServerOn(c)
      PROVE  Streams'
  <2>1. served' \subseteq served
    BY <1>2 DEF ServerOn, Accept, AcceptFails, Authenticate, ServerShutdown, streamVars
  <2> QED BY <1>2, <2>1, ServerFrame, StreamQuiet DEF dialerVars
<1>3. CASE UNCHANGED vars
  BY <1>3, StreamQuiet DEF vars, dialerVars, streamVars
<1> QED BY <1>1, <1>2, <1>3, StreamDial, StreamClose, StreamHandler DEF Next

Refused(d) == handler'[d] = "refused" /\ handler[d] # "refused"

\* Every registered session is of a stream that QUIC still counts, and the new
\* one is counted too: the table is full only with one about to be removed.
LEMMA RefusedStep ==
  ASSUME TypeOK, Streams, [Next]_vars, NEW d \in Dials, Refused(d)
  PROVE  \E e \in served \cap On(dial[d].conn) : handler[e] = "removing"
<1> DEFINE c == dial[d].conn
<1>1. AcceptStream(d)
  <2>1. ~UNCHANGED handler
    BY DEF Refused
  <2>2. \E e \in Dials : HandlerOn(e)
    BY <2>1, DialFrame, CloseFrame, NoticeFrame, ServerFrame DEF Next, vars, streamVars
  <2> QED BY <2>2 DEF Refused, HandlerOn, AcceptStream, AcceptFailed, IdTimesOut, ServeStream,
         AnswerStream, EndStream, CloseServed, RemoveServed, Complete, Handled, TypeOK, StreamType
<1>2. /\ handler[d] = "none" /\ end[d] # "none"
      /\ ~(Cardinality(served \cap On(c)) < MaxStreams)
  BY <1>1 DEF AcceptStream, Refused, Handled, TypeOK, StreamType
<1>3. d \in used /\ d \notin served /\ d \in On(c)
  BY <1>2 DEF Streams, StreamInv, Live, On
<1>4. c \in Conns \cup {NoConn}
  BY DEF TypeOK, DialerType, DialRecords
<1> SUFFICES ASSUME \A e \in served \cap On(c) : handler[e] # "removing"
             PROVE  FALSE
  OBVIOUS
<1>5. served \cap On(c) \subseteq (used \cap On(c)) \ {d}
  BY <1>3 DEF Streams, StreamInv, Live, TypeOK, StreamType
<1>6. IsFiniteSet(used \cap On(c)) /\ Cardinality(used \cap On(c)) \in Nat
  BY DialsAssumption, FS_Subset, FS_CardinalityType DEF On
<1>7. /\ IsFiniteSet((used \cap On(c)) \ {d})
      /\ Cardinality((used \cap On(c)) \ {d}) = Cardinality(used \cap On(c)) - 1
  BY <1>3, <1>6, FS_RemoveElement
<1>8. /\ Cardinality(served \cap On(c)) \in Nat
      /\ Cardinality(served \cap On(c)) <= Cardinality((used \cap On(c)) \ {d})
  BY <1>5, <1>7, FS_Subset, FS_CardinalityType
<1>9. Cardinality(used \cap On(c)) <= MaxStreams
  BY <1>4 DEF Streams, RoomInv
<1> QED BY <1>2, <1>6, <1>7, <1>8, <1>9, LimitAssumption

\* The server refuses a stream that QUIC let the client open only while another
\* session of that connection is between its reset and its removal.
THEOREM RefusedOnlyWhileClosing == Spec => RefusedWhileClosing
<1> DEFINE Inv == TypeOK /\ CountInv /\ LimitKept /\ Streams
           Step == \A d \in Dials :
                     handler'[d] = "refused" /\ handler[d] # "refused" =>
                       \E e \in served \cap On(dial[d].conn) : handler[e] = "removing"
<1>1. Init => Inv
  BY InitType, CountInit, StreamInit
<1>2. Inv /\ [Next]_vars => Inv'
  BY NextType, CountNext, StreamNext
<1>3. Inv /\ [Next]_vars => [Step]_vars
  BY RefusedStep DEF Refused
<1> QED BY <1>1, <1>2, <1>3, PTL DEF Spec, RefusedWhileClosing

=============================================================================

----------------------------- MODULE AesingFlow -----------------------------
(***************************************************************************)
(* The tunnels of one AesingFlow dialer.  Dials share one QUIC connection: *)
(* a dial connects if there is none, opens a stream, registers a session,  *)
(* and asks the server for its target; a dial that cannot open a stream    *)
(* closes the shared connection.  The server admits so many connections,   *)
(* registers a session for each stream that arrives and serves it.  Either *)
(* side counts its sessions; QUIC counts the streams that the client has   *)
(* open, and gives one back when both sides have closed it.                *)
(*                                                                         *)
(* A dial has at most one stream, which has its name.  Connections are     *)
(* lost, found to be lost, and never used again.  Datagram sessions are    *)
(* not modelled.                                                           *)
(***************************************************************************)
EXTENDS Naturals, FiniteSets

CONSTANTS
  Dials, Conns,
  NoDial, NoConn,
  Cancelled,       \* the dials whose context ends while they wait
  BadTargets,      \* the dials whose target cannot be written
  LateIds,         \* the dials whose id may reach the server too late
  MaxStreams,      \* MaxStreamsPerClient of the server
  ClientStreams,   \* MaxStreams of the client
  MaxConnections,  \* of the server
  MaxConcurrent,   \* MaxConcurrentStreams of its proxy
  MaxLosses        \* bound on the connections the network loses

ASSUME NoneAssumption == NoDial \notin Dials /\ NoConn \notin Conns
ASSUME LimitAssumption ==
  /\ MaxStreams \in Nat \ {0} /\ ClientStreams \in Nat \ {0}
  /\ MaxConnections \in Nat \ {0} /\ MaxConcurrent \in Nat \ {0}
  /\ MaxLosses \in Nat
ASSUME DialsAssumption ==
  /\ IsFiniteSet(Dials)
  /\ Cancelled \subseteq Dials /\ BadTargets \subseteq Dials /\ LateIds \subseteq Dials

VARIABLES
  mu,          \* who holds connectionMu across an await
  connection,  \* Dialer.connection
  close,       \* Dialer.Close
  dial,        \* each DialTarget
  client,      \* the client's end of each connection: QUIC and flowConn.state
  server,      \* the server's end
  active,      \* server.active
  used,        \* the streams that QUIC counts
  end,         \* the client's end of each stream, as QUIC has it
  sessions,    \* flowConn.streams of the client's ends
  served,      \* flowConn.streams of the server's ends
  handler,     \* streamLoop and serveStream about each stream
  losses       \* bound

dialerVars == <<mu, connection, close, dial>>
connVars == <<client, server, active, losses>>
streamVars == <<used, end, sessions, served, handler>>
vars == <<dialerVars, connVars, streamVars>>

Init ==
  /\ mu = NoDial /\ connection = NoConn
  /\ close = [pc |-> "idle", conn |-> NoConn]
  /\ dial = [d \in Dials |-> [pc |-> "idle", conn |-> NoConn]]
  /\ client = [c \in Conns |-> [quic |-> "none", state |-> "new"]]
  /\ server = [c \in Conns |-> [quic |-> "none", pc |-> "none"]]
  /\ active = 0 /\ losses = 0
  /\ used = {} /\ end = [d \in Dials |-> "none"]
  /\ sessions = {} /\ served = {} /\ handler = [d \in Dials |-> "none"]

On(c) == {d \in Dials : dial[d].conn = c}
Goto(d, pc) == dial' = [dial EXCEPT ![d].pc = pc]
Up(c) == client[c].quic = "up"

\* The limit both have agreed on in the handshake.
ClientLimit == IF ClientStreams < MaxStreams THEN ClientStreams ELSE MaxStreams
Serving(c) == server[c] = [quic |-> "up", pc |-> "ready"]

-----------------------------------------------------------------------------
(* Dialer.DialTarget.                                                      *)

Dial(d) ==
  /\ dial[d].pc = "idle"
  /\ Goto(d, "lock")
  /\ UNCHANGED <<mu, connection, close, connVars, streamVars>>

GetConnection(d) ==
  /\ dial[d].pc = "lock" /\ mu = NoDial
  /\ IF connection # NoConn
     THEN dial' = [dial EXCEPT ![d] = [pc |-> "open", conn |-> connection]]
          /\ UNCHANGED mu
     ELSE Goto(d, "connect") /\ mu' = d
  /\ UNCHANGED <<connection, close, connVars, streamVars>>

\* DialAddr gets through, or does not.  Connections are alike: take the first.
Unused == {c \in Conns : client[c].quic = "none"}

Connect(d) ==
  /\ dial[d].pc = "connect"
  /\ \/ /\ Unused # {}
        /\ LET c == CHOOSE c \in Unused : TRUE
           IN /\ dial' = [dial EXCEPT ![d] = [pc |-> "handshake", conn |-> c]]
              /\ client' = [client EXCEPT ![c].quic = "up"]
              /\ server' = [server EXCEPT ![c] = [quic |-> "up", pc |-> "waiting"]]
        /\ UNCHANGED mu
     \/ Goto(d, "done") /\ mu' = NoDial /\ UNCHANGED <<client, server>>
  /\ UNCHANGED <<connection, close, active, losses, streamVars>>

\* clientHandshake ends when the server's ConnectionReady arrives.
ConnectDone(d) ==
  LET c == dial[d].conn
  IN /\ dial[d].pc = "handshake" /\ Up(c) /\ server[c].pc = "ready"
     /\ client' = [client EXCEPT ![c].state = "ready"]
     /\ connection' = c /\ mu' = NoDial
     /\ Goto(d, "open")
     /\ UNCHANGED <<close, server, active, losses, streamVars>>

\* Mutant: the mutex is kept.
ConnectFailLocked(d) ==
  /\ dial[d].pc = "handshake"
  /\ client' = [client EXCEPT ![dial[d].conn].quic = "down"]
  /\ Goto(d, "done")
  /\ UNCHANGED <<mu, connection, close, server, active, losses, streamVars>>

\* It fails, or its time is up.
ConnectFail(d) ==
  /\ dial[d].pc = "handshake"
  /\ client' = [client EXCEPT ![dial[d].conn].quic = "down"]
  /\ mu' = NoDial
  /\ Goto(d, "done")
  /\ UNCHANGED <<connection, close, server, active, losses, streamVars>>

OpenStream(d) ==
  /\ dial[d].pc = "open"
  /\ Goto(d, IF client[dial[d].conn].state = "ready" THEN "sync" ELSE "reset")
  /\ UNCHANGED <<mu, connection, close, connVars, streamVars>>

\* Mutant: the control stream leaves room for one stream more.
OpenStreamSyncMore(d) ==
  /\ dial[d].pc = "sync" /\ Up(dial[d].conn)
  /\ Cardinality(used \cap On(dial[d].conn)) < MaxStreams + 1
  /\ used' = used \cup {d} /\ end' = [end EXCEPT ![d] = "open"]
  /\ Goto(d, "id")
  /\ UNCHANGED <<mu, connection, close, connVars, sessions, served, handler>>

\* OpenStreamSync waits until QUIC lets it open a stream.
OpenStreamSync(d) ==
  /\ dial[d].pc = "sync" /\ Up(dial[d].conn)
  /\ Cardinality(used \cap On(dial[d].conn)) < MaxStreams
  /\ used' = used \cup {d} /\ end' = [end EXCEPT ![d] = "open"]
  /\ Goto(d, "id")
  /\ UNCHANGED <<mu, connection, close, connVars, sessions, served, handler>>

OpenFails(d) ==
  /\ dial[d].pc = "sync" /\ (~Up(dial[d].conn) \/ d \in Cancelled)
  /\ Goto(d, "reset")
  /\ UNCHANGED <<mu, connection, close, connVars, streamVars>>

WriteId(d) ==
  /\ dial[d].pc = "id"
  /\ IF Up(dial[d].conn)
     THEN Goto(d, "ensure") /\ end' = [end EXCEPT ![d] = "sent"]
     ELSE Goto(d, "reset") /\ UNCHANGED end
  /\ UNCHANGED <<mu, connection, close, connVars, used, sessions, served, handler>>

\* ensureStream and the control frame that follows; the stream stays open if
\* there are too many sessions, the session stays if the frame is not written.
EnsureStream(d) ==
  LET room == Cardinality(sessions \cap On(dial[d].conn)) < ClientLimit
  IN /\ dial[d].pc = "ensure"
     /\ sessions' = IF room THEN sessions \cup {d} ELSE sessions
     /\ Goto(d, IF room /\ Up(dial[d].conn) THEN "request" ELSE "reset")
     /\ UNCHANGED <<mu, connection, close, connVars, used, end, served, handler>>

\* A host that is empty or too long is refused before anything is written, and
\* nothing is written once the server has stopped reading; an error of
\* writeRequest or readResponse closes the stream.
StopsReading == {"refused", "stuck", "closing", "removing", "gone"}

WriteRequest(d) ==
  /\ dial[d].pc = "request"
  /\ \/ /\ d \notin BadTargets /\ Up(dial[d].conn) /\ end[d] = "sent"
        /\ Goto(d, "answer")
     \/ /\ \/ d \in BadTargets \/ handler[d] \in StopsReading
           \/ ~Up(dial[d].conn) \/ end[d] = "reset"
        /\ Goto(d, "close")
  /\ UNCHANGED <<mu, connection, close, connVars, streamVars>>

\* It has no deadline and does not look at the context.
ReadResponse(d) ==
  /\ dial[d].pc = "answer"
  /\ \/ /\ handler[d] = "serving" /\ Up(dial[d].conn) /\ end[d] = "sent"
        /\ Goto(d, "up")
     \/ /\ \/ handler[d] \in StopsReading \ {"stuck"}
           \/ ~Up(dial[d].conn) \/ end[d] = "reset"
        /\ Goto(d, "close")
  /\ UNCHANGED <<mu, connection, close, connVars, streamVars>>

\* A tunnel ends when one of its sides has no more to send, or fails.
TunnelEnds(d) ==
  /\ dial[d].pc = "up"
  /\ Goto(d, "close")
  /\ UNCHANGED <<mu, connection, close, connVars, streamVars>>

\* streamSession.Close resets the stream and then forgets the session.
CloseStream(d) ==
  /\ dial[d].pc = "close"
  /\ end' = [end EXCEPT ![d] = "reset"]
  /\ Goto(d, "remove")
  /\ UNCHANGED <<mu, connection, close, connVars, used, sessions, served, handler>>

RemoveStream(d) ==
  /\ dial[d].pc = "remove"
  /\ sessions' = sessions \ {d}
  /\ Goto(d, "done")
  /\ UNCHANGED <<mu, connection, close, connVars, used, end, served, handler>>

-----------------------------------------------------------------------------
(* Dialer.resetConnection and Close.                                       *)

\* Mutant: whatever connection there is gives way.
ResetConnectionAny(d) ==
  /\ dial[d].pc = "reset" /\ mu = NoDial
  /\ connection' = NoConn
  /\ Goto(d, "shut")
  /\ UNCHANGED <<mu, close, connVars, streamVars>>

ResetConnection(d) ==
  /\ dial[d].pc = "reset" /\ mu = NoDial
  /\ connection' = IF connection = dial[d].conn THEN NoConn ELSE connection
  /\ Goto(d, "shut")
  /\ UNCHANGED <<mu, close, connVars, streamVars>>

\* flowConn.shutdown closes the sessions there are.
Shutdown(c) ==
  /\ client' = [client EXCEPT ![c].state = "closed"]
  /\ IF client[c].state = "ready"
     THEN /\ end' = [d \in Dials |-> IF d \in sessions \cap On(c) THEN "reset"
                                     ELSE end[d]]
          /\ sessions' = sessions \ On(c)
     ELSE UNCHANGED <<end, sessions>>
  /\ UNCHANGED <<server, active, losses, used, served, handler>>

Quit(c) ==
  /\ client' = [client EXCEPT ![c].quic = "down"]
  /\ UNCHANGED <<server, active, losses, streamVars>>

ResetShut(d) ==
  /\ dial[d].pc = "shut"
  /\ Shutdown(dial[d].conn) /\ Goto(d, "quit")
  /\ UNCHANGED <<mu, connection, close>>

ResetQuit(d) ==
  /\ dial[d].pc = "quit"
  /\ Quit(dial[d].conn) /\ Goto(d, "done")
  /\ UNCHANGED <<mu, connection, close>>

Close ==
  /\ close.pc = "idle" /\ mu = NoDial
  /\ close' = [pc |-> IF connection = NoConn THEN "done" ELSE "shut",
               conn |-> connection]
  /\ connection' = NoConn
  /\ UNCHANGED <<mu, dial, connVars, streamVars>>

CloseShut ==
  /\ close.pc = "shut"
  /\ Shutdown(close.conn) /\ close' = [close EXCEPT !.pc = "quit"]
  /\ UNCHANGED <<mu, connection, dial>>

CloseQuit ==
  /\ close.pc = "quit"
  /\ Quit(close.conn) /\ close' = [close EXCEPT !.pc = "done"]
  /\ UNCHANGED <<mu, connection, dial>>

-----------------------------------------------------------------------------
(* Connections are lost, and either end finds out.                         *)

Lose(c) ==
  /\ losses < MaxLosses /\ Up(c) /\ Serving(c)
  /\ losses' = losses + 1
  /\ \/ client' = [client EXCEPT ![c].quic = "down"] /\ UNCHANGED server
     \/ server' = [server EXCEPT ![c].quic = "down"] /\ UNCHANGED client
  /\ UNCHANGED <<dialerVars, active, streamVars>>

ClientNotices(c) ==
  /\ Up(c) /\ server[c].quic = "down"
  /\ client' = [client EXCEPT ![c].quic = "down"]
  /\ UNCHANGED <<dialerVars, server, active, losses, streamVars>>

ServerNotices(c) ==
  /\ server[c].quic = "up" /\ client[c].quic = "down"
  /\ server' = [server EXCEPT ![c].quic = "down"]
  /\ UNCHANGED <<dialerVars, client, active, losses, streamVars>>

\* The goroutine that waits for the end of the QUIC connection
ClientShutdown(c) ==
  /\ client[c] = [quic |-> "down", state |-> "ready"]
  /\ Shutdown(c)
  /\ UNCHANGED dialerVars

-----------------------------------------------------------------------------
(* server.Accept, by as many workers as there are connections.             *)

ServerGoto(c, pc) == server' = [server EXCEPT ![c].pc = pc]

\* Mutant: the count is compared before it is raised.
AcceptMore(c) ==
  /\ server[c].pc = "waiting"
  /\ active' = active + 1
  /\ ServerGoto(c, IF active > MaxConnections THEN "busy" ELSE "handshake")
  /\ UNCHANGED <<dialerVars, client, losses, streamVars>>

Accept(c) ==
  /\ server[c].pc = "waiting"
  /\ active' = active + 1
  /\ ServerGoto(c, IF active + 1 > MaxConnections THEN "busy" ELSE "handshake")
  /\ UNCHANGED <<dialerVars, client, losses, streamVars>>

\* Mutant: who fails in the handshake is not discounted.
AcceptFailsCounted(c) ==
  /\ server[c].pc \in {"busy", "handshake"}
  /\ active' = IF server[c].pc = "busy" THEN active - 1 ELSE active
  /\ server' = [server EXCEPT ![c] = [quic |-> "down", pc |-> "gone"]]
  /\ UNCHANGED <<dialerVars, client, losses, streamVars>>

\* Mutant: the goroutine that discounts runs for who has failed as well.
AcceptFailsTwice(c) ==
  /\ server[c].pc \in {"busy", "handshake"}
  /\ active' = active - 1
  /\ server' = [server EXCEPT ![c] = [quic |-> "down", pc |-> "ready"]]
  /\ UNCHANGED <<dialerVars, client, losses, streamVars>>

\* Too many connections, or serverHandshake fails or takes too long.
AcceptFails(c) ==
  /\ server[c].pc \in {"busy", "handshake"}
  /\ active' = active - 1
  /\ server' = [server EXCEPT ![c] = [quic |-> "down", pc |-> "gone"]]
  /\ UNCHANGED <<dialerVars, client, losses, streamVars>>

\* The token is known: ConnectionReady is sent and streamLoop started.
Authenticate(c) ==
  /\ server[c] = [quic |-> "up", pc |-> "handshake"]
  /\ ServerGoto(c, "ready")
  /\ UNCHANGED <<dialerVars, client, active, losses, streamVars>>

\* shutdown closes the sessions and cancels ctx, which discounts the connection.
ServerShutdown(c) ==
  /\ server[c] = [quic |-> "down", pc |-> "ready"]
  /\ ServerGoto(c, "gone") /\ served' = served \ On(c)
  /\ active' = active - 1
  /\ UNCHANGED <<dialerVars, client, losses, used, end, sessions, handler>>

-----------------------------------------------------------------------------
(* flowConn.streamLoop and serveStream at the server.                      *)

Handled(pc, d) == handler' = [handler EXCEPT ![d] = pc]

\* streamLoop takes one stream after the other, and refuses what is too much.
\* What waits in acceptStreams has a session, so there is always room.
AcceptStream(d) ==
  /\ handler[d] = "none" /\ end[d] \in {"sent", "reset"}
  /\ Serving(dial[d].conn)
  /\ IF Cardinality(served \cap On(dial[d].conn)) < MaxStreams
     THEN Handled("queued", d) /\ served' = served \cup {d}
     ELSE Handled("refused", d) /\ UNCHANGED served
  /\ UNCHANGED <<dialerVars, connVars, used, end, sessions>>

\* The reset overtakes the id: only one direction is closed, for good.
AcceptFailed(d) ==
  /\ handler[d] = "none" /\ end[d] = "reset"
  /\ Serving(dial[d].conn)
  /\ Handled("stuck", d)
  /\ UNCHANGED <<dialerVars, connVars, used, end, sessions, served>>

\* The id is lost and sent again too late: the request that follows it, or a later
\* stream, tells the server of a stream whose id it then waits for no longer than
\* its HandshakeTimeout.
IdTimesOut(d) ==
  /\ handler[d] = "none" /\ d \in LateIds /\ end[d] = "sent"
  /\ Serving(dial[d].conn)
  /\ \/ dial[d].pc = "answer"
     \/ \E e \in On(dial[d].conn) \ {d} :
          end[e] \in {"sent", "reset"} /\ handler[e] = "none"
  /\ Handled("stuck", d)
  /\ UNCHANGED <<dialerVars, connVars, used, end, sessions, served>>

\* A stream is served when it gets one of the slots that all connections share.
Taken == {d \in Dials : handler[d] \in {"taken", "serving", "closing", "removing"}}

ServeStream(d) ==
  /\ handler[d] = "queued" /\ Cardinality(Taken) < MaxConcurrent
  /\ Handled("taken", d)
  /\ UNCHANGED <<dialerVars, connVars, used, end, sessions, served>>

\* The target is reached and the answer written, or the handler gives up.
AnswerStream(d) ==
  /\ handler[d] = "taken"
  /\ \/ Serving(dial[d].conn) /\ Handled("serving", d)
     \/ Handled("closing", d)
  /\ UNCHANGED <<dialerVars, connVars, used, end, sessions, served>>

EndStream(d) ==
  /\ handler[d] = "serving"
  /\ Handled("closing", d)
  /\ UNCHANGED <<dialerVars, connVars, used, end, sessions, served>>

CloseServed(d) ==
  /\ handler[d] = "closing"
  /\ Handled("removing", d)
  /\ UNCHANGED <<dialerVars, connVars, used, end, sessions, served>>

RemoveServed(d) ==
  /\ handler[d] = "removing"
  /\ Handled("gone", d) /\ served' = served \ {d}
  /\ UNCHANGED <<dialerVars, connVars, used, end, sessions>>

\* QUIC gives a stream back that both sides have closed.
Complete(d) ==
  /\ d \in used /\ end[d] = "reset"
  /\ handler[d] \in {"refused", "removing", "gone"}
  /\ Up(dial[d].conn) /\ server[dial[d].conn].quic = "up"
  /\ used' = used \ {d}
  /\ UNCHANGED <<dialerVars, connVars, end, sessions, served, handler>>

-----------------------------------------------------------------------------
DialOn(d) ==
  \/ GetConnection(d) \/ Connect(d) \/ ConnectDone(d) \/ ConnectFail(d)
  \/ OpenStream(d) \/ OpenStreamSync(d) \/ OpenFails(d) \/ WriteId(d)
  \/ EnsureStream(d) \/ WriteRequest(d) \/ ReadResponse(d) \/ TunnelEnds(d)
  \/ CloseStream(d) \/ RemoveStream(d)
  \/ ResetConnection(d) \/ ResetShut(d) \/ ResetQuit(d)
CloseOn == CloseShut \/ CloseQuit
Notice(c) == ClientNotices(c) \/ ServerNotices(c) \/ ClientShutdown(c)
ServerOn(c) ==
  \/ Accept(c) \/ AcceptFails(c) \/ Authenticate(c) \/ ServerShutdown(c)
HandlerOn(d) ==
  \/ AcceptStream(d) \/ AcceptFailed(d) \/ IdTimesOut(d) \/ ServeStream(d)
  \/ AnswerStream(d) \/ EndStream(d) \/ CloseServed(d) \/ RemoveServed(d) \/ Complete(d)

Next ==
  \/ \E d \in Dials : Dial(d) \/ DialOn(d) \/ HandlerOn(d)
  \/ Close \/ CloseOn
  \/ \E c \in Conns : Lose(c) \/ Notice(c) \/ ServerOn(c)

Spec == Init /\ [][Next]_vars

\* Goroutines go on, handshakes and tunnels end, and an end that is gone is
\* noticed after QUIC's idle timeout.
FairSpec ==
  /\ Spec /\ WF_vars(CloseOn)
  /\ \A d \in Dials : WF_vars(DialOn(d)) /\ WF_vars(HandlerOn(d))
  /\ \A c \in Conns : WF_vars(Notice(c)) /\ WF_vars(ServerOn(c))

-----------------------------------------------------------------------------
(* Properties.                                                             *)

DialRecords ==
  [pc : {"idle", "lock", "connect", "handshake", "open", "sync", "id", "ensure",
         "request", "answer", "up", "close", "remove", "reset", "shut", "quit",
         "done"},
   conn : Conns \cup {NoConn}]
ClientEnds == [quic : {"none", "up", "down"}, state : {"new", "ready", "closed"}]
ServerEnds ==
  [quic : {"none", "up", "down"},
   pc : {"none", "waiting", "busy", "handshake", "ready", "gone"}]

DialerType ==
  /\ mu \in Dials \cup {NoDial} /\ connection \in Conns \cup {NoConn}
  /\ close \in [pc : {"idle", "shut", "quit", "done"}, conn : Conns \cup {NoConn}]
  /\ close.pc \in {"shut", "quit"} => close.conn \in Conns
  /\ dial \in [Dials -> DialRecords]
  /\ \A d \in Dials : dial[d].pc \notin {"idle", "lock", "connect", "done"} =>
                        dial[d].conn \in Conns
ConnType ==
  /\ client \in [Conns -> ClientEnds] /\ server \in [Conns -> ServerEnds]
  /\ active \in Nat /\ losses \in Nat
StreamType ==
  /\ used \in SUBSET Dials /\ sessions \in SUBSET Dials /\ served \in SUBSET Dials
  /\ end \in [Dials -> {"none", "open", "sent", "reset"}]
  /\ handler \in [Dials -> {"none", "refused", "stuck", "queued",
                            "taken", "serving", "closing", "removing", "gone"}]

\* Dials, ends of connections, streams and their handlers hold values of their
\* kinds; a dial that is past getConnection has a connection.
TypeOK == DialerType /\ ConnType /\ StreamType

\* The server never serves more connections than MaxConnections, however many
\* arrive at once, are refused, fail in the handshake or are lost.
Admitted == {c \in Conns : server[c].pc \in {"handshake", "ready"}}
LimitKept == Cardinality(Admitted) <= MaxConnections

\* A connection that the client keeps open is the dialer's, or somebody is about
\* to make it the dialer's or to close it: resets that overlap leak none.
NoLeak ==
  \A c \in Conns :
    Up(c) => \/ c = connection
             \/ close.conn = c /\ close.pc \in {"shut", "quit"}
             \/ \E d \in On(c) : dial[d].pc \in {"handshake", "shut", "quit"}

\* The limit of ensureStream at the server is never met by a client that QUIC
\* lets open a stream, unless a session is between its reset and its removal.
RefusedWhileClosing ==
  [][\A d \in Dials :
       handler'[d] = "refused" /\ handler[d] # "refused" =>
         \E e \in served \cap On(dial[d].conn) : handler[e] = "removing"]_vars

\* A dial that begins comes to an end or becomes a tunnel, whoever else resets
\* the connection, holds the mutex or uses up the streams - unless the server has
\* given up on an id: who waits for the answer to it, or for the room that such
\* streams never give back, hangs as long as the connection lives.
Begun(d) == dial[d].pc = "lock"
Ended(d) == dial[d].pc \in {"up", "done"}
Stuck(c) == {d \in used \cap On(c) : handler[d] = "stuck"}
Hung(d) ==
  /\ dial[d].pc \in {"answer", "sync"} /\ Up(dial[d].conn)
  /\ \/ dial[d].pc = "answer" /\ handler[d] = "stuck"
     \/ /\ dial[d].pc = "sync" /\ d \notin Cancelled
        /\ Cardinality(Stuck(dial[d].conn)) = MaxStreams
DialsEnd == \A d \in Dials : Begun(d) ~> Ended(d) \/ []Hung(d)

\* A cancelled context stops a dial, as the manual says.
CancelledEnd == \A d \in Cancelled : Begun(d) ~> Ended(d)

\* When the client's ends of all connections are down, the server counts none in
\* the end: what it admitted, refused and lost is all discounted.
AllDown == \A c \in Conns : client[c].quic # "up"
CountsNone == active = 0
ActiveReturns == (<>[]AllDown) => <>[]CountsNone

\* A dial that drops the connection finds it stale, as the manual says: it does
\* not cut the tunnels of the others.
Stale(c) == ~Up(c) \/ client[c].state = "closed"
DropsOnlyStale ==
  \A d, e \in Dials :
    dial[d].pc = "reset" /\ dial[e].pc = "up" /\ dial[e].conn = dial[d].conn =>
      Stale(dial[d].conn)
=============================================================================

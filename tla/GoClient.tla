------------------------------ MODULE GoClient ------------------------------
(***************************************************************************)
(* The Go client (client.go) with its connections (netcode_conn.go): one   *)
(* socket and one receiving goroutine per server tried, all feeding one    *)
(* channel that Client.Update drains.                                      *)
(*                                                                         *)
(* A client is good for one connection: it forgets its token when it       *)
(* disconnects.  Moving to the next server dials a new connection and      *)
(* leaves the old one open, so packets of the old server keep coming; only *)
(* the comparison of addresses in OnPacketData holds them back.  A packet  *)
(* that cannot be read is logged and processed all the same.               *)
(*                                                                         *)
(* The servers are an environment that answers what the client sent; what  *)
(* is in a packet is chosen when it leaves the channel.  net.DialUDP       *)
(* succeeds here.                                                          *)
(***************************************************************************)
EXTENDS Integers, Sequences

CONSTANTS
    Servers, NoServer,
    TokenServers,       \* ConnectToken.ServerAddrs
    TimeoutSeconds,     \* of the token
    TimeoutFactor,      \* 1000 in the code: milliseconds, on a clock of seconds
    TokenLifetime,      \* ExpireTimestamp - CreateTimestamp
    ChannelSize,        \* capacity of packetCh
    QueueSize,          \* PACKET_QUEUE_SIZE
    SendInterval,       \* 1.0 / PACKET_SEND_RATE, in ticks
    MaxGap,             \* bound: ticks between two updates
    MaxTime,            \* bound: the clock stops here, updates go on
    MaxBurst,           \* bound: packets read while one Update drains the channel
    Horizon             \* bound: nothing is read from a socket after this time

ASSUME GoClientAssumption ==
    /\ NoServer \notin Servers
    /\ TokenServers \in Seq(Servers) /\ Len(TokenServers) > 0
    /\ TimeoutSeconds \in Int /\ TimeoutFactor \in Nat \ {0}
    /\ {TokenLifetime, ChannelSize} \subseteq Nat \ {0}
    /\ {QueueSize, SendInterval, MaxGap, MaxTime, MaxBurst, Horizon} \subseteq Nat

\* ClientState
StateTokenExpired == -6
StateConnectionTimedOut == -4
StateConnectionResponseTimedOut == -3
StateConnectionRequestTimedOut == -2
StateConnectionDenied == -1
StateDisconnected == 0
StateSendingConnectionRequest == 1
StateSendingConnectionResponse == 2
StateConnected == 3

VARIABLES
    client,         \* the fields of Client
    conn,           \* the connection dialled for each server of the token
    channel,        \* packetCh: the connections its packets came from
    phase, burst,   \* "idle", or "draining" inside Update
    sent,           \* what reached the servers: connection and kind of packet
    wasConnected    \* history: the client was connected once

vars == <<client, conn, channel, phase, burst, sent, wasConnected>>

Conns == 1 .. Len(TokenServers)
NoConn == 0

\* NewClient
Init ==
    /\ client = [state |-> StateDisconnected, time |-> 0, startTime |-> 0,
                 lastPacketSendTime |-> -1, lastPacketRecvTime |-> -1,
                 shouldDisconnect |-> FALSE, shouldDisconnectState |-> StateDisconnected,
                 serverIndex |-> 1, serverAddress |-> NoServer, hasToken |-> TRUE,
                 challenge |-> NoServer, conn |-> NoConn, packetQueue |-> <<>>]
    /\ conn = [k \in Conns |-> [socket |-> "none", receiver |-> "none"]]
    /\ channel = <<>>
    /\ phase = "idle" /\ burst = 0
    /\ sent = {} /\ wasConnected = FALSE

-----------------------------------------------------------------------------
(* Connecting and disconnecting, as functions of the client's fields and   *)
(* of the connections.                                                     *)

\* Mutant of ConnectStart: each connect restarts the clock of the token.
ConnectStartNow(c) == c.time

\* Connect sets startTime to 0, at the first server and at each next one.
ConnectStart(c) == 0

\* Client.Connect
ConnectTo(c) ==
    [c EXCEPT !.startTime = ConnectStart(c),
              !.serverAddress = TokenServers[c.serverIndex],
              !.conn = c.serverIndex,
              !.state = StateSendingConnectionRequest]

\* NetcodeConn.Dial and create
Dialled(cs, c) ==
    [cs EXCEPT ![c.serverIndex] = [socket |-> "open", receiver |-> "reading"]]

\* Mutant of Reset: the deferred disconnect is kept.
ResetKeepingDisconnect(c) ==
    [c EXCEPT !.lastPacketSendTime = c.time - 1, !.lastPacketRecvTime = c.time,
              !.challenge = NoServer]

\* Client.Reset
Reset(c) ==
    [c EXCEPT !.lastPacketSendTime = c.time - 1, !.lastPacketRecvTime = c.time,
              !.shouldDisconnect = FALSE, !.shouldDisconnectState = StateDisconnected,
              !.challenge = NoServer]

\* connectNextServer
HasNextServer(c) == c.serverIndex + 1 <= Len(TokenServers)
NextServer(c) == Reset([c EXCEPT !.serverIndex = @ + 1])

\* resetConnectionData
ResetConnectionData(c, state) ==
    Reset([c EXCEPT !.startTime = 0, !.serverIndex = 1, !.serverAddress = NoServer,
                    !.hasToken = FALSE, !.state = state, !.packetQueue = <<>>])

\* Mutant of Closed: the socket is left open.
ClosedNothing(cs, c) == cs

\* NetcodeConn.Close, of the connection in use.
Closed(cs, c) == [cs EXCEPT ![c.conn].socket = "closed"]

-----------------------------------------------------------------------------
(* The receiving goroutines, NetcodeConn.receiver.                         *)

\* A reply arrives, and waits if the channel is full.
Receive(k) ==
    /\ conn[k].receiver = "reading" /\ conn[k].socket = "open"
    /\ client.time <= Horizon
    /\ \E p \in sent : p.conn = k
    /\ phase = "draining" => burst < MaxBurst
    /\ burst' = IF phase = "draining" THEN burst + 1 ELSE burst
    /\ IF Len(channel) < ChannelSize
       THEN channel' = Append(channel, k) /\ UNCHANGED conn
       ELSE conn' = [conn EXCEPT ![k].receiver = "blocked"] /\ UNCHANGED channel
    /\ UNCHANGED <<client, phase, sent, wasConnected>>

\* A goroutine that is not waiting notices that its socket is closed.
ReceiverEnds(k) ==
    /\ conn[k].receiver = "reading" /\ conn[k].socket = "closed"
    /\ conn' = [conn EXCEPT ![k].receiver = "ended"]
    /\ UNCHANGED <<client, channel, phase, burst, sent, wasConnected>>

-----------------------------------------------------------------------------
(* Client.Update                                                           *)

\* Mutant of Drains: a client that is not connected does not look.
DrainsInAction == client.state > StateDisconnected

\* recv empties the channel in every state.
Drains == TRUE

UpdateBegin ==
    /\ phase = "idle"
    /\ \E t \in client.time .. client.time + MaxGap :
          t <= MaxTime /\ client' = [client EXCEPT !.time = t]
    /\ phase' = "draining"
    /\ UNCHANGED <<conn, channel, burst, sent, wasConnected>>

\* One packet leaves the channel, and a waiting one takes its place.
Waiting == {k \in Conns : conn[k].receiver = "blocked"}

TakePacket ==
    /\ phase = "draining" /\ Drains /\ channel # <<>>
    /\ IF Waiting = {}
       THEN channel' = Tail(channel) /\ UNCHANGED conn
       ELSE \E k \in Waiting : /\ channel' = Append(Tail(channel), k)
                               /\ conn' = [conn EXCEPT ![k].receiver = "reading"]
    /\ UNCHANGED <<phase, burst, sent>>

From == TokenServers[Head(channel)]

\* Mutant of FromServer: the sender is not compared.
FromServerAny == client.serverAddress # NoServer

\* OnPacketData compares addresses first.
FromServer == client.serverAddress = From

OtherServersPacket ==
    /\ TakePacket
    /\ ~FromServer
    /\ UNCHANGED client

\* processPacket.  A readable packet was caused by something the client sent
\* on that connection; an unreadable one counts like any other.
Heard(c) == [c EXCEPT !.lastPacketRecvTime = c.time]

Connecting(c) ==
    c.state \in {StateSendingConnectionRequest, StateSendingConnectionResponse}

\* PacketQueue.Push
Push(queue, x) == IF Len(queue) < QueueSize THEN Append(queue, x) ELSE queue

DeniedPacket ==
    /\ TakePacket /\ FromServer
    /\ client' = Heard(IF Connecting(client)
                       THEN [client EXCEPT !.shouldDisconnect = TRUE,
                                           !.shouldDisconnectState = StateConnectionDenied]
                       ELSE client)

ChallengePacket ==
    /\ TakePacket /\ FromServer
    /\ client' = IF client.state = StateSendingConnectionRequest
                 THEN Heard([client EXCEPT !.challenge = From,
                                           !.state = StateSendingConnectionResponse])
                 ELSE client

KeepAlivePacket ==
    /\ TakePacket /\ FromServer
    /\ client' = Heard(IF client.state = StateSendingConnectionResponse
                       THEN [client EXCEPT !.state = StateConnected] ELSE client)

PayloadPacket ==
    /\ TakePacket /\ FromServer
    /\ client' = IF client.state = StateConnected
                 THEN Heard([client EXCEPT !.packetQueue = Push(@, From)])
                 ELSE client

DisconnectPacket ==
    /\ TakePacket /\ FromServer
    /\ client' = IF client.state = StateConnected
                 THEN Heard([client EXCEPT !.shouldDisconnect = TRUE,
                                           !.shouldDisconnectState = StateDisconnected])
                 ELSE client

\* send and sendPacket: a closed socket only logs the error.
SendDue(c) ==
    /\ c.state > StateDisconnected
    /\ c.lastPacketSendTime + SendInterval < c.time

Outgoing(c) ==
    {p \in [conn : {c.conn}, kind : {"request", "response"}] :
        /\ SendDue(c) /\ conn[c.conn].socket = "open"
        /\ c.state = IF p.kind = "request" THEN StateSendingConnectionRequest
                                           ELSE StateSendingConnectionResponse}

AfterSend(c) == IF SendDue(c) THEN [c EXCEPT !.lastPacketSendTime = c.time] ELSE c

\* What Update decides: it stays, moves to the next server, or disconnects.
TokenExpired(c) == Connecting(c) /\ c.startTime + TokenLifetime <= c.time

\* Mutant of TimedOut: only a connecting client can time out.
TimedOutWhileConnecting(c) ==
    /\ Connecting(c)
    /\ c.lastPacketRecvTime + TimeoutSeconds * TimeoutFactor < c.time

TimedOut(c) ==
    /\ c.state > StateDisconnected
    /\ c.lastPacketRecvTime + TimeoutSeconds * TimeoutFactor < c.time

TimeoutState(c) ==
    CASE c.state = StateSendingConnectionRequest -> StateConnectionRequestTimedOut
      [] c.state = StateSendingConnectionResponse -> StateConnectionResponseTimedOut
      [] OTHER -> StateConnectionTimedOut

MovesOn(c) ==
    /\ ~TokenExpired(c) /\ HasNextServer(c)
    /\ c.shouldDisconnect \/ (Connecting(c) /\ TimedOut(c))

GivesUp(c) == TokenExpired(c) \/ (~MovesOn(c) /\ (c.shouldDisconnect \/ TimedOut(c)))

Reason(c) ==
    IF TokenExpired(c) THEN StateTokenExpired
    ELSE IF c.shouldDisconnect THEN c.shouldDisconnectState ELSE TimeoutState(c)

\* The channel is empty: send, then decide.
ChannelEmpty ==
    /\ phase = "draining" /\ (Drains => channel = <<>>)
    /\ phase' = "idle" /\ burst' = 0

UpdateEnd ==
    LET c == AfterSend(client)
    IN  /\ ChannelEmpty
        /\ sent' = sent \cup Outgoing(client)
        /\ \/ /\ MovesOn(c)
              /\ client' = ConnectTo(NextServer(c))
              /\ conn' = Dialled(conn, NextServer(c))
           \/ /\ GivesUp(c)
              /\ client' = ResetConnectionData(c, Reason(c))
              /\ conn' = Closed(conn, c)
           \/ /\ ~MovesOn(c) /\ ~GivesUp(c)
              /\ client' = c
              /\ UNCHANGED conn
        /\ UNCHANGED <<channel, wasConnected>>

-----------------------------------------------------------------------------
(* The rest of the API, called between updates.                            *)

\* Connect, once.
Connect ==
    /\ phase = "idle" /\ client.hasToken /\ client.conn = NoConn
    /\ client.time <= Horizon
    /\ client' = ConnectTo(client)
    /\ conn' = Dialled(conn, client)
    /\ UNCHANGED <<channel, phase, burst, sent, wasConnected>>

\* Disconnect does nothing to a client that is not in action.
Disconnect ==
    /\ phase = "idle" /\ client.state > StateDisconnected
    /\ client' = ResetConnectionData(client, StateDisconnected)
    /\ conn' = Closed(conn, client)
    /\ UNCHANGED <<channel, phase, burst, sent, wasConnected>>

\* Client.Close closes the socket and leaves the rest as it is.
CloseSocket ==
    /\ phase = "idle" /\ client.conn # NoConn
    /\ conn' = Closed(conn, client)
    /\ UNCHANGED <<client, channel, phase, burst, sent, wasConnected>>

SendData ==
    /\ phase = "idle" /\ client.state = StateConnected
    /\ client' = [client EXCEPT !.lastPacketSendTime = client.time]
    /\ UNCHANGED <<conn, channel, phase, burst, sent, wasConnected>>

RecvData ==
    /\ phase = "idle" /\ client.packetQueue # <<>>
    /\ client' = [client EXCEPT !.packetQueue = Tail(@)]
    /\ UNCHANGED <<conn, channel, phase, burst, sent, wasConnected>>

-----------------------------------------------------------------------------
Packet ==
    /\ \/ OtherServersPacket \/ DeniedPacket \/ ChallengePacket
       \/ KeepAlivePacket \/ PayloadPacket \/ DisconnectPacket
    /\ wasConnected' = (wasConnected \/ client'.state = StateConnected)

Api == Connect \/ Disconnect \/ CloseSocket \/ SendData \/ RecvData

Next ==
    \/ \E k \in Conns : Receive(k) \/ ReceiverEnds(k)
    \/ UpdateBegin \/ Packet \/ UpdateEnd \/ Api

Spec == Init /\ [][Next]_vars

\* The application keeps calling Update with an advancing time (up to the
\* bound), Update takes what the channel holds and ends when it is empty, and a
\* goroutine that can go on does.
LateUpdate == UpdateBegin /\ (client.time < MaxTime => client'.time > client.time)

FairSpec ==
    /\ Spec
    /\ SF_vars(LateUpdate)
    /\ WF_<<channel, conn>>(TakePacket) /\ WF_phase(ChannelEmpty)
    /\ \A k \in Conns : WF_conn(ReceiverEnds(k))

-----------------------------------------------------------------------------
(* Properties.                                                             *)

\* The challenge the client answers came from the server it is talking to, not
\* from one it left whose socket is still being read (client.go:353-356).
ChallengeOfCurrentServer ==
    /\ client.state = StateSendingConnectionResponse => client.challenge = client.serverAddress
    /\ client.state = StateSendingConnectionRequest => client.challenge = NoServer

\* A deferred disconnect is carried out by the update that received it and
\* never reaches the connection to the next server (client.go:157-165, 209-216).
DisconnectNeverLeftOver == phase = "idle" => ~client.shouldDisconnect

\* A client that is done has closed the socket of its last server and keeps no
\* payload (client.go:167-180).
EndedMeansClosed ==
    ~client.hasToken =>
        /\ client.state <= StateDisconnected /\ client.serverAddress = NoServer
        /\ client.packetQueue = <<>>
        /\ conn[client.conn].socket = "closed"

\* A client that starts in time is never connecting past the token's lifetime,
\* over all the servers it tries, until it was connected (client.go:114,
\* 200-207).  A disconnect packet after that may send it to the next server
\* with an expired token, which the next update notices.
LifetimeBoundsConnecting ==
    phase = "idle" /\ Connecting(client) /\ ~wasConnected => client.time < TokenLifetime

\* processPacket sets the time of the last packet "for valid packets"
\* (client.go:416): a connected client has answered its server's challenge.
ConnectedMeansAnswered ==
    client.state = StateConnected =>
        [conn |-> client.conn, kind |-> "response"] \in sent

\* Once the network is silent a client that connected stops waiting
\* (client.go:218-243).
SilenceEndsConnection == <>[](client.state <= StateDisconnected)

\* The goroutine of a closed socket ends, also when it was waiting on a full
\* channel: a client that is done still empties it (client.go:246-256).
ClosedReceiverEnds ==
    \A k \in Conns : conn[k].socket = "closed" ~> conn[k].receiver = "ended"
=============================================================================

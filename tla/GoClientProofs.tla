--------------------------- MODULE GoClientProofs ---------------------------
(* The safety of the Go client, for every list of servers, every capacity  *)
(* of its channel and queue and every time-out.                            *)
EXTENDS GoClient, TLAPS

States == StateTokenExpired .. StateConnected
Addresses == Servers \cup {NoServer}

\* The fields of Client.
ClientRecord ==
    [state : States, time : Nat, startTime : Nat,
     lastPacketSendTime : Int, lastPacketRecvTime : Int,
     shouldDisconnect : BOOLEAN,
     shouldDisconnectState : {StateDisconnected, StateConnectionDenied},
     serverIndex : Conns, serverAddress : Addresses, hasToken : BOOLEAN,
     challenge : Addresses, conn : Conns \cup {NoConn}, packetQueue : Seq(Servers)]

ConnRecord ==
    [socket : {"none", "open", "closed"}, receiver : {"none", "reading", "blocked", "ended"}]

-----------------------------------------------------------------------------
(* The inductive invariant.  A client is in action exactly when it has     *)
(* dialled and still has its token; outside of that it has no server       *)
(* address, so that no packet gets past OnPacketData.                      *)

\* The client is in action with a connection of its own.
InAction(c) == c.hasToken = TRUE /\ c.conn # NoConn

AddressFits(c) ==
    /\ c.state > StateDisconnected => c.serverAddress = TokenServers[c.serverIndex]
    /\ c.state <= StateDisconnected => c.serverAddress = NoServer

ChallengeFits(c) ==
    /\ c.state = StateSendingConnectionResponse => c.challenge = c.serverAddress
    /\ c.state = StateSendingConnectionRequest => c.challenge = NoServer

\* Out of action nothing is left of a connection.
NothingLeft(c) ==
    c.state <= StateDisconnected =>
        c.challenge = NoServer /\ c.packetQueue = <<>> /\ c.shouldDisconnect = FALSE

Good(c) ==
    /\ c \in ClientRecord
    /\ c.startTime = 0
    /\ c.state > StateDisconnected <=> InAction(c)
    /\ c.hasToken = FALSE => c.conn # NoConn
    /\ AddressFits(c) /\ ChallengeFits(c) /\ NothingLeft(c)

ClosedWhenDone(c, cs) == c.hasToken = FALSE => cs[c.conn].socket = "closed"

Inv ==
    /\ Good(client)
    /\ conn \in [Conns -> ConnRecord]
    /\ channel \in Seq(Conns)
    /\ phase \in {"idle", "draining"}
    /\ wasConnected \in BOOLEAN
    /\ phase = "idle" => client.shouldDisconnect = FALSE
    /\ ClosedWhenDone(client, conn)
    /\ client.state = StateConnected => wasConnected = TRUE

-----------------------------------------------------------------------------
(* The fields and the constants.                                           *)

\* The token names at least one server, and every connection has an address.
LEMMA Servable ==
    /\ Len(TokenServers) \in Nat /\ 1 \in Conns
    /\ Conns \subseteq Nat \ {0} /\ NoConn \notin Conns
    /\ \A k \in Conns : TokenServers[k] \in Servers
<1>1. TokenServers \in Seq(Servers) /\ Len(TokenServers) > 0
  BY GoClientAssumption
<1> QED BY <1>1 DEF Conns, NoConn

\* The named states are states.
LEMMA StatesType ==
    /\ {StateTokenExpired, StateConnectionTimedOut, StateConnectionResponseTimedOut,
        StateConnectionRequestTimedOut, StateConnectionDenied, StateDisconnected,
        StateSendingConnectionRequest, StateSendingConnectionResponse,
        StateConnected} \subseteq States
    /\ States \subseteq Int
BY DEF States, StateTokenExpired, StateConnectionTimedOut, StateConnectionResponseTimedOut,
       StateConnectionRequestTimedOut, StateConnectionDenied, StateDisconnected,
       StateSendingConnectionRequest, StateSendingConnectionResponse, StateConnected

\* The fields of a client have their types.
LEMMA FieldTypes ==
    ASSUME NEW c \in ClientRecord
    PROVE  /\ c.state \in States /\ c.state \in Int /\ c.time \in Nat /\ c.startTime \in Nat
           /\ c.lastPacketSendTime \in Int /\ c.lastPacketRecvTime \in Int
           /\ c.shouldDisconnect \in BOOLEAN /\ c.hasToken \in BOOLEAN
           /\ c.shouldDisconnectState \in {StateDisconnected, StateConnectionDenied}
           /\ c.serverIndex \in Conns /\ c.conn \in Conns \cup {NoConn}
           /\ c.serverAddress \in Addresses /\ c.challenge \in Addresses
           /\ c.packetQueue \in Seq(Servers)
BY StatesType DEF ClientRecord

\* What the invariant says of the client's fields.
LEMMA InvFields ==
    ASSUME Inv
    PROVE  /\ Good(client) /\ client \in ClientRecord
           /\ conn \in [Conns -> ConnRecord] /\ channel \in Seq(Conns)
BY DEF Inv, Good

-----------------------------------------------------------------------------
(* What the operations on the client's fields return.                      *)

\* NewClient
LEMMA InitInv == Init => Inv
<1> SUFFICES ASSUME Init PROVE Inv
  OBVIOUS
<1>1. /\ StateDisconnected \in States /\ <<>> \in Seq(Servers) /\ 1 \in Conns
      /\ NoServer \in Addresses
  BY StatesType, Servable DEF Addresses
<1>2. client \in ClientRecord
  BY <1>1 DEF Init, ClientRecord
<1>3. Good(client)
  BY <1>2 DEF Init, Good, InAction, AddressFits, ChallengeFits, NothingLeft,
              StateDisconnected, StateSendingConnectionRequest,
              StateSendingConnectionResponse
<1>4. conn \in [Conns -> ConnRecord]
  BY DEF Init, ConnRecord
<1>5. channel \in Seq(Conns)
  BY DEF Init
<1>6. client.hasToken = TRUE /\ client.state = 0 /\ client.shouldDisconnect = FALSE
  BY DEF Init, StateDisconnected
<1>7. ClosedWhenDone(client, conn)
  BY <1>6 DEF ClosedWhenDone
<1>8. phase \in {"idle", "draining"} /\ wasConnected \in BOOLEAN
  BY DEF Init
<1> QED BY <1>3, <1>4, <1>5, <1>6, <1>7, <1>8 DEF Inv, StateConnected

\* Reset keeps the connection and forgets the challenge and the disconnect.
LEMMA ResetFields ==
    ASSUME NEW c \in ClientRecord
    PROVE  /\ Reset(c) \in ClientRecord
           /\ Reset(c).shouldDisconnect = FALSE /\ Reset(c).challenge = NoServer
           /\ Reset(c).state = c.state /\ Reset(c).time = c.time
           /\ Reset(c).startTime = c.startTime /\ Reset(c).serverIndex = c.serverIndex
           /\ Reset(c).serverAddress = c.serverAddress /\ Reset(c).hasToken = c.hasToken
           /\ Reset(c).conn = c.conn /\ Reset(c).packetQueue = c.packetQueue
<1>1. c.time \in Int /\ c.time - 1 \in Int /\ NoServer \in Addresses
  BY FieldTypes DEF Addresses
<1> QED BY <1>1 DEF Reset, ClientRecord

\* Connect dials the server of the present index and starts to ask it.
LEMMA ConnectGood ==
    ASSUME NEW c \in ClientRecord, c.hasToken = TRUE, c.challenge = NoServer
    PROVE  /\ Good(ConnectTo(c))
           /\ ConnectTo(c).hasToken = TRUE /\ ConnectTo(c).time = c.time
           /\ ConnectTo(c).shouldDisconnect = c.shouldDisconnect
           /\ ConnectTo(c).state = StateSendingConnectionRequest
<1> DEFINE r == ConnectTo(c)
<1>1. /\ c.serverIndex \in Conns /\ TokenServers[c.serverIndex] \in Servers
      /\ c.serverIndex # NoConn
  BY FieldTypes, Servable
<1>2. /\ StateSendingConnectionRequest \in States
      /\ TokenServers[c.serverIndex] \in Addresses
  BY <1>1, StatesType DEF Addresses
<1>3. r \in ClientRecord
  BY <1>1, <1>2 DEF ConnectTo, ConnectStart, ClientRecord
<1>4. /\ r.startTime = 0 /\ r.serverAddress = TokenServers[c.serverIndex]
      /\ r.conn = c.serverIndex /\ r.state = StateSendingConnectionRequest
      /\ r.serverIndex = c.serverIndex /\ r.hasToken = c.hasToken
      /\ r.challenge = c.challenge /\ r.time = c.time
      /\ r.shouldDisconnect = c.shouldDisconnect
  BY DEF ConnectTo, ConnectStart, ClientRecord
<1> HIDE DEF r
<1>5. Good(r)
  BY <1>1, <1>3, <1>4 DEF Good, InAction, AddressFits, ChallengeFits, NothingLeft,
     StateDisconnected, StateSendingConnectionRequest, StateSendingConnectionResponse
<1> QED BY <1>4, <1>5 DEF r

\* connectNextServer starts over at the next address of the token.
LEMMA NextServerGood ==
    ASSUME NEW c \in ClientRecord, c.hasToken = TRUE, HasNextServer(c)
    PROVE  /\ NextServer(c) \in ClientRecord
           /\ Good(ConnectTo(NextServer(c)))
           /\ ConnectTo(NextServer(c)).hasToken = TRUE
           /\ ConnectTo(NextServer(c)).time = c.time
           /\ ConnectTo(NextServer(c)).shouldDisconnect = FALSE
           /\ ConnectTo(NextServer(c)).state = StateSendingConnectionRequest
<1> DEFINE d == [c EXCEPT !.serverIndex = @ + 1]
<1>1. c.serverIndex + 1 \in Conns
  BY FieldTypes, Servable DEF HasNextServer, Conns
<1>2. d \in ClientRecord /\ d.hasToken = TRUE /\ d.time = c.time
  BY <1>1 DEF ClientRecord
<1>3. NextServer(c) = Reset(d)
  BY DEF NextServer
<1> HIDE DEF d
<1>4. /\ NextServer(c) \in ClientRecord /\ NextServer(c).hasToken = TRUE
      /\ NextServer(c).challenge = NoServer /\ NextServer(c).time = c.time
      /\ NextServer(c).shouldDisconnect = FALSE
  BY <1>2, <1>3, ResetFields
<1> QED BY <1>4, ConnectGood

\* resetConnectionData leaves nothing but the connection to close.
LEMMA EndGood ==
    ASSUME NEW c \in ClientRecord, c.conn # NoConn,
           NEW st \in States, st <= StateDisconnected
    PROVE  /\ Good(ResetConnectionData(c, st))
           /\ ResetConnectionData(c, st).hasToken = FALSE
           /\ ResetConnectionData(c, st).conn = c.conn
           /\ ResetConnectionData(c, st).state = st
           /\ ResetConnectionData(c, st).shouldDisconnect = FALSE
<1> DEFINE d == [c EXCEPT !.startTime = 0, !.serverIndex = 1, !.serverAddress = NoServer,
                          !.hasToken = FALSE, !.state = st, !.packetQueue = <<>>]
           r == ResetConnectionData(c, st)
<1>1. <<>> \in Seq(Servers) /\ 1 \in Conns /\ NoServer \in Addresses
  BY Servable DEF Addresses
<1>2. d \in ClientRecord
  BY <1>1 DEF ClientRecord
<1>3. /\ d.startTime = 0 /\ d.serverAddress = NoServer /\ d.hasToken = FALSE
      /\ d.state = st /\ d.packetQueue = <<>> /\ d.conn = c.conn
  BY DEF ClientRecord
<1>4. r = Reset(d)
  BY DEF ResetConnectionData
<1> HIDE DEF d
<1>5. /\ r \in ClientRecord /\ r.startTime = 0 /\ r.serverAddress = NoServer
      /\ r.hasToken = FALSE /\ r.state = st /\ r.packetQueue = <<>> /\ r.conn = c.conn
      /\ r.challenge = NoServer /\ r.shouldDisconnect = FALSE
  <2>1. /\ Reset(d) \in ClientRecord /\ Reset(d).startTime = d.startTime
        /\ Reset(d).serverAddress = d.serverAddress /\ Reset(d).hasToken = d.hasToken
        /\ Reset(d).state = d.state /\ Reset(d).packetQueue = d.packetQueue
        /\ Reset(d).conn = d.conn /\ Reset(d).challenge = NoServer
        /\ Reset(d).shouldDisconnect = FALSE
    BY <1>2, ResetFields
  <2> HIDE DEF r
  <2> QED BY <1>3, <1>4, <2>1
<1> HIDE DEF r
<1>6. Good(r)
  <2>1. st \in Int /\ ~(st > StateDisconnected)
    BY FieldTypes DEF StateDisconnected, States
  <2>2. AddressFits(r) /\ NothingLeft(r)
    BY <1>5, <2>1 DEF AddressFits, NothingLeft
  <2>3. ChallengeFits(r)
    BY <1>5 DEF ChallengeFits
  <2> QED BY <1>5, <2>1, <2>2, <2>3 DEF Good, InAction
<1> QED BY <1>5, <1>6 DEF r

\* A client that keeps its connection and its state stays as good.
LEMMA SameGood ==
    ASSUME NEW c, Good(c), NEW d \in ClientRecord,
           d.state = c.state, d.startTime = c.startTime, d.conn = c.conn,
           d.hasToken = c.hasToken, d.serverIndex = c.serverIndex,
           d.serverAddress = c.serverAddress, d.challenge = c.challenge,
           \/ d.state > StateDisconnected
           \/ d.packetQueue = c.packetQueue /\ d.shouldDisconnect = c.shouldDisconnect
           \/ d.packetQueue = <<>> /\ d.shouldDisconnect = FALSE
    PROVE  Good(d)
<1>1. d.state \in Int
  BY FieldTypes
<1> QED BY <1>1 DEF Good, InAction, AddressFits, ChallengeFits, NothingLeft,
                    StateDisconnected

\* The connections keep their types; a closed one is closed.
LEMMA ConnsType ==
    ASSUME NEW cs \in [Conns -> ConnRecord], NEW c \in ClientRecord
    PROVE  /\ Dialled(cs, c) \in [Conns -> ConnRecord]
           /\ c.conn # NoConn => /\ Closed(cs, c) \in [Conns -> ConnRecord]
                                 /\ Closed(cs, c)[c.conn].socket = "closed"
           /\ \A k \in Conns : k # c.conn => Closed(cs, c)[k] = cs[k]
<1>1. c.serverIndex \in Conns /\ c.conn \in Conns \cup {NoConn}
  BY FieldTypes
<1>2. Dialled(cs, c) \in [Conns -> ConnRecord]
  BY <1>1 DEF Dialled, ConnRecord
<1>3. ASSUME c.conn # NoConn
      PROVE  /\ Closed(cs, c) \in [Conns -> ConnRecord]
             /\ Closed(cs, c)[c.conn].socket = "closed"
  BY <1>1, <1>3 DEF Closed, ConnRecord
<1>4. \A k \in Conns : k # c.conn => Closed(cs, c)[k] = cs[k]
  BY DEF Closed
<1> QED BY <1>2, <1>3, <1>4

-----------------------------------------------------------------------------
(* Every step keeps the invariant.                                         *)

\* The receiving goroutines fill the channel and change no socket.
LEMMA ReceiverInv ==
    ASSUME NEW k \in Conns, Inv, Receive(k) \/ ReceiverEnds(k)
    PROVE  Inv'
<1>1. UNCHANGED <<client, phase, wasConnected>>
  BY DEF Receive, ReceiverEnds
<1>2. channel' \in Seq(Conns)
  BY InvFields DEF Receive, ReceiverEnds
<1>3. /\ conn' \in [Conns -> ConnRecord]
      /\ \A j \in Conns : conn'[j].socket = conn[j].socket
  BY InvFields DEF Receive, ReceiverEnds, ConnRecord
<1>4. client.hasToken = FALSE => client.conn \in Conns
  BY InvFields, FieldTypes DEF Good
<1>5. ClosedWhenDone(client', conn')
  BY <1>1, <1>3, <1>4 DEF Inv, ClosedWhenDone
<1> QED BY <1>1, <1>2, <1>3, <1>5 DEF Inv

\* The start of an update only advances the time.
LEMMA UpdateBeginInv ==
    ASSUME Inv, UpdateBegin
    PROVE  Inv'
<1>1. PICK t \in client.time .. client.time + MaxGap : client' = [client EXCEPT !.time = t]
  BY DEF UpdateBegin
<1>2. t \in Nat
  BY InvFields, FieldTypes, GoClientAssumption
<1>3. /\ client' \in ClientRecord
      /\ client'.state = client.state /\ client'.startTime = client.startTime
      /\ client'.conn = client.conn /\ client'.hasToken = client.hasToken
      /\ client'.serverIndex = client.serverIndex
      /\ client'.serverAddress = client.serverAddress
      /\ client'.challenge = client.challenge
      /\ client'.packetQueue = client.packetQueue
      /\ client'.shouldDisconnect = client.shouldDisconnect
  BY <1>1, <1>2, InvFields DEF ClientRecord
<1>4. Good(client')
  BY <1>3, InvFields, SameGood
<1>5. phase' = "draining" /\ UNCHANGED <<conn, channel, wasConnected>>
  BY DEF UpdateBegin
<1> QED BY <1>3, <1>4, <1>5 DEF Inv, ClosedWhenDone

\* Taking a packet, and letting a waiting goroutine go on, changes no socket.
LEMMA TakeFacts ==
    ASSUME Inv, TakePacket
    PROVE  /\ phase' = "draining" /\ channel' \in Seq(Conns)
           /\ conn' \in [Conns -> ConnRecord]
           /\ \A j \in Conns : conn'[j].socket = conn[j].socket
           /\ Head(channel) \in Conns /\ From \in Servers
<1>1. channel \in Seq(Conns) /\ channel # <<>>
  BY InvFields DEF TakePacket
<1>2. Head(channel) \in Conns /\ Tail(channel) \in Seq(Conns)
  BY <1>1
<1>3. From \in Servers
  BY <1>2, Servable DEF From
<1>4. \A k \in Waiting : k \in Conns
  BY DEF Waiting
<1>5. channel' \in Seq(Conns)
  BY <1>2, <1>4 DEF TakePacket
<1>6. /\ conn' \in [Conns -> ConnRecord]
      /\ \A j \in Conns : conn'[j].socket = conn[j].socket
  BY <1>4, InvFields DEF TakePacket, ConnRecord
<1>7. phase' = "draining"
  BY DEF TakePacket
<1> QED BY <1>2, <1>3, <1>5, <1>6, <1>7

\* A client that hears its server is in action: out of action it has no server.
LEMMA HeardInAction ==
    ASSUME Inv, TakePacket, FromServer
    PROVE  client.state > StateDisconnected /\ InAction(client)
<1>1. client.serverAddress \in Servers
  BY TakeFacts DEF FromServer
<1>2. client.serverAddress # NoServer
  BY <1>1, GoClientAssumption
<1>3. client.state \in Int
  BY InvFields, FieldTypes
<1> QED BY <1>2, <1>3, InvFields DEF Good, AddressFits, StateDisconnected

\* Heard only sets the time of the last packet.
LEMMA HeardFields ==
    ASSUME NEW c \in ClientRecord
    PROVE  /\ Heard(c) \in ClientRecord
           /\ Heard(c).state = c.state /\ Heard(c).startTime = c.startTime
           /\ Heard(c).conn = c.conn /\ Heard(c).hasToken = c.hasToken
           /\ Heard(c).serverIndex = c.serverIndex
           /\ Heard(c).serverAddress = c.serverAddress
           /\ Heard(c).challenge = c.challenge
           /\ Heard(c).packetQueue = c.packetQueue
           /\ Heard(c).shouldDisconnect = c.shouldDisconnect
<1>1. c.time \in Int
  BY FieldTypes
<1> QED BY <1>1 DEF Heard, ClientRecord

\* A packet leaves a good client with the connection it had.
PacketResult(c) ==
    Good(c) /\ c.hasToken = client.hasToken /\ c.conn = client.conn

\* A denied packet or a disconnect packet leaves a request to disconnect.
LEMMA AskedGood ==
    ASSUME Inv, client.state > StateDisconnected,
           NEW st \in {StateDisconnected, StateConnectionDenied}
    PROVE  PacketResult(Heard([client EXCEPT !.shouldDisconnect = TRUE,
                                             !.shouldDisconnectState = st]))
<1> DEFINE d == [client EXCEPT !.shouldDisconnect = TRUE, !.shouldDisconnectState = st]
<1>1. /\ d \in ClientRecord
      /\ d.state = client.state /\ d.startTime = client.startTime
      /\ d.conn = client.conn /\ d.hasToken = client.hasToken
      /\ d.serverIndex = client.serverIndex /\ d.serverAddress = client.serverAddress
      /\ d.challenge = client.challenge
  BY InvFields DEF ClientRecord
<1> HIDE DEF d
<1>2. Good(Heard(d))
  BY <1>1, InvFields, HeardFields, SameGood
<1>3. PacketResult(Heard(d))
  BY <1>1, <1>2, HeardFields DEF PacketResult
<1> QED BY <1>3 DEF d

\* Hearing a packet and nothing else.
LEMMA HeardGood ==
    ASSUME Inv
    PROVE  PacketResult(Heard(client)) /\ PacketResult(client)
<1>1. Good(Heard(client))
  BY InvFields, HeardFields, SameGood
<1> QED BY <1>1, InvFields, HeardFields DEF PacketResult

\* A payload is stored while there is room.
LEMMA PayloadGood ==
    ASSUME Inv, client.state > StateDisconnected, NEW s \in Servers
    PROVE  PacketResult(Heard([client EXCEPT !.packetQueue = Push(@, s)]))
<1> DEFINE d == [client EXCEPT !.packetQueue = Push(@, s)]
<1>1. client.packetQueue \in Seq(Servers)
  BY InvFields, FieldTypes
<1>2. Push(client.packetQueue, s) \in Seq(Servers)
  BY <1>1 DEF Push
<1>3. /\ d \in ClientRecord
      /\ d.state = client.state /\ d.startTime = client.startTime
      /\ d.conn = client.conn /\ d.hasToken = client.hasToken
      /\ d.serverIndex = client.serverIndex /\ d.serverAddress = client.serverAddress
      /\ d.challenge = client.challenge
  BY <1>2, InvFields DEF ClientRecord
<1> HIDE DEF d
<1>4. Good(Heard(d))
  BY <1>3, InvFields, HeardFields, SameGood
<1>5. PacketResult(Heard(d))
  BY <1>3, <1>4, HeardFields DEF PacketResult
<1> QED BY <1>5 DEF d

\* What the invariant says of a client in action.
LEMMA ActionFacts ==
    ASSUME Inv, client.state > StateDisconnected
    PROVE  /\ client.startTime = 0 /\ client.hasToken = TRUE /\ client.conn # NoConn
           /\ client.serverAddress = TokenServers[client.serverIndex]
BY InvFields DEF Good, InAction, AddressFits

\* A client out of action has nothing left of a connection.
LEMMA IdleFacts ==
    ASSUME Inv, client.state <= StateDisconnected
    PROVE  client.challenge = NoServer /\ client.packetQueue = <<>>
<1>1. NothingLeft(client)
  BY InvFields DEF Good
<1> QED BY <1>1 DEF NothingLeft

\* A client in action is good when its address and its challenge are.
LEMMA ActionGood ==
    ASSUME NEW r \in ClientRecord, r.state > StateDisconnected, r.startTime = 0,
           r.hasToken = TRUE, r.conn # NoConn,
           r.serverAddress = TokenServers[r.serverIndex], ChallengeFits(r)
    PROVE  Good(r)
<1>1. r.state \in Int
  BY FieldTypes
<1> QED BY <1>1 DEF Good, InAction, AddressFits, NothingLeft, StateDisconnected

\* A challenge is stored with its sender, which is the client's server.
LEMMA ChallengeGood ==
    ASSUME Inv, client.state = StateSendingConnectionRequest,
           NEW s \in Servers, s = client.serverAddress
    PROVE  PacketResult(Heard([client EXCEPT !.challenge = s,
                                             !.state = StateSendingConnectionResponse]))
<1> DEFINE d == [client EXCEPT !.challenge = s, !.state = StateSendingConnectionResponse]
           r == Heard(d)
<1>1. StateSendingConnectionResponse \in States /\ s \in Addresses
  BY StatesType DEF Addresses
<1>2. /\ d \in ClientRecord
      /\ d.state = StateSendingConnectionResponse /\ d.startTime = client.startTime
      /\ d.conn = client.conn /\ d.hasToken = client.hasToken
      /\ d.serverIndex = client.serverIndex /\ d.serverAddress = client.serverAddress
      /\ d.challenge = s
  BY <1>1, InvFields DEF ClientRecord
<1> HIDE DEF d
<1>3. /\ r \in ClientRecord
      /\ r.state = StateSendingConnectionResponse /\ r.startTime = client.startTime
      /\ r.conn = client.conn /\ r.hasToken = client.hasToken
      /\ r.serverIndex = client.serverIndex /\ r.serverAddress = client.serverAddress
      /\ r.challenge = s
  BY <1>2, HeardFields
<1> HIDE DEF r
<1>4. Good(r)
  <2>1. client.state > StateDisconnected /\ r.state > StateDisconnected
    BY <1>3 DEF StateDisconnected, StateSendingConnectionRequest,
                StateSendingConnectionResponse, StateConnected
  <2>2. ChallengeFits(r)
    BY <1>3 DEF ChallengeFits, StateSendingConnectionRequest,
                StateSendingConnectionResponse, StateConnected
  <2> QED BY <1>3, <2>1, <2>2, ActionFacts, ActionGood
<1>5. PacketResult(r)
  BY <1>3, <1>4 DEF PacketResult
<1> QED BY <1>5 DEF r, d

\* A keep-alive packet connects a client that answers.
LEMMA ConnectedGood ==
    ASSUME Inv, client.state = StateSendingConnectionResponse
    PROVE  PacketResult(Heard([client EXCEPT !.state = StateConnected]))
<1> DEFINE d == [client EXCEPT !.state = StateConnected]
           r == Heard(d)
<1>1. StateConnected \in States
  BY StatesType
<1>2. /\ d \in ClientRecord
      /\ d.state = StateConnected /\ d.startTime = client.startTime
      /\ d.conn = client.conn /\ d.hasToken = client.hasToken
      /\ d.serverIndex = client.serverIndex /\ d.serverAddress = client.serverAddress
  BY <1>1, InvFields DEF ClientRecord
<1> HIDE DEF d
<1>3. /\ r \in ClientRecord
      /\ r.state = StateConnected /\ r.startTime = client.startTime
      /\ r.conn = client.conn /\ r.hasToken = client.hasToken
      /\ r.serverIndex = client.serverIndex /\ r.serverAddress = client.serverAddress
  BY <1>2, HeardFields
<1> HIDE DEF r
<1>4. Good(r)
  <2>1. client.state > StateDisconnected /\ r.state > StateDisconnected
    BY <1>3 DEF StateDisconnected, StateSendingConnectionRequest,
                StateSendingConnectionResponse, StateConnected
  <2>2. ChallengeFits(r)
    BY <1>3 DEF ChallengeFits, StateSendingConnectionRequest,
                StateSendingConnectionResponse, StateConnected
  <2> QED BY <1>3, <2>1, <2>2, ActionFacts, ActionGood
<1>5. PacketResult(r)
  BY <1>3, <1>4 DEF PacketResult
<1> QED BY <1>5 DEF r, d

\* Every packet, whoever sent it, leaves a good client.
LEMMA PacketInv ==
    ASSUME Inv, Packet
    PROVE  Inv'
<1>1. TakePacket
  BY DEF Packet, OtherServersPacket, DeniedPacket, ChallengePacket, KeepAlivePacket,
         PayloadPacket, DisconnectPacket
<1>2. FromServer => /\ client.state > StateDisconnected
                    /\ From \in Servers /\ From = client.serverAddress
  BY <1>1, TakeFacts, HeardInAction DEF FromServer
<1>3. PacketResult(client')
  <2>1. CASE OtherServersPacket
    BY <2>1, HeardGood DEF OtherServersPacket
  <2>2. CASE DeniedPacket
    <3>1. CASE Connecting(client)
      <4>1. client' = Heard([client EXCEPT !.shouldDisconnect = TRUE,
                                           !.shouldDisconnectState = StateConnectionDenied])
        BY <2>2, <3>1 DEF DeniedPacket
      <4> QED BY <1>2, <2>2, <4>1, AskedGood DEF DeniedPacket
    <3>2. CASE ~Connecting(client)
      <4>1. client' = Heard(client)
        BY <2>2, <3>2 DEF DeniedPacket
      <4> QED BY <4>1, HeardGood
    <3> QED BY <3>1, <3>2
  <2>3. CASE ChallengePacket
    BY <1>2, <2>3, HeardGood, ChallengeGood DEF ChallengePacket
  <2>4. CASE KeepAlivePacket
    <3>1. CASE client.state = StateSendingConnectionResponse
      <4>1. client' = Heard([client EXCEPT !.state = StateConnected])
        BY <2>4, <3>1 DEF KeepAlivePacket
      <4> QED BY <3>1, <4>1, ConnectedGood
    <3>2. CASE client.state # StateSendingConnectionResponse
      <4>1. client' = Heard(client)
        BY <2>4, <3>2 DEF KeepAlivePacket
      <4> QED BY <4>1, HeardGood
    <3> QED BY <3>1, <3>2
  <2>5. CASE PayloadPacket
    BY <1>2, <2>5, HeardGood, PayloadGood DEF PayloadPacket
  <2>6. CASE DisconnectPacket
    BY <1>2, <2>6, HeardGood, AskedGood DEF DisconnectPacket
  <2> QED BY <2>1, <2>2, <2>3, <2>4, <2>5, <2>6 DEF Packet
<1>4. client.hasToken = FALSE => client.conn \in Conns
  BY InvFields, FieldTypes DEF Good
<1>5. ClosedWhenDone(client', conn')
  BY <1>1, <1>3, <1>4, TakeFacts DEF Inv, ClosedWhenDone, PacketResult
<1>6. wasConnected' = (wasConnected \/ client'.state = StateConnected)
  BY DEF Packet
<1>7. wasConnected' \in BOOLEAN
  BY <1>6
<1>8. client'.state = StateConnected => wasConnected' = TRUE
  BY <1>6
<1>9. /\ phase' = "draining" /\ channel' \in Seq(Conns)
      /\ conn' \in [Conns -> ConnRecord]
  BY <1>1, TakeFacts
<1> QED BY <1>3, <1>5, <1>7, <1>8, <1>9 DEF Inv, PacketResult

\* send changes the time of the last packet only.
LEMMA AfterSendFields ==
    ASSUME NEW c \in ClientRecord
    PROVE  /\ AfterSend(c) \in ClientRecord
           /\ AfterSend(c).state = c.state /\ AfterSend(c).startTime = c.startTime
           /\ AfterSend(c).time = c.time
           /\ AfterSend(c).conn = c.conn /\ AfterSend(c).hasToken = c.hasToken
           /\ AfterSend(c).serverIndex = c.serverIndex
           /\ AfterSend(c).serverAddress = c.serverAddress
           /\ AfterSend(c).challenge = c.challenge
           /\ AfterSend(c).packetQueue = c.packetQueue
           /\ AfterSend(c).shouldDisconnect = c.shouldDisconnect
<1>1. c.time \in Int
  BY FieldTypes
<1> QED BY <1>1 DEF AfterSend, ClientRecord

\* The state an ending connection goes to is one of a client out of action.
LEMMA ReasonType ==
    ASSUME NEW c \in ClientRecord
    PROVE  Reason(c) \in States /\ Reason(c) <= StateDisconnected
<1>1. TimeoutState(c) \in States /\ TimeoutState(c) <= StateDisconnected
  BY StatesType DEF TimeoutState, StateDisconnected, StateConnectionRequestTimedOut,
                    StateConnectionResponseTimedOut, StateConnectionTimedOut
<1>2. /\ c.shouldDisconnectState \in States
      /\ c.shouldDisconnectState <= StateDisconnected
  BY StatesType, FieldTypes DEF StateDisconnected, StateConnectionDenied
<1>3. StateTokenExpired \in States /\ StateTokenExpired <= StateDisconnected
  BY StatesType DEF StateTokenExpired, StateDisconnected
<1> QED BY <1>1, <1>2, <1>3 DEF Reason

\* Only a client in action has anything to decide.
LEMMA DecidesInAction ==
    ASSUME NEW c, Good(c), MovesOn(c) \/ GivesUp(c)
    PROVE  c.state > StateDisconnected /\ c.hasToken = TRUE /\ c.conn # NoConn
<1>1. c \in ClientRecord /\ c.state \in Int /\ c.shouldDisconnect \in BOOLEAN
  BY FieldTypes DEF Good
<1>2. Connecting(c) => c.state > StateDisconnected
  BY DEF Connecting, StateDisconnected, StateSendingConnectionRequest,
         StateSendingConnectionResponse
<1>3. c.shouldDisconnect => c.state > StateDisconnected
  BY <1>1 DEF Good, NothingLeft, StateDisconnected
<1>4. c.state > StateDisconnected
  BY <1>2, <1>3 DEF MovesOn, GivesUp, TokenExpired, TimedOut
<1> QED BY <1>4 DEF Good, InAction

\* What an ended connection leaves.
LEMMA EndInv ==
    ASSUME Inv, NEW c \in ClientRecord, c.conn # NoConn,
           NEW st \in States, st <= StateDisconnected,
           client' = ResetConnectionData(c, st), conn' = Closed(conn, c),
           UNCHANGED <<channel, wasConnected>>, phase' = "idle"
    PROVE  Inv'
<1>1. /\ Good(client') /\ client'.hasToken = FALSE /\ client'.conn = c.conn
      /\ client'.state = st /\ client'.shouldDisconnect = FALSE
  BY EndGood
<1>2. conn' \in [Conns -> ConnRecord] /\ conn'[client'.conn].socket = "closed"
  BY <1>1, InvFields, ConnsType
<1>3. client'.state # StateConnected
  BY <1>1 DEF StateConnected, StateDisconnected
<1> QED BY <1>1, <1>2, <1>3 DEF Inv, ClosedWhenDone

\* What a new connection leaves.
LEMMA StartInv ==
    ASSUME Inv, NEW c \in ClientRecord,
           Good(ConnectTo(c)), ConnectTo(c).hasToken = TRUE,
           ConnectTo(c).shouldDisconnect = FALSE,
           ConnectTo(c).state = StateSendingConnectionRequest,
           client' = ConnectTo(c), conn' = Dialled(conn, c),
           UNCHANGED <<channel, wasConnected>>, phase' = "idle"
    PROVE  Inv'
<1>1. conn' \in [Conns -> ConnRecord]
  BY InvFields, ConnsType
<1>2. client'.state # StateConnected
  BY DEF StateConnected, StateSendingConnectionRequest
<1>3. Good(client') /\ client'.hasToken = TRUE /\ client'.shouldDisconnect = FALSE
  OBVIOUS
<1>4. ClosedWhenDone(client', conn')
  BY <1>3 DEF ClosedWhenDone
<1> QED BY <1>1, <1>2, <1>3, <1>4 DEF Inv

\* The end of an update carries out a pending disconnect, whichever way.
LEMMA UpdateEndInv ==
    ASSUME Inv, UpdateEnd
    PROVE  Inv'
<1> DEFINE c == AfterSend(client)
<1>1. /\ c \in ClientRecord
      /\ c.state = client.state /\ c.startTime = client.startTime
      /\ c.conn = client.conn /\ c.hasToken = client.hasToken
      /\ c.serverIndex = client.serverIndex /\ c.serverAddress = client.serverAddress
      /\ c.challenge = client.challenge /\ c.packetQueue = client.packetQueue
      /\ c.shouldDisconnect = client.shouldDisconnect
  BY InvFields, AfterSendFields
<1>2. phase' = "idle" /\ UNCHANGED <<channel, wasConnected>>
  BY DEF UpdateEnd, ChannelEmpty
<1>3. \/ /\ MovesOn(c)
         /\ client' = ConnectTo(NextServer(c)) /\ conn' = Dialled(conn, NextServer(c))
      \/ /\ GivesUp(c)
         /\ client' = ResetConnectionData(c, Reason(c)) /\ conn' = Closed(conn, c)
      \/ /\ ~MovesOn(c) /\ ~GivesUp(c)
         /\ client' = c /\ UNCHANGED conn
  BY DEF UpdateEnd
<1> HIDE DEF c
<1>4. Good(c)
  BY <1>1, InvFields, SameGood
<1>5. CASE /\ MovesOn(c)
           /\ client' = ConnectTo(NextServer(c)) /\ conn' = Dialled(conn, NextServer(c))
  <2>1. c.hasToken = TRUE /\ HasNextServer(c)
    BY <1>4, <1>5, DecidesInAction DEF MovesOn
  <2>2. /\ NextServer(c) \in ClientRecord
        /\ Good(ConnectTo(NextServer(c))) /\ ConnectTo(NextServer(c)).hasToken = TRUE
        /\ ConnectTo(NextServer(c)).shouldDisconnect = FALSE
        /\ ConnectTo(NextServer(c)).state = StateSendingConnectionRequest
    BY <1>1, <2>1, NextServerGood
  <2> QED BY <1>2, <1>5, <2>2, StartInv
<1>6. CASE /\ GivesUp(c)
           /\ client' = ResetConnectionData(c, Reason(c)) /\ conn' = Closed(conn, c)
  <2>1. c.conn # NoConn
    BY <1>4, <1>6, DecidesInAction
  <2>2. Reason(c) \in States /\ Reason(c) <= StateDisconnected
    BY <1>1, ReasonType
  <2> QED BY <1>1, <1>2, <1>6, <2>1, <2>2, EndInv
<1>7. CASE ~MovesOn(c) /\ ~GivesUp(c) /\ client' = c /\ UNCHANGED conn
  <2>1. c.shouldDisconnect = FALSE
    BY <1>1, <1>7, FieldTypes DEF GivesUp
  <2>2. ClosedWhenDone(client', conn')
    BY <1>1, <1>7 DEF Inv, ClosedWhenDone
  <2> QED BY <1>1, <1>2, <1>4, <1>7, <2>1, <2>2 DEF Inv
<1> QED BY <1>3, <1>5, <1>6, <1>7

\* The API, between updates.
LEMMA ApiInv ==
    ASSUME Inv, Api
    PROVE  Inv'
<1>1. phase = "idle" /\ phase' = "idle" /\ UNCHANGED <<channel, wasConnected>>
  BY DEF Api, Connect, Disconnect, CloseSocket, SendData, RecvData
<1>2. client.shouldDisconnect = FALSE
  BY <1>1 DEF Inv
<1>3. CASE Connect
  <2>1. client.hasToken = TRUE /\ client.conn = NoConn
    BY <1>3, InvFields, FieldTypes DEF Connect
  <2>2. client.state \in Int /\ ~(client.state > StateDisconnected)
    BY <2>1, InvFields, FieldTypes DEF Good, InAction
  <2>3. client.challenge = NoServer
    <3>1. client.state <= StateDisconnected
      BY <2>2 DEF StateDisconnected
    <3> QED BY <3>1, IdleFacts
  <2>4. /\ Good(ConnectTo(client)) /\ ConnectTo(client).hasToken = TRUE
        /\ ConnectTo(client).shouldDisconnect = FALSE
        /\ ConnectTo(client).state = StateSendingConnectionRequest
    BY <1>2, <2>1, <2>3, InvFields, ConnectGood
  <2>5. client' = ConnectTo(client) /\ conn' = Dialled(conn, client)
    BY <1>3 DEF Connect
  <2> QED BY <1>1, <2>4, <2>5, InvFields, StartInv
<1>4. CASE Disconnect
  <2>1. client.conn # NoConn
    BY <1>4, ActionFacts DEF Disconnect
  <2>2. StateDisconnected \in States /\ StateDisconnected <= StateDisconnected
    BY StatesType DEF StateDisconnected
  <2>3. client' = ResetConnectionData(client, StateDisconnected) /\ conn' = Closed(conn, client)
    BY <1>4 DEF Disconnect
  <2> QED BY <1>1, <2>1, <2>2, <2>3, InvFields, EndInv
<1>5. CASE CloseSocket
  <2>1. client.conn # NoConn /\ conn' = Closed(conn, client) /\ UNCHANGED client
    BY <1>5 DEF CloseSocket
  <2>2. conn' \in [Conns -> ConnRecord] /\ conn'[client.conn].socket = "closed"
    BY <2>1, InvFields, ConnsType
  <2> QED BY <1>1, <2>1, <2>2 DEF Inv, ClosedWhenDone
<1>6. CASE SendData \/ RecvData
  <2>1. /\ client' \in ClientRecord
        /\ client'.state = client.state /\ client'.startTime = client.startTime
        /\ client'.conn = client.conn /\ client'.hasToken = client.hasToken
        /\ client'.serverIndex = client.serverIndex
        /\ client'.serverAddress = client.serverAddress
        /\ client'.challenge = client.challenge
        /\ client'.shouldDisconnect = client.shouldDisconnect
        /\ UNCHANGED conn
    <3>1. CASE SendData
      <4>1. client.time \in Int
        BY InvFields, FieldTypes
      <4> QED BY <3>1, <4>1, InvFields DEF SendData, ClientRecord
    <3>2. CASE RecvData
      <4>1. client.packetQueue \in Seq(Servers) /\ client.packetQueue # <<>>
        BY <3>2, InvFields, FieldTypes DEF RecvData
      <4>2. Tail(client.packetQueue) \in Seq(Servers)
        BY <4>1
      <4> QED BY <3>2, <4>2, InvFields DEF RecvData, ClientRecord
    <3> QED BY <1>6, <3>1, <3>2
  <2>2. client.state > StateDisconnected
    <3>1. client.state \in Int
      BY InvFields, FieldTypes
    <3>2. CASE SendData
      BY <3>2 DEF SendData, StateConnected, StateDisconnected
    <3>3. CASE RecvData
      <4>1. ~(client.state <= StateDisconnected)
        BY <3>3, IdleFacts DEF RecvData
      <4> QED BY <3>1, <4>1 DEF StateDisconnected
    <3> QED BY <1>6, <3>2, <3>3
  <2>3. Good(client')
    BY <2>1, <2>2, InvFields, SameGood
  <2>4. ClosedWhenDone(client', conn')
    BY <2>1 DEF Inv, ClosedWhenDone
  <2> QED BY <1>1, <1>2, <2>1, <2>3, <2>4 DEF Inv
<1> QED BY <1>3, <1>4, <1>5, <1>6 DEF Api

\* Every step keeps the invariant.
LEMMA NextInv == Inv /\ [Next]_vars => Inv'
<1> SUFFICES ASSUME Inv, [Next]_vars PROVE Inv'
  OBVIOUS
<1>1. CASE \E k \in Conns : Receive(k) \/ ReceiverEnds(k)
  BY <1>1, ReceiverInv
<1>2. CASE UpdateBegin
  BY <1>2, UpdateBeginInv
<1>3. CASE Packet
  BY <1>3, PacketInv
<1>4. CASE UpdateEnd
  BY <1>4, UpdateEndInv
<1>5. CASE Api
  BY <1>5, ApiInv
<1>6. CASE UNCHANGED vars
  BY <1>6 DEF vars, Inv
<1> QED BY <1>1, <1>2, <1>3, <1>4, <1>5, <1>6 DEF Next

-----------------------------------------------------------------------------
(* The lifetime of the token.                                              *)

\* A client that is asked to disconnect while it is not connecting was
\* connected: only then can it move on without looking at the lifetime.
LEMMA MovesOnInTime ==
    ASSUME Inv, NEW c \in ClientRecord, MovesOn(c), c.startTime = 0,
           c.state > StateDisconnected, c.state = client.state,
           wasConnected = FALSE
    PROVE  c.time < TokenLifetime
<1>1. client.state # StateConnected
  BY DEF Inv
<1>2. Connecting(c)
  BY <1>1, FieldTypes DEF States, Connecting, StateTokenExpired, StateDisconnected,
     StateSendingConnectionRequest, StateSendingConnectionResponse, StateConnected
<1>3. ~(c.startTime + TokenLifetime <= c.time)
  BY <1>2 DEF MovesOn, TokenExpired
<1>4. c.time \in Nat /\ TokenLifetime \in Nat
  BY FieldTypes, GoClientAssumption
<1> QED BY <1>3, <1>4

\* Every step keeps it, if the application connects before the lifetime is over.
LEMMA NextLifetime ==
    ASSUME Horizon < TokenLifetime
    PROVE  Inv /\ LifetimeBoundsConnecting /\ [Next]_vars => LifetimeBoundsConnecting'
<1> SUFFICES ASSUME Inv, LifetimeBoundsConnecting, [Next]_vars
             PROVE  LifetimeBoundsConnecting'
  OBVIOUS
<1>1. CASE \E k \in Conns : Receive(k) \/ ReceiverEnds(k)
  BY <1>1 DEF Receive, ReceiverEnds, LifetimeBoundsConnecting
<1>2. CASE UpdateBegin \/ Packet
  <2>1. phase' = "draining"
    BY <1>2 DEF UpdateBegin, Packet, OtherServersPacket, DeniedPacket, ChallengePacket,
                KeepAlivePacket, PayloadPacket, DisconnectPacket, TakePacket
  <2> QED BY <2>1 DEF LifetimeBoundsConnecting
<1>3. CASE UpdateEnd
  <2> DEFINE c == AfterSend(client)
  <2>1. /\ c \in ClientRecord
        /\ c.state = client.state /\ c.startTime = client.startTime /\ c.time = client.time
        /\ c.conn = client.conn /\ c.hasToken = client.hasToken
        /\ c.serverIndex = client.serverIndex /\ c.serverAddress = client.serverAddress
        /\ c.challenge = client.challenge /\ c.packetQueue = client.packetQueue
        /\ c.shouldDisconnect = client.shouldDisconnect
    BY InvFields, AfterSendFields
  <2>2. /\ wasConnected' = wasConnected
        /\ \/ MovesOn(c) /\ client' = ConnectTo(NextServer(c))
           \/ GivesUp(c) /\ client' = ResetConnectionData(c, Reason(c))
           \/ ~MovesOn(c) /\ ~GivesUp(c) /\ client' = c
    BY <1>3 DEF UpdateEnd
  <2> HIDE DEF c
  <2>3. Good(c)
    BY <2>1, InvFields, SameGood
  <2>4. c.startTime = 0 /\ c.time \in Nat /\ TokenLifetime \in Nat
    BY <2>1, <2>3, FieldTypes, GoClientAssumption DEF Good
  <2>5. wasConnected \in BOOLEAN
    BY DEF Inv
  <2>6. CASE MovesOn(c) /\ client' = ConnectTo(NextServer(c))
    <3>1. c.state > StateDisconnected /\ c.hasToken = TRUE /\ HasNextServer(c)
      BY <2>3, <2>6, DecidesInAction DEF MovesOn
    <3>2. client'.time = c.time
      BY <2>1, <2>6, <3>1, NextServerGood
    <3>3. wasConnected = FALSE => c.time < TokenLifetime
      BY <2>1, <2>4, <2>6, <3>1, MovesOnInTime
    <3> QED BY <2>2, <2>5, <3>2, <3>3 DEF LifetimeBoundsConnecting
  <2>7. CASE GivesUp(c) /\ client' = ResetConnectionData(c, Reason(c))
    <3>1. c.conn # NoConn
      BY <2>3, <2>7, DecidesInAction
    <3>2. Reason(c) \in States /\ Reason(c) <= StateDisconnected
      BY <2>1, ReasonType
    <3>3. client'.state = Reason(c)
      BY <2>1, <2>7, <3>1, <3>2, EndGood
    <3>4. ~Connecting(client')
      BY <3>2, <3>3 DEF Connecting, StateDisconnected, StateSendingConnectionRequest,
                        StateSendingConnectionResponse
    <3> QED BY <3>4 DEF LifetimeBoundsConnecting
  <2>8. CASE ~MovesOn(c) /\ ~GivesUp(c) /\ client' = c
    <3>1. Connecting(c) => c.time < TokenLifetime
      BY <2>4, <2>8 DEF GivesUp, TokenExpired
    <3> QED BY <2>8, <3>1 DEF LifetimeBoundsConnecting
  <2> QED BY <2>2, <2>6, <2>7, <2>8
<1>4. CASE Connect
  <2>1. client'.time = client.time
    BY <1>4, InvFields DEF Connect, ConnectTo, ClientRecord
  <2>2. client.time <= Horizon /\ client.time \in Nat
    BY <1>4, InvFields, FieldTypes DEF Connect
  <2>3. client.time < TokenLifetime
    BY <2>2, GoClientAssumption
  <2> QED BY <2>1, <2>3 DEF LifetimeBoundsConnecting
<1>5. CASE Disconnect
  <2>1. client.conn # NoConn
    BY <1>5, ActionFacts DEF Disconnect
  <2>2. StateDisconnected \in States /\ StateDisconnected <= StateDisconnected
    BY StatesType DEF StateDisconnected
  <2>3. client'.state = StateDisconnected
    BY <1>5, <2>1, <2>2, InvFields, EndGood DEF Disconnect
  <2> QED BY <2>3 DEF LifetimeBoundsConnecting, Connecting, StateDisconnected,
                      StateSendingConnectionRequest, StateSendingConnectionResponse
<1>6. CASE CloseSocket
  BY <1>6 DEF CloseSocket, LifetimeBoundsConnecting
<1>7. CASE SendData \/ RecvData
  <2>1. /\ client'.state = client.state /\ client'.time = client.time
        /\ phase' = phase /\ wasConnected' = wasConnected
    BY <1>7, InvFields DEF SendData, RecvData, ClientRecord
  <2> QED BY <2>1 DEF LifetimeBoundsConnecting, Connecting
<1>8. CASE UNCHANGED vars
  BY <1>8 DEF vars, LifetimeBoundsConnecting
<1> QED BY <1>1, <1>2, <1>3, <1>4, <1>5, <1>6, <1>7, <1>8 DEF Next, Api

-----------------------------------------------------------------------------
(* The theorems.                                                           *)

\* The invariant holds in every state of the Go client (client.go:86-440).
THEOREM GoClientInvariant == Spec => []Inv
BY InitInv, NextInv, PTL DEF Spec

\* The challenge a Go client answers is that of the server it talks to, while
\* the sockets of the servers it left go on feeding its channel
\* (client.go:353-356).
THEOREM GoChallengeIsCurrent == Spec => []ChallengeOfCurrentServer
<1>1. Inv => ChallengeOfCurrentServer
  BY DEF Inv, Good, ChallengeFits, ChallengeOfCurrentServer
<1> QED BY <1>1, GoClientInvariant, PTL

\* No disconnect outlives the update that received it (client.go:157-165,
\* 209-216).
THEOREM GoNoPendingDisconnect == Spec => []DisconnectNeverLeftOver
<1>1. Inv => DisconnectNeverLeftOver
  BY DEF Inv, DisconnectNeverLeftOver
<1> QED BY <1>1, GoClientInvariant, PTL

\* A client that is done closed its last socket and keeps no payload, and
\* nothing it can still receive changes that (client.go:167-180).
THEOREM GoEndedIsClosed == Spec => []EndedMeansClosed
<1>1. ASSUME Inv PROVE EndedMeansClosed
  <2> SUFFICES ASSUME ~client.hasToken
               PROVE  /\ client.state <= StateDisconnected /\ client.serverAddress = NoServer
                      /\ client.packetQueue = <<>> /\ conn[client.conn].socket = "closed"
    BY DEF EndedMeansClosed
  <2>1. client.hasToken = FALSE
    BY <1>1, InvFields, FieldTypes
  <2>2. client.state \in Int /\ ~(client.state > StateDisconnected)
    BY <1>1, <2>1, InvFields, FieldTypes DEF Good, InAction
  <2>3. client.state <= StateDisconnected
    BY <2>2 DEF StateDisconnected
  <2>4. client.serverAddress = NoServer
    BY <1>1, <2>3, InvFields DEF Good, AddressFits
  <2>5. client.packetQueue = <<>>
    BY <1>1, <2>3, IdleFacts
  <2>6. conn[client.conn].socket = "closed"
    BY <1>1, <2>1 DEF Inv, ClosedWhenDone
  <2> QED BY <2>3, <2>4, <2>5, <2>6
<1>2. Inv => EndedMeansClosed
  BY <1>1
<1> QED BY <1>2, GoClientInvariant, PTL

\* A client that connects before the token's lifetime is over is connecting for
\* less than that lifetime, over all the servers it tries, until it was
\* connected (client.go:114, 200-207).
THEOREM GoLifetimeRespected ==
    ASSUME Horizon < TokenLifetime
    PROVE  Spec => []LifetimeBoundsConnecting
<1>1. Init => LifetimeBoundsConnecting
  BY DEF Init, LifetimeBoundsConnecting, Connecting, StateDisconnected,
         StateSendingConnectionRequest, StateSendingConnectionResponse
<1>2. Inv /\ LifetimeBoundsConnecting /\ [Next]_vars => LifetimeBoundsConnecting'
  BY NextLifetime
<1> QED BY <1>1, <1>2, GoClientInvariant, PTL DEF Spec
=============================================================================

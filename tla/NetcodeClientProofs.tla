------------------------- MODULE NetcodeClientProofs -------------------------
(* The safety of the client's state machine, for every set of servers and  *)
(* tokens, every list of server addresses and every time-out; and of the   *)
(* replay protection it holds.                                             *)
EXTENDS NetcodeClient, ReplayProtection, TLAPS

-----------------------------------------------------------------------------
(* Assigning fields of the client keeps its type, and Push that of the     *)
(* queue.                                                                  *)

Queues == Seq(Servers \cup {NoServer})
Pending == {DISCONNECTED, CONNECTION_DENIED}

\* The fields netcode_client_reset_before_next_connect assigns.
LEMMA ResetBeforeType ==
    ASSUME NEW c \in ClientRecord, NEW start \in Nat, NEW snd \in Int, NEW rcv \in Int,
           NEW b \in BOOLEAN, NEW d \in Pending, NEW h \in Servers \cup {NoServer}
    PROVE  [c EXCEPT !.connect_start_time = start, !.last_packet_send_time = snd,
                     !.last_packet_receive_time = rcv, !.should_disconnect = b,
                     !.should_disconnect_state = d, !.challenge = h] \in ClientRecord
BY DEF ClientRecord, Pending

\* The fields netcode_client_reset_connection_data assigns itself.
LEMMA ResetType ==
    ASSUME NEW c \in ClientRecord, NEW b \in BOOLEAN, NEW i \in Nat \ {0},
           NEW t \in Tokens \cup {NoToken}, NEW st \in States, NEW q \in Queues
    PROVE  [c EXCEPT !.loopback = b, !.server_address_index = i,
                     !.token = t, !.state = st, !.queue = q] \in ClientRecord
BY DEF ClientRecord, Queues

\* The fields the handlers of packets assign.
LEMMA PendingType ==
    ASSUME NEW c \in ClientRecord, NEW b \in BOOLEAN, NEW d \in Pending, NEW rcv \in Int
    PROVE  [c EXCEPT !.should_disconnect = b, !.should_disconnect_state = d,
                     !.last_packet_receive_time = rcv] \in ClientRecord
BY DEF ClientRecord, Pending

LEMMA ChallengeType ==
    ASSUME NEW c \in ClientRecord, NEW st \in States, NEW h \in Servers \cup {NoServer},
           NEW rcv \in Int
    PROVE  [c EXCEPT !.state = st, !.challenge = h,
                     !.last_packet_receive_time = rcv] \in ClientRecord
BY DEF ClientRecord

LEMMA KeepAliveType ==
    ASSUME NEW c \in ClientRecord, NEW st \in States, NEW rcv \in Int
    PROVE  [c EXCEPT !.state = st, !.last_packet_receive_time = rcv] \in ClientRecord
BY DEF ClientRecord

LEMMA PayloadType ==
    ASSUME NEW c \in ClientRecord, NEW q \in Queues, NEW rcv \in Int
    PROVE  [c EXCEPT !.queue = q, !.last_packet_receive_time = rcv] \in ClientRecord
BY DEF ClientRecord, Queues

\* The fields the rest of the API assigns.
LEMMA TimeType ==
    ASSUME NEW c \in ClientRecord, NEW t \in Nat
    PROVE  [c EXCEPT !.time = t] \in ClientRecord
BY DEF ClientRecord

LEMMA SendTimeType ==
    ASSUME NEW c \in ClientRecord, NEW snd \in Int
    PROVE  [c EXCEPT !.last_packet_send_time = snd] \in ClientRecord
BY DEF ClientRecord

LEMMA StateType ==
    ASSUME NEW c \in ClientRecord, NEW st \in States
    PROVE  [c EXCEPT !.state = st] \in ClientRecord
BY DEF ClientRecord

LEMMA QueueFieldType ==
    ASSUME NEW c \in ClientRecord, NEW q \in Queues
    PROVE  [c EXCEPT !.queue = q] \in ClientRecord
BY DEF ClientRecord, Queues

LEMMA LoopbackType ==
    ASSUME NEW c \in ClientRecord, NEW st \in States, NEW b \in BOOLEAN
    PROVE  [c EXCEPT !.state = st, !.loopback = b] \in ClientRecord
BY DEF ClientRecord

LEMMA TokenType ==
    ASSUME NEW c \in ClientRecord, NEW t \in Tokens, NEW i \in Nat \ {0}
    PROVE  [c EXCEPT !.token = t, !.server_address_index = i] \in ClientRecord
BY DEF ClientRecord

\* netcode_packet_queue_push and _pop.
LEMMA QueueType ==
    ASSUME NEW q \in Queues, NEW s \in Servers \cup {NoServer}
    PROVE  Push(q, s) \in Queues /\ (q # <<>> => Tail(q) \in Queues)
BY DEF Push, Queues

\* The named states are states.
LEMMA StatesType ==
    /\ {CONNECT_TOKEN_EXPIRED, INVALID_CONNECT_TOKEN, CONNECTION_TIMED_OUT,
        CONNECTION_RESPONSE_TIMED_OUT, CONNECTION_REQUEST_TIMED_OUT, CONNECTION_DENIED,
        DISCONNECTED, SENDING_CONNECTION_REQUEST, SENDING_CONNECTION_RESPONSE,
        CONNECTED} \subseteq States
    /\ States \subseteq Int
BY DEF States, CONNECT_TOKEN_EXPIRED, INVALID_CONNECT_TOKEN, CONNECTION_TIMED_OUT,
       CONNECTION_RESPONSE_TIMED_OUT, CONNECTION_REQUEST_TIMED_OUT, CONNECTION_DENIED,
       DISCONNECTED, SENDING_CONNECTION_REQUEST, SENDING_CONNECTION_RESPONSE, CONNECTED

\* The fields of a client record have their types.
LEMMA FieldTypes ==
    ASSUME NEW c \in ClientRecord
    PROVE  /\ c.state \in States /\ c.time \in Nat /\ c.token \in Tokens \cup {NoToken}
           /\ c.server_address_index \in Nat \ {0} /\ c.queue \in Queues
           /\ c.should_disconnect \in BOOLEAN /\ c.loopback \in BOOLEAN
           /\ c.should_disconnect_state \in Pending
BY DEF ClientRecord, Queues, Pending

-----------------------------------------------------------------------------
(* What the helpers return.                                                *)

\* The client's address index, when it has a token, points into the token.
LEMMA ServerOfType ==
    ASSUME NEW c \in ClientRecord, c.token # NoToken,
           c.server_address_index \in DOMAIN TokenServers[c.token]
    PROVE  ServerOf(c) \in Servers /\ c.token \in Tokens
<1>1. c.token \in Tokens
  BY FieldTypes
<1>2. TokenServers[c.token] \in Seq(Servers)
  BY <1>1, ClientAssumption
<1> QED BY <1>1, <1>2 DEF ServerOf

\* netcode_client_reset_before_next_connect forgets the challenge and the
\* pending disconnect, and leaves the token, the address and the state.
LEMMA ResetBeforeFields ==
    ASSUME NEW c \in ClientRecord
    PROVE  LET r == ResetBeforeNextConnect(c)
           IN  /\ r \in ClientRecord
               /\ r.should_disconnect = FALSE /\ r.challenge = NoServer
               /\ r.state = c.state /\ r.token = c.token
               /\ r.server_address_index = c.server_address_index
               /\ r.loopback = c.loopback /\ r.queue = c.queue
<1> DEFINE r == ResetBeforeNextConnect(c)
<1>1. c.time \in Nat /\ c.time \in Int /\ c.time - TicksPerSecond \in Int
  BY FieldTypes, ClientAssumption
<1>2. /\ FALSE \in BOOLEAN /\ DISCONNECTED \in Pending
      /\ NoServer \in Servers \cup {NoServer}
  BY DEF Pending
<1>3. r \in ClientRecord
  BY <1>1, <1>2, ResetBeforeType DEF ResetBeforeNextConnect
<1>4. /\ r.should_disconnect = FALSE /\ r.challenge = NoServer
      /\ r.state = c.state /\ r.token = c.token
      /\ r.server_address_index = c.server_address_index
      /\ r.loopback = c.loopback /\ r.queue = c.queue
  BY DEF ClientRecord, ResetBeforeNextConnect
<1> QED BY <1>3, <1>4

\* netcode_client_reset_connection_data leaves nothing of the connection.
LEMMA ResetFields ==
    ASSUME NEW c \in ClientRecord, NEW st \in States
    PROVE  LET r == ResetConnectionData(c, st)
           IN  /\ r \in ClientRecord
               /\ r.state = st /\ r.token = NoToken /\ r.challenge = NoServer
               /\ r.queue = <<>> /\ r.loopback = FALSE /\ r.should_disconnect = FALSE
<1> DEFINE d == [c EXCEPT !.loopback = FALSE, !.server_address_index = 1,
                          !.token = NoToken, !.state = st, !.queue = <<>>]
<1>1. /\ FALSE \in BOOLEAN /\ 1 \in Nat \ {0} /\ NoToken \in Tokens \cup {NoToken}
      /\ <<>> \in Queues
  BY DEF Queues
<1>2. d \in ClientRecord
  BY <1>1, ResetType
<1>3. d.state = st /\ d.token = NoToken /\ d.queue = <<>> /\ d.loopback = FALSE
  BY DEF ClientRecord
<1>4. ResetConnectionData(c, st) = ResetBeforeNextConnect(d)
  BY DEF ResetConnectionData
<1> HIDE DEF d
<1> QED BY <1>2, <1>3, <1>4, ResetBeforeFields

\* A client record of which nothing of a connection is left.
Clean(c) ==
    /\ c \in ClientRecord
    /\ c.token = NoToken /\ c.challenge = NoServer /\ c.queue = <<>>
    /\ c.loopback = FALSE /\ c.should_disconnect = FALSE

\* netcode_client_disconnect_internal ends a connection cleanly.
LEMMA DisconnectFields ==
    ASSUME NEW c \in ClientRecord, NEW st \in States, st <= DISCONNECTED,
           c.state > DISCONNECTED
    PROVE  Clean(DisconnectInternal(c, st)) /\ DisconnectInternal(c, st).state = st
<1>1. c.state \in Int /\ st \in Int /\ DISCONNECTED \in Int
  BY FieldTypes, StatesType
<1>2. DisconnectInternal(c, st) = ResetConnectionData(c, st)
  BY <1>1 DEF DisconnectInternal
<1>3. Clean(ResetConnectionData(c, st)) /\ ResetConnectionData(c, st).state = st
  BY ResetFields, Zenon DEF Clean
<1> QED BY <1>2, <1>3

\* netcode_client_connect_to_next_server starts over with the next address.
LEMMA NextServerFields ==
    ASSUME NEW c \in ClientRecord
    PROVE  LET r == ConnectToNextServer(c)
           IN  /\ r \in ClientRecord
               /\ r.state = SENDING_CONNECTION_REQUEST /\ r.token = c.token
               /\ r.server_address_index = c.server_address_index + 1
               /\ r.challenge = NoServer /\ r.loopback = c.loopback
               /\ r.should_disconnect = FALSE
<1> DEFINE d == [c EXCEPT !.server_address_index = @ + 1]
           e == ResetBeforeNextConnect(d)
<1>1. /\ d \in ClientRecord /\ d.token = c.token /\ d.loopback = c.loopback
      /\ d.server_address_index = c.server_address_index + 1
  BY DEF ClientRecord
<1> HIDE DEF d
<1>2. /\ e \in ClientRecord /\ e.token = c.token /\ e.challenge = NoServer
      /\ e.server_address_index = c.server_address_index + 1
      /\ e.should_disconnect = FALSE /\ e.loopback = c.loopback
  BY <1>1, ResetBeforeFields
<1> HIDE DEF e
<1>3. ConnectToNextServer(c) = [e EXCEPT !.state = SENDING_CONNECTION_REQUEST]
  BY DEF ConnectToNextServer, d, e
<1>4. SENDING_CONNECTION_REQUEST \in States
  BY StatesType
<1> QED BY <1>2, <1>3, <1>4 DEF ClientRecord

\* netcode_client_send_packets changes the time of the last packet only.
LEMMA AfterSendFields ==
    ASSUME NEW c \in ClientRecord
    PROVE  LET r == AfterSend(c)
           IN  /\ r \in ClientRecord
               /\ r.state = c.state /\ r.token = c.token /\ r.challenge = c.challenge
               /\ r.server_address_index = c.server_address_index
               /\ r.loopback = c.loopback /\ r.queue = c.queue
               /\ r.should_disconnect = c.should_disconnect
<1>1. c.time \in Int
  BY FieldTypes
<1> QED BY <1>1 DEF AfterSend, ClientRecord

\* The end of netcode_client_update leaves the client as it is, with no
\* pending disconnect, ends the connection, or goes on to the next server.
LEMMA DecideCases ==
    ASSUME NEW c \in ClientRecord,
           c.state <= DISCONNECTED => ~c.should_disconnect
    PROVE  \/ Decide(c) = c /\ ~c.should_disconnect
           \/ Clean(Decide(c)) /\ Decide(c).state <= DISCONNECTED
           \/ /\ Decide(c) = ConnectToNextServer(c) /\ HasNextServer(c)
              /\ c.state > DISCONNECTED
<1> USE DEF DISCONNECTED
<1>1. c.state \in Int
  BY FieldTypes, StatesType
<1>2. ASSUME NEW st \in States, st <= DISCONNECTED, c.state > DISCONNECTED
      PROVE  \/ Clean(NextServerOr(c, st)) /\ NextServerOr(c, st).state <= DISCONNECTED
             \/ NextServerOr(c, st) = ConnectToNextServer(c) /\ HasNextServer(c)
  BY <1>2, DisconnectFields DEF NextServerOr
<1>3. Connecting(c) => c.state > DISCONNECTED
  BY DEF Connecting, SENDING_CONNECTION_REQUEST, SENDING_CONNECTION_RESPONSE
<1>4. CASE TokenExpired(c)
  <2>1. CONNECT_TOKEN_EXPIRED \in States /\ CONNECT_TOKEN_EXPIRED <= DISCONNECTED
    BY StatesType DEF CONNECT_TOKEN_EXPIRED
  <2>2. Decide(c) = DisconnectInternal(c, CONNECT_TOKEN_EXPIRED)
    BY <1>4 DEF Decide
  <2>3. c.state > DISCONNECTED
    BY <1>3, <1>4 DEF TokenExpired
  <2> QED BY <2>1, <2>2, <2>3, DisconnectFields
<1>5. CASE ~TokenExpired(c) /\ c.should_disconnect
  <2>1. Decide(c) = NextServerOr(c, c.should_disconnect_state)
    BY <1>5 DEF Decide
  <2>2. /\ c.should_disconnect_state \in States
        /\ c.should_disconnect_state <= DISCONNECTED
    BY FieldTypes, StatesType DEF Pending, CONNECTION_DENIED
  <2>3. c.state > DISCONNECTED
    BY <1>1, <1>5
  <2> QED BY <1>2, <2>1, <2>2, <2>3
<1>6. CASE ~TokenExpired(c) /\ ~c.should_disconnect /\ ~TimedOut(c)
  BY <1>6 DEF Decide
<1>7. CASE ~TokenExpired(c) /\ ~c.should_disconnect /\ TimedOut(c) /\ Connecting(c)
  <2>1. Decide(c) = NextServerOr(c, TimeoutState(c))
    BY <1>7 DEF Decide
  <2>2. TimeoutState(c) \in States /\ TimeoutState(c) <= DISCONNECTED
    BY StatesType
       DEF TimeoutState, CONNECTION_REQUEST_TIMED_OUT, CONNECTION_RESPONSE_TIMED_OUT
  <2> QED BY <1>2, <1>3, <1>7, <2>1, <2>2
<1>8. CASE ~TokenExpired(c) /\ ~c.should_disconnect /\ TimedOut(c) /\ ~Connecting(c)
  <2>1. Decide(c) = DisconnectInternal(c, CONNECTION_TIMED_OUT)
    BY <1>8 DEF Decide
  <2>2. CONNECTION_TIMED_OUT \in States /\ CONNECTION_TIMED_OUT <= DISCONNECTED
    BY StatesType DEF CONNECTION_TIMED_OUT
  <2>3. c.state > DISCONNECTED
    BY <1>1, <1>8 DEF TimedOut, SENDING_CONNECTION_REQUEST
  <2> QED BY <2>1, <2>2, <2>3, DisconnectFields
<1> QED BY <1>4, <1>5, <1>6, <1>7, <1>8

-----------------------------------------------------------------------------
(* The inductive invariant.                                                *)

\* netcode_client_create establishes it.
LEMMA InitInv == Init => IInv
<1> SUFFICES ASSUME Init PROVE IInv
  OBVIOUS
<1>1. /\ DISCONNECTED \in States /\ <<>> \in Seq(Servers \cup {NoServer})
      /\ -1000 * TicksPerSecond \in Int
  BY StatesType, ClientAssumption
<1>2. TypeOK
  <2>1. client \in ClientRecord
    BY <1>1 DEF Init, ClientRecord
  <2> QED BY <2>1 DEF Init, TypeOK, SentRecord
<1>3. ConnectionShape /\ DisconnectNeverLeftOver
  BY DEF Init, ConnectionShape, DisconnectNeverLeftOver, DISCONNECTED
<1>4. ConnectedMeansAnswered /\ ChallengeOfCurrentServer /\ EndedMeansClean
  BY DEF Init, ConnectedMeansAnswered, ChallengeOfCurrentServer, EndedMeansClean,
         DISCONNECTED, CONNECTED, SENDING_CONNECTION_REQUEST, SENDING_CONNECTION_RESPONSE
<1> QED BY <1>2, <1>3, <1>4 DEF IInv

\* A step after which the client is clean and not connecting keeps it.
LEMMA CleanInv ==
    ASSUME IInv, Clean(client'), client'.state <= DISCONNECTED,
           phase' \in {"idle", "receiving"}, sent \subseteq sent', sent' \subseteq SentRecord,
           used' \subseteq Tokens
    PROVE  IInv'
<1> USE DEF DISCONNECTED, CONNECTED, SENDING_CONNECTION_REQUEST, SENDING_CONNECTION_RESPONSE
<1>1. /\ client' \in ClientRecord /\ client'.state \in Int
      /\ client'.token = NoToken /\ client'.challenge = NoServer
      /\ client'.queue = <<>> /\ client'.loopback = FALSE
      /\ client'.should_disconnect = FALSE
  BY FieldTypes, StatesType DEF Clean
<1>2. TypeOK'
  BY <1>1 DEF TypeOK
<1>3. (ConnectionShape /\ DisconnectNeverLeftOver)'
  BY <1>1 DEF ConnectionShape, DisconnectNeverLeftOver
<1>4. (ConnectedMeansAnswered /\ ChallengeOfCurrentServer /\ EndedMeansClean)'
  BY <1>1 DEF ConnectedMeansAnswered, ChallengeOfCurrentServer, EndedMeansClean
<1> QED BY <1>2, <1>3, <1>4 DEF IInv

\* A step that keeps the state, the server and the flags of the connection
\* keeps it, provided the update that sees a pending disconnect is not over.
LEMMA SameInv ==
    ASSUME IInv, client' \in ClientRecord,
           client'.state = client.state, client'.token = client.token,
           client'.server_address_index = client.server_address_index,
           client'.challenge = client.challenge, client'.loopback = client.loopback,
           client.state <= DISCONNECTED =>
               /\ client'.queue = client.queue
               /\ client'.should_disconnect = client.should_disconnect,
           phase' = "idle" \/ (phase' = "receiving" /\ ~client.loopback),
           phase' = "idle" => ~client'.should_disconnect,
           sent \subseteq sent', sent' \subseteq SentRecord,
           UNCHANGED used
    PROVE  IInv'
<1>1. ServerOf(client') = ServerOf(client)
  BY DEF ServerOf
<1>2. TypeOK'
  BY DEF IInv, TypeOK
<1>3. (ConnectionShape /\ DisconnectNeverLeftOver)'
  BY DEF IInv, ConnectionShape, DisconnectNeverLeftOver
<1>4. ConnectedMeansAnswered'
  BY <1>1 DEF IInv, ConnectedMeansAnswered, ServerOf
<1>5. ChallengeOfCurrentServer'
  BY <1>1 DEF IInv, ChallengeOfCurrentServer, ServerOf
<1>6. EndedMeansClean'
  BY DEF IInv, EndedMeansClean
<1> QED BY <1>2, <1>3, <1>4, <1>5, <1>6 DEF IInv

\* A step that starts to talk to a server with a valid address keeps it.
LEMMA RequestInv ==
    ASSUME IInv, client' \in ClientRecord,
           client'.state = SENDING_CONNECTION_REQUEST, client'.token # NoToken,
           client'.server_address_index \in DOMAIN TokenServers[client'.token],
           client'.challenge = NoServer, client'.loopback = FALSE,
           client'.should_disconnect = FALSE,
           phase' = "idle", sent' \subseteq SentRecord,
           used' \subseteq Tokens
    PROVE  IInv'
<1> USE DEF DISCONNECTED, CONNECTED, SENDING_CONNECTION_REQUEST, SENDING_CONNECTION_RESPONSE
<1>1. TypeOK'
  BY DEF TypeOK
<1>2. (ConnectionShape /\ DisconnectNeverLeftOver)'
  BY DEF ConnectionShape, DisconnectNeverLeftOver
<1>3. (ConnectedMeansAnswered /\ ChallengeOfCurrentServer /\ EndedMeansClean)'
  BY DEF ConnectedMeansAnswered, ChallengeOfCurrentServer, EndedMeansClean
<1> QED BY <1>1, <1>2, <1>3 DEF IInv

\* What the invariant says of the client's fields.
LEMMA InvFields ==
    ASSUME IInv
    PROVE  /\ client \in ClientRecord /\ client.time \in Nat /\ client.time \in Int
           /\ client.state \in Int /\ client.queue \in Queues
           /\ sent \subseteq SentRecord /\ used \subseteq Tokens
           /\ phase \in {"idle", "receiving"}
<1>1. /\ client \in ClientRecord /\ sent \subseteq SentRecord /\ used \subseteq Tokens
      /\ phase \in {"idle", "receiving"}
  BY DEF IInv, TypeOK
<1>2. client.time \in Nat /\ client.state \in States /\ client.queue \in Queues
  BY <1>1, FieldTypes
<1>3. client.time \in Int
  BY <1>2
<1>4. client.state \in Int
  BY <1>2, StatesType
<1> QED BY <1>1, <1>2, <1>3, <1>4

\* The start of an update only advances the time.
LEMMA UpdateBeginInv == IInv /\ UpdateBegin => IInv'
<1> SUFFICES ASSUME IInv, UpdateBegin PROVE IInv'
  OBVIOUS
<1>1. PICK t \in client.time .. client.time + MaxGap : client' = [client EXCEPT !.time = t]
  BY DEF UpdateBegin
<1>2. t \in Nat
  BY InvFields, ClientAssumption
<1>3. client' \in ClientRecord
  BY <1>1, <1>2, InvFields, TimeType
<1>4. /\ client'.state = client.state /\ client'.token = client.token
      /\ client'.server_address_index = client.server_address_index
      /\ client'.challenge = client.challenge /\ client'.loopback = client.loopback
      /\ client'.queue = client.queue
      /\ client'.should_disconnect = client.should_disconnect
  BY <1>1, InvFields DEF ClientRecord
<1>5. /\ ~client.should_disconnect
      /\ phase' = "idle" \/ (phase' = "receiving" /\ ~client.loopback)
  BY DEF UpdateBegin, IInv, DisconnectNeverLeftOver
<1> QED BY <1>3, <1>4, <1>5, InvFields, SameInv DEF UpdateBegin

\* A packet that only asks for a disconnect, or only carries a payload, leaves
\* the connection as it is.
LEMMA SameConnectionPacketInv ==
    ASSUME NEW s \in Servers
    PROVE  IInv /\ (DeniedPacket(s) \/ PayloadPacket(s) \/ DisconnectPacket(s)) => IInv'
<1> SUFFICES ASSUME IInv, DeniedPacket(s) \/ PayloadPacket(s) \/ DisconnectPacket(s)
             PROVE  IInv'
  OBVIOUS
<1>1. /\ phase = "receiving" /\ phase' = "receiving" /\ client.loopback = FALSE
      /\ client.state > DISCONNECTED
      /\ UNCHANGED <<sent, used>>
  BY FieldTypes, InvFields
     DEF IInv, ConnectionShape, DeniedPacket, PayloadPacket, DisconnectPacket, Arrives,
         Connecting, DISCONNECTED, CONNECTED, SENDING_CONNECTION_REQUEST,
         SENDING_CONNECTION_RESPONSE
<1>2. /\ client' \in ClientRecord
      /\ client'.state = client.state /\ client'.token = client.token
      /\ client'.server_address_index = client.server_address_index
      /\ client'.challenge = client.challenge /\ client'.loopback = client.loopback
  <2>1. CASE DeniedPacket(s)
    <3>1. TRUE \in BOOLEAN /\ CONNECTION_DENIED \in Pending
      BY DEF Pending
    <3>2. client' \in ClientRecord
      BY <2>1, <3>1, InvFields, PendingType DEF DeniedPacket
    <3> QED BY <2>1, <3>2, InvFields DEF DeniedPacket, ClientRecord
  <2>2. CASE PayloadPacket(s)
    <3>1. Push(client.queue, s) \in Queues
      BY InvFields, QueueType
    <3>2. client' \in ClientRecord
      BY <2>2, <3>1, InvFields, PayloadType DEF PayloadPacket
    <3> QED BY <2>2, <3>2, InvFields DEF PayloadPacket, ClientRecord
  <2>3. CASE DisconnectPacket(s)
    <3>1. TRUE \in BOOLEAN /\ DISCONNECTED \in Pending
      BY DEF Pending
    <3>2. client' \in ClientRecord
      BY <2>3, <3>1, InvFields, PendingType DEF DisconnectPacket
    <3> QED BY <2>3, <3>2, InvFields DEF DisconnectPacket, ClientRecord
  <2> QED BY <2>1, <2>2, <2>3
<1>3. ~(client.state <= DISCONNECTED)
  BY <1>1, InvFields DEF DISCONNECTED
<1> QED BY <1>1, <1>2, <1>3, InvFields, SameInv

\* A challenge is stored with the server it came from.
LEMMA ChallengePacketInv ==
    ASSUME NEW s \in Servers
    PROVE  IInv /\ ChallengePacket(s) => IInv'
<1> SUFFICES ASSUME IInv, ChallengePacket(s) PROVE IInv'
  OBVIOUS
<1> USE DEF DISCONNECTED, CONNECTED, SENDING_CONNECTION_REQUEST, SENDING_CONNECTION_RESPONSE
<1>1. /\ phase = "receiving" /\ client.loopback = FALSE
      /\ client.state = SENDING_CONNECTION_REQUEST /\ client.token # NoToken
      /\ s = ServerOf(client)
      /\ UNCHANGED <<phase, sent, used>>
  BY FieldTypes, InvFields
     DEF IInv, ConnectionShape, ChallengePacket, Arrives, FromServer
<1>2. SENDING_CONNECTION_RESPONSE \in States /\ s \in Servers \cup {NoServer}
  BY StatesType
<1>3. client' \in ClientRecord
  BY <1>2, InvFields, ChallengeType DEF ChallengePacket
<1>4. /\ client'.state = SENDING_CONNECTION_RESPONSE /\ client'.token = client.token
      /\ client'.server_address_index = client.server_address_index
      /\ client'.challenge = s /\ client'.loopback = client.loopback
  BY InvFields DEF ChallengePacket, ClientRecord
<1>5. ServerOf(client') = ServerOf(client)
  BY <1>4 DEF ServerOf
<1>6. TypeOK'
  BY <1>1, <1>3, <1>4 DEF IInv, TypeOK
<1>7. (ConnectionShape /\ DisconnectNeverLeftOver)'
  BY <1>1, <1>4 DEF ConnectionShape, DisconnectNeverLeftOver
<1>8. (ConnectedMeansAnswered /\ ChallengeOfCurrentServer /\ EndedMeansClean)'
  BY <1>1, <1>4, <1>5
     DEF ConnectedMeansAnswered, ChallengeOfCurrentServer, EndedMeansClean, ServerOf
<1> QED BY <1>6, <1>7, <1>8 DEF IInv

\* A keep-alive packet connects only a client whose response caused it.
LEMMA KeepAlivePacketInv ==
    ASSUME NEW s \in Servers
    PROVE  IInv /\ KeepAlivePacket(s) => IInv'
<1> SUFFICES ASSUME IInv, KeepAlivePacket(s) PROVE IInv'
  OBVIOUS
<1> USE DEF DISCONNECTED, CONNECTED, SENDING_CONNECTION_REQUEST, SENDING_CONNECTION_RESPONSE
<1>1. /\ phase = "receiving" /\ client.loopback = FALSE
      /\ client.token # NoToken /\ s = ServerOf(client)
      /\ [server |-> s, token |-> client.token, kind |-> "response"] \in sent
      /\ UNCHANGED <<phase, sent, used>>
  BY FieldTypes, InvFields
     DEF IInv, ConnectionShape, KeepAlivePacket, Arrives, FromServer
<1>2. CONNECTED \in States
  BY StatesType
<1>3. client' \in ClientRecord
  BY <1>2, InvFields, KeepAliveType DEF KeepAlivePacket
<1>4. /\ client'.state = CONNECTED /\ client'.token = client.token
      /\ client'.server_address_index = client.server_address_index
      /\ client'.loopback = client.loopback
  BY InvFields DEF KeepAlivePacket, ClientRecord
<1>5. ServerOf(client') = ServerOf(client)
  BY <1>4 DEF ServerOf
<1>6. TypeOK'
  BY <1>1, <1>3, <1>4 DEF IInv, TypeOK
<1>7. (ConnectionShape /\ DisconnectNeverLeftOver)'
  BY <1>1, <1>4 DEF ConnectionShape, DisconnectNeverLeftOver
<1>8. (ConnectedMeansAnswered /\ ChallengeOfCurrentServer /\ EndedMeansClean)'
  BY <1>1, <1>4, <1>5
     DEF ConnectedMeansAnswered, ChallengeOfCurrentServer, EndedMeansClean, ServerOf
<1> QED BY <1>6, <1>7, <1>8 DEF IInv

\* The end of an update sends with the present server and token, then decides.
LEMMA UpdateEndInv == IInv /\ UpdateEnd => IInv'
<1> SUFFICES ASSUME IInv, UpdateEnd PROVE IInv'
  OBVIOUS
<1> USE DEF DISCONNECTED, SENDING_CONNECTION_REQUEST, SENDING_CONNECTION_RESPONSE
<1> DEFINE c == AfterSend(client)
<1>1. /\ c \in ClientRecord
      /\ c.state = client.state /\ c.token = client.token
      /\ c.challenge = client.challenge
      /\ c.server_address_index = client.server_address_index
      /\ c.loopback = client.loopback /\ c.queue = client.queue
      /\ c.should_disconnect = client.should_disconnect
  BY InvFields, AfterSendFields
<1>2. client.loopback = FALSE
  BY FieldTypes, InvFields DEF UpdateEnd, IInv, ConnectionShape
<1>3. client.state > DISCONNECTED => client.token # NoToken
  BY <1>2 DEF IInv, ConnectionShape
<1>4. Outgoing(client) \subseteq SentRecord
  <2> SUFFICES ASSUME NEW p \in Outgoing(client) PROVE p \in SentRecord
    OBVIOUS
  <2>1. client.state > DISCONNECTED
    BY InvFields DEF Outgoing, SendDue
  <2>2. ServerOf(client) \in Servers /\ client.token \in Tokens
    BY <1>3, <2>1, InvFields, ServerOfType DEF IInv, TypeOK
  <2> QED BY <2>2 DEF Outgoing, SentRecord
<1>5. /\ sent \subseteq sent' /\ sent' \subseteq SentRecord
      /\ phase' = "idle" /\ UNCHANGED used
      /\ client' = Decide(c)
  BY <1>4, InvFields DEF UpdateEnd
<1>6. c.state <= DISCONNECTED => ~c.should_disconnect
  BY <1>1 DEF IInv, EndedMeansClean
<1> HIDE DEF c
<1>7. CASE Decide(c) = c /\ ~c.should_disconnect
  BY <1>1, <1>5, <1>7, SameInv
<1>8. CASE Clean(Decide(c)) /\ Decide(c).state <= DISCONNECTED
  <2>1. /\ Clean(client') /\ client'.state <= DISCONNECTED
        /\ phase' \in {"idle", "receiving"}
    BY <1>5, <1>8
  <2>2. used' \subseteq Tokens
    BY <1>5, InvFields
  <2> QED BY <1>5, <2>1, <2>2, CleanInv
<1>9. CASE Decide(c) = ConnectToNextServer(c) /\ HasNextServer(c) /\ c.state > DISCONNECTED
  <2>1. /\ client' \in ClientRecord
        /\ client'.state = SENDING_CONNECTION_REQUEST /\ client'.token = c.token
        /\ client'.server_address_index = c.server_address_index + 1
        /\ client'.challenge = NoServer /\ client'.loopback = c.loopback
        /\ client'.should_disconnect = FALSE
    <3> DEFINE r == ConnectToNextServer(c)
    <3>1. /\ r \in ClientRecord
          /\ r.state = SENDING_CONNECTION_REQUEST /\ r.token = c.token
          /\ r.server_address_index = c.server_address_index + 1
          /\ r.challenge = NoServer /\ r.loopback = c.loopback
          /\ r.should_disconnect = FALSE
      BY <1>1, NextServerFields
    <3>2. client' = r
      BY <1>5, <1>9
    <3> HIDE DEF r
    <3> QED BY <3>1, <3>2
  <2>2. c.token \in Tokens /\ c.token # NoToken
    BY <1>1, <1>3, <1>9, FieldTypes
  <2>3. TokenServers[c.token] \in Seq(Servers)
    BY <2>2, ClientAssumption
  <2>4. c.server_address_index \in Nat \ {0}
    BY <1>1, FieldTypes
  <2>5. c.server_address_index + 1 \in DOMAIN TokenServers[c.token]
    BY <1>9, <2>3, <2>4 DEF HasNextServer
  <2> QED BY <1>1, <1>2, <1>5, <2>1, <2>2, <2>5, InvFields, RequestInv
<1> QED BY <1>1, <1>6, <1>7, <1>8, <1>9, DecideCases

\* Outside an update and a loopback, netcode_client_disconnect leaves a clean
\* client.
LEMMA DisconnectClean ==
    ASSUME IInv, phase = "idle", ~client.loopback
    PROVE  /\ Clean(DisconnectInternal(client, DISCONNECTED))
           /\ DisconnectInternal(client, DISCONNECTED).state <= DISCONNECTED
<1>1. DISCONNECTED \in States /\ DISCONNECTED <= DISCONNECTED
  BY StatesType DEF DISCONNECTED
<1>2. CASE client.state <= DISCONNECTED
  <2>1. DisconnectInternal(client, DISCONNECTED) = client
    BY <1>2 DEF DisconnectInternal
  <2>2. client.loopback = FALSE /\ client.should_disconnect = FALSE
    BY <1>2, FieldTypes, InvFields DEF IInv, EndedMeansClean
  <2>3. client.token = NoToken /\ client.challenge = NoServer /\ client.queue = <<>>
    BY <1>2 DEF IInv, EndedMeansClean
  <2> QED BY <1>2, <2>1, <2>2, <2>3, InvFields DEF Clean
<1>3. CASE client.state > DISCONNECTED
  <2>1. /\ Clean(DisconnectInternal(client, DISCONNECTED))
        /\ DisconnectInternal(client, DISCONNECTED).state = DISCONNECTED
    BY <1>1, <1>3, InvFields, DisconnectFields
  <2> QED BY <1>1, <2>1
<1> QED BY <1>2, <1>3, InvFields DEF DISCONNECTED

\* A connect starts from a clean client.
LEMMA ConnectInv ==
    ASSUME NEW t \in Tokens
    PROVE  IInv /\ Connect(t) => IInv'
<1> SUFFICES ASSUME IInv, Connect(t) PROVE IInv'
  OBVIOUS
<1> DEFINE c == DisconnectInternal(client, DISCONNECTED)
<1>1. /\ phase = "idle" /\ ~client.loopback /\ used' = used \cup {t}
      /\ UNCHANGED <<phase, sent>>
  BY DEF Connect
<1>2. Clean(c)
  BY <1>1, DisconnectClean
<1>3. used' \subseteq Tokens /\ phase' = "idle"
      /\ sent \subseteq sent' /\ sent' \subseteq SentRecord
  BY <1>1, InvFields
<1>4. CASE t \in InvalidTokens
  <2>1. client' = [c EXCEPT !.state = INVALID_CONNECT_TOKEN]
    BY <1>4 DEF Connect
  <2> HIDE DEF c
  <2>2. c \in ClientRecord /\ INVALID_CONNECT_TOKEN \in States
    BY <1>2, StatesType DEF Clean
  <2>3. client' \in ClientRecord
    BY <2>1, <2>2, StateType
  <2>4. /\ client'.state = INVALID_CONNECT_TOKEN
        /\ client'.token = c.token /\ client'.challenge = c.challenge
        /\ client'.queue = c.queue /\ client'.loopback = c.loopback
        /\ client'.should_disconnect = c.should_disconnect
    BY <2>1, <2>2 DEF ClientRecord
  <2>5. Clean(client') /\ client'.state <= DISCONNECTED
    BY <1>2, <2>3, <2>4 DEF Clean, INVALID_CONNECT_TOKEN, DISCONNECTED
  <2> QED BY <1>3, <2>5, CleanInv
<1>5. CASE t \notin InvalidTokens
  <2> DEFINE d == [c EXCEPT !.token = t, !.server_address_index = 1]
             e == ResetBeforeNextConnect(d)
  <2>1. client' = [e EXCEPT !.state = SENDING_CONNECTION_REQUEST]
    BY <1>5 DEF Connect
  <2>2. c \in ClientRecord /\ c.loopback = FALSE
    BY <1>2 DEF Clean
  <2> HIDE DEF c
  <2>3. d \in ClientRecord
    <3>1. 1 \in Nat \ {0}
      OBVIOUS
    <3> QED BY <2>2, <3>1, TokenType
  <2>4. d.token = t /\ d.server_address_index = 1 /\ d.loopback = FALSE
    BY <2>2 DEF ClientRecord
  <2> HIDE DEF d
  <2>5. /\ e \in ClientRecord /\ e.token = t /\ e.server_address_index = 1
        /\ e.loopback = FALSE /\ e.challenge = NoServer /\ e.should_disconnect = FALSE
    BY <2>3, <2>4, ResetBeforeFields
  <2> HIDE DEF e
  <2>6. client' \in ClientRecord
    BY <2>1, <2>5, StateType, StatesType
  <2>7. /\ client'.state = SENDING_CONNECTION_REQUEST /\ client'.token = t
        /\ client'.server_address_index = 1 /\ client'.loopback = FALSE
        /\ client'.challenge = NoServer /\ client'.should_disconnect = FALSE
    BY <2>1, <2>5 DEF ClientRecord
  <2>8. t # NoToken /\ 1 \in DOMAIN TokenServers[t]
    BY ClientAssumption
  <2> QED BY <1>3, <2>6, <2>7, <2>8, RequestInv
<1> QED BY <1>4, <1>5

\* The disconnects of the application leave a clean client.
LEMMA DisconnectInv == IInv /\ (Disconnect \/ DisconnectLoopback) => IInv'
<1> SUFFICES ASSUME IInv, Disconnect \/ DisconnectLoopback PROVE IInv'
  OBVIOUS
<1>1. phase = "idle" /\ UNCHANGED <<phase, sent, used>>
  BY DEF Disconnect, DisconnectLoopback
<1>2. Clean(client') /\ client'.state <= DISCONNECTED
  <2>1. CASE Disconnect
    BY <2>1, DisconnectClean DEF Disconnect
  <2>2. CASE DisconnectLoopback
    <3>1. DISCONNECTED \in States /\ DISCONNECTED <= DISCONNECTED
      BY StatesType DEF DISCONNECTED
    <3>2. client' = ResetConnectionData(client, DISCONNECTED)
      BY <2>2 DEF DisconnectLoopback
    <3>3. Clean(client') /\ client'.state = DISCONNECTED
      BY <3>1, <3>2, InvFields, ResetFields DEF Clean
    <3> QED BY <3>1, <3>3
  <2> QED BY <2>1, <2>2
<1> QED BY <1>1, <1>2, InvFields, CleanInv

\* Sending, receiving and a loopback packet leave the connection as it is.
LEMMA PayloadInv == IInv /\ (SendPacket \/ ReceivePacket \/ ProcessLoopbackPacket) => IInv'
<1> SUFFICES ASSUME IInv, SendPacket \/ ReceivePacket \/ ProcessLoopbackPacket PROVE IInv'
  OBVIOUS
<1>1. phase = "idle" /\ UNCHANGED <<phase, sent, used>>
  BY DEF SendPacket, ReceivePacket, ProcessLoopbackPacket
<1>2. ~(client.state <= DISCONNECTED)
  BY InvFields DEF IInv, EndedMeansClean, SendPacket, ReceivePacket,
                   ProcessLoopbackPacket, DISCONNECTED, CONNECTED
<1>3. /\ client' \in ClientRecord
      /\ client'.state = client.state /\ client'.token = client.token
      /\ client'.server_address_index = client.server_address_index
      /\ client'.challenge = client.challenge /\ client'.loopback = client.loopback
      /\ client'.should_disconnect = client.should_disconnect
  <2>1. CASE SendPacket
    <3>1. client' \in ClientRecord
      BY <2>1, InvFields, SendTimeType DEF SendPacket
    <3> QED BY <2>1, <3>1, InvFields DEF SendPacket, ClientRecord
  <2>2. CASE ReceivePacket
    <3>1. Tail(client.queue) \in Queues
      BY <2>2, InvFields, QueueType DEF ReceivePacket
    <3>2. client' \in ClientRecord
      BY <2>2, <3>1, InvFields, QueueFieldType DEF ReceivePacket
    <3> QED BY <2>2, <3>2, InvFields DEF ReceivePacket, ClientRecord
  <2>3. CASE ProcessLoopbackPacket
    <3>1. Push(client.queue, NoServer) \in Queues
      BY InvFields, QueueType
    <3>2. client' \in ClientRecord
      BY <2>3, <3>1, InvFields, QueueFieldType DEF ProcessLoopbackPacket
    <3> QED BY <2>3, <3>2, InvFields DEF ProcessLoopbackPacket, ClientRecord
  <2> QED BY <2>1, <2>2, <2>3
<1>4. ~client.should_disconnect
  BY <1>1 DEF IInv, DisconnectNeverLeftOver
<1> QED BY <1>1, <1>2, <1>3, <1>4, InvFields, SameInv

\* A loopback connection starts on a clean client and needs no handshake.
LEMMA ConnectLoopbackInv == IInv /\ ConnectLoopback => IInv'
<1> SUFFICES ASSUME IInv, ConnectLoopback PROVE IInv'
  OBVIOUS
<1> USE DEF DISCONNECTED, CONNECTED, SENDING_CONNECTION_REQUEST, SENDING_CONNECTION_RESPONSE
<1>1. /\ phase = "idle" /\ UNCHANGED <<phase, sent, used>>
      /\ client' = [client EXCEPT !.state = CONNECTED, !.loopback = TRUE]
  BY DEF ConnectLoopback
<1>2. client.token = NoToken /\ client.should_disconnect = FALSE
  BY FieldTypes, InvFields DEF IInv, EndedMeansClean, ConnectLoopback
<1>3. client' \in ClientRecord
  <2>1. CONNECTED \in States /\ TRUE \in BOOLEAN
    BY StatesType
  <2> QED BY <1>1, <2>1, InvFields, LoopbackType
<1>4. /\ client'.state = CONNECTED /\ client'.loopback = TRUE
      /\ client'.token = NoToken /\ client'.should_disconnect = FALSE
  BY <1>1, <1>2, InvFields DEF ClientRecord
<1>5. TypeOK'
  BY <1>1, <1>3, <1>4 DEF IInv, TypeOK
<1>6. (ConnectionShape /\ DisconnectNeverLeftOver)'
  BY <1>1, <1>4 DEF ConnectionShape, DisconnectNeverLeftOver
<1>7. (ConnectedMeansAnswered /\ ChallengeOfCurrentServer /\ EndedMeansClean)'
  BY <1>4 DEF ConnectedMeansAnswered, ChallengeOfCurrentServer, EndedMeansClean
<1> QED BY <1>5, <1>6, <1>7 DEF IInv

\* Every step keeps the invariant.
LEMMA NextInv == IInv /\ [Next]_vars => IInv'
<1> SUFFICES ASSUME IInv, [Next]_vars PROVE IInv'
  OBVIOUS
<1>1. CASE UpdateBegin
  BY <1>1, UpdateBeginInv
<1>2. CASE Packet
  BY <1>2, SameConnectionPacketInv, ChallengePacketInv, KeepAlivePacketInv DEF Packet
<1>3. CASE UpdateEnd
  BY <1>3, UpdateEndInv
<1>4. CASE Api
  BY <1>4, ConnectInv, DisconnectInv, PayloadInv, ConnectLoopbackInv DEF Api
<1>5. CASE UNCHANGED vars
  BY <1>5 DEF vars, IInv, TypeOK, ConnectionShape, ConnectedMeansAnswered,
              ChallengeOfCurrentServer, DisconnectNeverLeftOver, EndedMeansClean, ServerOf
<1> QED BY <1>1, <1>2, <1>3, <1>4, <1>5 DEF Next

-----------------------------------------------------------------------------
(* The lifetime of a token bounds how long one server is asked.            *)

\* A loopback client is connected: the lifetime concerns no update of its.
LoopbackConnected == client.loopback => client.state = CONNECTED

LifetimeInv == LoopbackConnected /\ LifetimeBoundsConnecting

\* Each connect, to the first server or the next one, starts the lifetime now.
LEMMA StartIsNow ==
    ASSUME NEW c \in ClientRecord
    PROVE  /\ ResetBeforeNextConnect(c).connect_start_time = c.time
           /\ ResetBeforeNextConnect(c).time = c.time
           /\ ConnectToNextServer(c).connect_start_time = c.time
           /\ ConnectToNextServer(c).time = c.time
<1> DEFINE d == [c EXCEPT !.server_address_index = @ + 1]
           e == ResetBeforeNextConnect(d)
<1>1. d \in ClientRecord /\ d.time = c.time
  BY DEF ClientRecord
<1>2. /\ ResetBeforeNextConnect(c).connect_start_time = c.time
      /\ ResetBeforeNextConnect(c).time = c.time
  BY DEF ClientRecord, ResetBeforeNextConnect
<1> HIDE DEF d
<1>3. e \in ClientRecord
  BY <1>1, ResetBeforeFields
<1>4. e.connect_start_time = c.time /\ e.time = c.time
  BY <1>1 DEF ClientRecord, ResetBeforeNextConnect
<1> HIDE DEF e
<1>5. ConnectToNextServer(c) = [e EXCEPT !.state = SENDING_CONNECTION_REQUEST]
  BY DEF ConnectToNextServer, d, e
<1> QED BY <1>2, <1>3, <1>4, <1>5 DEF ClientRecord

\* A client that has just started to connect has all of a lifetime left.
LEMMA StartLifetime ==
    ASSUME client' \in ClientRecord, client'.connect_start_time = client'.time,
           client'.token \in Tokens, client'.loopback = FALSE
    PROVE  LifetimeInv'
<1>1. client'.time \in Nat /\ TokenLifetime[client'.token] \in Nat \ {0}
  BY FieldTypes, ClientAssumption
<1>2. client'.time < client'.connect_start_time + TokenLifetime[client'.token]
  BY <1>1
<1> QED BY <1>2 DEF LifetimeInv, LoopbackConnected, LifetimeBoundsConnecting

\* A clean client that is not in action has nothing to keep.
LEMMA CleanLifetime ==
    ASSUME client' \in ClientRecord, client'.state <= DISCONNECTED,
           client'.loopback = FALSE
    PROVE  LifetimeInv'
<1>1. client'.state \in Int
  BY FieldTypes, StatesType
<1>2. ~Connecting(client')
  BY <1>1 DEF Connecting, DISCONNECTED, SENDING_CONNECTION_REQUEST,
              SENDING_CONNECTION_RESPONSE
<1> QED BY <1>2 DEF LifetimeInv, LoopbackConnected, LifetimeBoundsConnecting

\* Nothing that keeps the times, the token and the state disturbs it.
LEMMA SameLifetime ==
    ASSUME LifetimeInv, phase = "idle",
           client'.state = client.state, client'.time = client.time,
           client'.connect_start_time = client.connect_start_time,
           client'.token = client.token, client'.loopback = client.loopback
    PROVE  LifetimeInv'
BY DEF LifetimeInv, LoopbackConnected, LifetimeBoundsConnecting, Connecting

\* The end of an update ends an expired connection, so what stays has time left.
LEMMA UpdateEndLifetime == IInv /\ UpdateEnd => LifetimeInv'
<1> SUFFICES ASSUME IInv, UpdateEnd PROVE LifetimeInv'
  OBVIOUS
<1> DEFINE c == AfterSend(client)
<1>1. /\ c \in ClientRecord
      /\ c.state = client.state /\ c.token = client.token
      /\ c.loopback = client.loopback /\ c.should_disconnect = client.should_disconnect
  BY InvFields, AfterSendFields
<1>2. client.loopback = FALSE
  BY FieldTypes, InvFields DEF UpdateEnd, IInv, ConnectionShape
<1>3. client.state > DISCONNECTED => client.token # NoToken
  BY <1>2 DEF IInv, ConnectionShape
<1>4. client' = Decide(c)
  BY DEF UpdateEnd
<1>5. c.state <= DISCONNECTED => ~c.should_disconnect
  BY <1>1 DEF IInv, EndedMeansClean
<1> HIDE DEF c
<1>6. c.state > DISCONNECTED => c.token \in Tokens
  BY <1>1, <1>3, FieldTypes
<1>7. CASE Decide(c) = c
  <2>1. ASSUME Connecting(c)
        PROVE  c.time < c.connect_start_time + TokenLifetime[c.token]
    <3>1. c.state > DISCONNECTED
      BY <2>1 DEF Connecting, DISCONNECTED, SENDING_CONNECTION_REQUEST,
                  SENDING_CONNECTION_RESPONSE
    <3>2. ~TokenExpired(c)
      <4> SUFFICES ASSUME TokenExpired(c) PROVE FALSE
        OBVIOUS
      <4>1. CONNECT_TOKEN_EXPIRED \in States /\ CONNECT_TOKEN_EXPIRED <= DISCONNECTED
        BY StatesType DEF CONNECT_TOKEN_EXPIRED, DISCONNECTED
      <4>2. Decide(c) = DisconnectInternal(c, CONNECT_TOKEN_EXPIRED)
        BY DEF Decide
      <4>3. DisconnectInternal(c, CONNECT_TOKEN_EXPIRED).state = CONNECT_TOKEN_EXPIRED
        BY <1>1, <3>1, <4>1, DisconnectFields
      <4>4. c.state = CONNECT_TOKEN_EXPIRED
        BY <1>7, <4>2, <4>3
      <4> QED BY <3>1, <4>4 DEF CONNECT_TOKEN_EXPIRED, DISCONNECTED
    <3>3. c.token \in Tokens
      BY <1>6, <3>1
    <3>4. /\ c.time \in Nat /\ c.connect_start_time \in Nat
          /\ TokenLifetime[c.token] \in Nat
      BY <1>1, <3>3, ClientAssumption DEF ClientRecord
    <3> QED BY <2>1, <3>2, <3>4 DEF TokenExpired
  <2> QED BY <1>1, <1>2, <1>4, <1>7, <2>1
          DEF LifetimeInv, LoopbackConnected, LifetimeBoundsConnecting
<1>8. CASE Clean(Decide(c)) /\ Decide(c).state <= DISCONNECTED
  BY <1>4, <1>8, CleanLifetime DEF Clean
<1>9. CASE Decide(c) = ConnectToNextServer(c) /\ HasNextServer(c) /\ c.state > DISCONNECTED
  <2>1. /\ client' \in ClientRecord /\ client'.token = c.token
        /\ client'.loopback = c.loopback
    BY <1>1, <1>4, <1>9, NextServerFields
  <2>2. client'.connect_start_time = client'.time
    BY <1>1, <1>4, <1>9, StartIsNow
  <2> QED BY <1>1, <1>2, <1>6, <1>9, <2>1, <2>2, StartLifetime
<1> QED BY <1>1, <1>5, <1>7, <1>8, <1>9, DecideCases

\* A connect starts the lifetime; one with an invalid token connects nothing.
LEMMA ConnectLifetime ==
    ASSUME NEW t \in Tokens, IInv, Connect(t)
    PROVE  LifetimeInv'
<1> DEFINE c == DisconnectInternal(client, DISCONNECTED)
           d == [c EXCEPT !.token = t, !.server_address_index = 1]
           e == ResetBeforeNextConnect(d)
<1>1. Clean(c)
  BY DisconnectClean DEF Connect
<1>2. CASE t \in InvalidTokens
  <2>1. client' = [c EXCEPT !.state = INVALID_CONNECT_TOKEN]
    BY <1>2 DEF Connect
  <2> HIDE DEF c
  <2>2. c \in ClientRecord /\ INVALID_CONNECT_TOKEN \in States /\ c.loopback = FALSE
    BY <1>1, StatesType DEF Clean
  <2>3. client' \in ClientRecord
    BY <2>1, <2>2, StateType
  <2>4. client'.state = INVALID_CONNECT_TOKEN /\ client'.loopback = FALSE
    BY <2>1, <2>2 DEF ClientRecord
  <2>5. client'.state <= DISCONNECTED
    BY <2>4 DEF INVALID_CONNECT_TOKEN, DISCONNECTED
  <2> QED BY <2>3, <2>4, <2>5, CleanLifetime
<1>3. CASE t \notin InvalidTokens
  <2>1. client' = [e EXCEPT !.state = SENDING_CONNECTION_REQUEST]
    BY <1>3 DEF Connect
  <2>2. c \in ClientRecord /\ c.loopback = FALSE
    BY <1>1 DEF Clean
  <2> HIDE DEF c
  <2>3. d \in ClientRecord
    <3>1. 1 \in Nat \ {0}
      OBVIOUS
    <3> QED BY <2>2, <3>1, TokenType
  <2>4. d.token = t /\ d.loopback = FALSE
    BY <2>2 DEF ClientRecord
  <2> HIDE DEF d
  <2>5. /\ e \in ClientRecord /\ e.token = t /\ e.loopback = FALSE
        /\ e.connect_start_time = d.time /\ e.time = d.time
    BY <2>3, <2>4, ResetBeforeFields, StartIsNow
  <2> HIDE DEF e
  <2>6. client' \in ClientRecord
    BY <2>1, <2>5, StateType, StatesType
  <2>7. /\ client'.token = t /\ client'.loopback = FALSE
        /\ client'.connect_start_time = client'.time
    BY <2>1, <2>5 DEF ClientRecord
  <2> QED BY <2>6, <2>7, StartLifetime
<1> QED BY <1>2, <1>3

\* Packets arrive inside an update, whose end looks at the lifetime again.
LEMMA PacketLifetime == IInv /\ Packet => LifetimeInv'
<1> SUFFICES ASSUME IInv, Packet PROVE LifetimeInv'
  OBVIOUS
<1>1. phase = "receiving" /\ phase' = "receiving"
  BY DEF Packet, DeniedPacket, ChallengePacket, KeepAlivePacket, PayloadPacket,
         DisconnectPacket, Arrives
<1>2. client.loopback = FALSE
  BY <1>1, FieldTypes, InvFields DEF IInv, ConnectionShape
<1>3. client'.loopback = client.loopback
  BY InvFields DEF Packet, DeniedPacket, ChallengePacket, KeepAlivePacket, PayloadPacket,
                   DisconnectPacket, ClientRecord
<1> QED BY <1>1, <1>2, <1>3 DEF LifetimeInv, LoopbackConnected, LifetimeBoundsConnecting

\* Every step keeps it.
LEMMA NextLifetime == IInv /\ LifetimeInv /\ [Next]_vars => LifetimeInv'
<1> SUFFICES ASSUME IInv, LifetimeInv, [Next]_vars PROVE LifetimeInv'
  OBVIOUS
<1>1. CASE UpdateBegin
  <2>1. PICK t \in Int : client' = [client EXCEPT !.time = t]
    BY <1>1 DEF UpdateBegin
  <2>2. client'.state = client.state /\ client'.loopback = client.loopback
    BY <2>1, InvFields DEF ClientRecord
  <2>3. CASE client.loopback
    <3>1. client'.state = CONNECTED
      BY <2>2, <2>3 DEF LifetimeInv, LoopbackConnected
    <3>2. ~Connecting(client')
      BY <3>1 DEF Connecting, CONNECTED, SENDING_CONNECTION_REQUEST,
                  SENDING_CONNECTION_RESPONSE
    <3> QED BY <3>1, <3>2 DEF LifetimeInv, LoopbackConnected, LifetimeBoundsConnecting
  <2>4. CASE ~client.loopback
    <3>1. phase' = "receiving"
      BY <1>1, <2>4 DEF UpdateBegin
    <3> QED BY <2>2, <2>4, <3>1
            DEF LifetimeInv, LoopbackConnected, LifetimeBoundsConnecting
  <2> QED BY <2>3, <2>4
<1>2. CASE Packet
  BY <1>2, PacketLifetime
<1>3. CASE UpdateEnd
  BY <1>3, UpdateEndLifetime
<1>4. CASE \E t \in Tokens : Connect(t)
  BY <1>4, ConnectLifetime
<1>5. CASE Disconnect \/ DisconnectLoopback
  <2>1. Clean(client') /\ client'.state <= DISCONNECTED
    <3>1. CASE Disconnect
      BY <3>1, DisconnectClean DEF Disconnect
    <3>2. CASE DisconnectLoopback
      <4>1. DISCONNECTED \in States /\ DISCONNECTED <= DISCONNECTED
        BY StatesType DEF DISCONNECTED
      <4>2. client' = ResetConnectionData(client, DISCONNECTED)
        BY <3>2 DEF DisconnectLoopback
      <4>3. Clean(client') /\ client'.state = DISCONNECTED
        BY <4>1, <4>2, InvFields, ResetFields DEF Clean
      <4> QED BY <4>1, <4>3
    <3> QED BY <1>5, <3>1, <3>2
  <2> QED BY <2>1, CleanLifetime DEF Clean
<1>6. CASE SendPacket \/ ReceivePacket \/ ProcessLoopbackPacket
  <2>1. /\ phase = "idle"
        /\ client'.state = client.state /\ client'.time = client.time
        /\ client'.connect_start_time = client.connect_start_time
        /\ client'.token = client.token /\ client'.loopback = client.loopback
    BY <1>6, InvFields DEF SendPacket, ReceivePacket, ProcessLoopbackPacket, ClientRecord
  <2> QED BY <2>1, SameLifetime
<1>7. CASE ConnectLoopback
  <2>1. client'.state = CONNECTED
    BY <1>7, InvFields DEF ConnectLoopback, ClientRecord
  <2>2. ~Connecting(client')
    BY <2>1 DEF Connecting, CONNECTED, SENDING_CONNECTION_REQUEST,
                SENDING_CONNECTION_RESPONSE
  <2> QED BY <2>1, <2>2 DEF LifetimeInv, LoopbackConnected, LifetimeBoundsConnecting
<1>8. CASE UNCHANGED vars
  BY <1>8 DEF vars, LifetimeInv, LoopbackConnected, LifetimeBoundsConnecting, Connecting
<1> QED BY <1>1, <1>2, <1>3, <1>4, <1>5, <1>6, <1>7, <1>8 DEF Next, Api

-----------------------------------------------------------------------------
(* The time-out of a token bounds how long a server may be silent.         *)

\* Between updates a client that connects or is connected has heard of its
\* server within the time-out, if its token has one.
SilenceBounded ==
    phase = "idle" /\ client.state > DISCONNECTED /\ ~client.loopback
        /\ TokenTimeout[client.token] > 0 =>
        client.time <= client.last_packet_receive_time
                         + TokenTimeout[client.token] * TicksPerSecond

\* Each connect, to the first server or the next one, counts as having heard.
LEMMA HeardIsNow ==
    ASSUME NEW c \in ClientRecord
    PROVE  /\ ResetBeforeNextConnect(c).last_packet_receive_time = c.time
           /\ ConnectToNextServer(c).last_packet_receive_time = c.time
<1> DEFINE d == [c EXCEPT !.server_address_index = @ + 1]
           e == ResetBeforeNextConnect(d)
<1>1. d \in ClientRecord /\ d.time = c.time
  BY DEF ClientRecord
<1>2. ResetBeforeNextConnect(c).last_packet_receive_time = c.time
  BY DEF ClientRecord, ResetBeforeNextConnect
<1> HIDE DEF d
<1>3. e \in ClientRecord
  BY <1>1, ResetBeforeFields
<1>4. e.last_packet_receive_time = c.time
  BY <1>1 DEF ClientRecord, ResetBeforeNextConnect
<1> HIDE DEF e
<1>5. ConnectToNextServer(c) = [e EXCEPT !.state = SENDING_CONNECTION_REQUEST]
  BY DEF ConnectToNextServer, d, e
<1> QED BY <1>2, <1>3, <1>4, <1>5 DEF ClientRecord

\* A time-out that is enabled takes some time.
LEMMA TimeoutTicks ==
    ASSUME NEW t \in Tokens
    PROVE  /\ TokenTimeout[t] \in Int /\ TokenTimeout[t] * TicksPerSecond \in Int
           /\ TokenTimeout[t] > 0 => TokenTimeout[t] * TicksPerSecond > 0
<1>1. TokenTimeout[t] \in Int /\ TicksPerSecond \in Nat \ {0}
  BY ClientAssumption
<1>2. ASSUME NEW a \in Int, NEW b \in Nat \ {0}
      PROVE  a * b \in Int /\ (a > 0 => a * b > 0)
  BY Z3
<1> QED BY <1>1, <1>2

LEMMA HeardNow ==
    ASSUME client' \in ClientRecord, client'.last_packet_receive_time = client'.time,
           client'.token \in Tokens
    PROVE  SilenceBounded'
<1> DEFINE ticks == TokenTimeout[client'.token] * TicksPerSecond
<1>1. client'.time \in Nat
  BY FieldTypes
<1>2. ticks \in Int /\ (TokenTimeout[client'.token] > 0 => ticks > 0)
  BY TimeoutTicks
<1> HIDE DEF ticks
<1>3. TokenTimeout[client'.token] > 0 => client'.time <= client'.last_packet_receive_time + ticks
  BY <1>1, <1>2
<1> QED BY <1>3 DEF SilenceBounded, ticks

LEMMA NobodyWaits ==
    ASSUME client' \in ClientRecord,
           client'.state <= DISCONNECTED \/ client'.loopback \/ phase' # "idle"
    PROVE  SilenceBounded'
<1>1. client'.state \in Int
  BY FieldTypes, StatesType
<1> QED BY <1>1 DEF SilenceBounded, DISCONNECTED

\* The end of an update ends the wait for a server that timed out.
LEMMA UpdateEndSilence == IInv /\ UpdateEnd => SilenceBounded'
<1> SUFFICES ASSUME IInv, UpdateEnd PROVE SilenceBounded'
  OBVIOUS
<1> DEFINE c == AfterSend(client)
<1>1. /\ c \in ClientRecord
      /\ c.state = client.state /\ c.token = client.token
      /\ c.loopback = client.loopback /\ c.should_disconnect = client.should_disconnect
  BY InvFields, AfterSendFields
<1>2. client.loopback = FALSE
  BY FieldTypes, InvFields DEF UpdateEnd, IInv, ConnectionShape
<1>3. client.state > DISCONNECTED => client.token # NoToken
  BY <1>2 DEF IInv, ConnectionShape
<1>4. client' = Decide(c)
  BY DEF UpdateEnd
<1>5. c.state <= DISCONNECTED => ~c.should_disconnect
  BY <1>1 DEF IInv, EndedMeansClean
<1> HIDE DEF c
<1>6. c.state > DISCONNECTED => c.token \in Tokens
  BY <1>1, <1>3, FieldTypes
<1>7. ASSUME Clean(Decide(c)), Decide(c).state <= DISCONNECTED PROVE SilenceBounded'
  BY <1>4, <1>7, NobodyWaits DEF Clean
<1>8. ASSUME Decide(c) = ConnectToNextServer(c), c.state > DISCONNECTED
      PROVE  SilenceBounded'
  <2>1. client' \in ClientRecord /\ client'.token = c.token
    BY <1>1, <1>4, <1>8, NextServerFields
  <2>2. client'.last_packet_receive_time = client'.time
    BY <1>1, <1>4, <1>8, StartIsNow, HeardIsNow
  <2> QED BY <1>6, <1>8, <2>1, <2>2, HeardNow
<1>9. ASSUME Decide(c) = c, ~c.should_disconnect PROVE SilenceBounded'
  <2>0. c.state \in Int
    BY <1>1, FieldTypes, StatesType
  <2>1. CASE ~TimedOut(c)
    <3>1. ASSUME c.state > DISCONNECTED, TokenTimeout[c.token] > 0
          PROVE  c.time <= c.last_packet_receive_time
                             + TokenTimeout[c.token] * TicksPerSecond
      <4>1. c.state >= SENDING_CONNECTION_REQUEST
        BY <2>0, <3>1 DEF DISCONNECTED, SENDING_CONNECTION_REQUEST
      <4>2. ~(c.last_packet_receive_time + TokenTimeout[c.token] * TicksPerSecond < c.time)
        BY <2>1, <3>1, <4>1 DEF TimedOut
      <4>3. /\ c.time \in Nat /\ c.last_packet_receive_time \in Int
            /\ TokenTimeout[c.token] * TicksPerSecond \in Int
        BY <1>1, <1>6, <3>1, TimeoutTicks DEF ClientRecord
      <4> QED BY <4>2, <4>3
    <3> QED BY <1>4, <1>9, <3>1 DEF SilenceBounded
  <2>2. CASE TimedOut(c)
    <3>1. c.state > DISCONNECTED
      BY <2>0, <2>2 DEF TimedOut, DISCONNECTED, SENDING_CONNECTION_REQUEST
    <3>2. ASSUME NEW st \in States, st <= DISCONNECTED, c = DisconnectInternal(c, st)
          PROVE  FALSE
      <4>1. DisconnectInternal(c, st).state = st
        BY <1>1, <3>1, <3>2, DisconnectFields
      <4>2. c.state = st
        BY <3>2, <4>1
      <4> QED BY <3>1, <3>2, <4>2, StatesType DEF DISCONNECTED
    <3>3. CASE TokenExpired(c)
      <4>1. CONNECT_TOKEN_EXPIRED \in States /\ CONNECT_TOKEN_EXPIRED <= DISCONNECTED
        BY StatesType DEF CONNECT_TOKEN_EXPIRED, DISCONNECTED
      <4> QED BY <1>9, <3>2, <3>3, <4>1 DEF Decide
    <3>4. CASE ~TokenExpired(c) /\ Connecting(c)
      <4>1. c = NextServerOr(c, TimeoutState(c))
        BY <1>9, <2>2, <3>4 DEF Decide
      <4>2. TimeoutState(c) \in States /\ TimeoutState(c) <= DISCONNECTED
        BY StatesType DEF TimeoutState, CONNECTION_REQUEST_TIMED_OUT,
                          CONNECTION_RESPONSE_TIMED_OUT, DISCONNECTED
      <4>3. HasNextServer(c) /\ c = ConnectToNextServer(c)
        BY <3>2, <4>1, <4>2 DEF NextServerOr
      <4> QED BY <1>8, <1>9, <3>1, <4>3
    <3>5. CASE ~TokenExpired(c) /\ ~Connecting(c)
      <4>1. c = DisconnectInternal(c, CONNECTION_TIMED_OUT)
        BY <1>9, <2>2, <3>5 DEF Decide
      <4>2. CONNECTION_TIMED_OUT \in States /\ CONNECTION_TIMED_OUT <= DISCONNECTED
        BY StatesType DEF CONNECTION_TIMED_OUT, DISCONNECTED
      <4> QED BY <3>2, <4>1, <4>2
    <3> QED BY <3>3, <3>4, <3>5
  <2> QED BY <2>1, <2>2
<1> QED BY <1>1, <1>5, <1>7, <1>8, <1>9, DecideCases

\* A connect counts as having heard; an invalid token waits for nobody.
LEMMA ConnectSilence ==
    ASSUME NEW t \in Tokens, IInv, Connect(t)
    PROVE  SilenceBounded'
<1> DEFINE c == DisconnectInternal(client, DISCONNECTED)
           d == [c EXCEPT !.token = t, !.server_address_index = 1]
           e == ResetBeforeNextConnect(d)
<1>1. Clean(c)
  BY DisconnectClean DEF Connect
<1>2. c \in ClientRecord
  BY <1>1 DEF Clean
<1>3. CASE t \in InvalidTokens
  <2>1. client' = [c EXCEPT !.state = INVALID_CONNECT_TOKEN]
    BY <1>3 DEF Connect
  <2> HIDE DEF c
  <2>2. client' \in ClientRecord
    BY <1>2, <2>1, StateType, StatesType
  <2>3. client'.state = INVALID_CONNECT_TOKEN
    BY <1>2, <2>1 DEF ClientRecord
  <2>4. client'.state <= DISCONNECTED
    BY <2>3 DEF INVALID_CONNECT_TOKEN, DISCONNECTED
  <2> QED BY <2>2, <2>4, NobodyWaits
<1>4. CASE t \notin InvalidTokens
  <2>1. client' = [e EXCEPT !.state = SENDING_CONNECTION_REQUEST]
    BY <1>4 DEF Connect
  <2> HIDE DEF c
  <2>2. d \in ClientRecord
    <3>1. 1 \in Nat \ {0}
      OBVIOUS
    <3> QED BY <1>2, <3>1, TokenType
  <2>3. d.token = t
    BY <1>2 DEF ClientRecord
  <2> HIDE DEF d
  <2>4. /\ e \in ClientRecord /\ e.token = t
        /\ e.last_packet_receive_time = d.time /\ e.time = d.time
    BY <2>2, <2>3, ResetBeforeFields, StartIsNow, HeardIsNow
  <2> HIDE DEF e
  <2>5. client' \in ClientRecord
    BY <2>1, <2>4, StateType, StatesType
  <2>6. client'.token = t /\ client'.last_packet_receive_time = client'.time
    BY <2>1, <2>4 DEF ClientRecord
  <2> QED BY <2>5, <2>6, HeardNow
<1> QED BY <1>3, <1>4

\* Every step keeps it.
LEMMA NextSilence == IInv /\ IInv' /\ SilenceBounded /\ [Next]_vars => SilenceBounded'
<1> SUFFICES ASSUME IInv, IInv', SilenceBounded, [Next]_vars PROVE SilenceBounded'
  OBVIOUS
<1>0. client \in ClientRecord /\ client' \in ClientRecord
  BY DEF IInv, TypeOK
<1>1. CASE UpdateBegin
  <2>1. PICK t \in Int : client' = [client EXCEPT !.time = t]
    BY <1>1 DEF UpdateBegin
  <2>2. client'.loopback = client.loopback
    BY <1>0, <2>1 DEF ClientRecord
  <2>3. client'.loopback \/ phase' # "idle"
    BY <1>1, <2>2 DEF UpdateBegin
  <2> QED BY <1>0, <2>3, NobodyWaits
<1>2. CASE Packet
  <2>1. phase' = "receiving"
    BY <1>2 DEF Packet, DeniedPacket, ChallengePacket, KeepAlivePacket, PayloadPacket,
                DisconnectPacket, Arrives
  <2> QED BY <1>0, <2>1, NobodyWaits
<1>3. CASE UpdateEnd
  BY <1>3, UpdateEndSilence
<1>4. CASE \E t \in Tokens : Connect(t)
  BY <1>4, ConnectSilence
<1>5. CASE Disconnect
  <2>1. client'.state <= DISCONNECTED
    BY <1>5, DisconnectClean DEF Disconnect
  <2> QED BY <1>0, <2>1, NobodyWaits
<1>6. CASE DisconnectLoopback
  <2>1. client' = ResetConnectionData(client, DISCONNECTED)
    BY <1>6 DEF DisconnectLoopback
  <2>2. client'.state = DISCONNECTED
    BY <1>0, <2>1, ResetFields, StatesType
  <2> QED BY <1>0, <2>2, NobodyWaits DEF DISCONNECTED
<1>7. CASE SendPacket \/ ReceivePacket \/ ProcessLoopbackPacket
  <2>1. /\ phase' = phase
        /\ client'.state = client.state /\ client'.time = client.time
        /\ client'.last_packet_receive_time = client.last_packet_receive_time
        /\ client'.token = client.token /\ client'.loopback = client.loopback
    BY <1>0, <1>7 DEF SendPacket, ReceivePacket, ProcessLoopbackPacket, ClientRecord
  <2> QED BY <2>1 DEF SilenceBounded
<1>8. CASE ConnectLoopback
  <2>1. client'.loopback
    BY <1>0, <1>8 DEF ConnectLoopback, ClientRecord
  <2> QED BY <1>0, <2>1, NobodyWaits
<1>9. CASE UNCHANGED vars
  BY <1>9 DEF vars, SilenceBounded
<1> QED BY <1>1, <1>2, <1>3, <1>4, <1>5, <1>6, <1>7, <1>8, <1>9 DEF Next, Api

-----------------------------------------------------------------------------
(* The theorems.                                                           *)

\* The invariant holds in every state of the client (netcode.c:2395-3218).
THEOREM ClientInvariant == Spec => []IInv
BY InitInv, NextInv, PTL DEF Spec

\* The client's fields keep their types, and the address index of a client
\* with a token always points into the token's list (netcode.c:2943-2966).
THEOREM ClientTypes == Spec => []TypeOK
<1>1. IInv => TypeOK
  BY DEF IInv
<1> QED BY <1>1, ClientInvariant, PTL

\* A connected client answered this server's challenge for this token, however
\* packets of earlier servers and connections are delayed (netcode.c:2702-2728).
THEOREM ConnectedWasAnswered == Spec => []ConnectedMeansAnswered
<1>1. IInv => ConnectedMeansAnswered
  BY DEF IInv
<1> QED BY <1>1, ClientInvariant, PTL

\* The challenge a client answers is that of the server it talks to
\* (netcode.c:2686-2698).
THEOREM ChallengeIsCurrent == Spec => []ChallengeOfCurrentServer
<1>1. IInv => ChallengeOfCurrentServer
  BY DEF IInv
<1> QED BY <1>1, ClientInvariant, PTL

\* No pending disconnect survives the update that received it
\* (netcode.c:2983-3045).
THEOREM NoPendingDisconnect == Spec => []DisconnectNeverLeftOver
<1>1. IInv => DisconnectNeverLeftOver
  BY DEF IInv
<1> QED BY <1>1, ClientInvariant, PTL

\* A client outside a connection has nothing left of one (netcode.c:2603-2630).
THEOREM EndedIsClean == Spec => []EndedMeansClean
<1>1. IInv => EndedMeansClean
  BY DEF IInv
<1> QED BY <1>1, ClientInvariant, PTL

\* No server is asked for longer than the token lives, whatever packets put off
\* the time-out (netcode.c:2983-2993, 2591).
THEOREM LifetimeRespected == Spec => []LifetimeBoundsConnecting
<1>1. Init => LifetimeInv
  BY DEF Init, LifetimeInv, LoopbackConnected, LifetimeBoundsConnecting, Connecting,
         DISCONNECTED, SENDING_CONNECTION_REQUEST, SENDING_CONNECTION_RESPONSE
<1>2. IInv /\ LifetimeInv /\ [Next]_vars => LifetimeInv'
  BY NextLifetime
<1>3. LifetimeInv => LifetimeBoundsConnecting
  BY DEF LifetimeInv
<1> QED BY <1>1, <1>2, <1>3, ClientInvariant, PTL DEF Spec

\* After every update a client that goes on waiting for its server, or is
\* connected to it, has heard of it within the token's time-out, whichever of
\* the decisions at the end of update came first (netcode.c:2983-3045).
THEOREM SilenceEnds == Spec => []SilenceBounded
<1>1. Init => SilenceBounded
  BY DEF Init, SilenceBounded, DISCONNECTED
<1>2. IInv /\ IInv' /\ SilenceBounded /\ [Next]_vars => SilenceBounded'
  BY NextSilence
<1> QED BY <1>1, <1>2, ClientInvariant, PTL DEF Spec

-----------------------------------------------------------------------------
(* The replay protection each end of a connection holds, for every ring    *)
(* size and every width of the sequence numbers.                           *)

\* The slot of a sequence number is a slot of the ring.
LEMMA SlotInRange ==
    ASSUME NEW s \in Nat
    PROVE  s % BufferSize \in Slots
BY ReplayAssumption DEF Slots

\* Two numbers less than BufferSize apart that share a slot are equal.
LEMMA SlotUnique ==
    ASSUME NEW a \in Nat, NEW b \in Nat,
           a % BufferSize = b % BufferSize,
           a <= b, b < a + BufferSize
    PROVE  a = b
<1> DEFINE N == BufferSize
           p == a \div N
           q == b \div N
<1>1. /\ N \in Nat \ {0} /\ p \in Int /\ q \in Int
  BY ReplayAssumption
<1>2. a = N * p + (a % N) /\ b = N * q + (b % N)
  BY ReplayAssumption, Z3
<1>3. b - a = N * (q - p)
  BY <1>1, <1>2, Z3
<1>4. N * (q - p) < N /\ 0 <= N * (q - p)
  BY <1>1, <1>3, Z3
<1>5. q - p < 1
  <2> SUFFICES ASSUME q - p >= 1 PROVE FALSE
    BY <1>1
  <2>1. N * (q - p) >= N * 1
    BY <1>1, Z3
  <2> QED BY <2>1, <1>1, <1>4
<1>6. q - p >= 0
  <2> SUFFICES ASSUME q - p <= -1 PROVE FALSE
    BY <1>1
  <2>1. N * (q - p) <= -N
    BY <1>1, Z3
  <2> QED BY <2>1, <1>1, <1>4
<1>7. q - p = 0
  BY <1>5, <1>6, <1>1
<1> QED BY <1>7, <1>3, <1>1

-----------------------------------------------------------------------------
(* The inductive invariant.                                                *)

\* Empty, the all-ones word, is no low sequence number.
LEMMA EmptyIsHigh == Empty \in Nat /\ Empty >= HighBit /\ Empty \notin LowSequences
BY ReplayAssumption DEF Empty, LowSequences

\* The initial state is in the invariant.
LEMMA ReplayInitInv == ReplayInit => ReplayInv
BY ReplayAssumption, EmptyIsHigh
   DEF ReplayInit, ReplayInv, ReplayTypeOK, AtMostOnce, HandledRecorded, RingSound, LowSequences,
       Sequences, Answers

\* A reset restores the initial state.
LEMMA ResetInv == ReplayInv /\ Reset => ReplayInv'
BY ReplayAssumption, EmptyIsHigh
   DEF Reset, ReplayInv, ReplayTypeOK, AtMostOnce, HandledRecorded, RingSound, LowSequences

\* A received packet keeps the invariant: the test and the record together.
LEMMA ReceiveInv ==
    ASSUME ReplayInv, NEW s \in Sequences, NEW authentic \in BOOLEAN,
           Receive(s, authentic)
    PROVE  ReplayInv'
<1> USE ReplayAssumption, EmptyIsHigh DEF LowSequences, Sequences
<1>t. ReplayTypeOK /\ AtMostOnce /\ HandledRecorded /\ RingSound
  BY DEF ReplayInv
<1>r. Record(s)
  BY DEF Receive
<1>h. handled' = IF ~AlreadyReceived(s) /\ authentic /\ s < HighBit
                 THEN [handled EXCEPT ![s] = @ + 1] ELSE handled
  BY DEF Receive
<1>a. answer' \in Answers
  BY DEF Receive, AlreadyReceived, TooOld, SlotTaken, Answers
<1>1. CASE s >= HighBit \/ TooOld(s)
  <2>1. UNCHANGED <<most_recent_sequence, received_packet, handled>>
    BY <1>1, <1>r, <1>h DEF Record, AlreadyReceived
  <2> QED
    BY <2>1, <1>a, <1>t DEF ReplayInv, ReplayTypeOK, AtMostOnce, HandledRecorded, RingSound
<1>2. CASE s < HighBit /\ ~TooOld(s)
  <2>0. /\ most_recent_sequence' =
              IF s > most_recent_sequence THEN s ELSE most_recent_sequence
        /\ received_packet' =
              IF SlotTaken(s) THEN received_packet
              ELSE [received_packet EXCEPT ![s % BufferSize] = s]
    BY <1>2, <1>r DEF Record
  <2>s. s \in LowSequences /\ s \in Nat /\ s % BufferSize \in Slots
    BY <1>2, SlotInRange
  <2>1. ReplayTypeOK'
    BY <1>t, <1>a, <1>h, <2>0, <2>s DEF ReplayTypeOK
  <2>2. RingSound'
    <3> SUFFICES ASSUME NEW i \in Slots, received_packet'[i] # Empty
                 PROVE  /\ received_packet'[i] % BufferSize = i
                        /\ received_packet'[i] <= most_recent_sequence'
      BY DEF RingSound
    <3>1. CASE received_packet'[i] = received_packet[i]
      BY <3>1, <1>t, <2>0, <2>s DEF RingSound, ReplayTypeOK
    <3>2. CASE i = s % BufferSize /\ received_packet'[i] = s
      BY <3>2, <1>t, <2>0, <2>s DEF ReplayTypeOK
    <3> QED BY <3>1, <3>2, <2>0, <2>s, <1>t DEF ReplayTypeOK
  <2>3. handled[s] > 0 => SlotTaken(s)
    BY <1>t, <2>s DEF HandledRecorded, SlotTaken
  <2>4. AtMostOnce'
    BY <1>t, <1>h, <2>3, <2>s DEF AtMostOnce, AlreadyReceived, ReplayTypeOK
  <2>5. HandledRecorded'
    <3> SUFFICES ASSUME NEW x \in LowSequences, handled'[x] > 0
                 PROVE  /\ x <= most_recent_sequence'
                        /\ received_packet'[x % BufferSize] # Empty
                        /\ received_packet'[x % BufferSize] >= x
      BY DEF HandledRecorded
    <3>s. x \in Nat /\ x % BufferSize \in Slots
      BY SlotInRange
    <3>1. CASE x = s
      <4>1. CASE SlotTaken(s)
        BY <4>1, <3>1, <2>0, <2>s, <1>t DEF SlotTaken, ReplayTypeOK
      <4>2. CASE ~SlotTaken(s)
        BY <4>2, <3>1, <2>0, <2>s, <1>t DEF ReplayTypeOK
      <4> QED BY <4>1, <4>2
    <3>2. CASE x # s
      <4>1. handled[x] > 0
        BY <3>2, <1>h, <1>t, <2>s DEF ReplayTypeOK
      <4>2. /\ x <= most_recent_sequence
            /\ received_packet[x % BufferSize] # Empty
            /\ received_packet[x % BufferSize] >= x
        BY <4>1, <1>t DEF HandledRecorded
      <4>3. CASE received_packet' = received_packet
        BY <4>2, <4>3, <2>0, <2>s, <1>t DEF ReplayTypeOK
      <4>4. CASE ~SlotTaken(s)
                 /\ received_packet' = [received_packet EXCEPT ![s % BufferSize] = s]
        <5>1. CASE x % BufferSize = s % BufferSize
          <6>1. received_packet[s % BufferSize] < s
            BY <5>1, <4>2, <4>4, <2>s, <1>t DEF SlotTaken, ReplayTypeOK
          <6>2. received_packet'[x % BufferSize] = s
            BY <5>1, <4>4, <2>s, <1>t DEF ReplayTypeOK
          <6>3. received_packet[s % BufferSize] \in Nat
            BY <2>s, <1>t DEF ReplayTypeOK
          <6>4. x < s
            BY <6>1, <6>3, <5>1, <4>2, <2>s, <3>s
          <6>5. s <= most_recent_sequence'
            BY <2>0, <2>s, <1>t DEF ReplayTypeOK
          <6>6. most_recent_sequence' \in Nat
            BY <2>1 DEF ReplayTypeOK
          <6>7. x <= most_recent_sequence'
            BY <6>4, <6>5, <6>6, <2>s, <3>s
          <6>8. s # Empty
            BY <2>s
          <6> QED BY <6>2, <6>4, <6>7, <6>8, <2>s, <3>s
        <5>2. CASE x % BufferSize # s % BufferSize
          BY <5>2, <4>2, <4>4, <2>0, <2>s, <3>s, <1>t DEF ReplayTypeOK
        <5> QED BY <5>1, <5>2
      <4> QED BY <4>3, <4>4, <2>0
    <3> QED BY <3>1, <3>2
  <2> QED BY <2>1, <2>2, <2>4, <2>5 DEF ReplayInv
<1> QED BY <1>1, <1>2 DEF Sequences

\* Every reachable state satisfies the inductive invariant.
THEOREM InvariantHolds == ReplaySpec => []ReplayInv
<1>1. ReplayInit => ReplayInv
  BY ReplayInitInv
<1>2. ReplayInv /\ [ReplayNext]_replayVars => ReplayInv'
  <2> SUFFICES ASSUME ReplayInv, [ReplayNext]_replayVars PROVE ReplayInv'
    OBVIOUS
  <2>1. CASE Reset
    BY <2>1, ResetInv
  <2>2. CASE ReceiveAny
    BY <2>2, ReceiveInv DEF ReceiveAny
  <2>3. CASE UNCHANGED replayVars
    BY <2>3 DEF replayVars, ReplayInv, ReplayTypeOK, AtMostOnce, HandledRecorded, RingSound
  <2> QED BY <2>1, <2>2, <2>3 DEF ReplayNext
<1> QED BY <1>1, <1>2, PTL DEF ReplaySpec

\* No packet is handled twice between two resets, for every ring size.
THEOREM NoPacketHandledTwice == ReplaySpec => []AtMostOnce
<1>1. ReplayInv => AtMostOnce
  BY DEF ReplayInv
<1> QED BY <1>1, InvariantHolds, PTL

-----------------------------------------------------------------------------
(* Refinement of the exact window.                                         *)

\* The facts about a low sequence number that is not too old.
LEMMA RecentFacts ==
    ASSUME ReplayInv, NEW s \in LowSequences, ~TooOld(s)
    PROVE  /\ ReplayTypeOK /\ RingSound
           /\ s \in Nat /\ most_recent_sequence \in Nat
           /\ s % BufferSize \in Slots
           /\ s + BufferSize > most_recent_sequence
<1>1. ReplayTypeOK /\ RingSound
  BY DEF ReplayInv
<1>2. s \in Nat /\ most_recent_sequence \in Nat
  BY <1>1, ReplayAssumption DEF ReplayTypeOK, LowSequences
<1>3. s % BufferSize \in Slots
  BY <1>2, SlotInRange
<1>4. s + BufferSize > most_recent_sequence
  BY <1>2, ReplayAssumption DEF TooOld
<1> QED BY <1>1, <1>2, <1>3, <1>4

\* Within the window the ring's answer is exact: the slot is taken by the
\* number itself or not at all.
LEMMA TakenMeansSeen ==
    ASSUME ReplayInv, NEW s \in LowSequences, ~TooOld(s)
    PROVE  SlotTaken(s) <=> s \in SeenInWindow
<1> USE ReplayAssumption, EmptyIsHigh DEF LowSequences
<1> DEFINE stored == received_packet[s % BufferSize]
<1>1. /\ ReplayTypeOK /\ RingSound
      /\ s \in Nat /\ most_recent_sequence \in Nat
      /\ s % BufferSize \in Slots
      /\ s + BufferSize > most_recent_sequence
  BY RecentFacts
<1>2. s \in SeenInWindow <=> stored = s
  BY <1>1 DEF SeenInWindow
<1>3. stored = s => SlotTaken(s)
  BY <1>1 DEF SlotTaken
<1>4. ASSUME SlotTaken(s) PROVE stored = s
  <2>1. stored \in LowSequences /\ stored \in Nat /\ stored >= s
    BY <1>1, <1>4 DEF SlotTaken, ReplayTypeOK
  <2>2. stored % BufferSize = s % BufferSize /\ stored <= most_recent_sequence
    BY <1>1, <2>1 DEF RingSound
  <2>3. stored < s + BufferSize
    BY <2>1, <2>2, <1>1
  <2> QED BY <2>1, <2>2, <2>3, <1>1, SlotUnique
<1> QED BY <1>2, <1>3, <1>4

\* Storing s and raising the most recent number changes the window as the
\* abstract specification says.
LEMMA StoreSlidesWindow ==
    ASSUME ReplayInv, NEW s \in LowSequences, ~TooOld(s), ~SlotTaken(s),
           Record(s)
    PROVE  /\ most_recent_sequence' = Window!Larger(s, most_recent_sequence)
           /\ SeenInWindow' = {x \in SeenInWindow \cup {s} :
                                 Window!InWindow(x, most_recent_sequence')}
<1> USE ReplayAssumption, EmptyIsHigh DEF LowSequences
<1>1. /\ ReplayTypeOK /\ s \in Nat /\ most_recent_sequence \in Nat
      /\ s % BufferSize \in Slots
      /\ s + BufferSize > most_recent_sequence
  BY RecentFacts
<1>2. /\ most_recent_sequence' =
            IF s > most_recent_sequence THEN s ELSE most_recent_sequence
      /\ received_packet' = [received_packet EXCEPT ![s % BufferSize] = s]
  BY <1>1 DEF Record
<1>3. /\ most_recent_sequence' \in Nat
      /\ s + BufferSize > most_recent_sequence'
      /\ s <= most_recent_sequence'
      /\ most_recent_sequence <= most_recent_sequence'
  BY <1>1, <1>2
<1>4. ASSUME NEW x \in LowSequences, x + BufferSize > most_recent_sequence'
      PROVE  received_packet'[x % BufferSize] = x
             <=> (x = s \/ received_packet[x % BufferSize] = x)
  <2>1. x \in Nat /\ x % BufferSize \in Slots
    BY SlotInRange
  <2>2. CASE x = s
    BY <2>2, <1>1, <1>2 DEF ReplayTypeOK
  <2>3. CASE x # s /\ x % BufferSize # s % BufferSize
    BY <2>1, <2>3, <1>1, <1>2 DEF ReplayTypeOK
  <2>4. CASE x # s /\ x % BufferSize = s % BufferSize
    <3>1. received_packet'[x % BufferSize] = s
      BY <2>1, <2>4, <1>1, <1>2 DEF ReplayTypeOK
    <3>2. ASSUME received_packet[x % BufferSize] = x PROVE FALSE
      <4>1. x <= most_recent_sequence
        BY <3>2, <2>1 DEF ReplayInv, RingSound
      <4>2. received_packet[s % BufferSize] < s
        BY <3>2, <2>1, <2>4, <1>1 DEF SlotTaken
      <4>3. x < s
        BY <4>2, <3>2, <2>4, <2>1, <1>1
      <4>4. s < x + BufferSize
        BY <1>3, <1>4, <2>1, <1>1
      <4>5. x <= s /\ s \in Nat /\ x % BufferSize = s % BufferSize
        BY <4>3, <2>1, <2>4, <1>1
      <4>6. x = s
        BY <4>4, <4>5, <2>1, SlotUnique, Zenon
      <4> QED BY <4>6, <2>4
    <3> QED BY <3>1, <3>2, <2>4
  <2> QED BY <2>2, <2>3, <2>4
<1>5. ASSUME NEW x
      PROVE  x \in SeenInWindow'
             <=> x \in SeenInWindow \cup {s}
                 /\ Window!InWindow(x, most_recent_sequence')
  <2>1. CASE x \notin LowSequences
    BY <2>1 DEF SeenInWindow
  <2>2. CASE x \in LowSequences
    BY <2>2, <1>1, <1>3, <1>4 DEF SeenInWindow, Window!InWindow
  <2> QED BY <2>1, <2>2
<1>6. most_recent_sequence' = Window!Larger(s, most_recent_sequence)
  BY <1>2 DEF Window!Larger
<1> QED BY <1>5, <1>6

\* The ring of netcode.c implements the exact window: what it rejects is old
\* or was seen, and what it accepts is new, for every ring size.
THEOREM RingImplementsWindow == ReplaySpec => ImplementsWindow
<1> USE ReplayAssumption, EmptyIsHigh
<1>1. ReplayInit => Window!WindowInit
  <2> SUFFICES ASSUME ReplayInit PROVE Window!WindowInit
    OBVIOUS
  <2>1. SeenInWindow = {}
    <3> SUFFICES ASSUME NEW x \in LowSequences
                 PROVE  received_packet[x % BufferSize] # x
      BY DEF SeenInWindow
    <3>1. x \in Nat /\ x % BufferSize \in Slots
      BY SlotInRange DEF LowSequences
    <3> QED BY <3>1 DEF ReplayInit, LowSequences
  <2> QED BY <2>1 DEF ReplayInit, Window!WindowInit, LowSequences, Window!LowSequences
<1>2. ReplayInv /\ [ReplayNext]_replayVars => [Window!WindowNext]_(Window!windowVars)
  <2> SUFFICES ASSUME ReplayInv, [ReplayNext]_replayVars
               PROVE  Window!WindowNext \/ UNCHANGED Window!windowVars
    OBVIOUS
  <2>1. CASE Reset
    <3>1. SeenInWindow' = {}
      <4> SUFFICES ASSUME NEW x \in LowSequences
                   PROVE  received_packet'[x % BufferSize] # x
        BY DEF SeenInWindow
      <4>1. x \in Nat /\ x % BufferSize \in Slots
        BY SlotInRange DEF LowSequences
      <4> QED BY <2>1, <4>1 DEF Reset, LowSequences
    <3>2. Window!WindowReset
      BY <2>1, <3>1 DEF Reset, Window!WindowReset, LowSequences, Window!LowSequences
    <3> QED BY <3>2 DEF Window!WindowNext
  <2>2. CASE ReceiveAny
    <3>0. PICK s \in Sequences, authentic \in BOOLEAN : Receive(s, authentic)
      BY <2>2 DEF ReceiveAny
    <3>a. answer' = [sequence |-> s, refused |-> AlreadyReceived(s)]
      BY <3>0 DEF Receive
    <3>1. CASE s >= HighBit
      <4>1. UNCHANGED <<most_recent_sequence, received_packet, handled>>
        BY <3>0, <3>1 DEF Receive, Record, AlreadyReceived, Sequences
      <4>2. AlreadyReceived(s) = FALSE
        BY <3>1 DEF AlreadyReceived, Sequences
      <4>3. Window!WindowExempt(s)
        BY <4>1, <4>2, <3>a, <3>1 DEF Window!WindowExempt, SeenInWindow
      <4> QED BY <4>3 DEF Window!WindowNext, Sequences
    <3>4. CASE s < HighBit /\ TooOld(s)
      <4>1. UNCHANGED <<most_recent_sequence, received_packet, handled>>
        BY <3>0, <3>4 DEF Receive, Record, AlreadyReceived, Sequences
      <4>2. AlreadyReceived(s) = TRUE
        BY <3>4 DEF AlreadyReceived
      <4>3. ~Window!InWindow(s, most_recent_sequence) /\ s \in Window!LowSequences
        BY <3>4 DEF TooOld, Window!InWindow, Window!LowSequences, Sequences,
                    LowSequences, ReplayInv, ReplayTypeOK
      <4>4. Window!WindowRefuse(s)
        BY <4>1, <4>2, <4>3, <3>a DEF Window!WindowRefuse, SeenInWindow
      <4> QED BY <4>4 DEF Window!WindowNext, Sequences
    <3>2. CASE s < HighBit /\ ~TooOld(s) /\ SlotTaken(s)
      <4>1. s \in LowSequences
        BY <3>2 DEF Sequences, LowSequences
      <4>2. received_packet' = received_packet /\ handled' = handled
        BY <3>0, <3>2 DEF Receive, Record, AlreadyReceived, Sequences
      <4>3. s \in SeenInWindow
        BY <4>1, <3>2, TakenMeansSeen
      <4>4. s <= most_recent_sequence
        BY <4>1, <4>3, SlotInRange DEF SeenInWindow, ReplayInv, RingSound, LowSequences
      <4>5. most_recent_sequence' = most_recent_sequence
        BY <3>0, <3>2, <4>1, <4>4 DEF Receive, Record, Sequences, LowSequences, ReplayInv, ReplayTypeOK
      <4>6. AlreadyReceived(s) = TRUE
        BY <3>2 DEF AlreadyReceived
      <4>7. Window!WindowRefuse(s)
        BY <4>1, <4>2, <4>3, <4>5, <4>6, <3>a
           DEF Window!WindowRefuse, SeenInWindow, Window!LowSequences, LowSequences
      <4> QED BY <4>7 DEF Window!WindowNext, Sequences
    <3>3. CASE s < HighBit /\ ~TooOld(s) /\ ~SlotTaken(s)
      <4>1. s \in LowSequences /\ s \in Window!LowSequences
        BY <3>3 DEF Sequences, LowSequences, Window!LowSequences
      <4>2. Record(s)
        BY <3>0 DEF Receive
      <4>3. s \notin SeenInWindow
        BY <4>1, <3>3, TakenMeansSeen
      <4>4. Window!InWindow(s, most_recent_sequence)
        BY <3>3, <4>1 DEF TooOld, Window!InWindow, LowSequences, ReplayInv, ReplayTypeOK
      <4>5. handled' = IF authentic THEN [handled EXCEPT ![s] = @ + 1] ELSE handled
        BY <3>0, <3>3 DEF Receive, AlreadyReceived
      <4>6. Window!WindowFresh(s, authentic)
        <5>1. AlreadyReceived(s) = FALSE
          BY <3>3 DEF AlreadyReceived
        <5> QED
          BY <5>1, <4>1, <4>2, <4>3, <4>4, <4>5, <3>3, <3>a, StoreSlidesWindow
             DEF Window!WindowFresh
      <4> QED BY <4>1, <4>6 DEF Window!WindowNext
    <3> QED BY <3>1, <3>2, <3>3, <3>4 DEF Sequences
  <2>3. CASE UNCHANGED replayVars
    BY <2>3 DEF replayVars, Window!windowVars, SeenInWindow
  <2> QED BY <2>1, <2>2, <2>3 DEF ReplayNext
<1> QED BY <1>1, <1>2, InvariantHolds, PTL DEF ReplaySpec, ImplementsWindow, Window!WindowSpec
=============================================================================

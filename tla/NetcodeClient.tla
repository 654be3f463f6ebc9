---------------------------- MODULE NetcodeClient ----------------------------
(***************************************************************************)
(* netcode_client_t (netcode.c:2395-3218): the client's state machine, its *)
(* walk over the token's server addresses, time-outs, the deferred         *)
(* disconnect, and loopback.                                               *)
(*                                                                         *)
(* netcode_client_update is UpdateBegin (the new time), any number of      *)
(* packets, and UpdateEnd (send, then decide).  The application calls the  *)
(* rest of the API between updates.                                        *)
(*                                                                         *)
(* The servers are an environment that answers what the client sent: a     *)
(* packet may arrive if the client's own packets could have caused it, in  *)
(* any order, any number of times, any time later.  All servers of a token *)
(* encrypt with the same key, so a packet of an earlier server decrypts.   *)
(* A packet the replay test stops is one that did not arrive.              *)
(***************************************************************************)
EXTENDS Integers, Sequences

CONSTANTS
    Servers, NoServer,
    Tokens, NoToken,
    InvalidTokens,      \* tokens that netcode_read_connect_token rejects
    TokenServers,       \* token -> sequence of server addresses
    TokenTimeout,       \* token -> timeout_seconds, -1 for none
    TokenLifetime,      \* token -> expire - create timestamp, in ticks
    QueueSize,          \* NETCODE_PACKET_QUEUE_SIZE
    SendInterval,       \* 1.0 / NETCODE_PACKET_SEND_RATE, in ticks
    TicksPerSecond,
    MaxGap,             \* bound: ticks between two updates
    MaxTime,            \* bound: the clock stops here, updates go on
    Horizon             \* bound: no packet and no connect after this time

ASSUME ClientAssumption ==
    /\ NoServer \notin Servers /\ NoToken \notin Tokens
    /\ InvalidTokens \subseteq Tokens
    /\ \A t \in Tokens : /\ TokenServers[t] \in Seq(Servers)
                         /\ Len(TokenServers[t]) > 0
                         /\ TokenTimeout[t] \in Int /\ TokenLifetime[t] \in Nat \ {0}
    /\ TicksPerSecond \in Nat \ {0}
    /\ {QueueSize, SendInterval, MaxGap, MaxTime, Horizon} \subseteq Nat

\* NETCODE_CLIENT_STATE_...
CONNECT_TOKEN_EXPIRED == -6
INVALID_CONNECT_TOKEN == -5
CONNECTION_TIMED_OUT == -4
CONNECTION_RESPONSE_TIMED_OUT == -3
CONNECTION_REQUEST_TIMED_OUT == -2
CONNECTION_DENIED == -1
DISCONNECTED == 0
SENDING_CONNECTION_REQUEST == 1
SENDING_CONNECTION_RESPONSE == 2
CONNECTED == 3

VARIABLES
    client,         \* the fields of netcode_client_t
    phase,          \* "idle", or "receiving" inside an update
    sent,           \* the requests and responses sent, to whom, for which token
    used            \* the tokens given to netcode_client_connect

vars == <<client, phase, sent, used>>

\* netcode_client_create
Init ==
    /\ client = [state |-> DISCONNECTED, time |-> 0, connect_start_time |-> 0,
                 last_packet_send_time |-> -1000 * TicksPerSecond,
                 last_packet_receive_time |-> -1000 * TicksPerSecond,
                 should_disconnect |-> FALSE,
                 should_disconnect_state |-> DISCONNECTED,
                 server_address_index |-> 1, token |-> NoToken,
                 challenge |-> NoServer, loopback |-> FALSE, queue |-> <<>>]
    /\ phase = "idle"
    /\ sent = {}
    /\ used = {}

ServerOf(c) ==
    IF c.token = NoToken THEN NoServer
    ELSE TokenServers[c.token][c.server_address_index]

-----------------------------------------------------------------------------
(* The helpers every path uses, as functions of the client's fields.       *)

\* Mutant of ResetBeforeNextConnect: should_disconnect is not cleared.
ResetBeforeNextConnectKeepingDisconnect(c) ==
    [c EXCEPT !.connect_start_time = c.time,
              !.last_packet_send_time = c.time - TicksPerSecond,
              !.last_packet_receive_time = c.time,
              !.challenge = NoServer]

\* Mutant of ResetBeforeNextConnect: the challenge is kept.
ResetBeforeNextConnectKeepingChallenge(c) ==
    [c EXCEPT !.connect_start_time = c.time,
              !.last_packet_send_time = c.time - TicksPerSecond,
              !.last_packet_receive_time = c.time,
              !.should_disconnect = FALSE,
              !.should_disconnect_state = DISCONNECTED]

\* netcode_client_reset_before_next_connect
ResetBeforeNextConnect(c) ==
    [c EXCEPT !.connect_start_time = c.time,
              !.last_packet_send_time = c.time - TicksPerSecond,
              !.last_packet_receive_time = c.time,
              !.should_disconnect = FALSE,
              !.should_disconnect_state = DISCONNECTED,
              !.challenge = NoServer]

\* Mutant of ResetConnectionData: received packets are kept.
ResetConnectionDataKeepingQueue(c, state) ==
    ResetBeforeNextConnect(
        [c EXCEPT !.loopback = FALSE, !.server_address_index = 1,
                  !.token = NoToken, !.state = state])

\* netcode_client_reset_connection_data
ResetConnectionData(c, state) ==
    ResetBeforeNextConnect(
        [c EXCEPT !.loopback = FALSE, !.server_address_index = 1,
                  !.token = NoToken, !.state = state, !.queue = <<>>])

\* netcode_client_disconnect_internal
DisconnectInternal(c, state) ==
    IF c.state <= DISCONNECTED \/ c.state = state THEN c
    ELSE ResetConnectionData(c, state)

\* Mutant of HasNextServer: off by one.
HasNextServerOffByOne(c) == c.server_address_index <= Len(TokenServers[c.token])

\* netcode_client_connect_to_next_server
HasNextServer(c) == c.server_address_index < Len(TokenServers[c.token])

ConnectToNextServer(c) ==
    [ResetBeforeNextConnect([c EXCEPT !.server_address_index = @ + 1])
        EXCEPT !.state = SENDING_CONNECTION_REQUEST]

NextServerOr(c, state) ==
    IF HasNextServer(c) THEN ConnectToNextServer(c) ELSE DisconnectInternal(c, state)

\* netcode_packet_queue_push
Push(queue, from) == IF Len(queue) < QueueSize THEN Append(queue, from) ELSE queue

-----------------------------------------------------------------------------
(* netcode_client_update                                                   *)

UpdateBegin ==
    /\ phase = "idle"
    /\ \E t \in client.time .. client.time + MaxGap :
          t <= MaxTime /\ client' = [client EXCEPT !.time = t]
    /\ phase' = IF client.loopback THEN "idle" ELSE "receiving"
    /\ UNCHANGED <<sent, used>>

\* netcode_client_process_packet.  A packet from server s, encrypted with the
\* key of the client's present token, which s has because the client sent it
\* a request, or a response, with that token.
Arrives(s, cause) ==
    /\ phase = "receiving"
    /\ client.time <= Horizon
    /\ [server |-> s, token |-> client.token, kind |-> cause] \in sent

\* Mutant of FromServer: the sender is not compared.
FromServerAny(s) == TRUE

FromServer(s) == s = ServerOf(client)

Connecting(c) ==
    c.state \in {SENDING_CONNECTION_REQUEST, SENDING_CONNECTION_RESPONSE}

DeniedPacket(s) ==
    /\ Arrives(s, "request") \/ Arrives(s, "response")
    /\ Connecting(client) /\ FromServer(s)
    /\ client' = [client EXCEPT !.should_disconnect = TRUE,
                                !.should_disconnect_state = CONNECTION_DENIED,
                                !.last_packet_receive_time = client.time]
    /\ UNCHANGED <<phase, sent, used>>

ChallengePacket(s) ==
    /\ Arrives(s, "request")
    /\ client.state = SENDING_CONNECTION_REQUEST /\ FromServer(s)
    /\ client' = [client EXCEPT !.state = SENDING_CONNECTION_RESPONSE,
                                !.challenge = s,
                                !.last_packet_receive_time = client.time]
    /\ UNCHANGED <<phase, sent, used>>

KeepAlivePacket(s) ==
    /\ Arrives(s, "response")
    /\ FromServer(s)
    /\ client.state \in {SENDING_CONNECTION_RESPONSE, CONNECTED}
    /\ client' = [client EXCEPT !.state = CONNECTED,
                                !.last_packet_receive_time = client.time]
    /\ UNCHANGED <<phase, sent, used>>

PayloadPacket(s) ==
    /\ Arrives(s, "response")
    /\ client.state = CONNECTED /\ FromServer(s)
    /\ client' = [client EXCEPT !.queue = Push(@, s),
                                !.last_packet_receive_time = client.time]
    /\ UNCHANGED <<phase, sent, used>>

DisconnectPacket(s) ==
    /\ Arrives(s, "response")
    /\ client.state = CONNECTED /\ FromServer(s)
    /\ client' = [client EXCEPT !.should_disconnect = TRUE,
                                !.should_disconnect_state = DISCONNECTED,
                                !.last_packet_receive_time = client.time]
    /\ UNCHANGED <<phase, sent, used>>

\* netcode_client_send_packets: what is sent in this state, if anything is due.
SendDue(c) ==
    /\ c.state >= SENDING_CONNECTION_REQUEST
    /\ c.last_packet_send_time + SendInterval < c.time

Outgoing(c) ==
    {p \in [server : {ServerOf(c)}, token : {c.token}, kind : {"request", "response"}] :
        /\ SendDue(c)
        /\ c.state = IF p.kind = "request" THEN SENDING_CONNECTION_REQUEST
                                           ELSE SENDING_CONNECTION_RESPONSE}

AfterSend(c) ==
    IF SendDue(c) THEN [c EXCEPT !.last_packet_send_time = c.time] ELSE c

\* Mutant of TokenExpired: counted from the last packet received.
TokenExpiredInSilence(c) ==
    Connecting(c) /\ c.last_packet_receive_time + TokenLifetime[c.token] <= c.time

\* The decisions at the end of netcode_client_update, in their order.
TokenExpired(c) ==
    Connecting(c) /\ c.connect_start_time + TokenLifetime[c.token] <= c.time

\* Mutant of TimedOut: only a connected client can time out.
TimedOutWhenConnected(c) ==
    /\ c.state = CONNECTED
    /\ TokenTimeout[c.token] > 0
    /\ c.last_packet_receive_time + TokenTimeout[c.token] * TicksPerSecond < c.time

TimedOut(c) ==
    /\ c.state >= SENDING_CONNECTION_REQUEST
    /\ TokenTimeout[c.token] > 0
    /\ c.last_packet_receive_time + TokenTimeout[c.token] * TicksPerSecond < c.time

TimeoutState(c) ==
    IF c.state = SENDING_CONNECTION_REQUEST THEN CONNECTION_REQUEST_TIMED_OUT
                                            ELSE CONNECTION_RESPONSE_TIMED_OUT

Decide(c) ==
    IF TokenExpired(c) THEN DisconnectInternal(c, CONNECT_TOKEN_EXPIRED)
    ELSE IF c.should_disconnect THEN NextServerOr(c, c.should_disconnect_state)
    ELSE IF ~TimedOut(c) THEN c
    ELSE IF Connecting(c) THEN NextServerOr(c, TimeoutState(c))
    ELSE DisconnectInternal(c, CONNECTION_TIMED_OUT)

UpdateEnd ==
    /\ phase = "receiving"
    /\ phase' = "idle"
    /\ sent' = sent \cup Outgoing(client)
    /\ client' = Decide(AfterSend(client))
    /\ UNCHANGED used

-----------------------------------------------------------------------------
(* The rest of the API, called between updates.                            *)

\* netcode_client_connect: disconnect first, then try the token.
\* What netcode_read_connect_token has written of an invalid token is read by
\* nobody: the client stays out of action until it is given a valid one.
Connect(t) ==
    LET c == DisconnectInternal(client, DISCONNECTED)
    IN  /\ phase = "idle" /\ ~client.loopback
        /\ client.time <= Horizon
        /\ t \notin used
        /\ client' =
             IF t \in InvalidTokens THEN [c EXCEPT !.state = INVALID_CONNECT_TOKEN]
             ELSE [ResetBeforeNextConnect([c EXCEPT !.token = t, !.server_address_index = 1])
                     EXCEPT !.state = SENDING_CONNECTION_REQUEST]
        /\ used' = used \cup {t}
        /\ UNCHANGED <<phase, sent>>

\* netcode_client_disconnect
Disconnect ==
    /\ phase = "idle" /\ ~client.loopback
    /\ client' = DisconnectInternal(client, DISCONNECTED)
    /\ UNCHANGED <<phase, sent, used>>

\* netcode_client_send_packet; by loopback only the sequence number changes.
SendPacket ==
    /\ phase = "idle" /\ client.state = CONNECTED /\ ~client.loopback
    /\ client' = [client EXCEPT !.last_packet_send_time = client.time]
    /\ UNCHANGED <<phase, sent, used>>

\* netcode_client_receive_packet
ReceivePacket ==
    /\ phase = "idle" /\ client.queue # <<>>
    /\ client' = [client EXCEPT !.queue = Tail(@)]
    /\ UNCHANGED <<phase, sent, used>>

\* netcode_client_connect_loopback
ConnectLoopback ==
    /\ phase = "idle" /\ client.state <= DISCONNECTED
    /\ client.time <= Horizon
    /\ client' = [client EXCEPT !.state = CONNECTED, !.loopback = TRUE]
    /\ UNCHANGED <<phase, sent, used>>

\* netcode_client_disconnect_loopback
DisconnectLoopback ==
    /\ phase = "idle" /\ client.loopback
    /\ client' = ResetConnectionData(client, DISCONNECTED)
    /\ UNCHANGED <<phase, sent, used>>

\* netcode_client_process_loopback_packet
ProcessLoopbackPacket ==
    /\ phase = "idle" /\ client.loopback
    /\ client' = [client EXCEPT !.queue = Push(@, NoServer)]
    /\ UNCHANGED <<phase, sent, used>>

-----------------------------------------------------------------------------
Packet ==
    \E s \in Servers :
        \/ DeniedPacket(s) \/ ChallengePacket(s) \/ KeepAlivePacket(s)
        \/ PayloadPacket(s) \/ DisconnectPacket(s)

Api ==
    \/ \E t \in Tokens : Connect(t)
    \/ Disconnect \/ SendPacket \/ ReceivePacket
    \/ ConnectLoopback \/ DisconnectLoopback \/ ProcessLoopbackPacket

Next == UpdateBegin \/ Packet \/ UpdateEnd \/ Api

Spec == Init /\ [][Next]_vars

\* The application keeps calling netcode_client_update, and the time it passes
\* keeps advancing (up to the bound); an update ends.
LateUpdate ==
    UpdateBegin /\ (client.time < MaxTime => client'.time > client.time)

FairSpec == Spec /\ SF_vars(LateUpdate) /\ WF_vars(UpdateEnd)

-----------------------------------------------------------------------------
(* Properties.                                                             *)

States == CONNECT_TOKEN_EXPIRED .. CONNECTED

ClientRecord ==
    [state : States, time : Nat, connect_start_time : Nat,
     last_packet_send_time : Int, last_packet_receive_time : Int,
     should_disconnect : BOOLEAN,
     should_disconnect_state : {DISCONNECTED, CONNECTION_DENIED},
     server_address_index : Nat \ {0}, token : Tokens \cup {NoToken},
     challenge : Servers \cup {NoServer}, loopback : BOOLEAN,
     queue : Seq(Servers \cup {NoServer})]

SentRecord == [server : Servers, token : Tokens, kind : {"request", "response"}]

TypeOK ==
    /\ client \in ClientRecord
    /\ client.token # NoToken =>
          client.server_address_index \in DOMAIN TokenServers[client.token]
    /\ phase \in {"idle", "receiving"}
    /\ sent \subseteq SentRecord
    /\ used \subseteq Tokens

\* A connected client answered this server's challenge for this token: no late
\* packet of an earlier server or an earlier connection completes the
\* handshake (netcode.c:2702-2728).
ConnectedMeansAnswered ==
    client.state = CONNECTED /\ ~client.loopback =>
        [server |-> ServerOf(client), token |-> client.token, kind |-> "response"] \in sent

\* The challenge the client answers is the one of the server it is talking to,
\* also after it moved on to the next server (netcode.c:2596-2598, 2686-2698).
ChallengeOfCurrentServer ==
    /\ client.state = SENDING_CONNECTION_RESPONSE => client.challenge = ServerOf(client)
    /\ client.state = SENDING_CONNECTION_REQUEST => client.challenge = NoServer

\* A request to disconnect made by a packet is carried out by the update that
\* received it and never reaches into the next connection (netcode.c:2995).
DisconnectNeverLeftOver == phase = "idle" => ~client.should_disconnect

\* Outside a connection nothing of an earlier one is left: no token, no packet
\* waiting to be received, no pending decision (netcode.c:2603-2630).
EndedMeansClean ==
    client.state <= DISCONNECTED =>
        /\ client.token = NoToken /\ client.challenge = NoServer
        /\ client.queue = <<>> /\ ~client.loopback /\ ~client.should_disconnect

\* What makes these inductive together: outside loopback a client in action
\* has a token, and packets are read only outside loopback.
ConnectionShape ==
    /\ client.state > DISCONNECTED => client.loopback \/ client.token # NoToken
    /\ phase = "receiving" => ~client.loopback

IInv ==
    /\ TypeOK /\ ConnectionShape
    /\ ConnectedMeansAnswered /\ ChallengeOfCurrentServer
    /\ DisconnectNeverLeftOver /\ EndedMeansClean

\* A client goes on asking one server for less than the token's lifetime,
\* whatever packets arrive in between: they put off the time-out, but not the
\* expiry of the token (netcode.c:2983-2993).  Every server tried starts the
\* lifetime again (netcode.c:2591).
LifetimeBoundsConnecting ==
    phase = "idle" /\ Connecting(client) =>
        client.time < client.connect_start_time + TokenLifetime[client.token]

\* Once the network is silent, a client that is neither idle nor in loopback
\* stops waiting: every state it waits in has a time-out (netcode.c:3004-3045).
SilenceEndsConnection ==
    <>[](client.state <= DISCONNECTED \/ client.loopback)
=============================================================================

---------------------------- MODULE NetcodeServer ----------------------------
(***************************************************************************)
(* netcode_server_t (netcode.c:3489-4671): the client slots, the two sides *)
(* of the handshake, time-outs, loopback clients, start and stop, over the *)
(* encryption manager and the history of connect tokens.                   *)
(*                                                                         *)
(* netcode_server_update is UpdateBegin (the new time), any number of      *)
(* packets read and processed one by one, and UpdateEnd (keep alives, then *)
(* time-outs).  The application calls the rest of the API between updates. *)
(*                                                                         *)
(* The network may lose, duplicate, reorder and delay anything: a packet   *)
(* that could ever have been sent may arrive at any time from any address. *)
(* A packet names the token whose key encrypts it; a response carries a    *)
(* challenge, and exists only if that challenge was issued.  Whether the   *)
(* replay test lets a packet through is ReplayProtection's subject: here a *)
(* packet it stops is one that did not arrive.  Sequence counters, packet  *)
(* contents and callbacks are left out.                                    *)
(***************************************************************************)
EXTENDS EncryptionTable, Sequences

CONSTANTS
    Tokens,             \* connect tokens, standing also for their keys
    TokenId,            \* token -> client id
    TokenTimeout,       \* token -> timeout_seconds, -1 for none
    TokenExpire,        \* token -> expire_timestamp, in ticks of the clock
    TokensForServer,    \* tokens that list this server's address
    LoopbackIds,        \* client ids the application connects by loopback
    NoId,
    MaxClients,         \* NETCODE_MAX_CLIENTS
    MaxTokenEntries,    \* NETCODE_MAX_CONNECT_TOKEN_ENTRIES
    QueueSize,          \* NETCODE_PACKET_QUEUE_SIZE
    SendInterval,       \* 1.0 / NETCODE_PACKET_SEND_RATE, in ticks
    StopWithLoopback,   \* may the application stop with a loopback client?
    MaxGap,             \* bound: ticks between two updates
    MaxTime,            \* bound: the clock stops here, updates go on
    ReceiveHorizon,     \* bound: no packet arrives after this time
    MaxStarts           \* bound: calls of netcode_server_start

ASSUME ServerAssumption ==
    /\ NoKey \notin Tokens
    /\ TokenTimeout \in [Tokens -> Int]
    /\ TokenExpire \in [Tokens -> Int]
    /\ NoId \notin {TokenId[t] : t \in Tokens} \cup LoopbackIds
    /\ MaxClients \in Nat \ {0}
    /\ MaxTokenEntries \in Nat \ {0}
    /\ QueueSize \in Nat
    /\ SendInterval \in Nat
    /\ StopWithLoopback \in BOOLEAN
    /\ {MaxGap, MaxTime, ReceiveHorizon, MaxStarts} \subseteq Nat

VARIABLES
    time, phase,        \* phase: "idle", or "receiving" inside an update
    running, max_clients, num_connected_clients,
    client,             \* slot -> the client_* arrays of the server
    connect_token_entries,
    encryption_manager,
    challenge_key,      \* which start generated the challenge key
    challenges          \* the challenges issued: token and challenge key

vars == <<time, phase, running, max_clients, num_connected_clients, client,
          connect_token_entries, encryption_manager, challenge_key, challenges>>

lifecycleVars == <<running, max_clients, challenge_key>>
slotVars == <<num_connected_clients, client>>

Slots == 0 .. MaxClients - 1
Ids == {TokenId[t] : t \in Tokens} \cup LoopbackIds

History == INSTANCE ConnectTokenEntries WITH
    NoMac <- NoKey, NoSource <- NoAddress, Before <- LongAgo

FreeSlot ==
    [connected |-> FALSE, loopback |-> FALSE, confirmed |-> FALSE,
     timeout |-> 0, encryption_index |-> NotFound, client_id |-> NoId,
     address |-> NoAddress, last_send |-> 0, last_receive |-> 0, queue |-> <<>>]

\* netcode_server_create
Init ==
    /\ time = 0 /\ phase = "idle"
    /\ running = FALSE /\ max_clients = 0 /\ num_connected_clients = 0
    /\ client = [i \in Slots |-> FreeSlot]
    /\ connect_token_entries = History!ResetEntries
    /\ encryption_manager = ResetTable
    /\ challenge_key = 0
    /\ challenges = {}

Connected(i) == i < max_clients /\ client[i].connected
Remote(i) == Connected(i) /\ ~client[i].loopback

\* netcode_server_find_client_index_by_address, _by_id, _find_free_client_index
\* (as the sets whose first element they return)
AtAddress(a) == {i \in Slots : Connected(i) /\ client[i].address = a}
WithId(id) == {i \in Slots : Connected(i) /\ client[i].client_id = id}
FreeSlots == {i \in Slots : i < max_clients /\ ~client[i].connected}

-----------------------------------------------------------------------------
(* What the packets and the API calls share.                               *)

\* Mutant of Vacated: the packet queue is not emptied.
VacatedKeepingQueue(c) ==
    [c EXCEPT !.connected = FALSE, !.confirmed = FALSE, !.client_id = NoId,
              !.last_send = 0, !.last_receive = 0, !.address = NoAddress,
              !.encryption_index = NotFound]

\* A slot after netcode_server_disconnect_client_internal: everything but the
\* time-out and the loopback flag is reset, and the packet queue emptied.
Vacated(c) ==
    [c EXCEPT !.connected = FALSE, !.confirmed = FALSE, !.client_id = NoId,
              !.last_send = 0, !.last_receive = 0, !.address = NoAddress,
              !.encryption_index = NotFound, !.queue = <<>>]

\* Mutant of CountUp and CountDown: the counter is forgotten.
CountKept == UNCHANGED num_connected_clients

CountUp == num_connected_clients' = num_connected_clients + 1
CountDown == num_connected_clients' = num_connected_clients - 1

\* netcode_packet_queue_push: a full queue drops the packet.
Push(queue, owner) == IF Len(queue) < QueueSize THEN Append(queue, owner) ELSE queue

\* netcode_server_send_client_packet to the slots of a set: the mapping is
\* touched and the send time noted, unless the mapping changed its address.
CanSend(em, i) == TouchAllowed(em, client[i].encryption_index, client[i].address)

\* Mutant of TableAfterSends: sending does not touch the mapping.
TableUntouched(em, slots) == em

TableAfterSends(em, slots) ==
    [em EXCEPT !.entry = [j \in Indices |->
        IF \E i \in slots : client[i].encryption_index = j /\ CanSend(em, i)
        THEN [em.entry[j] EXCEPT !.last_access_time = time] ELSE em.entry[j]]]

ClientsAfterSends(em, slots) ==
    [i \in Slots |-> IF i \in slots /\ CanSend(em, i)
                     THEN [client[i] EXCEPT !.last_send = time] ELSE client[i]]

\* The mappings left when the clients of a set are, in slot order, sent their
\* disconnect packets and removed.
TableAfterDisconnects(em, slots) ==
    LET left[n \in 0 .. MaxClients] ==
            IF n = 0 THEN em
            ELSE LET c == client[n - 1]
                     sent == TouchMapping(left[n - 1], c.encryption_index, c.address, time)
                 IN  IF n - 1 \in slots THEN RemoveMapping(sent, c.address, time)
                                        ELSE left[n - 1]
    IN  left[MaxClients]

-----------------------------------------------------------------------------
(* Challenge tokens: the client id of the connect token, sealed with the   *)
(* challenge key.  The number that serves as nonce travels with the token, *)
(* so it is left out; so is the user data.                                 *)

\* netcode_write_challenge_token, netcode_encrypt_challenge_token
ChallengeToken(t) == [token |-> t, key |-> challenge_key]

\* netcode_decrypt_challenge_token, netcode_read_challenge_token
ChallengeOpens(c) == c.key = challenge_key
ChallengedId(c) == TokenId[c.token]

-----------------------------------------------------------------------------
(* netcode_server_update                                                   *)

UpdateBegin ==
    /\ phase = "idle"
    /\ phase' = "receiving"
    /\ \E t \in time .. time + MaxGap : t <= MaxTime /\ time' = t
    /\ UNCHANGED <<lifecycleVars, slotVars, connect_token_entries,
                   encryption_manager, challenges>>

\* netcode_server_read_and_process_packet, before the packet is looked at: an
\* address that is not connected has its mapping looked up, hence accessed.
Receiving == phase = "receiving" /\ running /\ time <= ReceiveHorizon

IndexFor(a) ==
    IF AtAddress(a) # {} THEN client[Min(AtAddress(a))].encryption_index
    ELSE FindIndex(encryption_manager, a, time)

TableFor(a) ==
    IF AtAddress(a) # {} THEN encryption_manager
    ELSE FindTouch(encryption_manager, a, time)

\* The packet had no effect beyond that lookup.
Ignore(a) ==
    /\ encryption_manager' = TableFor(a)
    /\ UNCHANGED <<time, phase, lifecycleVars, slotVars,
                   connect_token_entries, challenges>>

\* netcode_server_process_connection_request_packet, its reasons to ignore ...
RequestAcceptable(a, t) ==
    /\ TokenExpire[t] > time
    /\ t \in TokensForServer
    /\ AtAddress(a) = {}
    /\ WithId(TokenId[t]) = {}
    /\ History!TokenAllowed(connect_token_entries, a, t)

RequestIgnored(a, t) ==
    /\ Receiving
    /\ ~RequestAcceptable(a, t)
    /\ Ignore(a)

\* ... and, once the token is in the history, the answer: denied when the
\* server is full, nothing when no mapping can be added, else a challenge.
RequestAnswered(a, t) ==
    /\ Receiving
    /\ RequestAcceptable(a, t)
    /\ connect_token_entries' =
         History!RecordToken(connect_token_entries, a, t, time)
    /\ IF num_connected_clients = max_clients \/ ~CanAdd(TableFor(a), a, time)
       THEN /\ encryption_manager' = TableFor(a)
            /\ UNCHANGED challenges
       ELSE /\ encryption_manager' =
                 AddMapping(TableFor(a), a, t, time,
                            time + Ticks(TokenTimeout[t]), TokenTimeout[t])
            /\ challenges' = challenges \cup {ChallengeToken(t)}
    /\ UNCHANGED <<time, phase, lifecycleVars, slotVars>>

\* Mutant of ResponseAcceptable: the client id is checked at the request only.
ResponseAcceptableWithoutIdCheck(a, c) ==
    /\ KeyOf(TableFor(a), IndexFor(a)) = c.token
    /\ ChallengeOpens(c)
    /\ AtAddress(a) = {}
    /\ num_connected_clients # max_clients

\* netcode_server_process_connection_response_packet: the packet decrypts with
\* the mapping's key, its challenge with the server's, and address and client
\* id are not connected.
ResponseAcceptable(a, c) ==
    /\ KeyOf(TableFor(a), IndexFor(a)) = c.token
    /\ ChallengeOpens(c)
    /\ AtAddress(a) = {}
    /\ WithId(ChallengedId(c)) = {}
    /\ num_connected_clients # max_clients

\* A full server answers with a denied packet and forgets the response.
ResponseIgnored(a, c) ==
    /\ Receiving
    /\ ~ResponseAcceptable(a, c)
    /\ Ignore(a)

\* netcode_server_connect_client, which ends by sending a keep alive.
ConnectClient(a, c) ==
    LET i == Min(FreeSlots)
        j == IndexFor(a)
    IN  /\ Receiving
        /\ ResponseAcceptable(a, c)
        /\ FreeSlots # {}
        /\ CountUp
        /\ client' = [client EXCEPT ![i] =
             [@ EXCEPT !.connected = TRUE, !.encryption_index = j,
                       !.timeout = TimeoutOf(TableFor(a), j),
                       !.client_id = ChallengedId(c), !.address = a,
                       !.last_send = time, !.last_receive = time]]
        /\ encryption_manager' =
             TouchMapping(SetExpireTime(TableFor(a), j, Never), j, a, time)
        /\ UNCHANGED <<time, phase, lifecycleVars, connect_token_entries, challenges>>

\* A keep alive, payload or disconnect packet encrypted with token t's key;
\* it counts only from a connected address whose mapping has that key.
FromClient(a, t) ==
    AtAddress(a) # {} /\ KeyOf(encryption_manager, IndexFor(a)) = t

StrayPacket(a, t) ==
    /\ Receiving
    /\ ~FromClient(a, t)
    /\ Ignore(a)

KeepAlivePacket(a, t) ==
    LET i == Min(AtAddress(a))
    IN  /\ Receiving /\ FromClient(a, t)
        /\ client' = [client EXCEPT ![i].last_receive = time, ![i].confirmed = TRUE]
        /\ UNCHANGED <<time, phase, lifecycleVars, num_connected_clients,
                       connect_token_entries, encryption_manager, challenges>>

PayloadPacket(a, t) ==
    LET i == Min(AtAddress(a))
    IN  /\ Receiving /\ FromClient(a, t)
        /\ client' = [client EXCEPT ![i].last_receive = time, ![i].confirmed = TRUE,
                                    ![i].queue = Push(@, TokenId[t])]
        /\ UNCHANGED <<time, phase, lifecycleVars, num_connected_clients,
                       connect_token_entries, encryption_manager, challenges>>

DisconnectPacket(a, t) ==
    LET i == Min(AtAddress(a))
    IN  /\ Receiving /\ FromClient(a, t)
        /\ client' = [client EXCEPT ![i] = Vacated(@)]
        /\ CountDown
        /\ encryption_manager' = RemoveMapping(encryption_manager, a, time)
        /\ UNCHANGED <<time, phase, lifecycleVars, connect_token_entries, challenges>>

\* The clients that netcode_server_send_packets sends a keep alive, and those
\* that netcode_server_check_for_timeouts finds overdue.
SendDue ==
    {i \in Slots : Remote(i) /\ client[i].last_send + SendInterval <= time}

\* Mutant of TimedOut: the send time is compared instead.
TimedOutBySend ==
    {i \in Slots : /\ Remote(i) /\ client[i].timeout > 0
                   /\ client[i].last_send + Ticks(client[i].timeout) <= time}

TimedOut ==
    {i \in Slots : /\ Remote(i) /\ client[i].timeout > 0
                   /\ client[i].last_receive + Ticks(client[i].timeout) <= time}

\* netcode_server_send_packets, then netcode_server_check_for_timeouts, which
\* drops the first overdue client and returns.
UpdateEnd ==
    LET due == IF running THEN SendDue ELSE {}
        overdue == IF running THEN TimedOut ELSE {}
        i == Min(overdue)
        table == TableAfterSends(encryption_manager, due)
        clients == ClientsAfterSends(encryption_manager, due)
    IN  /\ phase = "receiving"
        /\ phase' = "idle"
        /\ IF overdue = {}
           THEN /\ encryption_manager' = table
                /\ client' = clients
                /\ UNCHANGED num_connected_clients
           ELSE /\ encryption_manager' = RemoveMapping(table, client[i].address, time)
                /\ client' = [clients EXCEPT ![i] = Vacated(@)]
                /\ CountDown
        /\ UNCHANGED <<time, lifecycleVars, connect_token_entries, challenges>>

-----------------------------------------------------------------------------
(* The rest of the API, called between updates.                            *)

ApiCall == phase = "idle" /\ running

\* What netcode_server_stop leaves: a loopback client keeps its slot.
ClientsAfterStop ==
    [i \in Slots |-> IF Remote(i) THEN Vacated(client[i]) ELSE client[i]]

NoLoopback == \A i \in Slots : ~client[i].loopback

\* netcode_server_start, which stops a running server first.
Start(n) ==
    LET base == IF running THEN ClientsAfterStop ELSE client
    IN  /\ phase = "idle"
        /\ challenge_key < MaxStarts
        /\ StopWithLoopback \/ NoLoopback
        /\ running' = TRUE
        /\ max_clients' = n
        /\ num_connected_clients' = 0
        /\ challenge_key' = challenge_key + 1
        /\ client' = [i \in Slots |-> IF i < n THEN [base[i] EXCEPT !.queue = <<>>]
                                               ELSE base[i]]
        /\ connect_token_entries' =
             IF running THEN History!ResetEntries ELSE connect_token_entries
        /\ encryption_manager' = IF running THEN ResetTable ELSE encryption_manager
        /\ UNCHANGED <<time, phase, challenges>>

\* Mutant of Stop: the clients are not disconnected.
StopKeepingClients ==
    /\ ApiCall
    /\ StopWithLoopback \/ NoLoopback
    /\ running' = FALSE /\ max_clients' = 0 /\ num_connected_clients' = 0
    /\ connect_token_entries' = History!ResetEntries
    /\ encryption_manager' = ResetTable
    /\ UNCHANGED <<time, phase, challenge_key, challenges, client>>

\* netcode_server_stop
Stop ==
    /\ ApiCall
    /\ StopWithLoopback \/ NoLoopback
    /\ running' = FALSE /\ max_clients' = 0 /\ num_connected_clients' = 0
    /\ client' = ClientsAfterStop
    /\ connect_token_entries' = History!ResetEntries
    /\ encryption_manager' = ResetTable
    /\ UNCHANGED <<time, phase, challenge_key, challenges>>

\* netcode_server_disconnect_client: disconnect packets, then the slot.
DisconnectClient(i) ==
    /\ ApiCall /\ Remote(i)
    /\ encryption_manager' = TableAfterDisconnects(encryption_manager, {i})
    /\ client' = [client EXCEPT ![i] = Vacated(@)]
    /\ CountDown
    /\ UNCHANGED <<time, phase, lifecycleVars, connect_token_entries, challenges>>

\* netcode_server_disconnect_all_clients: the remote clients only.
DisconnectAllClients ==
    LET all == {i \in Slots : Remote(i)}
    IN  /\ ApiCall
        /\ encryption_manager' = TableAfterDisconnects(encryption_manager, all)
        /\ client' = ClientsAfterStop
        /\ num_connected_clients' = num_connected_clients - Cardinality(all)
        /\ UNCHANGED <<time, phase, lifecycleVars, connect_token_entries, challenges>>

\* netcode_server_send_packet; a loopback client's goes through the callback.
SendPacket(i) ==
    /\ ApiCall /\ Connected(i)
    /\ IF client[i].loopback
       THEN /\ client' = [client EXCEPT ![i].last_send = time]
            /\ UNCHANGED encryption_manager
       ELSE /\ client' = ClientsAfterSends(encryption_manager, {i})
            /\ encryption_manager' = TableAfterSends(encryption_manager, {i})
    /\ UNCHANGED <<time, phase, lifecycleVars, num_connected_clients,
                   connect_token_entries, challenges>>

\* netcode_server_receive_packet
ReceivePacket(i) ==
    /\ ApiCall /\ Connected(i) /\ client[i].queue # <<>>
    /\ client' = [client EXCEPT ![i].queue = Tail(@)]
    /\ UNCHANGED <<time, phase, lifecycleVars, num_connected_clients,
                   connect_token_entries, encryption_manager, challenges>>

\* netcode_server_connect_loopback_client
ConnectLoopbackClient(i, id) ==
    /\ ApiCall /\ i < max_clients /\ ~client[i].connected
    /\ CountUp
    /\ client' = [client EXCEPT ![i] =
         [@ EXCEPT !.connected = TRUE, !.loopback = TRUE, !.confirmed = TRUE,
                   !.encryption_index = NotFound, !.client_id = id,
                   !.address = NoAddress, !.last_send = time, !.last_receive = time]]
    /\ UNCHANGED <<time, phase, lifecycleVars, connect_token_entries,
                   encryption_manager, challenges>>

\* netcode_server_disconnect_loopback_client
DisconnectLoopbackClient(i) ==
    /\ ApiCall /\ Connected(i) /\ client[i].loopback
    /\ CountDown
    /\ client' = [client EXCEPT ![i] = [Vacated(@) EXCEPT !.loopback = FALSE]]
    /\ UNCHANGED <<time, phase, lifecycleVars, connect_token_entries,
                   encryption_manager, challenges>>

\* netcode_server_process_loopback_packet
ProcessLoopbackPacket(i) ==
    /\ ApiCall /\ Connected(i) /\ client[i].loopback
    /\ client' = [client EXCEPT ![i].last_receive = time,
                                ![i].queue = Push(@, client[i].client_id)]
    /\ UNCHANGED <<time, phase, lifecycleVars, num_connected_clients,
                   connect_token_entries, encryption_manager, challenges>>

-----------------------------------------------------------------------------
Packet ==
    \E a \in Addresses :
        \/ \E t \in Tokens :
              \/ RequestIgnored(a, t) \/ RequestAnswered(a, t)
              \/ StrayPacket(a, t) \/ KeepAlivePacket(a, t)
              \/ PayloadPacket(a, t) \/ DisconnectPacket(a, t)
        \/ \E c \in challenges : ResponseIgnored(a, c) \/ ConnectClient(a, c)

Api ==
    \/ \E n \in 1 .. MaxClients : Start(n)
    \/ Stop
    \/ DisconnectAllClients
    \/ \E i \in Slots :
          \/ DisconnectClient(i) \/ SendPacket(i) \/ ReceivePacket(i)
          \/ \E id \in LoopbackIds : ConnectLoopbackClient(i, id)
          \/ DisconnectLoopbackClient(i) \/ ProcessLoopbackPacket(i)

Next == UpdateBegin \/ Packet \/ UpdateEnd \/ Api

Spec == Init /\ [][Next]_vars

\* The application keeps calling netcode_server_update, and the time it passes
\* keeps advancing (up to the bound); an update ends.
LateUpdate == UpdateBegin /\ (time < MaxTime => time' > time)

FairSpec == Spec /\ SF_vars(LateUpdate) /\ WF_vars(UpdateEnd)

-----------------------------------------------------------------------------
(* Properties.                                                             *)

SlotRecord ==
    [connected : BOOLEAN, loopback : BOOLEAN, confirmed : BOOLEAN,
     timeout : Int, encryption_index : Indices \cup {NotFound},
     client_id : Ids \cup {NoId}, address : Addresses \cup {NoAddress},
     last_send : Nat, last_receive : Nat, queue : Seq(Ids)]

EntryRecord ==
    [timeout : Int, expire_time : Int, last_access_time : Int,
     address : Addresses \cup {NoAddress}, key : Tokens \cup {NoKey}]

TypeOK ==
    /\ time \in Nat /\ phase \in {"idle", "receiving"}
    /\ running \in BOOLEAN /\ max_clients \in 0 .. MaxClients
    /\ num_connected_clients \in Int
    /\ client \in [Slots -> SlotRecord]
    /\ connect_token_entries \in
         [History!EntryIndices ->
            [time : Int, mac : Tokens \cup {NoKey}, address : Addresses \cup {NoAddress}]]
    /\ encryption_manager \in [num : 0 .. MaxMappings, entry : [Indices -> EntryRecord]]
    /\ challenge_key \in Nat
    /\ challenges \subseteq [token : Tokens, key : Nat]

\* netcode_server_num_connected_clients is the number of occupied slots, and
\* no slot is occupied at or above max_clients, however clients come and go
\* by packet, time-out, API and loopback (++ and -- at netcode.c:4045, 3818,
\* 4559, 4627).
CountMatchesSlots ==
    /\ num_connected_clients = Cardinality({i \in Slots : client[i].connected})
    /\ \A i \in Slots : client[i].connected => i < max_clients

\* When the server is not full there is a free slot: the assertion on the
\* result of netcode_server_find_free_client_index (netcode.c:4138).
FreeSlotWhenNotFull ==
    running /\ num_connected_clients # max_clients => FreeSlots # {}

\* No two remote clients share an address or a client id, although both tests
\* are made twice and minutes apart, at the request and at the response
\* (netcode.c:3946-3956, 4112-4122).
RemoteClientsDistinct ==
    \A i, j \in Slots : i # j /\ Remote(i) /\ Remote(j) =>
        /\ client[i].address # client[j].address
        /\ client[i].client_id # client[j].client_id

\* A remote client's mapping is searched, is its own, and has the key of a
\* token of that client: the server never talks to it with another's key
\* (assertions of netcode.c:3370, 3380, 3391; "mapping is out of date", 3738).
MappingBacksClient ==
    \A i \in Slots : Remote(i) =>
        LET j == client[i].encryption_index
            e == encryption_manager.entry[j]
        IN  /\ j # NotFound /\ j < encryption_manager.num
            /\ e.address = client[i].address
            /\ \E t \in Tokens : e.key = t /\ TokenId[t] = client[i].client_id

\* Every payload waiting in a slot was sent by the client in that slot: none
\* survives the slot's handover (netcode.c:3794-3802, 4606-4614, 3690).
PayloadFromOccupant ==
    \A i \in Slots : \A k \in DOMAIN client[i].queue :
        client[i].queue[k] = client[i].client_id

\* While the history holds every token, a token opens mappings for one address
\* only (netcode.c:3958-3965).
TokenBoundToAddress ==
    LET live == {j \in Indices :
                   /\ encryption_manager.entry[j].address # NoAddress
                   /\ ~EntryExpired(encryption_manager.entry[j], time)}
    IN  \A i, j \in live :
          encryption_manager.entry[i].key = encryption_manager.entry[j].key =>
            encryption_manager.entry[i].address = encryption_manager.entry[j].address

\* The answer to a challenge can be read when it comes: with the challenge goes
\* a live mapping that holds the token's keys (netcode.c:3984-3999, 3366-3407).
\* With timeout_seconds -1 the mapping's expire time lies in the past and this
\* fails; the instance has positive time-outs.
ChallengedCanRespond ==
    [][\A c \in challenges' \ challenges : \E a \in Addresses :
         KeyOf(encryption_manager', FindIndex(encryption_manager', a, time)) = c.token]_vars

\* Once the network is silent, every remote client with a time-out is dropped,
\* although an update drops one client at most (netcode.c:4375-4381).
SilentClientsDropped ==
    <>[](\A i \in Slots : Remote(i) => client[i].timeout <= 0)
=============================================================================

----------------------------- MODULE PacketPath -----------------------------
(***************************************************************************)
(* The way of a packet: written by one end, carried by the network         *)
(* simulator, read by the other, queued and handed to the application,     *)
(* with the memory every step allocates and frees.  One client connects    *)
(* with a sequence of tokens to the servers each of them lists; the        *)
(* servers send it keep alives, payloads and other packets, it sends them  *)
(* connection requests.  The connection's states are reduced to connected  *)
(* or not: NetcodeClient and NetcodeServer have them.                      *)
(***************************************************************************)
EXTENDS Packets, NetworkSimulator, PacketQueue

CONSTANTS
    ServerAddresses,    \* the server addresses of every token, in order
    ClientAddress,
    TokenExpire,        \* token number -> its expire timestamp
    PrivateKey,         \* shared by the token's issuer and the servers
    ZeroKey,            \* the client's keys when it is not connecting
    SentTypes,          \* what the servers send, of the allowed types
    Delays,             \* latency plus jitter of a packet
    MoreDelays,         \* additional delay of a duplicate
    MaxReceive,         \* NETCODE_CLIENT_MAX_RECEIVE_PACKETS
    MaxSends,           \* bound: packets sent
    MaxAltered,         \* bound: packets altered on their way
    MaxTime             \* bound: the time

Tokens == DOMAIN TokenExpire
Servers == 1 .. Len(ServerAddresses)

VARIABLES
    sim,            \* the network simulator
    heap,           \* the blocks allocated
    held,           \* the packets one end has fetched and not yet processed
    client,         \* the last token's number, the connect token (Unreadable when there
                    \* is none), server_address_index, connected, read key, window
    queue,          \* the client's packet_receive_queue
    app,            \* the packets the application holds
    sequence,       \* per server and token: the next sequence number
    sends,          \* packets sent so far
    alterations,    \* packets altered so far
    sent,           \* history: the packets the servers wrote
    delivered,      \* history: the payloads the application was given
    admitted        \* history: the tokens the servers read, and when

vars == <<sim, heap, held, client, queue, app, sequence, sends, alterations, sent, delivered, admitted>>

Token(k) == [number |-> k, timeout |-> 5, servers |-> ServerAddresses]
Header(k) ==
    [version |-> TRUE, protocol |-> Protocol, expire |-> TokenExpire[k], sequence |-> k]

\* netcode_generate_connect_token: the private part, written and sealed ...
PrivateData(k) == Seal(WriteToken(Token(k)), TokenData(Header(k)), k, PrivateKey)

\* ... and the connect token wrapped around it.
GeneratedToken(k) ==
    [protocol |-> Protocol, create |-> 0, expire |-> TokenExpire[k], sequence |-> k,
     private_data |-> PrivateData(k), timeout |-> 5, servers |-> ServerAddresses]

\* What is read from a public part.
PublicTokens ==
    [protocol : {Protocol}, create : Nat, expire : Nat, sequence : Nat,
     private_data : {PrivateData(k) : k \in Tokens}, timeout : Int, servers : Seq(Addresses)]

\* What the servers write to the client, and the connection request of a token.
Body(type, s) ==
    [size |-> CHOOSE n \in {0, KeepAliveBytes, ChallengeBytes} : n \in BodySizes[type],
     from |-> s]

Reply(m) ==
    [from |-> ServerAddresses[m.server], to |-> ClientAddress,
     datagram |-> WritePacket(m.type, Body(m.type, m.server), m.sequence, m.token)]

RequestHeader(t) ==
    [version |-> TRUE, protocol |-> t.protocol, expire |-> t.expire, sequence |-> t.sequence]

Request(t, to) ==
    [from |-> ClientAddress, to |-> to,
     datagram |-> WriteRequest(RequestHeader(t), t.private_data)]

\* All of them, and the entries of the network simulator that hold them.
Messages == [server : Servers, token : Tokens, type : SentTypes, sequence : 0 .. MaxSends]
Requests == {Request(GeneratedToken(k), ServerAddresses[s]) : k \in Tokens, s \in Servers}
EntriesWith(packets) == [data : Blocks, due : Nat, packet : packets]
Entries == EntriesWith({Reply(m) : m \in Messages} \cup Requests)

\* A server is known by its address, the allocator does not run out of blocks, and
\* no sequence number gets a high bit.
ASSUME PathAssumption ==
    /\ ServerAddresses \in Seq(Addresses) /\ Len(ServerAddresses) \in 1 .. MaxServers
    /\ \A i, j \in Servers : ServerAddresses[i] = ServerAddresses[j] => i = j
    /\ ClientAddress \notin Addresses
    /\ TokenExpire \in Seq(Nat)
    /\ {NoKey, ZeroKey, PrivateKey} \cap Tokens = {}
    /\ SentTypes \subseteq DENIED .. DISCONNECT
    /\ Delays \subseteq Nat /\ MoreDelays \subseteq Nat
    /\ {MaxReceive, MaxSends, MaxAltered, MaxTime} \subseteq Nat
    /\ MaxSends < HighBit
    /\ IsFiniteSet(Blocks) => Cardinality(Blocks) > 2 * MaxSends
    /\ Unreadable \notin PublicTokens /\ NoEntry \notin Entries

\* What the application may pass to netcode_client_connect: the token, or one
\* of the damaged ones that the client recognises.
GivenTokens(k) ==
    LET f == WriteConnectToken(GeneratedToken(k))
    IN  {f, [f EXCEPT !.version = FALSE], [f EXCEPT !.create = f.expire + 1],
         [f EXCEPT !.num_servers = 0], [f EXCEPT !.num_servers = MaxServers + 1],
         [f EXCEPT !.servers[1].type = 0]}

Disconnected ==
    [token |-> 0, connect_token |-> Unreadable, server |-> 0, connected |-> FALSE,
     key |-> ZeroKey, window |-> NewWindow]

Init ==
    /\ sim = NewSimulator
    /\ heap = {}
    /\ held = <<>>
    /\ client = Disconnected
    /\ queue = NewQueue
    /\ app = {}
    /\ sequence = [s \in Servers |-> [k \in Tokens |-> 0]]
    /\ sends = 0
    /\ alterations = 0
    /\ sent = {} /\ delivered = {} /\ admitted = {}

\* The ends are single threaded: nothing else happens while one of them is
\* going through the packets it fetched.
Idle == held = <<>>

-----------------------------------------------------------------------------
(* The network.                                                            *)

\* netcode_network_simulator_send_packet: lost, sent or sent twice.
Transmit(packet) ==
    \/ UNCHANGED <<sim, heap>>
    \/ \E delay \in Delays :
         \/ LET after == SendOne(sim, heap, packet, delay)
            IN  sim' = after.sim /\ heap' = after.heap
         \/ \E more \in MoreDelays :
              LET after == SendTwice(sim, heap, packet, delay, more)
              IN  sim' = after.sim /\ heap' = after.heap

\* netcode_network_simulator_update
Update(time) ==
    /\ Idle /\ time >= sim.time
    /\ sim' = Updated(sim, time)
    /\ heap' = HeapAfterUpdate(sim, heap)
    /\ UNCHANGED <<held, client, queue, app, sequence, sends, alterations, sent, delivered, admitted>>

\* netcode_network_simulator_reset
ResetNetwork ==
    /\ Idle
    /\ sim' = ResetSimulator(sim)
    /\ heap' = HeapAfterReset(sim, heap)
    /\ UNCHANGED <<held, client, queue, app, sequence, sends, alterations, sent, delivered, admitted>>

\* What a datagram may have become on the way (external): another prefix byte,
\* sequence number, header or cipher text.  When the number of sequence bytes
\* is another one, the cipher text is read at the wrong place.
Garbled(box) == [box EXCEPT !.key = NoKey]

Altered(d) ==
         {[d EXCEPT !.prefix.type = t] : t \in {REQUEST, KEEP_ALIVE, PAYLOAD, NumPackets}}
    \cup {[d EXCEPT !.sequence[i] = ByteValues - 1 - @] : i \in DOMAIN d.sequence}
    \cup {[d EXCEPT !.prefix.bytes = n, !.box = Garbled(@),
                    !.sequence = [i \in 1 .. n |-> 1]] : n \in {0, MaxSequenceBytes + 1}}
    \cup {[d EXCEPT !.box = Garbled(@)], [d EXCEPT !.length = MacBytes]}
    \cup (IF d.header = NoHeader THEN {}
          ELSE {[d EXCEPT !.header.expire = MaxTime + 1],
                [d EXCEPT !.header.version = FALSE],
                [d EXCEPT !.header.sequence = @ + 1]})

\* What the end that fetched packets finds in the next one.
Arriving ==
    IF Idle THEN {}
    ELSE {Head(held).packet.datagram} \cup
           (IF alterations < MaxAltered THEN Altered(Head(held).packet.datagram) ELSE {})

\* Whether the datagram is another than the one sent is counted.
CountAlteration(d) ==
    alterations' = alterations + (IF d = Head(held).packet.datagram THEN 0 ELSE 1)

-----------------------------------------------------------------------------
(* The servers.                                                            *)

\* netcode_server_send_client_packet, to the slot of the client that connected
\* with token k; netcode_server_connect_client ends by sending a keep alive.  A
\* server that was left goes on until it times out.
ServerSends(s, k, type) ==
    LET m == [server |-> s, token |-> k, type |-> type, sequence |-> sequence[s][k]]
    IN  /\ Idle /\ sends < MaxSends
        /\ k < client.token \/ (k = client.token /\ s <= client.server)
        /\ m.sequence = 0 => type = KEEP_ALIVE
        /\ sends' = sends + 1
        /\ sequence' = [sequence EXCEPT ![s][k] = @ + 1]
        /\ sent' = sent \cup {m}
        /\ Transmit(Reply(m))
        /\ UNCHANGED <<held, client, queue, app, alterations, delivered, admitted>>

ServerAllowed == {REQUEST, RESPONSE, KEEP_ALIVE, PAYLOAD, DISCONNECT}

\* netcode_server_read_and_process_packet for an address that has no mapping.
ServerReader ==
    [allowed |-> ServerAllowed, key |-> NoKey, private_key |-> PrivateKey,
     now |-> sim.time, window |-> NoPacket]

\* netcode_server_receive_packets and the reading of the token by
\* netcode_server_process_connection_request_packet; the datagram is freed.
ServerProcesses(d) ==
    LET p == ReadPacket(d, ServerReader)
    IN  /\ Head(held).packet.to # ClientAddress
        /\ held' = Tail(held)
        /\ heap' = heap \ {Head(held).data}
        /\ admitted' = IF p = NoPacket THEN admitted
                       ELSE admitted \cup {[token |-> ReadToken(p.body), time |-> sim.time]}
        /\ CountAlteration(d)
        /\ UNCHANGED <<sim, client, queue, app, sequence, sends, sent, delivered>>

-----------------------------------------------------------------------------
(* The client.                                                             *)

\* Mutant of DrainFrees: the packets waiting are not freed before the clear.
DrainFreesNothing(q) == ClearFrees(q)

\* What netcode_client_reset_connection_data frees: the queue is emptied by
\* popping, and only then cleared.
DrainFrees(q) == {Waiting(q)[i] : i \in 1 .. q.num}

\* A loopback connection has neither server nor keys.
Loopback == client.connected /\ client.key = ZeroKey
Local == 0

BlocksOf(packets) == {x.block : x \in packets}

\* netcode_client_disconnect_internal with netcode_client_reset_connection_data
Disconnect ==
    /\ Idle /\ (client.key # ZeroKey \/ Loopback)
    /\ client' = [Disconnected EXCEPT !.token = client.token]
    /\ queue' = NewQueue
    /\ heap' = heap \ BlocksOf(DrainFrees(queue))
    /\ UNCHANGED <<sim, held, app, sequence, sends, alterations, sent, delivered, admitted>>

\* netcode_client_connect_loopback; Disconnect ends a loopback connection too
\* (netcode_client_disconnect_loopback).
ConnectLoopback ==
    /\ Idle /\ client.key = ZeroKey /\ ~Loopback
    /\ client' = [client EXCEPT !.connected = TRUE]
    /\ UNCHANGED <<sim, heap, held, queue, app, sequence, sends, alterations, sent,
                   delivered, admitted>>

\* netcode_client_process_loopback_packet, called by the local server with the
\* sequence number of its choice.
ProcessLoopbackPacket ==
    LET block == Allocate(heap)
        slot == [block |-> block, server |-> Local, token |-> Local, sequence |-> sends]
    IN  /\ Idle /\ Loopback /\ sends < MaxSends
        /\ sends' = sends + 1
        /\ sent' = sent \cup {[server |-> Local, token |-> Local, type |-> PAYLOAD,
                               sequence |-> sends]}
        /\ queue' = IF Full(queue) THEN queue ELSE Pushed(queue, slot)
        /\ heap' = IF Full(queue) THEN heap ELSE heap \cup {block}
        /\ UNCHANGED <<sim, held, client, app, sequence, alterations, delivered, admitted>>

\* netcode_client_connect with the next token, after a disconnect.  A token
\* that cannot be read leaves the client disconnected.
Connect ==
    /\ Idle /\ client.key = ZeroKey /\ ~Loopback /\ client.token + 1 \in Tokens
    /\ \E f \in GivenTokens(client.token + 1) :
         client' = IF ReadConnectToken(f) = Unreadable
                   THEN [Disconnected EXCEPT !.token = client.token]
                   ELSE [Disconnected EXCEPT !.token = client.token + 1, !.server = 1,
                                             !.connect_token = ReadConnectToken(f),
                                             !.key = client.token + 1]
    /\ UNCHANGED <<sim, heap, held, queue, app, sequence, sends, alterations, sent, delivered, admitted>>

\* netcode_client_connect_to_next_server: the replay window is reset, the keys
\* and the queue stay.
ConnectToNextServer ==
    /\ Idle /\ client.server # 0 /\ client.server + 1 <= Len(client.connect_token.servers)
    /\ client' = [client EXCEPT !.server = @ + 1, !.connected = FALSE,
                                !.window = NewWindow]
    /\ UNCHANGED <<sim, heap, held, queue, app, sequence, sends, alterations, sent, delivered, admitted>>

\* The client's server_address.
ServerAddress == client.connect_token.servers[client.server]

\* netcode_client_send_packets, a connection request.
SendRequest ==
    /\ Idle /\ sends < MaxSends /\ client.server # 0 /\ ~client.connected
    /\ sends' = sends + 1
    /\ Transmit(Request(client.connect_token, ServerAddress))
    /\ UNCHANGED <<held, client, queue, app, sequence, alterations, sent, delivered, admitted>>

\* netcode_network_simulator_receive_packets, called by either end.
Fetch(to) ==
    LET taken == Taken(sim, to, MaxReceive)
    IN  /\ Idle /\ taken # {}
        /\ ~(to = ClientAddress /\ Loopback)
        /\ held' = [i \in 1 .. Cardinality(taken) |-> sim.pending[InOrder(taken)[i]]]
        /\ sim' = AfterReceive(sim, taken)
        /\ UNCHANGED <<heap, client, queue, app, sequence, sends, alterations, sent, delivered, admitted>>

ClientReader ==
    [allowed |-> {DENIED, CHALLENGE, KEEP_ALIVE, PAYLOAD, DISCONNECT}, key |-> client.key,
     private_key |-> NoKey, now |-> sim.time, window |-> client.window]

\* Mutant of FromServer: the sender is not compared.
FromServerAny(from) == client.server # 0

FromServer(from) == client.server # 0 /\ AddressEqual(from, ServerAddress)

\* Whether netcode_client_process_packet queues the packet.
Queues(p, from) == p.type = PAYLOAD /\ client.connected /\ FromServer(from)

\* netcode_client_receive_packets, one round of its loop: the packet is read,
\* the datagram freed, and the packet queued (unless the queue is full) or
\* freed.  A keep alive of the server connects.
ClientProcesses(d) ==
    LET p == ReadPacket(d, ClientReader)
        from == Head(held).packet.from
        block == Allocate(heap)
        slot == [block |-> block, server |-> p.body.from, token |-> client.token,
                 sequence |-> p.sequence]
        kept == p # NoPacket /\ Queues(p, from) /\ ~Full(queue)
    IN  /\ Head(held).packet.to = ClientAddress
        /\ held' = Tail(held)
        /\ heap' = (heap \ {Head(held).data}) \cup (IF kept THEN {block} ELSE {})
        /\ queue' = IF kept THEN Pushed(queue, slot) ELSE queue
        /\ client' = [client EXCEPT
             !.window = WindowAfter(d, ClientReader),
             !.connected = @ \/ (p # NoPacket /\ p.type = KEEP_ALIVE /\ FromServer(from))]
        /\ CountAlteration(d)
        /\ UNCHANGED <<sim, app, sequence, sends, sent, delivered, admitted>>

\* The payload in a slot of the queue.
Payload(x) == [server |-> x.server, token |-> x.token, sequence |-> x.sequence]

\* netcode_client_receive_packet
ReceivePacket ==
    LET x == First(queue)
    IN  /\ Idle /\ queue.num > 0
        /\ queue' = Popped(queue)
        /\ app' = app \cup {x}
        /\ delivered' = delivered \cup {Payload(x)}
        /\ UNCHANGED <<sim, heap, held, client, sequence, sends, alterations, sent, admitted>>

\* netcode_client_free_packet
FreePacket(x) ==
    /\ Idle
    /\ app' = app \ {x}
    /\ heap' = heap \ {x.block}
    /\ UNCHANGED <<sim, held, client, queue, sequence, sends, alterations, sent, delivered, admitted>>

-----------------------------------------------------------------------------
Next ==
    \/ \E time \in 0 .. MaxTime : Update(time)
    \/ ResetNetwork
    \/ \E s \in Servers, k \in Tokens, type \in SentTypes : ServerSends(s, k, type)
    \/ \E d \in Arriving : ServerProcesses(d) \/ ClientProcesses(d)
    \/ Disconnect \/ Connect \/ ConnectToNextServer \/ SendRequest
    \/ ConnectLoopback \/ ProcessLoopbackPacket
    \/ \E to \in {ClientAddress} \cup {ServerAddresses[s] : s \in Servers} : Fetch(to)
    \/ ReceivePacket
    \/ \E x \in app : FreePacket(x)

Spec == Init /\ [][Next]_vars
-----------------------------------------------------------------------------
(* Properties.                                                             *)

Inbox == {Waiting(queue)[i] : i \in 1 .. queue.num}

Count(entries) == Cardinality({i \in DOMAIN entries : entries[i] # NoEntry})

Blocked == Owned(sim.entries) \cup Owned(sim.pending) \cup Owned(held)
             \cup BlocksOf(Inbox) \cup BlocksOf(app)

\* No block has two owners among the packets on their way, those arrived, those
\* an end has fetched, the queue and the application: every copy is handed over,
\* never shared (netcode.c:2340-2344, 2386-2388, 2736-2740).
SingleOwner ==
    Cardinality(Blocked) =
        Count(sim.entries) + Count(sim.pending) + Count(held) + queue.num + Cardinality(app)

\* What somebody still refers to has not been freed: the clear of the queue,
\* which frees from index 0 although the queue may start elsewhere and popped
\* pointers stay in the ring, finds nothing to free (netcode.c:2119-2130,
\* 2621-2629).
NoDanglingPointer == Blocked \subseteq heap

\* The application is given a payload once, although the network duplicates it,
\* the next server's connection starts with an empty replay window and uses the
\* same keys, and the queue survives the change (netcode.c:1708-1715, 2732,
\* 2953-2956).
DeliveredOnce ==
    /\ \A x, y \in Inbox : Payload(x) = Payload(y) => x = y
    /\ \A x \in Inbox : Payload(x) \notin delivered

\* A packet is taken for what its sender wrote, whatever happened to its prefix
\* byte and sequence number: payloads in the queue were sent as payloads with
\* that number, and a client is connected because a keep alive was sent to it
\* by the server it is connected to (netcode.c:1456-1469, 1719-1746).
AcceptedWasSent ==
    /\ \A x \in Inbox :
         [server |-> x.server, token |-> x.token, type |-> PAYLOAD,
          sequence |-> x.sequence] \in sent
    /\ client.connected /\ ~Loopback =>
         \E p \in sent : /\ p.server = client.server /\ p.token = client.token
                         /\ p.type = KEEP_ALIVE

\* A token that a server reads is one that was issued, with the addresses it
\* was issued with, and has not expired; the header that carries its expiry in
\* the clear is bound to it (netcode.c:1057-1146, 1600-1629).  The client that
\* sent it walks over the same addresses, read from the public part
\* (netcode.c:1990-2078, 2636-2664).
AdmittedTokensGenuine ==
    /\ \A a \in admitted : \E k \in Tokens : a.token = Token(k) /\ a.time < TokenExpire[k]
    /\ client.server # 0 => client.connect_token = GeneratedToken(client.token)

\* The two readers of a public part refuse the same tokens and find the same
\* addresses in the others, as far as Go keeps them.
PublicTokensAgree ==
    \A k \in Tokens : \A f \in GivenTokens(k) :
        LET c == ReadConnectToken(f)
            g == GoReadConnectToken(f)
        IN  /\ c = Unreadable <=> g = Unreadable
            /\ c # Unreadable => \A i \in DOMAIN c.servers :
                 GoKeeps(c.servers[i]) => g.servers[i] = c.servers[i]

\* The Go package reads every datagram the way the C code does: the same
\* packet or none, and the same replay window afterwards; it writes the same
\* datagrams (packet.go:484-575, 577-610); and in a token it finds the same
\* addresses, except exactly the IPv6 ones whose words have a high byte
\* (connect_token_shared.go:82-84, 136-139).
GoReadsTheSame ==
    ~Idle =>
      LET d0 == Head(held).packet.datagram
          r == IF Head(held).packet.to = ClientAddress THEN ClientReader ELSE ServerReader
      IN  /\ \A d \in Arriving :
               /\ GoReadPacket(d, r) = ReadPacket(d, r)
               /\ GoWindowAfter(d, r) = WindowAfter(d, r)
          /\ IF IsRequest(d0)
             THEN /\ AddressesAgree
                  /\ PublicTokensAgree
                  /\ \A i \in Servers : GoKeeps(ServerAddresses[i]) =>
                       /\ GoReadToken(d0.box.plain).servers[i] = ServerAddresses[i]
                       /\ GoWriteToken(ReadToken(d0.box.plain)).servers[i]
                            = d0.box.plain.servers[i]
             ELSE GoWritePacket(d0.prefix.type, d0.box.plain, d0.box.nonce, d0.box.key) = d0

\* The ring of pointers is a bounded first-in first-out queue of packets.
Fifo == INSTANCE BoundedFifo WITH
          Capacity <- QueueSize, Items <- Blocks,
          fifo <- [i \in 1 .. queue.num |-> Waiting(queue)[i].block]
ImplementsFifo == Fifo!Spec
=============================================================================

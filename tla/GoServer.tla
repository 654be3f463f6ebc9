------------------------------ MODULE GoServer ------------------------------
(***************************************************************************)
(* The Go server (server.go, client_manager.go, client_instance.go) with   *)
(* the goroutine that feeds it (netcode_conn.go).                          *)
(*                                                                         *)
(* The receiving goroutine reads a packet from the socket and puts it in   *)
(* the channel packetCh, waiting while that is full.  Server.Update takes  *)
(* packets until the channel is empty, then sends keep alives and checks   *)
(* time-outs.  The application calls the rest between updates, in the same *)
(* goroutine.  Which packet a place of the channel holds is chosen when it *)
(* is taken out: a packet that could be sent earlier still could.          *)
(*                                                                         *)
(* The network may lose, duplicate, reorder and delay.  A token may be     *)
(* used from any address: its client may have opened another socket or be  *)
(* behind a NAT that changed its port.  The server of the code logs a      *)
(* duplicate address, id or token as ignored and goes on; so does this     *)
(* one.                                                                    *)
(***************************************************************************)
EXTENDS GoClientManager, Sequences

CONSTANTS
    Tokens,             \* connect tokens, standing also for their keys
    TokenId,            \* token -> client id
    Uses,               \* bound: <<token, address>>, the addresses a token's packets
                        \* may come from
    NoId,
    MaxClients,
    ChannelSize,        \* capacity of packetCh
    QueueSize,          \* PACKET_QUEUE_SIZE
    SendInterval,       \* 1.0 / PACKET_SEND_RATE, in ticks
    MaxGap,             \* bound: ticks between two updates
    MaxTime,            \* bound: the clock stops here, updates go on
    MaxBurst,           \* bound: packets read from the socket while one Update
                        \* drains the channel
    Horizon             \* bound: nothing is read from the socket after this time

ASSUME GoServerAssumption ==
    /\ NoKey \notin Tokens /\ Uses \subseteq Tokens \X Addresses
    /\ NoId \notin {TokenId[t] : t \in Tokens}
    /\ {MaxClients, ChannelSize} \subseteq Nat \ {0}
    /\ {QueueSize, SendInterval, MaxGap, MaxTime, MaxBurst, Horizon} \subseteq Nat

VARIABLES
    running, panicked,
    time, phase,        \* serverTime; "idle", or "draining" inside Update
    instance,           \* the client instances
    table,              \* cryptoEntries and numCryptoEntries
    tokenEntries,       \* connectTokensEntries
    backlog,            \* how many packets packetCh holds
    receiver,           \* the goroutine: "reading", "blocked" or "ended"
    burst,              \* packets read since this Update began to drain
    sources,            \* <<token, address>>: a challenge was sent to the address
                        \* for the token, or its response from there let it in
    accepted,           \* tokens whose client got in
    disturbed           \* history: clients whose address asked or answered again

vars == <<running, panicked, time, phase, instance, table, tokenEntries,
          backlog, receiver, burst, sources, accepted, disturbed>>

Slots == 1 .. MaxClients
Ids == {TokenId[t] : t \in Tokens}

\* FindOrAddTokenEntry and resetTokenEntries, the algorithm of netcode.c.
History == INSTANCE ConnectTokenEntries WITH
    MaxTokenEntries <- MaxEntries, NoMac <- NoKey, NoSource <- NoAddress, Before <- -1

\* NewClientInstance: the encryption index starts with Go's zero value.
NewClientInstance ==
    [connected |-> FALSE, confirmed |-> FALSE, clientId |-> NoId,
     address |-> NoAddress, encryptionIndex |-> 1,
     lastSendTime |-> 0, lastRecvTime |-> 0, packetQueue |-> <<>>]

\* Mutant of Cleared: the packet queue is kept.
ClearedKeepingQueue(c) ==
    [NewClientInstance EXCEPT !.encryptionIndex = None, !.packetQueue = c.packetQueue]

\* ClientInstance.Clear
Cleared(c) == [NewClientInstance EXCEPT !.encryptionIndex = None]

\* NewServer, Init and Listen
Init ==
    /\ running = TRUE /\ panicked = FALSE
    /\ time = 0 /\ phase = "idle"
    /\ instance = [i \in Slots |-> NewClientInstance]
    /\ table = NewTable
    /\ tokenEntries = History!ResetEntries
    /\ backlog = 0 /\ receiver = "reading" /\ burst = 0
    /\ sources = {} /\ accepted = {} /\ disturbed = {}

Connected == {i \in Slots : instance[i].connected /\ instance[i].address # NoAddress}
AtAddress(a) == {i \in Connected : instance[i].address = a}
WithId(id) == {i \in Connected : instance[i].clientId = id}
Free == {i \in Slots : ~instance[i].connected}

\* FindClientIndexByAddress
ClientAt(a) == IF AtAddress(a) = {} THEN None ELSE Min(AtAddress(a))

\* RemoveEncryptionEntry for the clients of a set, in slot order.
TableWithout(m, slots) ==
    LET left[n \in 0 .. MaxClients] ==
            IF n = 0 THEN m
            ELSE IF n \in slots
                 THEN RemoveEncryptionEntry(left[n - 1], instance[n].address, time)
                 ELSE left[n - 1]
    IN  left[MaxClients]

\* disconnectClient for the clients of a set.  The disconnect packets it may
\* send change nothing that the removal leaves.
Disconnect(m, clients, slots) ==
    /\ table' = TableWithout(m, slots)
    /\ instance' = [i \in Slots |-> IF i \in slots THEN Cleared(clients[i]) ELSE clients[i]]
    /\ disturbed' = disturbed \ slots

-----------------------------------------------------------------------------
(* The receiving goroutine, NetcodeConn.receiver.                          *)

\* read and handleNetcodeData: the packet goes into the channel, or the
\* goroutine waits with it in its hands.
Receive ==
    /\ receiver = "reading" /\ running /\ ~panicked /\ time <= Horizon
    /\ phase = "draining" => burst < MaxBurst
    /\ burst' = IF phase = "draining" THEN burst + 1 ELSE burst
    /\ IF backlog < ChannelSize
       THEN backlog' = backlog + 1 /\ receiver' = "reading"
       ELSE backlog' = backlog /\ receiver' = "blocked"
    /\ UNCHANGED <<running, panicked, time, phase, instance, table, tokenEntries,
                   sources, accepted, disturbed>>

\* A read error of a socket closed by Stop ends the loop.
ReceiverEnds ==
    /\ receiver = "reading" /\ ~running /\ ~panicked
    /\ receiver' = "ended"
    /\ UNCHANGED <<running, panicked, time, phase, instance, table, tokenEntries,
                   backlog, burst, sources, accepted, disturbed>>

-----------------------------------------------------------------------------
(* Server.Update                                                           *)

\* A stopped server returns an error.
UpdateBegin ==
    /\ phase = "idle" /\ ~panicked
    /\ phase' = IF running THEN "draining" ELSE "idle"
    /\ IF running THEN \E t \in time .. time + MaxGap : t <= MaxTime /\ time' = t
                  ELSE UNCHANGED time
    /\ UNCHANGED <<running, panicked, instance, table, tokenEntries, backlog,
                   receiver, burst, sources, accepted, disturbed>>

\* One packet leaves the channel, and a waiting one takes its place.
TakePacket ==
    /\ phase = "draining" /\ ~panicked /\ backlog > 0
    /\ backlog' = IF receiver = "blocked" THEN backlog ELSE backlog - 1
    /\ receiver' = "reading"
    /\ UNCHANGED <<running, time, phase, burst>>

\* OnPacketData: the entry used to read a packet from a, and the table after
\* that lookup.
IndexFor(a) ==
    IF ClientAt(a) # None THEN instance[ClientAt(a)].encryptionIndex
    ELSE FindEncryptionEntryIndex(table, a, time)

TableFor(a) == IF ClientAt(a) # None THEN table ELSE AfterFind(table, a, time)

Readable(t, a) == KeyOf(TableFor(a), IndexFor(a)) = t

\* A packet that cannot be read (altered, replayed, expired, of another key)
\* or that processPacket has no use for, such as a token for other servers.
UnreadablePacket(a) ==
    /\ TakePacket
    /\ table' = TableFor(a)
    /\ UNCHANGED <<panicked, instance, tokenEntries, sources, accepted, disturbed>>

\* processConnectionRequest: whatever is logged, also of a token that came from
\* another address before (FindOrAddTokenEntry returns false), a full server
\* answers with a denial, a full table with nothing, and any other with a
\* challenge.
ConnectionRequest(t, a) ==
    LET m == TableFor(a)
    IN  /\ TakePacket
        /\ tokenEntries' = History!RecordToken(tokenEntries, a, t, time)
        /\ IF Cardinality(Connected) = MaxClients \/ ~CanAdd(m, a, time)
           THEN table' = m /\ UNCHANGED <<sources, disturbed>>
           ELSE /\ table' = AddEncryptionMapping(m, a, t, time)
                /\ sources' = sources \cup {<<t, a>>}
                /\ disturbed' = disturbed \cup AtAddress(a)
        /\ UNCHANGED <<panicked, instance, accepted>>

\* Mutant of Pinned: the expiry of the request's mapping is left in place.
PinnedWithExpiry(m, i) == m

\* connectClient sets the mapping's expiry to -1.
Pinned(m, i) == SetExpiration(m, i, NoExpiry)

\* A challenge of the token is on its way, to whatever address.
Challenged(t) == \E b \in Addresses : <<t, b>> \in sources

\* processConnectionResponse and connectClient.  sendKeepAlive panics when the
\* mapping cannot be touched.
ConnectionResponse(t, a) ==
    LET j == IndexFor(a)
        i == Min(Free)
        m == Pinned(TableFor(a), j)
    IN  /\ Challenged(t) /\ Readable(t, a)
        /\ TakePacket
        /\ IF Cardinality(Connected) = MaxClients
           THEN /\ table' = TableFor(a)
                /\ UNCHANGED <<panicked, instance, sources, accepted, disturbed>>
           ELSE /\ instance' = [instance EXCEPT ![i] =
                     [@ EXCEPT !.connected = TRUE, !.clientId = TokenId[t],
                               !.address = a, !.encryptionIndex = j,
                               !.lastSendTime = time, !.lastRecvTime = time]]
                /\ panicked' = ~CanTouch(m, j, a)
                /\ table' = AfterTouch(m, j, a, time)
                /\ sources' = sources \cup {<<t, a>>}
                /\ accepted' = accepted \cup {t}
                /\ disturbed' = IF AtAddress(a) = {} THEN disturbed
                                ELSE disturbed \cup AtAddress(a) \cup {i}
        /\ UNCHANGED tokenEntries

\* processPacket for a keep alive, a payload and a disconnect: they count for
\* the first client at the address.
FromClient(t, a) == t \in accepted /\ ClientAt(a) # None /\ Readable(t, a)

KeepAlive(t, a) ==
    LET i == ClientAt(a)
    IN  /\ FromClient(t, a)
        /\ TakePacket
        /\ instance' = [instance EXCEPT ![i].lastRecvTime = time, ![i].confirmed = TRUE]
        /\ UNCHANGED <<panicked, table, tokenEntries, sources, accepted, disturbed>>

Push(queue, x) == IF Len(queue) < QueueSize THEN Append(queue, x) ELSE queue

Payload(t, a) ==
    LET i == ClientAt(a)
    IN  /\ FromClient(t, a)
        /\ TakePacket
        /\ instance' = [instance EXCEPT ![i].lastRecvTime = time, ![i].confirmed = TRUE,
                                        ![i].packetQueue = Push(@, a)]
        /\ UNCHANGED <<panicked, table, tokenEntries, sources, accepted, disturbed>>

DisconnectReceived(t, a) ==
    /\ FromClient(t, a)
    /\ TakePacket
    /\ Disconnect(table, instance, {ClientAt(a)})
    /\ UNCHANGED <<panicked, tokenEntries, sources, accepted>>

\* SendKeepAlives: the clients that are due and can be written to.
Reachable(i) ==
    /\ KeyOf(table, instance[i].encryptionIndex) # NoKey
    /\ CanTouch(table, instance[i].encryptionIndex, instance[i].address)

KeepAliveDue ==
    {i \in Connected : Reachable(i) /\ instance[i].lastSendTime + SendInterval <= time}

\* Sending to the clients of a set touches their entries.
TableAfterSends(slots) ==
    [table EXCEPT !.entry = [j \in Entries |->
        IF \E i \in slots : instance[i].encryptionIndex = j
        THEN [@[j] EXCEPT !.lastAccess = time] ELSE @[j]]]

ClientsAfterSends(slots) ==
    [i \in Slots |-> IF i \in slots THEN [instance[i] EXCEPT !.lastSendTime = time]
                                    ELSE instance[i]]

\* Mutant of Overdue: a client that just got a keep alive is not looked at.
OverdueUnlessSent ==
    {i \in Connected \ KeepAliveDue : instance[i].lastRecvTime + Timeout <= time}

\* CheckTimeouts
Overdue == {i \in Connected : instance[i].lastRecvTime + Timeout <= time}

\* The channel is empty: keep alives, then all overdue clients are dropped.
ChannelEmpty ==
    /\ phase = "draining" /\ ~panicked /\ backlog = 0
    /\ phase' = "idle" /\ burst' = 0

UpdateEnd ==
    /\ ChannelEmpty
    /\ Disconnect(TableAfterSends(KeepAliveDue), ClientsAfterSends(KeepAliveDue), Overdue)
    /\ UNCHANGED <<running, panicked, time, tokenEntries, backlog, receiver,
                   sources, accepted>>

-----------------------------------------------------------------------------
(* The rest of the API, called between updates.                            *)

ApiCall ==
    /\ phase = "idle" /\ ~panicked
    /\ UNCHANGED <<panicked, time, phase, backlog, receiver, burst, sources, accepted>>

\* sendPayloadToInstance: an unconfirmed client gets a keep alive first, and
\* gets it even when its mapping can no longer be touched.
SendPayload(slots) ==
    LET to == {i \in slots : Reachable(i)}
        early == {i \in slots : /\ ~instance[i].confirmed
                                /\ KeyOf(table, instance[i].encryptionIndex) # NoKey}
    IN  /\ ApiCall /\ running /\ to \cup early # {}
        /\ table' = TableAfterSends(to)
        /\ instance' = ClientsAfterSends(to \cup early)
        /\ UNCHANGED <<running, tokenEntries, disturbed>>

\* SendPayloadToClient
SendPayloadToClient(id) == WithId(id) # {} /\ SendPayload({Min(WithId(id))})

\* DisconnectClient
DisconnectClient(id) ==
    /\ ApiCall /\ running /\ WithId(id) # {}
    /\ Disconnect(table, instance, {Min(WithId(id))})
    /\ UNCHANGED <<running, tokenEntries>>

\* RecvPayload
RecvPayload(i) ==
    /\ ApiCall /\ instance[i].packetQueue # <<>>
    /\ instance' = [instance EXCEPT ![i].packetQueue = Tail(@)]
    /\ UNCHANGED <<running, table, tokenEntries, disturbed>>

\* Stop closes the socket for good.
Stop ==
    /\ ApiCall /\ running
    /\ running' = FALSE
    /\ instance' = [i \in Slots |-> IF i \in Connected THEN Cleared(instance[i])
                                                       ELSE instance[i]]
    /\ table' = ResetCryptoEntries(TableWithout(table, Connected))
    /\ tokenEntries' = History!ResetEntries
    /\ disturbed' = {}

-----------------------------------------------------------------------------
Packet ==
    \/ \E a \in Addresses : UnreadablePacket(a)
    \/ \E t \in Tokens, a \in Addresses :
       /\ <<t, a>> \in Uses
       /\ \/ ConnectionRequest(t, a) \/ ConnectionResponse(t, a)
          \/ KeepAlive(t, a) \/ Payload(t, a) \/ DisconnectReceived(t, a)

Api ==
    \/ SendPayload(Connected)                        \* SendPayloads
    \/ \E id \in Ids : SendPayloadToClient(id) \/ DisconnectClient(id)
    \/ \E i \in Slots : RecvPayload(i)
    \/ Stop

\* A panic ends the process.
Dead == panicked /\ UNCHANGED vars

Next == Receive \/ ReceiverEnds \/ UpdateBegin \/ Packet \/ UpdateEnd \/ Api \/ Dead

Spec == Init /\ [][Next]_vars

\* The application keeps calling Update with an advancing time (up to the
\* bound), and Update takes what the channel holds and ends when it is empty.
LateUpdate == UpdateBegin /\ (running /\ time < MaxTime => time' > time)

FairSpec ==
    /\ Spec
    /\ SF_vars(LateUpdate)
    /\ WF_<<backlog, receiver>>(TakePacket) /\ WF_phase(ChannelEmpty)

-----------------------------------------------------------------------------
(* Properties.                                                             *)

\* server.go:438-441: the mapping of a client that just got in is out of date,
\* which the code takes for impossible.  It would be, if the duplicates that
\* server.go:296-306 and 379-385 log as ignored were.
NeverPanics == ~panicked

\* That panic needs a token used from two addresses, which server.go:304-306
\* logs as ignored and lets in, and its client let in twice from one of them,
\* which server.go:379-385 logs as ignored: as long as every client keeps its
\* address, a response that can be read finds its mapping in place, also when
\* the entry two clients share was cleared by the removal of one and taken over
\* by another address.
PanicNeedsMovedToken ==
    panicked => \E t \in Tokens, a, b \in Addresses :
                    /\ a # b /\ {<<t, a>>, <<t, b>>} \subseteq sources
                    /\ \E i, j \in AtAddress(a) : i # j

\* As long as nobody asks again from a connected client's address, its mapping
\* stays its own: not expired, not handed to another address, within the
\* searched part of the table (server.go:412-430, client_manager.go:237-318).
MappingBacksClient ==
    \A i \in Connected \ disturbed :
        LET j == instance[i].encryptionIndex
        IN  /\ j \in 1 .. table.num
            /\ table.entry[j].address = instance[i].address
            /\ table.entry[j].expireTime = NoExpiry

\* A payload waiting in a slot came from the address of the client in that
\* slot: nothing of an earlier occupant is left (client_instance.go:35-49).
PayloadFromOccupant ==
    \A i \in Slots : \A n \in DOMAIN instance[i].packetQueue :
        instance[i].packetQueue[n] = instance[i].address

\* Once the network is silent every client is dropped (CheckTimeouts), unless
\* the panic ended the server.
SilentClientsDropped == <>[](panicked \/ Connected = {})
=============================================================================

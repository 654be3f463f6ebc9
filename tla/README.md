# A TLA+ model of netcode.io

netcode.io connects clients to dedicated servers over UDP. A web backend hands
the client a *connect token* (server addresses, keys, time-out, expiry); the
client presents it to a server, answers a challenge, and then exchanges
encrypted packets. This directory models the C implementation,
`src/c/netcode.c`, and the Go package, `src/go/netcode`, checks the models with
TLC on small instances and proves theorems about them with TLAPS.
`src/STANDARD.md` is the protocol's specification; definitions are translated
from the code, and where the code and the standard disagree the model follows
the code (see "Differences from the standard").
`PROJECT.json` lists components, runs, mutants, the source lines of every
definition, findings, hazards and theorems.

## Inventory

| Component | State | Operations | What makes it hard | What makes it correct |
|---|---|---|---|---|
| Replay protection (`netcode.c:1487-1527`, `1708-1746`) | most recent sequence number, ring of 256 numbers | reset; test-and-record, before decryption | duplicates, reordering, corrupted packets that move the window | no packet handled twice; only old or seen packets refused |
| Encryption manager (`3222-3413`) | array of mappings address -> keys with last access, expiry, time-out; a search bound | reset, add, remove, find, touch, set expire time | entries die silently and are reused; the bound shrinks over dead entries; indices are held by clients | behaves as a map from addresses to mappings |
| Connect token history (`3417-3485`) | array of (mac, address, time) | reset, find-or-add | fixed size, oldest replaced | a token opens mappings for one address |
| Server (`3489-4671`) | per slot: connected, loopback, confirmed, id, address, mapping index, times, queue; counter; challenge key | update (receive, send, time out), start, stop, disconnect, send, receive, loopback | overlapping handshakes, late packets, late updates, slot reuse, restart | slots, counter, ids, addresses and mappings agree; silent clients go |
| Client (`2395-3218`) | state, current server, challenge, deferred disconnect, times, queue | update, connect, disconnect, send, receive, loopback | late packets of earlier servers, decisions deferred to the end of the update, several servers | connected only after answering this server; every wait ends |
| Packet queue (`2078-2158`) | ring of packet pointers | init, clear, push, pop | wrap-around, full, pointers left behind by a pop | bounded FIFO; nothing freed that is still used |
| Network simulator (`2162-2393`) | ring of packets with delivery times, list of arrived ones; both own memory | send, receive, update, reset | loses, duplicates, delays; a full ring | every copy has one owner |
| Packets (`1320-1907`) | none | read and write | prefix and sequence in the clear, tests in a certain order, a window moved before decryption | a packet is taken for what was sent, or refused |
| Connect tokens (`930-1146`, `1926-2078`, `4675-4743`) | none | write, seal, open, read | expiry in the clear beside the sealed part | only issued, unexpired tokens are read, as they were written |
| Sockets, `netcode_init`/`term`, create and destroy (`377-720`, `2451-2575`, `3535-3671`) | the descriptors of the process, the live objects, the create call on its way | init, term, create with its system calls, destroy, send, read what arrived | each system call may fail; descriptors and ports are shared with the rest of the program | every socket has one owner who closes it; live objects can be used; what arrives is read |
| Addresses, libsodium | - | - | strings and a library | - |
| Go server, client manager (`server.go`, `client_manager.go`, `client_instance.go`) | as the C server, one time-out for all entries; a goroutine and a channel | update, send, receive, disconnect, stop | duplicates logged and let in; a table with its own rules; a goroutine that waits on a full channel | panics only in one known case, mappings stay with their clients, silent clients go |
| Go client (`client.go`) | as the C client, a socket and a goroutine per server tried | connect, update, disconnect, close, send, receive | old sockets stay open; packets that cannot be read are processed | nothing of an earlier server counts; every wait and every goroutine ends |
| Go packets and tokens (`packet.go`, `connect_token_*.go`, `replay_protection.go`) | none | read and write | other order of tests than C | reads and writes what C does |

Server and client exchange packets over the network only. The server calls the
encryption manager and the history; both ends call replay protection for every
packet of an established connection, and queue payloads for the application.
All of the C code runs in the thread that calls `update`; concurrency is
between hosts, with the network in between, and between the application's calls.
The Go package adds a goroutine per socket that reads packets into a channel,
which `Update` empties.

The behaviours that are hard to test are listed as hazards in `PROJECT.json`,
each at its line.

## Modules

| Module | Models |
|---|---|
| `ReplayWindow` | abstract: the exact window of sequence numbers seen |
| `ReplayProtection` | the ring, its reset and its test-and-record, under any arrival order |
| `MappingStore` | abstract: at most one mapping per address, which expires |
| `EncryptionTable` | the encryption manager's functions as operators on a table value |
| `EncryptionManager` | the table driven the way the server drives it |
| `ConnectTokenEntries` | the history of used tokens as operators |
| `NetcodeServer` | the server, over `EncryptionTable` and `ConnectTokenEntries` |
| `NetcodeClient` | the client |
| `ConnectTokens` | the private and the public part of a connect token written and read, in C and in Go, and the comparison of addresses |
| `Packets` | writing and reading packets, in C and in Go, with ideal sealing and the replay window as a value |
| `PacketQueue` | the ring of pointers as operators |
| `BoundedFifo` | abstract: a bounded first-in first-out queue |
| `NetworkSimulator` | the network simulator as operators on its state and the heap |
| `PacketPath` | a packet's way through the five modules above, with the memory it occupies |
| `GoClientManager` | the Go client manager's encryption entries as operators |
| `GoServer` | the Go server with its receiving goroutine, over `GoClientManager` and `ConnectTokenEntries` |
| `GoClient` | the Go client with its connections |
| `Endpoints` | clients and servers as objects with a socket: created, destroyed, reading what arrives |
| `EncryptionTableProofs`, `EncryptionManagerProofs`, `NetcodeServerProofs`, `NetcodeClientProofs`, `GoServerProofs`, `GoClientProofs`, `PacketPathProofs`, `EndpointsProofs` | theorems about the module they are named after; `NetcodeClientProofs` also has those about `ReplayProtection`, which the client holds, and `EncryptionTableProofs` the lemmas about the table's operators that the manager and the server share |
| `MC...` | constants for TLC |

Names follow the source: `Connect`, `SendPacket`, `encryption_manager`,
`should_disconnect`. Times are ticks of a discrete clock, `TicksPerSecond` of
them in a second; time-outs are in seconds as in the code. Tokens stand for
their keys, their macs and their private part.

### Replay protection

`Record(s)` is everything `netcode_replay_protection_packet_already_received`
changes, `AlreadyReceived(s)` what it returns. `Receive(s, authentic)` is their
use in `netcode_read_packet`: first the test, then the decryption, which
succeeds if the packet is `authentic`. Sequence numbers with the top bit set
are exempt, as in the code. `handled` counts the packets that pass both;
`answer` keeps the last packet tested and whether it was refused, so that the
refinement of `ReplayWindow` also shows that no fresh packet is refused.

### Encryption manager

`EncryptionTable` keeps the code's array: entries at or above `num` are not
searched, but a new mapping may take any dead entry. A removal clears the first
entry of the address, keeps its time-out, and, at the end of the array, gives up
the dead entries before it. `EncryptionManager` adds the server's discipline:
`Add` on a request, `Find` for a packet of an unconnected address, `Connect`
pins the entry found, `Send` touches it, `Disconnect` removes by address. Its
`Tick` keeps connected clients' mappings alive; that the server really does so
is the `MappingBacksClient` of `NetcodeServer`.

### Server

An update is `UpdateBegin` (the time is set), any number of packet actions, and
`UpdateEnd` (keep alives to the clients that are due, then the first overdue
client dropped: the code returns after one). API calls happen between updates.
`RequestIgnored`, `RequestAnswered`, `ResponseIgnored`, `ConnectClient`,
`StrayPacket`, `KeepAlivePacket`, `PayloadPacket` and `DisconnectPacket` cover
what a packet can do. A packet may come from any address at any time and any
number of times, if it could exist: a response carries a challenge that was
issued, and the key it is encrypted with is its token's. `StopWithLoopback`
says whether the application stops or restarts the server while loopback
clients are connected. A request denied or a response denied has the effects of
the denial on the server only; what is sent is not tracked.

Left out: payload contents, user data, sequence counters, callbacks, the
test-only `flags`, and the address family of the socket. Replay protection is
left to its own module: a packet it refuses is one that did not arrive.

### Client

The same division of the update: `UpdateBegin`, packets, `UpdateEnd`, which
sends what is due and then decides (`Decide`): token expired, deferred
disconnect, time-out, in the code's order. The servers are an environment: a
packet may arrive if something the client sent to that server could have caused
it (`sent` keeps requests and responses). Each token is given to `Connect` once.
An invalid token leaves the client without one: the part of it that
`netcode_read_connect_token` has written into `client->connect_token` before it
fails (`2001-2042`) is overwritten by the next valid token and read by nobody
before that, since no state with a token follows.

### The way of a packet

`PacketPath` puts reading and writing, the simulator and the queue together.
One client connects with its token to the servers listed in it (the state
machine is reduced to connected or not: the modules above have the rest),
servers number and send packets with the token's key, and `Fetch`,
`ClientProcesses` and `ServerProcesses` are the receive functions of both ends:
the packets are fetched from the simulator, and then each is read, freed, and
queued or dropped before anything else happens (`held`). A datagram is a record
of the parts the reader tells apart, and may be altered on the way (`Altered`):
another type, sequence bytes, header, length or cipher text. Every allocation
takes a block of `heap` and every free gives it back, so a pointer used after
its free, or owned twice, shows. Bytes have `ByteValues` values and addresses
`IPv4Bytes` bytes or `IPv6Words` words; the encodings are the code's.

`Connect` is given the public part of a generated token, whole or damaged in one
of the ways the client tests for (`GivenTokens`), and reads it with
`ReadConnectToken`; the server addresses it then walks over are the ones read.

The Go reader and writer are operators beside the C ones, in the order in which
Go tests; `GoReadsTheSame` compares them on every datagram either end is about
to read, the altered ones included, and on the public tokens.

### Sockets and objects

netcode is called by one thread, but a create is taken apart into its system
calls (`OpenSocket`, `SetOption`, `Bind`, `GetSockName`, `Allocate`), because other
threads open and close descriptors (`ForeignOpen`, `ForeignClose`) and other
programs take ports in between. Each call succeeds or fails; a failure is the
code's `netcode_socket_destroy` and an early return. The kernel gives out the
lowest free descriptor, and 0 is one of them once somebody closed standard
input: the code takes it for an error and nobody closes it, which `SocketsOwned`
excepts. `Update` is the receive loop, which an empty datagram ends.

### Go server

The goroutine of `netcode_conn.go` is `Receive` (it may end up `"blocked"` with
a packet in its hands when `packetCh` is full) and `ReceiverEnds` (a closed
socket). `Update` is `UpdateBegin`, a `TakePacket` for each packet of the
channel, and `UpdateEnd`: keep alives, then all overdue clients at once. Which
packet was taken is chosen when it leaves the channel, which loses nothing: a
packet that could have been sent earlier still could. A token may be used from
any address, as by a client that opens another socket or whose port a NAT
changes: `server.go:304-306` logs it and goes on, so one key can be filed under
two addresses. `sources` keeps which token was used from where, and `Uses` bounds
the pairs a run looks at; the theorems are for any. `panicked` records that
`sendKeepAlive` reached its `panic`, after which nothing happens (`Dead`). `disturbed` marks clients whose address asked or answered
again after they were connected; the code gives their entry another expiry, and
`MappingBacksClient` is about the others.

### Go client

Each server tried has a connection with its own socket and goroutine, all
feeding one channel; moving on dials a new one and leaves the old one open. A
packet that fails to be read is processed all the same, so what a packet says
is any type, at any time, from a server the client sent something to.

## Runs

Every passing run has, for each of its properties, a mutant in `PROJECT.json`:
an operator that changes one definition the way a bug would, and that makes TLC
report that property. Mutants stand next to the definition they change and are
marked as such; no specification uses them.

| Run | Instance | Shows |
|---|---|---|
| `replay` | window of 3, sequence numbers 0..15 | at most once; the proof's invariant; the ring implements the window |
| `mappings` | 4 addresses, 3 entries, time-outs 1 and none, clock 0..3 | the search bound covers the entries in use, held indices stay valid, the table implements the map |
| `handshake` | 3 addresses, 2 mappings, 3 tokens of 2 clients (one expires), 2 slots, clock 0..3 with a 2-tick time-out | distinct clients, mappings with the right key, tokens bound to addresses, a challenged client can respond |
| `lifecycle` | 2 addresses, 2 tokens, one loopback client, 2 starts of 1 or 2 slots, queues of 1; packets at time 0, clock to 2 | the counter is the number of occupied slots, across restart and loopback; no payload survives a handover; silent clients are dropped although one goes per update |
| `client` | a token with 2 servers, one with 1, one unreadable; packets until time 6, clock to 17 | no connection without an answered challenge, nothing left over from a deferred disconnect or an ended connection, no asking past the token's lifetime at one server; silence ends every wait |
| `stop_with_loopback` | as `lifecycle`, stop allowed with loopback | violation: the counter is zeroed, the slot is not |
| `packets` | 2 servers (IPv4, IPv6), 1 token, bytes of 2 values, windows of 2, simulator of 2 + 2 entries, queue of 2, 3 packets sent, 1 altered | ownership, no use after free, each payload delivered once, nothing accepted that was not sent, only genuine tokens, Go reads as C does, the ring is a FIFO |
| `endpoints` | 2 objects, descriptors 0..2, 1 port, buffers of 2, 2 datagrams | every socket has one owner, live objects are ready, what arrives is read |
| `go_server` | 2 clients, one of them with two addresses, 2 slots, 2 entries, channel of 2, packets read until time 1 and taken until time 2, clock to 3 with a 1-tick time-out | the panic needs a moved token, mappings and queues stay with their clients, silent clients dropped |
| `go_panic` | as `go_server`, channel of 1, a 2-tick time-out | violation: one client in two slots, then the panic of `server.go:440` |
| `go_client` | 2 servers, channel of 1, time-out of 2 ticks, lifetime 5, packets until time 4, clock to 12 | old servers do not count, a deferred disconnect is never left over, the lifetime bounds all servers, every wait and every goroutine of a closed socket ends |
| `go_unread` | as `go_client` | violation: connected by packets that could not be read |

### Bounds

* `replay`: the code's window has 256 slots and 2^64 numbers; the arithmetic is
  the same for 3 slots and 16 numbers, which wrap the ring more than twice. The
  theorems hold for every size.
* `mappings`: three entries give a hole between two live ones and a live entry
  above it; four addresses for them give an addition that is refused.
* Server: two slots and two or three addresses give a full server, a second client
  and a reused slot; in `handshake`, three addresses for two mappings give a
  request that finds the table full; three tokens, two of the same client, give a second handshake
  of one id. `MaxTokenEntries` is at least the number of tokens, so that the
  history never forgets; `TokenBoundToAddress` is a claim about that case.
  `MaxGap` is one tick and the time-out two: the server is updated within the
  time-out (see below for what happens otherwise).
* `MaxStarts` bounds calls of `netcode_server_start`, `MaxTime` the clock (the
  application goes on calling update with the last time), `ReceiveHorizon` and
  `Horizon` the time after which the network is silent.
* Client: `MaxTime - Horizon` is 11 ticks: two servers, each with a time-out of
  two ticks that must be exceeded and a gap of up to three ticks between updates.
* `packets`: three packets and a duplicate overflow both the ring and the list of
  two entries, wrap the queue and leave a window of two; one payload can come
  from each server. With bytes of two values the eight sequence bytes hold
  numbers up to 255, the second packet of a server already has another low byte
  and an IPv6 word has a high byte. One altered packet is enough to meet each
  test of the reader. A second token multiplies the states without a new case:
  its keys open nothing of the first's.
* `go_server`: three addresses for two entries give a request that the table
  refuses; packets are taken for longer than the time-out, so entries expire and
  are taken over by others, who still answer, while packets arrive; the panic is
  reached as well, so that `PanicNeedsMovedToken` is not about nothing; a second answer of one client fills both
  slots. The token history decides nothing in the Go server (its answer is only
  logged), so the run's `VIEW` leaves it out: states that differ in it alone have
  the same steps and satisfy the same properties. `MaxBurst` bounds the packets the goroutine
  reads while one `Update` drains the channel; without it a drain need not end,
  in the code as well. `go_client`: 8 ticks of silence are enough for two
  servers.
* `endpoints`: three descriptors, one of which starts as another's, make two
  sockets and a reuse of each; with one port the second object of a type cannot
  bind, and one of the other type can. Two datagrams put one behind an empty one.
* Symmetry is used over addresses, in `handshake` only, which has no fairness.

### Fairness

`FairSpec` assumes that the application keeps calling `update` with an
advancing time (`SF_vars(LateUpdate)`: strong, because API calls may come in
between and disable nothing for good) and that an update ends
(`WF_vars(UpdateEnd)`: the receive loop ends when the socket is empty). This is
what every program in `src/c` does. For Go the loop in `Update` is written out:
it takes what the channel holds (`WF` of `TakePacket`) and ends when that is
empty (`WF` of `ChannelEmpty`); for the client, a goroutine whose socket is closed and that
is not waiting gets to run (`WF` of `ReceiverEnds`), which is what the Go
scheduler guarantees. `Endpoints` assumes that the application updates every
object it keeps (`SF` of `Update`: strong, because a create call in progress
disables it) and that a create call goes on to its end. Nothing is assumed of the network or of the
other end: the liveness properties are about silence. An unfair application
that never calls update times nobody out.

## Proofs

Liveness under fairness is out of the prover's reach; everything below is safety
or refinement, for every value of the constants that the named assumptions of
the module allow. Where a theorem has a further hypothesis, it is written in the
theorem, and the instance of the run that checks the same property satisfies it.

### Replay protection

In `NetcodeClientProofs`, for every `BufferSize > 0` and `HighBit > 0`
(`ReplayAssumption`):

* `InvariantHolds`: `ReplaySpec => []ReplayInv`. `AtMostOnce` alone is not inductive: a
  second arrival of `s` must be refused, which needs that the ring remembers.
  `HandledRecorded` says that a handled number is not above the most recent one
  and that its slot holds it or something newer; then `s` is either too old or
  finds its slot taken. To keep that true when a slot is overwritten, the ring
  may only hold numbers that belong there (`RingSound`), which are never above
  the most recent number.
* `NoPacketHandledTwice`: `ReplaySpec => []AtMostOnce`, from `InvariantHolds`.
* `RingImplementsWindow`: `ReplaySpec => ImplementsWindow`. The window's `seen` is the
  set of numbers in the window whose slot holds exactly them. The argument:
  within one window no two numbers share a slot (`SlotUnique`), so a slot that
  holds something at least `s`, when `s` is not too old, holds `s`
  (`TakenMeansSeen`), and storing a new number slides the set as the window
  demands (`StoreSlidesWindow`).

### Encryption manager

`EncryptionTableProofs` says what each function of the table does to every
entry: which one it writes, that the search bound goes on covering the entries
in use (`Covered`), and that the first entry of an address that a search meets is
its only live one (`LiveFirst`). `EncryptionManagerProofs` builds on it:

* `NothingStranded` (`NumCoversEntries`) and `IndexStaysValid` (`HeldIndexValid`)
  come from one inductive invariant. The second is not inductive without
  `HeldAlive`, that the mapping of a connected client has not expired: an expired
  entry would be given away. `LiveFirst` is what makes a removal by address
  remove the entry that a client's index points at.
* `ManagerImplementsStore`: the table is a map from addresses to mappings. The
  refinement mapping takes the live entry of each address; every operation
  changes what it says of its own address and leaves the others alone, and a
  tick only lets mappings expire.

### Server

Every action is first brought into one of three forms: some slots are vacated
(`Leave`), one is filled (`Arrive`), or all are set up again (`Restart`). The
invariants about the slots are then proved once for each form.

* `ServerStaysTyped`, `ClientsDistinct`: from `BaseInv`, for every number of
  slots, with and without loopback.
* `CountIsExact`, `FreeSlotFound`: under `~StopWithLoopback`. The hypothesis is
  the finding of `stop_with_loopback`; without it both are false. The loop of
  `netcode_server_disconnect_all_clients` is a recursive function over the slots:
  that it exists, and what it returns, is shown by taking the least number of
  rounds for which it would fail.
* `ClientsKeepMappings`: under `KeptAlive` (the longest gap between two updates
  and the interval of keep alives together are within every time-out), each
  remote client's index points at its own live mapping with a key of its own.
  The invariant `MapInv` bounds the time since the last send, on which the
  mapping's access time depends, and uses `Covered` and `LiveFirst` of the table.
  Without the hypothesis the code gives mappings away (see below,
  `netcode.c:4254`). The `handshake` instance has a gap and an interval of one tick
  and time-outs of two.
* `PayloadsFromOccupant`: under the same hypothesis, as the key that decrypts a
  payload is that of the mapping.
* `ChallengesCanBeAnswered`: if no token has a negative time-out. With -1 the
  mapping is born expired (see below, `netcode.c:3984`).
* `TokensStayBound`: under `RoomForAll` (the history has an entry for each token),
  by a pigeonhole argument: a token that is not in the history finds an entry
  that no token has, so none is forgotten. With a smaller history the code
  forgets by design.

### Clients

`NetcodeClientProofs`, for every set of servers and tokens, every list of
servers in a token, every time-out, lifetime and clock (`ClientAssumption`: a
token that can be read names at least one server):

* `ClientInvariant`: `Spec => []IInv`, and from it `ClientTypes`,
  `ConnectedWasAnswered`, `ChallengeIsCurrent`, `NoPendingDisconnect` and
  `EndedIsClean`, one per safety property of the `client` run.
* The properties need each other. A loopback connection may start only because
  an ended client has no token; `UpdateEnd` clears a pending disconnect only if
  one is never pending outside a connection, since
  `netcode_client_disconnect_internal` returns early there; the address index
  stays in the token's list only because a client in action has a token.
  `ConnectionShape` adds the last missing link: outside loopback a client in
  action has a token, and packets are read only outside loopback.
* The argument: `DecideCases` shows that the end of `update` leaves the client
  as it is with nothing pending, ends the connection cleanly or goes to the next
  server; every action is then one of three kinds of step (`SameInv`: the
  connection stays as it is, `CleanInv`: it ends, `RequestInv`: one starts),
  except the challenge, the keep-alive packet and the loopback connect, which
  have their own lemmas.
* `LifetimeRespected`: needs in addition that a loopback client is connected, so
  that it is never one of those that wait with a token.
* `SilenceEnds`: after every update a client that connects or is connected has
  heard of its present server within its token's time-out, if that is enabled; a
  move to the next server counts as having heard. It is the part of
  `SilenceEndsConnection` that needs no fairness. The Go client has no such
  bound between updates: its first `Connect` does not set the time of the last
  packet.

`GoClientProofs` has its own invariant, because the Go client has no such
state: it is in action exactly when it has a token and has dialled, out of action
it has no server address, so that no packet passes the test of `OnPacketData`,
and its last connection is closed. `GoChallengeIsCurrent`,
`GoNoPendingDisconnect` and `GoEndedIsClosed` follow. `GoLifetimeRespected`
assumes `Horizon < TokenLifetime`: `Connect` sets the start of the token's life to
zero, so a client that first connects after that lifetime, on the clock of its
own, is past it from the start.

### Go server

`GoServerProofs`, for every number of slots and entries, every set of tokens and
addresses, every capacity and every clock. The assumptions are those of
`GoServer` and `GoClientManager`: the placeholders are no token, address or id,
and the table, the slots, the channel and the time-out are not empty.

* `ServerInvariant`: `Spec => []BaseInv`. The part that matters is `Genuine`, of
  every entry, inside or outside the searched part: its key is of a token that was
  used from the entry's address, and a cleared entry has neither key nor address.
  Nothing is assumed of where a token is used: `Uses` is any set of pairs.
* `PanicNeedsMove`: `PanicNeedsMovedToken`. The index under which a response is
  read comes from a search, which finds an entry of the response's own address,
  or from a client that was connected at that address before, whose entry may
  since have been removed and reused. By `Genuine`, that the key there opened the
  response makes the entry one of an address the token was used from: the
  response's own, and then `TouchEncryptionEntry` in `sendKeepAlive` succeeds, or
  another one, and then the token was used from two addresses and the response
  has just become a second client beside the first. `NeverPanics` itself is false
  (`go_panic`).
* `QueuedFromOccupant`: a queue is filled by payloads of the occupant's address
  only, and a slot that is free has an empty queue, so that a new client finds
  nothing of the last one.
* `ClientsKeepEntries`: `MappingBacksClient`, under `UpdatesInTime` (the interval
  of keep alives and the longest gap between two updates together are within the
  time-out). The invariant `MapInv` bounds the age of an entry's last access by
  the keep-alive interval, plus the gap while `Update` is draining, and says that
  whoever shares an address counts as disturbed: a removal is by address and
  would take a sharer's entry. Without the hypothesis an entry in use times out
  and is given to whoever asks next, as in C. In the
  `go_server` instance keep alives go out with every update, and the gap and the
  time-out are one tick.
* `SilenceEnds`: `SilenceBounded`. After an update every client that is left was
  heard of less than `Timeout` ago, and while the next one drains the channel the
  gap is added. This is what can be said of silent clients without fairness; that
  an update comes at all is the part left to `SilentClientsDropped`.
* Removing several clients is a loop over the slots, which the model writes as a
  recursive function; what it returns is shown by taking the least number of
  rounds for which it would fail.

### Sockets and objects

`EndpointsProofs`: `NoSocketLost` and `ObjectsAreReady`. The invariant states how
far a socket is at each step of the create call that owns it (`SetAt`, `BoundAt`),
that no two objects own one socket, that the call's socket is no object's, and
that every socket but descriptor 0 has an owner.

### The way of a packet

`PacketPathProofs`, for every number of servers and tokens, every width of
bytes and addresses, every size of the rings and of the window, and every number
of packets, alterations and ticks. The named assumptions are those of the modules:
a server is known by its address, the client's is not a server's, keys and
placeholders are not taken for each other or for what they stand in for, the
allocator has more than two blocks for every packet sent, and fewer packets are
sent than there are sequence numbers without the high bit, which the window lets
through unrecorded. Sealing is ideal, and a datagram changes on its way in the
ways `Altered` lists.

* The lemmas come first: what pushing and popping do to the packets waiting
  (`PushFacts`, `PopFacts`, with the arithmetic of the wrapping index), what each
  operation of the simulator does to the blocks it owns (`SendOneFacts`,
  `SendTwiceFacts`, `UpdateFacts`, `ReceiveFacts`), that a sequence number and an
  address are read as they were written (`SequenceFacts`, `AddressRead`), what an
  altered datagram can still be read as (`ReplyRead`, `RequestRead`), and that a
  window refuses what it recorded from then on (`RecordedTakes`,
  `RecordedKeeps`).
* The invariant (`Inv`, `PathTypes`) says that only replies that were sent and
  requests of generated tokens are on their way, that the client has its token
  and its key exactly while it has a server, and that the five holders of
  packets own pairwise disjoint parts of the heap. `Blocked \subseteq heap`
  alone is not inductive: without disjointness a free by one holder would leave
  another with a freed block.
* `NoPointerDangles` and `OneOwner` follow; the second counts each holder's
  blocks by a bijection and adds the disjoint unions up.
* `QueueImplementsFifo`: every step leaves the queue, empties it, pushes or pops.
* `TokensAreGenuine`: a request that a server can open carries the private part
  it was sealed with, and its header's expiry is the one bound to it.
* `AcceptedMeansSent`: what the client can open was sealed by a server with the
  client's key for that type and number.
* `PayloadsComeOnce` needs `Old`: a payload taken before is of the local server
  with a smaller number, of an earlier token, of an earlier server of this
  token, or refused by the present window. It holds for what waits and what was
  delivered, so what is taken next is none of them.
* `GoReadsAlike`: by cases on the type in the prefix byte, from the same facts.

### Model-checked only

Every safety property, action property and refinement that a passing run checks
is also proved. The liveness properties are not: `SilentClientsDropped` of both
servers, `SilenceEndsConnection` of both clients, `ClosedReceiverEnds` and
`ArrivedIsRead` need fairness. `SilenceEnds`, of the C client and of the Go
server, is the part of two of them that does not. The properties of the
violation runs are false.

## Differences from the standard

Met while modelling; the models follow the code.

* `netcode.c:4254`: a packet from a connected client uses its mapping without
  touching it, only sending does (`3733`). After an update later than the
  time-out, a request read before the keep alives are sent can take the entry.
  `STANDARD.md:443` says the mapping expires after no packets "being sent to or
  received from" the address.
* `netcode.c:3984`: a new mapping expires at `time + timeout_seconds`. With -1
  (time-outs disabled) and a time of 1.0 or more it is dead on arrival and the
  challenged client's response is ignored. `ChallengedCanRespond` is checked
  with positive time-outs.
* `netcode.c:2998`: a disconnect packet makes a connected client try the next
  server of its token; `STANDARD.md:377` says it goes to *disconnected*.
* `netcode.c:2591`: each server tried starts the token's lifetime again;
  `STANDARD.md:365` counts it over all servers. `LifetimeBoundsConnecting` of
  `NetcodeClient` is about one server, that of `GoClient` about all of them.
* `netcode.c:2308`: a duplicate made by the simulator is put into an entry that
  nobody freed; the packet there is lost with its memory.
* `connect_token_shared.go:83, 137`: the high bytes of IPv6 words are lost.
  `GoReadsTheSame` states the exception exactly (`GoKeeps`).
* `client.go:220`: time-outs are multiplied by 1000 on a clock of seconds, and
  -1 times out at once. `connect_token.go:35` does the same to the lifetime.
* `server.go:304-306, 440`: a token that was used before is logged as ignored and
  let in; `STANDARD.md:437` wants the request ignored. Together with a duplicate
  (`379-385`) it reaches the panic: `a` asks and answers twice with token `t` and
  holds two slots with one entry; a disconnect from `a` clears the entry and one
  slot; a request with `t` from `b` takes the entry; a late response from `a`,
  which replay protection does not cover (`packet.go:568`), is read through the
  slot left, with the key of `t`, and `TouchEncryptionEntry` finds `b`. The run
  `go_panic` finds it, and `PanicNeedsMove` shows that both are needed.
* `client_manager.go:244`: a stale entry just past the count is refreshed without
  raising the count; no search finds it, so the challenge sent for it cannot be
  answered before it expires. `MappingBacksClient` is about clients that got in.
* `client.go:145`: the sockets of servers tried before are never closed and their
  goroutines do not end; `EndedMeansClosed` is about the last one.
* `server.go:184`: a goroutine waiting on a full channel when the server stops is
  never released. The client goes on draining, and `ClosedReceiverEnds` holds.

The three violation runs are about what the code's own asserts, messages and
comments say.

## Not modelled

* Address strings, allocation failure outside the create functions, callbacks,
  the test-only flags, the Windows branches of the socket functions: string
  handling without state, other builds, or hooks with no effect on the rest.
* The bytes of a challenge token: it is written and opened by the same server,
  with a key the server modules keep.
* What the ciphers compute: sealing is ideal.
* `buffer.go`'s bounds tests, and the capacity of packet buffers in general: a
  payload of 1200 bytes with a sequence number of four bytes exceeds
  `NETCODE_MAX_PACKET_BYTES` by one, which is noted as a hazard.
* Example programs, `soak.c` and `profile.c`, which only call the API.

## Possible extensions

Nothing that was planned is left open. What would add most: the capacity of packet
buffers, the strings of addresses, and a composition of the server with several
clients instead of an environment for each.

--------------------------- MODULE ConnectTokens ---------------------------
(***************************************************************************)
(* Connect tokens on the wire: the private part, as netcode.c:966-1146 and *)
(* the Go package (connect_token_private.go, connect_token_shared.go)      *)
(* write and read it, and the public part around it (netcode.c:1909-2078,  *)
(* connect_token.go).  A token is a record of its number, its time-out and *)
(* its server addresses; the keys and the user data travel with the        *)
(* number.  What is on the wire is kept as a record of fields, with the    *)
(* addresses as bytes.                                                     *)
(***************************************************************************)
EXTENDS Integers, Sequences

CONSTANTS
    ByteValues,         \* 256: the values of a byte
    IPv4Bytes,          \* 4
    IPv6Words,          \* 8 words of two bytes
    MaxServers,         \* NETCODE_MAX_SERVERS_PER_CONNECT
    Unreadable          \* what reading returns for NETCODE_ERROR

\* enum of the address types: NETCODE_ADDRESS_IPV4 and NETCODE_ADDRESS_IPV6.
IPV4 == 1
IPV6 == 2

Bytes == 0 .. ByteValues - 1
Words == 0 .. ByteValues * ByteValues - 1
Addresses ==
         [type : {IPV4}, data : [1 .. IPv4Bytes -> Bytes], port : Words]
    \cup [type : {IPV6}, data : [1 .. IPv6Words -> Words], port : Words]

\* What is read from a private part.
PrivateTokens == [number : Nat, timeout : Int, servers : Seq(Addresses)]

ASSUME TokenAssumption ==
    /\ ByteValues \in Nat \ {0, 1}
    /\ {IPv4Bytes, IPv6Words, MaxServers} \subseteq Nat \ {0}
    /\ Unreadable \notin PrivateTokens

\* netcode_address_equal: an address of neither type equals nothing.
AddressEqual(a, b) ==
    /\ a.type = b.type /\ a.port = b.port
    /\ a.type \in {IPV4, IPV6}
    /\ a.data = b.data

\* netcode_write_uint16 and netcode_read_uint16: the low byte first.
Low(w) == w % ByteValues
High(w) == w \div ByteValues
Word(low, high) == low + ByteValues * high
WriteWord(w) == <<Low(w), High(w)>>

-----------------------------------------------------------------------------
\* One server address of netcode_write_connect_token_private, and of
\* netcode_write_connect_token, which has the same loop.
WriteAddress(a) ==
    [type |-> a.type,
     data |-> IF a.type = IPV4 THEN a.data
              ELSE [i \in 1 .. 2 * IPv6Words |->
                      LET w == a.data[(i + 1) \div 2]
                      IN  IF i % 2 = 1 THEN Low(w) ELSE High(w)],
     port |-> WriteWord(a.port)]

\* Mutant of ReadAddress: the two bytes of a word change places.
ReadAddressSwapped(f) ==
    [type |-> f.type,
     data |-> IF f.type = IPV4 THEN f.data
              ELSE [i \in 1 .. IPv6Words |-> Word(f.data[2 * i], f.data[2 * i - 1])],
     port |-> Word(f.port[2], f.port[1])]

\* ... and of netcode_read_connect_token_private.
ReadAddress(f) ==
    [type |-> f.type,
     data |-> IF f.type = IPV4 THEN f.data
              ELSE [i \in 1 .. IPv6Words |-> Word(f.data[2 * i - 1], f.data[2 * i])],
     port |-> Word(f.port[1], f.port[2])]

\* netcode_write_connect_token_private
WriteToken(t) ==
    [number |-> t.number, timeout |-> t.timeout, num_servers |-> Len(t.servers),
     servers |-> [i \in 1 .. Len(t.servers) |-> WriteAddress(t.servers[i])]]

\* What both languages accept: one to MaxServers addresses of a known type.
Acceptable(f) ==
    /\ f.num_servers \in 1 .. MaxServers
    /\ \A i \in 1 .. f.num_servers : f.servers[i].type \in {IPV4, IPV6}

\* netcode_read_connect_token_private
ReadToken(f) ==
    IF Acceptable(f)
    THEN [number |-> f.number, timeout |-> f.timeout,
          servers |-> [i \in 1 .. f.num_servers |-> ReadAddress(f.servers[i])]]
    ELSE Unreadable

\* netcode_write_connect_token
WriteConnectToken(t) ==
    [version |-> TRUE, protocol |-> t.protocol, create |-> t.create, expire |-> t.expire,
     sequence |-> t.sequence, private_data |-> t.private_data, timeout |-> t.timeout,
     num_servers |-> Len(t.servers),
     servers |-> [i \in 1 .. Len(t.servers) |-> WriteAddress(t.servers[i])]]

\* What both languages accept of a public part.
PublicAcceptable(f) == f.version /\ f.create <= f.expire /\ Acceptable(f)

\* netcode_read_connect_token
ReadConnectToken(f) ==
    IF PublicAcceptable(f)
    THEN [protocol |-> f.protocol, create |-> f.create, expire |-> f.expire,
          sequence |-> f.sequence, private_data |-> f.private_data, timeout |-> f.timeout,
          servers |-> [i \in 1 .. f.num_servers |-> ReadAddress(f.servers[i])]]
    ELSE Unreadable

-----------------------------------------------------------------------------
\* WriteShared: of each pair of bytes of an IPv6 address the first is shifted
\* into n and then overwritten by the second.
GoWriteAddress(a) ==
    [type |-> a.type,
     data |-> IF a.type = IPV4 THEN a.data
              ELSE [i \in 1 .. 2 * IPv6Words |->
                      IF i % 2 = 1 THEN Low(a.data[(i + 1) \div 2]) ELSE 0],
     port |-> WriteWord(a.port)]

\* ReadShared: the first byte of each pair is a byte shifted by eight, zero.
GoReadAddress(f) ==
    [type |-> f.type,
     data |-> IF f.type = IPV4 THEN f.data
              ELSE [i \in 1 .. IPv6Words |-> f.data[2 * i - 1]],
     port |-> Word(f.port[1], f.port[2])]

\* ConnectTokenPrivate.Write and Read
GoWriteToken(t) ==
    [number |-> t.number, timeout |-> t.timeout, num_servers |-> Len(t.servers),
     servers |-> [i \in 1 .. Len(t.servers) |-> GoWriteAddress(t.servers[i])]]

GoReadToken(f) ==
    IF Acceptable(f)
    THEN [number |-> f.number, timeout |-> f.timeout,
          servers |-> [i \in 1 .. f.num_servers |-> GoReadAddress(f.servers[i])]]
    ELSE Unreadable

\* ReadConnectToken
GoReadConnectToken(f) ==
    IF PublicAcceptable(f)
    THEN [protocol |-> f.protocol, create |-> f.create, expire |-> f.expire,
          sequence |-> f.sequence, private_data |-> f.private_data, timeout |-> f.timeout,
          servers |-> [i \in 1 .. f.num_servers |-> GoReadAddress(f.servers[i])]]
    ELSE Unreadable

\* The addresses that survive a passage through the Go package: IPv4, and IPv6
\* whose words have no high byte.
GoKeeps(a) == a.type = IPV4 \/ \A i \in 1 .. IPv6Words : High(a.data[i]) = 0

\* Both languages on every address: what C writes C reads back, and Go reads and
\* writes what C does for exactly the addresses it keeps.
AddressesAgree ==
    \A a \in Addresses :
        /\ ReadAddress(WriteAddress(a)) = a
        /\ GoKeeps(a) <=> GoReadAddress(WriteAddress(a)) = a
        /\ GoKeeps(a) <=> GoWriteAddress(a) = WriteAddress(a)
=============================================================================

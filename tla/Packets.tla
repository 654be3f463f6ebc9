------------------------------ MODULE Packets ------------------------------
(***************************************************************************)
(* Writing and reading packets: netcode_write_packet and                   *)
(* netcode_read_packet (netcode.c:1320-1485, 1529-1907) and the Read and   *)
(* Write methods of packet.go.                                             *)
(*                                                                         *)
(* A datagram is a record of the parts the code tells apart: the prefix    *)
(* byte, the header of a connection request, the bytes of the sequence     *)
(* number, the sealed part and the length.  Sealing is ideal: a box opens  *)
(* with its own key, nonce and additional data and with nothing else.      *)
(***************************************************************************)
EXTENDS ConnectTokens

CONSTANTS
    BufferSize,         \* NETCODE_REPLAY_PROTECTION_BUFFER_SIZE
    Protocol,           \* the protocol id of the client and of the server
    NoKey,              \* a null key pointer
    NoHeader,           \* the header of a packet that is not a request
    NoPacket            \* netcode_read_packet returns NULL

\* The replay windows.
Windows == [most_recent : Nat, received : [0 .. BufferSize - 1 -> Nat]]

ASSUME PacketAssumption ==
    /\ BufferSize \in Nat \ {0}
    /\ NoPacket \notin Nat /\ NoPacket \notin Windows

REQUEST == 0
DENIED == 1
CHALLENGE == 2
RESPONSE == 3
KEEP_ALIVE == 4
PAYLOAD == 5
DISCONNECT == 6
NumPackets == 7

MacBytes == 16
MaxPayloadBytes == 1200
ChallengeBytes == 8 + 300
KeepAliveBytes == 8
RequestBytes == 1 + 13 + 8 + 8 + 8 + 1024
MaxSequenceBytes == 8

\* What a byte counts that is shifted by n bytes.
Power[n \in 0 .. MaxSequenceBytes] == IF n = 0 THEN 1 ELSE ByteValues * Power[n - 1]

HighBit == Power[MaxSequenceBytes] \div 2
Empty == Power[MaxSequenceBytes] - 1

-----------------------------------------------------------------------------
(* The replay window as a value (replay_protection.go has the C code's).   *)

NewWindow == [most_recent |-> 0, received |-> [i \in 0 .. BufferSize - 1 |-> Empty]]

TooOld(w, s) == s + BufferSize <= w.most_recent

SlotTaken(w, s) ==
    LET stored == w.received[s % BufferSize]
    IN  stored # Empty /\ stored >= s

AlreadyReceived(w, s) == s < HighBit /\ (TooOld(w, s) \/ SlotTaken(w, s))

Recorded(w, s) ==
    IF s >= HighBit \/ TooOld(w, s) THEN w
    ELSE [most_recent |-> IF s > w.most_recent THEN s ELSE w.most_recent,
          received    |-> IF SlotTaken(w, s) THEN w.received
                          ELSE [w.received EXCEPT ![s % BufferSize] = s]]

-----------------------------------------------------------------------------
(* Sealing (netcode_encrypt_aead, netcode_decrypt_aead).                   *)

Seal(plain, data, nonce, key) ==
    [plain |-> plain, data |-> data, nonce |-> nonce, key |-> key]

Opens(box, data, nonce, key) ==
    box.data = data /\ box.nonce = nonce /\ box.key = key

\* Mutant of TokenData: the expiry is left out.
TokenDataWithoutExpiry(h) == <<h.version, h.protocol>>

\* The additional data of a private connect token.
TokenData(h) == <<h.version, h.protocol, h.expire>>

\* Mutant of PacketData: the prefix byte is left out.
PacketDataWithoutPrefix(prefix) == <<Protocol>>

\* The additional data of a packet.
PacketData(prefix) == <<Protocol, prefix>>

-----------------------------------------------------------------------------
(* Sequence numbers, the low byte first, without leading zero bytes.       *)

\* netcode_sequence_number_bytes_required
SequenceBytes(s) ==
    CHOOSE n \in 1 .. MaxSequenceBytes :
        s < Power[n] /\ (n = 1 \/ s >= Power[n - 1])

WriteSequence(s) ==
    [i \in 1 .. SequenceBytes(s) |-> (s \div Power[i - 1]) % ByteValues]

ReadSequence(bytes) ==
    LET value[i \in 0 .. Len(bytes)] ==
          IF i = 0 THEN 0 ELSE value[i - 1] + bytes[i] * Power[i - 1]
    IN  value[Len(bytes)]

-----------------------------------------------------------------------------
(* Writing.                                                                *)

\* netcode_write_packet, a connection request: the sealed token goes as it is.
WriteRequest(h, box) ==
    [prefix |-> [type |-> REQUEST, bytes |-> 0], header |-> h, sequence |-> <<>>,
     box |-> box, length |-> RequestBytes]

\* netcode_write_packet, every other packet: body is its data, of body.size
\* bytes.
WritePacket(type, body, s, key) ==
    LET prefix == [type |-> type, bytes |-> SequenceBytes(s)]
    IN  [prefix |-> prefix, header |-> NoHeader, sequence |-> WriteSequence(s),
         box |-> Seal(body, PacketData(prefix), s, key),
         length |-> 1 + SequenceBytes(s) + body.size + MacBytes]

\* writePacketPrefix and encryptPacket, and the Write methods that use them.
WritePacketPrefix(type, s) == [type |-> type, bytes |-> SequenceBytes(s)]

EncryptPacket(body, prefix, s, key) == Seal(body, PacketData(prefix), s, key)

GoWritePacket(type, body, s, key) ==
    LET prefix == WritePacketPrefix(type, s)
    IN  [prefix |-> prefix, header |-> NoHeader, sequence |-> WriteSequence(s),
         box |-> EncryptPacket(body, prefix, s, key),
         length |-> 1 + prefix.bytes + body.size + MacBytes]

-----------------------------------------------------------------------------
(* Reading.  A reader r has allowed packet types, the key of the sender's  *)
(* address, the private key (a server's) and the current time; without     *)
(* replay protection its window is NoPacket.                               *)

\* The sizes of the data that each type is read with.
BodySizes ==
    [type \in DENIED .. DISCONNECT |->
        CASE type \in {DENIED, DISCONNECT} -> {0}
          [] type \in {CHALLENGE, RESPONSE} -> {ChallengeBytes}
          [] type = KEEP_ALIVE -> {KeepAliveBytes}
          [] type = PAYLOAD -> 1 .. MaxPayloadBytes]

IsRequest(d) == d.prefix = [type |-> REQUEST, bytes |-> 0]

\* netcode_read_packet on a zero prefix byte
RequestReadable(d, r) ==
    /\ REQUEST \in r.allowed
    /\ d.length = RequestBytes
    /\ r.private_key # NoKey
    /\ d.header.version /\ d.header.protocol = Protocol
    /\ d.header.expire > r.now
    /\ Opens(d.box, TokenData(d.header), d.header.sequence, r.private_key)

\* The tests of netcode_read_packet on an encrypted packet that come before
\* the sequence number is read.
Plausible(d, r) ==
    /\ r.key # NoKey
    /\ d.length >= 1 + 1 + MacBytes
    /\ d.prefix.type < NumPackets
    /\ d.prefix.type \in r.allowed
    /\ d.prefix.bytes \in 1 .. MaxSequenceBytes
    /\ d.length >= 1 + d.prefix.bytes + MacBytes

\* Mutant of ReplayChecked: payloads are not protected.
ReplayCheckedDisconnectOnly(type) == type >= DISCONNECT

\* The packet types that replay protection applies to.
ReplayChecked(type) == type >= KEEP_ALIVE

\* netcode_read_packet: whether the sequence number is refused ...
Refused(d, r) ==
    /\ ReplayChecked(d.prefix.type) /\ r.window # NoPacket
    /\ AlreadyReceived(r.window, ReadSequence(d.sequence))

\* ... the window afterwards, moved before the packet is decrypted ...
WindowAfter(d, r) ==
    IF ~IsRequest(d) /\ Plausible(d, r) /\ ReplayChecked(d.prefix.type)
       /\ r.window # NoPacket
    THEN Recorded(r.window, ReadSequence(d.sequence)) ELSE r.window

\* ... and the packet, once it is decrypted and has the size of its type.
ReadPacket(d, r) ==
    LET s == ReadSequence(d.sequence)
    IN  IF IsRequest(d)
        THEN IF RequestReadable(d, r)
             THEN [type |-> REQUEST, sequence |-> 0, body |-> d.box.plain]
             ELSE NoPacket
        ELSE IF /\ Plausible(d, r) /\ ~Refused(d, r)
                /\ d.length - 1 - d.prefix.bytes >= MacBytes
                /\ Opens(d.box, PacketData(d.prefix), s, r.key)
                /\ d.prefix.type # REQUEST
                /\ d.length - 1 - d.prefix.bytes - MacBytes \in BodySizes[d.prefix.type]
             THEN [type |-> d.prefix.type, sequence |-> s, body |-> d.box.plain]
             ELSE NoPacket

-----------------------------------------------------------------------------
(* packet.go                                                               *)

\* RequestPacket.Read, which reads the token as well.
GoRequestReadable(d, r) ==
    /\ IsRequest(d)
    /\ REQUEST \in r.allowed
    /\ d.length = RequestBytes
    /\ r.private_key # NoKey
    /\ d.header.version /\ d.header.protocol = Protocol
    /\ d.header.expire > r.now
    /\ Opens(d.box, TokenData(d.header), d.header.sequence, r.private_key)
    /\ GoReadToken(d.box.plain) # Unreadable

\* Mutant of SequenceReadable: a sequence number without bytes is let through.
SequenceReadableEmpty(d) ==
    d.prefix.bytes <= MaxSequenceBytes /\ d.length >= 1 + d.prefix.bytes + MacBytes

\* readSequence comes first, and needs neither key nor known type.
SequenceReadable(d) ==
    d.prefix.bytes \in 1 .. MaxSequenceBytes /\ d.length >= 1 + d.prefix.bytes + MacBytes

\* validateSequence, before replay protection
GoPlausible(d, r) ==
    /\ SequenceReadable(d)
    /\ r.key # NoKey
    /\ d.length >= 1 + 1 + MacBytes
    /\ d.prefix.type < NumPackets
    /\ d.prefix.type \in r.allowed

\* decryptPacket succeeds.
DecryptPacket(d, r) ==
    /\ GoPlausible(d, r) /\ ~Refused(d, r)
    /\ d.length - 1 - d.prefix.bytes >= MacBytes
    /\ Opens(d.box, PacketData(d.prefix), ReadSequence(d.sequence), r.key)

\* NewPacket: the low four bits of the prefix byte alone decide which Read is
\* called, so a request has its own whatever the other bits are.
Peeked(d) == IF d.prefix.type < NumPackets THEN d.prefix.type ELSE NoPacket

\* The Read methods.
GoReadPacket(d, r) ==
    CASE Peeked(d) = NoPacket -> NoPacket
      [] Peeked(d) = REQUEST ->
           IF GoRequestReadable(d, r)
           THEN [type |-> REQUEST, sequence |-> 0, body |-> d.box.plain] ELSE NoPacket
      [] OTHER ->
           IF /\ DecryptPacket(d, r)
              /\ d.length - 1 - d.prefix.bytes - MacBytes \in BodySizes[d.prefix.type]
           THEN [type |-> d.prefix.type, sequence |-> ReadSequence(d.sequence),
                 body |-> d.box.plain]
           ELSE NoPacket

\* validateSequence moves the window.
GoWindowAfter(d, r) ==
    IF /\ d.prefix.type \in DENIED .. DISCONNECT
       /\ GoPlausible(d, r) /\ ReplayChecked(d.prefix.type) /\ r.window # NoPacket
    THEN Recorded(r.window, ReadSequence(d.sequence)) ELSE r.window
=============================================================================

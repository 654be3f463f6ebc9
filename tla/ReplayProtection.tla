-------------------------- MODULE ReplayProtection --------------------------
(***************************************************************************)
(* netcode_replay_protection_t (netcode.c:1487-1527) and the place where   *)
(* netcode_read_packet consults it (netcode.c:1708-1746): the test, which  *)
(* also records the sequence number, comes before the packet is decrypted. *)
(*                                                                         *)
(* The environment is a network that may lose, duplicate, reorder, delay   *)
(* and corrupt: any sequence number may arrive next, intact or not.        *)
(***************************************************************************)
EXTENDS Integers

CONSTANTS
    BufferSize,     \* NETCODE_REPLAY_PROTECTION_BUFFER_SIZE, 256 in the code
    HighBit         \* 1ULL << 63; a uint64_t is in 0 .. 2 * HighBit - 1

ASSUME ReplayAssumption == BufferSize \in Nat \ {0} /\ HighBit \in Nat \ {0}

VARIABLES
    most_recent_sequence,
    received_packet,    \* the ring: slot -> last sequence stored there
    handled,            \* history: how often the packet of each low sequence
                        \* got past the test and the decryption since reset
    answer              \* history: the last packet tested, was it refused?

replayVars == <<most_recent_sequence, received_packet, handled, answer>>

LowSequences == 0 .. HighBit - 1
Sequences == 0 .. 2 * HighBit - 1
Slots == 0 .. BufferSize - 1
Answers == [sequence : Sequences, refused : BOOLEAN]
Empty == 2 * HighBit - 1        \* 0xFFFFFFFFFFFFFFFF

ReplayInit ==
    /\ most_recent_sequence = 0
    /\ received_packet = [i \in Slots |-> Empty]
    /\ handled = [s \in LowSequences |-> 0]
    /\ answer = [sequence |-> 0, refused |-> FALSE]

\* netcode_replay_protection_reset, by both ends when a connection ends.
Reset ==
    /\ most_recent_sequence' = 0
    /\ received_packet' = [i \in Slots |-> Empty]
    /\ handled' = [s \in LowSequences |-> 0]
    /\ UNCHANGED answer

\* Mutant of TooOld: the window one short.
TooOldOffByOne(s) == s + BufferSize <= most_recent_sequence + 1

TooOld(s) == s + BufferSize <= most_recent_sequence

\* Mutant of SlotTaken: an equal sequence number does not count.
SlotTakenByNewer(s) ==
    received_packet[s % BufferSize] # Empty /\ received_packet[s % BufferSize] > s

SlotTaken(s) ==
    LET stored == received_packet[s % BufferSize]
    IN  stored # Empty /\ stored >= s

\* netcode_replay_protection_packet_already_received: its answer ...
AlreadyReceived(s) == s < HighBit /\ (TooOld(s) \/ SlotTaken(s))

\* Mutant of Record: the most recent sequence may go back.
RecordWithoutComparing(s) ==
    IF s >= HighBit \/ TooOld(s)
    THEN UNCHANGED <<most_recent_sequence, received_packet>>
    ELSE /\ most_recent_sequence' = s
         /\ received_packet' =
                IF SlotTaken(s) THEN received_packet
                ELSE [received_packet EXCEPT ![s % BufferSize] = s]

\* ... and what it leaves behind: the most recent sequence is raised before
\* the slot is looked at, the slot is written only when the answer is no.
Record(s) ==
    IF s >= HighBit \/ TooOld(s)
    THEN UNCHANGED <<most_recent_sequence, received_packet>>
    ELSE /\ most_recent_sequence' =
                IF s > most_recent_sequence THEN s ELSE most_recent_sequence
         /\ received_packet' =
                IF SlotTaken(s) THEN received_packet
                ELSE [received_packet EXCEPT ![s % BufferSize] = s]

\* A packet with sequence number s reaches netcode_read_packet; authentic says
\* whether it will decrypt.
Receive(s, authentic) ==
    /\ Record(s)
    /\ handled' = IF ~AlreadyReceived(s) /\ authentic /\ s < HighBit
                  THEN [handled EXCEPT ![s] = @ + 1] ELSE handled
    /\ answer' = [sequence |-> s, refused |-> AlreadyReceived(s)]

ReceiveAny == \E s \in Sequences, authentic \in BOOLEAN : Receive(s, authentic)

ReplayNext == Reset \/ ReceiveAny

ReplaySpec == ReplayInit /\ [][ReplayNext]_replayVars

-----------------------------------------------------------------------------
(* Properties.                                                             *)

ReplayTypeOK ==
    /\ most_recent_sequence \in LowSequences
    /\ received_packet \in [Slots -> LowSequences \cup {Empty}]
    /\ handled \in [LowSequences -> Nat]
    /\ answer \in Answers

\* Between two resets no packet is handled twice, however the network
\* duplicates and reorders (netcode_read_packet, netcode.c:1708-1715).
AtMostOnce == \A s \in LowSequences : handled[s] <= 1

\* What makes AtMostOnce inductive: a handled sequence number is no newer than
\* the most recent one, and its slot holds it or something newer.
HandledRecorded ==
    \A s \in LowSequences : handled[s] > 0 =>
        /\ s <= most_recent_sequence
        /\ received_packet[s % BufferSize] # Empty
        /\ received_packet[s % BufferSize] >= s

\* The ring stores a number only in its own slot and none newer than the most
\* recent one.
RingSound ==
    \A i \in Slots : received_packet[i] # Empty =>
        /\ received_packet[i] % BufferSize = i
        /\ received_packet[i] <= most_recent_sequence

ReplayInv == ReplayTypeOK /\ AtMostOnce /\ HandledRecorded /\ RingSound

\* The ring implements the exact window: it turns away exactly the packets
\* that are too old or were seen, never a fresh one (netcode.c:1500-1527).
SeenInWindow ==
    {s \in LowSequences : s + BufferSize > most_recent_sequence
                          /\ received_packet[s % BufferSize] = s}

Window == INSTANCE ReplayWindow WITH
    top <- most_recent_sequence, seen <- SeenInWindow

ImplementsWindow == Window!WindowSpec
=============================================================================

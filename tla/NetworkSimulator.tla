-------------------------- MODULE NetworkSimulator --------------------------
(***************************************************************************)
(* netcode_network_simulator_t (netcode.c:2162-2391): a ring of packets on *)
(* their way and a list of packets that have arrived, both of which own    *)
(* the copies they hold.  The operators take and return the simulator and  *)
(* the heap, the set of allocated blocks.                                  *)
(***************************************************************************)
EXTENDS Integers, Sequences, FiniteSetsExt

CONSTANTS
    NumEntries,         \* NETCODE_NETWORK_SIMULATOR_NUM_PACKET_ENTRIES
    NumPending,         \* NETCODE_NETWORK_SIMULATOR_NUM_PENDING_RECEIVE_PACKETS
    Blocks,             \* the blocks the allocator can hand out, integers
    NoEntry             \* an entry whose packet_data is null

ASSUME SimulatorAssumption ==
    /\ NumEntries \in Nat \ {0} /\ NumPending \in Nat \ {0}
    /\ Blocks \subseteq Nat

EntryIndices == 0 .. NumEntries - 1

\* allocate_function (external): a block that is not in use.
Allocate(heap) == Min(Blocks \ heap)

\* The blocks a sequence or function of entries owns.
Owned(entries) == {entries[i].data : i \in {j \in DOMAIN entries : entries[j] # NoEntry}}

\* netcode_network_simulator_create
NewSimulator ==
    [time |-> 0, current |-> 0, entries |-> [i \in EntryIndices |-> NoEntry],
     pending |-> <<>>]

\* netcode_network_simulator_reset; the time stays.
ResetSimulator(sim) == [NewSimulator EXCEPT !.time = sim.time]
HeapAfterReset(sim, heap) == heap \ (Owned(sim.entries) \cup Owned(sim.pending))

\* netcode_network_simulator_queue_packet: the entry overwritten is not freed.
QueuePacket(sim, heap, packet, delay) ==
    [sim EXCEPT
       !.entries[sim.current] = [data |-> Allocate(heap), due |-> sim.time + delay,
                                 packet |-> packet],
       !.current = (@ + 1) % NumEntries]

\* netcode_network_simulator_send_packet, when the packet is not lost: the
\* oldest entry is freed for it, and a duplicate overwrites the one after.
SendOne(sim, heap, packet, delay) ==
    LET free == heap \ Owned(<<sim.entries[sim.current]>>)
    IN  [sim  |-> QueuePacket(sim, free, packet, delay),
         heap |-> free \cup {Allocate(free)}]

SendTwice(sim, heap, packet, delay, more) ==
    LET one == SendOne(sim, heap, packet, delay)
    IN  [sim  |-> QueuePacket(one.sim, one.heap, packet, delay + more),
         heap |-> one.heap \cup {Allocate(one.heap)}]

\* netcode_network_simulator_receive_packets: the places in the list of the
\* first max packets for the address, in order ...
Addressed(sim, to) == {i \in DOMAIN sim.pending :
                         sim.pending[i] # NoEntry /\ sim.pending[i].packet.to = to}
Taken(sim, to, max) ==
    {i \in Addressed(sim, to) : Cardinality({j \in Addressed(sim, to) : j < i}) < max}

\* ... and what stays behind.
AfterReceive(sim, taken) ==
    [sim EXCEPT !.pending = [i \in DOMAIN @ |-> IF i \in taken THEN NoEntry ELSE @[i]]]

\* netcode_network_simulator_update: packets not fetched are discarded, those
\* due move to the list, in the order of the ring, until it is full.
Due(sim, time) == {i \in EntryIndices : sim.entries[i] # NoEntry /\ sim.entries[i].due <= time}
Moved(sim, time) ==
    {i \in Due(sim, time) : Cardinality({j \in Due(sim, time) : j < i}) < NumPending}

\* Mutant of EntriesAfterMove: the ring keeps the packets it handed over.
EntriesKept(sim, moved) == sim.entries

EntriesAfterMove(sim, moved) ==
    [i \in EntryIndices |-> IF i \in moved THEN NoEntry ELSE sim.entries[i]]

InOrder(S) == CHOOSE f \in [1 .. Cardinality(S) -> S] :
                \A i, j \in 1 .. Cardinality(S) : i < j => f[i] < f[j]

Updated(sim, time) ==
    LET moved == Moved(sim, time)
    IN  [sim EXCEPT !.time = time,
                    !.pending = [k \in 1 .. Cardinality(moved) |->
                                    sim.entries[InOrder(moved)[k]]],
                    !.entries = EntriesAfterMove(sim, moved)]

HeapAfterUpdate(sim, heap) == heap \ Owned(sim.pending)
=============================================================================

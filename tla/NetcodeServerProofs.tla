------------------------- MODULE NetcodeServerProofs -------------------------
(***************************************************************************)
(* The safety of netcode_server_t for every number of slots, mappings and  *)
(* history entries, every set of addresses, tokens and loopback clients,   *)
(* every sequence of packets and API calls.                                *)
(***************************************************************************)
EXTENDS NetcodeServer, EncryptionTableProofs, FiniteSetTheorems

-----------------------------------------------------------------------------
(* netcode_server_disconnect_all_clients, round by round: a loop is a      *)
(* recursive function of the number of rounds.                             *)

\* One round of netcode_server_disconnect_all_clients: slot n - 1.
Round(m, slots, n) ==
    LET c == client[n - 1]
        sent == TouchMapping(m, c.encryption_index, c.address, time)
    IN  IF n - 1 \in slots THEN RemoveMapping(sent, c.address, time) ELSE m

\* f[n] is the table after the first n rounds, for every n up to k.
Rounds(f, m, slots, k) ==
    f = [n \in 0 .. k |-> IF n = 0 THEN m ELSE Round(f[n - 1], slots, n)]

LEMMA RoundsExist ==
    ASSUME NEW m, NEW slots
    PROVE  \A k \in Nat : \E f : Rounds(f, m, slots, k)
<1> DEFINE B == {k \in Nat : ~\E f : Rounds(f, m, slots, k)}
<1>1. SUFFICES ASSUME B # {} PROVE FALSE
  OBVIOUS
<1>2. PICK k \in B : \A l \in B : k <= l
  <2>1. B \in SUBSET Nat
    OBVIOUS
  <2> HIDE DEF B
  <2> QED BY <1>1, <2>1, NatMin
<1>3. k \in Nat /\ ~\E f : Rounds(f, m, slots, k)
  BY <1>2
<1>4. CASE k = 0
  <2> DEFINE f == [n \in 0 .. 0 |-> m]
  <2>1. f = [n \in 0 .. 0 |-> IF n = 0 THEN m ELSE Round(f[n - 1], slots, n)]
    OBVIOUS
  <2>2. Rounds(f, m, slots, 0)
    BY <2>1 DEF Rounds
  <2> QED BY <1>3, <1>4, <2>2
<1>5. CASE k # 0
  <2>1. k - 1 \in Nat /\ k - 1 \notin B
    BY <1>2, <1>3, <1>5
  <2>2. PICK f : Rounds(f, m, slots, k - 1)
    BY <2>1
  <2> DEFINE g == [n \in 0 .. k |-> IF n = k THEN Round(f[k - 1], slots, k) ELSE f[n]]
  <2>3. ASSUME NEW n \in 0 .. k
        PROVE  g[n] = IF n = 0 THEN m ELSE Round(g[n - 1], slots, n)
    <3>1. \A l \in 0 .. k - 1 :
            f[l] = IF l = 0 THEN m ELSE Round(f[l - 1], slots, l)
      BY <2>2 DEF Rounds
    <3>2. CASE n = k
      <4>1. g[k] = Round(f[k - 1], slots, k) /\ g[k - 1] = f[k - 1]
        BY <1>3, <1>5
      <4> QED BY <3>2, <4>1, <1>5
    <3>3. CASE n # k /\ n # 0
      <4>1. n \in 0 .. k - 1 /\ n - 1 \in 0 .. k - 1 /\ n - 1 # k /\ n - 1 \in 0 .. k
        BY <3>3, <1>3
      <4>2. g[n] = f[n] /\ g[n - 1] = f[n - 1]
        BY <3>3, <4>1
      <4>3. f[n] = Round(f[n - 1], slots, n)
        BY <3>1, <3>3, <4>1
      <4> HIDE DEF g
      <4> QED BY <3>3, <4>2, <4>3
    <3>4. CASE n = 0
      <4>1. 0 \in 0 .. k - 1 /\ 0 \in 0 .. k
        BY <1>3, <1>5
      <4>2. g[0] = f[0] /\ f[0] = m
        BY <3>1, <4>1, <1>5
      <4> HIDE DEF g
      <4> QED BY <3>4, <4>2
    <3> QED BY <3>2, <3>3, <3>4
  <2>4. g = [n \in 0 .. k |-> IF n = 0 THEN m ELSE Round(g[n - 1], slots, n)]
    <3>1. g = [n \in 0 .. k |-> g[n]]
      OBVIOUS
    <3> HIDE DEF g
    <3> QED BY <2>3, <3>1
  <2>5. Rounds(g, m, slots, k)
    <3> HIDE DEF g
    <3> QED BY <2>4 DEF Rounds
  <2> QED BY <1>3, <2>5
<1> QED BY <1>4, <1>5

LEMMA DisconnectsAre ==
    ASSUME NEW m, NEW slots
    PROVE  \E f : /\ Rounds(f, m, slots, MaxClients)
                  /\ TableAfterDisconnects(m, slots) = f[MaxClients]
<1> DEFINE f == CHOOSE g : Rounds(g, m, slots, MaxClients)
<1>1. MaxClients \in Nat
  BY ServerAssumption
<1>2. \E g : Rounds(g, m, slots, MaxClients)
  BY <1>1, RoundsExist
<1>3. Rounds(f, m, slots, MaxClients)
  BY <1>2
<1>4. TableAfterDisconnects(m, slots) = f[MaxClients]
  BY Zenon DEF TableAfterDisconnects, Rounds, Round
<1> HIDE DEF f
<1> QED BY <1>3, <1>4

-----------------------------------------------------------------------------
(* Types.                                                                  *)

Timeouts == {TokenTimeout[t] : t \in Tokens} \cup {0}
TableKeys == Tokens \cup {NoKey}
Queues == Seq(Ids)
Challenges == [token : Tokens, key : Nat]
HistoryEntry ==
    [time : Int, mac : Tokens \cup {NoKey}, address : Addresses \cup {NoAddress}]

LEMMA ConstantFacts ==
    /\ Timeouts \in SUBSET Int /\ 0 \in Timeouts /\ NoKey \in TableKeys
    /\ \A t \in Tokens : /\ TokenTimeout[t] \in Timeouts /\ TokenTimeout[t] \in Int
                         /\ TokenId[t] \in Ids /\ t \in TableKeys /\ t # NoKey
    /\ LoopbackIds \subseteq Ids /\ NoId \notin Ids
    /\ MaxClients \in Nat /\ MaxClients > 0
BY ServerAssumption DEF Timeouts, TableKeys, Ids

LEMMA SlotFacts ==
    /\ Slots \subseteq Nat /\ Slots \in SUBSET Nat /\ \A i \in Slots : i < MaxClients
    /\ IsFiniteSet(Slots)
<1>1. Slots \subseteq Nat /\ Slots \in SUBSET Nat /\ \A i \in Slots : i < MaxClients
  BY ConstantFacts DEF Slots
<1>2. IsFiniteSet(Slots)
  <2>1. 0 \in Int /\ MaxClients - 1 \in Int
    BY ConstantFacts
  <2> QED BY <2>1, FS_Interval DEF Slots
<1> QED BY <1>1, <1>2

\* The type invariant, in the terms of the table; time-outs are the tokens'.
ServerTypes ==
    /\ time \in Nat /\ phase \in {"idle", "receiving"}
    /\ running \in BOOLEAN /\ max_clients \in 0 .. MaxClients
    /\ num_connected_clients \in Int
    /\ client \in [Slots -> SlotRecord]
    /\ connect_token_entries \in [History!EntryIndices -> HistoryEntry]
    /\ encryption_manager \in TableOf(Timeouts, TableKeys)
    /\ challenge_key \in Nat
    /\ challenges \subseteq Challenges

LEMMA TypesImply == ServerTypes => TypeOK
<1>1. EntryOf(Timeouts, TableKeys) \subseteq EntryRecord
  <2>1. Timeouts \subseteq Int
    BY ConstantFacts
  <2> QED BY <2>1 DEF EntryOf, EntryRecord, TableKeys
<1>2. TableOf(Timeouts, TableKeys) \subseteq
        [num : 0 .. MaxMappings, entry : [Indices -> EntryRecord]]
  BY <1>1 DEF TableOf
<1> QED BY <1>2 DEF ServerTypes, TypeOK, HistoryEntry, Challenges

\* The fields of a slot.
LEMMA SlotFields ==
    ASSUME NEW c \in SlotRecord
    PROVE  /\ c.connected \in BOOLEAN /\ c.loopback \in BOOLEAN /\ c.confirmed \in BOOLEAN
           /\ c.timeout \in Int /\ c.encryption_index \in Indices \cup {NotFound}
           /\ c.client_id \in Ids \cup {NoId} /\ c.address \in Addresses \cup {NoAddress}
           /\ c.last_send \in Nat /\ c.last_receive \in Nat /\ c.queue \in Queues
BY DEF SlotRecord, Queues

\* The assignments to a slot.
LEMMA FreeSlotType == FreeSlot \in SlotRecord
BY DEF FreeSlot, SlotRecord

VacatedFields(c, d) ==
    /\ d.connected = FALSE /\ d.loopback = c.loopback /\ d.queue = <<>>

VacatedWith(c, q) ==
    [c EXCEPT !.connected = FALSE, !.confirmed = FALSE, !.client_id = NoId,
              !.last_send = 0, !.last_receive = 0, !.address = NoAddress,
              !.encryption_index = NotFound, !.queue = q]

LEMMA VacatedWithFacts ==
    ASSUME NEW c \in SlotRecord, NEW q \in Queues
    PROVE  LET d == VacatedWith(c, q)
           IN  /\ d \in SlotRecord /\ d.connected = FALSE /\ d.loopback = c.loopback
               /\ d.queue = q
BY DEF SlotRecord, Queues, VacatedWith

LEMMA VacatedFacts ==
    ASSUME NEW c \in SlotRecord
    PROVE  Vacated(c) \in SlotRecord /\ VacatedFields(c, Vacated(c))
<1> DEFINE none == <<>>
<1>1. Vacated(c) = VacatedWith(c, none)
  BY DEF Vacated, VacatedWith
<1>2. none \in Queues
  BY DEF Queues
<1> HIDE DEF none
<1>3. LET d == VacatedWith(c, none)
      IN  d \in SlotRecord /\ d.connected = FALSE /\ d.loopback = c.loopback /\ d.queue = none
  BY <1>2, VacatedWithFacts
<1> QED BY <1>1, <1>3 DEF VacatedFields, none

\* What sending, receiving and reading leave alone.
Kept(c, d) ==
    /\ d.connected = c.connected /\ d.loopback = c.loopback
    /\ d.client_id = c.client_id /\ d.address = c.address
    /\ d.encryption_index = c.encryption_index /\ d.timeout = c.timeout

SentSlot(c, t) == [c EXCEPT !.last_send = t]
ConfirmedSlot(c, t) == [c EXCEPT !.last_receive = t, !.confirmed = TRUE]
PayloadSlot(c, t, q) == [c EXCEPT !.last_receive = t, !.confirmed = TRUE, !.queue = q]
HeardSlot(c, t, q) == [c EXCEPT !.last_receive = t, !.queue = q]
ReadSlot(c, q) == [c EXCEPT !.queue = q]

LEMMA SentFacts ==
    ASSUME NEW c \in SlotRecord, NEW t \in Nat
    PROVE  LET d == SentSlot(c, t)
           IN  d \in SlotRecord /\ Kept(c, d) /\ d.queue = c.queue /\ d.last_send = t
BY DEF SlotRecord, Kept, SentSlot

LEMMA ConfirmedFacts ==
    ASSUME NEW c \in SlotRecord, NEW t \in Nat
    PROVE  LET d == ConfirmedSlot(c, t)
           IN  d \in SlotRecord /\ Kept(c, d) /\ d.queue = c.queue /\ d.last_send = c.last_send
BY DEF SlotRecord, Kept, ConfirmedSlot

LEMMA PayloadSlotFacts ==
    ASSUME NEW c \in SlotRecord, NEW t \in Nat, NEW q \in Queues
    PROVE  LET d == PayloadSlot(c, t, q)
           IN  d \in SlotRecord /\ Kept(c, d) /\ d.queue = q /\ d.last_send = c.last_send
BY DEF SlotRecord, Kept, Queues, PayloadSlot

LEMMA HeardFacts ==
    ASSUME NEW c \in SlotRecord, NEW t \in Nat, NEW q \in Queues
    PROVE  LET d == HeardSlot(c, t, q)
           IN  d \in SlotRecord /\ Kept(c, d) /\ d.queue = q /\ d.last_send = c.last_send
BY DEF SlotRecord, Kept, Queues, HeardSlot

LEMMA ReadFacts ==
    ASSUME NEW c \in SlotRecord, NEW q \in Queues
    PROVE  LET d == ReadSlot(c, q)
           IN  d \in SlotRecord /\ Kept(c, d) /\ d.queue = q /\ d.last_send = c.last_send
BY DEF SlotRecord, Kept, Queues, ReadSlot

\* A new remote client, a new loopback client, and a slot the latter left.
RemoteSlot(c, j, t, id, a, now) ==
    [c EXCEPT !.connected = TRUE, !.encryption_index = j, !.timeout = t,
              !.client_id = id, !.address = a, !.last_send = now, !.last_receive = now]

LoopbackSlot(c, id, now) ==
    [c EXCEPT !.connected = TRUE, !.loopback = TRUE, !.confirmed = TRUE,
              !.encryption_index = NotFound, !.client_id = id,
              !.address = NoAddress, !.last_send = now, !.last_receive = now]

UnloopedSlot(c) == [Vacated(c) EXCEPT !.loopback = FALSE]

LEMMA LoopbackFacts ==
    ASSUME NEW c \in SlotRecord, NEW id \in Ids, NEW now \in Nat
    PROVE  LET d == LoopbackSlot(c, id, now)
           IN  /\ d \in SlotRecord /\ d.connected = TRUE /\ d.loopback = TRUE
               /\ d.client_id = id /\ d.queue = c.queue /\ d.address = NoAddress
BY DEF SlotRecord, LoopbackSlot

LEMMA UnloopedFacts ==
    ASSUME NEW c \in SlotRecord
    PROVE  LET d == UnloopedSlot(c)
           IN  /\ d \in SlotRecord /\ d.connected = FALSE /\ d.loopback = FALSE
               /\ d.queue = <<>>
<1> DEFINE v == Vacated(c)
<1>1. v \in SlotRecord /\ v.connected = FALSE /\ v.queue = <<>>
  BY VacatedFacts DEF VacatedFields
<1> HIDE DEF v
<1>2. LET d == [v EXCEPT !.loopback = FALSE]
      IN  d \in SlotRecord /\ d.connected = FALSE /\ d.loopback = FALSE /\ d.queue = <<>>
  BY <1>1 DEF SlotRecord
<1> QED BY <1>2 DEF v, UnloopedSlot

\* netcode_packet_queue_push and _pop.
LEMMA PushFacts ==
    ASSUME NEW q \in Queues, NEW id \in Ids
    PROVE  /\ Push(q, id) \in Queues
           /\ q # <<>> => Tail(q) \in Queues
BY DEF Push, Queues

\* The table after a search, for whoever.
LEMMA TableForType ==
    ASSUME ServerTypes, NEW a \in Addresses
    PROVE  /\ TableFor(a) \in TableOf(Timeouts, TableKeys)
           /\ time \in Int
<1>1. time \in Int /\ encryption_manager \in TableOf(Timeouts, TableKeys)
  BY DEF ServerTypes
<1>2. FindTouch(encryption_manager, a, time) \in TableOf(Timeouts, TableKeys)
  BY <1>1, ConstantFacts, FindTouchFacts
<1> QED BY <1>1, <1>2 DEF TableFor

\* The occupants found at an address are slots, the first one among them.
LEMMA AtAddressFacts ==
    ASSUME NEW a, AtAddress(a) # {}
    PROVE  LET i == Min(AtAddress(a))
           IN  i \in Slots /\ Connected(i) /\ client[i].address = a
<1>1. AtAddress(a) \in SUBSET Nat
  BY SlotFacts DEF AtAddress
<1>2. Min(AtAddress(a)) \in AtAddress(a)
  BY <1>1, MinFacts
<1> QED BY <1>2 DEF AtAddress

LEMMA FreeSlotsFacts ==
    ASSUME FreeSlots # {}
    PROVE  LET i == Min(FreeSlots)
           IN  i \in Slots /\ i < max_clients /\ ~client[i].connected
<1>1. FreeSlots \in SUBSET Nat
  BY SlotFacts DEF FreeSlots
<1>2. Min(FreeSlots) \in FreeSlots
  BY <1>1, MinFacts
<1> QED BY <1>2 DEF FreeSlots

-----------------------------------------------------------------------------
(* The slots.  Whatever is called, a step does one of three things: some   *)
(* clients leave and the others stay, one arrives, or the server starts or *)
(* stops.                                                                  *)

\* A slot somebody left.
Left(d) == d.connected = FALSE /\ d.loopback = FALSE /\ d.queue = <<>>

\* The same client before and after; only a connected one's queue may change.
Stays(c, d) == Kept(c, d) /\ (c.connected = FALSE => d.queue = c.queue)

Leave(L) ==
    /\ client' \in [Slots -> SlotRecord]
    /\ L \subseteq {k \in Slots : client[k].connected = TRUE}
    /\ \A k \in L : Left(client'[k])
    /\ \A k \in Slots \ L : Stays(client[k], client'[k])
    /\ num_connected_clients' = num_connected_clients - Cardinality(L)
    /\ max_clients' = max_clients /\ running' = running

Arrive(i, d) ==
    /\ i \in Slots /\ i < max_clients /\ client[i].connected = FALSE /\ running
    /\ d \in SlotRecord /\ d.connected = TRUE /\ d.queue = client[i].queue
    /\ d.client_id \in Ids
    /\ client' = [client EXCEPT ![i] = d]
    /\ num_connected_clients' = num_connected_clients + 1
    /\ max_clients' = max_clients /\ running' = running
    /\ \/ d.loopback = TRUE /\ d.address = NoAddress
       \/ /\ d.loopback = FALSE /\ d.address \in Addresses
          /\ AtAddress(d.address) = {} /\ WithId(d.client_id) = {}

Restart ==
    /\ client' \in [Slots -> SlotRecord]
    /\ \A k \in Slots : \/ Left(client'[k])
                         \/ /\ client[k].loopback = TRUE /\ Kept(client[k], client'[k])
                            /\ client[k].connected = TRUE
                            /\ client'[k].queue \in {client[k].queue, <<>>}
    /\ num_connected_clients' = 0
    /\ StopWithLoopback \/ NoLoopback
    /\ max_clients' \in 0 .. MaxClients /\ running' \in BOOLEAN
    /\ running' = FALSE => max_clients' = 0

\* What relates the slots to each other and to the server.
SlotInv ==
    /\ running = FALSE => max_clients = 0
    /\ \A i \in Slots :
         LET c == client[i]
         IN  /\ c.connected = TRUE /\ c.loopback = FALSE =>
                  i < max_clients /\ c.address \in Addresses
             /\ c.loopback = TRUE => c.connected = TRUE /\ c.address = NoAddress
             /\ c.connected = FALSE => c.queue = <<>>
             /\ c.connected = TRUE => c.client_id \in Ids
    /\ RemoteClientsDistinct

BaseInv == ServerTypes /\ SlotInv

LEMMA LeaveSlotInv ==
    ASSUME BaseInv, NEW L, Leave(L)
    PROVE  SlotInv'
<1>1. \A k \in Slots : client[k] \in SlotRecord /\ client'[k] \in SlotRecord
  BY DEF BaseInv, ServerTypes, Leave
<1>2. \A k \in Slots : Left(client'[k]) \/ Stays(client[k], client'[k])
  BY DEF Leave
<1>3. max_clients' = max_clients /\ running' = running
  BY DEF Leave
<1>4. \A k \in Slots : Remote(k)' =>
        /\ Remote(k) /\ client'[k].address = client[k].address
        /\ client'[k].client_id = client[k].client_id
  BY <1>1, <1>2, <1>3, SlotFields DEF Remote, Connected, Left, Stays, Kept
<1>5. RemoteClientsDistinct'
  BY <1>4 DEF RemoteClientsDistinct, BaseInv, SlotInv
<1>6. ASSUME NEW i \in Slots
      PROVE  LET c == client'[i]
             IN  /\ c.connected = TRUE /\ c.loopback = FALSE =>
                      i < max_clients' /\ c.address \in Addresses
                 /\ c.loopback = TRUE => c.connected = TRUE /\ c.address = NoAddress
                 /\ c.connected = FALSE => c.queue = <<>>
                 /\ c.connected = TRUE => c.client_id \in Ids
  BY <1>1, <1>2, <1>3, SlotFields DEF BaseInv, SlotInv, Left, Stays, Kept
<1> QED BY <1>3, <1>5, <1>6 DEF SlotInv, BaseInv

LEMMA ArriveSlotInv ==
    ASSUME BaseInv, NEW i, NEW d, Arrive(i, d)
    PROVE  SlotInv' /\ client' \in [Slots -> SlotRecord]
<1>1. /\ i \in Slots /\ i < max_clients /\ client[i].connected = FALSE
      /\ d \in SlotRecord /\ d.connected = TRUE
      /\ client' = [client EXCEPT ![i] = d]
      /\ max_clients' = max_clients /\ running' = running
  BY DEF Arrive
<1>2. client \in [Slots -> SlotRecord]
  BY DEF BaseInv, ServerTypes
<1>3. /\ client' \in [Slots -> SlotRecord]
      /\ client'[i] = d /\ \A k \in Slots \ {i} : client'[k] = client[k]
  BY <1>1, <1>2
<1>4. \A k \in Slots \ {i} : Remote(k)' <=> Remote(k)
  BY <1>1, <1>3 DEF Remote, Connected
<1>5. RemoteClientsDistinct'
  <2> SUFFICES ASSUME NEW k \in Slots, NEW l \in Slots, k # l, Remote(k)', Remote(l)'
               PROVE  /\ client'[k].address # client'[l].address
                      /\ client'[k].client_id # client'[l].client_id
    BY DEF RemoteClientsDistinct
  <2>1. CASE k # i /\ l # i
    BY <2>1, <1>3, <1>4 DEF RemoteClientsDistinct, BaseInv, SlotInv
  <2>2. ASSUME NEW m \in Slots, m # i, Remote(m)', Remote(i)'
        PROVE  /\ client'[m].address # client'[i].address
               /\ client'[m].client_id # client'[i].client_id
    <3>1. d.loopback = FALSE
      BY <2>2, <1>3, SlotFields DEF Remote, Arrive
    <3>2. AtAddress(d.address) = {} /\ WithId(d.client_id) = {}
      BY <3>1 DEF Arrive
    <3>3. Connected(m) /\ client'[m] = client[m]
      BY <2>2, <1>3, <1>4 DEF Remote
    <3> QED BY <3>2, <3>3, <1>3 DEF AtAddress, WithId
  <2> QED BY <2>1, <2>2
<1>6. ASSUME NEW k \in Slots
      PROVE  LET c == client'[k]
             IN  /\ c.connected = TRUE /\ c.loopback = FALSE =>
                      k < max_clients' /\ c.address \in Addresses
                 /\ c.loopback = TRUE => c.connected = TRUE /\ c.address = NoAddress
                 /\ c.connected = FALSE => c.queue = <<>>
                 /\ c.connected = TRUE => c.client_id \in Ids
  <2>1. CASE k = i
    BY <2>1, <1>1, <1>3 DEF Arrive
  <2>2. CASE k # i
    BY <2>2, <1>1, <1>3 DEF BaseInv, SlotInv
  <2> QED BY <2>1, <2>2
<1>7. running' = FALSE => max_clients' = 0
  BY <1>1 DEF BaseInv, SlotInv
<1> QED BY <1>3, <1>5, <1>6, <1>7 DEF SlotInv

LEMMA RestartSlotInv ==
    ASSUME BaseInv, Restart
    PROVE  SlotInv'
<1>1. \A k \in Slots : client[k] \in SlotRecord /\ client'[k] \in SlotRecord
  BY DEF BaseInv, ServerTypes, Restart
<1>2. \A k \in Slots : ~Remote(k)'
  BY <1>1, SlotFields DEF Restart, Remote, Connected, Left, Kept
<1>3. RemoteClientsDistinct'
  BY <1>2 DEF RemoteClientsDistinct
<1>4. ASSUME NEW i \in Slots
      PROVE  LET c == client'[i]
             IN  /\ c.connected = TRUE /\ c.loopback = FALSE =>
                      i < max_clients' /\ c.address \in Addresses
                 /\ c.loopback = TRUE => c.connected = TRUE /\ c.address = NoAddress
                 /\ c.connected = FALSE => c.queue = <<>>
                 /\ c.connected = TRUE => c.client_id \in Ids
  BY <1>1, SlotFields DEF BaseInv, SlotInv, Restart, Left, Kept
<1>5. running' = FALSE => max_clients' = 0
  BY DEF Restart
<1> QED BY <1>3, <1>4, <1>5 DEF SlotInv

\* Steps that assign one slot.
LEMMA OneStays ==
    ASSUME ServerTypes, NEW i \in Slots, NEW d \in SlotRecord, Stays(client[i], d),
           client' = [client EXCEPT ![i] = d],
           num_connected_clients' = num_connected_clients,
           max_clients' = max_clients, running' = running
    PROVE  Leave({})
<1>1. client \in [Slots -> SlotRecord] /\ num_connected_clients \in Int
  BY DEF ServerTypes
<1>2. /\ client' \in [Slots -> SlotRecord]
      /\ client'[i] = d /\ \A k \in Slots \ {i} : client'[k] = client[k]
  BY <1>1
<1>3. \A k \in Slots : Stays(client[k], client'[k])
  BY <1>2 DEF Stays, Kept
<1> QED BY <1>1, <1>2, <1>3, FS_EmptySet DEF Leave

LEMMA NoneLeaves ==
    ASSUME ServerTypes, client' = client,
           num_connected_clients' = num_connected_clients,
           max_clients' = max_clients, running' = running
    PROVE  Leave({})
<1>1. client \in [Slots -> SlotRecord] /\ num_connected_clients \in Int
  BY DEF ServerTypes
<1> QED BY <1>1, FS_EmptySet DEF Leave, Stays, Kept

LEMMA OneLeaves ==
    ASSUME ServerTypes, NEW i \in Slots, client[i].connected = TRUE,
           NEW d \in SlotRecord, Left(d),
           client' = [client EXCEPT ![i] = d],
           num_connected_clients' = num_connected_clients - 1,
           max_clients' = max_clients, running' = running
    PROVE  Leave({i})
<1>1. client \in [Slots -> SlotRecord]
  BY DEF ServerTypes
<1>2. /\ client' \in [Slots -> SlotRecord]
      /\ client'[i] = d /\ \A k \in Slots \ {i} : client'[k] = client[k]
  BY <1>1
<1>3. Cardinality({i}) = 1
  BY FS_Singleton
<1> QED BY <1>2, <1>3 DEF Leave, Stays, Kept

\* Vacating the slot of a remote client.
LEMMA RemoteLeft ==
    ASSUME BaseInv, NEW i \in Slots, client[i].loopback = FALSE
    PROVE  Vacated(client[i]) \in SlotRecord /\ Left(Vacated(client[i]))
BY VacatedFacts DEF BaseInv, ServerTypes, VacatedFields, Left

\* A client found at a packet's address is a remote one.
LEMMA FoundIsRemote ==
    ASSUME BaseInv, NEW a \in Addresses, AtAddress(a) # {}
    PROVE  LET i == Min(AtAddress(a))
           IN  /\ i \in Slots /\ client[i] \in SlotRecord /\ Remote(i)
               /\ client[i].connected = TRUE /\ client[i].loopback = FALSE
               /\ client[i].address = a
<1> DEFINE i == Min(AtAddress(a))
<1>1. i \in Slots /\ Connected(i) /\ client[i].address = a
  BY AtAddressFacts
<1> HIDE DEF i
<1>2. client[i] \in SlotRecord /\ a # NoAddress
  BY <1>1, TableAssumption DEF BaseInv, ServerTypes
<1>3. client[i].loopback = FALSE
  BY <1>1, <1>2, SlotFields DEF BaseInv, SlotInv
<1>4. client[i].connected = TRUE
  BY <1>1, <1>2, SlotFields DEF Connected
<1> QED BY <1>1, <1>2, <1>3, <1>4 DEF i, Remote

LEMMA KeepAliveSlots ==
    ASSUME BaseInv, NEW a \in Addresses, NEW t \in Tokens, KeepAlivePacket(a, t)
    PROVE  Leave({})
<1> DEFINE i == Min(AtAddress(a))
           d == ConfirmedSlot(client[i], time)
<1>1. i \in Slots /\ client[i] \in SlotRecord /\ time \in Nat
  BY FoundIsRemote DEF KeepAlivePacket, FromClient, BaseInv, ServerTypes
<1>2. client' = [client EXCEPT ![i].last_receive = time, ![i].confirmed = TRUE]
  BY DEF KeepAlivePacket
<1>3. client \in [Slots -> SlotRecord]
  BY DEF BaseInv, ServerTypes
<1> HIDE DEF i
<1>4. client' = [client EXCEPT ![i] = d]
  BY <1>1, <1>2, <1>3 DEF SlotRecord, ConfirmedSlot
<1>5. d \in SlotRecord /\ Stays(client[i], d)
  BY <1>1, ConfirmedFacts DEF Stays
<1> HIDE DEF d
<1> QED BY <1>1, <1>4, <1>5, OneStays DEF KeepAlivePacket, BaseInv, lifecycleVars

LEMMA PayloadSlots ==
    ASSUME BaseInv, NEW a \in Addresses, NEW t \in Tokens, PayloadPacket(a, t)
    PROVE  /\ Leave({})
           /\ \A k \in Slots : \/ client'[k] = client[k]
                               \/ /\ k = Min(AtAddress(a))
                                  /\ client'[k].queue = Push(client[k].queue, TokenId[t])
                                  /\ client'[k].last_send = client[k].last_send
<1> DEFINE i == Min(AtAddress(a))
           q == Push(client[i].queue, TokenId[t])
           d == PayloadSlot(client[i], time, q)
<1>1. /\ i \in Slots /\ client[i] \in SlotRecord /\ time \in Nat
      /\ client[i].connected = TRUE
  BY FoundIsRemote DEF PayloadPacket, FromClient, BaseInv, ServerTypes
<1>2. client' = [client EXCEPT ![i].last_receive = time, ![i].confirmed = TRUE,
                               ![i].queue = Push(@, TokenId[t])]
  BY DEF PayloadPacket
<1>3. client \in [Slots -> SlotRecord]
  BY DEF BaseInv, ServerTypes
<1>4. q \in Queues
  BY <1>1, SlotFields, PushFacts, ConstantFacts
<1> HIDE DEF i
<1>5. client' = [client EXCEPT ![i] = d]
  BY <1>1, <1>2, <1>3 DEF SlotRecord, PayloadSlot
<1> HIDE DEF q
<1>6. /\ d \in SlotRecord /\ Stays(client[i], d) /\ d.queue = q
      /\ d.last_send = client[i].last_send
  <2>1. /\ d \in SlotRecord /\ Kept(client[i], d) /\ d.queue = q
        /\ d.last_send = client[i].last_send
    BY <1>1, <1>4, PayloadSlotFacts
  <2> HIDE DEF d
  <2> QED BY <2>1, <1>1 DEF Stays
<1> HIDE DEF d
<1>7. client'[i] = d /\ \A k \in Slots \ {i} : client'[k] = client[k]
  BY <1>1, <1>3, <1>5
<1>8. Leave({})
  BY <1>1, <1>5, <1>6, OneStays DEF PayloadPacket, BaseInv, lifecycleVars
<1> QED BY <1>1, <1>6, <1>7, <1>8 DEF i, q

LEMMA DisconnectSlots ==
    ASSUME BaseInv, NEW a \in Addresses, NEW t \in Tokens, DisconnectPacket(a, t)
    PROVE  Leave({Min(AtAddress(a))})
<1> DEFINE i == Min(AtAddress(a))
           d == Vacated(client[i])
<1>1. i \in Slots /\ client[i].connected = TRUE /\ client[i].loopback = FALSE
  BY FoundIsRemote DEF DisconnectPacket, FromClient
<1>2. d \in SlotRecord /\ Left(d)
  BY <1>1, RemoteLeft
<1>3. client' = [client EXCEPT ![i] = d]
  BY DEF DisconnectPacket
<1>4. num_connected_clients' = num_connected_clients - 1
      /\ max_clients' = max_clients /\ running' = running
  BY DEF DisconnectPacket, CountDown, lifecycleVars
<1> HIDE DEF i, d
<1>5. Leave({i})
  BY <1>1, <1>2, <1>3, <1>4, OneLeaves DEF BaseInv
<1> QED BY <1>5 DEF i

\* netcode_server_send_client_packet: the slots keep their clients.
LEMMA SendsFacts ==
    ASSUME ServerTypes, NEW em, NEW slots
    PROVE  LET r == ClientsAfterSends(em, slots)
           IN  /\ r \in [Slots -> SlotRecord]
               /\ \A k \in Slots : /\ Stays(client[k], r[k]) /\ r[k].queue = client[k].queue
                                   /\ r[k].last_send = IF k \in slots /\ CanSend(em, k)
                                                       THEN time ELSE client[k].last_send
<1> DEFINE r == ClientsAfterSends(em, slots)
<1>1. ASSUME NEW k \in Slots
      PROVE  /\ r[k] \in SlotRecord
             /\ Stays(client[k], r[k]) /\ r[k].queue = client[k].queue
             /\ r[k].last_send = IF k \in slots /\ CanSend(em, k)
                                 THEN time ELSE client[k].last_send
  <2>1. client[k] \in SlotRecord /\ time \in Nat
    BY DEF ServerTypes
  <2>2. r[k] = IF k \in slots /\ CanSend(em, k) THEN SentSlot(client[k], time) ELSE client[k]
    BY DEF ClientsAfterSends, SentSlot
  <2> HIDE DEF r
  <2> QED BY <2>1, <2>2, SentFacts DEF Stays, Kept
<1>2. r \in [Slots -> SlotRecord]
  <2>1. r = [k \in Slots |-> r[k]]
    BY DEF ClientsAfterSends
  <2> HIDE DEF r
  <2> QED BY <2>1, <1>1
<1> QED BY <1>1, <1>2

LEMMA ConnectSlots ==
    ASSUME BaseInv, NEW a \in Addresses, NEW c \in challenges, ConnectClient(a, c)
    PROVE  /\ c \in Challenges /\ AtAddress(a) = {}
           /\ FindIndex(encryption_manager, a, time) \in Indices
           /\ InUse(encryption_manager, FindIndex(encryption_manager, a, time), a, time)
           /\ TableFor(a).entry[FindIndex(encryption_manager, a, time)].key = c.token
           /\ \E d : /\ Arrive(Min(FreeSlots), d)
                     /\ d.loopback = FALSE /\ d.address = a /\ d.client_id = TokenId[c.token]
                     /\ d.encryption_index = FindIndex(encryption_manager, a, time)
                     /\ d.last_send = time
<1> DEFINE i == Min(FreeSlots)
           j == FindIndex(encryption_manager, a, time)
           o == TimeoutOf(TableFor(a), j)
           d == RemoteSlot(client[i], j, o, TokenId[c.token], a, time)
<1>1. c \in Challenges /\ c.token \in Tokens
  BY DEF BaseInv, ServerTypes, Challenges
<1>2. AtAddress(a) = {} /\ WithId(TokenId[c.token]) = {} /\ running
  BY DEF ConnectClient, ResponseAcceptable, ChallengedId, Receiving
<1>3. IndexFor(a) = j
  BY <1>2 DEF IndexFor
<1>4. KeyOf(TableFor(a), j) = c.token
  BY <1>3 DEF ConnectClient, ResponseAcceptable
<1>5. j # NotFound
  BY <1>1, <1>4, ConstantFacts DEF KeyOf
<1>6. j \in Indices /\ InUse(encryption_manager, j, a, time)
  BY <1>5, FindFacts
<1>7. TableFor(a).entry[j].key = c.token
  BY <1>4, <1>5 DEF KeyOf
<1>8. /\ i \in Slots /\ i < max_clients /\ ~client[i].connected
      /\ client[i] \in SlotRecord /\ time \in Nat
  BY FreeSlotsFacts DEF ConnectClient, BaseInv, ServerTypes
<1>9. client[i].connected = FALSE /\ client[i].loopback = FALSE
  <2>1. i \in Slots /\ client[i] \in SlotRecord /\ ~client[i].connected
    BY <1>8
  <2> HIDE DEF i
  <2> QED BY <2>1, SlotFields DEF BaseInv, SlotInv
<1>10. o \in Int
  <2>1. TableFor(a) \in TableOf(Timeouts, TableKeys)
    BY TableForType DEF BaseInv
  <2>2. TableFor(a).entry[j] \in EntryOf(Timeouts, TableKeys)
    BY <2>1, <1>6, ConstantFacts, TableFields
  <2>3. TableFor(a).entry[j].timeout \in Int
    BY <2>2, ConstantFacts DEF EntryOf
  <2> QED BY <2>3, <1>5 DEF TimeoutOf
<1>11. client' = [client EXCEPT ![i] = d]
  BY <1>3 DEF ConnectClient, RemoteSlot, ChallengedId
<1>12. /\ num_connected_clients' = num_connected_clients + 1
       /\ max_clients' = max_clients /\ running' = running
  BY DEF ConnectClient, CountUp, lifecycleVars
<1>13. TokenId[c.token] \in Ids
  BY <1>1, ConstantFacts
<1> HIDE DEF i, j, o
<1>14. /\ d \in SlotRecord /\ d.connected = TRUE /\ d.loopback = FALSE
       /\ d.encryption_index = j /\ d.client_id = TokenId[c.token] /\ d.address = a
       /\ d.queue = client[i].queue /\ d.last_send = time
  <2>1. /\ client[i] \in SlotRecord /\ j \in Indices /\ o \in Int
        /\ TokenId[c.token] \in Ids /\ time \in Nat
    BY <1>6, <1>8, <1>10, <1>13
  <2>2. /\ d \in SlotRecord /\ d.connected = TRUE /\ d.loopback = client[i].loopback
        /\ d.encryption_index = j /\ d.client_id = TokenId[c.token] /\ d.address = a
        /\ d.queue = client[i].queue /\ d.last_send = time
    BY <2>1 DEF RemoteSlot, SlotRecord
  <2> QED BY <2>2, <1>9
<1> HIDE DEF d
<1>15. Arrive(i, d)
  BY <1>2, <1>13, <1>8, <1>9, <1>11, <1>12, <1>14 DEF Arrive
<1> QED BY <1>1, <1>2, <1>6, <1>7, <1>14, <1>15 DEF i, j

LEMMA ConnectLoopbackSlots ==
    ASSUME BaseInv, NEW i \in Slots, NEW id \in LoopbackIds, ConnectLoopbackClient(i, id)
    PROVE  Arrive(i, LoopbackSlot(client[i], id, time))
<1> DEFINE d == LoopbackSlot(client[i], id, time)
<1>1. client[i] \in SlotRecord /\ time \in Nat /\ id \in Ids
  BY ConstantFacts DEF BaseInv, ServerTypes
<1>2. i < max_clients /\ client[i].connected = FALSE /\ running
  <2>1. i < max_clients /\ ~client[i].connected /\ running
    BY DEF ConnectLoopbackClient, ApiCall
  <2>2. client[i].connected \in BOOLEAN
    BY <1>1, SlotFields
  <2> QED BY <2>1, <2>2
<1>3. /\ num_connected_clients' = num_connected_clients + 1
      /\ max_clients' = max_clients /\ running' = running
  BY DEF ConnectLoopbackClient, CountUp, lifecycleVars
<1>4. client' = [client EXCEPT ![i] = d]
  BY DEF ConnectLoopbackClient, LoopbackSlot
<1>5. /\ d \in SlotRecord /\ d.connected = TRUE /\ d.loopback = TRUE
      /\ d.queue = client[i].queue /\ d.address = NoAddress /\ d.client_id = id
  <2> DEFINE c == client[i]
  <2>1. c \in SlotRecord /\ time \in Nat /\ id \in Ids
    BY <1>1
  <2> HIDE DEF c
  <2>2. /\ LoopbackSlot(c, id, time) \in SlotRecord
        /\ LoopbackSlot(c, id, time).connected = TRUE
        /\ LoopbackSlot(c, id, time).loopback = TRUE
        /\ LoopbackSlot(c, id, time).queue = c.queue
        /\ LoopbackSlot(c, id, time).address = NoAddress
        /\ LoopbackSlot(c, id, time).client_id = id
    BY <2>1, LoopbackFacts
  <2> QED BY <2>2 DEF c
<1> HIDE DEF d
<1>6. Arrive(i, d)
  BY <1>1, <1>2, <1>3, <1>4, <1>5 DEF Arrive
<1> QED BY <1>6 DEF d

LEMMA DisconnectLoopbackSlots ==
    ASSUME BaseInv, NEW i \in Slots, DisconnectLoopbackClient(i)
    PROVE  Leave({i})
<1> DEFINE d == UnloopedSlot(client[i])
<1>1. client[i] \in SlotRecord
  BY DEF BaseInv, ServerTypes
<1>2. client[i].connected = TRUE
  BY <1>1, SlotFields DEF DisconnectLoopbackClient, Connected
<1>3. d \in SlotRecord /\ Left(d)
  BY <1>1, UnloopedFacts DEF Left
<1>4. client' = [client EXCEPT ![i] = d]
  BY DEF DisconnectLoopbackClient, UnloopedSlot
<1>5. /\ num_connected_clients' = num_connected_clients - 1
      /\ max_clients' = max_clients /\ running' = running
  BY DEF DisconnectLoopbackClient, CountDown, lifecycleVars
<1> HIDE DEF d
<1> QED BY <1>2, <1>3, <1>4, <1>5, OneLeaves DEF BaseInv

LEMMA ProcessLoopbackSlots ==
    ASSUME BaseInv, NEW i \in Slots, ProcessLoopbackPacket(i)
    PROVE  /\ Leave({})
           /\ \A k \in Slots : \/ client'[k] = client[k]
                               \/ /\ k = i /\ client[k].loopback = TRUE
                                  /\ client'[k].queue =
                                        Push(client[k].queue, client[k].client_id)
<1> DEFINE q == Push(client[i].queue, client[i].client_id)
           d == HeardSlot(client[i], time, q)
<1>1. /\ client[i] \in SlotRecord /\ time \in Nat
      /\ client \in [Slots -> SlotRecord]
  BY DEF BaseInv, ServerTypes
<1>2. client[i].connected = TRUE /\ client[i].loopback = TRUE
  BY <1>1, SlotFields DEF ProcessLoopbackPacket, Connected
<1>3. /\ Leave({})
      /\ client'[i].queue = q /\ \A k \in Slots \ {i} : client'[k] = client[k]
  <2>0. client[i].client_id \in Ids
    BY <1>2 DEF BaseInv, SlotInv
  <2>1. q \in Queues
    BY <1>1, <2>0, SlotFields, PushFacts
  <2>2. client' = [client EXCEPT ![i].last_receive = time,
                                 ![i].queue = Push(@, client[i].client_id)]
    BY DEF ProcessLoopbackPacket
  <2>3. client' = [client EXCEPT ![i] = d]
    BY <1>1, <2>2 DEF SlotRecord, HeardSlot
  <2> HIDE DEF q
  <2>4. d \in SlotRecord /\ Kept(client[i], d) /\ d.queue = q
    BY <1>1, <2>1, HeardFacts
  <2> HIDE DEF d
  <2>5. Stays(client[i], d)
    BY <1>2, <2>4 DEF Stays
  <2>6. Leave({})
    BY <2>3, <2>4, <2>5, OneStays DEF ProcessLoopbackPacket, BaseInv, lifecycleVars
  <2> QED BY <1>1, <2>3, <2>4, <2>6
<1> QED BY <1>2, <1>3

LEMMA SendPacketSlots ==
    ASSUME BaseInv, NEW i \in Slots, SendPacket(i)
    PROVE  Leave({}) /\ \A k \in Slots : client'[k].queue = client[k].queue
<1>1. /\ client \in [Slots -> SlotRecord] /\ client[i] \in SlotRecord /\ time \in Nat
      /\ ServerTypes /\ num_connected_clients \in Int
  BY DEF BaseInv, ServerTypes
<1>2. /\ num_connected_clients' = num_connected_clients
      /\ max_clients' = max_clients /\ running' = running
  BY DEF SendPacket, lifecycleVars
<1>3. CASE client[i].loopback
  <2> DEFINE d == SentSlot(client[i], time)
  <2>1. client' = [client EXCEPT ![i].last_send = time]
    BY <1>3 DEF SendPacket
  <2>2. client' = [client EXCEPT ![i] = d]
    BY <1>1, <2>1 DEF SlotRecord, SentSlot
  <2>3. d \in SlotRecord /\ Stays(client[i], d) /\ d.queue = client[i].queue
    BY <1>1, SentFacts DEF Stays
  <2> HIDE DEF d
  <2>4. Leave({})
    BY <1>1, <1>2, <2>2, <2>3, OneStays
  <2>5. client'[i] = d /\ \A k \in Slots \ {i} : client'[k] = client[k]
    BY <1>1, <2>2
  <2> QED BY <2>3, <2>4, <2>5
<1>4. CASE ~client[i].loopback
  <2>1. client' = ClientsAfterSends(encryption_manager, {i})
    BY <1>4 DEF SendPacket
  <2>2. /\ client' \in [Slots -> SlotRecord]
        /\ \A k \in Slots : Stays(client[k], client'[k]) /\ client'[k].queue = client[k].queue
    BY <1>1, <2>1, SendsFacts
  <2> QED BY <1>1, <1>2, <2>2, FS_EmptySet DEF Leave
<1> QED BY <1>3, <1>4

LEMMA ReceivePacketSlots ==
    ASSUME BaseInv, NEW i \in Slots, ReceivePacket(i)
    PROVE  /\ Leave({}) /\ client[i].queue # <<>>
           /\ client'[i].queue = Tail(client[i].queue)
           /\ client'[i].last_send = client[i].last_send
           /\ \A k \in Slots \ {i} : client'[k] = client[k]
<1> DEFINE q == Tail(client[i].queue)
           d == ReadSlot(client[i], q)
<1>1. /\ client \in [Slots -> SlotRecord] /\ client[i] \in SlotRecord /\ ServerTypes
      /\ client[i].queue \in Queues
  BY SlotFields DEF BaseInv, ServerTypes
<1>2. /\ num_connected_clients' = num_connected_clients
      /\ max_clients' = max_clients /\ running' = running
      /\ client[i].connected = TRUE /\ client[i].queue # <<>>
      /\ client' = [client EXCEPT ![i].queue = Tail(@)]
  BY <1>1, SlotFields DEF ReceivePacket, lifecycleVars, Connected
<1>3. q \in Queues
  BY <1>1, <1>2 DEF Queues
<1>4. client' = [client EXCEPT ![i] = d]
  BY <1>1, <1>2 DEF SlotRecord, ReadSlot
<1> HIDE DEF q
<1>5. d \in SlotRecord /\ Kept(client[i], d) /\ d.queue = q
      /\ d.last_send = client[i].last_send
  BY <1>1, <1>3, ReadFacts
<1> HIDE DEF d
<1>6. Stays(client[i], d)
  BY <1>2, <1>5 DEF Stays
<1>7. Leave({})
  BY <1>1, <1>2, <1>4, <1>5, <1>6, OneStays
<1>8. client'[i] = d /\ \A k \in Slots \ {i} : client'[k] = client[k]
  BY <1>1, <1>4
<1> QED BY <1>2, <1>5, <1>7, <1>8 DEF q

LEMMA DisconnectClientSlots ==
    ASSUME BaseInv, NEW i \in Slots, DisconnectClient(i)
    PROVE  Leave({i})
<1> DEFINE d == Vacated(client[i])
<1>1. client[i] \in SlotRecord
  BY DEF BaseInv, ServerTypes
<1>2. client[i].connected = TRUE /\ client[i].loopback = FALSE
  BY <1>1, SlotFields DEF DisconnectClient, Remote, Connected
<1>3. d \in SlotRecord /\ Left(d)
  BY <1>2, RemoteLeft
<1>4. /\ client' = [client EXCEPT ![i] = d]
      /\ num_connected_clients' = num_connected_clients - 1
      /\ max_clients' = max_clients /\ running' = running
  BY DEF DisconnectClient, CountDown, lifecycleVars
<1> HIDE DEF d
<1> QED BY <1>2, <1>3, <1>4, OneLeaves DEF BaseInv

\* netcode_server_stop and netcode_server_disconnect_all_clients empty the
\* slots of the remote clients.
LEMMA AfterStopFacts ==
    ASSUME BaseInv
    PROVE  LET r == ClientsAfterStop
           IN  /\ r \in [Slots -> SlotRecord]
               /\ \A k \in Slots : /\ Remote(k) => Left(r[k]) /\ client[k].connected = TRUE
                                   /\ ~Remote(k) => r[k] = client[k]
                                   /\ \/ Left(r[k])
                                      \/ /\ client[k].loopback = TRUE /\ r[k] = client[k]
                                         /\ client[k].connected = TRUE
<1> DEFINE r == ClientsAfterStop
<1>1. ASSUME NEW k \in Slots
      PROVE  /\ r[k] \in SlotRecord
             /\ Remote(k) => Left(r[k]) /\ client[k].connected = TRUE
             /\ ~Remote(k) => r[k] = client[k]
             /\ \/ Left(r[k])
                \/ /\ client[k].loopback = TRUE /\ r[k] = client[k]
                   /\ client[k].connected = TRUE
  <2>1. client[k] \in SlotRecord
    BY DEF BaseInv, ServerTypes
  <2>2. r[k] = IF Remote(k) THEN Vacated(client[k]) ELSE client[k]
    BY DEF ClientsAfterStop
  <2> HIDE DEF r
  <2>3. CASE Remote(k)
    <3>1. client[k].connected = TRUE /\ client[k].loopback = FALSE
      BY <2>1, <2>3, SlotFields DEF Remote, Connected
    <3> QED BY <3>1, <2>2, <2>3, RemoteLeft
  <2>4. CASE ~Remote(k)
    <3>1. client[k].connected = TRUE => client[k].loopback = TRUE
      BY <2>1, <2>4, SlotFields DEF Remote, Connected, BaseInv, SlotInv
    <3>2. client[k].connected = FALSE => client[k].loopback = FALSE /\ client[k].queue = <<>>
      BY <2>1, SlotFields DEF BaseInv, SlotInv
    <3> QED BY <2>1, <2>2, <2>4, <3>1, <3>2, SlotFields DEF Left
  <2> QED BY <2>3, <2>4
<1>2. r \in [Slots -> SlotRecord]
  <2>1. r = [k \in Slots |-> r[k]]
    BY DEF ClientsAfterStop
  <2> HIDE DEF r
  <2> QED BY <2>1, <1>1
<1> QED BY <1>1, <1>2

LEMMA DisconnectAllSlots ==
    ASSUME BaseInv, DisconnectAllClients
    PROVE  Leave({k \in Slots : Remote(k)})
<1> DEFINE all == {k \in Slots : Remote(k)}
<1>1. client' = ClientsAfterStop
  BY DEF DisconnectAllClients
<1>2. /\ num_connected_clients' = num_connected_clients - Cardinality(all)
      /\ max_clients' = max_clients /\ running' = running
  BY DEF DisconnectAllClients, lifecycleVars
<1>3. /\ client' \in [Slots -> SlotRecord]
      /\ \A k \in Slots : /\ Remote(k) => Left(client'[k]) /\ client[k].connected = TRUE
                          /\ ~Remote(k) => client'[k] = client[k]
  BY <1>1, AfterStopFacts
<1>4. /\ all \subseteq {k \in Slots : client[k].connected = TRUE}
      /\ \A k \in all : Left(client'[k])
      /\ \A k \in Slots \ all : Stays(client[k], client'[k])
  BY <1>3 DEF Stays, Kept
<1> QED BY <1>2, <1>3, <1>4 DEF Leave

LEMMA StopSlots ==
    ASSUME BaseInv, Stop
    PROVE  Restart
<1>1. client' = ClientsAfterStop /\ num_connected_clients' = 0
      /\ max_clients' = 0 /\ running' = FALSE /\ (StopWithLoopback \/ NoLoopback)
  BY DEF Stop
<1>2. /\ client' \in [Slots -> SlotRecord]
      /\ \A k \in Slots : \/ Left(client'[k])
                          \/ /\ client[k].loopback = TRUE /\ client'[k] = client[k]
                             /\ client[k].connected = TRUE
  BY <1>1, AfterStopFacts
<1>3. 0 \in 0 .. MaxClients
  BY ConstantFacts
<1> QED BY <1>1, <1>2, <1>3 DEF Restart, Kept

LEMMA StartSlots ==
    ASSUME BaseInv, NEW n \in 1 .. MaxClients, Start(n)
    PROVE  Restart /\ running'
<1> DEFINE base == IF running THEN ClientsAfterStop ELSE client
<1>1. /\ base \in [Slots -> SlotRecord]
      /\ \A k \in Slots : \/ Left(base[k])
                          \/ /\ client[k].loopback = TRUE /\ base[k] = client[k]
                             /\ client[k].connected = TRUE
  <2>1. CASE running
    BY <2>1, AfterStopFacts
  <2>2. CASE ~running
    <3>1. client \in [Slots -> SlotRecord] /\ running = FALSE /\ max_clients = 0
      BY <2>2 DEF BaseInv, ServerTypes, SlotInv
    <3>2. ASSUME NEW k \in Slots
          PROVE  \/ Left(client[k])
                 \/ client[k].loopback = TRUE /\ client[k].connected = TRUE
      <4>1. client[k] \in SlotRecord /\ ~(k < max_clients)
        BY <3>1, SlotFacts
      <4> QED BY <4>1, SlotFields DEF BaseInv, SlotInv, Left
    <3> QED BY <2>2, <3>1, <3>2
  <2> QED BY <2>1, <2>2
<1>2. client' = [i \in Slots |-> IF i < n THEN [base[i] EXCEPT !.queue = <<>>] ELSE base[i]]
  BY DEF Start
<1> HIDE DEF base
<1> DEFINE none == <<>>
<1>3. none \in Queues
  BY DEF Queues
<1>4. ASSUME NEW k \in Slots
      PROVE  /\ client'[k] \in SlotRecord
             /\ \/ Left(client'[k])
                \/ /\ client[k].loopback = TRUE /\ Kept(client[k], client'[k])
                   /\ client[k].connected = TRUE
                   /\ client'[k].queue \in {client[k].queue, none}
  <2>1. client'[k] = IF k < n THEN ReadSlot(base[k], none) ELSE base[k]
    BY <1>2 DEF ReadSlot
  <2>2. base[k] \in SlotRecord
    BY <1>1
  <2> HIDE DEF none
  <2>3. /\ ReadSlot(base[k], none) \in SlotRecord /\ Kept(base[k], ReadSlot(base[k], none))
        /\ ReadSlot(base[k], none).queue = none
    BY <2>2, <1>3, ReadFacts
  <2>4. CASE Left(base[k])
    BY <2>1, <2>2, <2>3, <2>4 DEF Left, Kept, none
  <2>5. CASE ~Left(base[k])
    BY <1>1, <2>1, <2>2, <2>3, <2>5 DEF Kept
  <2> QED BY <2>4, <2>5
<1>5. client' = [k \in Slots |-> client'[k]]
  BY <1>2
<1>6. client' \in [Slots -> SlotRecord]
  BY <1>4, <1>5
<1>7. /\ num_connected_clients' = 0 /\ max_clients' = n /\ running' = TRUE
      /\ (StopWithLoopback \/ NoLoopback)
  BY DEF Start
<1>8. n \in 0 .. MaxClients
  BY ConstantFacts
<1> QED BY <1>4, <1>6, <1>7, <1>8 DEF Restart

LEMMA UpdateEndSlots ==
    ASSUME BaseInv, UpdateEnd
    PROVE  LET due == IF running THEN SendDue ELSE {}
               clients == ClientsAfterSends(encryption_manager, due)
           IN  \/ /\ Leave({}) /\ client' = clients
                  /\ encryption_manager' = TableAfterSends(encryption_manager, due)
               \/ \E i \in Slots :
                    /\ Leave({i}) /\ Remote(i) /\ running
                    /\ client[i].address \in Addresses
                    /\ \A k \in Slots \ {i} : client'[k] = clients[k]
                    /\ encryption_manager' =
                         RemoveMapping(TableAfterSends(encryption_manager, due),
                                       client[i].address, time)
<1> DEFINE due == IF running THEN SendDue ELSE {}
           overdue == IF running THEN TimedOut ELSE {}
           i == Min(overdue)
           clients == ClientsAfterSends(encryption_manager, due)
<1> HIDE DEF due
<1>1. ServerTypes /\ num_connected_clients \in Int /\ client \in [Slots -> SlotRecord]
  BY DEF BaseInv, ServerTypes
<1>2. /\ clients \in [Slots -> SlotRecord]
      /\ \A k \in Slots : Stays(client[k], clients[k]) /\ clients[k].queue = client[k].queue
  BY <1>1, SendsFacts
<1>3. max_clients' = max_clients /\ running' = running
  BY DEF UpdateEnd, lifecycleVars
<1>4. CASE overdue = {}
  <2>1. /\ encryption_manager' = TableAfterSends(encryption_manager, due)
        /\ client' = clients /\ num_connected_clients' = num_connected_clients
    BY <1>4 DEF UpdateEnd, due
  <2>2. Leave({})
    BY <1>1, <1>2, <1>3, <2>1, FS_EmptySet DEF Leave
  <2> QED BY <2>1, <2>2 DEF due
<1>5. CASE overdue # {}
  <2>1. overdue \in SUBSET Nat
    BY SlotFacts DEF TimedOut
  <2>2. i \in overdue
    <3> HIDE DEF overdue
    <3> QED BY <2>1, <1>5, MinFacts
  <2>3. i \in Slots /\ Remote(i) /\ running
    BY <2>2 DEF TimedOut
  <2>4. /\ encryption_manager' = RemoveMapping(TableAfterSends(encryption_manager, due),
                                               client[i].address, time)
        /\ client' = [clients EXCEPT ![i] = Vacated(@)]
        /\ num_connected_clients' = num_connected_clients - 1
    BY <1>5 DEF UpdateEnd, due, CountDown
  <2> HIDE DEF i, clients
  <2>5. /\ client[i].connected = TRUE /\ client[i].loopback = FALSE
        /\ client[i].address \in Addresses
    <3>1. client[i] \in SlotRecord
      BY <1>1, <2>3
    <3>2. client[i].connected = TRUE /\ client[i].loopback = FALSE
      BY <3>1, <2>3, SlotFields DEF Remote, Connected
    <3> QED BY <2>3, <3>2 DEF BaseInv, SlotInv
  <2>6. Vacated(clients[i]) \in SlotRecord /\ Left(Vacated(clients[i]))
    BY <1>2, <2>3, <2>5, VacatedFacts DEF VacatedFields, Left, Stays, Kept
  <2>7. /\ client' \in [Slots -> SlotRecord] /\ client'[i] = Vacated(clients[i])
        /\ \A k \in Slots \ {i} : client'[k] = clients[k]
    BY <1>2, <2>3, <2>4, <2>6
  <2>8. Cardinality({i}) = 1
    BY FS_Singleton
  <2>9. Leave({i})
    BY <1>2, <1>3, <2>3, <2>4, <2>5, <2>6, <2>7, <2>8 DEF Leave
  <2> QED BY <2>3, <2>4, <2>5, <2>7, <2>9 DEF due, clients
<1> QED BY <1>4, <1>5

-----------------------------------------------------------------------------
(* The types of everything else.                                           *)

\* netcode_encryption_manager_touch keeps the table one, whatever the index.
LEMMA TouchType ==
    ASSUME NEW m \in TableOf(Timeouts, TableKeys), NEW j, NEW a, NEW t \in Int
    PROVE  TouchMapping(m, j, a, t) \in TableOf(Timeouts, TableKeys)
<1>1. /\ m.entry \in [Indices -> EntryOf(Timeouts, TableKeys)]
      /\ \A k \in Indices : m.entry[k] \in EntryOf(Timeouts, TableKeys)
  BY ConstantFacts, TableFields
<1>2. CASE j \in Indices /\ m.entry[j].address = a
  <2>1. TouchMapping(m, j, a, t) = Replaced(m, j, Accessed(m.entry[j], t))
    BY <1>2, ConstantFacts, AccessWrites
  <2>2. Accessed(m.entry[j], t) \in EntryOf(Timeouts, TableKeys)
    BY <1>1, <1>2, ConstantFacts, AccessedFacts
  <2> DEFINE e == Accessed(m.entry[j], t)
  <2> HIDE DEF e
  <2>3. Replaced(m, j, e) \in TableOf(Timeouts, TableKeys)
    BY <1>2, <2>2 DEF e, Replaced, TableOf
  <2> QED BY <2>1, <2>3 DEF e
<1>3. CASE j \notin Indices
  <2>1. [m EXCEPT !.entry[j].last_access_time = t] = m
    BY <1>1, <1>3 DEF TableOf
  <2> QED BY <2>1 DEF TouchMapping
<1>4. CASE m.entry[j].address # a
  BY <1>4 DEF TouchMapping, TouchAllowed
<1> QED BY <1>2, <1>3, <1>4

\* The keep alives of netcode_server_send_packets.
LEMMA SendsTable ==
    ASSUME ServerTypes, NEW slots
    PROVE  LET r == TableAfterSends(encryption_manager, slots)
           IN  /\ r \in TableOf(Timeouts, TableKeys) /\ r.num = encryption_manager.num
               /\ \A j \in Indices :
                    r.entry[j] =
                      IF \E i \in slots : /\ client[i].encryption_index = j
                                          /\ CanSend(encryption_manager, i)
                      THEN Accessed(encryption_manager.entry[j], time)
                      ELSE encryption_manager.entry[j]
<1> DEFINE em == encryption_manager
           r == TableAfterSends(em, slots)
           f == [j \in Indices |->
                   IF \E i \in slots : client[i].encryption_index = j /\ CanSend(em, i)
                   THEN Accessed(em.entry[j], time) ELSE em.entry[j]]
<1>1. /\ em \in TableOf(Timeouts, TableKeys) /\ time \in Int
      /\ \A j \in Indices : em.entry[j] \in EntryOf(Timeouts, TableKeys)
  <2>1. em \in TableOf(Timeouts, TableKeys) /\ time \in Int
    BY DEF ServerTypes
  <2> QED BY <2>1, ConstantFacts, TableFields
<1>2. r = [em EXCEPT !.entry = f]
  BY DEF TableAfterSends, Accessed
<1>3. \A j \in Indices : Accessed(em.entry[j], time) \in EntryOf(Timeouts, TableKeys)
  BY <1>1, ConstantFacts, AccessedFacts
<1>4. f \in [Indices -> EntryOf(Timeouts, TableKeys)]
  BY <1>1, <1>3
<1>5. \A j \in Indices :
        f[j] = IF \E i \in slots : client[i].encryption_index = j /\ CanSend(em, i)
               THEN Accessed(em.entry[j], time) ELSE em.entry[j]
  OBVIOUS
<1> HIDE DEF f, r
<1>6. r \in TableOf(Timeouts, TableKeys) /\ r.num = em.num /\ r.entry = f
  BY <1>1, <1>2, <1>4 DEF TableOf
<1> QED BY <1>5, <1>6 DEF r

\* The rounds of a disconnection keep the table one.
LEMMA RoundType ==
    ASSUME BaseInv, NEW n \in 1 .. MaxClients, NEW slots,
           slots \subseteq {k \in Slots : Remote(k)},
           NEW m \in TableOf(Timeouts, TableKeys)
    PROVE  Round(m, slots, n) \in TableOf(Timeouts, TableKeys)
<1> DEFINE c == client[n - 1]
           sent == TouchMapping(m, c.encryption_index, c.address, time)
<1>1. CASE n - 1 \notin slots
  BY <1>1 DEF Round
<1>2. CASE n - 1 \in slots
  <2>1. n - 1 \in Slots /\ Remote(n - 1) /\ client[n - 1] \in SlotRecord /\ time \in Int
    BY <1>2 DEF BaseInv, ServerTypes
  <2>2. c.address \in Addresses
    BY <2>1, SlotFields DEF Remote, Connected, BaseInv, SlotInv
  <2>3. sent \in TableOf(Timeouts, TableKeys)
    BY <2>1, TouchType
  <2>4. Round(m, slots, n) = RemoveMapping(sent, c.address, time)
    BY <1>2 DEF Round
  <2> HIDE DEF sent, c
  <2>5. RemoveMapping(sent, c.address, time) \in TableOf(Timeouts, TableKeys)
    BY <2>1, <2>2, <2>3, ConstantFacts, RemoveFacts
  <2> QED BY <2>4, <2>5
<1> QED BY <1>1, <1>2

LEMMA DisconnectsType ==
    ASSUME BaseInv, NEW slots, slots \subseteq {k \in Slots : Remote(k)}
    PROVE  TableAfterDisconnects(encryption_manager, slots) \in TableOf(Timeouts, TableKeys)
<1>1. PICK f : /\ Rounds(f, encryption_manager, slots, MaxClients)
               /\ TableAfterDisconnects(encryption_manager, slots) = f[MaxClients]
  BY DisconnectsAre
<1>2. \A n \in 0 .. MaxClients :
        f[n] = IF n = 0 THEN encryption_manager ELSE Round(f[n - 1], slots, n)
  BY <1>1 DEF Rounds
<1> DEFINE B == {n \in Nat : n <= MaxClients /\ f[n] \notin TableOf(Timeouts, TableKeys)}
<1>3. B = {}
  <2> SUFFICES ASSUME B # {} PROVE FALSE
    OBVIOUS
  <2>1. PICK n \in B : \A l \in B : n <= l
    <3>1. B \in SUBSET Nat
      OBVIOUS
    <3> HIDE DEF B
    <3> QED BY <3>1, NatMin
  <2>2. n \in Nat /\ n <= MaxClients /\ f[n] \notin TableOf(Timeouts, TableKeys)
    BY <2>1
  <2>3. n # 0
    BY <2>2, <1>2, ConstantFacts DEF BaseInv, ServerTypes
  <2>4. n \in 1 .. MaxClients /\ n - 1 \in Nat /\ n - 1 <= MaxClients /\ n - 1 \notin B
    BY <2>1, <2>2, <2>3, ConstantFacts
  <2>5. f[n - 1] \in TableOf(Timeouts, TableKeys)
    BY <2>4
  <2>6. f[n] = Round(f[n - 1], slots, n)
    BY <1>2, <2>3, <2>4, ConstantFacts
  <2> QED BY <2>2, <2>4, <2>5, <2>6, RoundType
<1>4. f[MaxClients] \in TableOf(Timeouts, TableKeys)
  BY <1>3, ConstantFacts
<1> QED BY <1>1, <1>4

\* netcode_connect_token_entries_reset and _find_or_add.
LEMMA HistoryTypes ==
    ASSUME NEW h \in [History!EntryIndices -> HistoryEntry],
           NEW a \in Addresses, NEW t \in Tokens, NEW now \in Nat
    PROVE  History!RecordToken(h, a, t, now) \in [History!EntryIndices -> HistoryEntry]
<1> DEFINE e == [time |-> now, mac |-> t, address |-> a]
<1>1. e \in HistoryEntry
  BY DEF HistoryEntry
<1> HIDE DEF e
<1>2. [h EXCEPT ![History!Oldest(h)] = e] \in [History!EntryIndices -> HistoryEntry]
  BY <1>1
<1>3. History!RecordToken(h, a, t, now) =
        IF History!Matching(h, t) # {} THEN h ELSE [h EXCEPT ![History!Oldest(h)] = e]
  BY DEF History!RecordToken, e
<1> QED BY <1>2, <1>3

LEMMA ResetTypes ==
    /\ History!ResetEntries \in [History!EntryIndices -> HistoryEntry]
    /\ ResetTable \in TableOf(Timeouts, TableKeys)
<1>1. ResetTable \in TableOf(Timeouts, TableKeys)
  BY ConstantFacts, ResetTableFacts
<1>2. [time |-> LongAgo, mac |-> NoKey, address |-> NoAddress] \in HistoryEntry
  BY TimeFacts DEF HistoryEntry
<1> QED BY <1>1, <1>2 DEF History!ResetEntries

LEMMA RequestTypes ==
    ASSUME ServerTypes, NEW a \in Addresses, NEW t \in Tokens, RequestAnswered(a, t)
    PROVE  /\ encryption_manager' \in TableOf(Timeouts, TableKeys)
           /\ connect_token_entries' \in [History!EntryIndices -> HistoryEntry]
           /\ challenges' \subseteq Challenges
<1>1. /\ time \in Nat /\ TableFor(a) \in TableOf(Timeouts, TableKeys)
      /\ connect_token_entries \in [History!EntryIndices -> HistoryEntry]
      /\ challenges \subseteq Challenges /\ challenge_key \in Nat
  BY TableForType DEF ServerTypes
<1>2. connect_token_entries' \in [History!EntryIndices -> HistoryEntry]
  BY <1>1, HistoryTypes DEF RequestAnswered
<1>3. ChallengeToken(t) \in Challenges
  BY <1>1 DEF Challenges, ChallengeToken
<1>4. challenges' \subseteq Challenges
  BY <1>1, <1>3 DEF RequestAnswered
<1>5. encryption_manager' \in TableOf(Timeouts, TableKeys)
  <2> DEFINE m == TableFor(a)
             x == time + Ticks(TokenTimeout[t])
  <2>1. x \in Int /\ TokenTimeout[t] \in Timeouts /\ t \in TableKeys /\ time \in Int
    BY <1>1, ConstantFacts, TimeFacts
  <2>2. \/ encryption_manager' = m
        \/ /\ CanAdd(m, a, time)
           /\ encryption_manager' = AddMapping(m, a, t, time, x, TokenTimeout[t])
    BY DEF RequestAnswered
  <2>3. m \in TableOf(Timeouts, TableKeys)
    BY <1>1
  <2> HIDE DEF m, x
  <2>4. CanAdd(m, a, time) =>
          AddMapping(m, a, t, time, x, TokenTimeout[t]) \in TableOf(Timeouts, TableKeys)
    BY <2>1, <2>3, ConstantFacts, AddFacts
  <2> QED BY <2>2, <2>3, <2>4
<1> QED BY <1>2, <1>4, <1>5

\* netcode_server_connect_client finds the mapping again, pins and touches it.
LEMMA ConnectTypes ==
    ASSUME BaseInv, NEW a \in Addresses, NEW c \in challenges, ConnectClient(a, c)
    PROVE  encryption_manager' \in TableOf(Timeouts, TableKeys)
<1> DEFINE j == FindIndex(encryption_manager, a, time)
           m == TableFor(a)
           p == SetExpireTime(m, j, Never)
<1>1. AtAddress(a) = {} /\ j \in Indices /\ InUse(encryption_manager, j, a, time)
  BY ConnectSlots
<1>2. IndexFor(a) = j
  BY <1>1 DEF IndexFor
<1>3. /\ m \in TableOf(Timeouts, TableKeys) /\ time \in Int
      /\ encryption_manager \in TableOf(Timeouts, TableKeys)
  BY TableForType DEF BaseInv, ServerTypes
<1>4. m = FindTouch(encryption_manager, a, time)
  BY <1>1 DEF TableFor
<1>5. encryption_manager' = TouchMapping(p, j, a, time)
  BY <1>2 DEF ConnectClient
<1> HIDE DEF j
<1>6. InUse(m, j, a, time)
  BY <1>1, <1>3, <1>4, ConstantFacts, FindTouchFacts
<1> HIDE DEF m
<1>7. p \in TableOf(Timeouts, TableKeys)
  BY <1>1, <1>3, <1>6, ConstantFacts, PinFacts
<1> HIDE DEF p
<1> QED BY <1>3, <1>5, <1>7, TouchType

\* Every step keeps the types of what is not in the slots.
OtherTypes ==
    /\ time \in Nat /\ phase \in {"idle", "receiving"}
    /\ connect_token_entries \in [History!EntryIndices -> HistoryEntry]
    /\ encryption_manager \in TableOf(Timeouts, TableKeys)
    /\ challenge_key \in Nat /\ challenges \subseteq Challenges

LEMMA PacketTypes ==
    ASSUME BaseInv, NEW a \in Addresses
    PROVE  /\ \A t \in Tokens :
                \/ RequestIgnored(a, t) \/ RequestAnswered(a, t)
                \/ StrayPacket(a, t) \/ KeepAlivePacket(a, t)
                \/ PayloadPacket(a, t) \/ DisconnectPacket(a, t)
                => OtherTypes'
           /\ \A c \in challenges : ResponseIgnored(a, c) \/ ConnectClient(a, c) => OtherTypes'
<1>1. OtherTypes /\ ServerTypes
  BY DEF BaseInv, ServerTypes, OtherTypes
<1>2. Ignore(a) => OtherTypes'
  <2>1. TableFor(a) \in TableOf(Timeouts, TableKeys)
    BY <1>1, TableForType
  <2> QED BY <1>1, <2>1 DEF OtherTypes, Ignore, lifecycleVars
<1>3. ASSUME NEW t \in Tokens
      PROVE  /\ RequestAnswered(a, t) => OtherTypes'
             /\ KeepAlivePacket(a, t) \/ PayloadPacket(a, t) => OtherTypes'
             /\ DisconnectPacket(a, t) => OtherTypes'
  <2>1. RequestAnswered(a, t) => OtherTypes'
    <3> SUFFICES ASSUME RequestAnswered(a, t) PROVE OtherTypes'
      OBVIOUS
    <3>1. time' = time /\ phase' = phase /\ challenge_key' = challenge_key
      BY DEF RequestAnswered, lifecycleVars
    <3> QED BY <1>1, <3>1, RequestTypes DEF OtherTypes
  <2>2. KeepAlivePacket(a, t) \/ PayloadPacket(a, t) => OtherTypes'
    BY <1>1 DEF OtherTypes, KeepAlivePacket, PayloadPacket, lifecycleVars
  <2>3. DisconnectPacket(a, t) => OtherTypes'
    <3>1. time \in Int /\ encryption_manager \in TableOf(Timeouts, TableKeys)
      BY <1>1 DEF OtherTypes
    <3>2. RemoveMapping(encryption_manager, a, time) \in TableOf(Timeouts, TableKeys)
      BY <3>1, ConstantFacts, RemoveFacts
    <3> QED BY <1>1, <3>2 DEF OtherTypes, DisconnectPacket, lifecycleVars
  <2> QED BY <2>1, <2>2, <2>3
<1>4. ASSUME NEW c \in challenges, ConnectClient(a, c)
      PROVE  OtherTypes'
  <2>1. /\ time' = time /\ phase' = phase /\ challenge_key' = challenge_key
        /\ challenges' = challenges /\ connect_token_entries' = connect_token_entries
    BY <1>4 DEF ConnectClient, lifecycleVars
  <2>2. encryption_manager' \in TableOf(Timeouts, TableKeys)
    BY <1>4, ConnectTypes
  <2> QED BY <1>1, <2>1, <2>2 DEF OtherTypes
<1> QED BY <1>2, <1>3, <1>4 DEF RequestIgnored, StrayPacket, ResponseIgnored

LEMMA UpdateTypes ==
    ASSUME BaseInv, UpdateBegin \/ UpdateEnd
    PROVE  OtherTypes'
<1>1. OtherTypes /\ ServerTypes
  BY DEF BaseInv, ServerTypes, OtherTypes
<1>2. CASE UpdateBegin
  <2>1. time' \in Nat
    BY <1>1, <1>2, ServerAssumption DEF UpdateBegin, OtherTypes
  <2> QED BY <1>1, <1>2, <2>1 DEF OtherTypes, UpdateBegin, lifecycleVars
<1>3. CASE UpdateEnd
  <2> DEFINE due == IF running THEN SendDue ELSE {}
             table == TableAfterSends(encryption_manager, due)
  <2>1. table \in TableOf(Timeouts, TableKeys)
    BY <1>1, SendsTable
  <2>2. \/ encryption_manager' = table
        \/ \E i \in Slots : /\ client[i].address \in Addresses
                            /\ encryption_manager' = RemoveMapping(table, client[i].address, time)
    BY <1>3, UpdateEndSlots
  <2> HIDE DEF table
  <2>3. \A b \in Addresses : RemoveMapping(table, b, time) \in TableOf(Timeouts, TableKeys)
    <3>1. time \in Int
      BY <1>1 DEF OtherTypes
    <3> QED BY <3>1, <2>1, ConstantFacts, RemoveFacts
  <2>4. encryption_manager' \in TableOf(Timeouts, TableKeys)
    BY <2>1, <2>2, <2>3
  <2>5. /\ time' = time /\ phase' = "idle" /\ challenge_key' = challenge_key
        /\ challenges' = challenges /\ connect_token_entries' = connect_token_entries
    BY <1>3 DEF UpdateEnd, lifecycleVars
  <2> QED BY <1>1, <2>4, <2>5 DEF OtherTypes
<1> QED BY <1>2, <1>3

LEMMA ApiTypes ==
    ASSUME BaseInv, Api
    PROVE  OtherTypes'
<1>1. OtherTypes /\ ServerTypes
  BY DEF BaseInv, ServerTypes, OtherTypes
<1>2. ASSUME NEW n \in 1 .. MaxClients, Start(n) PROVE OtherTypes'
  BY <1>1, <1>2, ResetTypes DEF Start, OtherTypes
<1>3. CASE Stop
  BY <1>1, <1>3, ResetTypes DEF Stop, OtherTypes
<1>4. ASSUME DisconnectAllClients PROVE OtherTypes'
  <2>1. encryption_manager' \in TableOf(Timeouts, TableKeys)
    BY <1>4, DisconnectsType DEF DisconnectAllClients
  <2> QED BY <1>1, <1>4, <2>1 DEF DisconnectAllClients, OtherTypes, lifecycleVars
<1>5. ASSUME NEW i \in Slots, DisconnectClient(i) PROVE OtherTypes'
  <2>1. {i} \subseteq {k \in Slots : Remote(k)}
    BY <1>5 DEF DisconnectClient
  <2>2. encryption_manager' \in TableOf(Timeouts, TableKeys)
    BY <1>5, <2>1, DisconnectsType DEF DisconnectClient
  <2> QED BY <1>1, <1>5, <2>2 DEF DisconnectClient, OtherTypes, lifecycleVars
<1>6. ASSUME NEW i \in Slots, SendPacket(i) PROVE OtherTypes'
  <2>1. encryption_manager' \in TableOf(Timeouts, TableKeys)
    BY <1>1, <1>6, SendsTable DEF SendPacket, OtherTypes
  <2> QED BY <1>1, <1>6, <2>1 DEF SendPacket, OtherTypes, lifecycleVars
<1>7. ASSUME NEW i \in Slots,
             \/ ReceivePacket(i) \/ DisconnectLoopbackClient(i) \/ ProcessLoopbackPacket(i)
             \/ \E id \in LoopbackIds : ConnectLoopbackClient(i, id)
      PROVE  OtherTypes'
  BY <1>1, <1>7 DEF OtherTypes, ReceivePacket, DisconnectLoopbackClient,
       ProcessLoopbackPacket, ConnectLoopbackClient, lifecycleVars
<1> QED BY <1>2, <1>3, <1>4, <1>5, <1>6, <1>7 DEF Api

Form == (\E L : Leave(L)) \/ (\E i, d : Arrive(i, d)) \/ Restart

\* Every step is one of the three forms.
LEMMA StepForms ==
    ASSUME BaseInv, Next
    PROVE  Form
<1>1. ServerTypes
  BY DEF BaseInv
<1>2. ASSUME NEW a \in Addresses, Ignore(a) PROVE Form
  BY <1>1, <1>2, NoneLeaves DEF Form, Ignore, lifecycleVars, slotVars
<1>3. ASSUME NEW a \in Addresses, NEW t \in Tokens, RequestAnswered(a, t) PROVE Form
  BY <1>1, <1>3, NoneLeaves DEF Form, RequestAnswered, lifecycleVars, slotVars
<1>4. CASE UpdateBegin
  BY <1>1, <1>4, NoneLeaves DEF Form, UpdateBegin, lifecycleVars, slotVars
<1>5. CASE UpdateEnd
  <2>1. \E L : Leave(L)
    BY <1>5, UpdateEndSlots
  <2> QED BY <2>1 DEF Form
<1>6. CASE Packet
  <2>1. ASSUME NEW a \in Addresses, NEW t \in Tokens, KeepAlivePacket(a, t) PROVE Form
    BY <2>1, KeepAliveSlots DEF Form
  <2>2. ASSUME NEW a \in Addresses, NEW t \in Tokens, PayloadPacket(a, t) PROVE Form
    BY <2>2, PayloadSlots DEF Form
  <2>3. ASSUME NEW a \in Addresses, NEW t \in Tokens, DisconnectPacket(a, t) PROVE Form
    BY <2>3, DisconnectSlots DEF Form
  <2>4. ASSUME NEW a \in Addresses, NEW c \in challenges, ConnectClient(a, c) PROVE Form
    BY <2>4, ConnectSlots DEF Form
  <2> QED BY <1>2, <1>3, <1>6, <2>1, <2>2, <2>3, <2>4
         DEF Packet, RequestIgnored, StrayPacket, ResponseIgnored
<1>7. CASE Api
  <2>1. ASSUME NEW n \in 1 .. MaxClients, Start(n) PROVE Form
    BY <2>1, StartSlots DEF Form
  <2>2. ASSUME Stop PROVE Form
    BY <2>2, StopSlots DEF Form
  <2>3. ASSUME DisconnectAllClients PROVE Form
    BY <2>3, DisconnectAllSlots DEF Form
  <2>4. ASSUME NEW i \in Slots, DisconnectClient(i) PROVE Form
    BY <2>4, DisconnectClientSlots DEF Form
  <2>5. ASSUME NEW i \in Slots, SendPacket(i) PROVE Form
    BY <2>5, SendPacketSlots DEF Form
  <2>6. ASSUME NEW i \in Slots, ReceivePacket(i) PROVE Form
    BY <2>6, ReceivePacketSlots DEF Form
  <2>7. ASSUME NEW i \in Slots, NEW id \in LoopbackIds, ConnectLoopbackClient(i, id)
        PROVE  Form
    BY <2>7, ConnectLoopbackSlots DEF Form
  <2>8. ASSUME NEW i \in Slots, DisconnectLoopbackClient(i) PROVE Form
    BY <2>8, DisconnectLoopbackSlots DEF Form
  <2>9. ASSUME NEW i \in Slots, ProcessLoopbackPacket(i) PROVE Form
    BY <2>9, ProcessLoopbackSlots DEF Form
  <2> QED BY <1>7, <2>1, <2>2, <2>3, <2>4, <2>5, <2>6, <2>7, <2>8, <2>9 DEF Api
<1> QED BY <1>4, <1>5, <1>6, <1>7 DEF Next

\* The clients that leave are finitely many.
LEMMA LeaveCount ==
    ASSUME BaseInv, NEW L, Leave(L)
    PROVE  IsFiniteSet(L) /\ Cardinality(L) \in Nat
<1>1. L \subseteq Slots
  BY DEF Leave
<1>2. IsFiniteSet(L)
  BY <1>1, SlotFacts, FS_Subset
<1> QED BY <1>2, FS_CardinalityType

LEMMA BaseInit == Init => BaseInv
<1> SUFFICES ASSUME Init PROVE BaseInv
  OBVIOUS
<1>1. client \in [Slots -> SlotRecord]
  BY FreeSlotType DEF Init
<1>2. ServerTypes
  <2>1. 0 \in 0 .. MaxClients /\ 0 \in Nat /\ 0 \in Int /\ {} \subseteq Challenges
    BY ConstantFacts
  <2>2. running \in BOOLEAN /\ phase \in {"idle", "receiving"}
    BY DEF Init
  <2> QED BY <1>1, <2>1, <2>2, ResetTypes DEF Init, ServerTypes
<1>3. \A i \in Slots : client[i] = FreeSlot
  BY DEF Init
<1>4. FreeSlot.connected = FALSE /\ FreeSlot.loopback = FALSE /\ FreeSlot.queue = <<>>
  BY DEF FreeSlot
<1>5. SlotInv
  BY <1>3, <1>4 DEF SlotInv, RemoteClientsDistinct, Remote, Connected, Init
<1> QED BY <1>2, <1>5 DEF BaseInv

LEMMA BaseStep ==
    ASSUME BaseInv, [Next]_vars
    PROVE  BaseInv'
<1>1. CASE UNCHANGED vars
  BY <1>1 DEF BaseInv, ServerTypes, SlotInv, RemoteClientsDistinct, Remote, Connected, vars
<1>2. CASE Next
  <2>1. OtherTypes'
    BY <1>2, PacketTypes, UpdateTypes, ApiTypes DEF Next, Packet
  <2>2. SlotInv' /\ client' \in [Slots -> SlotRecord]
    <3>1. ASSUME NEW L, Leave(L) PROVE SlotInv' /\ client' \in [Slots -> SlotRecord]
      <4>1. client' \in [Slots -> SlotRecord]
        BY <3>1 DEF Leave
      <4> QED BY <3>1, <4>1, LeaveSlotInv
    <3>2. ASSUME Restart PROVE SlotInv' /\ client' \in [Slots -> SlotRecord]
      <4>1. client' \in [Slots -> SlotRecord]
        BY <3>2 DEF Restart
      <4> QED BY <3>2, <4>1, RestartSlotInv
    <3> QED BY <1>2, <3>1, <3>2, ArriveSlotInv, StepForms DEF Form
  <2>3. max_clients' \in 0 .. MaxClients /\ running' \in BOOLEAN /\ num_connected_clients' \in Int
    <3>1. /\ max_clients \in 0 .. MaxClients /\ running \in BOOLEAN
          /\ num_connected_clients \in Int
      BY DEF BaseInv, ServerTypes
    <3>2. ASSUME NEW L, Leave(L)
          PROVE  /\ max_clients' = max_clients /\ running' = running
                 /\ num_connected_clients' \in Int
      <4>1. /\ num_connected_clients' = num_connected_clients - Cardinality(L)
            /\ max_clients' = max_clients /\ running' = running
        BY <3>2 DEF Leave
      <4> QED BY <3>1, <3>2, <4>1, LeaveCount
    <3>3. ASSUME NEW i, NEW d, Arrive(i, d)
          PROVE  /\ max_clients' = max_clients /\ running' = running
                 /\ num_connected_clients' \in Int
      BY <3>1, <3>3 DEF Arrive
    <3>4. ASSUME Restart
          PROVE  /\ max_clients' \in 0 .. MaxClients /\ running' \in BOOLEAN
                 /\ num_connected_clients' \in Int
      <4>1. /\ max_clients' \in 0 .. MaxClients /\ running' \in BOOLEAN
            /\ num_connected_clients' = 0
        BY <3>4 DEF Restart
      <4> QED BY <4>1
    <3> QED BY <1>2, <3>1, <3>2, <3>3, <3>4, StepForms DEF Form
  <2> QED BY <2>1, <2>2, <2>3 DEF BaseInv, ServerTypes, OtherTypes
<1> QED BY <1>1, <1>2

LEMMA BaseHolds == Spec => []BaseInv
<1>1. BaseInv /\ [Next]_vars => BaseInv'
  BY BaseStep
<1> QED BY <1>1, BaseInit, PTL DEF Spec

\* Whatever arrives and whatever is called, the state of the server keeps its
\* shape: slots, indices and table bounds stay in range (netcode.c:3489-4671).
THEOREM ServerStaysTyped == Spec => []TypeOK
<1>1. BaseInv => TypeOK
  BY TypesImply DEF BaseInv
<1> QED BY <1>1, BaseHolds, PTL

\* No two remote clients ever share an address or a client id, for any number
\* of slots, tokens and addresses, whether or not the application stops the
\* server with loopback clients (netcode.c:3946-3956, 4112-4122).
THEOREM ClientsDistinct == Spec => []RemoteClientsDistinct
<1>1. BaseInv => RemoteClientsDistinct
  BY DEF BaseInv, SlotInv
<1> QED BY <1>1, BaseHolds, PTL

-----------------------------------------------------------------------------
(* The number of clients, when the application disconnects its loopback    *)
(* clients before it stops or restarts the server: netcode_server_stop     *)
(* zeroes the counter and leaves them in their slots.                      *)

Occupied == {i \in Slots : client[i].connected = TRUE}

CountInv ==
    /\ num_connected_clients = Cardinality(Occupied)
    /\ \A i \in Slots : client[i].connected = TRUE => i < max_clients

LEMMA LeaveOccupied ==
    ASSUME BaseInv, NEW L, Leave(L)
    PROVE  /\ Occupied' = Occupied \ L /\ L \subseteq Occupied
           /\ \A k \in Slots : client'[k].connected = TRUE => client[k].connected = TRUE
<1>1. \A k \in Slots : client[k] \in SlotRecord /\ client'[k] \in SlotRecord
  BY DEF BaseInv, ServerTypes, Leave
<1>2. L \subseteq Occupied
  BY DEF Leave, Occupied
<1>3. ASSUME NEW k \in Slots
      PROVE  client'[k].connected = TRUE <=> client[k].connected = TRUE /\ k \notin L
  <2>1. CASE k \in L
    <3>1. client'[k].connected = FALSE
      BY <2>1 DEF Leave, Left
    <3> QED BY <2>1, <3>1
  <2>2. CASE k \notin L
    <3>1. client'[k].connected = client[k].connected
      BY <2>2 DEF Leave, Stays, Kept
    <3> QED BY <2>2, <3>1
  <2> QED BY <2>1, <2>2
<1> QED BY <1>2, <1>3 DEF Occupied

LEMMA CountStep ==
    ASSUME ~StopWithLoopback, BaseInv, CountInv, [Next]_vars
    PROVE  CountInv'
<1>1. /\ IsFiniteSet(Occupied) /\ Cardinality(Occupied) \in Nat
      /\ \A k \in Slots : client[k] \in SlotRecord
  <2>1. IsFiniteSet(Occupied)
    BY SlotFacts, FS_Subset DEF Occupied
  <2> QED BY <2>1, FS_CardinalityType DEF BaseInv, ServerTypes
<1>2. CASE UNCHANGED vars
  BY <1>2 DEF CountInv, Occupied, vars
<1>3. ASSUME NEW L, Leave(L) PROVE CountInv'
  <2>1. Occupied' = Occupied \ L /\ L \subseteq Occupied
    BY <1>3, LeaveOccupied
  <2>2. Cardinality(Occupied \ L) = Cardinality(Occupied) - Cardinality(Occupied \cap L)
    BY <1>1, FS_Difference
  <2>3. Occupied \cap L = L
    BY <2>1
  <2>4. num_connected_clients' = num_connected_clients - Cardinality(L)
        /\ max_clients' = max_clients
    BY <1>3 DEF Leave
  <2>5. num_connected_clients' = Cardinality(Occupied')
    BY <2>1, <2>2, <2>3, <2>4 DEF CountInv
  <2> QED BY <1>3, <2>4, <2>5, LeaveOccupied DEF CountInv
<1>4. ASSUME NEW i, NEW d, Arrive(i, d) PROVE CountInv'
  <2>1. /\ i \in Slots /\ i < max_clients /\ client[i].connected = FALSE
        /\ client' = [client EXCEPT ![i] = d] /\ d.connected = TRUE
        /\ num_connected_clients' = num_connected_clients + 1 /\ max_clients' = max_clients
    BY <1>4 DEF Arrive
  <2>2. client'[i] = d /\ \A k \in Slots \ {i} : client'[k] = client[k]
    BY <2>1 DEF BaseInv, ServerTypes
  <2>3. Occupied' = Occupied \cup {i} /\ i \notin Occupied
    BY <2>1, <2>2 DEF Occupied
  <2>4. Cardinality(Occupied \cup {i}) = Cardinality(Occupied) + 1
    BY <1>1, <2>3, FS_AddElement
  <2>5. num_connected_clients' = Cardinality(Occupied')
    BY <2>1, <2>3, <2>4 DEF CountInv
  <2>6. \A k \in Slots : client'[k].connected = TRUE => k < max_clients'
    BY <2>1, <2>2 DEF CountInv
  <2> QED BY <2>5, <2>6 DEF CountInv
<1>5. ASSUME Restart PROVE CountInv'
  <2>1. \A k \in Slots : client'[k].connected = FALSE
    BY <1>1, <1>5, SlotFields DEF Restart, Left, NoLoopback
  <2>2. Occupied' = {}
    BY <2>1 DEF Occupied
  <2> QED BY <1>5, <2>1, <2>2, FS_EmptySet DEF CountInv, Restart
<1> QED BY <1>2, <1>3, <1>4, <1>5, StepForms DEF Form

LEMMA CountHolds == ASSUME ~StopWithLoopback PROVE Spec => []CountInv
<1>1. Init => CountInv
  <2> SUFFICES ASSUME Init PROVE CountInv
    OBVIOUS
  <2>1. \A i \in Slots : client[i].connected = FALSE
    BY DEF Init, FreeSlot
  <2>2. Occupied = {}
    BY <2>1 DEF Occupied
  <2> QED BY <2>1, <2>2, FS_EmptySet DEF CountInv, Init
<1>2. BaseInv /\ CountInv /\ [Next]_vars => CountInv'
  BY CountStep
<1> QED BY <1>1, <1>2, BaseHolds, PTL DEF Spec

LEMMA CountMeans == ASSUME BaseInv, CountInv PROVE CountMatchesSlots /\ FreeSlotWhenNotFull
<1>1. \A k \in Slots : client[k].connected \in BOOLEAN
  BY SlotFields DEF BaseInv, ServerTypes
<1>2. {k \in Slots : client[k].connected} = Occupied
  BY <1>1 DEF Occupied
<1>3. CountMatchesSlots
  BY <1>1, <1>2 DEF CountMatchesSlots, CountInv
<1>4. ASSUME FreeSlots = {} PROVE num_connected_clients = max_clients
  <2>1. max_clients \in 0 .. MaxClients
    BY DEF BaseInv, ServerTypes
  <2>2. Occupied = 0 .. max_clients - 1
    <3>1. \A k \in Slots : k < max_clients => client[k].connected = TRUE
      BY <1>1, <1>4 DEF FreeSlots
    <3>2. Occupied = {k \in Slots : k < max_clients}
      BY <3>1 DEF Occupied, CountInv
    <3> QED BY <2>1, <3>2, ConstantFacts DEF Slots
  <2>3. Cardinality(0 .. max_clients - 1) = max_clients
    BY <2>1, FS_Interval, ConstantFacts
  <2> QED BY <2>2, <2>3 DEF CountInv
<1>5. FreeSlotWhenNotFull
  BY <1>4 DEF FreeSlotWhenNotFull
<1> QED BY <1>3, <1>5

\* As long as the server is not stopped with a loopback client connected, the
\* counter is the number of occupied slots, all below max_clients, whatever
\* mixture of packets, time-outs and API calls empties and fills them
\* (netcode.c:4045, 3818, 4559, 4627).
THEOREM CountIsExact == ASSUME ~StopWithLoopback PROVE Spec => []CountMatchesSlots
<1>1. BaseInv /\ CountInv => CountMatchesSlots
  BY CountMeans
<1> QED BY <1>1, BaseHolds, CountHolds, PTL

\* Under the same condition the assertion of netcode.c:4138 cannot fail: a
\* server that is not full has a free slot for the client it admits.
THEOREM FreeSlotFound == ASSUME ~StopWithLoopback PROVE Spec => []FreeSlotWhenNotFull
<1>1. BaseInv /\ CountInv => FreeSlotWhenNotFull
  BY CountMeans
<1> QED BY <1>1, BaseHolds, CountHolds, PTL

-----------------------------------------------------------------------------
(* The mappings of the connected clients, when updates come often enough:  *)
(* a keep alive goes out, and touches the mapping, before it expires.      *)

KeptAlive ==
    \A t \in Tokens : TokenTimeout[t] > 0 =>
        MaxGap + SendInterval <= Ticks(TokenTimeout[t])

\* The mapping of a client: alive, its own, of one of its tokens, without an
\* expire time, and touched whenever something is sent.
Backed(c, m, now) ==
    /\ InUse(m, c.encryption_index, c.address, now)
    /\ m.entry[c.encryption_index].key \in Tokens
    /\ TokenId[m.entry[c.encryption_index].key] = c.client_id
    /\ m.entry[c.encryption_index].expire_time < 0
    /\ c.last_send <= m.entry[c.encryption_index].last_access_time

\* How long ago the last packet may have been sent.
Silence == IF phase = "receiving" THEN SendInterval + MaxGap ELSE SendInterval

MapInv ==
    /\ Covered(encryption_manager)
    /\ LiveFirst(encryption_manager, time)
    /\ \A k \in Slots : Remote(k) =>
         /\ Backed(client[k], encryption_manager, time)
         /\ client[k].last_send <= time
         /\ time <= client[k].last_send + Silence

LEMMA RemoteFacts ==
    ASSUME BaseInv, NEW k \in Slots, Remote(k)
    PROVE  /\ client[k] \in SlotRecord /\ client[k].address \in Addresses
           /\ client[k].connected = TRUE /\ client[k].loopback = FALSE
<1>1. client[k] \in SlotRecord
  BY DEF BaseInv, ServerTypes
<1>2. client[k].connected = TRUE /\ client[k].loopback = FALSE
  BY <1>1, SlotFields DEF Remote, Connected
<1> QED BY <1>1, <1>2 DEF BaseInv, SlotInv

LEMMA TableTyped ==
    ASSUME ServerTypes
    PROVE  /\ encryption_manager \in TableOf(Timeouts, TableKeys)
           /\ time \in Int /\ time \in Nat
           /\ \A j \in Indices : encryption_manager.entry[j] \in EntryOf(Timeouts, TableKeys)
<1>1. encryption_manager \in TableOf(Timeouts, TableKeys) /\ time \in Int /\ time \in Nat
  BY DEF ServerTypes
<1> QED BY <1>1, ConstantFacts, TableFields

\* A client that stayed, with its mapping as it was or accessed now.
Unmoved(k) ==
    /\ Remote(k) /\ Kept(client[k], client'[k])
    /\ client'[k].last_send = client[k].last_send
    /\ InUse(encryption_manager', client[k].encryption_index, client[k].address, time)
    /\ encryption_manager'.entry[client[k].encryption_index] \in
         {encryption_manager.entry[client[k].encryption_index],
          Accessed(encryption_manager.entry[client[k].encryption_index], time)}

\* A client that was just sent something.
Refreshed(k) ==
    Backed(client'[k], encryption_manager', time) /\ client'[k].last_send = time

\* A step within one instant keeps the mappings when it does so one by one.
LEMMA MapParts ==
    ASSUME BaseInv, BaseInv', MapInv, time' = time,
           Covered(encryption_manager'), LiveFirst(encryption_manager', time),
           \A k \in Slots : Remote(k)' => Unmoved(k) \/ Refreshed(k),
           \/ phase' = phase
           \/ \A k \in Slots : Remote(k)' => time <= client'[k].last_send + SendInterval
    PROVE  MapInv'
<1>1. SendInterval \in Nat /\ MaxGap \in Nat /\ Silence \in Nat /\ Silence' \in Nat
      /\ SendInterval <= Silence'
  BY ServerAssumption DEF Silence
<1>2. ASSUME NEW k \in Slots, Remote(k)'
      PROVE  /\ Backed(client'[k], encryption_manager', time)
             /\ client'[k].last_send <= time
             /\ time <= client'[k].last_send + Silence'
  <2>1. client'[k] \in SlotRecord /\ client'[k].last_send \in Nat /\ time \in Nat
    BY SlotFields DEF BaseInv, ServerTypes
  <2>2. CASE Refreshed(k)
    BY <1>1, <2>1, <2>2 DEF Refreshed
  <2>3. CASE Unmoved(k)
    <3> DEFINE j == client[k].encryption_index
               e == encryption_manager.entry[j]
               d == encryption_manager'.entry[j]
    <3>1. /\ Backed(client[k], encryption_manager, time) /\ client[k].last_send <= time
          /\ time <= client[k].last_send + Silence
      BY <2>3 DEF Unmoved, MapInv
    <3>2. j \in Indices /\ e \in EntryOf(Timeouts, TableKeys)
      BY <3>1, TableTyped DEF Backed, InUse, BaseInv
    <3>3. /\ client'[k].encryption_index = j /\ client'[k].address = client[k].address
          /\ client'[k].client_id = client[k].client_id
          /\ client'[k].last_send = client[k].last_send
          /\ InUse(encryption_manager', j, client[k].address, time)
          /\ d = e \/ d = Accessed(e, time)
      BY <2>3 DEF Unmoved, Kept
    <3>4. /\ Accessed(e, time).key = e.key /\ Accessed(e, time).expire_time = e.expire_time
          /\ Accessed(e, time).last_access_time = time
      BY <2>1, <3>2, ConstantFacts, AccessedFacts
    <3>5. /\ e.key \in Tokens /\ TokenId[e.key] = client[k].client_id
          /\ e.expire_time < 0 /\ client[k].last_send <= e.last_access_time
      BY <3>1 DEF Backed
    <3> HIDE DEF j, e, d
    <3>6. /\ d.key \in Tokens /\ TokenId[d.key] = client[k].client_id
          /\ d.expire_time < 0 /\ client[k].last_send <= d.last_access_time
      BY <3>1, <3>3, <3>4, <3>5
    <3>7. Backed(client'[k], encryption_manager', time)
      BY <3>3, <3>6 DEF Backed, d
    <3>8. time <= client'[k].last_send + Silence'
      <4>1. CASE phase' = phase
        BY <4>1, <3>1, <3>3 DEF Silence
      <4>2. CASE time <= client'[k].last_send + SendInterval
        BY <4>2, <1>1, <2>1
      <4> QED BY <4>1, <4>2, <1>2
    <3> QED BY <3>1, <3>3, <3>7, <3>8
  <2> QED BY <1>2, <2>2, <2>3
<1> QED BY <1>2 DEF MapInv

\* A search by address keeps every mapping.
LEMMA TableForFacts ==
    ASSUME BaseInv, MapInv, NEW a \in Addresses
    PROVE  LET m == TableFor(a)
           IN  /\ m \in TableOf(Timeouts, TableKeys)
               /\ Covered(m) /\ LiveFirst(m, time)
               /\ \A k \in Slots : Remote(k) =>
                    /\ InUse(m, client[k].encryption_index, client[k].address, time)
                    /\ AtAddress(a) = {} => client[k].address # a
                    /\ m.entry[client[k].encryption_index] =
                         encryption_manager.entry[client[k].encryption_index]
<1> DEFINE m == TableFor(a)
           em == encryption_manager
<1>1. /\ em \in TableOf(Timeouts, TableKeys) /\ time \in Int
      /\ Covered(em) /\ LiveFirst(em, time)
  BY TableTyped DEF BaseInv, MapInv
<1>2. ASSUME NEW k \in Slots, Remote(k)
      PROVE  /\ client[k].encryption_index \in Indices /\ client[k].address \in Addresses
             /\ InUse(em, client[k].encryption_index, client[k].address, time)
             /\ AtAddress(a) = {} => client[k].address # a
  BY <1>2, RemoteFacts DEF MapInv, Backed, InUse, AtAddress, Remote
<1>3. CASE AtAddress(a) # {}
  <2>1. m = em
    BY <1>3 DEF TableFor
  <2> QED BY <1>1, <1>2, <1>3, <2>1
<1>4. CASE AtAddress(a) = {}
  <2>1. m = FindTouch(em, a, time)
    BY <1>4 DEF TableFor
  <2> HIDE DEF em, m
  <2>2. /\ m \in TableOf(Timeouts, TableKeys) /\ Covered(m) /\ LiveFirst(m, time)
        /\ \A b \in Addresses, j \in Indices :
             /\ InUse(m, j, b, time) <=> InUse(em, j, b, time)
             /\ b # a /\ InUse(em, j, b, time) => m.entry[j] = em.entry[j]
    BY <1>1, <2>1, ConstantFacts, FindTouchFacts
  <2> QED BY <1>2, <1>4, <2>2 DEF em, m
<1> QED BY <1>3, <1>4

LEMMA IgnoreMap ==
    ASSUME BaseInv, BaseInv', MapInv, NEW a \in Addresses, Ignore(a)
    PROVE  MapInv'
<1>1. /\ encryption_manager' = TableFor(a) /\ client' = client /\ max_clients' = max_clients
      /\ time' = time /\ phase' = phase
  BY DEF Ignore, lifecycleVars, slotVars
<1>2. ASSUME NEW k \in Slots, Remote(k)' PROVE Unmoved(k)
  <2>1. Remote(k)
    BY <1>1, <1>2 DEF Remote, Connected
  <2> QED BY <1>1, <2>1, TableForFacts DEF Unmoved, Kept
<1>3. Covered(encryption_manager') /\ LiveFirst(encryption_manager', time)
  BY <1>1, TableForFacts
<1> QED BY <1>1, <1>2, <1>3, MapParts

LEMMA RequestMap ==
    ASSUME BaseInv, BaseInv', MapInv, NEW a \in Addresses, NEW t \in Tokens,
           RequestAnswered(a, t)
    PROVE  MapInv'
<1> DEFINE m == TableFor(a)
           x == time + Ticks(TokenTimeout[t])
           r == AddMapping(m, a, t, time, x, TokenTimeout[t])
<1>1. /\ client' = client /\ max_clients' = max_clients /\ time' = time /\ phase' = phase
      /\ AtAddress(a) = {}
  BY DEF RequestAnswered, RequestAcceptable, lifecycleVars, slotVars
<1>2. encryption_manager' = m \/ (CanAdd(m, a, time) /\ encryption_manager' = r)
  BY DEF RequestAnswered
<1>3. /\ x \in Int /\ TokenTimeout[t] \in Timeouts /\ t \in TableKeys /\ time \in Int
  BY ConstantFacts, TimeFacts, TableTyped DEF BaseInv
<1>4. /\ m \in TableOf(Timeouts, TableKeys) /\ Covered(m) /\ LiveFirst(m, time)
      /\ \A k \in Slots : Remote(k) =>
           /\ InUse(m, client[k].encryption_index, client[k].address, time)
           /\ client[k].address # a
           /\ m.entry[client[k].encryption_index] =
                encryption_manager.entry[client[k].encryption_index]
  BY <1>1, TableForFacts
<1> HIDE DEF m, x
<1>5. CanAdd(m, a, time) =>
        /\ Covered(r) /\ LiveFirst(r, time)
        /\ \A b \in Addresses \ {a}, j \in Indices :
             InUse(m, j, b, time) => InUse(r, j, b, time) /\ r.entry[j] = m.entry[j]
  BY <1>3, <1>4, ConstantFacts, AddFacts
<1> HIDE DEF r
<1>6. ASSUME NEW k \in Slots, Remote(k)' PROVE Unmoved(k)
  <2>1. Remote(k)
    BY <1>1, <1>6 DEF Remote, Connected
  <2>2. client[k].address \in Addresses \ {a} /\ client[k].encryption_index \in Indices
    BY <2>1, <1>4, RemoteFacts DEF InUse
  <2>3. /\ InUse(encryption_manager', client[k].encryption_index, client[k].address, time)
        /\ encryption_manager'.entry[client[k].encryption_index] =
             encryption_manager.entry[client[k].encryption_index]
    BY <1>2, <1>4, <1>5, <2>1, <2>2
  <2> QED BY <1>1, <2>1, <2>3 DEF Unmoved, Kept
<1>7. Covered(encryption_manager') /\ LiveFirst(encryption_manager', time)
  BY <1>2, <1>4, <1>5
<1> QED BY <1>1, <1>6, <1>7, MapParts

\* netcode_server_connect_client: the newcomer has the mapping it was found by.
LEMMA ConnectMap ==
    ASSUME BaseInv, BaseInv', MapInv, NEW a \in Addresses, NEW c \in challenges,
           ConnectClient(a, c)
    PROVE  MapInv'
<1> DEFINE i == Min(FreeSlots)
           em == encryption_manager
           j == FindIndex(em, a, time)
           r == TouchMapping(SetExpireTime(FindTouch(em, a, time), j, Never), j, a, time)
<1>1. /\ AtAddress(a) = {} /\ j \in Indices /\ InUse(em, j, a, time)
      /\ c \in Challenges /\ TableFor(a).entry[j].key = c.token
  BY ConnectSlots
<1>2. PICK d : /\ Arrive(i, d)
               /\ d.loopback = FALSE /\ d.address = a /\ d.client_id = TokenId[c.token]
               /\ d.encryption_index = j /\ d.last_send = time
  BY ConnectSlots
<1>3. IndexFor(a) = j /\ TableFor(a) = FindTouch(em, a, time)
  BY <1>1 DEF IndexFor, TableFor
<1>4. /\ encryption_manager' = r /\ time' = time /\ phase' = phase
      /\ max_clients' = max_clients
  BY <1>3 DEF ConnectClient, lifecycleVars
<1>5. /\ em \in TableOf(Timeouts, TableKeys) /\ time \in Int
      /\ em.entry[j] \in EntryOf(Timeouts, TableKeys)
      /\ Covered(em) /\ LiveFirst(em, time) /\ j # NotFound
  BY <1>1, TableTyped, IndexFacts DEF BaseInv, MapInv
<1>6. /\ i \in Slots /\ client' = [client EXCEPT ![i] = d] /\ d \in SlotRecord
  BY <1>2 DEF Arrive
<1>7. client'[i] = d /\ \A k \in Slots \ {i} : client'[k] = client[k]
  BY <1>6 DEF BaseInv, ServerTypes
<1> HIDE DEF i, em
<1>8. /\ Covered(r) /\ LiveFirst(r, time)
      /\ \A b \in Addresses, l \in Indices :
           /\ InUse(r, l, b, time) <=> InUse(em, l, b, time)
           /\ b # a /\ InUse(em, l, b, time) => r.entry[l] = em.entry[l]
      /\ r.entry[j] = Accessed(Pinned(em.entry[j]), time)
  BY <1>5, ConstantFacts, ConnectFacts
<1>9. em.entry[j].key = c.token
  <2>1. FindTouch(em, a, time).entry[j] = Accessed(em.entry[j], time)
    <3>1. InUse(em, j, a, time) /\ j \in Indices
      BY <1>1 DEF em
    <3> HIDE DEF j
    <3> QED BY <1>5, <3>1, ConstantFacts, FindTouchFacts
  <2> QED BY <1>1, <1>3, <1>5, <2>1, ConstantFacts, AccessedFacts
<1> HIDE DEF j, r
<1>10. Refreshed(i)
  <2> DEFINE p == Pinned(em.entry[j])
             e == Accessed(p, time)
  <2>1. p \in EntryOf(Timeouts, TableKeys) /\ p.key = c.token /\ p.expire_time = Never
    BY <1>5, <1>9, ConstantFacts, PinnedFacts
  <2> HIDE DEF p
  <2>2. e.key = c.token /\ e.expire_time = Never /\ e.last_access_time = time
    BY <2>1, <1>5, ConstantFacts, AccessedFacts
  <2>3. r.entry[j] = e
    BY <1>8 DEF p
  <2>4. c.token \in Tokens /\ InUse(r, j, a, time) /\ Never < 0
    BY <1>1, <1>8, TimeFacts DEF Challenges, em
  <2> HIDE DEF e
  <2>5. time <= time
    BY <1>5
  <2> QED BY <1>2, <1>4, <1>7, <2>2, <2>3, <2>4, <2>5 DEF Refreshed, Backed
<1>11. ASSUME NEW k \in Slots, k # i, Remote(k)' PROVE Unmoved(k)
  <2>1. Remote(k) /\ client'[k] = client[k]
    BY <1>4, <1>7, <1>11 DEF Remote, Connected
  <2>2. /\ client[k].address \in Addresses /\ client[k].encryption_index \in Indices
        /\ InUse(em, client[k].encryption_index, client[k].address, time)
    BY <2>1, RemoteFacts DEF MapInv, Backed, InUse, em
  <2>3. client[k].address # a
    BY <2>1, <1>1 DEF AtAddress, Remote
  <2> QED BY <1>4, <1>8, <2>1, <2>2, <2>3 DEF Unmoved, Kept, em
<1>12. Covered(encryption_manager') /\ LiveFirst(encryption_manager', time)
  BY <1>4, <1>8
<1> QED BY <1>4, <1>10, <1>11, <1>12, MapParts

\* A step that leaves the table alone, and the clients and their send times.
LEMMA QuietMap ==
    ASSUME BaseInv, BaseInv', MapInv, NEW L, Leave(L),
           encryption_manager' = encryption_manager, time' = time, phase' = phase,
           \A k \in Slots \ L : Remote(k) => client'[k].last_send = client[k].last_send
    PROVE  MapInv'
<1>1. Covered(encryption_manager') /\ LiveFirst(encryption_manager', time)
  BY DEF MapInv
<1>2. ASSUME NEW k \in Slots, Remote(k)' PROVE Unmoved(k)
  <2>1. k \notin L /\ Kept(client[k], client'[k]) /\ max_clients' = max_clients
    BY <1>2 DEF Leave, Left, Stays, Remote, Connected
  <2>2. Remote(k)
    BY <1>2, <2>1 DEF Remote, Connected, Kept
  <2>3. Backed(client[k], encryption_manager, time)
    BY <2>2 DEF MapInv
  <2> QED BY <2>1, <2>2, <2>3 DEF Unmoved, Backed
<1> QED BY <1>1, <1>2, MapParts

\* A loopback client's arrival.
LEMMA LoopbackMap ==
    ASSUME BaseInv, BaseInv', MapInv, NEW i, NEW d, Arrive(i, d), d.loopback = TRUE,
           encryption_manager' = encryption_manager, time' = time, phase' = phase
    PROVE  MapInv'
<1>1. Covered(encryption_manager') /\ LiveFirst(encryption_manager', time)
  BY DEF MapInv
<1>2. i \in Slots /\ client' = [client EXCEPT ![i] = d] /\ max_clients' = max_clients
  BY DEF Arrive
<1>3. client'[i] = d /\ \A k \in Slots \ {i} : client'[k] = client[k]
  BY <1>2 DEF BaseInv, ServerTypes
<1>4. ASSUME NEW k \in Slots, Remote(k)' PROVE Unmoved(k)
  <2>1. k # i
    BY <1>3, <1>4 DEF Remote
  <2>2. Remote(k) /\ client'[k] = client[k]
    BY <1>2, <1>3, <1>4, <2>1 DEF Remote, Connected
  <2>3. Backed(client[k], encryption_manager, time)
    BY <2>2 DEF MapInv
  <2> QED BY <2>2, <2>3 DEF Unmoved, Backed, Kept
<1> QED BY <1>1, <1>4, MapParts

\* Sending to remote clients touches their mappings and no dead one.
LEMMA SendsMap ==
    ASSUME BaseInv, MapInv, NEW slots, slots \subseteq {k \in Slots : Remote(k)}
    PROVE  LET r == TableAfterSends(encryption_manager, slots)
           IN  /\ r \in TableOf(Timeouts, TableKeys) /\ Covered(r) /\ LiveFirst(r, time)
               /\ \A k \in Slots : Remote(k) =>
                    /\ CanSend(encryption_manager, k)
                    /\ InUse(r, client[k].encryption_index, client[k].address, time)
                    /\ r.entry[client[k].encryption_index] \in
                         {encryption_manager.entry[client[k].encryption_index],
                          Accessed(encryption_manager.entry[client[k].encryption_index], time)}
                    /\ k \in slots => r.entry[client[k].encryption_index] =
                          Accessed(encryption_manager.entry[client[k].encryption_index], time)
<1> DEFINE em == encryption_manager
           r == TableAfterSends(em, slots)
           Sent(j) == \E i \in slots : client[i].encryption_index = j /\ CanSend(em, i)
<1>1. /\ r \in TableOf(Timeouts, TableKeys) /\ r.num = em.num
      /\ \A j \in Indices : r.entry[j] = IF Sent(j) THEN Accessed(em.entry[j], time)
                                                    ELSE em.entry[j]
  BY SendsTable DEF BaseInv
<1>2. /\ time \in Int /\ \A j \in Indices : em.entry[j] \in EntryOf(Timeouts, TableKeys)
      /\ Covered(em) /\ LiveFirst(em, time)
  BY TableTyped DEF BaseInv, MapInv
<1>3. ASSUME NEW k \in Slots, Remote(k)
      PROVE  /\ client[k].encryption_index \in Indices
             /\ InUse(em, client[k].encryption_index, client[k].address, time)
             /\ CanSend(em, k)
  BY <1>3 DEF MapInv, Backed, InUse, CanSend, TouchAllowed
<1>4. ASSUME NEW j \in Indices
      PROVE  /\ r.entry[j].address = em.entry[j].address
             /\ EntryExpired(r.entry[j], time) <=> EntryExpired(em.entry[j], time)
  <2>1. CASE ~Sent(j)
    BY <1>1, <2>1
  <2>2. CASE Sent(j)
    <3>1. ~EntryExpired(em.entry[j], time)
      BY <1>3, <2>2 DEF InUse
    <3>2. r.entry[j] = Accessed(em.entry[j], time)
      BY <1>1, <2>2
    <3> QED BY <3>1, <3>2, <1>2, ConstantFacts, AccessedFacts
  <2> QED BY <2>1, <2>2
<1>5. Covered(r)
  BY <1>1, <1>2, <1>4 DEF Covered
<1>6. LiveFirst(r, time)
  BY <1>2, <1>4 DEF LiveFirst
<1>7. ASSUME NEW k \in Slots, Remote(k)
      PROVE  InUse(r, client[k].encryption_index, client[k].address, time)
  BY <1>1, <1>3, <1>4, <1>7 DEF InUse
<1>8. \A k \in Slots : Remote(k) /\ k \in slots => Sent(client[k].encryption_index)
  BY <1>3
<1> HIDE DEF r, Sent
<1> QED BY <1>1, <1>3, <1>5, <1>6, <1>7, <1>8 DEF r

\* A client just sent something, with the table after the sends.
LEMMA SentBacked ==
    ASSUME BaseInv, MapInv, NEW k \in Slots, Remote(k), NEW m, NEW d,
           InUse(m, client[k].encryption_index, client[k].address, time),
           m.entry[client[k].encryption_index] =
             Accessed(encryption_manager.entry[client[k].encryption_index], time),
           Kept(client[k], d), d.last_send = time
    PROVE  Backed(d, m, time)
<1> DEFINE j == client[k].encryption_index
           e == encryption_manager.entry[j]
<1>1. Backed(client[k], encryption_manager, time)
  BY DEF MapInv
<1>2. j \in Indices /\ e \in EntryOf(Timeouts, TableKeys) /\ time \in Int
  BY <1>1, TableTyped DEF BaseInv, Backed, InUse
<1>3. e.key \in Tokens /\ TokenId[e.key] = client[k].client_id /\ e.expire_time < 0
  BY <1>1 DEF Backed
<1>4. m.entry[j] = Accessed(e, time) /\ InUse(m, j, client[k].address, time)
  OBVIOUS
<1>5. /\ d.encryption_index = j /\ d.address = client[k].address
      /\ d.client_id = client[k].client_id
  BY DEF Kept
<1> HIDE DEF j, e
<1>6. /\ Accessed(e, time).key = e.key /\ Accessed(e, time).expire_time = e.expire_time
      /\ Accessed(e, time).last_access_time = time
  BY <1>2, ConstantFacts, AccessedFacts
<1>7. time <= time
  BY <1>2
<1> QED BY <1>3, <1>4, <1>5, <1>6, <1>7 DEF Backed

LEMMA SendPacketMap ==
    ASSUME BaseInv, BaseInv', MapInv, NEW i \in Slots, SendPacket(i)
    PROVE  MapInv'
<1>1. /\ time' = time /\ phase' = phase /\ max_clients' = max_clients
      /\ ServerTypes /\ client \in [Slots -> SlotRecord] /\ client[i] \in SlotRecord
  BY DEF SendPacket, lifecycleVars, BaseInv, ServerTypes
<1>2. CASE client[i].loopback
  <2>1. encryption_manager' = encryption_manager /\ Leave({})
    BY <1>2, SendPacketSlots DEF SendPacket
  <2>2. client' = [client EXCEPT ![i].last_send = time]
    BY <1>2 DEF SendPacket
  <2>3. \A k \in Slots \ {i} : client'[k] = client[k]
    BY <1>1, <2>2
  <2>4. ~Remote(i)
    BY <1>2 DEF Remote
  <2> QED BY <1>1, <2>1, <2>3, <2>4, QuietMap
<1>3. CASE ~client[i].loopback
  <2> DEFINE r == TableAfterSends(encryption_manager, {i})
  <2>1. Remote(i)
    BY <1>3 DEF SendPacket, Remote
  <2>2. client' = ClientsAfterSends(encryption_manager, {i}) /\ encryption_manager' = r
    BY <1>3 DEF SendPacket
  <2>3. {i} \subseteq {k \in Slots : Remote(k)}
    BY <2>1
  <2>4. \A k \in Slots : /\ Stays(client[k], client'[k])
                         /\ client'[k].last_send =
                              IF k \in {i} /\ CanSend(encryption_manager, k)
                              THEN time ELSE client[k].last_send
    BY <1>1, <2>2, SendsFacts
  <2>5. /\ Covered(r) /\ LiveFirst(r, time)
        /\ \A k \in Slots : Remote(k) =>
             /\ CanSend(encryption_manager, k)
             /\ InUse(r, client[k].encryption_index, client[k].address, time)
             /\ r.entry[client[k].encryption_index] \in
                  {encryption_manager.entry[client[k].encryption_index],
                   Accessed(encryption_manager.entry[client[k].encryption_index], time)}
             /\ k \in {i} => r.entry[client[k].encryption_index] =
                   Accessed(encryption_manager.entry[client[k].encryption_index], time)
    BY <2>3, SendsMap
  <2> HIDE DEF r
  <2>6. ASSUME NEW k \in Slots, Remote(k)' PROVE Unmoved(k) \/ Refreshed(k)
    <3>1. Remote(k) /\ Kept(client[k], client'[k])
      BY <1>1, <2>4, <2>6 DEF Remote, Connected, Stays, Kept
    <3>2. CASE k = i
      <4>1. client'[k].last_send = time
        BY <2>4, <2>5, <3>1, <3>2
      <4>2. Backed(client'[k], r, time)
        BY <2>5, <3>1, <3>2, <4>1, SentBacked
      <4> QED BY <2>2, <4>1, <4>2 DEF Refreshed
    <3>3. CASE k # i
      <4>1. client'[k].last_send = client[k].last_send
        BY <2>4, <3>3
      <4> QED BY <2>2, <2>5, <3>1, <4>1 DEF Unmoved
    <3> QED BY <3>2, <3>3
  <2>7. Covered(encryption_manager') /\ LiveFirst(encryption_manager', time)
    BY <2>2, <2>5
  <2> QED BY <1>1, <2>6, <2>7, MapParts
<1> QED BY <1>2, <1>3

\* Removing the mapping of one client leaves those of the others.
LEMMA RemoveOne ==
    ASSUME NEW m \in TableOf(Timeouts, TableKeys), NEW a \in Addresses,
           Covered(m), LiveFirst(m, time), time \in Int
    PROVE  LET r == RemoveMapping(m, a, time)
           IN  /\ r \in TableOf(Timeouts, TableKeys) /\ Covered(r) /\ LiveFirst(r, time)
               /\ \A b \in Addresses, j \in Indices :
                    b # a /\ InUse(m, j, b, time) =>
                      InUse(r, j, b, time) /\ r.entry[j] = m.entry[j]
<1> DEFINE r == RemoveMapping(m, a, time)
<1>1. /\ r \in TableOf(Timeouts, TableKeys) /\ Covered(r) /\ LiveFirst(r, time)
      /\ \A b \in Addresses \ {a}, j \in Indices :
           InUse(m, j, b, time) => InUse(r, j, b, time) /\ r.entry[j] = m.entry[j]
  BY ConstantFacts, RemoveFacts
<1> HIDE DEF r
<1> QED BY <1>1 DEF r

LEMMA DisconnectMap ==
    ASSUME BaseInv, BaseInv', MapInv, NEW a \in Addresses, NEW t \in Tokens,
           DisconnectPacket(a, t)
    PROVE  MapInv'
<1> DEFINE i == Min(AtAddress(a))
           r == RemoveMapping(encryption_manager, a, time)
<1>1. /\ encryption_manager' = r /\ time' = time /\ phase' = phase
      /\ max_clients' = max_clients /\ client' = [client EXCEPT ![i] = Vacated(client[i])]
  BY DEF DisconnectPacket, lifecycleVars
<1>2. i \in Slots /\ client[i].address = a /\ Remote(i)
  BY FoundIsRemote DEF DisconnectPacket, FromClient
<1>3. Leave({i})
  BY DisconnectSlots
<1> HIDE DEF i
<1>4. \A k \in Slots \ {i} : client'[k] = client[k]
  BY <1>1, <1>2 DEF BaseInv, ServerTypes
<1>5. /\ Covered(r) /\ LiveFirst(r, time)
      /\ \A b \in Addresses, j \in Indices :
           b # a /\ InUse(encryption_manager, j, b, time) =>
             InUse(r, j, b, time) /\ r.entry[j] = encryption_manager.entry[j]
  BY TableTyped, RemoveOne DEF BaseInv, MapInv
<1> HIDE DEF r
<1>6. ASSUME NEW k \in Slots, Remote(k)' PROVE Unmoved(k)
  <2>1. k # i
    BY <1>3, <1>6 DEF Leave, Left, Remote, Connected
  <2>2. Remote(k) /\ client'[k] = client[k]
    BY <1>1, <1>4, <1>6, <2>1 DEF Remote, Connected
  <2>3. client[k].address # a
    BY <1>2, <2>1, <2>2 DEF BaseInv, SlotInv, RemoteClientsDistinct
  <2>4. /\ client[k].address \in Addresses /\ client[k].encryption_index \in Indices
        /\ InUse(encryption_manager, client[k].encryption_index, client[k].address, time)
    BY <2>2, RemoteFacts DEF MapInv, Backed, InUse
  <2> QED BY <1>1, <1>5, <2>2, <2>3, <2>4 DEF Unmoved, Kept
<1>7. Covered(encryption_manager') /\ LiveFirst(encryption_manager', time)
  BY <1>1, <1>5
<1> QED BY <1>1, <1>6, <1>7, MapParts

\* The disconnect packets of netcode_server_disconnect_client_internal, slot by
\* slot: before round n, the mappings of the clients not yet gone are there.
Stage(m, slots, n) ==
    /\ m \in TableOf(Timeouts, TableKeys) /\ Covered(m) /\ LiveFirst(m, time)
    /\ \A k \in Slots : Remote(k) /\ (k \notin slots \/ k >= n) =>
         /\ InUse(m, client[k].encryption_index, client[k].address, time)
         /\ m.entry[client[k].encryption_index] =
              encryption_manager.entry[client[k].encryption_index]

LEMMA RoundStage ==
    ASSUME BaseInv, MapInv, NEW n \in 1 .. MaxClients, NEW slots,
           slots \subseteq {k \in Slots : Remote(k)},
           NEW m, Stage(m, slots, n - 1)
    PROVE  Stage(Round(m, slots, n), slots, n)
<1> DEFINE i == n - 1
           a == client[i].address
           j == client[i].encryption_index
           sent == TouchMapping(m, j, a, time)
           r == RemoveMapping(sent, a, time)
<1>1. time \in Int
  BY TableTyped DEF BaseInv
<1>2. CASE i \notin slots
  <2>1. Round(m, slots, n) = m
    BY <1>2 DEF Round
  <2>2. \A k \in Slots : (k \notin slots \/ k >= n) => (k \notin slots \/ k >= n - 1)
    BY SlotFacts
  <2> QED BY <2>1, <2>2 DEF Stage
<1>3. CASE i \in slots
  <2>1. i \in Slots /\ Remote(i) /\ a \in Addresses /\ i >= n - 1
    <3>1. i \in Slots /\ Remote(i)
      BY <1>3
    <3>2. i >= n - 1
      OBVIOUS
    <3> HIDE DEF i
    <3> QED BY <3>1, <3>2, RemoteFacts
  <2>2. Round(m, slots, n) = r
    BY <1>3 DEF Round
  <2>3. /\ m \in TableOf(Timeouts, TableKeys) /\ Covered(m) /\ LiveFirst(m, time)
        /\ InUse(m, j, a, time) /\ j \in Indices
    BY <2>1 DEF Stage, InUse
  <2> HIDE DEF i, a, j
  <2>4. /\ sent \in TableOf(Timeouts, TableKeys) /\ Covered(sent) /\ LiveFirst(sent, time)
        /\ \A b \in Addresses, l \in Indices :
             InUse(sent, l, b, time) <=> InUse(m, l, b, time)
        /\ \A l \in Indices \ {j} : sent.entry[l] = m.entry[l]
    BY <1>1, <2>1, <2>3, ConstantFacts, TouchFacts
  <2> HIDE DEF sent
  <2>5. /\ r \in TableOf(Timeouts, TableKeys) /\ Covered(r) /\ LiveFirst(r, time)
        /\ \A b \in Addresses, l \in Indices :
             b # a /\ InUse(sent, l, b, time) =>
               InUse(r, l, b, time) /\ r.entry[l] = sent.entry[l]
    BY <1>1, <2>1, <2>4, RemoveOne
  <2> HIDE DEF r
  <2>6. ASSUME NEW k \in Slots, Remote(k), k \notin slots \/ k >= n
        PROVE  /\ InUse(r, client[k].encryption_index, client[k].address, time)
               /\ r.entry[client[k].encryption_index] =
                    encryption_manager.entry[client[k].encryption_index]
    <3>1. k # i /\ (k \notin slots \/ k >= n - 1)
      BY <1>3, <2>6, SlotFacts DEF i
    <3>2. client[k].address # a /\ client[k].address \in Addresses
      BY <2>1, <2>6, <3>1, RemoteFacts DEF a, BaseInv, SlotInv, RemoteClientsDistinct
    <3>3. /\ InUse(m, client[k].encryption_index, client[k].address, time)
          /\ m.entry[client[k].encryption_index] =
               encryption_manager.entry[client[k].encryption_index]
      BY <2>6, <3>1 DEF Stage
    <3>4. client[k].encryption_index \in Indices /\ client[k].encryption_index # j
      BY <2>3, <3>2, <3>3 DEF InUse
    <3> QED BY <2>4, <2>5, <3>2, <3>3, <3>4
  <2> QED BY <2>2, <2>5, <2>6 DEF Stage
<1> QED BY <1>2, <1>3

LEMMA DisconnectsStage ==
    ASSUME BaseInv, MapInv, NEW slots, slots \subseteq {k \in Slots : Remote(k)}
    PROVE  Stage(TableAfterDisconnects(encryption_manager, slots), slots, MaxClients)
<1>1. PICK f : /\ Rounds(f, encryption_manager, slots, MaxClients)
               /\ TableAfterDisconnects(encryption_manager, slots) = f[MaxClients]
  BY DisconnectsAre
<1>2. \A n \in 0 .. MaxClients :
        f[n] = IF n = 0 THEN encryption_manager ELSE Round(f[n - 1], slots, n)
  BY <1>1 DEF Rounds
<1> DEFINE B == {n \in Nat : n <= MaxClients /\ ~Stage(f[n], slots, n)}
<1>3. B = {}
  <2> SUFFICES ASSUME B # {} PROVE FALSE
    OBVIOUS
  <2>1. PICK n \in B : \A l \in B : n <= l
    <3>1. B \in SUBSET Nat
      OBVIOUS
    <3> HIDE DEF B
    <3> QED BY <3>1, NatMin
  <2>2. n \in Nat /\ n <= MaxClients /\ ~Stage(f[n], slots, n)
    BY <2>1
  <2>3. n # 0
    <3>1. Stage(encryption_manager, slots, 0)
      BY TableTyped DEF BaseInv, Stage, MapInv, Backed
    <3>2. f[0] = encryption_manager
      BY <1>2, ConstantFacts
    <3> QED BY <2>2, <3>1, <3>2
  <2>4. n \in 1 .. MaxClients /\ n - 1 \in Nat /\ n - 1 <= MaxClients /\ n - 1 \notin B
    BY <2>1, <2>2, <2>3, ConstantFacts
  <2>5. Stage(f[n - 1], slots, n - 1)
    BY <2>4
  <2>6. f[n] = Round(f[n - 1], slots, n)
    BY <1>2, <2>3, <2>4, ConstantFacts
  <2> QED BY <2>2, <2>4, <2>5, <2>6, RoundStage
<1>4. Stage(f[MaxClients], slots, MaxClients)
  BY <1>3, ConstantFacts
<1> QED BY <1>1, <1>4

\* netcode_server_disconnect_client and _disconnect_all_clients.
LEMMA DisconnectsMap ==
    ASSUME BaseInv, BaseInv', MapInv, NEW slots, slots \subseteq {k \in Slots : Remote(k)},
           Leave(slots), \A k \in Slots \ slots : client'[k] = client[k],
           encryption_manager' = TableAfterDisconnects(encryption_manager, slots),
           time' = time, phase' = phase
    PROVE  MapInv'
<1>1. Stage(encryption_manager', slots, MaxClients)
  BY DisconnectsStage
<1>2. ASSUME NEW k \in Slots, Remote(k)' PROVE Unmoved(k)
  <2>1. k \notin slots /\ max_clients' = max_clients
    BY <1>2 DEF Leave, Left, Remote, Connected
  <2>2. Remote(k) /\ client'[k] = client[k]
    BY <1>2, <2>1 DEF Remote, Connected
  <2> QED BY <1>1, <2>1, <2>2 DEF Unmoved, Kept, Stage
<1>3. Covered(encryption_manager') /\ LiveFirst(encryption_manager', time)
  BY <1>1 DEF Stage
<1> QED BY <1>2, <1>3, MapParts

\* Time passes: no mapping of a client expires before the next keep alive.
LEMMA BeginMap ==
    ASSUME KeptAlive, BaseInv, BaseInv', MapInv, UpdateBegin
    PROVE  MapInv'
<1> DEFINE em == encryption_manager
<1>1. /\ em' = em /\ client' = client /\ max_clients' = max_clients
      /\ phase = "idle" /\ phase' = "receiving"
      /\ \E t \in time .. time + MaxGap : time' = t
  BY DEF UpdateBegin, lifecycleVars, slotVars
<1>2. /\ time \in Int /\ time' \in Int /\ time <= time' /\ time' <= time + MaxGap
      /\ MaxGap \in Nat /\ SendInterval \in Nat
  BY <1>1, TableTyped, ServerAssumption DEF BaseInv
<1>3. \A j \in Indices : em.entry[j] \in EntryOf(Timeouts, TableKeys)
  BY TableTyped DEF BaseInv
<1>4. \A j \in Indices : EntryExpired(em.entry[j], time) => EntryExpired(em.entry[j], time')
  BY <1>2, <1>3, ConstantFacts, ExpiredStays
<1>5. Covered(em') /\ LiveFirst(em', time')
  BY <1>1, <1>4 DEF MapInv, LiveFirst
<1>6. ASSUME NEW k \in Slots, Remote(k)'
      PROVE  /\ Backed(client'[k], em', time')
             /\ client'[k].last_send <= time'
             /\ time' <= client'[k].last_send + Silence'
  <2> DEFINE j == client[k].encryption_index
             e == em.entry[j]
  <2>1. Remote(k)
    BY <1>1, <1>6 DEF Remote, Connected
  <2>2. /\ Backed(client[k], em, time) /\ client[k].last_send <= time
        /\ time <= client[k].last_send + SendInterval /\ client[k].last_send \in Nat
    BY <1>1, <2>1, RemoteFacts, SlotFields DEF MapInv, Silence
  <2>3. j \in Indices /\ e \in EntryOf(Timeouts, TableKeys) /\ client[k].last_send <= e.last_access_time
    BY <1>3, <2>2 DEF Backed, InUse
  <2>4. ~EntryExpired(e, time')
    <3>1. e.expire_time < 0
      BY <2>2 DEF Backed
    <3>2. e.timeout \in Timeouts /\ e.timeout \in Int /\ e.last_access_time \in Int
      BY <2>3, ConstantFacts DEF EntryOf
    <3>3. e.timeout > 0 => MaxGap + SendInterval <= Ticks(e.timeout)
      BY <3>2 DEF KeptAlive, Timeouts
    <3>4. Ticks(e.timeout) \in Int
      BY <3>2, TimeFacts
    <3>5. e.timeout > 0 => e.last_access_time + Ticks(e.timeout) >= time'
      BY <1>2, <2>2, <2>3, <3>2, <3>3, <3>4
    <3>6. e.expire_time \in Int
      BY <2>3 DEF EntryOf
    <3> HIDE DEF e
    <3> QED BY <1>2, <3>1, <3>2, <3>4, <3>5, <3>6 DEF EntryExpired
  <2>5. Backed(client'[k], em', time')
    BY <1>1, <2>2, <2>4 DEF Backed, InUse
  <2>6. client'[k].last_send <= time'
    BY <1>1, <1>2, <2>2
  <2>7. time' <= client'[k].last_send + Silence'
    BY <1>1, <1>2, <2>2 DEF Silence
  <2> QED BY <2>5, <2>6, <2>7
<1> QED BY <1>5, <1>6 DEF MapInv

\* netcode_server_send_packets and _check_for_timeouts: whoever was silent for
\* the send interval is sent a keep alive, and one overdue client is dropped.
LEMMA EndMap ==
    ASSUME BaseInv, BaseInv', MapInv, UpdateEnd
    PROVE  MapInv'
<1> DEFINE em == encryption_manager
           due == IF running THEN SendDue ELSE {}
           clients == ClientsAfterSends(em, due)
           table == TableAfterSends(em, due)
<1>1. /\ time' = time /\ max_clients' = max_clients /\ time \in Nat /\ SendInterval \in Nat
      /\ ServerTypes
  BY ServerAssumption DEF UpdateEnd, lifecycleVars, BaseInv, ServerTypes
<1>2. due \subseteq {k \in Slots : Remote(k)}
  BY DEF SendDue
<1>3. \A k \in Slots : Remote(k) /\ k \notin due => time <= client[k].last_send + SendInterval
  <2>1. ASSUME NEW k \in Slots, Remote(k), k \notin due
        PROVE  time <= client[k].last_send + SendInterval
    <3>1. running
      BY <1>1, <2>1, SlotFacts DEF BaseInv, SlotInv, ServerTypes, Remote, Connected
    <3>2. client[k].last_send \in Nat
      BY <2>1, RemoteFacts, SlotFields
    <3> QED BY <1>1, <2>1, <3>1, <3>2 DEF SendDue
  <2> QED BY <2>1
<1> HIDE DEF due
<1>4. \A k \in Slots : /\ Stays(client[k], clients[k])
                       /\ clients[k].last_send =
                            IF k \in due /\ CanSend(em, k) THEN time ELSE client[k].last_send
  BY <1>1, SendsFacts
<1>5. /\ table \in TableOf(Timeouts, TableKeys) /\ Covered(table) /\ LiveFirst(table, time)
      /\ \A k \in Slots : Remote(k) =>
           /\ CanSend(em, k)
           /\ InUse(table, client[k].encryption_index, client[k].address, time)
           /\ table.entry[client[k].encryption_index] \in
                {em.entry[client[k].encryption_index],
                 Accessed(em.entry[client[k].encryption_index], time)}
           /\ k \in due => table.entry[client[k].encryption_index] =
                 Accessed(em.entry[client[k].encryption_index], time)
  BY <1>2, SendsMap
<1>6. /\ Covered(em') /\ LiveFirst(em', time)
      /\ \A k \in Slots : Remote(k)' =>
           /\ Remote(k) /\ client'[k] = clients[k]
           /\ InUse(em', client[k].encryption_index, client[k].address, time)
           /\ em'.entry[client[k].encryption_index] = table.entry[client[k].encryption_index]
  <2>1. CASE em' = table /\ client' = clients
    <3>1. \A k \in Slots : Remote(k)' => Remote(k)
      BY <1>1, <1>4, <2>1 DEF Remote, Connected, Stays, Kept
    <3> QED BY <1>5, <2>1, <3>1
  <2>2. ASSUME NEW i \in Slots, Leave({i}), Remote(i), client[i].address \in Addresses,
               \A k \in Slots \ {i} : client'[k] = clients[k],
               em' = RemoveMapping(table, client[i].address, time)
        PROVE  /\ Covered(em') /\ LiveFirst(em', time)
               /\ \A k \in Slots : Remote(k)' =>
                    /\ Remote(k) /\ client'[k] = clients[k]
                    /\ InUse(em', client[k].encryption_index, client[k].address, time)
                    /\ em'.entry[client[k].encryption_index] = table.entry[client[k].encryption_index]
    <3> HIDE DEF table, clients
    <3>1. /\ Covered(em') /\ LiveFirst(em', time)
          /\ \A b \in Addresses, j \in Indices :
               b # client[i].address /\ InUse(table, j, b, time) =>
                 InUse(em', j, b, time) /\ em'.entry[j] = table.entry[j]
      BY <1>1, <1>5, <2>2, RemoveOne
    <3>2. ASSUME NEW k \in Slots, Remote(k)'
          PROVE  /\ Remote(k) /\ client'[k] = clients[k]
                 /\ InUse(em', client[k].encryption_index, client[k].address, time)
                 /\ em'.entry[client[k].encryption_index] =
                      table.entry[client[k].encryption_index]
      <4>1. k # i
        BY <2>2, <3>2 DEF Leave, Left, Remote, Connected
      <4>2. client'[k] = clients[k] /\ Remote(k)
        BY <1>1, <1>4, <2>2, <3>2, <4>1 DEF Remote, Connected, Stays, Kept
      <4>3. client[k].address # client[i].address
        BY <2>2, <4>1, <4>2 DEF BaseInv, SlotInv, RemoteClientsDistinct
      <4>4. /\ client[k].address \in Addresses /\ client[k].encryption_index \in Indices
            /\ InUse(table, client[k].encryption_index, client[k].address, time)
        BY <1>5, <4>2, RemoteFacts DEF InUse
      <4> QED BY <3>1, <4>2, <4>3, <4>4
    <3> QED BY <3>1, <3>2
  <2> QED BY <2>1, <2>2, UpdateEndSlots DEF due
<1> HIDE DEF table, clients
<1>7. ASSUME NEW k \in Slots, Remote(k)'
      PROVE  (Unmoved(k) \/ Refreshed(k)) /\ time <= client'[k].last_send + SendInterval
  <2>1. Remote(k) /\ Kept(client[k], client'[k])
    BY <1>4, <1>6, <1>7 DEF Stays
  <2>2. CASE k \in due
    <3>1. client'[k].last_send = time
      BY <1>4, <1>5, <1>6, <1>7, <2>1, <2>2
    <3>2. Backed(client'[k], em', time)
      <4>1. /\ InUse(em', client[k].encryption_index, client[k].address, time)
            /\ em'.entry[client[k].encryption_index] =
                 Accessed(em.entry[client[k].encryption_index], time)
        BY <1>5, <1>6, <1>7, <2>1, <2>2
      <4> QED BY <2>1, <3>1, <4>1, SentBacked
    <3> QED BY <1>1, <3>1, <3>2 DEF Refreshed
  <2>3. CASE k \notin due
    <3>1. client'[k].last_send = client[k].last_send
      BY <1>4, <1>6, <1>7, <2>3
    <3>2. Unmoved(k)
      BY <1>5, <1>6, <1>7, <2>1, <3>1 DEF Unmoved
    <3> QED BY <1>3, <2>1, <2>3, <3>1, <3>2
  <2> QED BY <2>2, <2>3
<1> QED BY <1>1, <1>6, <1>7, MapParts

LEMMA RestartMap ==
    ASSUME BaseInv, BaseInv', MapInv, Restart, time' = time, phase' = phase,
           encryption_manager' \in {ResetTable, encryption_manager}
    PROVE  MapInv'
<1>1. \A k \in Slots : ~Remote(k)'
  <2>1. \A k \in Slots : client[k] \in SlotRecord /\ client'[k] \in SlotRecord
    BY DEF BaseInv, ServerTypes, Restart
  <2> QED BY <2>1, SlotFields DEF Restart, Remote, Connected, Left, Kept
<1>2. Covered(encryption_manager') /\ LiveFirst(encryption_manager', time')
  BY ConstantFacts, ResetTableFacts DEF MapInv
<1> QED BY <1>1, <1>2 DEF MapInv

LEMMA MapStep ==
    ASSUME KeptAlive, BaseInv, BaseInv', MapInv, [Next]_vars
    PROVE  MapInv'
<1>1. CASE UNCHANGED vars
  BY <1>1 DEF MapInv, Backed, InUse, Silence, Remote, Connected, vars
<1>2. CASE Packet
  <2>1. ASSUME NEW a \in Addresses, NEW t \in Tokens, KeepAlivePacket(a, t) PROVE MapInv'
    <3>1. /\ time' = time /\ phase' = phase /\ encryption_manager' = encryption_manager
          /\ client' = [client EXCEPT ![Min(AtAddress(a))].last_receive = time,
                                      ![Min(AtAddress(a))].confirmed = TRUE]
      BY <2>1 DEF KeepAlivePacket
    <3>2. Leave({})
      BY <2>1, KeepAliveSlots
    <3>3. \A k \in Slots : client'[k].last_send = client[k].last_send
      <4> DEFINE n == Min(AtAddress(a))
      <4>1. client \in [Slots -> SlotRecord]
        BY DEF BaseInv, ServerTypes
      <4>2. client' = [client EXCEPT ![n].last_receive = time, ![n].confirmed = TRUE]
        BY <3>1
      <4> HIDE DEF n
      <4> QED BY <4>1, <4>2 DEF SlotRecord
    <3> QED BY <3>1, <3>2, <3>3, QuietMap
  <2>2. ASSUME NEW a \in Addresses, NEW t \in Tokens, PayloadPacket(a, t) PROVE MapInv'
    <3>1. time' = time /\ phase' = phase /\ encryption_manager' = encryption_manager
      BY <2>2 DEF PayloadPacket
    <3>2. Leave({}) /\ \A k \in Slots : client'[k].last_send = client[k].last_send
      BY <2>2, PayloadSlots
    <3> QED BY <3>1, <3>2, QuietMap
  <2> QED BY <1>2, <2>1, <2>2, IgnoreMap, RequestMap, ConnectMap, DisconnectMap
         DEF Packet, RequestIgnored, StrayPacket, ResponseIgnored
<1>3. CASE Api
  <2>1. ASSUME NEW n \in 1 .. MaxClients, Start(n) PROVE MapInv'
    <3>1. Restart
      BY <2>1, StartSlots
    <3>2. time' = time /\ phase' = phase /\ encryption_manager' \in {ResetTable, encryption_manager}
      BY <2>1 DEF Start
    <3> QED BY <3>1, <3>2, RestartMap
  <2>2. ASSUME Stop PROVE MapInv'
    <3>1. Restart
      BY <2>2, StopSlots
    <3>2. time' = time /\ phase' = phase /\ encryption_manager' \in {ResetTable, encryption_manager}
      BY <2>2 DEF Stop
    <3> QED BY <3>1, <3>2, RestartMap
  <2>3. ASSUME DisconnectAllClients PROVE MapInv'
    <3> DEFINE all == {k \in Slots : Remote(k)}
    <3>1. /\ time' = time /\ phase' = phase /\ client' = ClientsAfterStop
          /\ encryption_manager' = TableAfterDisconnects(encryption_manager, all)
      BY <2>3 DEF DisconnectAllClients
    <3>2. Leave(all)
      BY <2>3, DisconnectAllSlots
    <3>3. \A k \in Slots \ all : client'[k] = client[k]
      BY <3>1 DEF ClientsAfterStop
    <3>4. all \subseteq {k \in Slots : Remote(k)}
      OBVIOUS
    <3> HIDE DEF all
    <3> QED BY <3>1, <3>2, <3>3, <3>4, DisconnectsMap
  <2>4. ASSUME NEW i \in Slots, DisconnectClient(i) PROVE MapInv'
    <3>1. /\ time' = time /\ phase' = phase /\ client' = [client EXCEPT ![i] = Vacated(@)]
          /\ encryption_manager' = TableAfterDisconnects(encryption_manager, {i})
          /\ {i} \subseteq {k \in Slots : Remote(k)}
      BY <2>4 DEF DisconnectClient
    <3>2. Leave({i})
      BY <2>4, DisconnectClientSlots
    <3>3. \A k \in Slots \ {i} : client'[k] = client[k]
      BY <3>1 DEF BaseInv, ServerTypes
    <3> QED BY <3>1, <3>2, <3>3, DisconnectsMap
  <2>5. ASSUME NEW i \in Slots, ReceivePacket(i) PROVE MapInv'
    <3>1. time' = time /\ phase' = phase /\ encryption_manager' = encryption_manager
      BY <2>5 DEF ReceivePacket
    <3>2. Leave({}) /\ \A k \in Slots : client'[k].last_send = client[k].last_send
      BY <2>5, ReceivePacketSlots
    <3> QED BY <3>1, <3>2, QuietMap
  <2>6. ASSUME NEW i \in Slots, NEW id \in LoopbackIds, ConnectLoopbackClient(i, id)
        PROVE  MapInv'
    <3> DEFINE d == LoopbackSlot(client[i], id, time)
    <3>1. time' = time /\ phase' = phase /\ encryption_manager' = encryption_manager
      BY <2>6 DEF ConnectLoopbackClient
    <3>2. Arrive(i, d)
      BY <2>6, ConnectLoopbackSlots
    <3>3. d.loopback = TRUE
      <4>1. client[i] \in SlotRecord /\ time \in Nat /\ id \in Ids
        BY ConstantFacts DEF BaseInv, ServerTypes
      <4> QED BY <4>1, LoopbackFacts
    <3> HIDE DEF d
    <3> QED BY <3>1, <3>2, <3>3, LoopbackMap
  <2>7. ASSUME NEW i \in Slots, DisconnectLoopbackClient(i) PROVE MapInv'
    <3>1. /\ time' = time /\ phase' = phase /\ encryption_manager' = encryption_manager
          /\ client' = [client EXCEPT ![i] = UnloopedSlot(client[i])]
      BY <2>7 DEF DisconnectLoopbackClient, UnloopedSlot
    <3>2. Leave({i})
      BY <2>7, DisconnectLoopbackSlots
    <3>3. \A k \in Slots \ {i} : client'[k] = client[k]
      BY <3>1 DEF BaseInv, ServerTypes
    <3> QED BY <3>1, <3>2, <3>3, QuietMap
  <2>8. ASSUME NEW i \in Slots, ProcessLoopbackPacket(i) PROVE MapInv'
    <3>1. time' = time /\ phase' = phase /\ encryption_manager' = encryption_manager
      BY <2>8 DEF ProcessLoopbackPacket
    <3>2. Leave({}) /\ \A k \in Slots : client'[k] = client[k] \/ client[k].loopback = TRUE
      BY <2>8, ProcessLoopbackSlots
    <3>3. \A k \in Slots : Remote(k) => client'[k].last_send = client[k].last_send
      BY <3>2, RemoteFacts
    <3> QED BY <3>1, <3>2, <3>3, QuietMap
  <2> QED BY <1>3, <2>1, <2>2, <2>3, <2>4, <2>5, <2>6, <2>7, <2>8, SendPacketMap DEF Api
<1> QED BY <1>1, <1>2, <1>3, BeginMap, EndMap DEF Next

LEMMA MapHolds == ASSUME KeptAlive PROVE Spec => []MapInv
<1>1. Init => MapInv
  <2> SUFFICES ASSUME Init PROVE MapInv
    OBVIOUS
  <2>1. \A k \in Slots : ~Remote(k)
    BY SlotFacts DEF Init, Remote, Connected
  <2>2. Covered(encryption_manager) /\ LiveFirst(encryption_manager, time)
    BY ConstantFacts, ResetTableFacts DEF Init
  <2> QED BY <2>1, <2>2 DEF MapInv
<1>2. BaseInv /\ BaseInv' /\ MapInv /\ [Next]_vars => MapInv'
  BY MapStep
<1> QED BY <1>1, <1>2, BaseHolds, PTL DEF Spec

\* When no update comes so late that a mapping could expire unrefreshed, every
\* remote client has its own mapping with the key of one of its own tokens, at
\* every moment of an update and between updates (netcode.c:3370, 3380, 3391,
\* 3738).
THEOREM ClientsKeepMappings == ASSUME KeptAlive PROVE Spec => []MappingBacksClient
<1>1. BaseInv /\ MapInv => MappingBacksClient
  <2> SUFFICES ASSUME BaseInv, MapInv, NEW i \in Slots, Remote(i)
               PROVE  LET j == client[i].encryption_index
                          e == encryption_manager.entry[j]
                      IN  /\ j # NotFound /\ j < encryption_manager.num
                          /\ e.address = client[i].address
                          /\ \E t \in Tokens : e.key = t /\ TokenId[t] = client[i].client_id
    BY DEF MappingBacksClient
  <2>1. Backed(client[i], encryption_manager, time)
    BY DEF MapInv
  <2> QED BY <2>1, IndexFacts DEF Backed, InUse
<1> QED BY <1>1, BaseHolds, MapHolds, PTL

-----------------------------------------------------------------------------
(* The payloads waiting in the slots.                                      *)

\* Everything in a queue is from one client.
From(q, id) == \A n \in DOMAIN q : q[n] = id

LEMMA FromFacts ==
    ASSUME NEW q \in Queues, NEW id \in Ids
    PROVE  /\ From(<<>>, id)
           /\ From(q, id) => From(Push(q, id), id)
           /\ q # <<>> /\ From(q, id) => From(Tail(q), id)
<1>1. From(<<>>, id)
  BY DEF From
<1>2. ASSUME From(q, id) PROVE From(Append(q, id), id)
  BY <1>2 DEF From, Queues
<1>3. ASSUME q # <<>>, From(q, id) PROVE From(Tail(q), id)
  <2>1. ASSUME NEW n \in DOMAIN Tail(q) PROVE Tail(q)[n] = id
    <3>1. n + 1 \in DOMAIN q /\ Tail(q)[n] = q[n + 1]
      BY <1>3, <2>1 DEF Queues
    <3> QED BY <1>3, <3>1 DEF From
  <2> QED BY <2>1 DEF From
<1> QED BY <1>1, <1>2, <1>3 DEF Push

\* What a step may do to a slot's queue.
QueueStep(k) ==
    \/ client'[k].queue = <<>>
    \/ /\ client'[k].client_id = client[k].client_id
       /\ \/ client'[k].queue = client[k].queue
          \/ client[k].queue # <<>> /\ client'[k].queue = Tail(client[k].queue)
          \/ /\ client[k].client_id \in Ids
             /\ client'[k].queue = Push(client[k].queue, client[k].client_id)

LEMMA QueueParts ==
    ASSUME BaseInv, PayloadFromOccupant, \A k \in Slots : QueueStep(k)
    PROVE  PayloadFromOccupant'
<1>1. ASSUME NEW k \in Slots PROVE From(client'[k].queue, client'[k].client_id)
  <2>1. client[k].queue \in Queues /\ From(client[k].queue, client[k].client_id)
    BY SlotFields DEF BaseInv, ServerTypes, PayloadFromOccupant, From
  <2>2. CASE client'[k].queue = <<>>
    BY <2>2 DEF From
  <2>3. CASE client'[k].queue = client[k].queue /\ client'[k].client_id = client[k].client_id
    BY <2>1, <2>3
  <2>4. CASE /\ client[k].queue # <<>> /\ client'[k].queue = Tail(client[k].queue)
             /\ client'[k].client_id = client[k].client_id
    <3>1. client[k].client_id \in Ids
      <4>1. client[k].connected = TRUE
        BY <2>4, SlotFields DEF BaseInv, ServerTypes, SlotInv
      <4> QED BY <4>1 DEF BaseInv, SlotInv
    <3> QED BY <2>1, <2>4, <3>1, FromFacts
  <2>5. CASE /\ client'[k].client_id = client[k].client_id /\ client[k].client_id \in Ids
             /\ client'[k].queue = Push(client[k].queue, client[k].client_id)
    BY <2>1, <2>5, FromFacts
  <2> QED BY <2>2, <2>3, <2>4, <2>5 DEF QueueStep
<1> QED BY <1>1 DEF PayloadFromOccupant, From

\* The forms of a step, when the queues of those who stay are left alone.
LEMMA QueueForms ==
    ASSUME BaseInv, PayloadFromOccupant,
           \/ \E L : Leave(L) /\ \A k \in Slots \ L : client'[k].queue = client[k].queue
           \/ \E i, d : Arrive(i, d)
           \/ Restart
    PROVE  PayloadFromOccupant'
<1>1. ASSUME NEW L, Leave(L), \A k \in Slots \ L : client'[k].queue = client[k].queue
      PROVE  \A k \in Slots : QueueStep(k)
  BY <1>1 DEF Leave, Left, Stays, Kept, QueueStep
<1>2. ASSUME NEW i, NEW d, Arrive(i, d) PROVE \A k \in Slots : QueueStep(k)
  <2>1. /\ i \in Slots /\ client' = [client EXCEPT ![i] = d] /\ d.queue = client[i].queue
        /\ client[i].connected = FALSE
    BY <1>2 DEF Arrive
  <2>2. client'[i] = d /\ \A k \in Slots \ {i} : client'[k] = client[k]
    BY <2>1 DEF BaseInv, ServerTypes
  <2>3. client[i].queue = <<>>
    BY <2>1 DEF BaseInv, SlotInv
  <2> QED BY <2>1, <2>2, <2>3 DEF QueueStep
<1>3. ASSUME Restart PROVE \A k \in Slots : QueueStep(k)
  BY <1>3 DEF Restart, Left, Kept, QueueStep
<1> QED BY <1>1, <1>2, <1>3, QueueParts

\* A payload decrypts with the key of its sender's token, and the mapping of
\* the slot it is put into has that key: the sender is the occupant.
LEMMA PayloadQueue ==
    ASSUME BaseInv, MapInv, PayloadFromOccupant, NEW a \in Addresses, NEW t \in Tokens,
           PayloadPacket(a, t)
    PROVE  PayloadFromOccupant'
<1> DEFINE i == Min(AtAddress(a))
<1>1. FromClient(a, t)
  BY DEF PayloadPacket
<1>2. i \in Slots /\ Remote(i) /\ AtAddress(a) # {}
  BY <1>1, FoundIsRemote DEF FromClient
<1>3. KeyOf(encryption_manager, client[i].encryption_index) = t
  BY <1>1, <1>2 DEF FromClient, IndexFor
<1>4. Leave({}) /\ \A k \in Slots : \/ client'[k] = client[k]
                                    \/ /\ k = i
                                       /\ client'[k].queue = Push(client[k].queue, TokenId[t])
  BY PayloadSlots
<1> HIDE DEF i
<1>5. Backed(client[i], encryption_manager, time)
  BY <1>2 DEF MapInv
<1>6. TokenId[t] = client[i].client_id /\ client[i].client_id \in Ids
  <2>1. client[i].encryption_index # NotFound
    BY <1>5, IndexFacts DEF Backed, InUse
  <2>2. encryption_manager.entry[client[i].encryption_index].key = t
    BY <1>3, <2>1 DEF KeyOf
  <2> QED BY <1>5, <2>2, ConstantFacts DEF Backed
<1>7. \A k \in Slots : client'[k].client_id = client[k].client_id
  BY <1>4 DEF Leave, Stays, Kept
<1>8. \A k \in Slots : QueueStep(k)
  BY <1>4, <1>6, <1>7 DEF QueueStep
<1> QED BY <1>8, QueueParts

LEMMA QueueInvStep ==
    ASSUME BaseInv, MapInv, PayloadFromOccupant, [Next]_vars
    PROVE  PayloadFromOccupant'
<1> DEFINE Q == \E L : Leave(L) /\ \A k \in Slots \ L : client'[k].queue = client[k].queue
<1>0. ServerTypes /\ client \in [Slots -> SlotRecord]
  BY DEF BaseInv, ServerTypes
<1>1. CASE UNCHANGED vars
  BY <1>1 DEF PayloadFromOccupant, vars
<1>2. ASSUME client' = client PROVE PayloadFromOccupant'
  BY <1>2 DEF PayloadFromOccupant
<1>3. CASE Packet
  <2>1. ASSUME NEW a \in Addresses, NEW t \in Tokens, KeepAlivePacket(a, t)
        PROVE  PayloadFromOccupant'
    <3>1. client' = [client EXCEPT ![Min(AtAddress(a))].last_receive = time,
                                   ![Min(AtAddress(a))].confirmed = TRUE]
      BY <2>1 DEF KeepAlivePacket
    <3>2. \A k \in Slots : client'[k].queue = client[k].queue
      BY <1>0, <3>1 DEF SlotRecord
    <3>3. Leave({})
      BY <2>1, KeepAliveSlots
    <3> QED BY <3>2, <3>3, QueueForms
  <2>2. ASSUME NEW a \in Addresses, NEW t \in Tokens, DisconnectPacket(a, t)
        PROVE  PayloadFromOccupant'
    <3> DEFINE i == Min(AtAddress(a))
    <3>1. client' = [client EXCEPT ![i] = Vacated(client[i])]
      BY <2>2 DEF DisconnectPacket
    <3>2. Leave({i})
      BY <2>2, DisconnectSlots
    <3> HIDE DEF i
    <3>3. \A k \in Slots \ {i} : client'[k].queue = client[k].queue
      BY <1>0, <3>1
    <3> QED BY <3>2, <3>3, QueueForms
  <2>3. ASSUME NEW a \in Addresses, NEW c \in challenges, ConnectClient(a, c)
        PROVE  PayloadFromOccupant'
    <3>1. \E i, d : Arrive(i, d)
      BY <2>3, ConnectSlots
    <3> QED BY <3>1, QueueForms
  <2>4. \A a \in Addresses : Ignore(a) => client' = client
    BY DEF Ignore, slotVars
  <2>5. \A a \in Addresses, t \in Tokens : RequestAnswered(a, t) => client' = client
    BY DEF RequestAnswered, slotVars
  <2> QED BY <1>2, <1>3, <2>1, <2>2, <2>3, <2>4, <2>5, PayloadQueue
         DEF Packet, RequestIgnored, StrayPacket, ResponseIgnored
<1>4. CASE Api
  <2>1. ASSUME NEW n \in 1 .. MaxClients, Start(n) PROVE PayloadFromOccupant'
    BY <2>1, StartSlots, QueueForms
  <2>2. ASSUME Stop PROVE PayloadFromOccupant'
    BY <2>2, StopSlots, QueueForms
  <2>3. ASSUME DisconnectAllClients PROVE PayloadFromOccupant'
    <3> DEFINE all == {k \in Slots : Remote(k)}
    <3>1. client' = ClientsAfterStop
      BY <2>3 DEF DisconnectAllClients
    <3>2. Leave(all)
      BY <2>3, DisconnectAllSlots
    <3>3. \A k \in Slots \ all : client'[k].queue = client[k].queue
      BY <3>1 DEF ClientsAfterStop
    <3> HIDE DEF all
    <3> QED BY <3>2, <3>3, QueueForms
  <2>4. ASSUME NEW i \in Slots, DisconnectClient(i) PROVE PayloadFromOccupant'
    <3>1. client' = [client EXCEPT ![i] = Vacated(@)]
      BY <2>4 DEF DisconnectClient
    <3>2. Leave({i}) /\ \A k \in Slots \ {i} : client'[k].queue = client[k].queue
      BY <1>0, <2>4, <3>1, DisconnectClientSlots
    <3> QED BY <3>2, QueueForms
  <2>5. ASSUME NEW i \in Slots, SendPacket(i) PROVE PayloadFromOccupant'
    BY <2>5, SendPacketSlots, QueueForms
  <2>6. ASSUME NEW i \in Slots, ReceivePacket(i) PROVE PayloadFromOccupant'
    <3>1. /\ Leave({}) /\ client[i].queue # <<>> /\ client'[i].queue = Tail(client[i].queue)
          /\ \A k \in Slots \ {i} : client'[k] = client[k]
      BY <2>6, ReceivePacketSlots
    <3>2. \A k \in Slots : client'[k].client_id = client[k].client_id
      BY <3>1 DEF Leave, Stays, Kept
    <3>3. \A k \in Slots : QueueStep(k)
      BY <3>1, <3>2 DEF QueueStep
    <3> QED BY <3>3, QueueParts
  <2>7. ASSUME NEW i \in Slots, NEW id \in LoopbackIds, ConnectLoopbackClient(i, id)
        PROVE  PayloadFromOccupant'
    <3>1. \E d : Arrive(i, d)
      BY <2>7, ConnectLoopbackSlots
    <3> QED BY <3>1, QueueForms
  <2>8. ASSUME NEW i \in Slots, DisconnectLoopbackClient(i) PROVE PayloadFromOccupant'
    <3>1. client' = [client EXCEPT ![i] = [Vacated(@) EXCEPT !.loopback = FALSE]]
      BY <2>8 DEF DisconnectLoopbackClient
    <3>2. Leave({i}) /\ \A k \in Slots \ {i} : client'[k].queue = client[k].queue
      BY <1>0, <2>8, <3>1, DisconnectLoopbackSlots
    <3> QED BY <3>2, QueueForms
  <2>9. ASSUME NEW i \in Slots, ProcessLoopbackPacket(i) PROVE PayloadFromOccupant'
    <3>1. Leave({}) /\ \A k \in Slots :
            \/ client'[k] = client[k]
            \/ /\ k = i /\ client[k].loopback = TRUE
               /\ client'[k].queue = Push(client[k].queue, client[k].client_id)
      BY <2>9, ProcessLoopbackSlots
    <3>2. \A k \in Slots : client'[k].client_id = client[k].client_id
      BY <3>1 DEF Leave, Stays, Kept
    <3>3. \A k \in Slots : client[k].loopback = TRUE => client[k].client_id \in Ids
      BY DEF BaseInv, SlotInv
    <3>4. \A k \in Slots : QueueStep(k)
      BY <3>1, <3>2, <3>3 DEF QueueStep
    <3> QED BY <3>4, QueueParts
  <2> QED BY <1>4, <2>1, <2>2, <2>3, <2>4, <2>5, <2>6, <2>7, <2>8, <2>9 DEF Api
<1>5. CASE UpdateBegin
  BY <1>2, <1>5 DEF UpdateBegin, slotVars
<1>6. CASE UpdateEnd
  <2> DEFINE due == IF running THEN SendDue ELSE {}
             clients == ClientsAfterSends(encryption_manager, due)
  <2>1. \A k \in Slots : clients[k].queue = client[k].queue
    BY <1>0, SendsFacts
  <2>2. \/ Leave({}) /\ client' = clients
        \/ \E i \in Slots : Leave({i}) /\ \A k \in Slots \ {i} : client'[k] = clients[k]
    BY <1>6, UpdateEndSlots
  <2> HIDE DEF clients
  <2>3. Q
    BY <2>1, <2>2
  <2> QED BY <2>3, QueueForms
<1> QED BY <1>1, <1>3, <1>4, <1>5, <1>6 DEF Next

\* Under the same condition on updates, every payload the application can read
\* from a slot was sent by the client that occupies it: none survives the
\* slot's handover, and none is decrypted with another client's key
\* (netcode.c:3794-3802, 4606-4614, 3690).
THEOREM PayloadsFromOccupant == ASSUME KeptAlive PROVE Spec => []PayloadFromOccupant
<1>1. Init => PayloadFromOccupant
  BY DEF Init, FreeSlot, PayloadFromOccupant
<1>2. BaseInv /\ MapInv /\ PayloadFromOccupant /\ [Next]_vars => PayloadFromOccupant'
  BY QueueInvStep
<1> QED BY <1>1, <1>2, BaseHolds, MapHolds, PTL DEF Spec

-----------------------------------------------------------------------------
(* What the mappings in the table come from.  Only a connection request    *)
(* writes an address and a key; every other step hands entries on or gives *)
(* them up.                                                                *)

Inherits(m, r) ==
    /\ Covered(m) => Covered(r)
    /\ \A j \in Indices : r.entry[j].address # NoAddress =>
         /\ r.entry[j].address = m.entry[j].address
         /\ r.entry[j].key = m.entry[j].key

LEMMA InheritsTrans ==
    ASSUME NEW m, NEW n, NEW r, Inherits(m, n), Inherits(n, r)
    PROVE  Inherits(m, r)
BY DEF Inherits

LEMMA TouchInherits ==
    ASSUME NEW m \in TableOf(Timeouts, TableKeys), NEW j, NEW a, NEW t \in Int
    PROVE  Inherits(m, TouchMapping(m, j, a, t))
<1> DEFINE r == TouchMapping(m, j, a, t)
<1>1. /\ m.entry \in [Indices -> EntryOf(Timeouts, TableKeys)]
      /\ \A k \in Indices : m.entry[k] \in EntryOf(Timeouts, TableKeys)
  BY ConstantFacts, TableFields
<1>2. CASE j \in Indices /\ m.entry[j].address = a
  <2> DEFINE e == Accessed(m.entry[j], t)
  <2>1. r = Replaced(m, j, e)
    BY <1>2 DEF TouchMapping, TouchAllowed, Replaced, Accessed
  <2>2. e.address = m.entry[j].address /\ e.key = m.entry[j].key
    BY <1>1, <1>2, ConstantFacts, AccessedFacts
  <2> HIDE DEF e
  <2>3. /\ r.num = m.num /\ r.entry[j] = e
        /\ \A k \in Indices \ {j} : r.entry[k] = m.entry[k]
    <3>1. Replaced(m, j, e).num = m.num /\ Replaced(m, j, e).entry = [m.entry EXCEPT ![j] = e]
      BY DEF Replaced, TableOf
    <3> HIDE DEF r
    <3> QED BY <1>1, <1>2, <2>1, <3>1
  <2> HIDE DEF r
  <2>4. Inherits(m, r)
    BY <2>2, <2>3 DEF Inherits, Covered
  <2> QED BY <2>4 DEF r
<1>3. CASE j \notin Indices
  <2>1. [m EXCEPT !.entry[j].last_access_time = t] = m
    BY <1>1, <1>3 DEF TableOf
  <2>2. r = m
    BY <2>1 DEF TouchMapping
  <2> QED BY <2>2 DEF Inherits
<1>4. CASE m.entry[j].address # a
  <2>1. r = m
    BY <1>4 DEF TouchMapping, TouchAllowed
  <2> QED BY <2>1 DEF Inherits
<1> QED BY <1>2, <1>3, <1>4

LEMMA FindInherits ==
    ASSUME NEW m \in TableOf(Timeouts, TableKeys), NEW a \in Addresses, NEW t \in Int
    PROVE  Inherits(m, FindTouch(m, a, t))
<1> DEFINE j == FindIndex(m, a, t)
<1>1. CASE LiveAt(m, a, t) = {}
  BY <1>1 DEF FindTouch, Inherits
<1>2. CASE LiveAt(m, a, t) # {}
  <2>1. j \in Indices /\ m.entry[j].address = a
    BY <1>2, FindFacts DEF InUse
  <2>2. FindTouch(m, a, t) = TouchMapping(m, j, a, t)
    BY <1>2, <2>1 DEF FindTouch, TouchMapping, TouchAllowed
  <2> HIDE DEF j
  <2> QED BY <2>2, TouchInherits
<1> QED BY <1>1, <1>2

LEMMA RemoveInherits ==
    ASSUME NEW m \in TableOf(Timeouts, TableKeys), NEW a \in Addresses, NEW t \in Int
    PROVE  Inherits(m, RemoveMapping(m, a, t))
<1> DEFINE r == RemoveMapping(m, a, t)
<1>1. Covered(m) => Covered(r)
  BY ConstantFacts, RemoveFacts
<1>2. r = m \/ \E i \in Indices : GivenUp(m, i, r, t)
  BY ConstantFacts, RemoveGivesUp
<1> HIDE DEF r
<1>3. \A j \in Indices : r.entry[j].address # NoAddress => r.entry[j] = m.entry[j]
  BY <1>2 DEF GivenUp
<1>4. Inherits(m, r)
  BY <1>1, <1>3 DEF Inherits
<1> QED BY <1>4 DEF r

LEMMA SendsInherit ==
    ASSUME ServerTypes, NEW slots
    PROVE  Inherits(encryption_manager, TableAfterSends(encryption_manager, slots))
<1> DEFINE em == encryption_manager
           r == TableAfterSends(em, slots)
<1>1. /\ r.num = em.num
      /\ \A j \in Indices : r.entry[j] \in {em.entry[j], Accessed(em.entry[j], time)}
  BY SendsTable
<1>2. ASSUME NEW j \in Indices
      PROVE  /\ Accessed(em.entry[j], time).address = em.entry[j].address
             /\ Accessed(em.entry[j], time).key = em.entry[j].key
  <2>1. time \in Int /\ em.entry[j] \in EntryOf(Timeouts, TableKeys)
    BY TableTyped
  <2>2. Timeouts \in SUBSET Int
    BY ConstantFacts
  <2> HIDE DEF em
  <2> QED BY <2>1, <2>2, AccessedFacts
<1> HIDE DEF em, r
<1>3. Inherits(em, r)
  BY <1>1, <1>2 DEF Inherits, Covered
<1> QED BY <1>3 DEF em, r

LEMMA ConnectInherits ==
    ASSUME BaseInv, NEW a \in Addresses, NEW c \in challenges, ConnectClient(a, c)
    PROVE  Inherits(encryption_manager, encryption_manager')
<1> DEFINE em == encryption_manager
           j == FindIndex(em, a, time)
           m == TableFor(a)
           p == SetExpireTime(m, j, Never)
<1>1. AtAddress(a) = {} /\ j \in Indices /\ InUse(em, j, a, time)
  BY ConnectSlots
<1>2. IndexFor(a) = j
  BY <1>1 DEF IndexFor
<1>3. m \in TableOf(Timeouts, TableKeys) /\ time \in Int /\ em \in TableOf(Timeouts, TableKeys)
  BY TableForType, TableTyped DEF BaseInv
<1>4. m = FindTouch(em, a, time)
  BY <1>1 DEF TableFor
<1>5. encryption_manager' = TouchMapping(p, j, a, time)
  BY <1>2 DEF ConnectClient
<1> HIDE DEF j, em
<1>6. InUse(m, j, a, time) /\ Inherits(em, m)
  BY <1>1, <1>3, <1>4, ConstantFacts, FindTouchFacts, FindInherits
<1> HIDE DEF m
<1>7. /\ p \in TableOf(Timeouts, TableKeys) /\ (Covered(m) => Covered(p))
      /\ \A l \in Indices \ {j} : p.entry[l] = m.entry[l]
      /\ p.entry[j] = Pinned(m.entry[j])
  BY <1>1, <1>3, <1>6, ConstantFacts, PinFacts
<1>8. m.entry[j] \in EntryOf(Timeouts, TableKeys)
  BY <1>1, <1>3, ConstantFacts, TableFields
<1>9. Pinned(m.entry[j]).address = m.entry[j].address /\ Pinned(m.entry[j]).key = m.entry[j].key
  BY <1>3, <1>8, ConstantFacts, PinnedFacts
<1> HIDE DEF p
<1>10. Inherits(m, p)
  BY <1>7, <1>9 DEF Inherits
<1>11. Inherits(p, encryption_manager')
  BY <1>3, <1>5, <1>7, TouchInherits
<1>12. Inherits(em, p)
  BY <1>6, <1>10, InheritsTrans
<1> QED BY <1>11, <1>12, InheritsTrans DEF em

LEMMA RoundInherits ==
    ASSUME BaseInv, NEW n \in 1 .. MaxClients, NEW slots,
           slots \subseteq {k \in Slots : Remote(k)},
           NEW m \in TableOf(Timeouts, TableKeys)
    PROVE  Inherits(m, Round(m, slots, n))
<1> DEFINE c == client[n - 1]
           sent == TouchMapping(m, c.encryption_index, c.address, time)
<1>1. CASE n - 1 \notin slots
  BY <1>1 DEF Round, Inherits
<1>2. CASE n - 1 \in slots
  <2>1. n - 1 \in Slots /\ Remote(n - 1) /\ client[n - 1] \in SlotRecord /\ time \in Int
    BY <1>2 DEF BaseInv, ServerTypes
  <2>2. c.address \in Addresses
    BY <2>1, SlotFields DEF Remote, Connected, BaseInv, SlotInv
  <2>3. sent \in TableOf(Timeouts, TableKeys) /\ Inherits(m, sent)
    BY <2>1, TouchType, TouchInherits
  <2>4. Round(m, slots, n) = RemoveMapping(sent, c.address, time)
    BY <1>2 DEF Round
  <2> HIDE DEF sent, c
  <2>5. Inherits(sent, RemoveMapping(sent, c.address, time))
    BY <2>1, <2>2, <2>3, RemoveInherits
  <2> QED BY <2>3, <2>4, <2>5, InheritsTrans
<1> QED BY <1>1, <1>2

LEMMA DisconnectsInherit ==
    ASSUME BaseInv, NEW slots, slots \subseteq {k \in Slots : Remote(k)}
    PROVE  Inherits(encryption_manager, TableAfterDisconnects(encryption_manager, slots))
<1> DEFINE em == encryption_manager
           Good(m) == m \in TableOf(Timeouts, TableKeys) /\ Inherits(em, m)
<1>1. PICK f : /\ Rounds(f, em, slots, MaxClients)
               /\ TableAfterDisconnects(em, slots) = f[MaxClients]
  BY DisconnectsAre
<1>2. \A n \in 0 .. MaxClients :
        f[n] = IF n = 0 THEN em ELSE Round(f[n - 1], slots, n)
  BY <1>1 DEF Rounds
<1> DEFINE B == {n \in Nat : n <= MaxClients /\ ~Good(f[n])}
<1>3. B = {}
  <2> SUFFICES ASSUME B # {} PROVE FALSE
    OBVIOUS
  <2>1. PICK n \in B : \A l \in B : n <= l
    <3>1. B \in SUBSET Nat
      OBVIOUS
    <3> HIDE DEF B
    <3> QED BY <3>1, NatMin
  <2>2. n \in Nat /\ n <= MaxClients /\ ~Good(f[n])
    BY <2>1
  <2>3. n # 0
    <3>1. Good(em)
      BY DEF BaseInv, ServerTypes, Inherits
    <3>2. f[0] = em
      BY <1>2, ConstantFacts
    <3> QED BY <2>2, <3>1, <3>2
  <2>4. n \in 1 .. MaxClients /\ n - 1 \in Nat /\ n - 1 <= MaxClients /\ n - 1 \notin B
    BY <2>1, <2>2, <2>3, ConstantFacts
  <2>5. Good(f[n - 1])
    BY <2>4
  <2>6. f[n] = Round(f[n - 1], slots, n)
    BY <1>2, <2>3, <2>4, ConstantFacts
  <2>7. f[n] \in TableOf(Timeouts, TableKeys) /\ Inherits(f[n - 1], f[n])
    BY <2>4, <2>5, <2>6, RoundType, RoundInherits
  <2> QED BY <2>2, <2>5, <2>7, InheritsTrans
<1>4. Good(f[MaxClients])
  BY <1>3, ConstantFacts
<1> QED BY <1>1, <1>4

LEMMA ResetInherits == ASSUME NEW m PROVE Inherits(m, ResetTable)
<1>1. Covered(ResetTable)
  BY ConstantFacts, ResetTableFacts
<1>2. \A j \in Indices : ResetTable.entry[j].address = NoAddress
  BY DEF ResetTable, EmptyEntry
<1> QED BY <1>1, <1>2 DEF Inherits

\* The history of connect tokens is only reset together with the table.
HistoryStays ==
    \/ connect_token_entries' = connect_token_entries
    \/ connect_token_entries' = History!ResetEntries /\ encryption_manager' = ResetTable

LEMMA TableSteps ==
    ASSUME BaseInv, [Next]_vars
    PROVE  \/ Inherits(encryption_manager, encryption_manager') /\ HistoryStays
              /\ challenges' = challenges
           \/ \E a \in Addresses, t \in Tokens : RequestAnswered(a, t)
<1> DEFINE I == /\ Inherits(encryption_manager, encryption_manager') /\ HistoryStays
                /\ challenges' = challenges
<1>1. /\ encryption_manager \in TableOf(Timeouts, TableKeys) /\ time \in Int /\ ServerTypes
  BY TableTyped DEF BaseInv
<1>2. encryption_manager' = encryption_manager => Inherits(encryption_manager, encryption_manager')
  BY DEF Inherits
<1>3. CASE UNCHANGED vars
  BY <1>2, <1>3 DEF vars, HistoryStays
<1>4. CASE UpdateBegin
  BY <1>2, <1>4 DEF UpdateBegin, HistoryStays
<1>5. CASE UpdateEnd
  <2> DEFINE due == IF running THEN SendDue ELSE {}
             table == TableAfterSends(encryption_manager, due)
  <2>1. table \in TableOf(Timeouts, TableKeys) /\ Inherits(encryption_manager, table)
    BY <1>1, SendsTable, SendsInherit
  <2>2. \/ encryption_manager' = table
        \/ \E i \in Slots : /\ client[i].address \in Addresses
                            /\ encryption_manager' = RemoveMapping(table, client[i].address, time)
    BY <1>5, UpdateEndSlots
  <2> HIDE DEF table
  <2>3. \A b \in Addresses : Inherits(table, RemoveMapping(table, b, time))
    BY <1>1, <2>1, RemoveInherits
  <2>4. Inherits(encryption_manager, encryption_manager')
    BY <2>1, <2>2, <2>3, InheritsTrans
  <2>5. challenges' = challenges /\ connect_token_entries' = connect_token_entries
    BY <1>5 DEF UpdateEnd
  <2> QED BY <2>4, <2>5 DEF HistoryStays
<1>6. CASE Packet
  <2>1. ASSUME NEW a \in Addresses, Ignore(a) PROVE I
    <3>1. Inherits(encryption_manager, TableFor(a))
      BY <1>1, FindInherits DEF TableFor, Inherits
    <3> QED BY <2>1, <3>1 DEF Ignore, HistoryStays
  <2>2. ASSUME NEW a \in Addresses, NEW t \in Tokens,
               KeepAlivePacket(a, t) \/ PayloadPacket(a, t)
        PROVE  I
    BY <1>2, <2>2 DEF KeepAlivePacket, PayloadPacket, HistoryStays
  <2>3. ASSUME NEW a \in Addresses, NEW t \in Tokens, DisconnectPacket(a, t) PROVE I
    BY <1>1, <2>3, RemoveInherits DEF DisconnectPacket, HistoryStays
  <2>4. ASSUME NEW a \in Addresses, NEW c \in challenges, ConnectClient(a, c) PROVE I
    <3>1. Inherits(encryption_manager, encryption_manager')
      BY <2>4, ConnectInherits
    <3> QED BY <2>4, <3>1 DEF ConnectClient, HistoryStays
  <2> HIDE DEF I
  <2>5. I \/ \E a \in Addresses, t \in Tokens : RequestAnswered(a, t)
    BY <1>6, <2>1, <2>2, <2>3, <2>4 DEF Packet, RequestIgnored, StrayPacket, ResponseIgnored
  <2> QED BY <2>5 DEF I
<1>7. CASE Api
  <2>1. ASSUME NEW n \in 1 .. MaxClients, Start(n) PROVE I
    BY <1>2, <2>1, ResetInherits DEF Start, HistoryStays
  <2>2. ASSUME Stop PROVE I
    BY <2>2, ResetInherits DEF Stop, HistoryStays
  <2>3. ASSUME DisconnectAllClients PROVE I
    BY <2>3, DisconnectsInherit DEF DisconnectAllClients, HistoryStays
  <2>4. ASSUME NEW i \in Slots, DisconnectClient(i) PROVE I
    <3>1. {i} \subseteq {k \in Slots : Remote(k)}
      BY <2>4 DEF DisconnectClient
    <3> QED BY <2>4, <3>1, DisconnectsInherit DEF DisconnectClient, HistoryStays
  <2>5. ASSUME NEW i \in Slots, SendPacket(i) PROVE I
    BY <1>1, <1>2, <2>5, SendsInherit DEF SendPacket, HistoryStays
  <2>6. ASSUME NEW i \in Slots,
               \/ ReceivePacket(i) \/ DisconnectLoopbackClient(i) \/ ProcessLoopbackPacket(i)
               \/ \E id \in LoopbackIds : ConnectLoopbackClient(i, id)
        PROVE  I
    BY <1>2, <2>6 DEF ReceivePacket, DisconnectLoopbackClient, ProcessLoopbackPacket,
         ConnectLoopbackClient, HistoryStays
  <2> HIDE DEF I
  <2>7. I
    BY <1>7, <2>1, <2>2, <2>3, <2>4, <2>5, <2>6 DEF Api
  <2> QED BY <2>7 DEF I
<1> QED BY <1>3, <1>4, <1>5, <1>6, <1>7 DEF Next

-----------------------------------------------------------------------------
(* The answer to a challenge.                                              *)

\* A mapping added with an expire time to come is the one a search finds: an
\* entry in use beyond the searched part would have been in the way.
LEMMA AddFound ==
    ASSUME NEW m \in TableOf(Timeouts, TableKeys), NEW a \in Addresses, NEW key,
           NEW now \in Int, NEW expire \in Int, NEW timeout \in Int, timeout >= 0,
           expire >= now, CanAdd(m, a, now), Covered(m)
    PROVE  LET r == AddMapping(m, a, key, now, expire, timeout)
           IN  KeyOf(r, FindIndex(r, a, now)) = key
<1> DEFINE r == AddMapping(m, a, key, now, expire, timeout)
           e == NewEntry(a, key, now, expire, timeout)
<1>1. PICK i \in Indices : AddedAt(m, a, now, i) /\ r = Written(m, i, e)
  BY AddWrites
<1>2. m.num \in Nat /\ m.entry \in [Indices -> EntryOf(Timeouts, TableKeys)]
  BY ConstantFacts, TableFields
<1>3. /\ e.address = a /\ e.key = key /\ e.timeout = timeout /\ e.expire_time = expire
      /\ e.last_access_time = now
  BY DEF NewEntry
<1>4. ~EntryExpired(e, now)
  <2>1. Ticks(timeout) \in Int /\ (timeout > 0 => Ticks(timeout) > 0)
    BY TimeFacts
  <2> HIDE DEF e
  <2> QED BY <1>3, <2>1 DEF EntryExpired
<1>5. /\ r.num \in Nat /\ i < r.num /\ r.num \in {m.num, i + 1} /\ r.entry[i] = e
      /\ \A j \in Indices \ {i} : r.entry[j] = m.entry[j]
  <2>1. r.num = NumAfterAdd(m.num, i) /\ r.entry = [m.entry EXCEPT ![i] = e]
    BY <1>1 DEF Written
  <2>2. i \in Nat
    BY IndexFacts
  <2> HIDE DEF e, r
  <2> QED BY <1>2, <2>1, <2>2 DEF NumAfterAdd
<1> HIDE DEF e, r
<1>6. i \in LiveAt(r, a, now)
  BY <1>3, <1>4, <1>5 DEF LiveAt
<1>7. ASSUME NEW j \in LiveAt(r, a, now), j # i PROVE i <= j
  <2>1. /\ j \in Indices /\ j \in Nat /\ i \in Nat /\ r.entry[j] = m.entry[j] /\ j < r.num
        /\ m.entry[j].address = a /\ ~EntryExpired(m.entry[j], now)
    BY <1>5, <1>7, IndexFacts DEF LiveAt
  <2>2. a # NoAddress
    BY TableAssumption
  <2>3. j < m.num
    BY <1>2, <2>1, <2>2 DEF Covered
  <2>4. j \in LiveAt(m, a, now)
    BY <2>1, <2>3 DEF LiveAt
  <2> QED BY <1>1, <2>4 DEF AddedAt
<1>8. FindIndex(r, a, now) = i
  <2> DEFINE S == LiveAt(r, a, now)
  <2>1. S \in SUBSET Nat /\ S # {} /\ i \in S
    BY <1>6, SearchSets
  <2>2. FindIndex(r, a, now) = Min(S)
    BY <2>1 DEF FindIndex
  <2>3. \A j \in S : i <= j
    BY <1>7, IndexFacts
  <2> HIDE DEF S
  <2>4. Min(S) \in S /\ \A j \in S : Min(S) <= j
    BY <2>1, MinFacts
  <2>5. Min(S) <= i /\ i <= Min(S)
    BY <2>1, <2>3, <2>4
  <2>6. Min(S) \in Nat /\ i \in Nat
    BY <2>1, <2>4
  <2> QED BY <2>2, <2>5, <2>6
<1>9. i # NotFound
  BY IndexFacts
<1>10. KeyOf(r, FindIndex(r, a, now)) = key
  BY <1>3, <1>5, <1>8, <1>9 DEF KeyOf
<1> QED BY <1>10 DEF r

LEMMA CoverHolds == Spec => []Covered(encryption_manager)
<1>1. Init => Covered(encryption_manager)
  BY ConstantFacts, ResetTableFacts DEF Init
<1>2. BaseInv /\ Covered(encryption_manager) /\ [Next]_vars => Covered(encryption_manager')
  <2> SUFFICES ASSUME BaseInv, Covered(encryption_manager), [Next]_vars
               PROVE  Covered(encryption_manager')
    OBVIOUS
  <2>1. CASE Inherits(encryption_manager, encryption_manager')
    BY <2>1 DEF Inherits
  <2>2. ASSUME NEW a \in Addresses, NEW t \in Tokens, RequestAnswered(a, t)
        PROVE  Covered(encryption_manager')
    <3> DEFINE m == TableFor(a)
               x == time + Ticks(TokenTimeout[t])
    <3>1. x \in Int /\ TokenTimeout[t] \in Timeouts /\ t \in TableKeys /\ time \in Int
      BY ConstantFacts, TimeFacts, TableTyped DEF BaseInv
    <3>2. m \in TableOf(Timeouts, TableKeys) /\ Covered(m)
      <4>1. m \in TableOf(Timeouts, TableKeys)
        BY TableForType DEF BaseInv
      <4>2. Inherits(encryption_manager, m)
        BY <3>1, TableTyped, FindInherits DEF BaseInv, TableFor, Inherits
      <4> QED BY <4>1, <4>2 DEF Inherits
    <3>3. \/ encryption_manager' = m
          \/ /\ CanAdd(m, a, time)
             /\ encryption_manager' = AddMapping(m, a, t, time, x, TokenTimeout[t])
      BY <2>2 DEF RequestAnswered
    <3> HIDE DEF m, x
    <3>4. CanAdd(m, a, time) => Covered(AddMapping(m, a, t, time, x, TokenTimeout[t]))
      <4>1. Timeouts \in SUBSET Int
        BY ConstantFacts
      <4> QED BY <3>1, <3>2, <4>1, AddCovers
    <3> QED BY <3>2, <3>3, <3>4
  <2> QED BY <2>1, <2>2, TableSteps
<1>3. Covered(encryption_manager)' <=> Covered(encryption_manager')
  BY DEF Covered
<1> QED BY <1>1, <1>2, <1>3, BaseHolds, PTL DEF Spec

\* When no token is without a time-out, every challenge the server sends leaves
\* a mapping that reads the answer, however full the table and whatever was
\* added, removed or expired before (netcode.c:3984-3999, 3366-3407).
THEOREM ChallengesCanBeAnswered ==
    ASSUME \A t \in Tokens : TokenTimeout[t] >= 0
    PROVE  Spec => ChallengedCanRespond
<1>1. BaseInv /\ Covered(encryption_manager) /\ [Next]_vars =>
        [\A c \in challenges' \ challenges : \E a \in Addresses :
           KeyOf(encryption_manager', FindIndex(encryption_manager', a, time)) = c.token]_vars
  <2> SUFFICES ASSUME BaseInv, Covered(encryption_manager), [Next]_vars,
                      NEW c \in challenges' \ challenges
               PROVE  \E a \in Addresses :
                        KeyOf(encryption_manager', FindIndex(encryption_manager', a, time)) = c.token
    OBVIOUS
  <2>1. PICK a \in Addresses, t \in Tokens : RequestAnswered(a, t)
    BY TableSteps
  <2> DEFINE m == TableFor(a)
             x == time + Ticks(TokenTimeout[t])
  <2>2. /\ CanAdd(m, a, time) /\ challenges' = challenges \cup {ChallengeToken(t)}
        /\ encryption_manager' = AddMapping(m, a, t, time, x, TokenTimeout[t])
    BY <2>1 DEF RequestAnswered
  <2>3. c.token = t
    BY <2>2 DEF ChallengeToken
  <2>4. /\ x \in Int /\ TokenTimeout[t] \in Int /\ TokenTimeout[t] >= 0 /\ time \in Int
        /\ x >= time
    <3>1. time \in Int /\ TokenTimeout[t] \in Int /\ TokenTimeout[t] >= 0
      BY ConstantFacts, TableTyped DEF BaseInv
    <3>2. Ticks(TokenTimeout[t]) \in Int /\ Ticks(TokenTimeout[t]) >= 0
      <4>1. CASE TokenTimeout[t] > 0
        BY <3>1, <4>1, TimeFacts
      <4>2. CASE TokenTimeout[t] = 0
        BY <4>2, TableAssumption DEF Ticks
      <4> QED BY <3>1, <4>1, <4>2
    <3> QED BY <3>1, <3>2
  <2>5. m \in TableOf(Timeouts, TableKeys) /\ Covered(m)
    <3>1. m \in TableOf(Timeouts, TableKeys)
      BY TableForType DEF BaseInv
    <3>2. Inherits(encryption_manager, m)
      BY <2>4, TableTyped, FindInherits DEF BaseInv, TableFor, Inherits
    <3> QED BY <3>1, <3>2 DEF Inherits
  <2> HIDE DEF m, x
  <2>6. KeyOf(encryption_manager', FindIndex(encryption_manager', a, time)) = t
    BY <2>2, <2>4, <2>5, AddFound
  <2> QED BY <2>3, <2>6
<1> QED BY <1>1, BaseHolds, CoverHolds, PTL DEF Spec, ChallengedCanRespond

-----------------------------------------------------------------------------
(* One address per token, while the history has room for every token.      *)

EntryIndices == History!EntryIndices

RoomForAll == IsFiniteSet(Tokens) /\ Cardinality(Tokens) <= MaxTokenEntries

\* The history holds different tokens, later than its unused entries, and every
\* mapping is of a token the history binds to the mapping's address.
HistoryInv ==
    /\ \A i \in EntryIndices :
         \/ connect_token_entries[i].mac = NoKey /\ connect_token_entries[i].time = LongAgo
         \/ connect_token_entries[i].mac \in Tokens /\ connect_token_entries[i].time >= 0
    /\ \A i, j \in EntryIndices :
         /\ connect_token_entries[i].mac = connect_token_entries[j].mac
         /\ connect_token_entries[i].mac # NoKey
         => i = j
    /\ \A j \in Indices : encryption_manager.entry[j].address # NoAddress =>
         \E i \in EntryIndices :
            /\ connect_token_entries[i].mac = encryption_manager.entry[j].key
            /\ connect_token_entries[i].mac # NoKey
            /\ connect_token_entries[i].address = encryption_manager.entry[j].address

\* The oldest entry of the history is an unused one when a token is missing.
LEMMA OldestUnused ==
    ASSUME RoomForAll, BaseInv, HistoryInv, NEW t \in Tokens,
           \A i \in EntryIndices : connect_token_entries[i].mac # t
    PROVE  /\ History!Oldest(connect_token_entries) \in EntryIndices
           /\ connect_token_entries[History!Oldest(connect_token_entries)].mac = NoKey
<1> DEFINE h == connect_token_entries
<1>1. /\ EntryIndices = 0 .. MaxTokenEntries - 1 /\ EntryIndices \subseteq Nat
      /\ MaxTokenEntries \in Nat
  BY ServerAssumption DEF EntryIndices, History!EntryIndices
<1>2. PICK u \in EntryIndices : h[u].mac = NoKey
  <2> SUFFICES ASSUME \A u \in EntryIndices : h[u].mac # NoKey PROVE FALSE
    OBVIOUS
  <2> DEFINE T == Tokens \ {t}
             f == [u \in EntryIndices |-> h[u].mac]
  <2>1. IsFiniteSet(T) /\ Cardinality(T) = Cardinality(Tokens) - 1
    BY FS_RemoveElement DEF RoomForAll
  <2>2. Cardinality(Tokens) \in Nat
    BY FS_CardinalityType DEF RoomForAll
  <2>3. IsFiniteSet(EntryIndices) /\ Cardinality(EntryIndices) = MaxTokenEntries
    <3>1. 0 \in Int /\ MaxTokenEntries - 1 \in Int /\ MaxTokenEntries > 0
      BY ServerAssumption
    <3> QED BY <1>1, <3>1, FS_Interval
  <2>4. f \in [EntryIndices -> T]
    BY DEF HistoryInv
  <2>5. Cardinality(T) < Cardinality(EntryIndices)
    BY <1>1, <2>1, <2>2, <2>3 DEF RoomForAll
  <2> HIDE DEF f, T
  <2>6. \E x, y \in EntryIndices : x # y /\ f[x] = f[y]
    BY <2>1, <2>3, <2>4, <2>5, FS_PigeonHole
  <2> QED BY <2>6 DEF f, HistoryInv
<1> DEFINE S == {i \in EntryIndices : \A j \in EntryIndices : h[i].time <= h[j].time}
<1>3. h[u].time = LongAgo /\ LongAgo \in Int /\ LongAgo < 0
  BY <1>2, ServerAssumption, TableAssumption DEF HistoryInv, LongAgo
<1>4. \A j \in EntryIndices : h[u].time <= h[j].time
  <2>1. ASSUME NEW j \in EntryIndices PROVE LongAgo <= h[j].time
    <3>1. h[j] \in HistoryEntry
      BY DEF BaseInv, ServerTypes, EntryIndices
    <3>2. h[j].time \in Int
      BY <3>1 DEF HistoryEntry
    <3> QED BY <1>3, <3>2 DEF HistoryInv
  <2> QED BY <1>3, <2>1
<1>5. u \in S
  BY <1>4
<1>6. S \in SUBSET Nat
  BY <1>1
<1>7. History!Oldest(h) = Min(S)
  BY DEF History!Oldest, History!Min, Min, EntryIndices
<1>8. Min(S) \in S
  <2> HIDE DEF S
  <2> QED BY <1>5, <1>6, MinFacts
<1>9. Min(S) \in EntryIndices /\ h[Min(S)].time <= h[u].time
  BY <1>8
<1>10. h[Min(S)].mac = NoKey
  <2> DEFINE i == Min(S)
  <2>1. h[i] \in HistoryEntry
    BY <1>9 DEF BaseInv, ServerTypes, EntryIndices
  <2>2. h[i].time \in Int /\ h[i].time <= LongAgo /\ i \in EntryIndices
    BY <1>3, <1>9, <2>1 DEF HistoryEntry
  <2> HIDE DEF i
  <2>3. h[i].mac = NoKey
    BY <1>3, <2>2 DEF HistoryInv
  <2> QED BY <2>3 DEF i
<1> QED BY <1>7, <1>9, <1>10

\* netcode_connect_token_entries_find_or_add, when it allows the token: it is
\* in the history, with the address, and the other tokens still are.
LEMMA RecordFacts ==
    ASSUME RoomForAll, BaseInv, HistoryInv, NEW a \in Addresses, NEW t \in Tokens,
           History!TokenAllowed(connect_token_entries, a, t)
    PROVE  LET h == connect_token_entries
               g == History!RecordToken(h, a, t, time)
           IN  /\ \A i \in EntryIndices :
                    \/ g[i].mac = NoKey /\ g[i].time = LongAgo
                    \/ g[i].mac \in Tokens /\ g[i].time >= 0
               /\ \A i, j \in EntryIndices :
                    g[i].mac = g[j].mac /\ g[i].mac # NoKey => i = j
               /\ \A i \in EntryIndices : h[i].mac # NoKey => g[i] = h[i]
               /\ \E i \in EntryIndices : g[i].mac = t /\ g[i].address = a
<1> DEFINE h == connect_token_entries
           g == History!RecordToken(h, a, t, time)
           M == History!Matching(h, t)
<1>1. t # NoKey /\ time \in Nat /\ h \in [EntryIndices -> HistoryEntry]
  BY ConstantFacts DEF BaseInv, ServerTypes, EntryIndices
<1>2. M = {i \in EntryIndices : h[i].mac = t}
  BY DEF History!Matching, EntryIndices
<1>3. CASE M # {}
  <2>1. g = h
    BY <1>3 DEF History!RecordToken
  <2>2. PICK i \in EntryIndices : h[i].mac = t
    BY <1>2, <1>3
  <2>3. M = {i}
    BY <1>1, <1>2, <2>2 DEF HistoryInv
  <2>4. i \in Int
    BY ServerAssumption DEF EntryIndices, History!EntryIndices
  <2>5. Max(M) = i
    <3>1. {i} \in SUBSET Int /\ {i} # {} /\ \A y \in {i} : y <= i
      BY <2>4
    <3>2. Max({i}) \in {i}
      BY <2>4, <3>1, MaxFacts
    <3> QED BY <2>3, <3>2
  <2>6. h[i].address = a
    BY <1>3, <2>5 DEF History!TokenAllowed, History!Max, Max
  <2> HIDE DEF g, h, M
  <2> QED BY <2>1, <2>2, <2>6 DEF HistoryInv, g, h
<1>4. CASE M = {}
  <2> DEFINE o == History!Oldest(h)
             e == [time |-> time, mac |-> t, address |-> a]
  <2>1. \A i \in EntryIndices : h[i].mac # t
    BY <1>2, <1>4
  <2>2. o \in EntryIndices /\ h[o].mac = NoKey
    BY <2>1, OldestUnused
  <2>3. g = [h EXCEPT ![o] = e]
    BY <1>4 DEF History!RecordToken
  <2>4. e.time = time /\ e.mac = t /\ e.address = a
    OBVIOUS
  <2> HIDE DEF g, o, e
  <2>5. g[o] = e /\ \A i \in EntryIndices \ {o} : g[i] = h[i]
    BY <1>1, <2>2, <2>3
  <2>6. time >= 0
    BY <1>1
  <2>7. /\ \A i \in EntryIndices : \/ h[i].mac = NoKey /\ h[i].time = LongAgo
                                   \/ h[i].mac \in Tokens /\ h[i].time >= 0
        /\ \A i, j \in EntryIndices : h[i].mac = h[j].mac /\ h[i].mac # NoKey => i = j
    BY DEF HistoryInv
  <2> HIDE DEF h
  <2> QED BY <2>1, <2>2, <2>4, <2>5, <2>6, <2>7 DEF g, h
<1> QED BY <1>3, <1>4

LEMMA HistoryStep ==
    ASSUME RoomForAll, BaseInv, HistoryInv, [Next]_vars
    PROVE  HistoryInv'
<1> DEFINE em == encryption_manager
           h == connect_token_entries
<1>1. ASSUME Inherits(em, em'), h' = h PROVE HistoryInv'
  BY <1>1 DEF HistoryInv, Inherits
<1>2. ASSUME em' = ResetTable, h' = History!ResetEntries PROVE HistoryInv'
  <2>1. \A j \in Indices : em'.entry[j].address = NoAddress
    BY <1>2 DEF ResetTable, EmptyEntry
  <2>2. \A i \in EntryIndices : h'[i].mac = NoKey /\ h'[i].time = LongAgo
    BY <1>2 DEF History!ResetEntries, EntryIndices
  <2> QED BY <2>1, <2>2 DEF HistoryInv
<1>3. ASSUME NEW a \in Addresses, NEW t \in Tokens, RequestAnswered(a, t) PROVE HistoryInv'
  <2> DEFINE m == TableFor(a)
             x == time + Ticks(TokenTimeout[t])
             r == AddMapping(m, a, t, time, x, TokenTimeout[t])
  <2>1. /\ h' = History!RecordToken(h, a, t, time)
        /\ History!TokenAllowed(h, a, t)
        /\ em' = m \/ (CanAdd(m, a, time) /\ em' = r)
    BY <1>3 DEF RequestAnswered, RequestAcceptable
  <2>2. /\ \A i \in EntryIndices : \/ h'[i].mac = NoKey /\ h'[i].time = LongAgo
                                   \/ h'[i].mac \in Tokens /\ h'[i].time >= 0
        /\ \A i, j \in EntryIndices : h'[i].mac = h'[j].mac /\ h'[i].mac # NoKey => i = j
        /\ \A i \in EntryIndices : h[i].mac # NoKey => h'[i] = h[i]
        /\ \E i \in EntryIndices : h'[i].mac = t /\ h'[i].address = a
    BY <2>1, RecordFacts
  <2>3. Inherits(em, m)
    BY TableTyped, FindInherits DEF BaseInv, TableFor, Inherits
  <2>4. \A j \in Indices : em'.entry[j].address # NoAddress =>
          \/ em'.entry[j].address = a /\ em'.entry[j].key = t
          \/ /\ em'.entry[j].address = em.entry[j].address
             /\ em'.entry[j].key = em.entry[j].key
    <3>1. CASE em' = m
      BY <2>3, <3>1 DEF Inherits
    <3>2. CASE CanAdd(m, a, time) /\ em' = r
      <4> DEFINE e == NewEntry(a, t, time, x, TokenTimeout[t])
      <4>1. PICK i \in Indices : r = Written(m, i, e)
        BY <3>2, AddWrites
      <4>2. e.address = a /\ e.key = t
        BY DEF NewEntry
      <4>3. m.entry \in [Indices -> EntryOf(Timeouts, TableKeys)]
        BY TableForType, ConstantFacts, TableFields DEF BaseInv
      <4> HIDE DEF m, e, r
      <4>4. r.entry[i] = e /\ \A j \in Indices \ {i} : r.entry[j] = m.entry[j]
        BY <4>1, <4>3 DEF Written
      <4> QED BY <2>3, <3>2, <4>2, <4>4 DEF Inherits
    <3> QED BY <2>1, <3>1, <3>2
  <2>5. ASSUME NEW j \in Indices, em'.entry[j].address # NoAddress
        PROVE  \E i \in EntryIndices : /\ h'[i].mac = em'.entry[j].key /\ h'[i].mac # NoKey
                                       /\ h'[i].address = em'.entry[j].address
    <3>1. CASE em'.entry[j].address = a /\ em'.entry[j].key = t
      BY <2>2, <3>1, ConstantFacts
    <3>2. CASE /\ em'.entry[j].address = em.entry[j].address
               /\ em'.entry[j].key = em.entry[j].key
      <4>1. PICK i \in EntryIndices : /\ h[i].mac = em.entry[j].key /\ h[i].mac # NoKey
                                      /\ h[i].address = em.entry[j].address
        BY <2>5, <3>2 DEF HistoryInv
      <4> QED BY <2>2, <3>2, <4>1
    <3> QED BY <2>4, <2>5, <3>1, <3>2
  <2> HIDE DEF em, h
  <2> QED BY <2>2, <2>5 DEF HistoryInv, em, h
<1> QED BY <1>1, <1>2, <1>3, TableSteps DEF HistoryStays

\* When the history has an entry for every token, no two live mappings of one
\* token are for different addresses: whoever copies a token from the network
\* cannot use it from elsewhere (netcode.c:3958-3965, 3417-3485).
THEOREM TokensStayBound == ASSUME RoomForAll PROVE Spec => []TokenBoundToAddress
<1>1. Init => HistoryInv
  <2> SUFFICES ASSUME Init PROVE HistoryInv
    OBVIOUS
  <2>1. \A j \in Indices : encryption_manager.entry[j].address = NoAddress
    BY DEF Init, ResetTable, EmptyEntry
  <2>2. \A i \in EntryIndices : connect_token_entries[i].mac = NoKey
                                /\ connect_token_entries[i].time = LongAgo
    BY DEF Init, History!ResetEntries, EntryIndices
  <2> QED BY <2>1, <2>2 DEF HistoryInv
<1>2. BaseInv /\ HistoryInv /\ [Next]_vars => HistoryInv'
  BY HistoryStep
<1>3. HistoryInv => TokenBoundToAddress
  <2> SUFFICES ASSUME HistoryInv, NEW i \in Indices, NEW j \in Indices,
                      encryption_manager.entry[i].address # NoAddress,
                      encryption_manager.entry[j].address # NoAddress,
                      encryption_manager.entry[i].key = encryption_manager.entry[j].key
               PROVE  encryption_manager.entry[i].address = encryption_manager.entry[j].address
    BY DEF TokenBoundToAddress
  <2> QED BY DEF HistoryInv
<1> QED BY <1>1, <1>2, <1>3, BaseHolds, PTL DEF Spec
=============================================================================

-------------------------- MODULE PacketPathProofs --------------------------
(***************************************************************************)
(* Theorems about PacketPath: the memory of a packet on its way, and what  *)
(* the two ends take a packet for, for every number of servers, tokens and *)
(* bytes, every size of the rings and the window, and whatever the network *)
(* does.                                                                   *)
(***************************************************************************)
EXTENDS PacketPath, FiniteSetTheorems, WellFoundedInduction, TLAPS

-----------------------------------------------------------------------------
(* Numbers and finite sets.                                                *)

\* A set of natural numbers that is not empty has a smallest element.
LEMMA LeastNat ==
    ASSUME NEW S \in SUBSET Nat, S # {}
    PROVE  \E x \in S : \A y \in S : x <= y
<1> DEFINE R == OpToRel(<, Nat)
<1>1. IsWellFoundedOn(R, Nat)
  BY NatLessThanWellFounded
<1>2. PICK x \in S : \A y \in S : <<y, x>> \notin R
  <2> HIDE DEF R
  <2> QED BY <1>1, WFMin
<1>3. ASSUME NEW y \in S PROVE x <= y
  <2>1. CASE y < x
    <3>1. <<y, x>> \in R
      BY <2>1 DEF OpToRel
    <3> QED BY <1>2, <3>1
  <2> QED BY <2>1
<1> QED BY <1>3

\* The allocator finds a block that is not in use.
LEMMA AllocateFacts ==
    ASSUME NEW h, Blocks \ h # {}
    PROVE  Allocate(h) \in Blocks /\ Allocate(h) \notin h
<1>1. Blocks \ h \in SUBSET Nat
  BY SimulatorAssumption
<1>2. \E x \in Blocks \ h : \A y \in Blocks \ h : x <= y
  BY <1>1, LeastNat
<1> QED BY <1>2 DEF Allocate, Min

\* A finite set of integers has a largest element.
LEMMA Greatest ==
    ASSUME NEW S \in SUBSET Nat, S # {}, NEW b \in Nat, \A y \in S : y <= b
    PROVE  \E x \in S : \A y \in S : y <= x
<1> DEFINE T == {n \in Nat : b - n \in S}
<1>1. T # {}
  <2>1. PICK y \in S : TRUE
    OBVIOUS
  <2>2. b - y \in Nat /\ b - (b - y) = y
    BY <2>1
  <2> QED BY <2>1, <2>2
<1>2. PICK n \in T : \A m \in T : n <= m
  <2> HIDE DEF T
  <2>1. T \in SUBSET Nat
    BY DEF T
  <2> QED BY <1>1, <2>1, LeastNat
<1>3. ASSUME NEW y \in S PROVE b - n >= y
  <2>1. b - y \in Nat /\ b - (b - y) = y
    OBVIOUS
  <2>2. n <= b - y
    BY <2>1, <1>2
  <2> QED BY <1>2, <2>1, <2>2
<1> QED BY <1>2, <1>3

\* f lists the elements of S in order.
Lists(f, S, n) ==
    /\ f \in [1 .. n -> S]
    /\ \A i, j \in 1 .. n : i < j => f[i] < f[j]

\* Every finite set of numbers can be listed in order.
LEMMA ListsExist ==
    ASSUME NEW b \in Nat, NEW S \in SUBSET (0 .. b)
    PROVE  \E f : Lists(f, S, Cardinality(S))
<1> DEFINE Bad == {n \in Nat : \E T \in SUBSET (0 .. b) :
                                 Cardinality(T) = n /\ ~\E f : Lists(f, T, n)}
<1>0. IsFiniteSet(0 .. b)
  BY FS_Interval
<1>1. SUFFICES ASSUME Bad # {} PROVE FALSE
  <2>1. Cardinality(S) \in Nat
    BY <1>0, FS_Subset, FS_CardinalityType
  <2>2. CASE Bad = {}
    BY <2>1, <2>2
  <2> QED BY <1>1, <2>2
<1>2. PICK n \in Bad : \A m \in Bad : n <= m
  <2>1. Bad \in SUBSET Nat
    OBVIOUS
  <2> HIDE DEF Bad
  <2> QED BY <1>1, <2>1, LeastNat
<1>3. PICK T \in SUBSET (0 .. b) : Cardinality(T) = n /\ ~\E f : Lists(f, T, n)
  BY <1>2
<1>4. n \in Nat /\ IsFiniteSet(T)
  BY <1>0, <1>2, FS_Subset
<1>5. CASE n = 0
  <2> DEFINE f == [i \in 1 .. 0 |-> 0]
  <2>1. Lists(f, T, 0)
    BY DEF Lists
  <2> QED BY <1>3, <1>5, <2>1
<1>6. CASE n # 0
  <2>1. T # {}
    BY <1>3, <1>4, <1>6, FS_EmptySet
  <2>2. PICK x \in T : \A y \in T : y <= x
    <3>1. T \in SUBSET Nat /\ \A y \in T : y <= b
      BY <1>3
    <3> QED BY <2>1, <3>1, Greatest
  <2> DEFINE U == T \ {x}
  <2>3. U \in SUBSET (0 .. b) /\ Cardinality(U) = n - 1 /\ n - 1 \in Nat
    BY <1>3, <1>4, <1>6, <2>2, FS_RemoveElement
  <2>4. n - 1 \notin Bad
    BY <1>2, <1>4
  <2>5. PICK f : Lists(f, U, n - 1)
    BY <2>3, <2>4
  <2> DEFINE g == [i \in 1 .. n |-> IF i = n THEN x ELSE f[i]]
  <2>6. \A i \in 1 .. n - 1 : f[i] \in T /\ f[i] # x /\ f[i] <= x /\ f[i] \in Nat /\ x \in Nat
    <3> SUFFICES ASSUME NEW i \in 1 .. n - 1
                 PROVE  f[i] \in T /\ f[i] # x /\ f[i] <= x /\ f[i] \in Nat /\ x \in Nat
      OBVIOUS
    <3>1. f[i] \in U
      BY <2>5 DEF Lists
    <3>2. f[i] \in T /\ f[i] # x
      BY <3>1
    <3>3. f[i] \in 0 .. b /\ x \in 0 .. b
      BY <3>2, <2>2, <1>3
    <3> QED BY <2>2, <3>2, <3>3
  <2>7. g \in [1 .. n -> T]
    BY <2>6, <2>2, <1>4
  <2>8. ASSUME NEW i \in 1 .. n, NEW j \in 1 .. n, i < j PROVE g[i] < g[j]
    <3>1. i \in 1 .. n - 1 /\ g[i] = f[i]
      BY <2>8, <1>4
    <3>2. CASE j = n
      <4>1. g[j] = x
        BY <3>2
      <4> QED BY <2>6, <3>1, <4>1
    <3>3. CASE j # n
      <4>1. j \in 1 .. n - 1 /\ g[j] = f[j]
        BY <3>3, <1>4
      <4> QED BY <2>5, <2>8, <3>1, <4>1 DEF Lists
    <3> QED BY <3>2, <3>3
  <2>9. Lists(g, T, n)
    <3> HIDE DEF g
    <3> QED BY <2>7, <2>8 DEF Lists
  <2> QED BY <1>3, <2>9
<1> QED BY <1>5, <1>6

\* InOrder lists them, each once.
LEMMA InOrderFacts ==
    ASSUME NEW b \in Nat, NEW S \in SUBSET (0 .. b)
    PROVE  /\ Cardinality(S) \in Nat
           /\ InOrder(S) \in [1 .. Cardinality(S) -> S]
           /\ \A i, j \in 1 .. Cardinality(S) : InOrder(S)[i] = InOrder(S)[j] => i = j
<1> DEFINE n == Cardinality(S)
           f == InOrder(S)
<1>0. \A x \in S : x \in Int
  OBVIOUS
<1>1. n \in Nat
  <2>1. IsFiniteSet(0 .. b)
    BY FS_Interval
  <2>2. IsFiniteSet(S)
    BY <2>1, FS_Subset
  <2> QED BY <2>2, FS_CardinalityType
<1>2. \E g \in [1 .. n -> S] : \A i, j \in 1 .. n : i < j => g[i] < g[j]
  <2>1. PICK g : Lists(g, S, n)
    BY ListsExist
  <2> HIDE DEF n
  <2> QED BY <2>1 DEF Lists
<1>3. f \in [1 .. n -> S] /\ \A i, j \in 1 .. n : i < j => f[i] < f[j]
  BY <1>2 DEF InOrder
<1> HIDE DEF f, n
<1>4. ASSUME NEW i \in 1 .. n, NEW j \in 1 .. n, f[i] = f[j] PROVE i = j
  <2>1. f[i] \in S /\ f[j] \in S
    BY <1>3
  <2>2. f[i] \in Int /\ f[j] \in Int
    BY <1>0, <2>1
  <2>3. ~(i < j) /\ ~(j < i)
    BY <1>3, <1>4, <2>2
  <2> QED BY <1>1, <2>3
<1> QED BY <1>1, <1>3, <1>4 DEF n, f

-----------------------------------------------------------------------------
(* The queue: what a push and a pop do to the packets waiting.             *)

Rings(X) == [num : 0 .. QueueSize, start : Slots, data : [Slots -> X \cup {Null}]]

LEMMA Wrap ==
    ASSUME NEW a \in 0 .. 2 * QueueSize - 1
    PROVE  a % QueueSize = IF a < QueueSize THEN a ELSE a - QueueSize
<1>1. QueueSize \in Nat \ {0}
  BY QueueSizeAssumption
<1>2. CASE a < QueueSize
  BY <1>1, <1>2
<1>3. CASE a >= QueueSize
  <2> DEFINE c == a - QueueSize
  <2>1. c \in 0 .. QueueSize - 1 /\ a = c + QueueSize
    BY <1>1, <1>3
  <2> HIDE DEF c
  <2>2. (c + QueueSize) % QueueSize = c
    BY <1>1, <2>1
  <2> QED BY <1>1, <1>3, <2>1, <2>2
<1> QED BY <1>1, <1>2, <1>3

\* The ring index of the packet at place i.
Place(q, i) == (q.start + i - 1) % QueueSize

LEMMA PlaceFacts ==
    ASSUME NEW X, NEW q \in Rings(X), NEW i \in 1 .. QueueSize
    PROVE  /\ Place(q, i) \in Slots
           /\ Place(q, i) = IF q.start + i - 1 < QueueSize THEN q.start + i - 1
                            ELSE q.start + i - 1 - QueueSize
           /\ i <= q.num => Waiting(q)[i] = q.data[Place(q, i)]
           /\ \A j \in 1 .. QueueSize : Place(q, i) = Place(q, j) => i = j
<1>1. QueueSize \in Nat /\ q.start \in 0 .. QueueSize - 1 /\ q.num \in 0 .. QueueSize
  BY QueueSizeAssumption DEF Rings, Slots
<1>2. ASSUME NEW j \in 1 .. QueueSize
      PROVE  Place(q, j) = IF q.start + j - 1 < QueueSize THEN q.start + j - 1
                           ELSE q.start + j - 1 - QueueSize
  <2> DEFINE a == q.start + j - 1
  <2>1. a \in 0 .. 2 * QueueSize - 1 /\ Place(q, j) = a % QueueSize
    BY <1>1 DEF Place
  <2> HIDE DEF a
  <2>2. a % QueueSize = IF a < QueueSize THEN a ELSE a - QueueSize
    BY <2>1, Wrap
  <2>3. Place(q, j) = IF a < QueueSize THEN a ELSE a - QueueSize
    BY <2>1, <2>2
  <2> QED BY <1>1, <2>3 DEF a
<1>3. Place(q, i) \in Slots
  BY <1>1, <1>2 DEF Slots
<1>4. i <= q.num => Waiting(q)[i] = q.data[Place(q, i)]
  BY <1>1 DEF Waiting, Place
<1>5. \A j \in 1 .. QueueSize : Place(q, i) = Place(q, j) => i = j
  BY <1>1, <1>2
<1> QED BY <1>2, <1>3, <1>4, <1>5

\* netcode_packet_queue_push appends.
LEMMA PushFacts ==
    ASSUME NEW X, NEW q \in Rings(X), NEW x \in X, ~Full(q)
    PROVE  /\ Pushed(q, x) \in Rings(X)
           /\ Pushed(q, x).num = q.num + 1 /\ q.num \in Nat /\ q.num < QueueSize
           /\ \A i \in 1 .. q.num : Waiting(Pushed(q, x))[i] = Waiting(q)[i]
           /\ Waiting(Pushed(q, x))[q.num + 1] = x
<1> DEFINE r == Pushed(q, x)
           p == PushIndex(q)
<1>1. QueueSize \in Nat \ {0} /\ q.num \in 0 .. QueueSize /\ q.num # QueueSize
      /\ q.start \in Slots /\ q.data \in [Slots -> X \cup {Null}]
  BY QueueSizeAssumption DEF Rings, Full
<1>2. q.num + 1 \in 1 .. QueueSize /\ q.num < QueueSize /\ q.num \in Nat
  BY <1>1
<1>3. p = Place(q, q.num + 1)
  <2>1. q.start + q.num = q.start + (q.num + 1) - 1
    BY <1>1 DEF Slots
  <2> QED BY <2>1 DEF PushIndex, Place
<1>4. p \in Slots
  BY <1>2, <1>3, PlaceFacts
<1>5. /\ r.num = q.num + 1 /\ r.start = q.start
      /\ r.data = [q.data EXCEPT ![p] = x]
      /\ r \in [num : {q.num + 1}, start : {q.start}, data : {[q.data EXCEPT ![p] = x]}]
  <2>1. r \in [num : {q.num + 1}, start : {q.start}, data : {[q.data EXCEPT ![p] = x]}]
    BY DEF Pushed, Rings
  <2> HIDE DEF r
  <2> QED BY <2>1
<1> HIDE DEF p
<1>6. r.data \in [Slots -> X \cup {Null}] /\ r.data[p] = x
      /\ \A s \in Slots : s # p => r.data[s] = q.data[s]
  BY <1>1, <1>4, <1>5
<1> HIDE DEF r
<1>7. r \in Rings(X)
  BY <1>1, <1>2, <1>5, <1>6 DEF Rings
<1>8. ASSUME NEW i \in 1 .. q.num PROVE Waiting(r)[i] = Waiting(q)[i]
  <2>1. i \in 1 .. QueueSize /\ i <= q.num /\ i <= r.num /\ i # q.num + 1
    BY <1>1, <1>2, <1>5
  <2>2. Place(r, i) = Place(q, i)
    BY <1>5 DEF Place
  <2>3. Place(q, i) # p /\ Place(q, i) \in Slots
    BY <1>2, <1>3, <2>1, PlaceFacts
  <2>4. Waiting(r)[i] = r.data[Place(r, i)] /\ Waiting(q)[i] = q.data[Place(q, i)]
    BY <1>7, <2>1, PlaceFacts
  <2> QED BY <1>6, <2>2, <2>3, <2>4
<1>9. Waiting(r)[q.num + 1] = x
  <2>1. Waiting(r)[q.num + 1] = r.data[Place(r, q.num + 1)]
    <3> DEFINE m == q.num + 1
    <3>1. m \in 1 .. QueueSize /\ m <= r.num
      BY <1>2, <1>5
    <3> HIDE DEF m
    <3>2. Waiting(r)[m] = r.data[Place(r, m)]
      BY <1>7, <3>1, PlaceFacts
    <3> QED BY <3>2 DEF m
  <2>2. Place(r, q.num + 1) = p
    BY <1>3, <1>5 DEF Place
  <2> QED BY <1>6, <2>1, <2>2
<1> QED BY <1>2, <1>5, <1>7, <1>8, <1>9 DEF r

\* netcode_packet_queue_pop takes the first.
LEMMA PopFacts ==
    ASSUME NEW X, NEW q \in Rings(X), q.num > 0
    PROVE  /\ Popped(q) \in Rings(X)
           /\ Popped(q).num = q.num - 1 /\ q.num \in Nat \ {0}
           /\ \A i \in 1 .. q.num - 1 : Waiting(Popped(q))[i] = Waiting(q)[i + 1]
           /\ First(q) = Waiting(q)[1]
<1> DEFINE r == Popped(q)
<1>1. QueueSize \in Nat \ {0} /\ q.num \in 0 .. QueueSize /\ q.num \in Nat \ {0}
      /\ q.start \in 0 .. QueueSize - 1 /\ q.data \in [Slots -> X \cup {Null}]
  BY QueueSizeAssumption DEF Rings, Slots
<1>2. /\ r.num = q.num - 1 /\ r.start = (q.start + 1) % QueueSize /\ r.data = q.data
      /\ r \in [num : {q.num - 1}, start : {(q.start + 1) % QueueSize}, data : {q.data}]
  <2>1. r \in [num : {q.num - 1}, start : {(q.start + 1) % QueueSize}, data : {q.data}]
    BY DEF Popped, Rings
  <2> HIDE DEF r
  <2> QED BY <2>1
<1> HIDE DEF r
<1>3. r.start = IF q.start + 1 < QueueSize THEN q.start + 1 ELSE q.start + 1 - QueueSize
  <2> DEFINE a == q.start + 1
  <2>1. a \in 0 .. 2 * QueueSize - 1 /\ r.start = a % QueueSize
    BY <1>1, <1>2
  <2> HIDE DEF a
  <2>2. a % QueueSize = IF a < QueueSize THEN a ELSE a - QueueSize
    BY <2>1, Wrap
  <2>3. r.start = IF a < QueueSize THEN a ELSE a - QueueSize
    BY <2>1, <2>2
  <2> QED BY <1>1, <2>3 DEF a
<1>4. r.start \in Slots /\ r.num \in 0 .. QueueSize
  BY <1>1, <1>2, <1>3 DEF Slots
<1>5. r \in Rings(X)
  BY <1>1, <1>2, <1>4 DEF Rings
<1>6. ASSUME NEW i \in 1 .. q.num - 1 PROVE Waiting(r)[i] = Waiting(q)[i + 1]
  <2>1. /\ i \in 1 .. QueueSize /\ i + 1 \in 1 .. QueueSize /\ i \in 1 .. r.num
        /\ i <= r.num /\ i + 1 <= q.num
    BY <1>1, <1>2
  <2>2. Place(r, i) = Place(q, i + 1)
    <3> DEFINE j == i + 1
    <3>1. j \in 1 .. QueueSize
      BY <2>1
    <3> HIDE DEF j
    <3>2. /\ Place(r, i) = IF r.start + i - 1 < QueueSize THEN r.start + i - 1
                           ELSE r.start + i - 1 - QueueSize
          /\ Place(q, j) = IF q.start + j - 1 < QueueSize THEN q.start + j - 1
                           ELSE q.start + j - 1 - QueueSize
      BY <1>5, <2>1, <3>1, PlaceFacts
    <3>3. /\ r.start \in Int /\ q.start \in Int /\ i \in Int /\ QueueSize \in Int
          /\ 0 <= q.start /\ q.start < QueueSize /\ 1 <= i /\ i < QueueSize
      BY <1>1, <1>4, <2>1 DEF Slots
    <3> QED BY <1>3, <3>2, <3>3 DEF j
  <2>3. Waiting(r)[i] = r.data[Place(r, i)] /\ Waiting(q)[i + 1] = q.data[Place(q, i + 1)]
    <3> DEFINE j == i + 1
    <3>1. j \in 1 .. QueueSize /\ j <= q.num
      BY <2>1
    <3> HIDE DEF j
    <3>2. Waiting(q)[j] = q.data[Place(q, j)]
      BY <3>1, PlaceFacts
    <3>3. Waiting(r)[i] = r.data[Place(r, i)]
      BY <1>5, <2>1, PlaceFacts
    <3> QED BY <3>2, <3>3 DEF j
  <2> QED BY <1>2, <2>2, <2>3
<1>7. First(q) = Waiting(q)[1]
  <2>1. q.start + 1 - 1 = q.start /\ q.start % QueueSize = q.start
    BY <1>1
  <2>2. Waiting(q)[1] = q.data[(q.start + 1 - 1) % QueueSize]
    BY <1>1 DEF Waiting
  <2> QED BY <2>1, <2>2 DEF First
<1> QED BY <1>1, <1>2, <1>5, <1>6, <1>7 DEF r

-----------------------------------------------------------------------------
(* The network simulator: what its operations do to the blocks it owns.    *)

Sims(P) ==
    [time : Nat, current : EntryIndices,
     entries : [EntryIndices -> EntriesWith(P) \cup {NoEntry}],
     pending : Seq(EntriesWith(P) \cup {NoEntry})]

\* No two entries hold the same block.
Distinct(entries) ==
    \A i, j \in DOMAIN entries :
        entries[i] # NoEntry /\ entries[j] # NoEntry /\ entries[i].data = entries[j].data => i = j

\* The blocks of all entries but the current one are in h.
Spared(s, h) ==
    \A i \in EntryIndices : i # s.current /\ s.entries[i] # NoEntry => s.entries[i].data \in h

\* A packet is queued in the current entry, whose block h need not hold.
LEMMA QueuePacketFacts ==
    ASSUME NEW P, NoEntry \notin EntriesWith(P), NEW s \in Sims(P), NEW packet \in P,
           NEW delay \in Nat, NEW h \in SUBSET Blocks, Blocks \ h # {}, Distinct(s.entries), Spared(s, h)
    PROVE  /\ QueuePacket(s, h, packet, delay) \in Sims(P)
           /\ QueuePacket(s, h, packet, delay).pending = s.pending
           /\ Distinct(QueuePacket(s, h, packet, delay).entries)
           /\ Owned(QueuePacket(s, h, packet, delay).entries) \subseteq Owned(s.entries) \cup {Allocate(h)}
           /\ Owned(QueuePacket(s, h, packet, delay).entries) \subseteq h \cup {Allocate(h)}
           /\ Allocate(h) \in Blocks /\ Allocate(h) \notin h
<1> DEFINE a == Allocate(h)
           e == [data |-> a, due |-> s.time + delay, packet |-> packet]
           f == [s.entries EXCEPT ![s.current] = e]
           t == QueuePacket(s, h, packet, delay)
<1>1. a \in Blocks /\ a \notin h
  BY AllocateFacts
<1>2. /\ s.time \in Nat /\ s.current \in EntryIndices /\ s.pending \in Seq(EntriesWith(P) \cup {NoEntry})
      /\ s.entries \in [EntryIndices -> EntriesWith(P) \cup {NoEntry}]
  BY DEF Sims
<1>3. t \in [time : {s.time}, current : {(s.current + 1) % NumEntries}, entries : {f},
             pending : {s.pending}]
  BY DEF QueuePacket, Sims
<1> HIDE DEF a, t
<1>4. e \in EntriesWith(P) /\ e # NoEntry /\ e.data = a
  <2>1. e \in EntriesWith(P)
    BY <1>1, <1>2 DEF EntriesWith
  <2> QED BY <2>1
<1> HIDE DEF e
<1>5. /\ f \in [EntryIndices -> EntriesWith(P) \cup {NoEntry}]
      /\ f[s.current] = e
      /\ \A i \in EntryIndices : i # s.current => f[i] = s.entries[i]
  BY <1>2, <1>4
<1> HIDE DEF f
<1>6. (s.current + 1) % NumEntries \in EntryIndices
  BY <1>2, SimulatorAssumption DEF EntryIndices
<1>7. t.entries = f /\ t.pending = s.pending
  BY <1>3
<1>8. t \in Sims(P)
  BY <1>2, <1>3, <1>5, <1>6 DEF Sims
<1>9. DOMAIN f = EntryIndices /\ DOMAIN s.entries = EntryIndices
  BY <1>2, <1>5
<1>10. Distinct(f)
  <2> SUFFICES ASSUME NEW i \in EntryIndices, NEW j \in EntryIndices,
                      f[i] # NoEntry, f[j] # NoEntry, f[i].data = f[j].data
               PROVE  i = j
    BY <1>9 DEF Distinct
  <2>1. CASE i # s.current /\ j # s.current
    BY <1>5, <1>9, <2>1 DEF Distinct
  <2>2. CASE i = s.current /\ j # s.current
    BY <1>1, <1>4, <1>5, <2>2 DEF Spared
  <2>3. CASE i # s.current /\ j = s.current
    BY <1>1, <1>4, <1>5, <2>3 DEF Spared
  <2> QED BY <2>1, <2>2, <2>3
<1>11. ASSUME NEW x \in Owned(f) PROVE (x \in Owned(s.entries) /\ x \in h) \/ x = a
  <2>1. PICK i \in EntryIndices : f[i] # NoEntry /\ x = f[i].data
    BY <1>9 DEF Owned
  <2>2. CASE i = s.current
    BY <1>4, <1>5, <2>1, <2>2
  <2>3. CASE i # s.current
    BY <1>5, <1>9, <2>1, <2>3 DEF Owned, Spared
  <2> QED BY <2>2, <2>3
<1> QED BY <1>1, <1>7, <1>8, <1>10, <1>11 DEF a, t

\* There is memory left.
LEMMA MemoryLeft ==
    ASSUME NEW h \in SUBSET Blocks, IsFiniteSet(h), Cardinality(h) <= 2 * MaxSends
    PROVE  Blocks \ h # {}
<1>1. SUFFICES ASSUME Blocks = h PROVE FALSE
  OBVIOUS
<1>2. Cardinality(Blocks) > 2 * MaxSends
  BY <1>1, PathAssumption
<1>3. Cardinality(h) \in Nat /\ MaxSends \in Nat
  BY FS_CardinalityType, PathAssumption
<1> QED BY <1>1, <1>2, <1>3

\* The simulator and the heap fit together, with rest owned by others.
Fits(P, s, h, rest) ==
    /\ s \in Sims(P) /\ Distinct(s.entries)
    /\ h \in SUBSET Blocks /\ IsFiniteSet(h)
    /\ Owned(s.entries) \subseteq h /\ rest \subseteq h
    /\ Owned(s.entries) \cap rest = {}

LEMMA SendOneFacts ==
    ASSUME NEW P, NoEntry \notin EntriesWith(P), NEW s, NEW h, NEW rest, Fits(P, s, h, rest),
           NEW packet \in P, NEW delay \in Nat, Cardinality(h) < 2 * MaxSends
    PROVE  /\ Fits(P, SendOne(s, h, packet, delay).sim, SendOne(s, h, packet, delay).heap, rest)
           /\ SendOne(s, h, packet, delay).sim.pending = s.pending
           /\ Cardinality(SendOne(s, h, packet, delay).heap) <= Cardinality(h) + 1
<1> DEFINE old == Owned(<<s.entries[s.current]>>)
           free == h \ old
           a == Allocate(free)
           t == QueuePacket(s, free, packet, delay)
<1>1. /\ s \in Sims(P) /\ Distinct(s.entries) /\ h \in SUBSET Blocks /\ IsFiniteSet(h)
      /\ Owned(s.entries) \subseteq h /\ rest \subseteq h /\ Owned(s.entries) \cap rest = {}
  BY DEF Fits
<1>2. /\ s.current \in EntryIndices
      /\ s.entries \in [EntryIndices -> EntriesWith(P) \cup {NoEntry}]
  BY <1>1 DEF Sims
<1>3. \A x \in old : s.entries[s.current] # NoEntry /\ x = s.entries[s.current].data
  BY DEF Owned
<1> HIDE DEF old
<1>4. old \subseteq Owned(s.entries)
  BY <1>2, <1>3 DEF Owned
<1>5. Spared(s, free)
  <2> SUFFICES ASSUME NEW i \in EntryIndices, i # s.current, s.entries[i] # NoEntry
               PROVE  s.entries[i].data \in free
    BY DEF Spared
  <2>1. s.entries[i].data \in h
    BY <1>1, <1>2 DEF Owned
  <2>2. s.entries[i].data \notin old
    BY <1>1, <1>2, <1>3 DEF Distinct
  <2> QED BY <2>1, <2>2
<1>6. /\ free \in SUBSET Blocks /\ IsFiniteSet(free)
      /\ Cardinality(free) \in Nat /\ Cardinality(h) \in Nat /\ Cardinality(free) <= Cardinality(h)
  BY <1>1, FS_Subset, FS_CardinalityType
<1>7. Blocks \ free # {}
  <2>1. MaxSends \in Nat
    BY PathAssumption
  <2>2. Cardinality(free) <= 2 * MaxSends
    BY <1>6, <2>1
  <2> HIDE DEF free
  <2> QED BY <1>6, <2>2, MemoryLeft
<1> HIDE DEF free
<1>8. /\ t \in Sims(P) /\ t.pending = s.pending /\ Distinct(t.entries)
      /\ Owned(t.entries) \subseteq Owned(s.entries) \cup {a}
      /\ Owned(t.entries) \subseteq free \cup {a}
      /\ a \in Blocks /\ a \notin free
  <2>1. free \in SUBSET Blocks /\ s \in Sims(P) /\ Distinct(s.entries)
    BY <1>1, <1>6
  <2>2. /\ QueuePacket(s, free, packet, delay) \in Sims(P)
        /\ QueuePacket(s, free, packet, delay).pending = s.pending
        /\ Distinct(QueuePacket(s, free, packet, delay).entries)
        /\ Owned(QueuePacket(s, free, packet, delay).entries)
             \subseteq Owned(s.entries) \cup {Allocate(free)}
        /\ Owned(QueuePacket(s, free, packet, delay).entries) \subseteq free \cup {Allocate(free)}
        /\ Allocate(free) \in Blocks /\ Allocate(free) \notin free
    BY <2>1, <1>5, <1>7, QueuePacketFacts, Zenon
  <2> QED BY <2>2
<1> HIDE DEF a, t
<1>9. IsFiniteSet(free \cup {a}) /\ Cardinality(free \cup {a}) <= Cardinality(h) + 1
  <2>1. IsFiniteSet(free \cup {a}) /\ Cardinality(free \cup {a}) = Cardinality(free) + 1
    BY <1>6, <1>8, FS_AddElement
  <2> QED BY <1>6, <2>1
<1>10. rest \subseteq free /\ a \notin rest
  BY <1>1, <1>4, <1>8 DEF free
<1>11. Fits(P, t, free \cup {a}, rest)
  BY <1>1, <1>6, <1>8, <1>9, <1>10 DEF Fits
<1>12. SendOne(s, h, packet, delay) = [sim |-> t, heap |-> free \cup {a}]
  BY DEF SendOne, t, a, free, old
<1> QED BY <1>8, <1>9, <1>11, <1>12

LEMMA SendTwiceFacts ==
    ASSUME NEW P, NoEntry \notin EntriesWith(P), NEW s, NEW h, NEW rest, Fits(P, s, h, rest),
           NEW packet \in P, NEW delay \in Nat, NEW more \in Nat, Cardinality(h) + 1 < 2 * MaxSends
    PROVE  /\ Fits(P, SendTwice(s, h, packet, delay, more).sim,
                      SendTwice(s, h, packet, delay, more).heap, rest)
           /\ SendTwice(s, h, packet, delay, more).sim.pending = s.pending
           /\ Cardinality(SendTwice(s, h, packet, delay, more).heap) <= Cardinality(h) + 2
<1> DEFINE one == SendOne(s, h, packet, delay)
           r == one.sim
           g == one.heap
           wait == delay + more
           a == Allocate(g)
           t == QueuePacket(r, g, packet, wait)
<1>1. Cardinality(h) \in Nat /\ MaxSends \in Nat /\ wait \in Nat
  BY FS_CardinalityType, PathAssumption DEF Fits
<1>2. Fits(P, r, g, rest) /\ r.pending = s.pending /\ Cardinality(g) <= Cardinality(h) + 1
  BY <1>1, SendOneFacts
<1> HIDE DEF wait, one
<1>3. SendTwice(s, h, packet, delay, more) = [sim |-> t, heap |-> g \cup {a}]
  BY DEF SendTwice, one, wait
<1> HIDE DEF r, g
<1>4. /\ r \in Sims(P) /\ Distinct(r.entries) /\ g \in SUBSET Blocks /\ IsFiniteSet(g)
      /\ Owned(r.entries) \subseteq g /\ rest \subseteq g /\ Owned(r.entries) \cap rest = {}
  BY <1>2 DEF Fits
<1>5. Cardinality(g) \in Nat /\ Cardinality(g) <= 2 * MaxSends
  <2>1. Cardinality(g) \in Nat
    BY <1>4, FS_CardinalityType
  <2> QED BY <1>1, <1>2, <2>1
<1>6. Blocks \ g # {}
  BY <1>4, <1>5, MemoryLeft
<1>7. Spared(r, g)
  <2>1. DOMAIN r.entries = EntryIndices
    BY <1>4 DEF Sims
  <2> QED BY <1>4, <2>1 DEF Owned, Spared
<1>8. /\ t \in Sims(P) /\ t.pending = r.pending /\ Distinct(t.entries)
      /\ Owned(t.entries) \subseteq Owned(r.entries) \cup {a}
      /\ a \in Blocks /\ a \notin g
  BY <1>1, <1>4, <1>6, <1>7, QueuePacketFacts
<1> HIDE DEF a, t
<1>9. IsFiniteSet(g \cup {a}) /\ Cardinality(g \cup {a}) = Cardinality(g) + 1
  BY <1>4, <1>8, FS_AddElement
<1>10. Fits(P, t, g \cup {a}, rest)
  BY <1>4, <1>8, <1>9 DEF Fits
<1>11. Cardinality(g \cup {a}) <= Cardinality(h) + 2
  BY <1>1, <1>2, <1>5, <1>9
<1> QED BY <1>2, <1>3, <1>8, <1>10, <1>11

\* The entries of f at the places S, in order, and what stays of f.
Chosen(f, S) == [k \in 1 .. Cardinality(S) |-> f[InOrder(S)[k]]]
Left(f, S) == [i \in DOMAIN f |-> IF i \in S THEN NoEntry ELSE f[i]]

Filled(f, S) == \A i \in S : f[i] # NoEntry

LEMMA ChosenFacts ==
    ASSUME NEW E, NoEntry \notin E, NEW b \in Nat, NEW D \in SUBSET (0 .. b),
           NEW f \in [D -> E \cup {NoEntry}], NEW S \in SUBSET D,
           Filled(f, S), Distinct(f)
    PROVE  /\ Chosen(f, S) \in Seq(E) /\ Left(f, S) \in [D -> E \cup {NoEntry}]
           /\ Distinct(Chosen(f, S)) /\ Distinct(Left(f, S))
           /\ Owned(Chosen(f, S)) \subseteq Owned(f) /\ Owned(Left(f, S)) \subseteq Owned(f)
           /\ Owned(Chosen(f, S)) \cap Owned(Left(f, S)) = {}
<1> DEFINE n == Cardinality(S)
           o == InOrder(S)
           g == Chosen(f, S)
           h == Left(f, S)
<1>1. S \in SUBSET (0 .. b)
  OBVIOUS
<1>2. n \in Nat /\ o \in [1 .. n -> S] /\ \A i, j \in 1 .. n : o[i] = o[j] => i = j
  BY <1>1, InOrderFacts
<1>3. g = [k \in 1 .. n |-> f[o[k]]]
  BY DEF Chosen
<1> HIDE DEF n, o, g
<1>4. \A k \in 1 .. n : g[k] = f[o[k]] /\ o[k] \in S /\ o[k] \in D /\ g[k] \in E /\ g[k] # NoEntry
  BY <1>2, <1>3 DEF Filled
<1>5. g \in [1 .. n -> E] /\ DOMAIN g = 1 .. n
  BY <1>3, <1>4
<1>6. g \in Seq(E)
  BY <1>2, <1>5
<1>7. /\ h \in [D -> E \cup {NoEntry}] /\ DOMAIN h = D /\ DOMAIN f = D
      /\ \A i \in D : h[i] # NoEntry => i \notin S /\ h[i] = f[i]
  BY DEF Left
<1> HIDE DEF h
<1>8. Distinct(g)
  <2> SUFFICES ASSUME NEW i \in 1 .. n, NEW j \in 1 .. n, g[i].data = g[j].data
               PROVE  i = j
    BY <1>5 DEF Distinct
  <2> DEFINE u == o[i]
             v == o[j]
  <2>1. u \in D /\ v \in D /\ f[u] # NoEntry /\ f[v] # NoEntry /\ f[u].data = f[v].data
    BY <1>4
  <2> HIDE DEF u, v
  <2>2. u = v
    BY <1>7, <2>1 DEF Distinct
  <2> QED BY <1>2, <2>2 DEF u, v
<1>9. Distinct(h)
  BY <1>7 DEF Distinct
<1>10. ASSUME NEW x \in Owned(g)
       PROVE  \E i \in S : f[i] # NoEntry /\ x = f[i].data
  <2>1. PICK k \in 1 .. n : x = g[k].data
    BY <1>5 DEF Owned
  <2> QED BY <1>4, <2>1
<1>11. ASSUME NEW x \in Owned(h)
       PROVE  \E i \in D \ S : f[i] # NoEntry /\ x = f[i].data
  <2>1. PICK i \in D : h[i] # NoEntry /\ x = h[i].data
    BY <1>7 DEF Owned
  <2> QED BY <1>7, <2>1
<1>12. Owned(g) \subseteq Owned(f) /\ Owned(h) \subseteq Owned(f)
  BY <1>7, <1>10, <1>11 DEF Owned
<1>13. Owned(g) \cap Owned(h) = {}
  <2> SUFFICES ASSUME NEW x \in Owned(g), x \in Owned(h) PROVE FALSE
    OBVIOUS
  <2>1. PICK i \in S : f[i] # NoEntry /\ x = f[i].data
    BY <1>10
  <2>2. PICK j \in D \ S : f[j] # NoEntry /\ x = f[j].data
    BY <1>11
  <2>3. i = j
    BY <1>7, <2>1, <2>2 DEF Distinct
  <2> QED BY <2>1, <2>2, <2>3
<1> QED BY <1>6, <1>7, <1>8, <1>9, <1>12, <1>13 DEF g, h

LEMMA ChosenOfList ==
    ASSUME NEW E, NoEntry \notin E, NEW f \in Seq(E \cup {NoEntry}), Distinct(f),
           NEW S \in SUBSET (1 .. Len(f)), Filled(f, S)
    PROVE  /\ Chosen(f, S) \in Seq(E) /\ Left(f, S) \in [1 .. Len(f) -> E \cup {NoEntry}]
           /\ Distinct(Chosen(f, S)) /\ Distinct(Left(f, S))
           /\ Owned(Chosen(f, S)) \subseteq Owned(f) /\ Owned(Left(f, S)) \subseteq Owned(f)
           /\ Owned(Chosen(f, S)) \cap Owned(Left(f, S)) = {}
<1> DEFINE n == Len(f)
           D == 1 .. n
<1>1. n \in Nat
  OBVIOUS
<1>2. D \in SUBSET (0 .. n) /\ S \in SUBSET D /\ f \in [D -> E \cup {NoEntry}]
  BY <1>1
<1> HIDE DEF n, D
<1> QED BY <1>1, <1>2, ChosenFacts DEF D, n

\* netcode_network_simulator_update hands entries over to the list.
LEMMA UpdateFacts ==
    ASSUME NEW P, NoEntry \notin EntriesWith(P), NEW s \in Sims(P), NEW time \in Nat,
           Distinct(s.entries)
    PROVE  /\ Updated(s, time) \in Sims(P)
           /\ Distinct(Updated(s, time).entries) /\ Distinct(Updated(s, time).pending)
           /\ Owned(Updated(s, time).entries) \subseteq Owned(s.entries)
           /\ Owned(Updated(s, time).pending) \subseteq Owned(s.entries)
           /\ Owned(Updated(s, time).pending) \cap Owned(Updated(s, time).entries) = {}
<1> DEFINE E == EntriesWith(P)
           m == Moved(s, time)
           f == s.entries
           g == Chosen(f, m)
           h == Left(f, m)
           t == Updated(s, time)
<1>1. NumEntries - 1 \in Nat /\ EntryIndices = 0 .. NumEntries - 1
  BY SimulatorAssumption DEF EntryIndices
<1>2. f \in [EntryIndices -> E \cup {NoEntry}] /\ s.current \in EntryIndices
  BY DEF Sims
<1>3. m \in SUBSET EntryIndices /\ Filled(f, m)
  BY DEF Moved, Due, Filled
<1>4. h = EntriesAfterMove(s, m) /\ g = [k \in 1 .. Cardinality(m) |-> f[InOrder(m)[k]]]
  BY <1>2 DEF EntriesAfterMove, Left, Chosen
<1>5. t \in [time : {time}, current : {s.current}, entries : {h}, pending : {g}]
  <2>1. t = [s EXCEPT !.time = time, !.pending = g, !.entries = h]
    BY <1>4 DEF Updated
  <2> HIDE DEF t, g, h
  <2> QED BY <2>1 DEF Sims
<1> HIDE DEF E, m, f, t
<1>6. /\ g \in Seq(E) /\ h \in [EntryIndices -> E \cup {NoEntry}]
      /\ Distinct(g) /\ Distinct(h)
      /\ Owned(g) \subseteq Owned(f) /\ Owned(h) \subseteq Owned(f)
      /\ Owned(g) \cap Owned(h) = {}
  <2>1. EntryIndices \in SUBSET (0 .. NumEntries - 1) /\ NoEntry \notin E /\ Distinct(f)
    BY <1>1 DEF E, f
  <2> HIDE DEF g, h
  <2> QED BY <1>1, <1>2, <1>3, <2>1, ChosenFacts DEF g, h
<1> HIDE DEF g, h
<1>7. t.entries = h /\ t.pending = g /\ t.time = time /\ t.current = s.current
  BY <1>5
<1>8. g \in Seq(E \cup {NoEntry})
  BY <1>6
<1>9. t \in Sims(P)
  BY <1>2, <1>5, <1>6, <1>8 DEF Sims, E
<1> QED BY <1>6, <1>7, <1>9 DEF t, f

\* netcode_network_simulator_receive_packets hands packets over to an end.
LEMMA ReceiveFacts ==
    ASSUME NEW P, NoEntry \notin EntriesWith(P), NEW s \in Sims(P), Distinct(s.pending),
           NEW m \in SUBSET DOMAIN s.pending, Filled(s.pending, m)
    PROVE  /\ AfterReceive(s, m) \in Sims(P)
           /\ AfterReceive(s, m).entries = s.entries
           /\ Chosen(s.pending, m) \in Seq(EntriesWith(P))
           /\ Distinct(AfterReceive(s, m).pending) /\ Distinct(Chosen(s.pending, m))
           /\ Owned(AfterReceive(s, m).pending) \subseteq Owned(s.pending)
           /\ Owned(Chosen(s.pending, m)) \subseteq Owned(s.pending)
           /\ Owned(Chosen(s.pending, m)) \cap Owned(AfterReceive(s, m).pending) = {}
<1> DEFINE E == EntriesWith(P)
           f == s.pending
           n == Len(f)
           D == 1 .. n
           g == Chosen(f, m)
           h == Left(f, m)
           t == AfterReceive(s, m)
<1>1. f \in Seq(E \cup {NoEntry})
  BY DEF Sims
<1>2. n \in Nat /\ f \in [D -> E \cup {NoEntry}] /\ D \in SUBSET (0 .. n) /\ DOMAIN f = D
  <2> HIDE DEF f
  <2> QED BY <1>1
<1>3. t \in [time : {s.time}, current : {s.current}, entries : {s.entries}, pending : {h}]
  <2>1. t = [s EXCEPT !.pending = h]
    BY DEF AfterReceive, Left
  <2> HIDE DEF t, h
  <2> QED BY <2>1 DEF Sims
<1> HIDE DEF t
<1>4. Filled(f, m)
  OBVIOUS
<1>5. m \in SUBSET D /\ NoEntry \notin E /\ Distinct(f)
  BY <1>2
<1> HIDE DEF E, n, D, f
<1>6. /\ g \in Seq(E) /\ h \in [D -> E \cup {NoEntry}]
      /\ Distinct(g) /\ Distinct(h)
      /\ Owned(g) \subseteq Owned(f) /\ Owned(h) \subseteq Owned(f)
      /\ Owned(g) \cap Owned(h) = {}
  <2> HIDE DEF g, h
  <2> QED BY <1>1, <1>4, <1>5, ChosenOfList DEF g, h, D, n
<1> HIDE DEF g, h
<1>7. h \in Seq(E \cup {NoEntry})
  BY <1>2, <1>6 DEF D
<1>8. t \in Sims(P)
  BY <1>3, <1>7 DEF Sims, E
<1>9. t.entries = s.entries /\ t.pending = h
  BY <1>3
<1> QED BY <1>6, <1>8, <1>9 DEF t, f, g, E

-----------------------------------------------------------------------------
(* Recursion over numbers, and the bytes of a sequence number.             *)

\* f starts with b and goes on with the steps of G.
Iterates(f, b, G, k) == f = [n \in 0 .. k |-> IF n = 0 THEN b ELSE G[n][f[n - 1]]]

LEMMA IteratesTyped ==
    ASSUME NEW k \in Nat, NEW b \in Nat, NEW G \in [1 .. k -> [Nat -> Nat]],
           NEW f, Iterates(f, b, G, k)
    PROVE  f \in [0 .. k -> Nat]
<1> DEFINE B == {n \in 0 .. k : f[n] \notin Nat}
<1>1. \A n \in 0 .. k : f[n] = IF n = 0 THEN b ELSE G[n][f[n - 1]]
  BY DEF Iterates
<1>2. SUFFICES ASSUME B # {} PROVE FALSE
  <2>1. f = [n \in 0 .. k |-> f[n]]
    BY DEF Iterates
  <2>2. CASE B = {}
    BY <2>1, <2>2
  <2> QED BY <1>2, <2>2
<1>3. PICK n \in B : \A m \in B : n <= m
  <2>1. B \in SUBSET Nat
    OBVIOUS
  <2> HIDE DEF B
  <2> QED BY <1>2, <2>1, LeastNat
<1>4. n \in 0 .. k /\ f[n] \notin Nat
  BY <1>3
<1>5. n # 0
  BY <1>1, <1>4
<1>6. n - 1 \in 0 .. k /\ n \in 1 .. k
  BY <1>4, <1>5
<1>7. n - 1 \notin B
  BY <1>3, <1>6
<1>8. f[n - 1] \in Nat
  BY <1>6, <1>7
<1>9. f[n] = G[n][f[n - 1]]
  BY <1>1, <1>4, <1>5
<1> QED BY <1>4, <1>6, <1>8, <1>9

LEMMA IteratesExist ==
    ASSUME NEW b, NEW G
    PROVE  \A k \in Nat : \E f : Iterates(f, b, G, k)
<1> DEFINE B == {k \in Nat : ~\E f : Iterates(f, b, G, k)}
<1>1. SUFFICES ASSUME B # {} PROVE FALSE
  OBVIOUS
<1>2. PICK k \in B : \A l \in B : k <= l
  <2>1. B \in SUBSET Nat
    OBVIOUS
  <2> HIDE DEF B
  <2> QED BY <1>1, <2>1, LeastNat
<1>3. k \in Nat /\ ~\E f : Iterates(f, b, G, k)
  BY <1>2
<1>4. CASE k = 0
  <2> DEFINE f == [n \in 0 .. 0 |-> b]
  <2>1. f = [n \in 0 .. 0 |-> IF n = 0 THEN b ELSE G[n][f[n - 1]]]
    OBVIOUS
  <2>2. Iterates(f, b, G, 0)
    BY <2>1 DEF Iterates
  <2> QED BY <1>3, <1>4, <2>2
<1>5. CASE k # 0
  <2>1. k - 1 \in Nat /\ k - 1 \notin B
    BY <1>2, <1>3, <1>5
  <2>2. PICK f : Iterates(f, b, G, k - 1)
    BY <2>1
  <2> DEFINE g == [n \in 0 .. k |-> IF n = k THEN G[k][f[k - 1]] ELSE f[n]]
  <2>3. ASSUME NEW n \in 0 .. k PROVE g[n] = IF n = 0 THEN b ELSE G[n][g[n - 1]]
    <3>1. \A l \in 0 .. k - 1 : f[l] = IF l = 0 THEN b ELSE G[l][f[l - 1]]
      BY <2>2 DEF Iterates
    <3>2. CASE n = k
      <4>1. g[k] = G[k][f[k - 1]] /\ g[k - 1] = f[k - 1]
        BY <1>3, <1>5
      <4> QED BY <3>2, <4>1, <1>5
    <3>3. CASE n # k /\ n # 0
      <4>1. n \in 0 .. k - 1 /\ n - 1 \in 0 .. k - 1 /\ n - 1 # k /\ n - 1 \in 0 .. k
        BY <3>3, <1>3
      <4>2. g[n] = f[n] /\ g[n - 1] = f[n - 1]
        BY <3>3, <4>1
      <4>3. f[n] = G[n][f[n - 1]]
        BY <3>1, <3>3, <4>1
      <4> HIDE DEF g
      <4> QED BY <3>3, <4>2, <4>3
    <3>4. CASE n = 0
      <4>1. 0 \in 0 .. k - 1 /\ 0 \in 0 .. k
        BY <1>3, <1>5
      <4>2. g[0] = f[0] /\ f[0] = b
        BY <3>1, <4>1, <1>5
      <4> HIDE DEF g
      <4> QED BY <3>4, <4>2
    <3> QED BY <3>2, <3>3, <3>4
  <2>4. g = [n \in 0 .. k |-> IF n = 0 THEN b ELSE G[n][g[n - 1]]]
    <3>1. g = [n \in 0 .. k |-> g[n]]
      OBVIOUS
    <3> HIDE DEF g
    <3> QED BY <2>3, <3>1
  <2>5. Iterates(g, b, G, k)
    <3> HIDE DEF g
    <3> QED BY <2>4 DEF Iterates
  <2> QED BY <1>3, <2>5
<1> QED BY <1>4, <1>5

\* What a byte counts, and the two values made of it.
LEMMA PowerFacts ==
    /\ Power \in [0 .. MaxSequenceBytes -> Nat \ {0}]
    /\ HighBit < Power[MaxSequenceBytes]
    /\ HighBit \in Nat /\ Empty \in Nat /\ HighBit <= Empty
<1> DEFINE G == [n \in 1 .. 8 |-> [v \in Nat |-> ByteValues * v]]
           Eq(f) == f = [n \in 0 .. 8 |-> IF n = 0 THEN 1 ELSE ByteValues * f[n - 1]]
<1>0. ByteValues \in Nat \ {0, 1}
  BY TokenAssumption
<1>1. G \in [1 .. 8 -> [Nat -> Nat]]
  BY <1>0
<1>2. PICK f : Iterates(f, 1, G, 8)
  <2> HIDE DEF G
  <2> QED BY IteratesExist
<1>3. f \in [0 .. 8 -> Nat]
  <2> HIDE DEF G
  <2> QED BY <1>1, <1>2, IteratesTyped
<1>4. Eq(f)
  <2>1. ASSUME NEW n \in 0 .. 8 PROVE f[n] = IF n = 0 THEN 1 ELSE ByteValues * f[n - 1]
    <3>1. f[n] = IF n = 0 THEN 1 ELSE G[n][f[n - 1]]
      BY <1>2 DEF Iterates
    <3>2. CASE n # 0
      <4>1. n \in 1 .. 8 /\ f[n - 1] \in Nat
        BY <1>3, <3>2
      <4> QED BY <3>1, <3>2, <4>1
    <3> QED BY <3>1, <3>2
  <2> QED BY <1>3, <2>1
<1>5. Eq(Power)
  <2>1. Power = CHOOSE g : Eq(g)
    BY DEF Power, MaxSequenceBytes
  <2> HIDE DEF Eq
  <2> QED BY <1>4, <2>1
<1>6. \A n \in 0 .. 8 : Power[n] = IF n = 0 THEN 1 ELSE ByteValues * Power[n - 1]
  BY <1>5
<1>7. Power[0] = 1
  BY <1>6
<1>8. ASSUME NEW n \in 1 .. 8, Power[n - 1] \in Nat \ {0}
      PROVE  Power[n] \in Nat /\ Power[n] >= 2 * Power[n - 1]
  <2> DEFINE v == Power[n - 1]
  <2>1. Power[n] = ByteValues * v
    BY <1>6
  <2>2. v \in Nat \ {0}
    BY <1>8
  <2> HIDE DEF v
  <2>3. ByteValues * v \in Nat /\ ByteValues * v >= 2 * v
    BY <1>0, <2>2
  <2> QED BY <2>1, <2>3 DEF v
<1>9. Power[1] \in Nat \ {0}
  BY <1>7, <1>8
<1>10. Power[2] \in Nat \ {0}
  BY <1>8, <1>9
<1>11. Power[3] \in Nat \ {0}
  BY <1>8, <1>10
<1>12. Power[4] \in Nat \ {0}
  BY <1>8, <1>11
<1>13. Power[5] \in Nat \ {0}
  BY <1>8, <1>12
<1>14. Power[6] \in Nat \ {0}
  BY <1>8, <1>13
<1>15. Power[7] \in Nat \ {0}
  BY <1>8, <1>14
<1>16. Power[8] \in Nat /\ Power[8] >= 2
  BY <1>8, <1>15
<1>17. Power = [n \in 0 .. 8 |-> Power[n]]
  BY <1>5
<1>18. \A n \in 0 .. 8 : Power[n] \in Nat \ {0}
  BY <1>7, <1>9, <1>10, <1>11, <1>12, <1>13, <1>14, <1>15, <1>16
<1>19. Power \in [0 .. MaxSequenceBytes -> Nat \ {0}]
  BY <1>17, <1>18 DEF MaxSequenceBytes
<1>20. HighBit < Power[MaxSequenceBytes] /\ HighBit \in Nat /\ Empty \in Nat /\ HighBit <= Empty
  <2> DEFINE v == Power[8]
  <2>1. Power[MaxSequenceBytes] = v /\ HighBit = v \div 2 /\ Empty = v - 1 /\ v \in Nat /\ v >= 2
    BY <1>16 DEF HighBit, Empty, MaxSequenceBytes
  <2> HIDE DEF v
  <2> QED BY <2>1
<1> QED BY <1>19, <1>20

\* A sequence number is read as a number.
LEMMA ReadSequenceNat ==
    ASSUME NEW k \in 0 .. 9, NEW bytes \in [1 .. k -> Nat]
    PROVE  ReadSequence(bytes) \in Nat
<1> DEFINE G == [i \in 1 .. k |-> [v \in Nat |-> v + bytes[i] * Power[i - 1]]]
           Eq(f) == f = [i \in 0 .. k |-> IF i = 0 THEN 0 ELSE f[i - 1] + bytes[i] * Power[i - 1]]
<1>0. k \in Nat /\ Len(bytes) = k
  OBVIOUS
<1>1. \A i \in 1 .. k : bytes[i] \in Nat /\ Power[i - 1] \in Nat
  <2> SUFFICES ASSUME NEW i \in 1 .. k PROVE bytes[i] \in Nat /\ Power[i - 1] \in Nat
    OBVIOUS
  <2>1. Power \in [0 .. 8 -> Nat \ {0}]
    BY PowerFacts DEF MaxSequenceBytes
  <2>2. i - 1 \in 0 .. 8
    OBVIOUS
  <2> QED BY <2>1, <2>2
<1>2. G \in [1 .. k -> [Nat -> Nat]]
  <2>1. ASSUME NEW i \in 1 .. k, NEW v \in Nat PROVE v + bytes[i] * Power[i - 1] \in Nat
    <3> DEFINE x == bytes[i]
               y == Power[i - 1]
    <3>1. x \in Nat /\ y \in Nat
      BY <1>1
    <3> HIDE DEF x, y
    <3>2. v + x * y \in Nat
      BY <3>1
    <3> QED BY <3>2 DEF x, y
  <2> QED BY <2>1
<1>3. PICK f : Iterates(f, 0, G, k)
  <2> HIDE DEF G
  <2> QED BY <1>0, IteratesExist
<1>4. ASSUME NEW g PROVE Iterates(g, 0, G, k) /\ g \in [0 .. k -> Nat] => Eq(g)
  <2> SUFFICES ASSUME Iterates(g, 0, G, k), g \in [0 .. k -> Nat] PROVE Eq(g)
    OBVIOUS
  <2>1. ASSUME NEW i \in 0 .. k
        PROVE  g[i] = IF i = 0 THEN 0 ELSE g[i - 1] + bytes[i] * Power[i - 1]
    <3>1. g[i] = IF i = 0 THEN 0 ELSE G[i][g[i - 1]]
      BY DEF Iterates
    <3>2. CASE i # 0
      <4>1. i \in 1 .. k /\ g[i - 1] \in Nat
        BY <3>2
      <4> QED BY <3>1, <3>2, <4>1
    <3> QED BY <3>1, <3>2
  <2> QED BY <2>1
<1>5. Eq(f)
  <2>1. f \in [0 .. k -> Nat]
    <3> HIDE DEF G
    <3> QED BY <1>0, <1>2, <1>3, IteratesTyped
  <2> QED BY <1>3, <1>4, <2>1
<1> DEFINE value == CHOOSE g : Eq(g)
<1>6. Eq(value)
  <2> HIDE DEF Eq
  <2> QED BY <1>5
<1>7. ReadSequence(bytes) = value[k]
  BY <1>0 DEF ReadSequence
<1> HIDE DEF value
<1>8. \A i \in 0 .. k : value[i] = IF i = 0 THEN 0 ELSE value[i - 1] + bytes[i] * Power[i - 1]
  BY <1>6
<1>9. ASSUME NEW i \in 1 .. k, value[i - 1] \in Nat PROVE value[i] \in Nat
  <2> DEFINE x == bytes[i]
             y == Power[i - 1]
             z == value[i - 1]
  <2>1. value[i] = z + x * y
    BY <1>8
  <2>2. x \in Nat /\ y \in Nat /\ z \in Nat
    BY <1>1, <1>9
  <2> HIDE DEF x, y, z
  <2> QED BY <2>1, <2>2
<1> DEFINE B == {i \in 0 .. k : value[i] \notin Nat}
<1>10. SUFFICES ASSUME B # {} PROVE FALSE
  <2>1. CASE B = {}
    BY <1>0, <1>7, <2>1
  <2> QED BY <1>10, <2>1
<1>11. PICK i \in B : \A m \in B : i <= m
  <2>1. B \in SUBSET Nat
    OBVIOUS
  <2> HIDE DEF B
  <2> QED BY <1>10, <2>1, LeastNat
<1>12. i \in 0 .. k /\ value[i] \notin Nat
  BY <1>11
<1>13. i # 0
  BY <1>8, <1>12
<1>14. i - 1 \in 0 .. k /\ i \in 1 .. k
  BY <1>12, <1>13
<1>15. i - 1 \notin B
  BY <1>11, <1>14
<1> QED BY <1>9, <1>12, <1>14, <1>15

\* A sequence number within the bound is written as one to eight bytes.
LEMMA SequenceFacts ==
    ASSUME NEW n \in 0 .. MaxSends
    PROVE  /\ SequenceBytes(n) \in 1 .. MaxSequenceBytes
           /\ WriteSequence(n) \in [1 .. SequenceBytes(n) -> Bytes]
<1> DEFINE S == {j \in 1 .. 8 : n < Power[j]}
<1>1. n \in Nat /\ n < HighBit /\ HighBit \in Nat
  BY PathAssumption, PowerFacts
<1>2. Power \in [0 .. 8 -> Nat \ {0}] /\ HighBit < Power[8]
  BY PowerFacts DEF MaxSequenceBytes
<1>3. 8 \in S
  <2>1. Power[8] \in Nat
    BY <1>2
  <2> QED BY <1>1, <1>2, <2>1
<1>4. PICK j \in S : \A l \in S : j <= l
  <2>1. S \in SUBSET Nat
    OBVIOUS
  <2> HIDE DEF S
  <2> QED BY <1>3, <2>1, LeastNat
<1>5. j \in 1 .. 8 /\ n < Power[j]
  BY <1>4
<1>6. j = 1 \/ n >= Power[j - 1]
  <2>1. CASE j # 1
    <3>1. j - 1 \in 1 .. 8 /\ j - 1 \notin S
      BY <1>4, <1>5, <2>1
    <3>2. Power[j - 1] \in Nat
      BY <1>2, <3>1
    <3> QED BY <1>1, <3>1, <3>2
  <2> QED BY <2>1
<1> DEFINE b == SequenceBytes(n)
<1>7. b \in 1 .. 8
  <2>1. \E x \in 1 .. 8 : n < Power[x] /\ (x = 1 \/ n >= Power[x - 1])
    BY <1>5, <1>6
  <2> QED BY <2>1 DEF SequenceBytes, MaxSequenceBytes
<1> HIDE DEF b
<1>8. ASSUME NEW i \in 1 .. b PROVE (n \div Power[i - 1]) % ByteValues \in Bytes
  <2> DEFINE p == Power[i - 1]
  <2>1. i - 1 \in 0 .. 8
    BY <1>7
  <2>2. p \in Nat \ {0}
    BY <1>2, <2>1
  <2> HIDE DEF p
  <2> DEFINE q == n \div p
  <2>3. q \in Int
    BY <1>1, <2>2
  <2> HIDE DEF q
  <2>4. q % ByteValues \in Bytes
    BY <2>3, TokenAssumption DEF Bytes
  <2> QED BY <2>4 DEF p, q
<1>9. WriteSequence(n) = [i \in 1 .. b |-> (n \div Power[i - 1]) % ByteValues]
  BY DEF WriteSequence, b
<1> QED BY <1>7, <1>8, <1>9 DEF b, MaxSequenceBytes

-----------------------------------------------------------------------------
(* What an end reads of a packet that was altered on its way.              *)

\* A datagram has its parts, and at most eight bytes of sequence number.
Formed(d) ==
    \E t, n, h, l, plain, data, nonce, key : \E b \in 0 .. 8 : \E q \in [1 .. b -> Bytes] :
        d = [prefix |-> [type |-> t, bytes |-> n], header |-> h, sequence |-> q,
             box |-> [plain |-> plain, data |-> data, nonce |-> nonce, key |-> key], length |-> l]

\* The datagrams an end may find where d was sent.
Arrivals(d) == {d} \cup Altered(d)

\* A datagram is altered.  Either its box is as it was or nobody has its key,
\* and the bytes of its sequence number are still bytes.
LEMMA AlteredFacts ==
    ASSUME NEW d, Formed(d), NEW e \in Arrivals(d)
    PROVE  /\ e.box = d.box \/ e.box.key = NoKey
           /\ \E k \in 0 .. 9 : e.sequence \in [1 .. k -> Bytes]
           /\ e.prefix.type \in {d.prefix.type, REQUEST, KEEP_ALIVE, PAYLOAD, NumPackets}
<1>p. PICK t, n, h, l, plain, data, nonce, key :
        \E b \in 0 .. 8 : \E q \in [1 .. b -> Bytes] :
        d = [prefix |-> [type |-> t, bytes |-> n], header |-> h, sequence |-> q,
             box |-> [plain |-> plain, data |-> data, nonce |-> nonce, key |-> key], length |-> l]
  BY DEF Formed
<1>e. PICK b \in 0 .. 8 : \E q \in [1 .. b -> Bytes] :
        d = [prefix |-> [type |-> t, bytes |-> n], header |-> h, sequence |-> q,
             box |-> [plain |-> plain, data |-> data, nonce |-> nonce, key |-> key], length |-> l]
  BY <1>p
<1>d. PICK q \in [1 .. b -> Bytes] :
        d = [prefix |-> [type |-> t, bytes |-> n], header |-> h, sequence |-> q,
             box |-> [plain |-> plain, data |-> data, nonce |-> nonce, key |-> key], length |-> l]
  BY <1>e
<1> DEFINE Good(x) == /\ x.box = d.box \/ x.box.key = NoKey
                      /\ \E k \in 0 .. 9 : x.sequence \in [1 .. k -> Bytes]
                      /\ x.prefix.type \in {d.prefix.type, REQUEST, KEEP_ALIVE, PAYLOAD, NumPackets}
<1>b. b \in 0 .. 9
  OBVIOUS
<1>0. \E k \in 0 .. 9 : q \in [1 .. k -> Bytes]
  BY <1>b, Zenon
<1>1. ASSUME NEW u \in {REQUEST, KEEP_ALIVE, PAYLOAD, NumPackets} PROVE Good([d EXCEPT !.prefix.type = u])
  BY <1>0, <1>d
<1>2. ASSUME NEW i \in DOMAIN d.sequence
      PROVE  Good([d EXCEPT !.sequence[i] = ByteValues - 1 - @])
  <2> DEFINE x == [d EXCEPT !.sequence[i] = ByteValues - 1 - @]
             v == q[i]
             p == [q EXCEPT ![i] = ByteValues - 1 - v]
  <2>1. d.sequence = q /\ i \in 1 .. b
    BY <1>d
  <2>2. v \in Bytes
    BY <2>1
  <2> HIDE DEF v
  <2>3. ByteValues - 1 - v \in Bytes
    BY <2>2, TokenAssumption DEF Bytes
  <2>4. p \in [1 .. b -> Bytes]
    BY <2>1, <2>3
  <2>5. x.box = d.box /\ x.sequence = p /\ x.prefix.type = d.prefix.type
    BY <1>d DEF v
  <2> HIDE DEF x, p
  <2>6. \E k \in 0 .. 9 : p \in [1 .. k -> Bytes]
    BY <1>b, <2>4, Zenon
  <2>7. Good(x)
    BY <2>5, <2>6
  <2> QED BY <2>7 DEF x
<1>3. ASSUME NEW i \in {0, MaxSequenceBytes + 1}
      PROVE  Good([d EXCEPT !.prefix.bytes = i, !.box = Garbled(@),
                            !.sequence = [j \in 1 .. i |-> 1]])
  <2> DEFINE p == [j \in 1 .. i |-> 1]
             x == [d EXCEPT !.prefix.bytes = i, !.box = Garbled(@), !.sequence = p]
  <2>1. i \in 0 .. 9 /\ p \in [1 .. i -> Bytes]
    BY TokenAssumption DEF MaxSequenceBytes, Bytes
  <2> HIDE DEF p
  <2>2. x.sequence = p /\ x.box.key = NoKey /\ x.prefix.type = d.prefix.type
    BY <1>d DEF Garbled
  <2> HIDE DEF x
  <2> QED BY <2>1, <2>2 DEF x, p
<1>4. Good([d EXCEPT !.box = Garbled(@)])
  BY <1>0, <1>d DEF Garbled
<1>5. Good([d EXCEPT !.length = MacBytes])
  BY <1>0, <1>d
<1>6. Good([d EXCEPT !.header.expire = MaxTime + 1])
  BY <1>0, <1>d
<1>7. Good([d EXCEPT !.header.version = FALSE])
  BY <1>0, <1>d
<1>8. Good([d EXCEPT !.header.sequence = @ + 1])
  BY <1>0, <1>d
<1>15. Good(d)
  BY <1>0, <1>d
<1> HIDE DEF Good
<1> DEFINE A1 == {[d EXCEPT !.prefix.type = u] : u \in {REQUEST, KEEP_ALIVE, PAYLOAD, NumPackets}}
           A2 == {[d EXCEPT !.sequence[i] = ByteValues - 1 - @] : i \in DOMAIN d.sequence}
           A3 == {[d EXCEPT !.prefix.bytes = i, !.box = Garbled(@),
                            !.sequence = [j \in 1 .. i |-> 1]] : i \in {0, MaxSequenceBytes + 1}}
           A4 == {[d EXCEPT !.box = Garbled(@)], [d EXCEPT !.length = MacBytes]}
           A5 == IF d.header = NoHeader THEN {}
                 ELSE {[d EXCEPT !.header.expire = MaxTime + 1],
                       [d EXCEPT !.header.version = FALSE],
                       [d EXCEPT !.header.sequence = @ + 1]}
<1>9. e = d \/ e \in A1 \/ e \in A2 \/ e \in A3 \/ e \in A4 \/ e \in A5
  <2>1. Altered(d) = A1 \cup A2 \cup A3 \cup A4 \cup A5
    BY DEF Altered
  <2> HIDE DEF A1, A2, A3, A4, A5
  <2> QED BY <2>1 DEF Arrivals
<1>10. CASE e \in A1
  <2>1. PICK u \in {REQUEST, KEEP_ALIVE, PAYLOAD, NumPackets} : e = [d EXCEPT !.prefix.type = u]
    BY <1>10
  <2> QED BY <1>1, <2>1, Zenon DEF Good
<1>11. CASE e \in A2
  <2>1. PICK i \in DOMAIN d.sequence : e = [d EXCEPT !.sequence[i] = ByteValues - 1 - @]
    BY <1>11
  <2> QED BY <1>2, <2>1, Zenon DEF Good
<1>12. CASE e \in A3
  <2>1. PICK i \in {0, MaxSequenceBytes + 1} :
          e = [d EXCEPT !.prefix.bytes = i, !.box = Garbled(@), !.sequence = [j \in 1 .. i |-> 1]]
    BY <1>12
  <2> QED BY <1>3, <2>1, Zenon DEF Good
<1>13. CASE e \in A4
  BY <1>4, <1>5, <1>13, Zenon DEF Good
<1>14. CASE e \in A5
  <2>1. d.header # NoHeader
    BY <1>14
  <2> QED BY <1>6, <1>7, <1>8, <1>14, <2>1, Zenon DEF Good
<1> HIDE DEF A1, A2, A3, A4, A5
<1>16. CASE e = d
  BY <1>15, <1>16 DEF Good
<1> QED BY <1>9, <1>10, <1>11, <1>12, <1>13, <1>14, <1>16

\* What becomes of a reply on its way.
LEMMA ReplyArrives ==
    ASSUME NEW m \in Messages, NEW d \in Arrivals(Reply(m).datagram)
    PROVE  /\ d.box = Reply(m).datagram.box \/ d.box.key = NoKey
           /\ ReadSequence(d.sequence) \in Nat
           /\ d.prefix.type \in Nat
           /\ Reply(m).datagram.box =
                [plain |-> Body(m.type, m.server),
                 data |-> <<Protocol, [type |-> m.type, bytes |-> SequenceBytes(m.sequence)]>>,
                 nonce |-> m.sequence, key |-> m.token]
<1> DEFINE n == SequenceBytes(m.sequence)
           q == WriteSequence(m.sequence)
           x == [type |-> m.type, bytes |-> n]
           o == Body(m.type, m.server)
           l == 1 + n + o.size + MacBytes
           d0 == Reply(m).datagram
<1>1. d0 = [prefix |-> x, header |-> NoHeader, sequence |-> q,
            box |-> [plain |-> o, data |-> <<Protocol, x>>, nonce |-> m.sequence, key |-> m.token],
            length |-> l]
  BY DEF Reply, WritePacket, Seal, PacketData
<1>2. m.sequence \in 0 .. MaxSends
  BY DEF Messages
<1>3. n \in 0 .. 8 /\ q \in [1 .. n -> Bytes]
  BY <1>2, SequenceFacts DEF MaxSequenceBytes
<1>4. d \in Arrivals(d0)
  OBVIOUS
<1> HIDE DEF n, q, o, l, d0
<1>5. Formed(d0)
  BY <1>1, <1>3, Zenon DEF Formed
<1>6. /\ d.box = d0.box \/ d.box.key = NoKey
      /\ \E k \in 0 .. 9 : d.sequence \in [1 .. k -> Bytes]
      /\ d.prefix.type \in {d0.prefix.type, REQUEST, KEEP_ALIVE, PAYLOAD, NumPackets}
  BY <1>4, <1>5, AlteredFacts
<1>8. d.prefix.type \in Nat
  <2>1. d0.prefix.type = m.type
    BY <1>1
  <2>2. m.type \in DENIED .. DISCONNECT
    BY PathAssumption DEF Messages
  <2> QED BY <1>6, <2>1, <2>2 DEF REQUEST, KEEP_ALIVE, PAYLOAD, NumPackets, DENIED, DISCONNECT
<1>7. ReadSequence(d.sequence) \in Nat
  <2>1. PICK k \in 0 .. 9 : d.sequence \in [1 .. k -> Bytes]
    BY <1>6
  <2> DEFINE y == d.sequence
  <2>2. y \in [1 .. k -> Nat]
    <3>1. \A v \in Bytes : v \in Nat
      BY TokenAssumption DEF Bytes
    <3> QED BY <2>1, <3>1
  <2> HIDE DEF y
  <2>3. ReadSequence(y) \in Nat
    BY <2>2, ReadSequenceNat
  <2> QED BY <2>3 DEF y
<1> QED BY <1>1, <1>6, <1>7, <1>8 DEF d0, n, o

\* A reply that the client accepts is what the server wrote, under the client's
\* key, and was not refused as a replay.
LEMMA ReplyRead ==
    ASSUME NEW m \in Messages, NEW d \in Arrivals(Reply(m).datagram), NEW r,
           REQUEST \notin r.allowed, ReadPacket(d, r) # NoPacket
    PROVE  /\ ReadPacket(d, r) = [type |-> m.type, sequence |-> m.sequence,
                                  body |-> Body(m.type, m.server)]
           /\ r.key = m.token /\ r.key # NoKey
           /\ d.prefix.type = m.type /\ ReadSequence(d.sequence) = m.sequence
           /\ ~IsRequest(d) /\ Plausible(d, r) /\ ~Refused(d, r)
<1> DEFINE x == [type |-> m.type, bytes |-> SequenceBytes(m.sequence)]
           s == ReadSequence(d.sequence)
<1>1. /\ ~IsRequest(d) /\ Plausible(d, r) /\ ~Refused(d, r)
      /\ Opens(d.box, PacketData(d.prefix), s, r.key)
      /\ ReadPacket(d, r) = [type |-> d.prefix.type, sequence |-> s, body |-> d.box.plain]
  BY DEF ReadPacket, RequestReadable
<1>2. r.key # NoKey
  BY <1>1 DEF Plausible
<1>3. d.box.data = <<Protocol, d.prefix>> /\ d.box.nonce = s /\ d.box.key = r.key
  BY <1>1 DEF Opens, PacketData
<1>4. d.box = [plain |-> Body(m.type, m.server), data |-> <<Protocol, x>>,
               nonce |-> m.sequence, key |-> m.token]
  BY <1>2, <1>3, ReplyArrives
<1> HIDE DEF s
<1>5. d.prefix = x /\ s = m.sequence /\ r.key = m.token /\ d.box.plain = Body(m.type, m.server)
  BY <1>3, <1>4
<1> QED BY <1>1, <1>2, <1>5 DEF s

\* What becomes of a request on its way.
LEMMA RequestArrives ==
    ASSUME NEW k \in Tokens, NEW to, NEW d \in Arrivals(Request(GeneratedToken(k), to).datagram)
    PROVE  /\ d.box = Request(GeneratedToken(k), to).datagram.box \/ d.box.key = NoKey
           /\ d.prefix.type \in Nat
           /\ Request(GeneratedToken(k), to).datagram.box =
                [plain |-> WriteToken(Token(k)), data |-> TokenData(Header(k)), nonce |-> k,
                 key |-> PrivateKey]
           /\ IsRequest(Request(GeneratedToken(k), to).datagram)
<1> DEFINE h == Header(k)
           d0 == Request(GeneratedToken(k), to).datagram
           nil == <<>>
<1>1. d0 = [prefix |-> [type |-> REQUEST, bytes |-> 0], header |-> h, sequence |-> nil,
            box |-> [plain |-> WriteToken(Token(k)), data |-> TokenData(h), nonce |-> k,
                     key |-> PrivateKey],
            length |-> RequestBytes]
  BY DEF Request, WriteRequest, RequestHeader, Header, GeneratedToken, PrivateData, Seal
<1>2. 0 \in 0 .. 8 /\ nil \in [1 .. 0 -> Bytes]
  OBVIOUS
<1>3. d \in Arrivals(d0)
  OBVIOUS
<1> HIDE DEF d0, h, nil
<1>4. /\ d.box = d0.box \/ d.box.key = NoKey
      /\ d.prefix.type \in {d0.prefix.type, REQUEST, KEEP_ALIVE, PAYLOAD, NumPackets}
  <2>1. Formed(d0)
    BY <1>1, <1>2, Zenon DEF Formed
  <2> QED BY <1>3, <2>1, AlteredFacts
<1>5. d.prefix.type \in Nat
  <2>1. d0.prefix.type = REQUEST
    BY <1>1
  <2> QED BY <1>4, <2>1 DEF REQUEST, KEEP_ALIVE, PAYLOAD, NumPackets
<1>6. IsRequest(d0)
  BY <1>1 DEF IsRequest
<1> QED BY <1>1, <1>4, <1>5, <1>6 DEF d0, h

\* A server accepts a request only with the private part of a token, for which
\* the time has not run out.
LEMMA RequestRead ==
    ASSUME NEW k \in Tokens, NEW to, NEW d \in Arrivals(Request(GeneratedToken(k), to).datagram),
           NEW r, RequestReadable(d, r)
    PROVE  d.box.plain = WriteToken(Token(k)) /\ TokenExpire[k] > r.now
<1>1. /\ r.private_key # NoKey /\ d.header.expire > r.now
      /\ d.box.data = TokenData(d.header) /\ d.box.key = r.private_key
  BY DEF RequestReadable, Opens
<1>2. d.box.plain = WriteToken(Token(k)) /\ d.box.data = TokenData(Header(k))
  <2> DEFINE b == Request(GeneratedToken(k), to).datagram.box
  <2>1. /\ d.box = b \/ d.box.key = NoKey
        /\ b = [plain |-> WriteToken(Token(k)), data |-> TokenData(Header(k)), nonce |-> k,
                key |-> PrivateKey]
    BY RequestArrives
  <2> HIDE DEF b
  <2> QED BY <1>1, <2>1
<1>3. d.header.expire = TokenExpire[k]
  BY <1>1, <1>2 DEF TokenData, Header
<1> QED BY <1>1, <1>2, <1>3

-----------------------------------------------------------------------------
(* What is written can be read back.                                       *)

LEMMA WordFacts ==
    ASSUME NEW w \in Words
    PROVE  /\ Low(w) \in Bytes /\ High(w) \in Bytes
           /\ Word(Low(w), High(w)) = w
           /\ High(w) = 0 <=> Low(w) = w
<1>1. ByteValues \in Nat \ {0} /\ w \in Nat /\ w < ByteValues * ByteValues
  BY TokenAssumption DEF Words
<1>2. w % ByteValues \in 0 .. ByteValues - 1 /\ w \div ByteValues \in Nat
  BY <1>1
<1>3. (w % ByteValues) + ByteValues * (w \div ByteValues) = w
  BY <1>1
<1>4. w \div ByteValues \in 0 .. ByteValues - 1
  BY <1>1
<1>5. (w \div ByteValues) = 0 <=> w % ByteValues = w
  <2> DEFINE l == w % ByteValues
             h == w \div ByteValues
  <2>1. l \in Nat /\ h \in Nat /\ l + ByteValues * h = w
    BY <1>2, <1>3
  <2> HIDE DEF l, h
  <2>2. ByteValues * h = 0 <=> h = 0
    BY <1>1, <2>1
  <2>3. h = 0 <=> l = w
    BY <1>1, <2>1, <2>2
  <2> QED BY <2>3 DEF l, h
<1> QED BY <1>2, <1>3, <1>4, <1>5 DEF Low, High, Word, Bytes

LEMMA AddressRead ==
    ASSUME NEW a \in Addresses
    PROVE  ReadAddress(WriteAddress(a)) = a
<1>1. IPv6Words \in Nat /\ IPv4Bytes \in Nat
  BY TokenAssumption
<1>2. Word(WriteWord(a.port)[1], WriteWord(a.port)[2]) = a.port
  <2>1. a.port \in Words
    BY DEF Addresses
  <2> QED BY <2>1, WordFacts DEF WriteWord
<1>3. CASE a.type = IPV4
  <2>1. a \in [type : {IPV4}, data : [1 .. IPv4Bytes -> Bytes], port : Words]
    BY <1>3 DEF Addresses, IPV4, IPV6
  <2>2. ReadAddress(WriteAddress(a)) = [type |-> a.type, data |-> a.data, port |-> a.port]
    BY <1>2, <1>3 DEF ReadAddress, WriteAddress
  <2> QED BY <2>1, <2>2
<1>4. CASE a.type # IPV4
  <2>1. a \in [type : {IPV6}, data : [1 .. IPv6Words -> Words], port : Words]
    BY <1>4 DEF Addresses, IPV4, IPV6
  <2> DEFINE f == WriteAddress(a)
             g == [i \in 1 .. IPv6Words |-> Word(f.data[2 * i - 1], f.data[2 * i])]
  <2>2. f.type = a.type /\ f.port = WriteWord(a.port)
        /\ f.data = [i \in 1 .. 2 * IPv6Words |->
                      LET w == a.data[(i + 1) \div 2] IN IF i % 2 = 1 THEN Low(w) ELSE High(w)]
    BY <1>4 DEF WriteAddress
  <2> HIDE DEF f
  <2>3. ASSUME NEW i \in 1 .. IPv6Words PROVE Word(f.data[2 * i - 1], f.data[2 * i]) = a.data[i]
    <3>1. /\ 2 * i - 1 \in 1 .. 2 * IPv6Words /\ (2 * i - 1) % 2 = 1 /\ (2 * i - 1 + 1) \div 2 = i
          /\ 2 * i \in 1 .. 2 * IPv6Words /\ (2 * i) % 2 # 1 /\ (2 * i + 1) \div 2 = i
      BY <1>1
    <3>2. f.data[2 * i - 1] = Low(a.data[i])
      BY <2>2, <3>1
    <3>3. f.data[2 * i] = High(a.data[i])
      BY <2>2, <3>1
    <3>4. a.data[i] \in Words
      BY <2>1
    <3> QED BY <3>2, <3>3, <3>4, WordFacts
  <2>4. g = a.data
    BY <2>1, <2>3
  <2>5. ReadAddress(f) = [type |-> a.type, data |-> g, port |-> a.port]
    BY <1>2, <1>4, <2>2 DEF ReadAddress
  <2> HIDE DEF g
  <2> QED BY <2>1, <2>4, <2>5 DEF f
<1> QED BY <1>3, <1>4

\* The addresses of every token are written and read back.
Written == [i \in 1 .. Len(ServerAddresses) |-> WriteAddress(ServerAddresses[i])]

LEMMA WrittenFacts ==
    /\ Len(ServerAddresses) \in 1 .. MaxServers
    /\ \A i \in 1 .. Len(ServerAddresses) :
         Written[i].type \in {IPV4, IPV6} /\ ServerAddresses[i] \in Addresses
    /\ [i \in 1 .. Len(ServerAddresses) |-> ReadAddress(Written[i])] = ServerAddresses
<1> DEFINE n == Len(ServerAddresses)
<1>1. n \in 1 .. MaxServers /\ ServerAddresses \in [1 .. n -> Addresses]
  BY PathAssumption
<1> HIDE DEF n
<1>2. ASSUME NEW i \in 1 .. n
      PROVE  /\ Written[i].type \in {IPV4, IPV6} /\ ServerAddresses[i] \in Addresses
             /\ ReadAddress(Written[i]) = ServerAddresses[i]
  <2>1. Written[i] = WriteAddress(ServerAddresses[i])
    BY DEF Written, n
  <2>2. ServerAddresses[i] \in Addresses
    BY <1>1
  <2>3. ServerAddresses[i].type \in {IPV4, IPV6}
    BY <2>2 DEF Addresses
  <2>4. WriteAddress(ServerAddresses[i]).type \in {IPV4, IPV6}
    BY <2>3 DEF WriteAddress
  <2> QED BY <2>1, <2>2, <2>4, AddressRead
<1>3. [i \in 1 .. n |-> ReadAddress(Written[i])] = ServerAddresses
  BY <1>1, <1>2
<1> QED BY <1>1, <1>2, <1>3 DEF n

\* A private part is read as the token it was written from.
LEMMA TokenRead ==
    ASSUME NEW k \in Tokens
    PROVE  ReadToken(WriteToken(Token(k))) = Token(k)
<1> DEFINE n == Len(ServerAddresses)
           f == WriteToken(Token(k))
<1>1. f = [number |-> k, timeout |-> 5, num_servers |-> n, servers |-> Written]
  BY DEF WriteToken, Token, Written
<1> HIDE DEF f
<1>2. f.number = k /\ f.timeout = 5 /\ f.num_servers = n /\ f.servers = Written
  BY <1>1
<1>3. Acceptable(f)
  BY <1>2, WrittenFacts DEF Acceptable
<1>4. [i \in 1 .. n |-> ReadAddress(Written[i])] = ServerAddresses
  BY WrittenFacts
<1>5. ReadToken(f) = [number |-> k, timeout |-> 5,
                      servers |-> [i \in 1 .. n |-> ReadAddress(Written[i])]]
  BY <1>2, <1>3 DEF ReadToken
<1> QED BY <1>4, <1>5 DEF Token, f

\* Every public part but the one that was generated is refused.
LEMMA DamagedRefused ==
    ASSUME NEW k \in Tokens, NEW f \in GivenTokens(k)
    PROVE  f = WriteConnectToken(GeneratedToken(k)) \/ ~PublicAcceptable(f)
<1> DEFINE n == Len(ServerAddresses)
           g == WriteConnectToken(GeneratedToken(k))
<1>1. g = [version |-> TRUE, protocol |-> Protocol, create |-> 0, expire |-> TokenExpire[k],
           sequence |-> k, private_data |-> PrivateData(k), timeout |-> 5,
           num_servers |-> n, servers |-> Written]
  BY DEF WriteConnectToken, GeneratedToken, Written
<1>2. n \in Nat \ {0} /\ n \in 1 .. MaxServers /\ MaxServers \in Nat
  BY WrittenFacts, TokenAssumption
<1>3. f \in {g, [g EXCEPT !.version = FALSE], [g EXCEPT !.create = g.expire + 1],
             [g EXCEPT !.num_servers = 0], [g EXCEPT !.num_servers = MaxServers + 1],
             [g EXCEPT !.servers[1].type = 0]}
  BY DEF GivenTokens
<1> HIDE DEF g, n
<1>4. CASE f = g
  BY <1>4 DEF g
<1>5. CASE f = [g EXCEPT !.version = FALSE]
  BY <1>1, <1>5 DEF PublicAcceptable
<1>6. CASE f = [g EXCEPT !.create = g.expire + 1]
  <2>1. f.create = g.expire + 1 /\ f.expire = g.expire /\ g.expire = TokenExpire[k]
    BY <1>1, <1>6
  <2>2. TokenExpire[k] \in Nat
    BY PathAssumption DEF Tokens
  <2>3. ~(f.create <= f.expire)
    BY <2>1, <2>2
  <2> QED BY <2>3 DEF PublicAcceptable
<1>7. CASE f = [g EXCEPT !.num_servers = 0]
  <2>1. f.num_servers = 0
    BY <1>1, <1>7
  <2> QED BY <2>1 DEF PublicAcceptable, Acceptable
<1>8. CASE f = [g EXCEPT !.num_servers = MaxServers + 1]
  <2>1. f.num_servers = MaxServers + 1
    BY <1>1, <1>8
  <2> QED BY <1>2, <2>1 DEF PublicAcceptable, Acceptable
<1>9. CASE f = [g EXCEPT !.servers[1].type = 0]
  <2>1. f.num_servers = n /\ f.servers[1].type = 0 /\ 1 \in 1 .. n
    <3>1. 1 \in 1 .. n /\ g.servers = Written /\ DOMAIN Written = 1 .. n
      BY <1>1, <1>2 DEF Written, n
    <3>2. Written[1] = WriteAddress(ServerAddresses[1])
      BY <3>1 DEF Written, n
    <3>3. f.servers = [Written EXCEPT ![1] = [Written[1] EXCEPT !.type = 0]] /\ f.num_servers = n
      BY <1>1, <1>9
    <3>4. f.servers[1] = [Written[1] EXCEPT !.type = 0]
      BY <3>1, <3>3
    <3> QED BY <3>1, <3>2, <3>3, <3>4 DEF WriteAddress
  <2> QED BY <2>1 DEF PublicAcceptable, Acceptable, IPV4, IPV6
<1> QED BY <1>3, <1>4, <1>5, <1>6, <1>7, <1>8, <1>9

\* The generated public part, and what is read from it.
LEMMA PublicPart ==
    ASSUME NEW k \in Tokens
    PROVE  LET g == WriteConnectToken(GeneratedToken(k))
           IN  /\ g = [version |-> TRUE, protocol |-> Protocol, create |-> 0,
                       expire |-> TokenExpire[k], sequence |-> k,
                       private_data |-> PrivateData(k), timeout |-> 5,
                       num_servers |-> Len(ServerAddresses), servers |-> Written]
               /\ PublicAcceptable(g) /\ ReadConnectToken(g) = GeneratedToken(k)
<1> DEFINE n == Len(ServerAddresses)
           g == WriteConnectToken(GeneratedToken(k))
<1>1. g = [version |-> TRUE, protocol |-> Protocol, create |-> 0, expire |-> TokenExpire[k],
           sequence |-> k, private_data |-> PrivateData(k), timeout |-> 5,
           num_servers |-> n, servers |-> Written]
  BY DEF WriteConnectToken, GeneratedToken, Written
<1>2. TokenExpire[k] \in Nat
  BY PathAssumption DEF Tokens
<1> HIDE DEF g
<1>3. PublicAcceptable(g)
  <2>1. g.version /\ g.num_servers = n /\ g.servers = Written /\ g.create <= g.expire
    BY <1>1, <1>2
  <2> QED BY <2>1, WrittenFacts DEF PublicAcceptable, Acceptable
<1>4. [i \in 1 .. n |-> ReadAddress(Written[i])] = ServerAddresses
  BY WrittenFacts
<1>5. ReadConnectToken(g) =
        [protocol |-> Protocol, create |-> 0, expire |-> TokenExpire[k], sequence |-> k,
         private_data |-> PrivateData(k), timeout |-> 5,
         servers |-> [i \in 1 .. n |-> ReadAddress(Written[i])]]
  BY <1>1, <1>3 DEF ReadConnectToken
<1> QED BY <1>1, <1>3, <1>4, <1>5 DEF GeneratedToken, g

\* A public part is read as it was written, or not at all.
LEMMA ConnectTokenRead ==
    ASSUME NEW k \in Tokens, NEW f \in GivenTokens(k)
    PROVE  ReadConnectToken(f) = Unreadable \/ ReadConnectToken(f) = GeneratedToken(k)
<1>1. CASE f = WriteConnectToken(GeneratedToken(k))
  BY <1>1, PublicPart
<1>2. CASE ~PublicAcceptable(f)
  BY <1>2 DEF ReadConnectToken
<1> QED BY <1>1, <1>2, DamagedRefused

-----------------------------------------------------------------------------
(* The replay window.                                                      *)

LEMMA NewWindowTyped == NewWindow \in Windows
<1>1. Empty \in Nat
  BY PowerFacts
<1> QED BY <1>1 DEF NewWindow, Windows

LEMMA RecordedTyped ==
    ASSUME NEW w \in Windows, NEW s \in Nat
    PROVE  Recorded(w, s) \in Windows
<1>1. w.most_recent \in Nat /\ w.received \in [0 .. BufferSize - 1 -> Nat]
  BY DEF Windows
<1>2. CASE s >= HighBit \/ TooOld(w, s)
  BY <1>2 DEF Recorded
<1>3. CASE ~(s >= HighBit \/ TooOld(w, s))
  <2> DEFINE m == IF s > w.most_recent THEN s ELSE w.most_recent
             f == IF SlotTaken(w, s) THEN w.received ELSE [w.received EXCEPT ![s % BufferSize] = s]
  <2>1. Recorded(w, s) = [most_recent |-> m, received |-> f]
    BY <1>3 DEF Recorded
  <2>2. m \in Nat /\ f \in [0 .. BufferSize - 1 -> Nat]
    BY <1>1
  <2> HIDE DEF m, f
  <2> QED BY <2>1, <2>2 DEF Windows
<1> QED BY <1>2, <1>3

\* What was received stays received, whatever is recorded.
LEMMA RecordedKeeps ==
    ASSUME NEW w \in Windows, NEW s \in Nat, NEW x \in Nat, AlreadyReceived(w, x)
    PROVE  AlreadyReceived(Recorded(w, s), x)
<1>1. w.most_recent \in Nat /\ w.received \in [0 .. BufferSize - 1 -> Nat] /\ BufferSize \in Nat \ {0}
  BY PacketAssumption DEF Windows
<1>2. CASE s >= HighBit \/ TooOld(w, s)
  BY <1>2 DEF Recorded
<1>3. CASE ~(s >= HighBit \/ TooOld(w, s))
  <2> DEFINE m == IF s > w.most_recent THEN s ELSE w.most_recent
             f == IF SlotTaken(w, s) THEN w.received ELSE [w.received EXCEPT ![s % BufferSize] = s]
             v == Recorded(w, s)
             i == x % BufferSize
             j == s % BufferSize
  <2>1. v = [most_recent |-> m, received |-> f]
    BY <1>3 DEF Recorded
  <2>2. HighBit \in Nat /\ Empty \in Nat /\ HighBit <= Empty
    BY PowerFacts
  <2>3. x < HighBit /\ s < HighBit /\ s # Empty
    BY <1>3, <2>2 DEF AlreadyReceived
  <2>4. i \in 0 .. BufferSize - 1 /\ j \in 0 .. BufferSize - 1
    BY <1>1
  <2>5. m \in Nat /\ m >= w.most_recent
    BY <1>1
  <2>6. v.most_recent = m /\ v.received = f
    BY <2>1
  <2>7. CASE TooOld(w, x)
    <3>1. x + BufferSize <= m
      BY <1>1, <2>5, <2>7 DEF TooOld
    <3>2. TooOld(v, x)
      BY <2>6, <3>1 DEF TooOld
    <3> QED BY <2>3, <3>2 DEF AlreadyReceived
  <2>8. CASE SlotTaken(w, x)
    <3>1. w.received[i] # Empty /\ w.received[i] >= x /\ w.received[i] \in Nat
      BY <1>1, <2>4, <2>8 DEF SlotTaken
    <3>2. f[i] # Empty /\ f[i] >= x
      <4>1. CASE SlotTaken(w, s) \/ i # j
        BY <1>1, <2>4, <3>1, <4>1
      <4>2. CASE ~SlotTaken(w, s) /\ i = j
        <5>1. ~(w.received[i] >= s)
          BY <3>1, <4>2 DEF SlotTaken
        <5>2. f[i] = s
          BY <1>1, <2>4, <4>2
        <5> HIDE DEF i, f
        <5> QED BY <2>3, <3>1, <5>1, <5>2
      <4> QED BY <4>1, <4>2
    <3>3. SlotTaken(v, x)
      <4> HIDE DEF f, v
      <4> QED BY <2>6, <3>2 DEF SlotTaken
    <3> QED BY <2>3, <3>3 DEF AlreadyReceived
  <2> QED BY <2>7, <2>8 DEF AlreadyReceived
<1> QED BY <1>2, <1>3

\* A number that was recorded is refused from then on.
LEMMA RecordedTakes ==
    ASSUME NEW w \in Windows, NEW s \in Nat, s < HighBit
    PROVE  AlreadyReceived(Recorded(w, s), s)
<1>1. w.most_recent \in Nat /\ w.received \in [0 .. BufferSize - 1 -> Nat] /\ BufferSize \in Nat \ {0}
  BY PacketAssumption DEF Windows
<1>2. HighBit \in Nat /\ Empty \in Nat /\ HighBit <= Empty
  BY PowerFacts
<1>3. CASE AlreadyReceived(w, s)
  BY <1>3, RecordedKeeps
<1>4. CASE ~AlreadyReceived(w, s)
  <2> DEFINE m == IF s > w.most_recent THEN s ELSE w.most_recent
             j == s % BufferSize
             f == [w.received EXCEPT ![j] = s]
             v == Recorded(w, s)
  <2>1. ~TooOld(w, s) /\ ~SlotTaken(w, s) /\ ~(s >= HighBit)
    BY <1>2, <1>4 DEF AlreadyReceived
  <2>2. v = [most_recent |-> m, received |-> f]
    BY <2>1 DEF Recorded
  <2>3. j \in 0 .. BufferSize - 1
    BY <1>1
  <2>4. f[j] = s
    BY <1>1, <2>3
  <2> HIDE DEF f, v
  <2>5. v.received = f /\ s # Empty /\ s >= s
    BY <1>2, <2>2
  <2>6. SlotTaken(v, s)
    BY <2>4, <2>5 DEF SlotTaken
  <2> QED BY <2>6 DEF AlreadyReceived, v
<1> QED BY <1>3, <1>4

-----------------------------------------------------------------------------
(* The invariant: types, and who owns which block.                         *)

\* What is on its way when the messages S were sent, and what the queue holds.
Carried(S) == Requests \cup {Reply(m) : m \in S \cap Messages}

Received ==
    [block : Blocks, server : 0 .. Len(ServerAddresses), token : 0 .. Len(TokenExpire),
     sequence : 0 .. MaxSends]

Clients ==
    [token : 0 .. Len(TokenExpire),
     connect_token : {Unreadable} \cup {GeneratedToken(k) : k \in Tokens},
     server : 0 .. Len(ServerAddresses), connected : BOOLEAN,
     key : {ZeroKey} \cup Tokens, window : Windows]

NetworkInv ==
    /\ sim \in Sims(Carried(sent))
    /\ held \in Seq(EntriesWith(Carried(sent)))

\* The client has its token and the token's key exactly while it has a server.
ClientInv ==
    /\ client \in Clients
    /\ client.server # 0 => /\ client.token \in Tokens /\ client.key = client.token
                            /\ client.connect_token = GeneratedToken(client.token)
    /\ client.server = 0 => client.key = ZeroKey

QueueInv ==
    /\ queue \in Rings(Received) /\ \A i \in 1 .. queue.num : Waiting(queue)[i] \in Received
    /\ app \in SUBSET Received /\ IsFiniteSet(app)

CountInv ==
    /\ sends \in 0 .. MaxSends
    /\ sequence \in [Servers -> [Tokens -> Nat]]
    /\ \A s \in Servers, k \in Tokens : sequence[s][k] <= sends

Apart(E, P, H, Q, A) ==
    /\ E \cap P = {} /\ E \cap H = {} /\ E \cap Q = {} /\ E \cap A = {}
    /\ P \cap H = {} /\ P \cap Q = {} /\ P \cap A = {}
    /\ H \cap Q = {} /\ H \cap A = {}
    /\ Q \cap A = {}

BlocksIn(q) == {Waiting(q)[i].block : i \in 1 .. q.num}
DistinctIn(q) == \A i, j \in 1 .. q.num : Waiting(q)[i].block = Waiting(q)[j].block => i = j

MemoryInv ==
    /\ heap \in SUBSET Blocks /\ IsFiniteSet(heap) /\ Cardinality(heap) <= 2 * sends
    /\ Distinct(sim.entries) /\ Distinct(sim.pending) /\ Distinct(held) /\ DistinctIn(queue)
    /\ \A x, y \in app : x.block = y.block => x = y
    /\ Apart(Owned(sim.entries), Owned(sim.pending), Owned(held), BlocksIn(queue), BlocksOf(app))
    /\ Owned(sim.entries) \subseteq heap /\ Owned(sim.pending) \subseteq heap
    /\ Owned(held) \subseteq heap /\ BlocksIn(queue) \subseteq heap /\ BlocksOf(app) \subseteq heap

Inv == NetworkInv /\ ClientInv /\ QueueInv /\ CountInv /\ MemoryInv

LEMMA CarriedFacts ==
    ASSUME NEW S
    PROVE  NoEntry \notin EntriesWith(Carried(S))
<1>1. Carried(S) \subseteq {Reply(m) : m \in Messages} \cup Requests
  BY DEF Carried
<1>2. EntriesWith(Carried(S)) \subseteq Entries
  <2> DEFINE X == Carried(S)
             Y == {Reply(m) : m \in Messages} \cup Requests
  <2>1. X \subseteq Y /\ Entries = EntriesWith(Y)
    BY <1>1 DEF Entries
  <2> HIDE DEF X, Y
  <2>2. EntriesWith(X) \subseteq EntriesWith(Y)
    BY <2>1 DEF EntriesWith
  <2> QED BY <2>1, <2>2 DEF X
<1> QED BY <1>2, PathAssumption

\* More was sent: what was on its way still is.
LEMMA CarriedGrows ==
    ASSUME NEW S, NEW T, S \subseteq T
    PROVE  /\ Sims(Carried(S)) \subseteq Sims(Carried(T))
           /\ Seq(EntriesWith(Carried(S))) \subseteq Seq(EntriesWith(Carried(T)))
<1> DEFINE X == Carried(S)
           Y == Carried(T)
           E == EntriesWith(X)
           F == EntriesWith(Y)
<1>1. X \subseteq Y
  BY DEF Carried
<1> HIDE DEF X, Y
<1>2. E \subseteq F
  BY <1>1 DEF EntriesWith
<1> HIDE DEF E, F
<1>3. /\ [EntryIndices -> E \cup {NoEntry}] \subseteq [EntryIndices -> F \cup {NoEntry}]
      /\ Seq(E \cup {NoEntry}) \subseteq Seq(F \cup {NoEntry})
      /\ Seq(E) \subseteq Seq(F)
  BY <1>2
<1>4. Sims(X) = [time : Nat, current : EntryIndices, entries : [EntryIndices -> E \cup {NoEntry}],
                 pending : Seq(E \cup {NoEntry})]
      /\ Sims(Y) = [time : Nat, current : EntryIndices, entries : [EntryIndices -> F \cup {NoEntry}],
                 pending : Seq(F \cup {NoEntry})]
  BY DEF Sims, E, F
<1>5. Sims(X) \subseteq Sims(Y)
  <2> DEFINE A == [EntryIndices -> E \cup {NoEntry}]
             B == [EntryIndices -> F \cup {NoEntry}]
             C == Seq(E \cup {NoEntry})
             D == Seq(F \cup {NoEntry})
  <2>1. A \subseteq B /\ C \subseteq D
    BY <1>3
  <2>2. /\ Sims(X) = [time : Nat, current : EntryIndices, entries : A, pending : C]
        /\ Sims(Y) = [time : Nat, current : EntryIndices, entries : B, pending : D]
    BY <1>4
  <2> HIDE DEF A, B, C, D
  <2> QED BY <2>1, <2>2
<1> QED BY <1>3, <1>5 DEF X, Y, E, F

LEMMA TransmitFacts ==
    ASSUME NEW P, NoEntry \notin EntriesWith(P), NEW packet \in P, NEW rest,
           Fits(P, sim, heap, rest), Cardinality(heap) + 1 < 2 * MaxSends, Transmit(packet)
    PROVE  /\ Fits(P, sim', heap', rest) /\ sim'.pending = sim.pending
           /\ Cardinality(heap') <= Cardinality(heap) + 2
<1>1. Cardinality(heap) \in Nat /\ MaxSends \in Nat
  BY FS_CardinalityType, PathAssumption DEF Fits
<1>2. CASE UNCHANGED <<sim, heap>>
  BY <1>1, <1>2
<1>3. ASSUME NEW delay \in Delays, sim' = SendOne(sim, heap, packet, delay).sim,
             heap' = SendOne(sim, heap, packet, delay).heap
      PROVE  /\ Fits(P, sim', heap', rest) /\ sim'.pending = sim.pending
             /\ Cardinality(heap') <= Cardinality(heap) + 2
  <2>1. delay \in Nat /\ Cardinality(heap) < 2 * MaxSends
    BY <1>1, PathAssumption
  <2>2. /\ Fits(P, sim', heap', rest) /\ sim'.pending = sim.pending
        /\ Cardinality(heap') <= Cardinality(heap) + 1
    BY <1>3, <2>1, SendOneFacts
  <2>3. Cardinality(heap') \in Nat
    BY <2>2, FS_CardinalityType DEF Fits
  <2> QED BY <1>1, <2>2, <2>3
<1>4. ASSUME NEW delay \in Delays, NEW more \in MoreDelays,
             sim' = SendTwice(sim, heap, packet, delay, more).sim,
             heap' = SendTwice(sim, heap, packet, delay, more).heap
      PROVE  /\ Fits(P, sim', heap', rest) /\ sim'.pending = sim.pending
             /\ Cardinality(heap') <= Cardinality(heap) + 2
  <2>1. delay \in Nat /\ more \in Nat
    BY PathAssumption
  <2> QED BY <1>4, <2>1, SendTwiceFacts
<1> QED BY <1>2, <1>3, <1>4, Zenon DEF Transmit

LEMMA NewQueueFacts ==
    ASSUME NEW X
    PROVE  /\ NewQueue \in Rings(X) /\ NewQueue.num = 0
           /\ BlocksIn(NewQueue) = {} /\ DistinctIn(NewQueue)
<1>1. QueueSize \in Nat \ {0}
  BY QueueSizeAssumption
<1>2. NewQueue \in Rings(X) /\ NewQueue.num = 0
  BY <1>1 DEF NewQueue, Rings, Slots
<1> QED BY <1>2 DEF BlocksIn, DistinctIn

LEMMA NewSimulatorFacts ==
    ASSUME NEW P, NEW t \in Nat
    PROVE  LET s == [NewSimulator EXCEPT !.time = t]
           IN  /\ s \in Sims(P) /\ Distinct(s.entries) /\ Distinct(s.pending)
               /\ Owned(s.entries) = {} /\ Owned(s.pending) = {}
<1> DEFINE s == [NewSimulator EXCEPT !.time = t]
           f == [i \in EntryIndices |-> NoEntry]
           nil == <<>>
<1>1. 0 \in EntryIndices /\ f \in [EntryIndices -> EntriesWith(P) \cup {NoEntry}]
  BY SimulatorAssumption DEF EntryIndices
<1>2. nil \in Seq(EntriesWith(P) \cup {NoEntry}) /\ DOMAIN nil = {}
  OBVIOUS
<1>3. s \in [time : {t}, current : {0}, entries : {f}, pending : {nil}]
  BY DEF NewSimulator
<1>4. \A i \in DOMAIN f : f[i] = NoEntry
  OBVIOUS
<1> HIDE DEF s, f, nil
<1>5. s \in Sims(P) /\ s.entries = f /\ s.pending = nil
  BY <1>1, <1>2, <1>3 DEF Sims
<1>6. Distinct(f) /\ Owned(f) = {}
  BY <1>4 DEF Distinct, Owned
<1>7. Distinct(nil) /\ Owned(nil) = {}
  BY <1>2 DEF Distinct, Owned
<1> QED BY <1>5, <1>6, <1>7 DEF s

LEMMA DisconnectedTyped ==
    ASSUME NEW k \in 0 .. Len(TokenExpire)
    PROVE  /\ [Disconnected EXCEPT !.token = k] \in Clients
           /\ [Disconnected EXCEPT !.token = k].token = k
           /\ [Disconnected EXCEPT !.token = k].server = 0
           /\ [Disconnected EXCEPT !.token = k].key = ZeroKey
           /\ [Disconnected EXCEPT !.token = k].connected = FALSE
<1>1. NewWindow \in Windows /\ Len(ServerAddresses) \in Nat
  BY NewWindowTyped, PathAssumption
<1>2. 0 \in 0 .. Len(ServerAddresses)
  BY <1>1
<1> QED BY <1>1, <1>2 DEF Disconnected, Clients

LEMMA InitInv == Init => Inv
<1> SUFFICES ASSUME Init PROVE Inv
  OBVIOUS
<1> DEFINE nil == <<>>
<1>1. /\ sim = NewSimulator /\ heap = {} /\ held = nil /\ client = Disconnected
      /\ queue = NewQueue /\ app = {} /\ sends = 0 /\ sent = {}
      /\ sequence = [s \in Servers |-> [k \in Tokens |-> 0]]
  BY DEF Init
<1>2. nil \in Seq(EntriesWith(Carried(sent))) /\ DOMAIN nil = {}
  OBVIOUS
<1> HIDE DEF nil
<1>3. Owned(nil) = {} /\ Distinct(nil)
  BY <1>2 DEF Owned, Distinct
<1>4. /\ sim \in Sims(Carried(sent)) /\ Distinct(sim.entries) /\ Distinct(sim.pending)
      /\ Owned(sim.entries) = {} /\ Owned(sim.pending) = {}
  <2>1. NewSimulator = [NewSimulator EXCEPT !.time = 0]
    BY DEF NewSimulator
  <2>2. 0 \in Nat
    OBVIOUS
  <2> QED BY <1>1, <2>1, <2>2, NewSimulatorFacts
<1>5. NetworkInv
  BY <1>1, <1>2, <1>4 DEF NetworkInv
<1>6. ClientInv
  <2>1. 0 \in 0 .. Len(TokenExpire)
    BY PathAssumption
  <2>2. NewWindow \in Windows /\ 0 \in 0 .. Len(ServerAddresses)
    BY NewWindowTyped, PathAssumption
  <2>3. client \in Clients /\ client.server = 0 /\ client.key = ZeroKey
    BY <1>1, <2>1, <2>2 DEF Disconnected, Clients
  <2> QED BY <2>3 DEF ClientInv
<1>7. QueueInv
  <2>1. IsFiniteSet({})
    BY FS_EmptySet
  <2> QED BY <1>1, <2>1, NewQueueFacts DEF QueueInv
<1>8. CountInv
  BY <1>1, PathAssumption DEF CountInv
<1>9. MemoryInv
  <2>1. IsFiniteSet({}) /\ Cardinality({}) = 0
    BY FS_EmptySet
  <2>2. BlocksIn(queue) = {} /\ DistinctIn(queue)
    BY <1>1, NewQueueFacts
  <2>3. BlocksOf(app) = {} /\ Owned(held) = {} /\ Distinct(held)
    BY <1>1, <1>3 DEF BlocksOf
  <2> QED BY <1>1, <1>4, <2>1, <2>2, <2>3 DEF MemoryInv, Apart
<1> QED BY <1>5, <1>6, <1>7, <1>8, <1>9 DEF Inv

\* Blocks are freed.
LEMMA HeapShrinks ==
    ASSUME Inv, heap' \subseteq heap, sends' = sends
    PROVE  heap' \in SUBSET Blocks /\ IsFiniteSet(heap') /\ Cardinality(heap') <= 2 * sends'
<1>1. heap \in SUBSET Blocks /\ IsFiniteSet(heap) /\ Cardinality(heap) <= 2 * sends
  BY DEF Inv, MemoryInv
<1>2. IsFiniteSet(heap') /\ Cardinality(heap') <= Cardinality(heap)
  BY <1>1, FS_Subset
<1>3. Cardinality(heap') \in Nat /\ Cardinality(heap) \in Nat /\ sends \in Nat
  BY <1>1, <1>2, FS_CardinalityType, PathAssumption DEF Inv, CountInv
<1> QED BY <1>1, <1>2, <1>3

\* The network moves packets on, or forgets them.
LEMMA UpdateInv == ASSUME Inv, NEW time \in 0 .. MaxTime, Update(time) PROVE Inv'
<1> DEFINE P == Carried(sent)
<1>1. /\ sim' = Updated(sim, time) /\ heap' = heap \ Owned(sim.pending)
      /\ UNCHANGED <<held, client, queue, app, sequence, sends, sent>>
  BY DEF Update, HeapAfterUpdate
<1>2. NoEntry \notin EntriesWith(P) /\ sim \in Sims(P) /\ time \in Nat /\ Distinct(sim.entries)
  BY CarriedFacts, PathAssumption DEF Inv, NetworkInv, MemoryInv
<1> HIDE DEF P
<1>3. /\ sim' \in Sims(P) /\ Distinct(sim'.entries) /\ Distinct(sim'.pending)
      /\ Owned(sim'.entries) \subseteq Owned(sim.entries)
      /\ Owned(sim'.pending) \subseteq Owned(sim.entries)
      /\ Owned(sim'.pending) \cap Owned(sim'.entries) = {}
  BY <1>1, <1>2, UpdateFacts
<1>4. NetworkInv' /\ ClientInv' /\ QueueInv' /\ CountInv'
  BY <1>1, <1>3 DEF Inv, NetworkInv, ClientInv, QueueInv, CountInv, P
<1>5. MemoryInv'
  <2>1. heap' \in SUBSET Blocks /\ IsFiniteSet(heap') /\ Cardinality(heap') <= 2 * sends'
    BY <1>1, HeapShrinks
  <2> QED BY <1>1, <1>3, <2>1 DEF Inv, MemoryInv, Apart
<1> QED BY <1>4, <1>5 DEF Inv

LEMMA ResetNetworkInv == ASSUME Inv, ResetNetwork PROVE Inv'
<1> DEFINE P == Carried(sent)
<1>1. /\ sim' = [NewSimulator EXCEPT !.time = sim.time]
      /\ heap' = heap \ (Owned(sim.entries) \cup Owned(sim.pending))
      /\ UNCHANGED <<held, client, queue, app, sequence, sends, sent>>
  BY DEF ResetNetwork, HeapAfterReset, ResetSimulator
<1>2. sim.time \in Nat
  BY DEF Inv, NetworkInv, Sims
<1>3. /\ sim' \in Sims(P) /\ Distinct(sim'.entries) /\ Distinct(sim'.pending)
      /\ Owned(sim'.entries) = {} /\ Owned(sim'.pending) = {}
  BY <1>1, <1>2, NewSimulatorFacts
<1> HIDE DEF P
<1>4. NetworkInv' /\ ClientInv' /\ QueueInv' /\ CountInv'
  BY <1>1, <1>3 DEF Inv, NetworkInv, ClientInv, QueueInv, CountInv, P
<1>5. MemoryInv'
  <2>1. heap' \in SUBSET Blocks /\ IsFiniteSet(heap') /\ Cardinality(heap') <= 2 * sends'
    BY <1>1, HeapShrinks
  <2> QED BY <1>1, <1>3, <2>1 DEF Inv, MemoryInv, Apart
<1> QED BY <1>4, <1>5 DEF Inv

\* A packet is sent.
LEMMA TransmitInv ==
    ASSUME Inv, NEW packet, packet \in Carried(sent'), sent \subseteq sent', Transmit(packet),
           sends < MaxSends, sends' = sends + 1, UNCHANGED <<held, queue, app>>
    PROVE  NetworkInv' /\ MemoryInv'
<1> DEFINE P == Carried(sent')
           rest == Owned(sim.pending) \cup Owned(held) \cup BlocksIn(queue) \cup BlocksOf(app)
<1>1. NoEntry \notin EntriesWith(P) /\ packet \in P
  BY CarriedFacts
<1>2. sim \in Sims(P) /\ held \in Seq(EntriesWith(P))
  BY CarriedGrows DEF Inv, NetworkInv
<1>3. /\ heap \in SUBSET Blocks /\ IsFiniteSet(heap) /\ Cardinality(heap) <= 2 * sends
      /\ Cardinality(heap) \in Nat /\ sends \in Nat /\ MaxSends \in Nat
  BY FS_CardinalityType, PathAssumption DEF Inv, MemoryInv, CountInv
<1>4. Cardinality(heap) + 1 < 2 * MaxSends
  BY <1>3
<1>5. Fits(P, sim, heap, rest)
  BY <1>2, <1>3 DEF Fits, Inv, MemoryInv, Apart
<1> HIDE DEF P, rest
<1>6. /\ Fits(P, sim', heap', rest) /\ sim'.pending = sim.pending
      /\ Cardinality(heap') <= Cardinality(heap) + 2
  BY <1>1, <1>4, <1>5, TransmitFacts
<1>7. /\ sim' \in Sims(P) /\ Distinct(sim'.entries) /\ heap' \in SUBSET Blocks /\ IsFiniteSet(heap')
      /\ Owned(sim'.entries) \subseteq heap' /\ rest \subseteq heap' /\ Owned(sim'.entries) \cap rest = {}
  BY <1>6 DEF Fits
<1>8. NetworkInv'
  BY <1>2, <1>7 DEF NetworkInv, P
<1>9. Cardinality(heap') <= 2 * sends'
  <2>1. Cardinality(heap') \in Nat
    BY <1>7, FS_CardinalityType
  <2> QED BY <1>3, <1>6, <2>1
<1>10. MemoryInv'
  <2>1. UNCHANGED <<held, queue, app>> /\ sim'.pending = sim.pending
    BY <1>6
  <2>2. /\ Distinct(sim.pending) /\ Distinct(held) /\ DistinctIn(queue)
        /\ \A x, y \in app : x.block = y.block => x = y
        /\ Apart(Owned(sim.entries), Owned(sim.pending), Owned(held), BlocksIn(queue), BlocksOf(app))
    BY DEF Inv, MemoryInv
  <2> QED BY <1>7, <1>9, <2>1, <2>2 DEF MemoryInv, Apart, rest
<1> QED BY <1>8, <1>10

LEMMA ServerSendsInv ==
    ASSUME Inv, NEW s \in Servers, NEW k \in Tokens, NEW type \in SentTypes, ServerSends(s, k, type)
    PROVE  Inv'
<1> DEFINE m == [server |-> s, token |-> k, type |-> type, sequence |-> sequence[s][k]]
<1>1. /\ sends < MaxSends /\ sends' = sends + 1 /\ sent' = sent \cup {m} /\ Transmit(Reply(m))
      /\ sequence' = [sequence EXCEPT ![s][k] = @ + 1]
      /\ UNCHANGED <<held, client, queue, app>>
  BY DEF ServerSends
<1>2. /\ sends \in Nat /\ MaxSends \in Nat /\ sequence \in [Servers -> [Tokens -> Nat]]
      /\ \A t \in Servers, l \in Tokens : sequence[t][l] <= sends
  BY PathAssumption DEF Inv, CountInv
<1>3. m \in Messages
  BY <1>1, <1>2 DEF Messages
<1> HIDE DEF m
<1>4. Reply(m) \in Carried(sent') /\ sent \subseteq sent'
  BY <1>1, <1>3 DEF Carried
<1>5. NetworkInv' /\ MemoryInv'
  BY <1>1, <1>4, TransmitInv
<1>6. ClientInv' /\ QueueInv'
  BY <1>1 DEF Inv, ClientInv, QueueInv
<1>7. CountInv'
  <2>1. sends' \in 0 .. MaxSends
    BY <1>1, <1>2
  <2>2. sequence' \in [Servers -> [Tokens -> Nat]]
    BY <1>1, <1>2
  <2>3. ASSUME NEW t \in Servers, NEW l \in Tokens PROVE sequence'[t][l] <= sends'
    <3>1. sequence'[t][l] = IF t = s /\ l = k THEN sequence[t][l] + 1 ELSE sequence[t][l]
      BY <1>1, <1>2
    <3>2. sequence[t][l] \in Nat /\ sequence[t][l] <= sends
      BY <1>2
    <3> QED BY <1>1, <1>2, <3>1, <3>2
  <2> QED BY <2>1, <2>2, <2>3 DEF CountInv
<1> QED BY <1>5, <1>6, <1>7 DEF Inv

LEMMA SendRequestInv == ASSUME Inv, SendRequest PROVE Inv'
<1> DEFINE k == client.token
           s == client.server
           packet == Request(client.connect_token, ServerAddress)
<1>1. /\ sends < MaxSends /\ sends' = sends + 1 /\ Transmit(packet) /\ s # 0
      /\ UNCHANGED <<held, client, queue, app, sequence, sent>>
  BY DEF SendRequest
<1>2. k \in Tokens /\ client.connect_token = GeneratedToken(k) /\ s \in Servers
  BY <1>1, PathAssumption DEF Inv, ClientInv, Clients, Servers
<1>3. packet = Request(GeneratedToken(k), ServerAddresses[s])
  BY <1>2 DEF ServerAddress, GeneratedToken
<1> HIDE DEF k, s, packet
<1>4. packet \in Carried(sent') /\ sent \subseteq sent'
  BY <1>1, <1>2, <1>3 DEF Carried, Requests
<1>5. NetworkInv' /\ MemoryInv'
  BY <1>1, <1>4, TransmitInv
<1>6. ClientInv' /\ QueueInv'
  BY <1>1 DEF Inv, ClientInv, QueueInv
<1>7. CountInv'
  <2>1. /\ sends \in Nat /\ MaxSends \in Nat /\ sequence \in [Servers -> [Tokens -> Nat]]
        /\ \A t \in Servers, l \in Tokens : sequence[t][l] <= sends
    BY PathAssumption DEF Inv, CountInv
  <2>2. \A t \in Servers, l \in Tokens : sequence[t][l] <= sends'
    BY <1>1, <2>1
  <2> QED BY <1>1, <2>1, <2>2 DEF CountInv
<1> QED BY <1>5, <1>6, <1>7 DEF Inv

\* An end fetches packets.
LEMMA FetchInv ==
    ASSUME Inv, NEW to, Fetch(to)
    PROVE  Inv'
<1> DEFINE P == Carried(sent)
           m == Taken(sim, to, MaxReceive)
<1>1. /\ held = <<>> /\ held' = Chosen(sim.pending, m) /\ sim' = AfterReceive(sim, m)
      /\ UNCHANGED <<heap, client, queue, app, sequence, sends, sent>>
  BY DEF Fetch, Idle, Chosen
<1>2. NoEntry \notin EntriesWith(P) /\ sim \in Sims(P) /\ Distinct(sim.pending)
  BY CarriedFacts DEF Inv, NetworkInv, MemoryInv
<1>3. m \in SUBSET DOMAIN sim.pending /\ Filled(sim.pending, m)
  BY DEF Taken, Addressed, Filled
<1> HIDE DEF P, m
<1>4. /\ sim' \in Sims(P) /\ sim'.entries = sim.entries /\ held' \in Seq(EntriesWith(P))
      /\ Distinct(sim'.pending) /\ Distinct(held')
      /\ Owned(sim'.pending) \subseteq Owned(sim.pending)
      /\ Owned(held') \subseteq Owned(sim.pending)
      /\ Owned(held') \cap Owned(sim'.pending) = {}
  BY <1>1, <1>2, <1>3, ReceiveFacts
<1>5. NetworkInv' /\ ClientInv' /\ QueueInv' /\ CountInv'
  BY <1>1, <1>4 DEF Inv, NetworkInv, ClientInv, QueueInv, CountInv, P
<1>6. MemoryInv'
  BY <1>1, <1>4 DEF Inv, MemoryInv, Apart
<1> QED BY <1>5, <1>6 DEF Inv

\* An end is done with a packet, the first of those it fetched.
LEMMA HeldFacts ==
    ASSUME NetworkInv, Distinct(held), ~Idle
    PROVE  /\ Head(held) \in EntriesWith(Carried(sent)) /\ Head(held) # NoEntry
           /\ Head(held).data \in Owned(held)
           /\ Tail(held) \in Seq(EntriesWith(Carried(sent)))
           /\ Distinct(Tail(held)) /\ Owned(Tail(held)) \subseteq Owned(held)
           /\ Head(held).data \notin Owned(Tail(held))
<1> DEFINE E == EntriesWith(Carried(sent))
           t == Tail(held)
           n == Len(held)
<1>1. held \in Seq(E) /\ NoEntry \notin E /\ held # <<>>
  BY CarriedFacts DEF NetworkInv, Idle
<1> HIDE DEF E
<1>2. /\ n \in Nat \ {0} /\ Head(held) = held[1] /\ DOMAIN held = 1 .. n
      /\ t \in Seq(E) /\ DOMAIN t = 1 .. n - 1
      /\ \A i \in 1 .. n - 1 : t[i] = held[i + 1] /\ i + 1 \in 1 .. n
      /\ \A i \in 1 .. n : held[i] \in E /\ held[i] # NoEntry
  BY <1>1
<1> HIDE DEF t, n
<1>3. Head(held) \in E /\ Head(held) # NoEntry /\ Head(held).data \in Owned(held)
  BY <1>2 DEF Owned
<1>4. Distinct(t)
  <2> SUFFICES ASSUME NEW i \in 1 .. n - 1, NEW j \in 1 .. n - 1, t[i].data = t[j].data
               PROVE  i = j
    BY <1>2 DEF Distinct
  <2>1. i + 1 = j + 1
    BY <1>2 DEF Distinct
  <2> QED BY <1>2, <2>1
<1>5. ASSUME NEW x \in Owned(t) PROVE x \in Owned(held) /\ x # Head(held).data
  <2>1. PICK i \in 1 .. n - 1 : x = t[i].data
    BY <1>2 DEF Owned
  <2> DEFINE j == i + 1
  <2>2. j \in 1 .. n /\ j # 1 /\ x = held[j].data /\ 1 \in 1 .. n
    BY <1>2, <2>1
  <2> HIDE DEF j
  <2>3. x \in Owned(held)
    BY <1>2, <2>2 DEF Owned
  <2>4. held[j].data # held[1].data
    BY <1>2, <2>2 DEF Distinct
  <2> QED BY <1>2, <2>2, <2>3, <2>4
<1> QED BY <1>2, <1>3, <1>4, <1>5 DEF E, t

LEMMA ServerProcessesInv ==
    ASSUME Inv, NEW d, ServerProcesses(d), ~Idle
    PROVE  Inv'
<1>1. /\ held' = Tail(held) /\ heap' = heap \ {Head(held).data}
      /\ UNCHANGED <<sim, client, queue, app, sequence, sends, sent>>
  BY DEF ServerProcesses
<1>2. /\ Head(held).data \in Owned(held)
      /\ held' \in Seq(EntriesWith(Carried(sent)))
      /\ Distinct(held') /\ Owned(held') \subseteq Owned(held)
      /\ Head(held).data \notin Owned(held')
  BY <1>1, HeldFacts DEF Inv, MemoryInv
<1>3. NetworkInv' /\ ClientInv' /\ QueueInv' /\ CountInv'
  BY <1>1, <1>2 DEF Inv, NetworkInv, ClientInv, QueueInv, CountInv
<1>4. MemoryInv'
  <2>1. heap' \in SUBSET Blocks /\ IsFiniteSet(heap') /\ Cardinality(heap') <= 2 * sends'
    BY <1>1, HeapShrinks
  <2> QED BY <1>1, <1>2, <2>1 DEF Inv, MemoryInv, Apart
<1> QED BY <1>3, <1>4 DEF Inv

\* The packets in the queue, with their blocks.
Holds(q) ==
    q \in Rings(Received) /\ (\A i \in 1 .. q.num : Waiting(q)[i] \in Received) /\ DistinctIn(q)

LEMMA PushBlocks ==
    ASSUME NEW q, Holds(q), ~Full(q), NEW x \in Received, x.block \notin BlocksIn(q)
    PROVE  Holds(Pushed(q, x)) /\ BlocksIn(Pushed(q, x)) = BlocksIn(q) \cup {x.block}
<1> DEFINE r == Pushed(q, x)
           n == q.num
<1>1. /\ r \in Rings(Received) /\ r.num = n + 1 /\ n \in Nat
      /\ \A i \in 1 .. n : Waiting(r)[i] = Waiting(q)[i]
      /\ Waiting(r)[n + 1] = x
  BY PushFacts DEF Holds
<1> HIDE DEF r
<1>2. /\ \A i \in 1 .. n : Waiting(q)[i] \in Received
      /\ \A i, j \in 1 .. n : Waiting(q)[i].block = Waiting(q)[j].block => i = j
      /\ \A i \in 1 .. n : Waiting(q)[i].block # x.block
  BY DEF Holds, DistinctIn, BlocksIn
<1> HIDE DEF n
<1>3. \A i \in 1 .. r.num : i = n + 1 \/ i \in 1 .. n
  BY <1>1
<1>4. \A i \in 1 .. r.num : Waiting(r)[i] \in Received
  BY <1>1, <1>2, <1>3
<1>5. DistinctIn(r)
  BY <1>1, <1>2, <1>3 DEF DistinctIn
<1>6. BlocksIn(r) = BlocksIn(q) \cup {x.block}
  <2>1. ASSUME NEW y \in BlocksIn(r) PROVE y \in BlocksIn(q) \cup {x.block}
    <3>1. PICK i \in 1 .. r.num : y = Waiting(r)[i].block
      BY DEF BlocksIn
    <3> QED BY <1>1, <1>3, <3>1 DEF BlocksIn, n
  <2>2. ASSUME NEW y \in BlocksIn(q) PROVE y \in BlocksIn(r)
    <3>1. PICK i \in 1 .. n : y = Waiting(q)[i].block
      BY DEF BlocksIn, n
    <3>2. i \in 1 .. r.num
      BY <1>1
    <3> QED BY <1>1, <3>1, <3>2 DEF BlocksIn
  <2>3. x.block \in BlocksIn(r)
    <3>1. n + 1 \in 1 .. r.num
      BY <1>1
    <3> QED BY <1>1, <3>1 DEF BlocksIn
  <2> QED BY <2>1, <2>2, <2>3
<1> QED BY <1>1, <1>4, <1>5, <1>6 DEF Holds, r

LEMMA PopBlocks ==
    ASSUME NEW q, Holds(q), q.num > 0
    PROVE  /\ Holds(Popped(q)) /\ First(q) \in Received /\ First(q).block \in BlocksIn(q)
           /\ BlocksIn(Popped(q)) \subseteq BlocksIn(q) /\ First(q).block \notin BlocksIn(Popped(q))
<1> DEFINE r == Popped(q)
           n == q.num
<1>1. /\ r \in Rings(Received) /\ r.num = n - 1 /\ n \in Nat \ {0}
      /\ \A i \in 1 .. n - 1 : Waiting(r)[i] = Waiting(q)[i + 1]
      /\ First(q) = Waiting(q)[1]
  BY PopFacts DEF Holds
<1> HIDE DEF r
<1>2. /\ \A i \in 1 .. n : Waiting(q)[i] \in Received
      /\ \A i, j \in 1 .. n : Waiting(q)[i].block = Waiting(q)[j].block => i = j
  BY DEF Holds, DistinctIn
<1>3. BlocksIn(q) = {Waiting(q)[i].block : i \in 1 .. n}
  BY DEF BlocksIn
<1> HIDE DEF n
<1>4. 1 \in 1 .. n /\ \A i \in 1 .. r.num : i \in 1 .. n - 1 /\ i + 1 \in 1 .. n /\ i + 1 # 1
  BY <1>1
<1>5. First(q) \in Received /\ First(q).block \in BlocksIn(q)
  BY <1>1, <1>2, <1>3, <1>4
<1>6. ASSUME NEW i \in 1 .. r.num
      PROVE  \E j \in 1 .. n : j = i + 1 /\ j # 1 /\ Waiting(r)[i] = Waiting(q)[j]
  BY <1>1, <1>4
<1>7. \A i \in 1 .. r.num : Waiting(r)[i] \in Received
  BY <1>2, <1>6
<1>8. DistinctIn(r)
  <2> SUFFICES ASSUME NEW i \in 1 .. r.num, NEW j \in 1 .. r.num,
                      Waiting(r)[i].block = Waiting(r)[j].block
               PROVE  i = j
    BY DEF DistinctIn
  <2>1. PICK u \in 1 .. n : u = i + 1 /\ Waiting(r)[i] = Waiting(q)[u]
    BY <1>6
  <2>2. PICK v \in 1 .. n : v = j + 1 /\ Waiting(r)[j] = Waiting(q)[v]
    BY <1>6
  <2>3. u = v
    BY <1>2, <2>1, <2>2
  <2> QED BY <1>1, <2>1, <2>2, <2>3
<1>9. ASSUME NEW y \in BlocksIn(r) PROVE y \in BlocksIn(q) /\ y # First(q).block
  <2>1. PICK i \in 1 .. r.num : y = Waiting(r)[i].block
    BY DEF BlocksIn
  <2>2. PICK u \in 1 .. n : u # 1 /\ Waiting(r)[i] = Waiting(q)[u]
    BY <1>6
  <2>3. y # Waiting(q)[1].block
    BY <1>2, <1>4, <2>1, <2>2
  <2> QED BY <1>1, <1>3, <2>1, <2>2, <2>3
<1> QED BY <1>1, <1>5, <1>7, <1>8, <1>9 DEF Holds, r

LEMMA InboxBlocks == BlocksOf(Inbox) = BlocksIn(queue)
  BY DEF BlocksOf, Inbox, BlocksIn

\* The application takes a packet and frees it.
LEMMA ReceivePacketInv == ASSUME Inv, ReceivePacket PROVE Inv'
<1> DEFINE x == First(queue)
<1>1. /\ queue.num > 0 /\ queue' = Popped(queue) /\ app' = app \cup {x}
      /\ UNCHANGED <<sim, heap, held, client, sequence, sends, sent>>
  BY DEF ReceivePacket
<1>2. Holds(queue)
  BY DEF Inv, QueueInv, MemoryInv, Holds
<1>3. /\ Holds(queue') /\ x \in Received /\ x.block \in BlocksIn(queue)
      /\ BlocksIn(queue') \subseteq BlocksIn(queue) /\ x.block \notin BlocksIn(queue')
  BY <1>1, <1>2, PopBlocks
<1> HIDE DEF x
<1>4. NetworkInv' /\ ClientInv' /\ CountInv'
  BY <1>1 DEF Inv, NetworkInv, ClientInv, CountInv
<1>5. QueueInv'
  <2>1. app' \in SUBSET Received /\ IsFiniteSet(app')
    BY <1>1, <1>3, FS_AddElement DEF Inv, QueueInv
  <2> QED BY <1>3, <2>1 DEF QueueInv, Holds
<1>6. MemoryInv'
  <2>1. BlocksOf(app') = BlocksOf(app) \cup {x.block}
    BY <1>1 DEF BlocksOf
  <2>2. x.block \notin BlocksOf(app)
    BY <1>3 DEF Inv, MemoryInv, Apart
  <2>3. ASSUME NEW y \in app', NEW z \in app', y.block = z.block PROVE y = z
    <3>1. \A v \in app : v.block # x.block
      BY <2>2 DEF BlocksOf
    <3> QED BY <1>1, <2>3, <3>1 DEF Inv, MemoryInv
  <2>4. /\ Apart(Owned(sim.entries), Owned(sim.pending), Owned(held), BlocksIn(queue'), BlocksOf(app'))
        /\ BlocksIn(queue') \subseteq heap /\ BlocksOf(app') \subseteq heap
    BY <1>3, <2>1 DEF Inv, MemoryInv, Apart
  <2>5. DistinctIn(queue')
    BY <1>3 DEF Holds
  <2> QED BY <1>1, <2>3, <2>4, <2>5 DEF Inv, MemoryInv
<1> QED BY <1>4, <1>5, <1>6 DEF Inv

LEMMA FreePacketInv == ASSUME Inv, NEW x \in app, FreePacket(x) PROVE Inv'
<1>1. /\ app' = app \ {x} /\ heap' = heap \ {x.block}
      /\ UNCHANGED <<sim, held, client, queue, sequence, sends, sent>>
  BY DEF FreePacket
<1>2. NetworkInv' /\ ClientInv' /\ CountInv'
  BY <1>1 DEF Inv, NetworkInv, ClientInv, CountInv
<1>3. QueueInv'
  <2>1. IsFiniteSet(app')
    BY <1>1, FS_Subset DEF Inv, QueueInv
  <2> QED BY <1>1, <2>1 DEF Inv, QueueInv
<1>4. MemoryInv'
  <2>1. heap' \in SUBSET Blocks /\ IsFiniteSet(heap') /\ Cardinality(heap') <= 2 * sends'
    BY <1>1, HeapShrinks
  <2>2. BlocksOf(app') \subseteq BlocksOf(app) /\ x.block \in BlocksOf(app) /\ x.block \notin BlocksOf(app')
    BY <1>1 DEF BlocksOf, Inv, MemoryInv
  <2>3. \A y, z \in app' : y.block = z.block => y = z
    BY <1>1 DEF Inv, MemoryInv
  <2>4. /\ Apart(Owned(sim.entries), Owned(sim.pending), Owned(held), BlocksIn(queue), BlocksOf(app'))
        /\ Owned(sim.entries) \subseteq heap' /\ Owned(sim.pending) \subseteq heap'
        /\ Owned(held) \subseteq heap' /\ BlocksIn(queue) \subseteq heap'
        /\ BlocksOf(app') \subseteq heap'
    BY <1>1, <2>2 DEF Inv, MemoryInv, Apart
  <2>5. Distinct(sim.entries) /\ Distinct(sim.pending) /\ Distinct(held) /\ DistinctIn(queue)
    BY DEF Inv, MemoryInv
  <2> QED BY <1>1, <2>1, <2>3, <2>4, <2>5 DEF MemoryInv
<1> QED BY <1>2, <1>3, <1>4 DEF Inv

\* The client connects and disconnects.
LEMMA DisconnectInv == ASSUME Inv, Disconnect PROVE Inv'
<1>1. /\ client' = [Disconnected EXCEPT !.token = client.token] /\ queue' = NewQueue
      /\ heap' = heap \ BlocksOf(DrainFrees(queue))
      /\ UNCHANGED <<sim, held, app, sequence, sends, sent>>
  BY DEF Disconnect
<1>2. BlocksOf(DrainFrees(queue)) = BlocksIn(queue)
  BY DEF BlocksOf, DrainFrees, BlocksIn
<1>3. NetworkInv' /\ CountInv'
  BY <1>1 DEF Inv, NetworkInv, CountInv
<1>4. ClientInv'
  <2>1. client.token \in 0 .. Len(TokenExpire)
    BY DEF Inv, ClientInv, Clients
  <2>2. client' \in Clients /\ client'.server = 0 /\ client'.key = ZeroKey
    BY <1>1, <2>1, DisconnectedTyped
  <2> QED BY <2>2 DEF ClientInv
<1>5. /\ queue' \in Rings(Received) /\ queue'.num = 0 /\ BlocksIn(queue') = {} /\ DistinctIn(queue')
  BY <1>1, NewQueueFacts
<1>6. QueueInv'
  BY <1>1, <1>5 DEF Inv, QueueInv
<1>7. MemoryInv'
  <2>1. heap' \in SUBSET Blocks /\ IsFiniteSet(heap') /\ Cardinality(heap') <= 2 * sends'
    BY <1>1, HeapShrinks
  <2>2. /\ Apart(Owned(sim.entries), Owned(sim.pending), Owned(held), BlocksIn(queue'), BlocksOf(app))
        /\ Owned(sim.entries) \subseteq heap' /\ Owned(sim.pending) \subseteq heap'
        /\ Owned(held) \subseteq heap' /\ BlocksIn(queue') \subseteq heap'
        /\ BlocksOf(app) \subseteq heap'
    BY <1>1, <1>2, <1>5 DEF Inv, MemoryInv, Apart
  <2> QED BY <1>1, <1>5, <2>1, <2>2 DEF Inv, MemoryInv
<1> QED BY <1>3, <1>4, <1>6, <1>7 DEF Inv

\* Only the client changes.
LEMMA ClientOnlyInv ==
    ASSUME Inv, ClientInv', UNCHANGED <<sim, heap, held, queue, app, sequence, sends, sent>>
    PROVE  Inv'
<1>1. NetworkInv' /\ CountInv' /\ QueueInv'
  BY DEF Inv, NetworkInv, CountInv, QueueInv
<1>2. MemoryInv'
  BY DEF Inv, MemoryInv
<1> QED BY <1>1, <1>2 DEF Inv

LEMMA ConnectLoopbackInv == ASSUME Inv, ConnectLoopback PROVE Inv'
<1>1. /\ client' = [client EXCEPT !.connected = TRUE]
      /\ UNCHANGED <<sim, heap, held, queue, app, sequence, sends, sent>>
  BY DEF ConnectLoopback
<1>2. ClientInv'
  BY <1>1 DEF Inv, ClientInv, Clients
<1> QED BY <1>1, <1>2, ClientOnlyInv

LEMMA ConnectInv == ASSUME Inv, Connect PROVE Inv'
<1> DEFINE k == client.token + 1
<1>1. /\ k \in Tokens
      /\ UNCHANGED <<sim, heap, held, queue, app, sequence, sends, sent>>
  BY DEF Connect
<1>2. PICK f \in GivenTokens(k) :
        client' = IF ReadConnectToken(f) = Unreadable
                  THEN [Disconnected EXCEPT !.token = client.token]
                  ELSE [Disconnected EXCEPT !.token = k, !.server = 1,
                                            !.connect_token = ReadConnectToken(f), !.key = k]
  BY DEF Connect
<1>3. client.token \in 0 .. Len(TokenExpire) /\ k \in 0 .. Len(TokenExpire)
      /\ 1 \in 0 .. Len(ServerAddresses) /\ NewWindow \in Windows
  BY <1>1, PathAssumption, NewWindowTyped DEF Inv, ClientInv, Clients, Tokens
<1> HIDE DEF k
<1>4. ClientInv'
  <2>1. CASE ReadConnectToken(f) = Unreadable
    <3>1. client' = [Disconnected EXCEPT !.token = client.token]
      BY <1>2, <2>1
    <3>2. client' \in Clients /\ client'.server = 0 /\ client'.key = ZeroKey
      BY <1>3, <3>1, DisconnectedTyped
    <3> QED BY <3>2 DEF ClientInv
  <2>2. CASE ReadConnectToken(f) # Unreadable
    <3>1. ReadConnectToken(f) = GeneratedToken(k)
      BY <1>1, <2>2, ConnectTokenRead
    <3>2. client' = [Disconnected EXCEPT !.token = k, !.server = 1,
                                         !.connect_token = GeneratedToken(k), !.key = k]
      BY <1>2, <2>2, <3>1
    <3>3. client' \in Clients /\ client'.server = 1 /\ client'.token = k /\ client'.key = k
          /\ client'.connect_token = GeneratedToken(k)
      BY <1>1, <1>3, <3>2 DEF Disconnected, Clients
    <3> QED BY <1>1, <3>3 DEF ClientInv
  <2> QED BY <2>1, <2>2
<1> QED BY <1>1, <1>4, ClientOnlyInv

LEMMA ConnectToNextServerInv == ASSUME Inv, ConnectToNextServer PROVE Inv'
<1>1. /\ client.server # 0 /\ client.server + 1 <= Len(client.connect_token.servers)
      /\ client' = [client EXCEPT !.server = @ + 1, !.connected = FALSE, !.window = NewWindow]
      /\ UNCHANGED <<sim, heap, held, queue, app, sequence, sends, sent>>
  BY DEF ConnectToNextServer
<1>2. /\ client \in Clients /\ client.token \in Tokens /\ client.key = client.token
      /\ client.connect_token = GeneratedToken(client.token)
  BY <1>1 DEF Inv, ClientInv
<1>3. client.connect_token.servers = ServerAddresses
  BY <1>2 DEF GeneratedToken
<1>4. /\ client.server + 1 \in 0 .. Len(ServerAddresses) /\ client.server + 1 # 0
      /\ NewWindow \in Windows
  BY <1>1, <1>2, <1>3, NewWindowTyped, PathAssumption DEF Clients
<1>5. ClientInv'
  <2>1. client' \in Clients
    BY <1>1, <1>2, <1>4 DEF Clients
  <2>2. client'.server = client.server + 1 /\ client'.token = client.token
        /\ client'.key = client.key /\ client'.connect_token = client.connect_token
    BY <1>1, <1>2 DEF Clients
  <2> QED BY <1>2, <1>4, <2>1, <2>2 DEF ClientInv
<1> QED BY <1>1, <1>5, ClientOnlyInv

\* A block is allocated for a packet that enters the queue, and h is what stays
\* of the heap.
LEMMA QueuedMemory ==
    ASSUME Inv, NEW h \in SUBSET heap, NEW x \in Received, x.block = Allocate(heap), ~Full(queue),
           queue' = Pushed(queue, x), heap' = h \cup {x.block}, UNCHANGED <<sim, app>>,
           Distinct(held'), Owned(held') \subseteq Owned(held), Owned(held') \subseteq h,
           heap \ Owned(held) \subseteq h,
           Cardinality(h) + 1 <= 2 * sends'
    PROVE  MemoryInv' /\ QueueInv'
<1>1. /\ heap \in SUBSET Blocks /\ IsFiniteSet(heap) /\ Cardinality(heap) <= 2 * sends
      /\ sends \in Nat /\ sends <= MaxSends /\ MaxSends \in Nat
  BY PathAssumption DEF Inv, MemoryInv, CountInv
<1>2. Cardinality(heap) <= 2 * MaxSends
  <2>1. Cardinality(heap) \in Nat
    BY <1>1, FS_CardinalityType
  <2> QED BY <1>1, <2>1
<1>3. x.block \in Blocks /\ x.block \notin heap
  BY <1>1, <1>2, MemoryLeft, AllocateFacts
<1>4. Holds(queue) /\ x.block \notin BlocksIn(queue)
  BY <1>3 DEF Inv, QueueInv, MemoryInv, Holds
<1>5. Holds(queue') /\ BlocksIn(queue') = BlocksIn(queue) \cup {x.block}
  BY <1>4, PushBlocks
<1>6. QueueInv'
  BY <1>5 DEF Inv, QueueInv, Holds
<1>7. IsFiniteSet(heap') /\ Cardinality(heap') <= 2 * sends' /\ heap' \in SUBSET Blocks
  <2>1. IsFiniteSet(h)
    BY <1>1, FS_Subset
  <2>2. IsFiniteSet(h \cup {x.block}) /\ Cardinality(h \cup {x.block}) = Cardinality(h) + 1
    <3>1. x.block \notin h
      BY <1>3
    <3> QED BY <2>1, <3>1, FS_AddElement
  <2> QED BY <1>1, <1>3, <2>2
<1>8. /\ Apart(Owned(sim.entries), Owned(sim.pending), Owned(held'), BlocksIn(queue'), BlocksOf(app))
      /\ Owned(sim.entries) \subseteq heap' /\ Owned(sim.pending) \subseteq heap'
      /\ Owned(held') \subseteq heap' /\ BlocksIn(queue') \subseteq heap'
      /\ BlocksOf(app) \subseteq heap'
  <2>1. /\ Apart(Owned(sim.entries), Owned(sim.pending), Owned(held), BlocksIn(queue), BlocksOf(app))
        /\ Owned(sim.entries) \subseteq heap /\ Owned(sim.pending) \subseteq heap
        /\ Owned(held) \subseteq heap /\ BlocksIn(queue) \subseteq heap /\ BlocksOf(app) \subseteq heap
    BY DEF Inv, MemoryInv
  <2> QED BY <1>3, <1>5, <2>1 DEF Apart
<1>9. /\ Distinct(sim.entries) /\ Distinct(sim.pending) /\ DistinctIn(queue')
      /\ \A y, z \in app : y.block = z.block => y = z
  BY <1>5 DEF Inv, MemoryInv, Holds
<1>10. MemoryInv'
  BY <1>7, <1>8, <1>9 DEF MemoryInv
<1> QED BY <1>6, <1>10

LEMMA ProcessLoopbackPacketInv == ASSUME Inv, ProcessLoopbackPacket PROVE Inv'
<1> DEFINE block == Allocate(heap)
           x == [block |-> block, server |-> Local, token |-> Local, sequence |-> sends]
<1>1. /\ sends < MaxSends /\ sends' = sends + 1 /\ sent \subseteq sent'
      /\ queue' = IF Full(queue) THEN queue ELSE Pushed(queue, x)
      /\ heap' = IF Full(queue) THEN heap ELSE heap \cup {block}
      /\ UNCHANGED <<sim, held, client, app, sequence>>
  BY DEF ProcessLoopbackPacket
<1>2. NetworkInv'
  BY <1>1, CarriedGrows DEF Inv, NetworkInv
<1>3. /\ ClientInv'
  BY <1>1 DEF Inv, ClientInv
<1>4. sends \in Nat /\ MaxSends \in Nat /\ IsFiniteSet(heap) /\ heap \in SUBSET Blocks
      /\ Cardinality(heap) <= 2 * sends /\ Cardinality(heap) \in Nat
  BY PathAssumption, FS_CardinalityType DEF Inv, CountInv, MemoryInv
<1>5. CountInv'
  <2>1. /\ sequence \in [Servers -> [Tokens -> Nat]]
        /\ \A s \in Servers, k \in Tokens : sequence[s][k] <= sends
    BY DEF Inv, CountInv
  <2>2. \A s \in Servers, k \in Tokens : sequence[s][k] <= sends'
    BY <1>1, <1>4, <2>1
  <2> QED BY <1>1, <1>4, <2>1, <2>2 DEF CountInv
<1>6. CASE Full(queue)
  <2>1. Cardinality(heap) <= 2 * sends'
    BY <1>1, <1>4
  <2>2. MemoryInv' /\ QueueInv'
    BY <1>1, <1>6, <2>1 DEF Inv, MemoryInv, QueueInv
  <2> QED BY <1>2, <1>3, <1>5, <2>2 DEF Inv
<1>7. CASE ~Full(queue)
  <2>1. x \in Received /\ x.block = block
    <3>1. block \in Blocks
      <4>1. Cardinality(heap) <= 2 * MaxSends
        BY <1>1, <1>4
      <4> QED BY <1>4, <4>1, MemoryLeft, AllocateFacts
    <3>2. 0 \in 0 .. Len(ServerAddresses) /\ 0 \in 0 .. Len(TokenExpire) /\ sends \in 0 .. MaxSends
      BY <1>1, <1>4, PathAssumption
    <3> HIDE DEF block
    <3> QED BY <3>1, <3>2 DEF Received, Local
  <2>2. queue' = Pushed(queue, x) /\ heap' = heap \cup {x.block}
    BY <1>1, <1>7
  <2>3. Distinct(held') /\ Owned(held') \subseteq Owned(held) /\ Owned(held') \subseteq heap
    BY <1>1 DEF Inv, MemoryInv
  <2>4. Cardinality(heap) + 1 <= 2 * sends'
    BY <1>1, <1>4
  <2> HIDE DEF x
  <2>5. MemoryInv' /\ QueueInv'
    BY <1>1, <1>7, <2>1, <2>2, <2>3, <2>4, QueuedMemory
  <2> QED BY <1>2, <1>3, <1>5, <2>5 DEF Inv
<1> QED BY <1>6, <1>7

\* What the client fetched came from a server.
LEMMA ClientHead ==
    ASSUME NetworkInv, ~Idle, Head(held) \in EntriesWith(Carried(sent)),
           Head(held).packet.to = ClientAddress, NEW d \in Arriving
    PROVE  \E m \in sent \cap Messages :
             /\ Head(held).packet.from = ServerAddresses[m.server]
             /\ Head(held).packet = Reply(m)
             /\ d \in Arrivals(Reply(m).datagram)
<1> DEFINE e == Head(held)
<1>1. e.packet \in Carried(sent)
  BY DEF EntriesWith
<1>2. e.packet \notin Requests
  <2> SUFFICES ASSUME e.packet \in Requests PROVE FALSE
    OBVIOUS
  <2>1. PICK k \in Tokens, s \in Servers : e.packet = Request(GeneratedToken(k), ServerAddresses[s])
    BY DEF Requests
  <2>2. e.packet.to = ServerAddresses[s]
    BY <2>1 DEF Request
  <2>3. ServerAddresses[s] \in Addresses
    BY PathAssumption DEF Servers
  <2> QED BY <2>2, <2>3, PathAssumption
<1>3. PICK m \in sent \cap Messages : e.packet = Reply(m)
  BY <1>1, <1>2 DEF Carried
<1>4. d \in Arrivals(e.packet.datagram)
  BY DEF Arriving, Arrivals
<1>5. e.packet.from = ServerAddresses[m.server]
  BY <1>3 DEF Reply
<1> QED BY <1>3, <1>4, <1>5

\* A packet that the client takes is one that was sent to it with its key.
LEMMA ClientTakes ==
    ASSUME NEW m \in Messages, ClientInv, NEW d \in Arrivals(Reply(m).datagram),
           ReadPacket(d, ClientReader) # NoPacket
    PROVE  /\ ReadPacket(d, ClientReader).type = m.type
           /\ ReadPacket(d, ClientReader).sequence = m.sequence
           /\ ReadPacket(d, ClientReader).body.from = m.server
           /\ client.token = m.token /\ client.server # 0
           /\ ReplayChecked(m.type) =>
                /\ ~AlreadyReceived(client.window, m.sequence)
                /\ WindowAfter(d, ClientReader) = Recorded(client.window, m.sequence)
<1> DEFINE r == ClientReader
<1>1. /\ REQUEST \notin r.allowed /\ r.key = client.key /\ r.window = client.window
  BY DEF ClientReader, REQUEST, DENIED, CHALLENGE, KEEP_ALIVE, PAYLOAD, DISCONNECT
<1>2. client.window # NoPacket
  BY PacketAssumption DEF ClientInv, Clients
<1> HIDE DEF r
<1>3. /\ ReadPacket(d, r) = [type |-> m.type, sequence |-> m.sequence, body |-> Body(m.type, m.server)]
      /\ r.key = m.token
      /\ d.prefix.type = m.type /\ ReadSequence(d.sequence) = m.sequence
      /\ ~IsRequest(d) /\ Plausible(d, r) /\ ~Refused(d, r)
  BY <1>1, ReplyRead DEF r
<1>4. client.server # 0 /\ client.token = m.token
  <2>1. m.token \in Tokens /\ ZeroKey \notin Tokens
    BY PathAssumption DEF Messages
  <2> QED BY <1>1, <1>3, <2>1 DEF ClientInv
<1>5. ReplayChecked(m.type) =>
        /\ ~AlreadyReceived(client.window, m.sequence)
        /\ WindowAfter(d, r) = Recorded(client.window, m.sequence)
  BY <1>1, <1>2, <1>3 DEF Refused, WindowAfter
<1>6. Body(m.type, m.server).from = m.server
  BY DEF Body
<1> QED BY <1>3, <1>4, <1>5, <1>6 DEF r

\* The window after a packet of a server, taken or not.
LEMMA WindowFacts ==
    ASSUME NEW m \in Messages, NEW d \in Arrivals(Reply(m).datagram), NEW r, r.window \in Windows
    PROVE  /\ WindowAfter(d, r) \in Windows
           /\ \A x \in Nat : AlreadyReceived(r.window, x) => AlreadyReceived(WindowAfter(d, r), x)
<1> DEFINE s == ReadSequence(d.sequence)
<1>1. s \in Nat
  BY ReplyArrives
<1>2. WindowAfter(d, r) = Recorded(r.window, s) \/ WindowAfter(d, r) = r.window
  BY DEF WindowAfter
<1> HIDE DEF s
<1> QED BY <1>1, <1>2, RecordedTyped, RecordedKeeps

LEMMA ClientProcessesInv ==
    ASSUME Inv, NEW d \in Arriving, ClientProcesses(d), ~Idle
    PROVE  Inv'
<1> DEFINE p == ReadPacket(d, ClientReader)
           from == Head(held).packet.from
           block == Allocate(heap)
           x == [block |-> block, server |-> p.body.from, token |-> client.token,
                 sequence |-> p.sequence]
           kept == p # NoPacket /\ Queues(p, from) /\ ~Full(queue)
           h == heap \ {Head(held).data}
           joins == p # NoPacket /\ p.type = KEEP_ALIVE /\ FromServer(from)
<1>1. /\ Head(held).packet.to = ClientAddress /\ held' = Tail(held)
      /\ heap' = h \cup (IF kept THEN {block} ELSE {})
      /\ queue' = IF kept THEN Pushed(queue, x) ELSE queue
      /\ client' = [client EXCEPT !.window = WindowAfter(d, ClientReader),
                                  !.connected = @ \/ joins]
      /\ UNCHANGED <<sim, app, sequence, sends, sent>>
  BY DEF ClientProcesses
<1>2. /\ Head(held) \in EntriesWith(Carried(sent)) /\ Head(held).data \in Owned(held)
      /\ held' \in Seq(EntriesWith(Carried(sent)))
      /\ Distinct(held') /\ Owned(held') \subseteq Owned(held)
      /\ Head(held).data \notin Owned(held')
  BY <1>1, HeldFacts DEF Inv, MemoryInv
<1>3. PICK m \in sent \cap Messages : d \in Arrivals(Reply(m).datagram)
  BY <1>1, <1>2, ClientHead DEF Inv
<1>4. NetworkInv' /\ CountInv'
  BY <1>1, <1>2 DEF Inv, NetworkInv, CountInv
<1>5. ClientInv'
  <2>1. client \in Clients
    BY DEF Inv, ClientInv
  <2>2. WindowAfter(d, ClientReader) \in Windows
    <3>1. ClientReader.window \in Windows
      BY <2>1 DEF ClientReader, Clients
    <3> QED BY <1>3, <3>1, WindowFacts
  <2> HIDE DEF joins
  <2>3. (client.connected \/ joins) \in BOOLEAN
    OBVIOUS
  <2>4. client' \in Clients
    BY <1>1, <2>1, <2>2, <2>3 DEF Clients
  <2>5. client'.server = client.server /\ client'.token = client.token
        /\ client'.key = client.key /\ client'.connect_token = client.connect_token
    BY <1>1, <2>1 DEF Clients
  <2> QED BY <2>4, <2>5 DEF Inv, ClientInv
<1>6. CASE ~kept
  <2>1. queue' = queue /\ heap' = h
    BY <1>1, <1>6
  <2>2. heap' \in SUBSET Blocks /\ IsFiniteSet(heap') /\ Cardinality(heap') <= 2 * sends'
    BY <1>1, <2>1, HeapShrinks
  <2>3. QueueInv'
    BY <1>1, <2>1 DEF Inv, QueueInv
  <2>4. MemoryInv'
    BY <1>1, <1>2, <2>1, <2>2 DEF Inv, MemoryInv, Apart
  <2> QED BY <1>4, <1>5, <2>3, <2>4 DEF Inv
<1>7. CASE kept
  <2>0. /\ heap \in SUBSET Blocks /\ IsFiniteSet(heap) /\ Cardinality(heap) <= 2 * sends
        /\ sends \in Nat /\ sends <= MaxSends /\ MaxSends \in Nat /\ Cardinality(heap) \in Nat
    BY PathAssumption, FS_CardinalityType DEF Inv, MemoryInv, CountInv
  <2>1. p.sequence = m.sequence /\ p.body.from = m.server
    BY <1>3, <1>7, ClientTakes DEF Inv
  <2>2. block \in Blocks
    <3>1. Cardinality(heap) <= 2 * MaxSends
      BY <2>0
    <3> QED BY <2>0, <3>1, MemoryLeft, AllocateFacts
  <2>3. x \in Received /\ x.block = block
    <3>1. m.sequence \in 0 .. MaxSends /\ m.server \in 0 .. Len(ServerAddresses)
          /\ client.token \in 0 .. Len(TokenExpire)
      BY <1>3, PathAssumption DEF Messages, Servers, Inv, ClientInv, Clients
    <3> HIDE DEF block, p
    <3> QED BY <2>1, <2>2, <3>1 DEF Received
  <2>4. queue' = Pushed(queue, x) /\ heap' = h \cup {x.block}
    BY <1>1, <1>7, <2>3
  <2>5. h \in SUBSET heap /\ Owned(held') \subseteq h /\ heap \ Owned(held) \subseteq h
    BY <1>2 DEF Inv, MemoryInv
  <2>6. Cardinality(h) + 1 <= 2 * sends'
    <3>1. Head(held).data \in heap
      BY <1>2 DEF Inv, MemoryInv
    <3>2. Cardinality(h) = Cardinality(heap) - 1
      BY <2>0, <3>1, FS_RemoveElement
    <3> QED BY <1>1, <2>0, <3>2
  <2>7. ~Full(queue) /\ x.block = Allocate(heap)
    BY <1>7, <2>3
  <2> HIDE DEF x, h
  <2>8. MemoryInv' /\ QueueInv'
    BY <1>1, <1>2, <2>3, <2>4, <2>5, <2>6, <2>7, QueuedMemory
  <2> QED BY <1>4, <1>5, <2>8 DEF Inv
<1> QED BY <1>6, <1>7

LEMMA InvNext == ASSUME Inv, [Next]_vars PROVE Inv'
<1>1. CASE Next
  <2>1. ASSUME NEW time \in 0 .. MaxTime, Update(time) PROVE Inv'
    BY <2>1, UpdateInv
  <2>2. CASE ResetNetwork
    BY <2>2, ResetNetworkInv
  <2>3. ASSUME NEW s \in Servers, NEW k \in Tokens, NEW type \in SentTypes, ServerSends(s, k, type)
        PROVE  Inv'
    BY <2>3, ServerSendsInv
  <2>4. ASSUME NEW d \in Arriving, ServerProcesses(d) \/ ClientProcesses(d) PROVE Inv'
    <3>1. ~Idle
      BY <2>4 DEF Arriving
    <3> QED BY <2>4, <3>1, ServerProcessesInv, ClientProcessesInv
  <2>5. CASE Disconnect
    BY <2>5, DisconnectInv
  <2>6. CASE Connect
    BY <2>6, ConnectInv
  <2>7. CASE ConnectToNextServer
    BY <2>7, ConnectToNextServerInv
  <2>8. CASE SendRequest
    BY <2>8, SendRequestInv
  <2>9. CASE ConnectLoopback
    BY <2>9, ConnectLoopbackInv
  <2>10. CASE ProcessLoopbackPacket
    BY <2>10, ProcessLoopbackPacketInv
  <2>11. ASSUME NEW to, Fetch(to) PROVE Inv'
    BY <2>11, FetchInv
  <2>12. CASE ReceivePacket
    BY <2>12, ReceivePacketInv
  <2>13. ASSUME NEW x \in app, FreePacket(x) PROVE Inv'
    BY <2>13, FreePacketInv
  <2> QED BY <1>1, <2>1, <2>2, <2>3, <2>4, <2>5, <2>6, <2>7, <2>8, <2>9, <2>10, <2>11,
             <2>12, <2>13 DEF Next
<1>2. CASE UNCHANGED vars
  <2>1. UNCHANGED <<sim, heap, held, client, queue, app, sequence, sends, sent>>
    BY <1>2 DEF vars
  <2>2. NetworkInv' /\ ClientInv' /\ CountInv' /\ QueueInv'
    BY <2>1 DEF Inv, NetworkInv, ClientInv, CountInv, QueueInv
  <2>3. MemoryInv'
    BY <2>1 DEF Inv, MemoryInv
  <2> QED BY <2>2, <2>3 DEF Inv
<1> QED BY <1>1, <1>2

-----------------------------------------------------------------------------
(* The theorems on memory.                                                 *)

\* The invariant: every part of the state keeps its type, the client has its
\* token and the token's key exactly while it has a server, and every block
\* allocated for a copy of a packet is owned by one of its holders at most.
THEOREM PathTypes == Spec => []Inv
<1>1. Init => Inv
  BY InitInv
<1>2. Inv /\ [Next]_vars => Inv'
  BY InvNext
<1> QED BY <1>1, <1>2, PTL DEF Spec

\* What somebody refers to has not been freed.
THEOREM NoPointerDangles == Spec => []NoDanglingPointer
<1>1. Inv => NoDanglingPointer
  BY InboxBlocks DEF Inv, MemoryInv, NoDanglingPointer, Blocked
<1> QED BY <1>1, PathTypes, PTL

\* As many blocks as entries, when no two entries share one.
LEMMA CountsBlocks ==
    ASSUME NEW f, IsFiniteSet(DOMAIN f), Distinct(f)
    PROVE  /\ IsFiniteSet(Owned(f)) /\ Cardinality(Owned(f)) = Count(f)
           /\ Cardinality(Owned(f)) \in Nat
<1> DEFINE D == {i \in DOMAIN f : f[i] # NoEntry}
           g == [i \in D |-> f[i].data]
<1>1. IsFiniteSet(D)
  BY FS_Subset
<1>2. g \in Bijection(D, Owned(f))
  <2>1. \A i, j \in D : f[i].data = f[j].data => i = j
    BY DEF Distinct
  <2>2. Owned(f) = {f[i].data : i \in D}
    BY DEF Owned
  <2> HIDE DEF D
  <2>3. g \in [D -> Owned(f)]
    BY <2>2
  <2>4. \A i, j \in D : g[i] = g[j] => i = j
    BY <2>1
  <2>5. \A y \in Owned(f) : \E i \in D : g[i] = y
    BY <2>2
  <2> HIDE DEF g
  <2> QED BY <2>3, <2>4, <2>5 DEF Bijection, Injection, Surjection, IsInjective
<1> HIDE DEF g
<1>3. ExistsBijection(D, Owned(f))
  BY <1>2 DEF ExistsBijection
<1>4. IsFiniteSet(Owned(f)) /\ Cardinality(Owned(f)) = Cardinality(D)
  <2> HIDE DEF D
  <2> QED BY <1>1, <1>3, FS_Bijection
<1> QED BY <1>4, FS_CardinalityType DEF Count, D

LEMMA CountsWaiting ==
    ASSUME NEW q, Holds(q)
    PROVE  IsFiniteSet(BlocksIn(q)) /\ Cardinality(BlocksIn(q)) = q.num /\ q.num \in Nat
<1> DEFINE D == 1 .. q.num
           g == [i \in D |-> Waiting(q)[i].block]
<1>1. q.num \in Nat
  BY QueueSizeAssumption DEF Holds, Rings
<1>2. IsFiniteSet(D) /\ Cardinality(D) = q.num
  <2> DEFINE n == q.num
  <2>1. n \in Int /\ 1 \in Int
    BY <1>1
  <2> HIDE DEF n
  <2>2. IsFiniteSet(1 .. n) /\ Cardinality(1 .. n) = IF 1 > n THEN 0 ELSE n - 1 + 1
    BY <2>1, FS_Interval
  <2> QED BY <1>1, <2>2 DEF n
<1>3. g \in Bijection(D, BlocksIn(q))
  <2>1. \A i, j \in D : Waiting(q)[i].block = Waiting(q)[j].block => i = j
    BY DEF Holds, DistinctIn
  <2>2. BlocksIn(q) = {Waiting(q)[i].block : i \in D}
    BY DEF BlocksIn
  <2> HIDE DEF D
  <2>3. g \in [D -> BlocksIn(q)]
    BY <2>2
  <2>4. \A i, j \in D : g[i] = g[j] => i = j
    BY <2>1
  <2>5. \A y \in BlocksIn(q) : \E i \in D : g[i] = y
    BY <2>2
  <2> HIDE DEF g
  <2> QED BY <2>3, <2>4, <2>5 DEF Bijection, Injection, Surjection, IsInjective
<1> HIDE DEF g, D
<1>4. ExistsBijection(D, BlocksIn(q))
  BY <1>3 DEF ExistsBijection
<1> QED BY <1>1, <1>2, <1>4, FS_Bijection

LEMMA CountsHeld ==
    ASSUME NEW A, IsFiniteSet(A), \A x, y \in A : x.block = y.block => x = y
    PROVE  IsFiniteSet(BlocksOf(A)) /\ Cardinality(BlocksOf(A)) = Cardinality(A)
           /\ Cardinality(A) \in Nat
<1> DEFINE g == [x \in A |-> x.block]
<1>1. g \in Bijection(A, BlocksOf(A))
  <2>1. g \in [A -> BlocksOf(A)]
    BY DEF BlocksOf
  <2>2. \A i, j \in A : g[i] = g[j] => i = j
    OBVIOUS
  <2>3. \A y \in BlocksOf(A) : \E i \in A : g[i] = y
    BY DEF BlocksOf
  <2> HIDE DEF g
  <2> QED BY <2>1, <2>2, <2>3 DEF Bijection, Injection, Surjection, IsInjective
<1> HIDE DEF g
<1>2. ExistsBijection(A, BlocksOf(A))
  BY <1>1 DEF ExistsBijection
<1> QED BY <1>2, FS_Bijection, FS_CardinalityType

LEMMA DisjointUnion ==
    ASSUME NEW S, NEW T, IsFiniteSet(S), IsFiniteSet(T), S \cap T = {}
    PROVE  IsFiniteSet(S \cup T) /\ Cardinality(S \cup T) = Cardinality(S) + Cardinality(T)
<1>1. IsFiniteSet(S \cup T)
      /\ Cardinality(S \cup T) = Cardinality(S) + Cardinality(T) - Cardinality(S \cap T)
  BY FS_Union
<1>2. Cardinality(S \cap T) = 0
  BY FS_EmptySet
<1>3. Cardinality(S) \in Nat /\ Cardinality(T) \in Nat
  BY FS_CardinalityType
<1> QED BY <1>1, <1>2, <1>3

\* No block has two owners.
THEOREM OneOwner == Spec => []SingleOwner
<1>1. ASSUME Inv PROVE SingleOwner
  <2> DEFINE E == Owned(sim.entries)
             P == Owned(sim.pending)
             H == Owned(held)
             Q == BlocksIn(queue)
             A == BlocksOf(app)
  <2>1. IsFiniteSet(DOMAIN sim.entries) /\ IsFiniteSet(DOMAIN sim.pending)
        /\ IsFiniteSet(DOMAIN held)
    <3>1. DOMAIN sim.entries = 0 .. NumEntries - 1 /\ NumEntries \in Nat
      BY <1>1, SimulatorAssumption DEF Inv, NetworkInv, Sims, EntryIndices
    <3>2. DOMAIN sim.pending = 1 .. Len(sim.pending) /\ Len(sim.pending) \in Nat
      BY <1>1 DEF Inv, NetworkInv, Sims
    <3>3. DOMAIN held = 1 .. Len(held) /\ Len(held) \in Nat
      BY <1>1 DEF Inv, NetworkInv
    <3>4. \A a, b \in Int : IsFiniteSet(a .. b)
      BY FS_Interval
    <3> QED BY <3>1, <3>2, <3>3, <3>4
  <2>2. IsFiniteSet(E) /\ Cardinality(E) = Count(sim.entries)
        /\ IsFiniteSet(P) /\ Cardinality(P) = Count(sim.pending)
        /\ IsFiniteSet(H) /\ Cardinality(H) = Count(held)
    BY <1>1, <2>1, CountsBlocks DEF Inv, MemoryInv
  <2>3. IsFiniteSet(Q) /\ Cardinality(Q) = queue.num
    <3>1. Holds(queue)
      BY <1>1 DEF Inv, QueueInv, MemoryInv, Holds
    <3> QED BY <3>1, CountsWaiting
  <2>4. IsFiniteSet(A) /\ Cardinality(A) = Cardinality(app)
    <3>1. IsFiniteSet(app) /\ \A x, y \in app : x.block = y.block => x = y
      BY <1>1 DEF Inv, QueueInv, MemoryInv
    <3> QED BY <3>1, CountsHeld
  <2>5. Apart(E, P, H, Q, A)
    BY <1>1 DEF Inv, MemoryInv
  <2>6. Blocked = E \cup P \cup H \cup Q \cup A
    BY InboxBlocks DEF Blocked
  <2> HIDE DEF E, P, H, Q, A
  <2>7. /\ IsFiniteSet(E \cup P) /\ Cardinality(E \cup P) = Cardinality(E) + Cardinality(P)
    BY <2>2, <2>5, DisjointUnion DEF Apart
  <2>8. /\ IsFiniteSet(E \cup P \cup H)
        /\ Cardinality(E \cup P \cup H) = Cardinality(E \cup P) + Cardinality(H)
    <3>1. (E \cup P) \cap H = {}
      BY <2>5 DEF Apart
    <3> QED BY <2>2, <2>7, <3>1, DisjointUnion
  <2>9. /\ IsFiniteSet(E \cup P \cup H \cup Q)
        /\ Cardinality(E \cup P \cup H \cup Q) = Cardinality(E \cup P \cup H) + Cardinality(Q)
    <3>1. (E \cup P \cup H) \cap Q = {}
      BY <2>5 DEF Apart
    <3> QED BY <2>3, <2>8, <3>1, DisjointUnion
  <2>10. Cardinality(E \cup P \cup H \cup Q \cup A)
           = Cardinality(E \cup P \cup H \cup Q) + Cardinality(A)
    <3>1. (E \cup P \cup H \cup Q) \cap A = {}
      BY <2>5 DEF Apart
    <3> QED BY <2>4, <2>9, <3>1, DisjointUnion
  <2> QED BY <2>2, <2>3, <2>4, <2>6, <2>7, <2>8, <2>9, <2>10 DEF SingleOwner
<1> QED BY <1>1, PathTypes, PTL

-----------------------------------------------------------------------------
(* The queue implements a bounded first-in first-out queue.                *)

FifoOf(q) == [i \in 1 .. q.num |-> Waiting(q)[i].block]

LEMMA FifoNew == FifoOf(NewQueue) = <<>>
  BY NewQueueFacts DEF FifoOf

LEMMA FifoPush ==
    ASSUME NEW q, Holds(q), ~Full(q), NEW x \in Received
    PROVE  /\ FifoOf(Pushed(q, x)) = Append(FifoOf(q), x.block)
           /\ Len(FifoOf(q)) < QueueSize /\ x.block \in Blocks
<1> DEFINE r == Pushed(q, x)
           n == q.num
           f == FifoOf(q)
           g == FifoOf(r)
<1>1. /\ r \in Rings(Received) /\ r.num = n + 1 /\ n \in Nat /\ n < QueueSize
      /\ \A i \in 1 .. n : Waiting(r)[i] = Waiting(q)[i]
      /\ Waiting(r)[n + 1] = x
  BY PushFacts DEF Holds
<1> HIDE DEF r
<1>2. \A i \in 1 .. n : Waiting(q)[i].block \in Blocks
  BY DEF Holds, Received
<1>3. f = [i \in 1 .. n |-> Waiting(q)[i].block] /\ g = [i \in 1 .. r.num |-> Waiting(r)[i].block]
  BY DEF FifoOf
<1> HIDE DEF n, f, g
<1>4. f \in Seq(Blocks) /\ Len(f) = n
  BY <1>1, <1>2, <1>3
<1>5. x.block \in Blocks
  BY DEF Received
<1> DEFINE h == Append(f, x.block)
<1>6. /\ h = [i \in 1 .. n + 1 |-> IF i = n + 1 THEN x.block ELSE f[i]]
  BY <1>1, <1>4, <1>5
<1>7. g = [i \in 1 .. n + 1 |-> IF i = n + 1 THEN x.block ELSE f[i]]
  <2>1. ASSUME NEW i \in 1 .. n + 1
        PROVE  Waiting(r)[i].block = IF i = n + 1 THEN x.block ELSE f[i]
    <3>1. i = n + 1 \/ i \in 1 .. n
      BY <1>1
    <3> QED BY <1>1, <1>3, <3>1
  <2> QED BY <1>1, <1>3, <2>1
<1>8. g = h
  BY <1>6, <1>7
<1> QED BY <1>1, <1>4, <1>5, <1>8 DEF f, g, h, r

LEMMA FifoPop ==
    ASSUME NEW q, Holds(q), q.num > 0
    PROVE  FifoOf(q) # <<>> /\ FifoOf(Popped(q)) = Tail(FifoOf(q))
<1> DEFINE r == Popped(q)
           n == q.num
           f == FifoOf(q)
           g == FifoOf(r)
<1>1. /\ r.num = n - 1 /\ n \in Nat \ {0}
      /\ \A i \in 1 .. n - 1 : Waiting(r)[i] = Waiting(q)[i + 1]
  BY PopFacts DEF Holds
<1> HIDE DEF r
<1>2. \A i \in 1 .. n : Waiting(q)[i].block \in Blocks
  BY DEF Holds, Received
<1>3. f = [i \in 1 .. n |-> Waiting(q)[i].block] /\ g = [i \in 1 .. r.num |-> Waiting(r)[i].block]
  BY DEF FifoOf
<1> HIDE DEF n, f, g
<1>4. f \in Seq(Blocks) /\ Len(f) = n
  BY <1>1, <1>2, <1>3
<1>5. f # <<>>
  BY <1>1, <1>4
<1>6. Tail(f) = [i \in 1 .. n - 1 |-> f[i + 1]]
  <2> DEFINE t == Tail(f)
  <2>1. t \in Seq(Blocks) /\ DOMAIN t = 1 .. n - 1 /\ \A i \in 1 .. n - 1 : t[i] = f[i + 1]
    BY <1>1, <1>4, <1>5
  <2> HIDE DEF t
  <2>2. t = [i \in 1 .. n - 1 |-> t[i]]
    BY <2>1
  <2>3. t = [i \in 1 .. n - 1 |-> f[i + 1]]
    BY <2>1, <2>2
  <2> QED BY <2>3 DEF t
<1>7. g = [i \in 1 .. n - 1 |-> f[i + 1]]
  <2>1. ASSUME NEW i \in 1 .. n - 1 PROVE Waiting(r)[i].block = f[i + 1]
    <3>1. i + 1 \in 1 .. n
      BY <1>1
    <3> QED BY <1>1, <1>3, <3>1
  <2>2. 1 .. r.num = 1 .. n - 1
    BY <1>1
  <2> QED BY <1>3, <2>1, <2>2
<1> QED BY <1>5, <1>6, <1>7 DEF f, g, r

LEMMA MemoryAtHand ==
    ASSUME Inv
    PROVE  Allocate(heap) \in Blocks /\ Allocate(heap) \notin heap
<1>1. /\ heap \in SUBSET Blocks /\ IsFiniteSet(heap) /\ Cardinality(heap) <= 2 * sends
      /\ sends \in Nat /\ sends <= MaxSends /\ MaxSends \in Nat
  BY PathAssumption DEF Inv, MemoryInv, CountInv
<1>2. Cardinality(heap) <= 2 * MaxSends
  <2>1. Cardinality(heap) \in Nat
    BY <1>1, FS_CardinalityType
  <2> QED BY <1>1, <2>1
<1> QED BY <1>1, <1>2, MemoryLeft, AllocateFacts

\* What a step does to the queue.
QueueStep ==
    \/ UNCHANGED queue
    \/ queue' = NewQueue
    \/ ~Full(queue) /\ \E x \in Received : queue' = Pushed(queue, x)
    \/ queue.num > 0 /\ queue' = Popped(queue)

LEMMA PushedReceived ==
    ASSUME Inv, NEW d \in Arriving, ClientProcesses(d), ~Idle, queue' # queue
    PROVE  ~Full(queue) /\ \E x \in Received : queue' = Pushed(queue, x)
<1> DEFINE p == ReadPacket(d, ClientReader)
           from == Head(held).packet.from
           x == [block |-> Allocate(heap), server |-> p.body.from, token |-> client.token,
                 sequence |-> p.sequence]
           kept == p # NoPacket /\ Queues(p, from) /\ ~Full(queue)
<1>1. /\ Head(held).packet.to = ClientAddress
      /\ queue' = IF kept THEN Pushed(queue, x) ELSE queue
  BY DEF ClientProcesses
<1>2. p # NoPacket /\ ~Full(queue) /\ queue' = Pushed(queue, x)
  BY <1>1
<1>3. PICK m \in sent \cap Messages : d \in Arrivals(Reply(m).datagram)
  BY <1>1, HeldFacts, ClientHead DEF Inv, MemoryInv
<1>4. p.sequence = m.sequence /\ p.body.from = m.server
  BY <1>2, <1>3, ClientTakes DEF Inv
<1>5. Allocate(heap) \in Blocks
  BY MemoryAtHand
<1>6. x \in Received
  <2>1. m.sequence \in 0 .. MaxSends /\ m.server \in 0 .. Len(ServerAddresses)
        /\ client.token \in 0 .. Len(TokenExpire)
    BY <1>3, PathAssumption DEF Messages, Servers, Inv, ClientInv, Clients
  <2> HIDE DEF p
  <2> QED BY <1>4, <1>5, <2>1 DEF Received
<1> HIDE DEF x
<1> QED BY <1>2, <1>6

LEMMA QueueSteps == ASSUME Inv, [Next]_vars PROVE QueueStep
<1>1. ASSUME NEW d \in Arriving, ServerProcesses(d) \/ ClientProcesses(d) PROVE QueueStep
  <2>1. ~Idle
    BY <1>1 DEF Arriving
  <2>2. CASE ServerProcesses(d)
    BY <2>2 DEF ServerProcesses, QueueStep
  <2>3. CASE ClientProcesses(d)
    BY <2>1, <2>3, PushedReceived DEF QueueStep
  <2> QED BY <1>1, <2>2, <2>3
<1>2. CASE ProcessLoopbackPacket
  <2> DEFINE x == [block |-> Allocate(heap), server |-> Local, token |-> Local, sequence |-> sends]
  <2>1. queue' = IF Full(queue) THEN queue ELSE Pushed(queue, x)
    BY <1>2 DEF ProcessLoopbackPacket
  <2>2. x \in Received
    <3>1. 0 \in 0 .. Len(ServerAddresses) /\ 0 \in 0 .. Len(TokenExpire) /\ sends \in 0 .. MaxSends
      BY PathAssumption DEF Inv, CountInv
    <3>2. Allocate(heap) \in Blocks
      BY MemoryAtHand
    <3> QED BY <3>1, <3>2 DEF Received, Local
  <2> HIDE DEF x
  <2> QED BY <2>1, <2>2 DEF QueueStep
<1>3. CASE ReceivePacket
  BY <1>3 DEF ReceivePacket, QueueStep
<1>4. CASE Disconnect
  BY <1>4 DEF Disconnect, QueueStep
<1>5. ASSUME \/ \E time \in 0 .. MaxTime : Update(time)
             \/ ResetNetwork
             \/ \E s \in Servers, k \in Tokens, type \in SentTypes : ServerSends(s, k, type)
             \/ Connect \/ ConnectToNextServer \/ SendRequest \/ ConnectLoopback
             \/ \E to \in {ClientAddress} \cup {ServerAddresses[s] : s \in Servers} : Fetch(to)
             \/ \E x \in app : FreePacket(x)
             \/ UNCHANGED vars
      PROVE  QueueStep
  <2>1. UNCHANGED queue
    BY <1>5 DEF Update, ResetNetwork, ServerSends, Connect, ConnectToNextServer, SendRequest,
                ConnectLoopback, Fetch, FreePacket, vars
  <2> QED BY <2>1 DEF QueueStep
<1> QED BY <1>1, <1>2, <1>3, <1>4, <1>5 DEF Next

\* The ring of pointers, with its wrapping index and the pointers that stay
\* behind, behaves as a bounded first-in first-out queue.
THEOREM QueueImplementsFifo == Spec => ImplementsFifo
<1>1. Init => Fifo!Init
  <2>1. Init => FifoOf(queue) = <<>>
    BY FifoNew DEF Init
  <2> QED BY <2>1 DEF Fifo!Init, FifoOf
<1>2. ASSUME Inv, [Next]_vars PROVE [Fifo!Next]_(FifoOf(queue))
  <2>1. QueueStep
    BY <1>2, QueueSteps
  <2>2. Holds(queue)
    BY <1>2 DEF Inv, QueueInv, MemoryInv, Holds
  <2>3. CASE UNCHANGED queue
    BY <2>3 DEF FifoOf
  <2>4. CASE queue' = NewQueue
    <3>1. FifoOf(queue)' = <<>>
      BY <2>4, FifoNew DEF FifoOf
    <3> QED BY <3>1 DEF Fifo!Next, Fifo!Clear, FifoOf
  <2>5. ASSUME ~Full(queue), NEW x \in Received, queue' = Pushed(queue, x)
        PROVE  [Fifo!Next]_(FifoOf(queue))
    <3>1. FifoOf(queue)' = FifoOf(queue')
      BY DEF FifoOf, Waiting
    <3>2. /\ FifoOf(queue)' = Append(FifoOf(queue), x.block)
          /\ Len(FifoOf(queue)) < QueueSize /\ x.block \in Blocks
      BY <2>2, <2>5, <3>1, FifoPush
    <3>3. Fifo!Push
      BY <3>2, Zenon DEF Fifo!Push, FifoOf
    <3> QED BY <3>3 DEF Fifo!Next
  <2>6. CASE queue.num > 0 /\ queue' = Popped(queue)
    <3>1. FifoOf(queue)' = FifoOf(queue')
      BY DEF FifoOf, Waiting
    <3>2. FifoOf(queue) # <<>> /\ FifoOf(queue)' = Tail(FifoOf(queue))
      BY <2>2, <2>6, <3>1, FifoPop
    <3>3. Fifo!Pop
      BY <3>2, Zenon DEF Fifo!Pop, FifoOf
    <3> QED BY <3>3 DEF Fifo!Next
  <2> QED BY <2>1, <2>3, <2>4, <2>5, <2>6 DEF QueueStep
<1>3. Inv /\ [Next]_vars => [Fifo!Next]_([i \in 1 .. queue.num |-> Waiting(queue)[i].block])
  BY <1>2 DEF FifoOf
<1> QED BY <1>1, <1>3, PathTypes, PTL DEF Spec, ImplementsFifo, Fifo!Spec

-----------------------------------------------------------------------------
(* What a server reads in a request.                                       *)

LEMMA ServerHead ==
    ASSUME NetworkInv, ~Idle, Head(held) \in EntriesWith(Carried(sent)),
           Head(held).packet.to # ClientAddress, NEW d \in Arriving
    PROVE  \E k \in Tokens, s \in Servers :
             /\ Head(held).packet = Request(GeneratedToken(k), ServerAddresses[s])
             /\ d \in Arrivals(Request(GeneratedToken(k), ServerAddresses[s]).datagram)
<1> DEFINE e == Head(held)
<1>1. e.packet \in Carried(sent)
  BY DEF EntriesWith
<1>2. e.packet \in Requests
  <2>1. \A m \in Messages : Reply(m).to = ClientAddress
    BY DEF Reply
  <2> QED BY <1>1, <2>1 DEF Carried
<1>3. PICK k \in Tokens, s \in Servers : e.packet = Request(GeneratedToken(k), ServerAddresses[s])
  BY <1>2 DEF Requests
<1>4. d \in Arrivals(e.packet.datagram)
  BY DEF Arriving, Arrivals
<1> QED BY <1>3, <1>4

Genuine(a) == \E k \in Tokens : a.token = Token(k) /\ a.time < TokenExpire[k]

LEMMA ServerAdmits ==
    ASSUME Inv, NEW d \in Arriving, ServerProcesses(d), ~Idle, NEW a \in admitted'
    PROVE  a \in admitted \/ Genuine(a)
<1> DEFINE r == ServerReader
           p == ReadPacket(d, r)
<1>1. /\ Head(held).packet.to # ClientAddress
      /\ admitted' = IF p = NoPacket THEN admitted
                     ELSE admitted \cup {[token |-> ReadToken(p.body), time |-> sim.time]}
  BY DEF ServerProcesses
<1>2. PICK k \in Tokens, s \in Servers :
        d \in Arrivals(Request(GeneratedToken(k), ServerAddresses[s]).datagram)
  BY <1>1, HeldFacts, ServerHead DEF Inv, MemoryInv
<1>3. r.key = NoKey /\ r.now = sim.time
  BY DEF ServerReader
<1> HIDE DEF r
<1>4. CASE a \notin admitted
  <2>1. p # NoPacket /\ a = [token |-> ReadToken(p.body), time |-> sim.time]
    BY <1>1, <1>4
  <2>2. p.body = WriteToken(Token(k)) /\ TokenExpire[k] > r.now
    <3>1. RequestReadable(d, r) /\ p.body = d.box.plain
      BY <1>3, <2>1 DEF ReadPacket, Plausible
    <3> QED BY <1>2, <3>1, RequestRead
  <2>3. ReadToken(p.body) = Token(k)
    BY <2>2, TokenRead
  <2>4. sim.time \in Nat /\ TokenExpire[k] \in Nat
    BY PathAssumption DEF Inv, NetworkInv, Sims, Tokens
  <2>5. a.token = Token(k) /\ a.time < TokenExpire[k]
    BY <1>3, <2>1, <2>2, <2>3, <2>4
  <2> QED BY <2>5 DEF Genuine
<1> QED BY <1>4

\* A server reads a token as it was issued, and before it expires, although the
\* header that carries the expiry travels in the clear; the client has read the
\* same token.
THEOREM TokensAreGenuine == Spec => []AdmittedTokensGenuine
<1> DEFINE I == \A a \in admitted : Genuine(a)
<1>1. Init => I
  BY DEF Init
<1>2. ASSUME Inv, I, [Next]_vars PROVE I'
  <2>1. ASSUME NEW d \in Arriving, ServerProcesses(d) PROVE I'
    <3>1. ~Idle
      BY DEF Arriving
    <3> QED BY <1>2, <2>1, <3>1, ServerAdmits
  <2>2. ASSUME \/ \E time \in 0 .. MaxTime : Update(time)
               \/ ResetNetwork
               \/ \E s \in Servers, k \in Tokens, type \in SentTypes : ServerSends(s, k, type)
               \/ \E d \in Arriving : ClientProcesses(d)
               \/ Disconnect \/ Connect \/ ConnectToNextServer \/ SendRequest
               \/ ConnectLoopback \/ ProcessLoopbackPacket
               \/ \E to \in {ClientAddress} \cup {ServerAddresses[s] : s \in Servers} : Fetch(to)
               \/ ReceivePacket
               \/ \E x \in app : FreePacket(x)
               \/ UNCHANGED vars
        PROVE  I'
    <3>1. UNCHANGED admitted
      BY <2>2 DEF Update, ResetNetwork, ServerSends, ClientProcesses, Disconnect, Connect,
                  ConnectToNextServer, SendRequest, ConnectLoopback, ProcessLoopbackPacket,
                  Fetch, ReceivePacket, FreePacket, vars
    <3> QED BY <1>2, <3>1
  <2> QED BY <1>2, <2>1, <2>2 DEF Next
<1>3. Inv /\ I => AdmittedTokensGenuine
  BY DEF Inv, ClientInv, AdmittedTokensGenuine, Genuine
<1> QED BY <1>1, <1>2, <1>3, PathTypes, PTL DEF Spec

-----------------------------------------------------------------------------
(* What the client takes from the network.                                 *)

\* A server that sends from the client's server's address is that server.
LEMMA SameServer ==
    ASSUME ClientInv, NEW m \in Messages, FromServer(ServerAddresses[m.server])
    PROVE  m.server = client.server
<1>1. client.server # 0 /\ client.server \in 0 .. Len(ServerAddresses)
      /\ client.connect_token = GeneratedToken(client.token)
  BY DEF ClientInv, Clients, FromServer
<1>2. ServerAddress = ServerAddresses[client.server]
  BY <1>1 DEF ServerAddress, GeneratedToken
<1>3. m.server \in Servers /\ client.server \in Servers
  BY <1>1, PathAssumption DEF Messages, Servers
<1> DEFINE a == ServerAddresses[m.server]
           b == ServerAddresses[client.server]
<1>4. a \in Addresses /\ b \in Addresses /\ AddressEqual(a, b)
  BY <1>2, <1>3, PathAssumption DEF Servers, FromServer
<1> HIDE DEF a, b
<1>5. a = b
  BY <1>4 DEF Addresses, AddressEqual, IPV4, IPV6
<1> QED BY <1>3, <1>5, PathAssumption DEF a, b

\* The client goes through a packet.
Takes(m) ==
    /\ ~Full(queue) /\ m.type = PAYLOAD /\ m.server = client.server /\ client.server # 0
    /\ m.token = client.token
    /\ \E x \in Received :
         /\ queue' = Pushed(queue, x)
         /\ x.server = m.server /\ x.token = m.token /\ x.sequence = m.sequence
    /\ ~AlreadyReceived(client.window, m.sequence)
    /\ AlreadyReceived(client'.window, m.sequence)

Joins(m) ==
    m.type = KEEP_ALIVE /\ m.server = client.server /\ m.token = client.token

LEMMA ClientStep ==
    ASSUME Inv, NEW d \in Arriving, ClientProcesses(d), ~Idle
    PROVE  /\ UNCHANGED <<sends, sent, delivered>>
           /\ client'.token = client.token /\ client'.server = client.server
           /\ client'.key = client.key
           /\ \A s \in Nat : AlreadyReceived(client.window, s) => AlreadyReceived(client'.window, s)
           /\ queue' = queue \/ \E m \in sent \cap Messages : Takes(m)
           /\ client'.connected => client.connected \/ \E m \in sent \cap Messages : Joins(m)
<1> DEFINE p == ReadPacket(d, ClientReader)
           from == Head(held).packet.from
           x == [block |-> Allocate(heap), server |-> p.body.from, token |-> client.token,
                 sequence |-> p.sequence]
           kept == p # NoPacket /\ Queues(p, from) /\ ~Full(queue)
           joins == p # NoPacket /\ p.type = KEEP_ALIVE /\ FromServer(from)
           w == WindowAfter(d, ClientReader)
<1>1. /\ Head(held).packet.to = ClientAddress
      /\ queue' = IF kept THEN Pushed(queue, x) ELSE queue
      /\ client' = [client EXCEPT !.window = w, !.connected = @ \/ joins]
      /\ UNCHANGED <<sends, sent, delivered>>
  BY DEF ClientProcesses
<1>2. PICK m \in sent \cap Messages :
        d \in Arrivals(Reply(m).datagram) /\ from = ServerAddresses[m.server]
  BY <1>1, HeldFacts, ClientHead DEF Inv, MemoryInv
<1>3. client \in Clients /\ ClientInv
  BY DEF Inv, ClientInv
<1>4. /\ client'.token = client.token /\ client'.server = client.server
      /\ client'.key = client.key /\ client'.window = w
      /\ client'.connected <=> client.connected \/ joins
  <2> HIDE DEF w, joins
  <2>1. (client.connected \/ joins) \in BOOLEAN
    OBVIOUS
  <2> QED BY <1>1, <1>3, <2>1 DEF Clients
<1>5. client.window \in Windows /\ ClientReader.window = client.window
  BY <1>3 DEF ClientReader, Clients
<1>6. \A s \in Nat : AlreadyReceived(client.window, s) => AlreadyReceived(w, s)
  BY <1>2, <1>5, WindowFacts
<1>7. ASSUME kept PROVE \E o \in sent \cap Messages : Takes(o)
  <2>1. /\ p.type = m.type /\ p.sequence = m.sequence /\ p.body.from = m.server
        /\ client.token = m.token /\ client.server # 0
        /\ ReplayChecked(m.type) => /\ ~AlreadyReceived(client.window, m.sequence)
                                    /\ w = Recorded(client.window, m.sequence)
    BY <1>2, <1>3, <1>7, ClientTakes
  <2>2. p.type = PAYLOAD /\ FromServer(from) /\ ~Full(queue) /\ queue' = Pushed(queue, x)
    BY <1>1, <1>7 DEF Queues
  <2>3. m.server = client.server
    BY <1>2, <1>3, <2>2, SameServer
  <2>4. ReplayChecked(m.type)
    BY <2>1, <2>2 DEF ReplayChecked, PAYLOAD, KEEP_ALIVE
  <2>5. m.sequence \in Nat /\ m.sequence < HighBit
    <3>1. m.sequence \in 0 .. MaxSends /\ MaxSends \in Nat /\ MaxSends < HighBit /\ HighBit \in Nat
      BY <1>2, PathAssumption, PowerFacts DEF Messages
    <3> QED BY <3>1
  <2>6. AlreadyReceived(w, m.sequence)
    BY <1>5, <2>1, <2>4, <2>5, RecordedTakes
  <2>7. x \in Received
    <3>1. m.sequence \in 0 .. MaxSends /\ m.server \in 0 .. Len(ServerAddresses)
          /\ client.token \in 0 .. Len(TokenExpire)
      BY <1>2, <1>3, PathAssumption DEF Messages, Servers, Clients
    <3>2. Allocate(heap) \in Blocks
      BY MemoryAtHand
    <3> HIDE DEF p
    <3> QED BY <2>1, <3>1, <3>2 DEF Received
  <2>8. x.server = m.server /\ x.token = m.token /\ x.sequence = m.sequence
    BY <2>1
  <2> HIDE DEF p, x, w, from, kept
  <2>9. Takes(m)
    BY <1>4, <2>1, <2>2, <2>3, <2>4, <2>6, <2>7, <2>8 DEF Takes
  <2> QED BY <1>2, <2>9
<1>8. kept \/ queue' = queue
  BY <1>1
<1>9. ASSUME joins PROVE \E o \in sent \cap Messages : Joins(o)
  <2>1. p.type = m.type /\ client.token = m.token
    BY <1>2, <1>3, <1>9, ClientTakes
  <2>2. m.server = client.server
    BY <1>2, <1>3, <1>9, SameServer
  <2>3. Joins(m)
    BY <1>9, <2>1, <2>2 DEF Joins
  <2> QED BY <1>2, <2>3
<1> HIDE DEF kept, joins, p, x, w, from
<1>10. queue' = queue \/ \E o \in sent \cap Messages : Takes(o)
  BY <1>7, <1>8
<1>11. client'.connected => client.connected \/ \E o \in sent \cap Messages : Joins(o)
  BY <1>4, <1>9
<1> QED BY <1>1, <1>4, <1>6, <1>10, <1>11

-----------------------------------------------------------------------------
(* The payloads in the queue and with the application.                     *)

Payloads ==
    [server : 0 .. Len(ServerAddresses), token : 0 .. Len(TokenExpire), sequence : 0 .. MaxSends]

InQueue(q) == {Payload(Waiting(q)[i]) : i \in 1 .. q.num}

\* No payload is twice in the queue, or in the queue and with the application.
Once(q, D) ==
    /\ \A i, j \in 1 .. q.num : Payload(Waiting(q)[i]) = Payload(Waiting(q)[j]) => i = j
    /\ InQueue(q) \cap D = {}

LEMMA OnceNew == \A D : Once(NewQueue, D) /\ InQueue(NewQueue) = {}
<1>1. NewQueue.num = 0
  BY NewQueueFacts
<1> QED BY <1>1 DEF Once, InQueue

LEMMA PayloadFacts ==
    ASSUME NEW x \in Received
    PROVE  /\ Payload(x) \in Payloads /\ Payload(x).server = x.server
           /\ Payload(x).token = x.token /\ Payload(x).sequence = x.sequence
  BY DEF Payload, Payloads, Received

LEMMA OncePush ==
    ASSUME NEW q, Holds(q), ~Full(q), NEW x \in Received
    PROVE  /\ InQueue(Pushed(q, x)) = InQueue(q) \cup {Payload(x)}
           /\ \A D : Once(q, D) /\ Payload(x) \notin InQueue(q) \cup D => Once(Pushed(q, x), D)
<1> DEFINE r == Pushed(q, x)
           n == q.num
<1>1. /\ r.num = n + 1 /\ n \in Nat
      /\ \A i \in 1 .. n : Waiting(r)[i] = Waiting(q)[i]
      /\ Waiting(r)[n + 1] = x
  BY PushFacts DEF Holds
<1> HIDE DEF r
<1>2. InQueue(q) = {Payload(Waiting(q)[i]) : i \in 1 .. n}
  BY DEF InQueue
<1>3. \A i \in 1 .. r.num : i = n + 1 \/ i \in 1 .. n
  BY <1>1
<1>4. InQueue(r) = InQueue(q) \cup {Payload(x)}
  <2>1. ASSUME NEW y \in InQueue(r) PROVE y \in InQueue(q) \cup {Payload(x)}
    <3>1. PICK i \in 1 .. r.num : y = Payload(Waiting(r)[i])
      BY DEF InQueue
    <3> HIDE DEF n
    <3> QED BY <1>1, <1>2, <1>3, <3>1
  <2>2. ASSUME NEW y \in InQueue(q) PROVE y \in InQueue(r)
    <3> HIDE DEF n
    <3>1. PICK i \in 1 .. n : y = Payload(Waiting(q)[i])
      BY <1>2
    <3>2. i \in 1 .. r.num
      BY <1>1
    <3> QED BY <1>1, <3>1, <3>2 DEF InQueue
  <2>3. Payload(x) \in InQueue(r)
    <3> HIDE DEF n
    <3>1. n + 1 \in 1 .. r.num
      BY <1>1
    <3> QED BY <1>1, <3>1 DEF InQueue
  <2> QED BY <2>1, <2>2, <2>3
<1>5. ASSUME NEW D, Once(q, D), Payload(x) \notin InQueue(q) \cup D PROVE Once(r, D)
  <2>1. \A i, j \in 1 .. n : Payload(Waiting(q)[i]) = Payload(Waiting(q)[j]) => i = j
    BY <1>5 DEF Once
  <2>2. \A i \in 1 .. n : Payload(Waiting(q)[i]) # Payload(x)
    BY <1>2, <1>5
  <2>3. InQueue(r) \cap D = {}
    BY <1>4, <1>5 DEF Once
  <2> HIDE DEF n
  <2>4. \A i, j \in 1 .. r.num : Payload(Waiting(r)[i]) = Payload(Waiting(r)[j]) => i = j
    BY <1>1, <1>3, <2>1, <2>2
  <2> QED BY <2>3, <2>4 DEF Once
<1> QED BY <1>4, <1>5 DEF r

LEMMA OncePop ==
    ASSUME NEW q, Holds(q), q.num > 0, NEW D, Once(q, D)
    PROVE  /\ Once(Popped(q), D \cup {Payload(First(q))})
           /\ InQueue(Popped(q)) \subseteq InQueue(q) /\ Payload(First(q)) \in InQueue(q)
<1> DEFINE r == Popped(q)
           n == q.num
<1>1. /\ r.num = n - 1 /\ n \in Nat \ {0}
      /\ \A i \in 1 .. n - 1 : Waiting(r)[i] = Waiting(q)[i + 1]
      /\ First(q) = Waiting(q)[1]
  BY PopFacts DEF Holds
<1> HIDE DEF r
<1>2. InQueue(q) = {Payload(Waiting(q)[i]) : i \in 1 .. n} /\ InQueue(q) \cap D = {}
      /\ \A i, j \in 1 .. n : Payload(Waiting(q)[i]) = Payload(Waiting(q)[j]) => i = j
  BY DEF InQueue, Once
<1> HIDE DEF n
<1>3. 1 \in 1 .. n
  BY <1>1
<1>4. ASSUME NEW i \in 1 .. r.num
      PROVE  \E j \in 1 .. n : j = i + 1 /\ j # 1 /\ Waiting(r)[i] = Waiting(q)[j]
  <2>1. i + 1 \in 1 .. n /\ i + 1 # 1 /\ i \in 1 .. n - 1
    BY <1>1
  <2> QED BY <1>1, <2>1
<1>5. ASSUME NEW y \in InQueue(r) PROVE y \in InQueue(q) /\ y # Payload(First(q))
  <2>1. PICK i \in 1 .. r.num : y = Payload(Waiting(r)[i])
    BY DEF InQueue
  <2>2. PICK j \in 1 .. n : j # 1 /\ Waiting(r)[i] = Waiting(q)[j]
    BY <1>4
  <2>3. y = Payload(Waiting(q)[j])
    BY <2>1, <2>2
  <2>4. Payload(Waiting(q)[j]) # Payload(Waiting(q)[1])
    BY <1>2, <1>3, <2>2
  <2> QED BY <1>1, <1>2, <2>3, <2>4
<1>6. ASSUME NEW i \in 1 .. r.num, NEW j \in 1 .. r.num,
             Payload(Waiting(r)[i]) = Payload(Waiting(r)[j])
      PROVE  i = j
  <2>1. PICK u \in 1 .. n : u = i + 1 /\ Waiting(r)[i] = Waiting(q)[u]
    BY <1>4
  <2>2. PICK v \in 1 .. n : v = j + 1 /\ Waiting(r)[j] = Waiting(q)[v]
    BY <1>4
  <2>3. Payload(Waiting(q)[u]) = Payload(Waiting(q)[v])
    BY <1>6, <2>1, <2>2
  <2>4. u = v
    BY <1>2, <2>3
  <2> QED BY <1>1, <2>1, <2>2, <2>4
<1>7. Payload(First(q)) \in InQueue(q)
  BY <1>1, <1>2, <1>3
<1>8. InQueue(r) \cap (D \cup {Payload(First(q))}) = {}
  BY <1>2, <1>5
<1>9. Once(r, D \cup {Payload(First(q))})
  BY <1>6, <1>8 DEF Once
<1> QED BY <1>5, <1>7, <1>9 DEF r

\* The client goes from one connection to the next.
Moves ==
    /\ client'.connected => client'.key = ZeroKey
    /\ \/ client'.server = 0 /\ client'.token = client.token
       \/ client'.token > client.token
       \/ client'.token = client.token /\ client.server # 0 /\ client'.server > client.server

LEMMA ClientMoves ==
    ASSUME Inv, Disconnect \/ Connect \/ ConnectToNextServer \/ ConnectLoopback
    PROVE  /\ Moves /\ UNCHANGED <<sends, sent, delivered>>
           /\ queue' = queue \/ queue' = NewQueue
<1>1. client \in Clients /\ client.token \in 0 .. Len(TokenExpire) /\ ClientInv
      /\ client.server \in Nat /\ client.token \in Nat
  BY PathAssumption DEF Inv, ClientInv, Clients
<1>2. CASE Disconnect
  <2>1. client' = [Disconnected EXCEPT !.token = client.token] /\ queue' = NewQueue
        /\ UNCHANGED <<sends, sent, delivered>>
    BY <1>2 DEF Disconnect
  <2>2. client'.token = client.token /\ client'.server = 0 /\ client'.connected = FALSE
    BY <1>1, <2>1, DisconnectedTyped
  <2> QED BY <2>1, <2>2 DEF Moves
<1>3. CASE Connect
  <2> DEFINE k == client.token + 1
  <2>1. /\ UNCHANGED <<queue, sends, sent, delivered>>
        /\ \E f \in GivenTokens(k) :
             client' = IF ReadConnectToken(f) = Unreadable
                       THEN [Disconnected EXCEPT !.token = client.token]
                       ELSE [Disconnected EXCEPT !.token = k, !.server = 1,
                                                 !.connect_token = ReadConnectToken(f), !.key = k]
    BY <1>3, Zenon DEF Connect
  <2>2. PICK c :
             client' = IF c = Unreadable
                       THEN [Disconnected EXCEPT !.token = client.token]
                       ELSE [Disconnected EXCEPT !.token = k, !.server = 1,
                                                 !.connect_token = c, !.key = k]
    BY <2>1, Zenon
  <2>3. k > client.token
    BY <1>1
  <2> HIDE DEF k
  <2>4. CASE client' = [Disconnected EXCEPT !.token = client.token]
    <3>1. client'.token = client.token /\ client'.server = 0 /\ client'.connected = FALSE
      BY <1>1, <2>4, DisconnectedTyped
    <3> QED BY <2>1, <3>1 DEF Moves
  <2>5. CASE client' = [Disconnected EXCEPT !.token = k, !.server = 1, !.connect_token = c, !.key = k]
    <3>1. client'.token = k /\ client'.connected = FALSE
      BY <2>5 DEF Disconnected
    <3> QED BY <2>1, <2>3, <3>1 DEF Moves
  <2> QED BY <2>2, <2>4, <2>5
<1>4. CASE ConnectToNextServer
  <2>1. client.server # 0
        /\ client' = [client EXCEPT !.server = @ + 1, !.connected = FALSE, !.window = NewWindow]
        /\ UNCHANGED <<queue, sends, sent, delivered>>
    BY <1>4 DEF ConnectToNextServer
  <2>2. client'.token = client.token /\ client'.server = client.server + 1
        /\ client'.connected = FALSE
    BY <1>1, <2>1 DEF Clients
  <2>3. client'.server > client.server
    BY <1>1, <2>2
  <2> QED BY <2>1, <2>2, <2>3 DEF Moves
<1>5. CASE ConnectLoopback
  <2>1. client.key = ZeroKey /\ client' = [client EXCEPT !.connected = TRUE]
        /\ UNCHANGED <<queue, sends, sent, delivered>>
    BY <1>5 DEF ConnectLoopback
  <2>2. client'.token = client.token /\ client'.server = client.server /\ client'.key = ZeroKey
    BY <1>1, <2>1 DEF Clients
  <2>3. client.server = 0
    BY <1>1, <2>1, PathAssumption DEF ClientInv
  <2> QED BY <2>1, <2>2, <2>3 DEF Moves
<1> QED BY <1>2, <1>3, <1>4, <1>5

\* The steps that leave the client and its queue alone.
Quiet ==
    UNCHANGED <<client, queue, delivered>> /\ sent \subseteq sent' /\ sends' \in {sends, sends + 1}

LEMMA QuietSteps ==
    ASSUME \/ \E time \in 0 .. MaxTime : Update(time)
           \/ ResetNetwork
           \/ \E s \in Servers, k \in Tokens, type \in SentTypes : ServerSends(s, k, type)
           \/ \E d \in Arriving : ServerProcesses(d)
           \/ SendRequest
           \/ \E to \in {ClientAddress} \cup {ServerAddresses[s] : s \in Servers} : Fetch(to)
           \/ \E x \in app : FreePacket(x)
           \/ UNCHANGED vars
    PROVE  Quiet
<1>1. CASE \E time \in 0 .. MaxTime : Update(time)
  BY <1>1 DEF Update, Quiet
<1>2. CASE ResetNetwork
  BY <1>2 DEF ResetNetwork, Quiet
<1>3. CASE \E s \in Servers, k \in Tokens, type \in SentTypes : ServerSends(s, k, type)
  BY <1>3 DEF ServerSends, Quiet
<1>4. CASE \E d \in Arriving : ServerProcesses(d)
  BY <1>4 DEF ServerProcesses, Quiet
<1>5. CASE SendRequest
  BY <1>5 DEF SendRequest, Quiet
<1>6. CASE \E to \in {ClientAddress} \cup {ServerAddresses[s] : s \in Servers} : Fetch(to)
  BY <1>6 DEF Fetch, Quiet
<1>7. CASE \E x \in app : FreePacket(x)
  BY <1>7 DEF FreePacket, Quiet
<1>8. CASE UNCHANGED vars
  BY <1>8 DEF vars, Quiet
<1> QED BY <1>1, <1>2, <1>3, <1>4, <1>5, <1>6, <1>7, <1>8

\* A packet of the local server is queued, or not.
LEMMA LocalStep ==
    ASSUME Inv, ProcessLoopbackPacket
    PROVE  /\ UNCHANGED <<client, delivered>> /\ sends' = sends + 1
           /\ [server |-> Local, token |-> Local, type |-> PAYLOAD, sequence |-> sends] \in sent'
           /\ sent \subseteq sent'
           /\ \/ queue' = queue
              \/ /\ ~Full(queue)
                 /\ \E x \in Received : /\ queue' = Pushed(queue, x) /\ x.server = Local
                                        /\ x.token = Local /\ x.sequence = sends
<1> DEFINE x == [block |-> Allocate(heap), server |-> Local, token |-> Local, sequence |-> sends]
<1>1. queue' = IF Full(queue) THEN queue ELSE Pushed(queue, x)
  BY DEF ProcessLoopbackPacket
<1>2. x \in Received
  <2>1. 0 \in 0 .. Len(ServerAddresses) /\ 0 \in 0 .. Len(TokenExpire) /\ sends \in 0 .. MaxSends
    BY PathAssumption DEF Inv, CountInv
  <2>2. Allocate(heap) \in Blocks
    BY MemoryAtHand
  <2> QED BY <2>1, <2>2 DEF Received, Local
<1>3. x.server = Local /\ x.token = Local /\ x.sequence = sends
  OBVIOUS
<1> HIDE DEF x
<1>4. \/ queue' = queue
      \/ /\ ~Full(queue)
         /\ \E y \in Received : /\ queue' = Pushed(queue, y) /\ y.server = Local
                                /\ y.token = Local /\ y.sequence = sends
  BY <1>1, <1>2, <1>3
<1> QED BY <1>4 DEF ProcessLoopbackPacket

-----------------------------------------------------------------------------
(* A packet is taken for what was sent.                                    *)

AsSent(y) == [server |-> y.server, token |-> y.token, type |-> PAYLOAD, sequence |-> y.sequence]

Joined ==
    client.connected /\ ~Loopback =>
        \E p \in sent : /\ p.server = client.server /\ p.token = client.token
                        /\ p.type = KEEP_ALIVE

AcceptedInv == (\A y \in InQueue(queue) : AsSent(y) \in sent) /\ Joined

LEMMA QueueHolds == ASSUME Inv PROVE Holds(queue)
  BY DEF Inv, QueueInv, MemoryInv, Holds

LEMMA PopKeeps ==
    ASSUME NEW q, Holds(q), q.num > 0
    PROVE  InQueue(Popped(q)) \subseteq InQueue(q)
<1> DEFINE r == Popped(q)
           n == q.num
<1>1. /\ r.num = n - 1 /\ n \in Nat \ {0}
      /\ \A i \in 1 .. n - 1 : Waiting(r)[i] = Waiting(q)[i + 1]
  BY PopFacts DEF Holds
<1> HIDE DEF r
<1>2. ASSUME NEW y \in InQueue(r) PROVE y \in InQueue(q)
  <2>1. PICK i \in 1 .. r.num : y = Payload(Waiting(r)[i])
    BY DEF InQueue
  <2>2. i + 1 \in 1 .. q.num /\ i \in 1 .. n - 1
    BY <1>1
  <2>3. y = Payload(Waiting(q)[i + 1])
    BY <1>1, <2>1, <2>2
  <2> QED BY <2>2, <2>3 DEF InQueue
<1> QED BY <1>2 DEF r

LEMMA AcceptedStep == ASSUME Inv, AcceptedInv, [Next]_vars PROVE AcceptedInv'
<1>0. /\ \A y \in InQueue(queue) : AsSent(y) \in sent
      /\ Joined /\ Holds(queue) /\ client \in Clients
  BY QueueHolds DEF AcceptedInv, Inv, ClientInv
<1>1. CASE Quiet
  <2>1. InQueue(queue)' = InQueue(queue)
    BY <1>1 DEF Quiet, InQueue, Waiting
  <2>2. Joined'
    BY <1>0, <1>1 DEF Joined, Quiet, Loopback
  <2> QED BY <1>0, <1>1, <2>1, <2>2 DEF AcceptedInv, Quiet, AsSent
<1>2. CASE Disconnect \/ Connect \/ ConnectToNextServer \/ ConnectLoopback
  <2>1. Moves /\ sent' = sent /\ (queue' = queue \/ queue' = NewQueue)
    BY <1>2, ClientMoves
  <2>2. InQueue(queue') \subseteq InQueue(queue)
    BY <2>1, OnceNew
  <2>3. Joined'
    BY <2>1 DEF Joined, Moves, Loopback
  <2> QED BY <1>0, <2>1, <2>2, <2>3 DEF AcceptedInv
<1>3. ASSUME NEW d \in Arriving, ClientProcesses(d) PROVE AcceptedInv'
  <2>1. /\ sent' = sent
        /\ client'.token = client.token /\ client'.server = client.server
        /\ client'.key = client.key
        /\ queue' = queue \/ \E m \in sent \cap Messages : Takes(m)
        /\ client'.connected => client.connected \/ \E m \in sent \cap Messages : Joins(m)
    <3>1. ~Idle
      BY DEF Arriving
    <3> QED BY <1>3, <3>1, ClientStep
  <2>2. Joined'
    <3>1. CASE client.connected
      BY <1>0, <2>1, <3>1 DEF Joined, Loopback
    <3>2. CASE \E m \in sent \cap Messages : Joins(m)
      BY <2>1, <3>2 DEF Joined, Joins
    <3>3. CASE ~client'.connected
      BY <3>3 DEF Joined
    <3> QED BY <2>1, <3>1, <3>2, <3>3
  <2>3. ASSUME NEW y \in InQueue(queue') PROVE AsSent(y) \in sent
    <3>1. CASE queue' = queue
      BY <1>0, <3>1
    <3>2. ASSUME NEW m \in sent \cap Messages, Takes(m) PROVE AsSent(y) \in sent
      <4>1. PICK x \in Received :
              /\ queue' = Pushed(queue, x)
              /\ x.server = m.server /\ x.token = m.token /\ x.sequence = m.sequence
        BY <3>2 DEF Takes
      <4>2. InQueue(queue') = InQueue(queue) \cup {Payload(x)}
        BY <1>0, <3>2, <4>1, OncePush DEF Takes
      <4>3. AsSent(Payload(x)) = m
        <5>1. m = [server |-> m.server, token |-> m.token, type |-> m.type, sequence |-> m.sequence]
          BY <3>2 DEF Messages
        <5>2. m.type = PAYLOAD
          BY <3>2 DEF Takes
        <5>3. /\ Payload(x).server = m.server /\ Payload(x).token = m.token
              /\ Payload(x).sequence = m.sequence
          BY <4>1, PayloadFacts
        <5> QED BY <5>1, <5>2, <5>3 DEF AsSent
      <4> QED BY <1>0, <3>2, <4>2, <4>3
    <3> QED BY <2>1, <3>1, <3>2
  <2> QED BY <2>1, <2>2, <2>3 DEF AcceptedInv
<1>4. CASE ProcessLoopbackPacket
  <2>1. /\ client' = client /\ sent \subseteq sent'
        /\ [server |-> Local, token |-> Local, type |-> PAYLOAD, sequence |-> sends] \in sent'
        /\ \/ queue' = queue
           \/ /\ ~Full(queue)
              /\ \E x \in Received : /\ queue' = Pushed(queue, x) /\ x.server = Local
                                     /\ x.token = Local /\ x.sequence = sends
    BY <1>4, LocalStep
  <2>2. Joined'
    BY <1>0, <2>1 DEF Joined, Loopback
  <2>3. ASSUME NEW y \in InQueue(queue') PROVE AsSent(y) \in sent'
    <3>1. CASE queue' = queue
      BY <1>0, <2>1, <3>1
    <3>2. ASSUME ~Full(queue), NEW x \in Received, queue' = Pushed(queue, x), x.server = Local,
                 x.token = Local, x.sequence = sends
          PROVE  AsSent(y) \in sent'
      <4>1. InQueue(queue') = InQueue(queue) \cup {Payload(x)}
        BY <1>0, <3>2, OncePush
      <4>2. AsSent(Payload(x)) \in sent'
        BY <2>1, <3>2, PayloadFacts DEF AsSent
      <4> QED BY <1>0, <2>1, <4>1, <4>2
    <3> QED BY <2>1, <3>1, <3>2
  <2> QED BY <2>2, <2>3 DEF AcceptedInv
<1>5. CASE ReceivePacket
  <2>1. /\ queue.num > 0 /\ queue' = Popped(queue) /\ UNCHANGED <<client, sent>>
    BY <1>5 DEF ReceivePacket
  <2>2. InQueue(queue') \subseteq InQueue(queue)
    BY <1>0, <2>1, PopKeeps
  <2>3. Joined'
    BY <1>0, <2>1 DEF Joined, Loopback
  <2> QED BY <1>0, <2>1, <2>2, <2>3 DEF AcceptedInv
<1> QED BY <1>1, <1>2, <1>3, <1>4, <1>5, QuietSteps DEF Next

\* Whatever happens to a datagram on its way, a payload in the queue was sent as
\* a payload with that number, and a connected client was sent a keep alive by the
\* server it is connected to.
THEOREM AcceptedMeansSent == Spec => []AcceptedWasSent
<1>1. Init => AcceptedInv
  BY OnceNew DEF Init, AcceptedInv, Joined, Disconnected
<1>2. Inv /\ AcceptedInv /\ [Next]_vars => AcceptedInv'
  BY AcceptedStep
<1>3. AcceptedInv => AcceptedWasSent
  <2> SUFFICES ASSUME AcceptedInv PROVE AcceptedWasSent
    OBVIOUS
  <2>1. ASSUME NEW x \in Inbox
        PROVE  [server |-> x.server, token |-> x.token, type |-> PAYLOAD,
                sequence |-> x.sequence] \in sent
    <3>1. Payload(x) \in InQueue(queue)
      BY DEF Inbox, InQueue
    <3>2. AsSent(Payload(x)) \in sent
      BY <3>1 DEF AcceptedInv
    <3> QED BY <3>2 DEF AsSent, Payload
  <2> QED BY <2>1 DEF AcceptedInv, Joined, AcceptedWasSent
<1> QED BY <1>1, <1>2, <1>3, PathTypes, PTL DEF Spec

-----------------------------------------------------------------------------
(* A payload is delivered once.                                            *)

\* What has been taken will not be taken again: payloads of the local server
\* have smaller numbers than the next, those of earlier tokens and earlier
\* servers are not accepted any more, and those of the server the client is
\* connected to are refused by the window.
Old(y) ==
    \/ y.token = Local /\ y.sequence < sends
    \/ /\ y.token \in Tokens /\ y.token <= client.token
       /\ y.token = client.token /\ client.server # 0 =>
            \/ y.server < client.server
            \/ y.server = client.server /\ AlreadyReceived(client.window, y.sequence)

DeliveryInv ==
    /\ Once(queue, delivered)
    /\ \A y \in InQueue(queue) \cup delivered : y \in Payloads /\ Old(y)

LEMMA NumberFacts ==
    /\ Tokens = 1 .. Len(TokenExpire) /\ Len(TokenExpire) \in Nat /\ Len(ServerAddresses) \in Nat
    /\ MaxSends \in Nat
  BY PathAssumption DEF Tokens

LEMMA OldStays ==
    ASSUME Inv, Inv', sends' \in {sends, sends + 1}, NEW y \in Payloads, Old(y),
           \/ client' = client
           \/ Moves
           \/ /\ client'.token = client.token /\ client'.server = client.server
              /\ \A s \in Nat : AlreadyReceived(client.window, s) => AlreadyReceived(client'.window, s)
    PROVE  Old(y)'
<1>1. /\ sends \in Nat /\ y.sequence \in Nat /\ y.token \in Nat /\ y.server \in Nat
      /\ client.token \in Nat /\ client.server \in Nat
      /\ client'.token \in Nat /\ client'.server \in Nat
  BY NumberFacts DEF Inv, CountInv, ClientInv, Clients, Payloads
<1>2. CASE y.token = Local /\ y.sequence < sends
  BY <1>1, <1>2 DEF Old
<1>3. CASE /\ y.token \in Tokens /\ y.token <= client.token
           /\ y.token = client.token /\ client.server # 0 =>
                \/ y.server < client.server
                \/ y.server = client.server /\ AlreadyReceived(client.window, y.sequence)
  <2>1. CASE client' = client
    BY <1>3, <2>1 DEF Old
  <2>2. CASE Moves
    <3>1. CASE client'.server = 0 /\ client'.token = client.token
      BY <1>3, <3>1 DEF Old
    <3>2. CASE client'.token > client.token
      <4>1. y.token <= client'.token /\ y.token # client'.token
        BY <1>1, <1>3, <3>2
      <4> QED BY <1>3, <4>1 DEF Old
    <3>3. CASE client'.token = client.token /\ client.server # 0 /\ client'.server > client.server
      <4>1. CASE y.token = client.token
        <5>1. y.server < client'.server
          BY <1>1, <1>3, <3>3, <4>1
        <5> QED BY <1>3, <3>3, <5>1 DEF Old
      <4>2. CASE y.token # client.token
        BY <1>3, <3>3, <4>2 DEF Old
      <4> QED BY <4>1, <4>2
    <3> QED BY <2>2, <3>1, <3>2, <3>3 DEF Moves
  <2>3. CASE /\ client'.token = client.token /\ client'.server = client.server
             /\ \A s \in Nat : AlreadyReceived(client.window, s) => AlreadyReceived(client'.window, s)
    BY <1>1, <1>3, <2>3 DEF Old
  <2> QED BY <2>1, <2>2, <2>3
<1> QED BY <1>2, <1>3 DEF Old

LEMMA DeliveryStep == ASSUME Inv, Inv', DeliveryInv, [Next]_vars PROVE DeliveryInv'
<1>0. /\ Once(queue, delivered)
      /\ \A y \in InQueue(queue) \cup delivered : y \in Payloads /\ Old(y)
      /\ Holds(queue)
  BY QueueHolds DEF DeliveryInv
<1>1. CASE Quiet
  <2>1. UNCHANGED <<client, queue, delivered>> /\ sends' \in {sends, sends + 1}
    BY <1>1 DEF Quiet
  <2>2. \A y \in InQueue(queue') \cup delivered' : y \in Payloads /\ Old(y)'
    BY <1>0, <2>1, OldStays
  <2> QED BY <1>0, <2>1, <2>2 DEF DeliveryInv
<1>2. CASE Disconnect \/ Connect \/ ConnectToNextServer \/ ConnectLoopback
  <2>1. Moves /\ UNCHANGED <<sends, delivered>> /\ (queue' = queue \/ queue' = NewQueue)
    BY <1>2, ClientMoves
  <2>2. InQueue(queue') \subseteq InQueue(queue) /\ Once(queue', delivered')
    BY <1>0, <2>1, OnceNew
  <2>3. \A y \in InQueue(queue') \cup delivered' : y \in Payloads /\ Old(y)'
    BY <1>0, <2>1, <2>2, OldStays
  <2> QED BY <2>2, <2>3 DEF DeliveryInv
<1>3. ASSUME NEW d \in Arriving, ClientProcesses(d) PROVE DeliveryInv'
  <2>1. /\ UNCHANGED <<sends, sent, delivered>>
        /\ client'.token = client.token /\ client'.server = client.server
        /\ \A s \in Nat : AlreadyReceived(client.window, s) => AlreadyReceived(client'.window, s)
        /\ queue' = queue \/ \E m \in sent \cap Messages : Takes(m)
    <3>1. ~Idle
      BY DEF Arriving
    <3> QED BY <1>3, <3>1, ClientStep
  <2>2. \A y \in InQueue(queue) \cup delivered : y \in Payloads /\ Old(y)'
    BY <1>0, <2>1, OldStays
  <2>3. CASE queue' = queue
    BY <1>0, <2>1, <2>2, <2>3 DEF DeliveryInv
  <2>4. ASSUME NEW m \in sent \cap Messages, Takes(m) PROVE DeliveryInv'
    <3>1. /\ ~Full(queue) /\ m.server = client.server /\ client.server # 0
          /\ m.token = client.token /\ m.token \in Tokens
          /\ ~AlreadyReceived(client.window, m.sequence)
          /\ AlreadyReceived(client'.window, m.sequence)
      BY <2>4 DEF Takes, Messages
    <3>2. PICK x \in Received :
            /\ queue' = Pushed(queue, x)
            /\ x.server = m.server /\ x.token = m.token /\ x.sequence = m.sequence
      BY <2>4 DEF Takes
    <3> DEFINE z == Payload(x)
    <3>3. z \in Payloads /\ z.server = m.server /\ z.token = m.token /\ z.sequence = m.sequence
      BY <3>2, PayloadFacts
    <3> HIDE DEF z
    <3>4. client.token \in Nat /\ client.server \in Nat /\ client.token # Local
      BY <3>1, NumberFacts DEF Inv, ClientInv, Clients, Local
    <3>5. ~Old(z)
      BY <3>1, <3>3, <3>4 DEF Old
    <3>6. z \notin InQueue(queue) \cup delivered
      BY <1>0, <3>5
    <3>7. InQueue(queue') = InQueue(queue) \cup {z} /\ Once(queue', delivered)
      BY <1>0, <3>1, <3>2, <3>6, OncePush DEF z
    <3>8. Old(z)'
      BY <2>1, <3>1, <3>3, <3>4 DEF Old
    <3>9. \A y \in InQueue(queue') \cup delivered' : y \in Payloads /\ Old(y)'
      BY <2>1, <2>2, <3>3, <3>7, <3>8
    <3> QED BY <2>1, <3>7, <3>9 DEF DeliveryInv
  <2> QED BY <2>1, <2>3, <2>4
<1>4. CASE ProcessLoopbackPacket
  <2>1. /\ UNCHANGED <<client, delivered>> /\ sends' = sends + 1
        /\ \/ queue' = queue
           \/ /\ ~Full(queue)
              /\ \E x \in Received : /\ queue' = Pushed(queue, x) /\ x.server = Local
                                     /\ x.token = Local /\ x.sequence = sends
    BY <1>4, LocalStep
  <2>2. \A y \in InQueue(queue) \cup delivered : y \in Payloads /\ Old(y)'
    BY <1>0, <2>1, OldStays
  <2>3. CASE queue' = queue
    BY <1>0, <2>1, <2>2, <2>3 DEF DeliveryInv
  <2>4. ASSUME ~Full(queue), NEW x \in Received, queue' = Pushed(queue, x), x.server = Local,
               x.token = Local, x.sequence = sends
        PROVE  DeliveryInv'
    <3> DEFINE z == Payload(x)
    <3>1. z \in Payloads /\ z.token = Local /\ z.sequence = sends
      BY <2>4, PayloadFacts
    <3>2. sends \in Nat /\ Local \notin Tokens
      BY NumberFacts DEF Inv, CountInv, Local
    <3> HIDE DEF z
    <3>3. ~Old(z) /\ Old(z)'
      BY <2>1, <3>1, <3>2 DEF Old
    <3>4. z \notin InQueue(queue) \cup delivered
      BY <1>0, <3>3
    <3>5. InQueue(queue') = InQueue(queue) \cup {z} /\ Once(queue', delivered)
      BY <1>0, <2>4, <3>4, OncePush DEF z
    <3>6. \A y \in InQueue(queue') \cup delivered' : y \in Payloads /\ Old(y)'
      BY <2>1, <2>2, <3>1, <3>3, <3>5
    <3> QED BY <2>1, <3>5, <3>6 DEF DeliveryInv
  <2> QED BY <2>1, <2>3, <2>4
<1>5. CASE ReceivePacket
  <2>1. /\ queue.num > 0 /\ queue' = Popped(queue) /\ UNCHANGED <<client, sends>>
        /\ delivered' = delivered \cup {Payload(First(queue))}
    BY <1>5 DEF ReceivePacket
  <2>2. /\ Once(queue', delivered')
        /\ InQueue(queue') \subseteq InQueue(queue) /\ Payload(First(queue)) \in InQueue(queue)
    BY <1>0, <2>1, OncePop
  <2>3. \A y \in InQueue(queue') \cup delivered' : y \in Payloads /\ Old(y)'
    BY <1>0, <2>1, <2>2, OldStays
  <2> QED BY <2>2, <2>3 DEF DeliveryInv
<1> QED BY <1>1, <1>2, <1>3, <1>4, <1>5, QuietSteps DEF Next

\* The application is given a payload once: neither a duplicate, nor the empty
\* window of the next server's connection, nor the queue that survives the
\* change of servers brings one back.
THEOREM PayloadsComeOnce == Spec => []DeliveredOnce
<1>1. Init => DeliveryInv
  BY OnceNew DEF Init, DeliveryInv
<1>2. Inv /\ Inv' /\ DeliveryInv /\ [Next]_vars => DeliveryInv'
  BY DeliveryStep
<1>3. DeliveryInv => DeliveredOnce
  <2> SUFFICES ASSUME DeliveryInv PROVE DeliveredOnce
    OBVIOUS
  <2>1. ASSUME NEW x \in Inbox, NEW y \in Inbox, Payload(x) = Payload(y) PROVE x = y
    <3>1. PICK i \in 1 .. queue.num : x = Waiting(queue)[i]
      BY DEF Inbox
    <3>2. PICK j \in 1 .. queue.num : y = Waiting(queue)[j]
      BY DEF Inbox
    <3>3. i = j
      BY <2>1, <3>1, <3>2 DEF DeliveryInv, Once
    <3> QED BY <3>1, <3>2, <3>3
  <2>2. ASSUME NEW x \in Inbox PROVE Payload(x) \notin delivered
    <3>1. Payload(x) \in InQueue(queue)
      BY DEF Inbox, InQueue
    <3> QED BY <3>1 DEF DeliveryInv, Once
  <2> QED BY <2>1, <2>2 DEF DeliveredOnce
<1> QED BY <1>1, <1>2, <1>3, PathTypes, PTL DEF Spec

-----------------------------------------------------------------------------
(* The Go package reads what the C code writes.                            *)

LEMMA GoAddress ==
    ASSUME NEW a \in Addresses
    PROVE  /\ GoReadAddress(WriteAddress(a)) \in Addresses
           /\ GoKeeps(a) <=> GoReadAddress(WriteAddress(a)) = a
           /\ GoKeeps(a) <=> GoWriteAddress(a) = WriteAddress(a)
<1>1. IPv6Words \in Nat /\ IPv4Bytes \in Nat /\ a.port \in Words
  BY TokenAssumption DEF Addresses
<1>2. Word(WriteWord(a.port)[1], WriteWord(a.port)[2]) = a.port
  BY <1>1, WordFacts DEF WriteWord
<1>3. CASE a.type = IPV4
  <2>1. a \in [type : {IPV4}, data : [1 .. IPv4Bytes -> Bytes], port : Words]
    BY <1>3 DEF Addresses, IPV4, IPV6
  <2>2. GoReadAddress(WriteAddress(a)) = [type |-> a.type, data |-> a.data, port |-> a.port]
    BY <1>2, <1>3 DEF GoReadAddress, WriteAddress
  <2>3. a = [type |-> a.type, data |-> a.data, port |-> a.port]
    BY <2>1
  <2>4. GoWriteAddress(a) = WriteAddress(a)
    BY <1>3 DEF GoWriteAddress, WriteAddress
  <2> QED BY <1>3, <2>2, <2>3, <2>4 DEF GoKeeps
<1>4. CASE a.type # IPV4
  <2>1. a \in [type : {IPV6}, data : [1 .. IPv6Words -> Words], port : Words]
    BY <1>4 DEF Addresses, IPV4, IPV6
  <2> DEFINE f == WriteAddress(a)
             e == [i \in 1 .. 2 * IPv6Words |->
                      LET w == a.data[(i + 1) \div 2] IN IF i % 2 = 1 THEN Low(w) ELSE High(w)]
             h == [i \in 1 .. 2 * IPv6Words |->
                      IF i % 2 = 1 THEN Low(a.data[(i + 1) \div 2]) ELSE 0]
             g == [i \in 1 .. IPv6Words |-> f.data[2 * i - 1]]
  <2>2. f = [type |-> a.type, data |-> e, port |-> WriteWord(a.port)]
    BY <1>4 DEF WriteAddress
  <2>3. GoWriteAddress(a) = [type |-> a.type, data |-> h, port |-> WriteWord(a.port)]
    BY <1>4 DEF GoWriteAddress
  <2>4. f.type = a.type /\ f.port = WriteWord(a.port) /\ f.data = e
    BY <2>2
  <2> HIDE DEF f
  <2>5. ASSUME NEW i \in 1 .. IPv6Words
        PROVE  /\ e[2 * i - 1] = Low(a.data[i]) /\ e[2 * i] = High(a.data[i])
               /\ h[2 * i - 1] = Low(a.data[i]) /\ h[2 * i] = 0
               /\ 2 * i \in 1 .. 2 * IPv6Words
               /\ a.data[i] \in Words /\ Low(a.data[i]) \in Words
               /\ High(a.data[i]) = 0 <=> Low(a.data[i]) = a.data[i]
    <3>1. /\ 2 * i - 1 \in 1 .. 2 * IPv6Words /\ (2 * i - 1) % 2 = 1 /\ (2 * i - 1 + 1) \div 2 = i
          /\ 2 * i \in 1 .. 2 * IPv6Words /\ (2 * i) % 2 # 1 /\ (2 * i + 1) \div 2 = i
      BY <1>1
    <3>2. e[2 * i - 1] = Low(a.data[i]) /\ h[2 * i - 1] = Low(a.data[i])
      BY <3>1
    <3>3. e[2 * i] = High(a.data[i]) /\ h[2 * i] = 0
      BY <3>1
    <3>4. a.data[i] \in Words
      BY <2>1
    <3>5. \A v \in Bytes : v \in Words
      <4>1. ByteValues \in Nat \ {0}
        BY TokenAssumption
      <4>2. ByteValues <= ByteValues * ByteValues
        BY <4>1
      <4> QED BY <4>1, <4>2 DEF Bytes, Words
    <3> HIDE DEF e, h
    <3>6. Low(a.data[i]) \in Bytes /\ (High(a.data[i]) = 0 <=> Low(a.data[i]) = a.data[i])
      BY <3>4, WordFacts
    <3> QED BY <3>1, <3>2, <3>3, <3>4, <3>5, <3>6
  <2> HIDE DEF e, h
  <2>6. g \in [1 .. IPv6Words -> Words] /\ \A i \in 1 .. IPv6Words : g[i] = Low(a.data[i])
    BY <2>4, <2>5
  <2>7. GoReadAddress(f) = [type |-> a.type, data |-> g, port |-> a.port]
    BY <1>2, <1>4, <2>4 DEF GoReadAddress
  <2> HIDE DEF g
  <2>8. GoReadAddress(f) \in Addresses
    BY <1>1, <2>1, <2>6, <2>7 DEF Addresses
  <2>9. GoKeeps(a) <=> \A i \in 1 .. IPv6Words : High(a.data[i]) = 0
    BY <1>4 DEF GoKeeps
  <2>10. g = a.data <=> \A i \in 1 .. IPv6Words : Low(a.data[i]) = a.data[i]
    <3> DEFINE b == a.data
    <3>1. b \in [1 .. IPv6Words -> Words]
      BY <2>1
    <3>2. g \in [1 .. IPv6Words -> Words] /\ \A i \in 1 .. IPv6Words : g[i] = Low(b[i])
      BY <2>6
    <3> HIDE DEF b
    <3>3. ASSUME \A i \in 1 .. IPv6Words : Low(b[i]) = b[i] PROVE g = b
      <4>1. \A i \in 1 .. IPv6Words : g[i] = b[i]
        BY <3>2, <3>3
      <4>2. g = [i \in 1 .. IPv6Words |-> g[i]] /\ b = [i \in 1 .. IPv6Words |-> b[i]]
        BY <3>1, <3>2
      <4> QED BY <4>1, <4>2
    <3>4. g = b => \A i \in 1 .. IPv6Words : Low(b[i]) = b[i]
      BY <3>2
    <3> QED BY <3>3, <3>4 DEF b
  <2>11. GoReadAddress(f) = a <=> g = a.data
    <3>1. a = [type |-> a.type, data |-> a.data, port |-> a.port]
      BY <2>1
    <3>2. GoReadAddress(f).data = g
      BY <2>7
    <3> QED BY <2>7, <3>1, <3>2
  <2>12. GoKeeps(a) <=> GoReadAddress(f) = a
    BY <2>5, <2>9, <2>10, <2>11
  <2>13. GoWriteAddress(a) = f <=> h = e
    <3>1. GoWriteAddress(a).data = h
      BY <2>3
    <3> QED BY <2>2, <2>3, <2>4, <3>1
  <2>14. h = e <=> \A i \in 1 .. IPv6Words : High(a.data[i]) = 0
    <3>1. ASSUME h = e, NEW i \in 1 .. IPv6Words PROVE High(a.data[i]) = 0
      BY <2>5, <3>1
    <3>2. ASSUME \A i \in 1 .. IPv6Words : High(a.data[i]) = 0 PROVE h = e
      <4>1. ASSUME NEW j \in 1 .. 2 * IPv6Words PROVE h[j] = e[j]
        <5> DEFINE i == (j + 1) \div 2
        <5>1. i \in 1 .. IPv6Words
          BY <1>1
        <5> HIDE DEF i
        <5>2. e[j] = IF j % 2 = 1 THEN Low(a.data[i]) ELSE High(a.data[i])
          BY DEF e, i
        <5>3. h[j] = IF j % 2 = 1 THEN Low(a.data[i]) ELSE 0
          BY DEF h, i
        <5> QED BY <3>2, <5>1, <5>2, <5>3
      <4>2. /\ h = [j \in 1 .. 2 * IPv6Words |-> h[j]]
            /\ e = [j \in 1 .. 2 * IPv6Words |-> e[j]]
        BY DEF h, e
      <4> QED BY <4>1, <4>2
    <3> QED BY <3>1, <3>2
  <2> QED BY <2>8, <2>9, <2>12, <2>13, <2>14 DEF f
<1> QED BY <1>3, <1>4

LEMMA AddressesDoAgree == AddressesAgree
  BY AddressRead, GoAddress DEF AddressesAgree

\* What Go finds in a private part, and writes for it.
LEMMA GoToken ==
    ASSUME NEW k \in Tokens
    PROVE  LET f == WriteToken(Token(k))
           IN  /\ GoReadToken(f) # Unreadable
               /\ \A i \in Servers : GoKeeps(ServerAddresses[i]) =>
                    /\ GoReadToken(f).servers[i] = ServerAddresses[i]
                    /\ GoWriteToken(ReadToken(f)).servers[i] = f.servers[i]
<1> DEFINE n == Len(ServerAddresses)
           f == WriteToken(Token(k))
           g == [i \in 1 .. n |-> GoReadAddress(Written[i])]
<1>1. f = [number |-> k, timeout |-> 5, num_servers |-> n, servers |-> Written]
  BY DEF WriteToken, Token, Written
<1>2. ReadToken(f) = Token(k)
  BY TokenRead
<1> HIDE DEF f
<1>3. f.number = k /\ f.timeout = 5 /\ f.num_servers = n /\ f.servers = Written
  BY <1>1
<1>4. Acceptable(f)
  BY <1>3, WrittenFacts DEF Acceptable
<1>5. GoReadToken(f) = [number |-> k, timeout |-> 5, servers |-> g]
  BY <1>3, <1>4 DEF GoReadToken
<1>6. ASSUME NEW i \in 1 .. n
      PROVE  /\ ServerAddresses[i] \in Addresses /\ Written[i] = WriteAddress(ServerAddresses[i])
             /\ g[i] \in Addresses
             /\ GoKeeps(ServerAddresses[i]) =>
                  /\ g[i] = ServerAddresses[i]
                  /\ GoWriteAddress(ServerAddresses[i]) = Written[i]
  <2>1. ServerAddresses[i] \in Addresses /\ Written[i] = WriteAddress(ServerAddresses[i])
    BY WrittenFacts DEF Written
  <2>2. g[i] = GoReadAddress(WriteAddress(ServerAddresses[i]))
    BY <2>1
  <2> HIDE DEF g
  <2> QED BY <2>1, <2>2, GoAddress
<1>7. n \in Nat
  BY PathAssumption
<1>8. GoReadToken(f) # Unreadable
  <2>1. g \in [1 .. n -> Addresses]
    BY <1>6
  <2> HIDE DEF g, n
  <2>2. g \in Seq(Addresses)
    BY <1>7, <2>1
  <2>3. k \in Nat
    BY NumberFacts
  <2>4. GoReadToken(f) \in PrivateTokens
    BY <1>5, <2>2, <2>3 DEF PrivateTokens
  <2> QED BY <2>4, TokenAssumption
<1>9. ASSUME NEW i \in Servers, GoKeeps(ServerAddresses[i])
      PROVE  /\ GoReadToken(f).servers[i] = ServerAddresses[i]
             /\ GoWriteToken(ReadToken(f)).servers[i] = f.servers[i]
  <2>1. i \in 1 .. n
    BY DEF Servers
  <2>2. g[i] = ServerAddresses[i] /\ GoWriteAddress(ServerAddresses[i]) = Written[i]
    BY <1>6, <1>9, <2>1
  <2>3. GoWriteToken(Token(k)).servers[i] = GoWriteAddress(ServerAddresses[i])
    BY <2>1 DEF GoWriteToken, Token
  <2> HIDE DEF g
  <2> QED BY <1>2, <1>3, <1>5, <2>2, <2>3
<1> QED BY <1>8, <1>9 DEF f

\* ... and in a public part.
LEMMA PublicTokensDoAgree == PublicTokensAgree
<1> SUFFICES ASSUME NEW k \in Tokens, NEW f \in GivenTokens(k)
             PROVE  LET c == ReadConnectToken(f)
                        g == GoReadConnectToken(f)
                    IN  /\ c = Unreadable <=> g = Unreadable
                        /\ c # Unreadable => \A i \in DOMAIN c.servers :
                             GoKeeps(c.servers[i]) => g.servers[i] = c.servers[i]
  BY DEF PublicTokensAgree
<1>1. CASE ~PublicAcceptable(f)
  BY <1>1 DEF ReadConnectToken, GoReadConnectToken
<1>2. CASE f = WriteConnectToken(GeneratedToken(k))
  <2> DEFINE n == Len(ServerAddresses)
             s == [i \in 1 .. n |-> GoReadAddress(Written[i])]
  <2>1. /\ f.protocol = Protocol /\ f.create = 0 /\ f.expire = TokenExpire[k] /\ f.sequence = k
        /\ f.private_data = PrivateData(k) /\ f.timeout = 5 /\ f.num_servers = n
        /\ f.servers = Written
    BY <1>2, PublicPart
  <2>2. PublicAcceptable(f) /\ ReadConnectToken(f) = GeneratedToken(k)
    BY <1>2, PublicPart
  <2>3. GoReadConnectToken(f) =
          [protocol |-> Protocol, create |-> 0, expire |-> TokenExpire[k], sequence |-> k,
           private_data |-> PrivateData(k), timeout |-> 5, servers |-> s]
    BY <2>1, <2>2 DEF GoReadConnectToken
  <2>4. ASSUME NEW i \in 1 .. n
        PROVE  s[i] \in Addresses /\ (GoKeeps(ServerAddresses[i]) => s[i] = ServerAddresses[i])
    <3>1. ServerAddresses[i] \in Addresses /\ Written[i] = WriteAddress(ServerAddresses[i])
      BY WrittenFacts DEF Written
    <3>2. s[i] = GoReadAddress(WriteAddress(ServerAddresses[i]))
      BY <3>1
    <3> HIDE DEF s
    <3> QED BY <3>1, <3>2, GoAddress
  <2>5. /\ s \in [1 .. n -> Addresses] /\ n \in Nat /\ DOMAIN ServerAddresses = 1 .. n
        /\ ServerAddresses \in Seq(Addresses)
    BY <2>4, PathAssumption
  <2> HIDE DEF s, n
  <2>6. s \in Seq(Addresses)
    BY <2>5
  <2>7. k \in Nat /\ TokenExpire[k] \in Nat
    BY NumberFacts, PathAssumption DEF Tokens
  <2>8. GoReadConnectToken(f) \in PublicTokens /\ GeneratedToken(k) \in PublicTokens
    BY <2>3, <2>5, <2>6, <2>7 DEF PublicTokens, GeneratedToken
  <2>9. GeneratedToken(k) # Unreadable /\ GoReadConnectToken(f) # Unreadable
    BY <2>8, PathAssumption
  <2>10. GeneratedToken(k).servers = ServerAddresses /\ GoReadConnectToken(f).servers = s
    BY <2>3 DEF GeneratedToken
  <2> QED BY <2>2, <2>4, <2>5, <2>9, <2>10
<1> QED BY <1>1, <1>2, DamagedRefused

\* When Go can read the token of every request that the C code takes, the two
\* readers agree on every datagram.
LEMMA ReadersAgree ==
    ASSUME NEW d, NEW r, d.prefix.type \in Nat,
           RequestReadable(d, r) => GoReadToken(d.box.plain) # Unreadable
    PROVE  GoReadPacket(d, r) = ReadPacket(d, r) /\ GoWindowAfter(d, r) = WindowAfter(d, r)
<1> DEFINE t == d.prefix.type
           s == ReadSequence(d.sequence)
<1>1. IsRequest(d) => t = REQUEST
  BY DEF IsRequest
<1>2. GoPlausible(d, r) <=> Plausible(d, r)
  BY DEF GoPlausible, Plausible, SequenceReadable
<1>3. Plausible(d, r) => t < NumPackets
  BY DEF Plausible
<1>4. NoPacket \notin Nat
  BY PacketAssumption
<1>5. GoReadPacket(d, r) = ReadPacket(d, r)
  <2>1. CASE t >= NumPackets
    <3>1. ~Plausible(d, r) /\ ~IsRequest(d)
      BY <1>1, <1>3, <2>1 DEF REQUEST, NumPackets
    <3>2. ReadPacket(d, r) = NoPacket
      BY <3>1 DEF ReadPacket
    <3>3. Peeked(d) = NoPacket
      BY <2>1 DEF Peeked, NumPackets
    <3>4. GoReadPacket(d, r) = NoPacket
      <4>1. NoPacket # REQUEST
        BY <1>4 DEF REQUEST
      <4> QED BY <3>3, <4>1 DEF GoReadPacket
    <3> QED BY <3>2, <3>4
  <2>2. CASE t = REQUEST
    <3>1. Peeked(d) = REQUEST /\ Peeked(d) # NoPacket
      BY <1>4, <2>2 DEF Peeked, REQUEST, NumPackets
    <3>2. GoReadPacket(d, r) = IF GoRequestReadable(d, r)
                               THEN [type |-> REQUEST, sequence |-> 0, body |-> d.box.plain]
                               ELSE NoPacket
      BY <3>1 DEF GoReadPacket
    <3>3. GoRequestReadable(d, r) <=> IsRequest(d) /\ RequestReadable(d, r)
      BY DEF GoRequestReadable, RequestReadable
    <3>4. ReadPacket(d, r) = IF IsRequest(d) /\ RequestReadable(d, r)
                             THEN [type |-> REQUEST, sequence |-> 0, body |-> d.box.plain]
                             ELSE NoPacket
      BY <2>2 DEF ReadPacket
    <3> QED BY <3>2, <3>3, <3>4
  <2>3. CASE t < NumPackets /\ t # REQUEST
    <3>1. Peeked(d) = t /\ t # NoPacket
      BY <1>4, <2>3 DEF Peeked
    <3>2. GoReadPacket(d, r) =
            IF DecryptPacket(d, r) /\ d.length - 1 - d.prefix.bytes - MacBytes \in BodySizes[t]
            THEN [type |-> t, sequence |-> s, body |-> d.box.plain] ELSE NoPacket
      BY <2>3, <3>1 DEF GoReadPacket
    <3>3. DecryptPacket(d, r) <=> /\ Plausible(d, r) /\ ~Refused(d, r)
                                  /\ d.length - 1 - d.prefix.bytes >= MacBytes
                                  /\ Opens(d.box, PacketData(d.prefix), s, r.key)
      BY <1>2 DEF DecryptPacket
    <3>4. ~IsRequest(d)
      BY <1>1, <2>3
    <3>5. ReadPacket(d, r) =
            IF /\ Plausible(d, r) /\ ~Refused(d, r)
               /\ d.length - 1 - d.prefix.bytes >= MacBytes
               /\ Opens(d.box, PacketData(d.prefix), s, r.key)
               /\ d.length - 1 - d.prefix.bytes - MacBytes \in BodySizes[t]
            THEN [type |-> t, sequence |-> s, body |-> d.box.plain] ELSE NoPacket
      BY <2>3, <3>4 DEF ReadPacket
    <3> QED BY <3>2, <3>3, <3>5
  <2>4. t >= NumPackets \/ t = REQUEST \/ (t < NumPackets /\ t # REQUEST)
    BY DEF NumPackets
  <2> QED BY <2>1, <2>2, <2>3, <2>4
<1>6. GoWindowAfter(d, r) = WindowAfter(d, r)
  <2> DEFINE Go == /\ t \in DENIED .. DISCONNECT
                   /\ GoPlausible(d, r) /\ ReplayChecked(t) /\ r.window # NoPacket
             C == ~IsRequest(d) /\ Plausible(d, r) /\ ReplayChecked(t) /\ r.window # NoPacket
  <2>1. ASSUME Plausible(d, r), ReplayChecked(t) PROVE t \in DENIED .. DISCONNECT /\ ~IsRequest(d)
    BY <1>1, <1>3, <2>1 DEF ReplayChecked, REQUEST, DENIED, DISCONNECT, KEEP_ALIVE, NumPackets
  <2>2. Go <=> C
    BY <1>2, <2>1
  <2>3. GoWindowAfter(d, r) = IF Go THEN Recorded(r.window, s) ELSE r.window
    BY DEF GoWindowAfter
  <2>4. WindowAfter(d, r) = IF C THEN Recorded(r.window, s) ELSE r.window
    BY DEF WindowAfter
  <2> HIDE DEF Go, C
  <2> QED BY <2>2, <2>3, <2>4
<1> QED BY <1>5, <1>6

LEMMA ClientReadersAgree ==
    ASSUME Inv, ~Idle, Head(held).packet.to = ClientAddress
    PROVE  GoReadsTheSame
<1> DEFINE d0 == Head(held).packet.datagram
<1>1. Head(held) \in EntriesWith(Carried(sent)) /\ NetworkInv
  BY HeldFacts DEF Inv, MemoryInv
<1>2. ASSUME NEW d \in Arriving
      PROVE  /\ GoReadPacket(d, ClientReader) = ReadPacket(d, ClientReader)
             /\ GoWindowAfter(d, ClientReader) = WindowAfter(d, ClientReader)
  <2>1. PICK m \in sent \cap Messages : d \in Arrivals(Reply(m).datagram)
    BY <1>1, ClientHead
  <2>2. d.prefix.type \in Nat
    BY <2>1, ReplyArrives
  <2>3. ~RequestReadable(d, ClientReader)
    BY DEF RequestReadable, ClientReader, REQUEST, DENIED, CHALLENGE, KEEP_ALIVE, PAYLOAD,
           DISCONNECT
  <2> QED BY <2>2, <2>3, ReadersAgree
<1>3. d0 \in Arriving
  BY DEF Arriving
<1>4. PICK m \in sent \cap Messages : Head(held).packet = Reply(m)
  BY <1>1, <1>3, ClientHead
<1>5. d0 = WritePacket(m.type, Body(m.type, m.server), m.sequence, m.token)
  BY <1>4 DEF Reply
<1> DEFINE b == Body(m.type, m.server)
<1>6. /\ d0.prefix.type = m.type /\ d0.box.plain = b /\ d0.box.nonce = m.sequence
      /\ d0.box.key = m.token
  BY <1>5 DEF WritePacket, Seal
<1>7. ~IsRequest(d0)
  <2>1. m.type \in DENIED .. DISCONNECT
    BY PathAssumption DEF Messages
  <2> QED BY <1>6, <2>1 DEF IsRequest, REQUEST, DENIED, DISCONNECT
<1>8. GoWritePacket(m.type, b, m.sequence, m.token) = WritePacket(m.type, b, m.sequence, m.token)
  BY DEF GoWritePacket, WritePacket, WritePacketPrefix, EncryptPacket
<1>9. GoWritePacket(d0.prefix.type, d0.box.plain, d0.box.nonce, d0.box.key) = d0
  BY <1>5, <1>6, <1>8
<1> HIDE DEF d0
<1> QED BY <1>2, <1>7, <1>9 DEF GoReadsTheSame, d0

LEMMA ServerReadersAgree ==
    ASSUME Inv, ~Idle, Head(held).packet.to # ClientAddress
    PROVE  GoReadsTheSame
<1> DEFINE d0 == Head(held).packet.datagram
<1>1. Head(held) \in EntriesWith(Carried(sent)) /\ NetworkInv
  BY HeldFacts DEF Inv, MemoryInv
<1>2. ASSUME NEW d \in Arriving
      PROVE  /\ GoReadPacket(d, ServerReader) = ReadPacket(d, ServerReader)
             /\ GoWindowAfter(d, ServerReader) = WindowAfter(d, ServerReader)
  <2>1. PICK k \in Tokens, s \in Servers :
          d \in Arrivals(Request(GeneratedToken(k), ServerAddresses[s]).datagram)
    BY <1>1, ServerHead
  <2>2. d.prefix.type \in Nat
    BY <2>1, RequestArrives
  <2>3. RequestReadable(d, ServerReader) => d.box.plain = WriteToken(Token(k))
    BY <2>1, RequestRead
  <2>4. GoReadToken(WriteToken(Token(k))) # Unreadable
    BY GoToken
  <2> QED BY <2>2, <2>3, <2>4, ReadersAgree
<1>3. d0 \in Arriving
  BY DEF Arriving
<1>4. PICK k \in Tokens, s \in Servers :
        Head(held).packet = Request(GeneratedToken(k), ServerAddresses[s])
  BY <1>1, <1>3, ServerHead
<1> DEFINE f == WriteToken(Token(k))
<1>5. IsRequest(d0) /\ d0.box.plain = f
  <2> DEFINE e == Request(GeneratedToken(k), ServerAddresses[s]).datagram
  <2>1. e \in Arrivals(e) /\ d0 = e
    BY <1>4 DEF Arrivals
  <2>2. e.box = [plain |-> f, data |-> TokenData(Header(k)), nonce |-> k, key |-> PrivateKey]
        /\ IsRequest(e)
    BY <2>1, RequestArrives
  <2> HIDE DEF e, f
  <2> QED BY <2>1, <2>2
<1>6. \A i \in Servers : GoKeeps(ServerAddresses[i]) =>
        /\ GoReadToken(f).servers[i] = ServerAddresses[i]
        /\ GoWriteToken(ReadToken(f)).servers[i] = f.servers[i]
  BY GoToken
<1> HIDE DEF d0, f
<1>7. \A i \in Servers : GoKeeps(ServerAddresses[i]) =>
        /\ GoReadToken(d0.box.plain).servers[i] = ServerAddresses[i]
        /\ GoWriteToken(ReadToken(d0.box.plain)).servers[i] = d0.box.plain.servers[i]
  BY <1>5, <1>6
<1> QED BY <1>2, <1>5, <1>7, AddressesDoAgree, PublicTokensDoAgree DEF GoReadsTheSame, d0

\* The Go package takes every datagram that reaches an end, altered or not, for
\* the same packet as the C code and moves its window alike, writes the same
\* datagrams, and finds the same addresses in a token, except exactly the IPv6
\* ones whose words have a high byte.
THEOREM GoReadsAlike == Spec => []GoReadsTheSame
<1>1. Inv => GoReadsTheSame
  <2>1. CASE Idle
    BY <2>1 DEF GoReadsTheSame
  <2> QED BY <2>1, ClientReadersAgree, ServerReadersAgree
<1> QED BY <1>1, PathTypes, PTL
=============================================================================

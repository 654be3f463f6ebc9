------------------------ MODULE EncryptionTableProofs ------------------------
(***************************************************************************)
(* What the operations of the encryption manager do to a table, for every  *)
(* size of the table and every set of addresses: the facts that the proofs *)
(* about its users rest on.                                                *)
(***************************************************************************)
EXTENDS EncryptionTable, WellFoundedInduction, TLAPS

-----------------------------------------------------------------------------
(* The first and the last element of a set of numbers.                     *)

\* A set of natural numbers that is not empty has a smallest element.
LEMMA NatMin ==
    ASSUME NEW S \in SUBSET Nat, S # {}
    PROVE  \E x \in S : \A y \in S : x <= y
<1> DEFINE R == OpToRel(<, Nat)
<1>1. IsWellFoundedOn(R, Nat)
  BY NatLessThanWellFounded
<1>2. PICK x \in S : \A y \in S : <<y, x>> \notin R
  <2> HIDE DEF R
  <2> QED BY <1>1, WFMin
<1>3. ASSUME NEW y \in S PROVE x <= y
  <2>1. ~(y < x)
    <3>1. SUFFICES ASSUME y < x PROVE <<y, x>> \in R
      BY <1>2
    <3>2. <<y, x>> \in Nat \X Nat
      OBVIOUS
    <3> QED BY <3>1, <3>2 DEF OpToRel
  <2> QED BY <2>1
<1> QED BY <1>3

\* Every forward scan of an array stops at the first match.
LEMMA MinFacts ==
    ASSUME NEW S \in SUBSET Nat, S # {}
    PROVE  Min(S) \in S /\ \A y \in S : Min(S) <= y
BY NatMin DEF Min

\* A backward scan of an array stops at the last match.
LEMMA MaxFacts ==
    ASSUME NEW S \in SUBSET Int, S # {}, NEW b \in Int, \A y \in S : y <= b
    PROVE  Max(S) \in S /\ \A y \in S : Max(S) >= y
<1> DEFINE T == {n \in Nat : b - n \in S}
<1>1. T # {}
  <2>1. PICK y \in S : TRUE
    OBVIOUS
  <2>2. b - y \in Nat /\ b - (b - y) = y
    BY <2>1
  <2> QED BY <2>1, <2>2
<1>2. PICK n \in T : \A m \in T : n <= m
  <2> HIDE DEF T
  <2>1. T \in SUBSET Nat
    BY DEF T
  <2> QED BY <1>1, <2>1, NatMin
<1>3. ASSUME NEW y \in S PROVE b - n >= y
  <2>1. b - y \in Nat /\ b - (b - y) = y
    OBVIOUS
  <2>2. n <= b - y
    BY <2>1, <1>2
  <2> QED BY <2>1, <2>2
<1>4. \E x \in S : \A y \in S : x >= y
  BY <1>2, <1>3
<1> QED BY <1>4 DEF Max

-----------------------------------------------------------------------------
(* Tables whose time-outs are in T and whose keys are in K.                *)

EntryOf(T, K) ==
    [timeout : T, expire_time : Int, last_access_time : Int,
     address : Addresses \cup {NoAddress}, key : K]

TableOf(T, K) == [num : 0 .. MaxMappings, entry : [Indices -> EntryOf(T, K)]]

\* Every entry in use is searched.
Covered(em) == \A i \in Indices : i >= em.num => em.entry[i].address = NoAddress

\* A live entry comes before every other entry of its address: a search finds
\* it, and so does a removal, which also stops at expired entries.
LiveFirst(em, time) ==
    \A i, j \in Indices :
        /\ em.entry[i].address = em.entry[j].address
        /\ em.entry[i].address # NoAddress
        /\ ~EntryExpired(em.entry[i], time)
        => i <= j

\* Entry i is in use for address a.
InUse(em, i, a, time) ==
    /\ i \in Indices /\ i < em.num
    /\ em.entry[i].address = a
    /\ ~EntryExpired(em.entry[i], time)

\* The indices are natural numbers, in order.
LEMMA IndexFacts ==
    /\ Indices \subseteq Nat /\ 0 \in Indices /\ NotFound \notin Indices
    /\ \A i \in Indices : i < MaxMappings
BY TableAssumption DEF Indices, NotFound

LEMMA TimeFacts ==
    /\ Never \in Int /\ Never < 0 /\ LongAgo \in Int
    /\ \A n \in Int : Ticks(n) \in Int /\ (n > 0 => Ticks(n) > 0)
<1>1. ASSUME NEW n \in Int
      PROVE  Ticks(n) \in Int /\ (n > 0 => Ticks(n) > 0)
  BY TableAssumption DEF Ticks
<1>2. Never \in Int /\ Never < 0 /\ LongAgo \in Int
  BY TableAssumption DEF Never, LongAgo
<1> QED BY <1>1, <1>2

\* Time only expires entries.
LEMMA ExpiredStays ==
    ASSUME NEW T \in SUBSET Int, NEW K, NEW e \in EntryOf(T, K),
           NEW t \in Int, NEW u \in Int, t <= u, EntryExpired(e, t)
    PROVE  EntryExpired(e, u)
<1>1. /\ e.timeout \in Int /\ e.expire_time \in Int /\ e.last_access_time \in Int
      /\ Ticks(e.timeout) \in Int
  BY TimeFacts DEF EntryOf
<1> QED BY <1>1 DEF EntryExpired

\* An entry accessed now, with no expire time, is alive.
LEMMA PinnedAlive ==
    ASSUME NEW T \in SUBSET Int, NEW K, NEW e \in EntryOf(T, K), NEW t \in Int,
           e.last_access_time = t, e.expire_time < 0
    PROVE  ~EntryExpired(e, t)
<1>1. /\ e.timeout \in Int /\ e.expire_time \in Int
      /\ Ticks(e.timeout) \in Int /\ (e.timeout > 0 => Ticks(e.timeout) > 0)
  BY TimeFacts DEF EntryOf
<1> QED BY <1>1 DEF EntryExpired

\* The sets that are searched are sets of natural numbers.
LEMMA SearchSets ==
    ASSUME NEW em, NEW a, NEW time
    PROVE  /\ LiveAt(em, a, time) \subseteq Indices /\ LiveAt(em, a, time) \in SUBSET Nat
           /\ Reusable(em, time) \subseteq Indices /\ Reusable(em, time) \in SUBSET Nat
BY IndexFacts DEF LiveAt, Reusable

\* What a table is made of.
LEMMA TableFields ==
    ASSUME NEW T \in SUBSET Int, NEW K, NEW em \in TableOf(T, K)
    PROVE  /\ em.num \in 0 .. MaxMappings /\ em.num \in Nat
           /\ em.entry \in [Indices -> EntryOf(T, K)]
           /\ \A i \in Indices : em.entry[i] \in EntryOf(T, K)
BY TableAssumption DEF TableOf

\* The empty table.
LEMMA ResetTableFacts ==
    ASSUME NEW T \in SUBSET Int, 0 \in T, NEW K, NoKey \in K, NEW time
    PROVE  ResetTable \in TableOf(T, K) /\ Covered(ResetTable) /\ LiveFirst(ResetTable, time)
<1>1. EmptyEntry \in EntryOf(T, K)
  BY TimeFacts DEF EmptyEntry, EntryOf
<1>2. 0 \in 0 .. MaxMappings
  BY TableAssumption
<1>3. \A i \in Indices : ResetTable.entry[i].address = NoAddress
  BY DEF ResetTable, EmptyEntry
<1> QED BY <1>1, <1>2, <1>3 DEF ResetTable, TableOf, Covered, LiveFirst

-----------------------------------------------------------------------------
(* netcode_encryption_manager_add_encryption_mapping.                      *)

\* The entry an addition writes: the live one of the address, if there is one,
\* else the first that is reusable.
AddedAt(em, a, time, i) ==
    /\ i \in Indices
    /\ \/ i \in LiveAt(em, a, time) /\ \A j \in LiveAt(em, a, time) : i <= j
       \/ /\ LiveAt(em, a, time) = {}
          /\ i \in Reusable(em, time) /\ \A j \in Reusable(em, time) : i <= j

\* The table with entry i in use for a mapping.
Written(em, i, e) ==
    [num |-> NumAfterAdd(em.num, i), entry |-> [em.entry EXCEPT ![i] = e]]

NewEntry(a, key, time, expire, timeout) ==
    [timeout |-> timeout, expire_time |-> expire,
     last_access_time |-> time, address |-> a, key |-> key]

LEMMA AddWrites ==
    ASSUME NEW em, NEW a, NEW key, NEW time, NEW expire, NEW timeout,
           CanAdd(em, a, time)
    PROVE  \E i \in Indices :
             /\ AddedAt(em, a, time, i)
             /\ AddMapping(em, a, key, time, expire, timeout) =
                  Written(em, i, NewEntry(a, key, time, expire, timeout))
<1> DEFINE L == LiveAt(em, a, time)
           R == Reusable(em, time)
           i == IF L # {} THEN Min(L) ELSE Min(R)
<1>1. L # {} => Min(L) \in L /\ \A j \in L : Min(L) <= j
  <2> HIDE DEF L
  <2>1. L \in SUBSET Nat
    BY SearchSets DEF L
  <2> QED BY <2>1, MinFacts
<1>2. R # {} => Min(R) \in R /\ \A j \in R : Min(R) <= j
  <2> HIDE DEF R
  <2>1. R \in SUBSET Nat
    BY SearchSets DEF R
  <2> QED BY <2>1, MinFacts
<1>3. AddedAt(em, a, time, i)
  <2>1. L # {} \/ R # {}
    BY DEF CanAdd
  <2>2. L \subseteq Indices /\ R \subseteq Indices
    BY SearchSets
  <2> QED BY <1>1, <1>2, <2>1, <2>2 DEF AddedAt
<1>4. i \in Indices
  BY <1>3 DEF AddedAt
<1> QED BY <1>3, <1>4 DEF AddMapping, Written, NewEntry

LEMMA AddFacts ==
    ASSUME NEW T \in SUBSET Int, NEW K, NEW em \in TableOf(T, K),
           NEW a \in Addresses, NEW key \in K, NEW time \in Int, NEW expire \in Int,
           NEW timeout \in T, CanAdd(em, a, time)
    PROVE  LET r == AddMapping(em, a, key, time, expire, timeout)
           IN  /\ r \in TableOf(T, K)
               /\ Covered(em) => Covered(r)
               /\ Covered(em) /\ LiveFirst(em, time) => LiveFirst(r, time)
               /\ \A b \in Addresses \ {a}, j \in Indices :
                    /\ InUse(em, j, b, time) =>
                        InUse(r, j, b, time) /\ r.entry[j] = em.entry[j]
                    /\ Covered(em) /\ InUse(r, j, b, time) => InUse(em, j, b, time)
               /\ \E i \in Indices :
                    /\ i < r.num /\ r.entry[i] = NewEntry(a, key, time, expire, timeout)
                    /\ Covered(em) /\ LiveFirst(em, time) =>
                         \A j \in Indices \ {i} : ~InUse(r, j, a, time)
<1> DEFINE n == NewEntry(a, key, time, expire, timeout)
           r == AddMapping(em, a, key, time, expire, timeout)
<1>1. PICK i \in Indices :
        /\ AddedAt(em, a, time, i)
        /\ r = Written(em, i, n)
  BY AddWrites
<1>2. /\ em.num \in Nat /\ em.num \in 0 .. MaxMappings
      /\ em.entry \in [Indices -> EntryOf(T, K)]
  BY TableFields
<1>3. /\ r.num = NumAfterAdd(em.num, i)
      /\ r.entry = [em.entry EXCEPT ![i] = n]
  BY <1>1 DEF Written
<1>4. n \in EntryOf(T, K) /\ n.address = a
  BY DEF EntryOf, NewEntry
<1>5. r.num \in 0 .. MaxMappings /\ r.num >= em.num /\ i < r.num
  BY <1>2, <1>3, IndexFacts, TableAssumption DEF NumAfterAdd
<1> HIDE DEF n
<1>6. /\ r.entry \in [Indices -> EntryOf(T, K)]
      /\ r.entry[i] = n /\ \A j \in Indices \ {i} : r.entry[j] = em.entry[j]
  BY <1>2, <1>3, <1>4
<1>7. r \in TableOf(T, K)
  <2>1. r = [num |-> r.num, entry |-> r.entry]
    BY <1>1 DEF Written
  <2> HIDE DEF r
  <2> QED BY <2>1, <1>5, <1>6 DEF TableOf
<1> HIDE DEF r
<1>8. ASSUME Covered(em) PROVE Covered(r)
  BY <1>8, <1>2, <1>5, <1>6, IndexFacts DEF Covered
<1>a. a # NoAddress
  BY TableAssumption
<1>9. ASSUME NEW b \in Addresses \ {a}, NEW j \in Indices, InUse(em, j, b, time)
      PROVE  InUse(r, j, b, time) /\ r.entry[j] = em.entry[j]
  <2>1. b # NoAddress
    BY TableAssumption
  <2>2. j # i
    BY <2>1, <1>1, <1>9 DEF AddedAt, LiveAt, Reusable, InUse
  <2>3. r.entry[j] = em.entry[j]
    BY <2>2, <1>6
  <2>4. j < r.num
    BY <1>9, <1>5, <1>2, IndexFacts DEF InUse
  <2> QED BY <2>3, <2>4, <1>9 DEF InUse
<1>10. ASSUME LiveFirst(em, time), Covered(em) PROVE LiveFirst(r, time)
  <2> SUFFICES ASSUME NEW k \in Indices, NEW l \in Indices,
                      r.entry[k].address = r.entry[l].address,
                      r.entry[k].address # NoAddress,
                      ~EntryExpired(r.entry[k], time)
               PROVE  k <= l
    BY DEF LiveFirst
  <2>0. k \in Nat /\ l \in Nat
    BY IndexFacts
  <2>1. CASE k # i /\ l # i
    BY <2>1, <1>6, <1>10 DEF LiveFirst
  <2>2. CASE k = i /\ l # i
    <3>1. em.entry[l].address = a
      BY <2>2, <1>6, <1>4
    <3>2. l < em.num
      BY <3>1, <1>a, <1>10, <2>0, <1>2 DEF Covered
    <3>3. CASE i \in LiveAt(em, a, time)
      <4>1. em.entry[i].address = a /\ ~EntryExpired(em.entry[i], time)
        BY <3>3 DEF LiveAt
      <4> QED BY <4>1, <3>1, <1>a, <1>10, <2>2 DEF LiveFirst
    <3>4. CASE i \notin LiveAt(em, a, time)
      <4>1. LiveAt(em, a, time) = {} /\ \A m \in Reusable(em, time) : i <= m
        BY <3>4, <1>1 DEF AddedAt
      <4>2. EntryExpired(em.entry[l], time)
        BY <4>1, <3>1, <3>2 DEF LiveAt
      <4> QED BY <4>1, <4>2, <2>2 DEF Reusable
    <3> QED BY <3>3, <3>4
  <2>3. CASE k # i /\ l = i
    <3>1. em.entry[k].address = a /\ ~EntryExpired(em.entry[k], time)
      BY <2>3, <1>6, <1>4
    <3>2. k < em.num
      BY <3>1, <1>a, <1>10, <2>0, <1>2 DEF Covered
    <3>3. k \in LiveAt(em, a, time)
      BY <3>1, <3>2 DEF LiveAt
    <3>4. i \in LiveAt(em, a, time)
      BY <3>3, <1>1 DEF AddedAt
    <3>5. em.entry[i].address = a
      BY <3>4 DEF LiveAt
    <3> QED BY <3>1, <3>5, <1>a, <1>10, <2>3 DEF LiveFirst
  <2>4. CASE k = i /\ l = i
    BY <2>0, <2>4
  <2> QED BY <2>1, <2>2, <2>3, <2>4
<1>11. ASSUME Covered(em), NEW b \in Addresses \ {a}, NEW j \in Indices,
              InUse(r, j, b, time)
       PROVE  InUse(em, j, b, time)
  <2>1. j # i
    BY <1>4, <1>6, <1>11 DEF InUse
  <2>2. r.entry[j] = em.entry[j] /\ em.entry[j].address # NoAddress
    BY <2>1, <1>6, <1>11, TableAssumption DEF InUse
  <2>3. j < em.num
    BY <2>2, <1>2, <1>11, IndexFacts DEF Covered
  <2> QED BY <2>2, <2>3, <1>11 DEF InUse
<1>12. ASSUME Covered(em), LiveFirst(em, time), NEW j \in Indices \ {i}
       PROVE  ~InUse(r, j, a, time)
  <2> SUFFICES ASSUME InUse(r, j, a, time) PROVE FALSE
    OBVIOUS
  <2>1. em.entry[j].address = a /\ ~EntryExpired(em.entry[j], time)
    BY <1>6 DEF InUse
  <2>2. j < em.num
    BY <2>1, <1>a, <1>2, <1>12, IndexFacts DEF Covered
  <2>3. j \in LiveAt(em, a, time)
    BY <2>1, <2>2 DEF LiveAt
  <2>4. i \in LiveAt(em, a, time)
    BY <2>3, <1>1 DEF AddedAt
  <2>5. em.entry[i].address = a /\ ~EntryExpired(em.entry[i], time)
    BY <2>4 DEF LiveAt
  <2>6. i <= j /\ j <= i
    BY <2>1, <2>5, <1>a, <1>12 DEF LiveFirst
  <2> QED BY <2>6, IndexFacts
<1>13. /\ i < r.num /\ r.entry[i] = n
       /\ Covered(em) /\ LiveFirst(em, time) =>
            \A j \in Indices \ {i} : ~InUse(r, j, a, time)
  BY <1>5, <1>6, <1>12
<1> QED BY <1>7, <1>8, <1>9, <1>10, <1>11, <1>13 DEF r, n

\* The part of it about the search bound.
LEMMA AddCovers ==
    ASSUME NEW T \in SUBSET Int, NEW K, NEW em \in TableOf(T, K),
           NEW a \in Addresses, NEW key \in K, NEW time \in Int, NEW expire \in Int,
           NEW timeout \in T, CanAdd(em, a, time), Covered(em)
    PROVE  Covered(AddMapping(em, a, key, time, expire, timeout))
BY AddFacts

-----------------------------------------------------------------------------
(* netcode_encryption_manager_remove_encryption_mapping.                   *)

\* The tables a removal may leave when i is the first entry of the address.
Cleared(em, i) == [em.entry EXCEPT ![i] = ClearedEntry(em.entry[i])]

Shrunk(em, i, last) ==
    [num   |-> NumAfterRemove(last),
     entry |-> [j \in Indices |-> IF last < j /\ j < i
                                 THEN [Cleared(em, i)[j] EXCEPT !.address = NoAddress]
                                 ELSE Cleared(em, i)[j]]]

RemovedAt(em, a, i) ==
    /\ i \in Indices /\ i < em.num /\ em.entry[i].address = a
    /\ \A j \in Indices : j < em.num /\ em.entry[j].address = a => i <= j

\* The last live entry before i, or -1.
LastLive(entry, i, time, last) ==
    /\ last \in Indices \cup {NotFound} /\ last < i
    /\ \A j \in Indices : last < j /\ j < i => EntryExpired(entry[j], time)

LEMMA LastLiveBelowFacts ==
    ASSUME NEW entry, NEW i \in Indices, NEW time
    PROVE  LastLive(entry, i, time, LastLiveBelow(entry, i, time))
<1> DEFINE S == {NotFound} \cup {j \in Indices : j < i /\ ~EntryExpired(entry[j], time)}
<1>0. i \in Nat /\ NotFound \in Int /\ NotFound < i
  BY IndexFacts DEF NotFound
<1>1. S \in SUBSET Int /\ S # {} /\ i \in Int /\ \A y \in S : y <= i
  <2>1. \A y \in S : y \in Int /\ y < i /\ y \in Indices \cup {NotFound}
    BY <1>0, IndexFacts
  <2>2. NotFound \in S
    OBVIOUS
  <2> HIDE DEF S
  <2> QED BY <2>1, <2>2, <1>0
<1>2. Max(S) \in S /\ \A y \in S : Max(S) >= y
  <2> HIDE DEF S
  <2> QED BY <1>1, MaxFacts
<1>3. Max(S) = LastLiveBelow(entry, i, time)
  BY DEF LastLiveBelow
<1>4. Max(S) \in Indices \cup {NotFound} /\ Max(S) < i /\ Max(S) \in Int
  <2>1. \A y \in S : y \in Int /\ y < i /\ y \in Indices \cup {NotFound}
    BY <1>0, IndexFacts
  <2> HIDE DEF S
  <2> QED BY <2>1, <1>2
<1>5. ASSUME NEW j \in Indices, Max(S) < j, j < i, ~EntryExpired(entry[j], time)
      PROVE  FALSE
  <2>1. j \in S
    BY <1>5
  <2>2. Max(S) >= j /\ j \in Int
    BY <2>1, <1>2, IndexFacts
  <2> HIDE DEF S
  <2> QED BY <2>2, <1>4, <1>5
<1> HIDE DEF S
<1> QED BY <1>3, <1>4, <1>5 DEF LastLive

LEMMA RemoveWrites ==
    ASSUME NEW em, NEW a, NEW time
    PROVE  \/ /\ \A j \in Indices : j < em.num => em.entry[j].address # a
              /\ RemoveMapping(em, a, time) = em
           \/ \E i \in Indices :
                /\ RemovedAt(em, a, i)
                /\ \/ /\ i + 1 # em.num
                      /\ RemoveMapping(em, a, time) = [em EXCEPT !.entry = Cleared(em, i)]
                   \/ /\ i + 1 = em.num
                      /\ RemoveMapping(em, a, time) =
                           Shrunk(em, i, LastLiveBelow(Cleared(em, i), i, time))
<1> DEFINE found == {i \in Indices : i < em.num /\ em.entry[i].address = a}
           i == Min(found)
<1>1. CASE found = {}
  BY <1>1 DEF RemoveMapping
<1>2. CASE found # {}
  <2>1. i \in found /\ \A j \in found : i <= j
    <3>1. found \in SUBSET Nat
      BY IndexFacts
    <3> HIDE DEF found
    <3> QED BY <3>1, <1>2, MinFacts
  <2>2. RemovedAt(em, a, i)
    BY <2>1 DEF RemovedAt
  <2>3. i \in Indices
    BY <2>1
  <2>4. Cleared(em, i) = [em.entry EXCEPT ![i] = ClearedEntry(@)]
    BY DEF Cleared
  <2>5. CASE i + 1 # em.num
    <3>1. RemoveMapping(em, a, time) = [em EXCEPT !.entry = Cleared(em, i)]
      BY <1>2, <2>5, <2>4 DEF RemoveMapping
    <3> HIDE DEF i
    <3> QED BY <2>2, <2>3, <2>5, <3>1
  <2>6. CASE i + 1 = em.num
    <3>1. RemoveMapping(em, a, time) =
            Shrunk(em, i, LastLiveBelow(Cleared(em, i), i, time))
      BY <1>2, <2>6, Zenon DEF RemoveMapping, Shrunk, Cleared
    <3> HIDE DEF i
    <3> QED BY <2>2, <2>3, <2>6, <3>1
  <2> QED BY <2>5, <2>6
<1> QED BY <1>1, <1>2

\* A cleared entry, and one whose address is reset, is an entry.
LEMMA ClearedTypes ==
    ASSUME NEW T \in SUBSET Int, NEW K, NoKey \in K, NEW e \in EntryOf(T, K)
    PROVE  /\ ClearedEntry(e) \in EntryOf(T, K) /\ ClearedEntry(e).address = NoAddress
           /\ [e EXCEPT !.address = NoAddress] \in EntryOf(T, K)
           /\ [e EXCEPT !.address = NoAddress].address = NoAddress
<1>2. e.timeout \in T
  BY DEF EntryOf
<1>3. ClearedEntry(e) = [timeout |-> e.timeout, expire_time |-> Never,
                         last_access_time |-> LongAgo, address |-> NoAddress, key |-> NoKey]
  BY DEF ClearedEntry, EmptyEntry
<1>4. ClearedEntry(e) \in EntryOf(T, K) /\ ClearedEntry(e).address = NoAddress
  BY <1>2, <1>3, TimeFacts DEF EntryOf
<1>5. /\ [e EXCEPT !.address = NoAddress] \in EntryOf(T, K)
      /\ [e EXCEPT !.address = NoAddress].address = NoAddress
  BY DEF EntryOf
<1> QED BY <1>4, <1>5

\* What both ways to remove have in common: entry i is given up, with it only
\* entries that are not in use, and the bound stays above all that are.
GivenUp(em, i, r, time) ==
    /\ r.num <= em.num
    /\ r.entry[i].address = NoAddress
    /\ \A j \in Indices \ {i} :
         \/ r.entry[j] = em.entry[j] /\ (j < em.num => j < r.num)
         \/ r.entry[j].address = NoAddress /\ EntryExpired(em.entry[j], time)

LEMMA RemoveGivesUp ==
    ASSUME NEW T \in SUBSET Int, NEW K, NoKey \in K, NEW em \in TableOf(T, K),
           NEW a \in Addresses, NEW time \in Int
    PROVE  LET r == RemoveMapping(em, a, time)
           IN  \/ /\ \A j \in Indices : j < em.num => em.entry[j].address # a
                  /\ r = em
               \/ \E i \in Indices :
                     RemovedAt(em, a, i) /\ r \in TableOf(T, K) /\ GivenUp(em, i, r, time)
<1> DEFINE r == RemoveMapping(em, a, time)
<1>1. /\ em.num \in Nat /\ em.num \in 0 .. MaxMappings
      /\ em.entry \in [Indices -> EntryOf(T, K)]
  BY TableFields
<1>2. ASSUME NEW i \in Indices
      PROVE  /\ Cleared(em, i) \in [Indices -> EntryOf(T, K)]
             /\ Cleared(em, i)[i].address = NoAddress
             /\ \A j \in Indices \ {i} : Cleared(em, i)[j] = em.entry[j]
  BY <1>1, ClearedTypes DEF Cleared
<1>3. CASE r = em /\ \A j \in Indices : j < em.num => em.entry[j].address # a
  BY <1>3
<1>4. ASSUME NEW i \in Indices, RemovedAt(em, a, i), i + 1 # em.num,
             r = [em EXCEPT !.entry = Cleared(em, i)]
      PROVE  r \in TableOf(T, K) /\ GivenUp(em, i, r, time)
  <2>1. r.num = em.num /\ r.entry = Cleared(em, i)
    BY <1>4 DEF TableOf
  <2>2. r \in TableOf(T, K)
    BY <1>4, <1>2 DEF TableOf
  <2> HIDE DEF r
  <2> QED BY <2>1, <2>2, <1>1, <1>2, IndexFacts DEF GivenUp
<1>5. ASSUME NEW i \in Indices, RemovedAt(em, a, i), i + 1 = em.num,
             r = Shrunk(em, i, LastLiveBelow(Cleared(em, i), i, time))
      PROVE  r \in TableOf(T, K) /\ GivenUp(em, i, r, time)
  <2> DEFINE c == Cleared(em, i)
             last == LastLiveBelow(c, i, time)
  <2>1. LastLive(c, i, time, last)
    BY LastLiveBelowFacts
  <2>2. /\ r.num = last + 1
        /\ r.entry = [j \in Indices |-> IF last < j /\ j < i
                                        THEN [c[j] EXCEPT !.address = NoAddress] ELSE c[j]]
        /\ r = [num |-> r.num, entry |-> r.entry]
    BY <1>5 DEF Shrunk, NumAfterRemove
  <2>3. c \in [Indices -> EntryOf(T, K)] /\ c[i].address = NoAddress
        /\ \A j \in Indices \ {i} : c[j] = em.entry[j]
    BY <1>2
  <2> HIDE DEF c, last, r
  <2>4. last \in Int /\ last >= -1 /\ last < i /\ i \in Nat /\ i < em.num
    BY <2>1, <1>5, <1>1, IndexFacts DEF LastLive, NotFound
  <2>5. r.num \in 0 .. MaxMappings /\ r.num <= em.num
    BY <2>2, <2>4, <1>1, TableAssumption
  <2>6. ASSUME NEW j \in Indices
        PROVE  /\ r.entry[j] \in EntryOf(T, K)
               /\ last < j /\ j < i => r.entry[j].address = NoAddress
               /\ ~(last < j /\ j < i) => r.entry[j] = c[j]
    <3>1. c[j] \in EntryOf(T, K)
      BY <2>3
    <3>2. /\ [c[j] EXCEPT !.address = NoAddress] \in EntryOf(T, K)
          /\ [c[j] EXCEPT !.address = NoAddress].address = NoAddress
      BY <3>1, ClearedTypes
    <3>3. r.entry[j] = IF last < j /\ j < i
                       THEN [c[j] EXCEPT !.address = NoAddress] ELSE c[j]
      BY <2>2
    <3> QED BY <3>1, <3>2, <3>3
  <2>7. r \in TableOf(T, K)
    <3>1. r.entry = [j \in Indices |-> r.entry[j]]
      BY <2>2
    <3>2. r.entry \in [Indices -> EntryOf(T, K)]
      BY <3>1, <2>6
    <3> QED BY <2>2, <2>5, <3>2 DEF TableOf
  <2>8. r.entry[i].address = NoAddress
    BY <2>3, <2>4, <2>6
  <2>9. ASSUME NEW j \in Indices \ {i}
        PROVE  \/ r.entry[j] = em.entry[j] /\ (j < em.num => j < r.num)
               \/ r.entry[j].address = NoAddress /\ EntryExpired(em.entry[j], time)
    <3>1. j \in Nat
      BY IndexFacts
    <3>2. CASE last < j /\ j < i
      BY <3>2, <2>1, <2>3, <2>6 DEF LastLive
    <3>3. CASE ~(last < j /\ j < i)
      <4>1. r.entry[j] = em.entry[j]
        BY <3>3, <2>3, <2>6
      <4>2. j < em.num => j < r.num
        BY <3>1, <3>3, <2>2, <2>4, <1>1, <1>5
      <4> QED BY <4>1, <4>2
    <3> QED BY <3>2, <3>3
  <2> QED BY <2>5, <2>7, <2>8, <2>9 DEF GivenUp
<1> HIDE DEF r
<1> QED BY <1>3, <1>4, <1>5, RemoveWrites DEF r

LEMMA RemoveFacts ==
    ASSUME NEW T \in SUBSET Int, NEW K, NoKey \in K, NEW em \in TableOf(T, K),
           NEW a \in Addresses, NEW time \in Int
    PROVE  LET r == RemoveMapping(em, a, time)
           IN  /\ r \in TableOf(T, K)
               /\ Covered(em) => Covered(r)
               /\ LiveFirst(em, time) => LiveFirst(r, time)
               /\ \A b \in Addresses \ {a}, j \in Indices :
                    /\ InUse(em, j, b, time) =>
                        InUse(r, j, b, time) /\ r.entry[j] = em.entry[j]
                    /\ InUse(r, j, b, time) => InUse(em, j, b, time)
               /\ LiveFirst(em, time) => \A j \in Indices : ~InUse(r, j, a, time)
<1> DEFINE r == RemoveMapping(em, a, time)
<1> HIDE DEF r
<1>1. em.num \in Nat
  BY TableFields
<1>2. CASE r = em /\ \A j \in Indices : j < em.num => em.entry[j].address # a
  BY <1>2 DEF InUse, r
<1>3. ASSUME NEW i \in Indices, RemovedAt(em, a, i), r \in TableOf(T, K),
             GivenUp(em, i, r, time)
      PROVE  /\ Covered(em) => Covered(r)
             /\ LiveFirst(em, time) => LiveFirst(r, time)
             /\ \A b \in Addresses \ {a}, j \in Indices :
                  /\ InUse(em, j, b, time) =>
                      InUse(r, j, b, time) /\ r.entry[j] = em.entry[j]
                  /\ InUse(r, j, b, time) => InUse(em, j, b, time)
             /\ LiveFirst(em, time) => \A j \in Indices : ~InUse(r, j, a, time)
  <2>1. r.num \in Nat /\ r.num <= em.num /\ r.entry[i].address = NoAddress
    BY <1>3, TableFields DEF GivenUp
  <2>2. ASSUME NEW j \in Indices
        PROVE  /\ j \in Nat
               /\ r.entry[j].address = NoAddress \/ (r.entry[j] = em.entry[j] /\ j # i)
               /\ j # i /\ ~EntryExpired(em.entry[j], time) =>
                    r.entry[j] = em.entry[j] /\ (j < em.num => j < r.num)
    BY <1>3, <2>1, IndexFacts DEF GivenUp
  <2>3. ASSUME Covered(em) PROVE Covered(r)
    <3> SUFFICES ASSUME NEW j \in Indices, j >= r.num PROVE r.entry[j].address = NoAddress
      BY DEF Covered
    <3>1. CASE j >= em.num
      BY <3>1, <2>2, <2>3 DEF Covered
    <3>2. CASE j < em.num
      BY <3>2, <2>1, <2>2, <1>1, <1>3 DEF GivenUp
    <3> QED BY <3>1, <3>2, <2>2, <1>1
  <2>4. ASSUME LiveFirst(em, time) PROVE LiveFirst(r, time)
    BY <2>2, <2>4 DEF LiveFirst
  <2>5. ASSUME NEW b \in Addresses \ {a}, NEW j \in Indices, InUse(em, j, b, time)
        PROVE  InUse(r, j, b, time) /\ r.entry[j] = em.entry[j]
    <3>1. j # i /\ j < em.num /\ ~EntryExpired(em.entry[j], time)
      BY <2>5, <1>3 DEF InUse, RemovedAt
    <3> QED BY <3>1, <2>2, <2>5 DEF InUse
  <2>6. ASSUME NEW b \in Addresses, NEW j \in Indices, InUse(r, j, b, time)
        PROVE  InUse(em, j, b, time) /\ j # i
    <3>1. b # NoAddress
      BY TableAssumption
    <3>2. r.entry[j] = em.entry[j] /\ j # i
      BY <3>1, <2>2, <2>6 DEF InUse
    <3>3. j < em.num
      BY <2>1, <2>2, <2>6, <1>1 DEF InUse
    <3> QED BY <3>2, <3>3, <2>6 DEF InUse
  <2>7. ASSUME LiveFirst(em, time), NEW j \in Indices, InUse(r, j, a, time) PROVE FALSE
    <3>1. InUse(em, j, a, time) /\ j # i
      BY <2>6, <2>7
    <3>2. em.entry[i].address = a /\ i <= j
      BY <3>1, <1>3 DEF RemovedAt, InUse
    <3>3. j <= i
      BY <3>1, <3>2, <2>7, TableAssumption DEF InUse, LiveFirst
    <3> QED BY <3>1, <3>2, <3>3, <2>2
  <2> QED BY <2>3, <2>4, <2>5, <2>6, <2>7
<1> QED BY <1>2, <1>3, RemoveGivesUp DEF r

-----------------------------------------------------------------------------
(* Searching, accessing and pinning a mapping.                             *)

\* A search finds the entry in use, or nothing.
LEMMA FindFacts ==
    ASSUME NEW em, NEW a, NEW time
    PROVE  \/ /\ FindIndex(em, a, time) = NotFound
              /\ LiveAt(em, a, time) = {}
              /\ \A j \in Indices : ~InUse(em, j, a, time)
           \/ /\ FindIndex(em, a, time) \in Indices
              /\ LiveAt(em, a, time) # {}
              /\ InUse(em, FindIndex(em, a, time), a, time)
<1> DEFINE L == LiveAt(em, a, time)
<1>1. CASE L = {}
  BY <1>1 DEF FindIndex, LiveAt, InUse
<1>2. CASE L # {}
  <2>1. Min(L) \in L
    <3>1. L \in SUBSET Nat
      BY SearchSets
    <3> HIDE DEF L
    <3> QED BY <3>1, <1>2, MinFacts
  <2>2. FindIndex(em, a, time) = Min(L)
    BY <1>2 DEF FindIndex
  <2>3. \A i \in L : i \in Indices /\ InUse(em, i, a, time)
    BY DEF LiveAt, InUse
  <2> HIDE DEF L
  <2> QED BY <1>2, <2>1, <2>2, <2>3 DEF L
<1> QED BY <1>1, <1>2

\* At most one entry of an address is in use.
LEMMA FindUnique ==
    ASSUME NEW em, NEW a \in Addresses, NEW time, LiveFirst(em, time),
           NEW i \in Indices, InUse(em, i, a, time)
    PROVE  FindIndex(em, a, time) = i
<1> DEFINE k == FindIndex(em, a, time)
<1>1. k \in Indices /\ InUse(em, k, a, time)
  BY FindFacts
<1>2. i <= k /\ k <= i
  BY <1>1, TableAssumption DEF LiveFirst, InUse
<1> HIDE DEF k
<1>3. i = k
  BY <1>1, <1>2, IndexFacts
<1> QED BY <1>3 DEF k

\* Entry i of the table replaced.
Replaced(em, i, e) == [em EXCEPT !.entry[i] = e]

\* Replacing an entry in use by one for the same address leaves the rest of the
\* table alone.
LEMMA ReplaceFacts ==
    ASSUME NEW T \in SUBSET Int, NEW K, NEW em \in TableOf(T, K), NEW a \in Addresses,
           NEW time, NEW i \in Indices, InUse(em, i, a, time),
           NEW e \in EntryOf(T, K), e.address = a
    PROVE  LET r == Replaced(em, i, e)
           IN  /\ r \in TableOf(T, K)
               /\ r.num = em.num /\ r.entry[i] = e
               /\ \A j \in Indices \ {i} : r.entry[j] = em.entry[j]
               /\ Covered(em) => Covered(r)
               /\ LiveFirst(em, time) => LiveFirst(r, time)
               /\ ~EntryExpired(e, time) =>
                    \A b \in Addresses, j \in Indices :
                        InUse(r, j, b, time) <=> InUse(em, j, b, time)
<1> DEFINE r == Replaced(em, i, e)
<1>1. r \in TableOf(T, K)
  BY DEF Replaced, TableOf
<1>2. /\ r.num = em.num /\ r.entry[i] = e
      /\ \A j \in Indices \ {i} : r.entry[j] = em.entry[j]
  BY DEF Replaced, TableOf
<1> HIDE DEF r
<1>3. \A j \in Indices : r.entry[j].address = em.entry[j].address
  BY <1>2 DEF InUse
<1>4. Covered(em) => Covered(r)
  BY <1>2, <1>3 DEF Covered
<1>5. LiveFirst(em, time) => LiveFirst(r, time)
  BY <1>2, <1>3 DEF LiveFirst, InUse
<1>6. ~EntryExpired(e, time) =>
        \A b \in Addresses, j \in Indices : InUse(r, j, b, time) <=> InUse(em, j, b, time)
  BY <1>2, <1>3 DEF InUse
<1> QED BY <1>1, <1>2, <1>4, <1>5, <1>6 DEF r

\* The entries a search and a send, and a connection, write.
Accessed(e, time) == [e EXCEPT !.last_access_time = time]
Pinned(e) == [e EXCEPT !.expire_time = Never]

LEMMA AccessedFacts ==
    ASSUME NEW T \in SUBSET Int, NEW K, NEW e \in EntryOf(T, K), NEW time \in Int
    PROVE  /\ Accessed(e, time) \in EntryOf(T, K)
           /\ Accessed(e, time).address = e.address
           /\ Accessed(e, time).key = e.key
           /\ Accessed(e, time).timeout = e.timeout
           /\ Accessed(e, time).last_access_time = time
           /\ Accessed(e, time).expire_time = e.expire_time
           /\ ~EntryExpired(e, time) => ~EntryExpired(Accessed(e, time), time)
<1>1. /\ e.timeout \in Int /\ e.expire_time \in Int /\ e.last_access_time \in Int
      /\ Ticks(e.timeout) \in Int /\ (e.timeout > 0 => Ticks(e.timeout) > 0)
  BY TimeFacts DEF EntryOf
<1>2. /\ Accessed(e, time) \in EntryOf(T, K)
      /\ Accessed(e, time).address = e.address
      /\ Accessed(e, time).key = e.key
      /\ Accessed(e, time).timeout = e.timeout
      /\ Accessed(e, time).last_access_time = time
      /\ Accessed(e, time).expire_time = e.expire_time
  BY DEF EntryOf, Accessed
<1>3. ASSUME ~EntryExpired(e, time) PROVE ~EntryExpired(Accessed(e, time), time)
  BY <1>1, <1>2, <1>3 DEF EntryExpired
<1> QED BY <1>2, <1>3

LEMMA PinnedFacts ==
    ASSUME NEW T \in SUBSET Int, NEW K, NEW e \in EntryOf(T, K), NEW time \in Int
    PROVE  /\ Pinned(e) \in EntryOf(T, K)
           /\ Pinned(e).address = e.address
           /\ Pinned(e).key = e.key
           /\ Pinned(e).timeout = e.timeout
           /\ Pinned(e).last_access_time = e.last_access_time
           /\ Pinned(e).expire_time = Never
           /\ ~EntryExpired(e, time) => ~EntryExpired(Pinned(e), time)
<1>1. /\ e.timeout \in Int /\ e.expire_time \in Int /\ e.last_access_time \in Int
      /\ Ticks(e.timeout) \in Int /\ (e.timeout > 0 => Ticks(e.timeout) > 0)
  BY TimeFacts DEF EntryOf
<1>2. /\ Pinned(e) \in EntryOf(T, K)
      /\ Pinned(e).address = e.address
      /\ Pinned(e).key = e.key
      /\ Pinned(e).timeout = e.timeout
      /\ Pinned(e).last_access_time = e.last_access_time
      /\ Pinned(e).expire_time = Never
  BY TimeFacts DEF EntryOf, Pinned
<1>3. ASSUME ~EntryExpired(e, time) PROVE ~EntryExpired(Pinned(e), time)
  BY <1>1, <1>2, <1>3, TimeFacts DEF EntryExpired
<1> QED BY <1>2, <1>3

\* The operations as replacements.
LEMMA AccessWrites ==
    ASSUME NEW T \in SUBSET Int, NEW K, NEW em \in TableOf(T, K), NEW a, NEW time,
           NEW i \in Indices
    PROVE  /\ FindTouch(em, a, time) =
                IF LiveAt(em, a, time) = {} THEN em
                ELSE Replaced(em, FindIndex(em, a, time),
                              Accessed(em.entry[FindIndex(em, a, time)], time))
           /\ em.entry[i].address = a =>
                TouchMapping(em, i, a, time) = Replaced(em, i, Accessed(em.entry[i], time))
           /\ SetExpireTime(em, i, Never) = Replaced(em, i, Pinned(em.entry[i]))
BY DEF FindTouch, TouchMapping, TouchAllowed, SetExpireTime, Replaced, Accessed, Pinned

\* A search changes nothing but the access time of the entry it finds.
LEMMA FindTouchFacts ==
    ASSUME NEW T \in SUBSET Int, NEW K, NEW em \in TableOf(T, K), NEW a \in Addresses,
           NEW time \in Int
    PROVE  LET r == FindTouch(em, a, time)
           IN  /\ r \in TableOf(T, K)
               /\ Covered(em) => Covered(r)
               /\ LiveFirst(em, time) => LiveFirst(r, time)
               /\ \A b \in Addresses, j \in Indices :
                    /\ InUse(r, j, b, time) <=> InUse(em, j, b, time)
                    /\ b # a /\ InUse(em, j, b, time) => r.entry[j] = em.entry[j]
                    /\ LiveFirst(em, time) /\ InUse(em, j, a, time) =>
                         r.entry[j] = Accessed(em.entry[j], time)
               /\ FindIndex(em, a, time) # NotFound =>
                    r.entry[FindIndex(em, a, time)] =
                        Accessed(em.entry[FindIndex(em, a, time)], time)
<1> DEFINE r == FindTouch(em, a, time)
           i == FindIndex(em, a, time)
<1>1. CASE LiveAt(em, a, time) = {}
  <2>1. r = em
    BY <1>1 DEF FindTouch
  <2>2. \A j \in Indices : ~InUse(em, j, a, time)
    BY <1>1 DEF LiveAt, InUse
  <2>3. FindIndex(em, a, time) = NotFound
    BY <1>1 DEF FindIndex
  <2> QED BY <2>1, <2>2, <2>3
<1>2. CASE LiveAt(em, a, time) # {}
  <2>1. i \in Indices /\ InUse(em, i, a, time)
    BY <1>2, FindFacts
  <2> DEFINE e == Accessed(em.entry[i], time)
  <2>2. r = Replaced(em, i, e)
    BY <1>2 DEF FindTouch, Replaced, Accessed
  <2>3. e \in EntryOf(T, K) /\ e.address = a /\ ~EntryExpired(e, time)
    <3>1. em.entry[i] \in EntryOf(T, K)
      BY <2>1, TableFields
    <3>2. em.entry[i].address = a /\ ~EntryExpired(em.entry[i], time)
      BY <2>1 DEF InUse
    <3>3. /\ Accessed(em.entry[i], time) \in EntryOf(T, K)
          /\ Accessed(em.entry[i], time).address = em.entry[i].address
      BY <3>1, AccessedFacts
    <3>4. ~EntryExpired(Accessed(em.entry[i], time), time)
      BY <3>1, <3>2, AccessedFacts
    <3> QED BY <3>2, <3>3, <3>4
  <2>4. \A j \in Indices : LiveFirst(em, time) /\ InUse(em, j, a, time) => j = i
    BY FindUnique
  <2>5. \A b \in Addresses, j \in Indices : b # a /\ InUse(em, j, b, time) => j # i
    BY <2>1 DEF InUse
  <2> HIDE DEF e, i, r
  <2>6. /\ r \in TableOf(T, K)
        /\ r.num = em.num /\ r.entry[i] = e
        /\ \A j \in Indices \ {i} : r.entry[j] = em.entry[j]
        /\ Covered(em) => Covered(r)
        /\ LiveFirst(em, time) => LiveFirst(r, time)
        /\ \A b \in Addresses, j \in Indices :
                InUse(r, j, b, time) <=> InUse(em, j, b, time)
    BY <2>1, <2>2, <2>3, ReplaceFacts
  <2> QED BY <2>4, <2>5, <2>6 DEF e, i, r
<1> QED BY <1>1, <1>2

\* A touch of the entry in use changes nothing but its access time.
LEMMA TouchFacts ==
    ASSUME NEW T \in SUBSET Int, NEW K, NEW em \in TableOf(T, K), NEW a \in Addresses,
           NEW time \in Int, NEW i \in Indices, InUse(em, i, a, time)
    PROVE  LET r == TouchMapping(em, i, a, time)
           IN  /\ r \in TableOf(T, K)
               /\ Covered(em) => Covered(r)
               /\ LiveFirst(em, time) => LiveFirst(r, time)
               /\ \A b \in Addresses, j \in Indices :
                    InUse(r, j, b, time) <=> InUse(em, j, b, time)
               /\ \A j \in Indices \ {i} : r.entry[j] = em.entry[j]
               /\ r.entry[i] = Accessed(em.entry[i], time)
<1> DEFINE r == TouchMapping(em, i, a, time)
           e == Accessed(em.entry[i], time)
<1>1. em.entry[i].address = a
  BY DEF InUse
<1>2. r = Replaced(em, i, e)
  BY <1>1, AccessWrites
<1>3. e \in EntryOf(T, K) /\ e.address = a /\ ~EntryExpired(e, time)
  <2>1. em.entry[i] \in EntryOf(T, K)
    BY TableFields
  <2>2. em.entry[i].address = a /\ ~EntryExpired(em.entry[i], time)
    BY DEF InUse
  <2> QED BY <2>1, <2>2, AccessedFacts
<1> HIDE DEF e, r
<1>4. /\ r \in TableOf(T, K)
      /\ r.num = em.num /\ r.entry[i] = e
      /\ \A j \in Indices \ {i} : r.entry[j] = em.entry[j]
      /\ Covered(em) => Covered(r)
      /\ LiveFirst(em, time) => LiveFirst(r, time)
      /\ \A b \in Addresses, j \in Indices :
              InUse(r, j, b, time) <=> InUse(em, j, b, time)
  BY <1>2, <1>3, ReplaceFacts
<1> QED BY <1>4 DEF e, r

\* Pinning the entry in use changes nothing but its expire time.
LEMMA PinFacts ==
    ASSUME NEW T \in SUBSET Int, NEW K, NEW em \in TableOf(T, K), NEW a \in Addresses,
           NEW time \in Int, NEW i \in Indices, InUse(em, i, a, time)
    PROVE  LET r == SetExpireTime(em, i, Never)
           IN  /\ r \in TableOf(T, K)
               /\ Covered(em) => Covered(r)
               /\ LiveFirst(em, time) => LiveFirst(r, time)
               /\ \A b \in Addresses, j \in Indices :
                    InUse(r, j, b, time) <=> InUse(em, j, b, time)
               /\ \A j \in Indices \ {i} : r.entry[j] = em.entry[j]
               /\ r.entry[i] = Pinned(em.entry[i])
<1> DEFINE r == SetExpireTime(em, i, Never)
           e == Pinned(em.entry[i])
<1>2. r = Replaced(em, i, e)
  BY AccessWrites
<1>3. e \in EntryOf(T, K) /\ e.address = a /\ ~EntryExpired(e, time)
  <2>1. em.entry[i] \in EntryOf(T, K)
    BY TableFields
  <2>2. em.entry[i].address = a /\ ~EntryExpired(em.entry[i], time)
    BY DEF InUse
  <2> QED BY <2>1, <2>2, PinnedFacts
<1> HIDE DEF e, r
<1>4. /\ r \in TableOf(T, K)
      /\ r.num = em.num /\ r.entry[i] = e
      /\ \A j \in Indices \ {i} : r.entry[j] = em.entry[j]
      /\ Covered(em) => Covered(r)
      /\ LiveFirst(em, time) => LiveFirst(r, time)
      /\ \A b \in Addresses, j \in Indices :
              InUse(r, j, b, time) <=> InUse(em, j, b, time)
  BY <1>2, <1>3, ReplaceFacts
<1> QED BY <1>4 DEF e, r

\* netcode_server_connect_client: the mapping found is pinned and touched.
LEMMA ConnectFacts ==
    ASSUME NEW T \in SUBSET Int, NEW K, NEW em \in TableOf(T, K), NEW a \in Addresses,
           NEW time \in Int, LiveFirst(em, time), FindIndex(em, a, time) # NotFound
    PROVE  LET i == FindIndex(em, a, time)
               r == TouchMapping(SetExpireTime(FindTouch(em, a, time), i, Never), i, a, time)
           IN  /\ r \in TableOf(T, K)
               /\ Covered(em) => Covered(r)
               /\ LiveFirst(r, time)
               /\ i \in Indices /\ InUse(em, i, a, time)
               /\ \A b \in Addresses, j \in Indices :
                    /\ InUse(r, j, b, time) <=> InUse(em, j, b, time)
                    /\ b # a /\ InUse(em, j, b, time) => r.entry[j] = em.entry[j]
               /\ r.entry[i] = Accessed(Pinned(em.entry[i]), time)
<1> DEFINE i == FindIndex(em, a, time)
           f == FindTouch(em, a, time)
           p == SetExpireTime(f, i, Never)
           r == TouchMapping(p, i, a, time)
<1>1. i \in Indices /\ InUse(em, i, a, time)
  BY FindFacts
<1>2. /\ f \in TableOf(T, K) /\ (Covered(em) => Covered(f)) /\ LiveFirst(f, time)
      /\ \A b \in Addresses, j \in Indices :
           /\ InUse(f, j, b, time) <=> InUse(em, j, b, time)
           /\ b # a /\ InUse(em, j, b, time) => f.entry[j] = em.entry[j]
      /\ f.entry[i] = Accessed(em.entry[i], time)
  BY FindTouchFacts
<1>3. \A b \in Addresses, j \in Indices : b # a /\ InUse(em, j, b, time) => j # i
  BY <1>1 DEF InUse
<1> HIDE DEF i, f, p, r
<1>4. /\ p \in TableOf(T, K) /\ (Covered(f) => Covered(p)) /\ LiveFirst(p, time)
      /\ \A b \in Addresses, j \in Indices :
           InUse(p, j, b, time) <=> InUse(f, j, b, time)
      /\ \A j \in Indices \ {i} : p.entry[j] = f.entry[j]
      /\ p.entry[i] = Pinned(f.entry[i])
  BY <1>1, <1>2, PinFacts DEF p
<1>5. /\ r \in TableOf(T, K) /\ (Covered(p) => Covered(r)) /\ LiveFirst(r, time)
      /\ \A b \in Addresses, j \in Indices :
           InUse(r, j, b, time) <=> InUse(p, j, b, time)
      /\ \A j \in Indices \ {i} : r.entry[j] = p.entry[j]
      /\ r.entry[i] = Accessed(p.entry[i], time)
  BY <1>1, <1>2, <1>4, TouchFacts DEF r
<1>6. em.entry[i] \in EntryOf(T, K)
  BY <1>1, TableFields
<1>7. r.entry[i] = Accessed(Pinned(em.entry[i]), time)
  BY <1>2, <1>4, <1>5, <1>6 DEF Accessed, Pinned, EntryOf
<1> QED BY <1>1, <1>2, <1>3, <1>4, <1>5, <1>7 DEF i, f, p, r
=============================================================================

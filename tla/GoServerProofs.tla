--------------------------- MODULE GoServerProofs ---------------------------
(***************************************************************************)
(* The safety of the Go server for every number of clients, entries,       *)
(* addresses and tokens, every capacity of its channel and queues, every   *)
(* sequence of packets and calls.                                          *)
(***************************************************************************)
EXTENDS GoServer, FiniteSetTheorems, WellFoundedInduction, TLAPS

-----------------------------------------------------------------------------
(* The first and the last element of a set of numbers.                     *)

\* A set of natural numbers that is not empty has a smallest element.
LEMMA NatMin ==
    ASSUME NEW S \in SUBSET Nat, S # {}
    PROVE  \E x \in S : \A y \in S : x <= y
<1> DEFINE R == OpToRel(<, Nat)
<1>1. IsWellFoundedOn(R, Nat)
  BY NatLessThanWellFounded
<1>2. PICK x \in S : \A y \in S : <<y, x>> \notin R
  <2> HIDE DEF R
  <2> QED BY <1>1, WFMin
<1>3. ASSUME NEW y \in S PROVE x <= y
  <2>1. ~(y < x)
    <3>1. SUFFICES ASSUME y < x PROVE <<y, x>> \in R
      BY <1>2
    <3>2. <<y, x>> \in Nat \X Nat
      OBVIOUS
    <3> QED BY <3>1, <3>2 DEF OpToRel
  <2> QED BY <2>1
<1> QED BY <1>3

LEMMA MinFacts ==
    ASSUME NEW S \in SUBSET Nat, S # {}
    PROVE  Min(S) \in S /\ \A y \in S : Min(S) <= y
BY NatMin DEF Min

LEMMA MaxFacts ==
    ASSUME NEW S \in SUBSET Nat, S # {}, NEW b \in Nat, \A y \in S : y <= b
    PROVE  Max(S) \in S /\ \A y \in S : Max(S) >= y
<1> DEFINE T == {n \in Nat : \E y \in S : n = b - y}
<1>1. T # {}
  <2>1. PICK y \in S : TRUE
    OBVIOUS
  <2>2. b - y \in Nat
    BY <2>1
  <2> QED BY <2>1, <2>2
<1>2. PICK n \in T : \A m \in T : n <= m
  <2> HIDE DEF T
  <2>1. T \in SUBSET Nat
    BY DEF T
  <2> QED BY <1>1, <2>1, NatMin
<1>3. PICK x \in S : n = b - x
  BY <1>2
<1>4. ASSUME NEW y \in S PROVE x >= y
  <2>1. b - y \in Nat /\ b - y \in T
    OBVIOUS
  <2>2. n <= b - y
    BY <2>1, <1>2
  <2> QED BY <1>3, <2>1, <2>2
<1>5. \E z \in S : \A y \in S : z >= y
  BY <1>4
<1> QED BY <1>5 DEF Max

-----------------------------------------------------------------------------
(* The table.                                                              *)

EntryKeys == Tokens \cup {NoKey}
EntryAddresses == Addresses \cup {NoAddress}
Entry == [expireTime : Int, lastAccess : Int, address : EntryAddresses, key : EntryKeys]
Table == [num : 0 .. MaxEntries, entry : [Entries -> Entry]]

\* The key of an entry is of a token that was used from the entry's address, S
\* being the pairs of tokens and addresses so far.  A cleared entry has neither.
Genuine(e, S) ==
    /\ e.key # NoKey => <<e.key, e.address>> \in S
    /\ e.key = NoKey => e.address = NoAddress

GoodTable(m, S) == m \in Table /\ \A i \in Entries : Genuine(m.entry[i], S)

\* Entry j serves address a and neither expires nor counts as timed out.
Secure(m, j, a, t) ==
    /\ j \in 1 .. m.num /\ m.entry[j].address = a
    /\ m.entry[j].expireTime = NoExpiry /\ Fresh(m.entry[j], t)

\* n is m but for accesses at time t.
Accessed(m, n, t) ==
    /\ n.num = m.num
    /\ \A i \in Entries :
         /\ n.entry[i].address = m.entry[i].address /\ n.entry[i].key = m.entry[i].key
         /\ n.entry[i].expireTime = m.entry[i].expireTime
         /\ n.entry[i].lastAccess \in {m.entry[i].lastAccess, t}

LEMMA ConstantFacts ==
    /\ MaxEntries \in Nat /\ MaxEntries > 0 /\ Timeout \in Nat /\ Timeout > 0
    /\ MaxClients \in Nat /\ MaxClients > 0
    /\ SendInterval \in Nat /\ MaxGap \in Nat /\ ChannelSize \in Nat
    /\ None = 0 /\ NoExpiry = -1 /\ LongAgo = -1000
    /\ Entries \subseteq Nat /\ Entries \in SUBSET Nat
    /\ \A i \in Entries : i >= 1 /\ i <= MaxEntries /\ i # None
    /\ Slots \subseteq Nat /\ Slots \in SUBSET Nat
    /\ \A i \in Slots : i >= 1 /\ i <= MaxClients /\ i # None
    /\ \A t \in Tokens : t # NoKey /\ TokenId[t] \in Ids
    /\ NoAddress \notin Addresses
BY ManagerAssumption, GoServerAssumption
   DEF None, NoExpiry, LongAgo, Entries, Slots, Ids

LEMMA TableFields ==
    ASSUME NEW m \in Table
    PROVE  /\ m.num \in 0 .. MaxEntries /\ m.num \in Nat /\ m.entry \in [Entries -> Entry]
           /\ \A j \in 1 .. m.num : j \in Entries
           /\ \A i \in Entries : /\ m.entry[i] \in Entry
                                 /\ m.entry[i].expireTime \in Int
                                 /\ m.entry[i].lastAccess \in Int
                                 /\ m.entry[i].address \in EntryAddresses
                                 /\ m.entry[i].key \in EntryKeys
<1>1. m.num \in 0 .. MaxEntries /\ m.entry \in [Entries -> Entry]
  BY DEF Table
<1>2. m.num \in Nat /\ \A j \in 1 .. m.num : j \in Entries
  BY <1>1, ConstantFacts DEF Entries
<1>3. ASSUME NEW i \in Entries
      PROVE  /\ m.entry[i] \in Entry
             /\ m.entry[i].expireTime \in Int /\ m.entry[i].lastAccess \in Int
             /\ m.entry[i].address \in EntryAddresses /\ m.entry[i].key \in EntryKeys
  BY <1>1 DEF Entry
<1> QED BY <1>1, <1>2, <1>3

\* The record of a table from its two fields.
LEMMA TableFrom ==
    ASSUME NEW n \in 0 .. MaxEntries, NEW f \in [Entries -> Entry]
    PROVE  LET m == [num |-> n, entry |-> f] IN m \in Table /\ m.num = n /\ m.entry = f
BY DEF Table

LEMMA ClearedFacts ==
    ASSUME NEW e, NEW S
    PROVE  /\ ClearedEntry(e) \in Entry /\ Genuine(ClearedEntry(e), S)
           /\ ClearedEntry(e).address = NoAddress
BY ConstantFacts DEF ClearedEntry, Entry, EntryAddresses, EntryKeys, Genuine

LEMMA NewTableGood == ASSUME NEW S PROVE GoodTable(NewTable, S)
<1> DEFINE f == [i \in Entries |-> ClearedEntry([key |-> NoKey])]
<1>1. f \in [Entries -> Entry] /\ \A i \in Entries : Genuine(f[i], S)
  BY ClearedFacts
<1>2. 0 \in 0 .. MaxEntries
  BY ConstantFacts
<1>3. NewTable = [num |-> 0, entry |-> f]
  BY DEF NewTable
<1> HIDE DEF f
<1>4. NewTable \in Table /\ NewTable.entry = f
  BY <1>1, <1>2, <1>3, TableFrom
<1> QED BY <1>1, <1>4 DEF GoodTable

LEMMA ResetGood ==
    ASSUME NEW m \in Table, NEW S
    PROVE  GoodTable(ResetCryptoEntries(m), S)
<1> DEFINE f == [i \in Entries |-> ClearedEntry(m.entry[i])]
           r == [m EXCEPT !.entry = f]
<1>1. f \in [Entries -> Entry] /\ \A i \in Entries : Genuine(f[i], S)
  BY ClearedFacts
<1>2. ResetCryptoEntries(m) = r
  BY DEF ResetCryptoEntries
<1>3. r \in Table /\ r.entry = f
  <2> HIDE DEF f
  <2> QED BY <1>1 DEF Table
<1> HIDE DEF f, r
<1> QED BY <1>1, <1>2, <1>3 DEF GoodTable

\* A change of entry j alone, and an access of it.
With(m, j, e) == [m EXCEPT !.entry[j] = e]
AccessAt(m, j, t) == [m EXCEPT !.entry[j].lastAccess = t]

LEMMA EntryReplaced ==
    ASSUME NEW m \in Table, NEW j \in Entries, NEW e \in Entry
    PROVE  LET r == With(m, j, e) IN
           /\ r \in Table /\ r.num = m.num
           /\ \A i \in Entries : r.entry[i] = IF i = j THEN e ELSE m.entry[i]
<1> DEFINE f == [m.entry EXCEPT ![j] = e]
           r == With(m, j, e)
<1>1. m.entry \in [Entries -> Entry]
  BY DEF Table
<1>2. f \in [Entries -> Entry] /\ \A i \in Entries : f[i] = IF i = j THEN e ELSE m.entry[i]
  BY <1>1
<1>3. r = [m EXCEPT !.entry = f]
  BY DEF With
<1> HIDE DEF f, r
<1>4. r \in Table /\ r.num = m.num /\ r.entry = f
  BY <1>2, <1>3 DEF Table
<1>5. /\ r \in Table /\ r.num = m.num
      /\ \A i \in Entries : r.entry[i] = IF i = j THEN e ELSE m.entry[i]
  BY <1>2, <1>4
<1> QED BY <1>5 DEF r

LEMMA EntryAccessed ==
    ASSUME NEW m, NEW S, GoodTable(m, S), NEW j \in Entries, NEW t \in Int
    PROVE  LET r == AccessAt(m, j, t) IN
           GoodTable(r, S) /\ Accessed(m, r, t) /\ r.entry[j].lastAccess = t
<1>1. m \in Table /\ m.entry[j] \in Entry
  BY TableFields DEF GoodTable
<1> DEFINE e == [m.entry[j] EXCEPT !.lastAccess = t]
           r == AccessAt(m, j, t)
<1>2. /\ e \in Entry /\ e.address = m.entry[j].address /\ e.key = m.entry[j].key
      /\ e.expireTime = m.entry[j].expireTime /\ e.lastAccess = t
  BY <1>1 DEF Entry
<1>3. r = With(m, j, e)
  BY DEF With, AccessAt
<1> HIDE DEF e, r
<1>4. /\ r \in Table /\ r.num = m.num
      /\ \A i \in Entries : r.entry[i] = IF i = j THEN e ELSE m.entry[i]
  BY <1>1, <1>2, <1>3, EntryReplaced
<1>5. \A i \in Entries : Genuine(r.entry[i], S)
  BY <1>2, <1>4 DEF GoodTable, Genuine
<1>6. Accessed(m, r, t)
  BY <1>2, <1>4 DEF Accessed
<1>7. GoodTable(r, S) /\ Accessed(m, r, t) /\ r.entry[j].lastAccess = t
  BY <1>2, <1>4, <1>5, <1>6 DEF GoodTable
<1> QED BY <1>7 DEF r

LEMMA AccessedSame == ASSUME NEW m, NEW t PROVE Accessed(m, m, t)
BY DEF Accessed

\* An access keeps what is secure.
LEMMA AccessedSecure ==
    ASSUME NEW m \in Table, NEW n \in Table, NEW t \in Int, Accessed(m, n, t),
           NEW j, NEW a, Secure(m, j, a, t)
    PROVE  Secure(n, j, a, t)
<1>1. j \in Entries /\ j \in 1 .. n.num
  BY TableFields DEF Secure, Accessed
<1>2. n.entry[j].lastAccess \in {m.entry[j].lastAccess, t}
  BY <1>1 DEF Accessed
<1>3. Fresh(n.entry[j], t)
  BY <1>2, ConstantFacts DEF Secure, Fresh
<1> QED BY <1>1, <1>3 DEF Secure, Accessed

\* FindEncryptionEntryIndex returns an entry of the address within the
\* searched part, and accesses it.
LEMMA FindFacts ==
    ASSUME NEW m, NEW S, GoodTable(m, S), NEW a, NEW t \in Int
    PROVE  LET j == FindEncryptionEntryIndex(m, a, t)
               n == AfterFind(m, a, t)
           IN  /\ GoodTable(n, S) /\ Accessed(m, n, t)
               /\ j \in Entries \cup {None}
               /\ j # None => /\ j \in 1 .. n.num /\ n.entry[j].address = a
                              /\ n.entry[j].lastAccess = t
<1> DEFINE F == Findable(m, a, t)
<1>1. F \in SUBSET Nat /\ \A i \in F : i \in Entries /\ i <= m.num /\ m.entry[i].address = a
  BY ConstantFacts DEF Findable
<1>2. CASE F = {}
  BY <1>2, AccessedSame DEF FindEncryptionEntryIndex, AfterFind
<1>3. CASE F # {}
  <2> DEFINE j == Min(F)
  <2>1. j \in F
    <3> HIDE DEF F
    <3> QED BY <1>1, <1>3, MinFacts
  <2>2. j \in Entries /\ j <= m.num /\ m.entry[j].address = a
    BY <1>1, <2>1
  <2>3. /\ FindEncryptionEntryIndex(m, a, t) = j
        /\ AfterFind(m, a, t) = AccessAt(m, j, t)
    BY <1>3 DEF FindEncryptionEntryIndex, AfterFind, AccessAt
  <2> HIDE DEF F, j
  <2>4. LET n == AfterFind(m, a, t)
        IN  GoodTable(n, S) /\ Accessed(m, n, t) /\ n.entry[j].lastAccess = t
    BY <2>2, <2>3, EntryAccessed
  <2>5. LET n == AfterFind(m, a, t) IN j \in 1 .. n.num /\ n.entry[j].address = a
    BY <2>2, <2>4, ConstantFacts, TableFields DEF Accessed, GoodTable
  <2> QED BY <2>2, <2>3, <2>4, <2>5
<1> QED BY <1>2, <1>3

\* What is secure in m for another address than a is as it was in n.
SparesOthers(m, n, a, t) ==
    \A j, b : b # a /\ Secure(m, j, b, t) => j \in 1 .. n.num /\ n.entry[j] = m.entry[j]

\* AddEncryptionMapping takes an entry of the address or one nobody relies on.
LEMMA AddFacts ==
    ASSUME NEW m, NEW S, GoodTable(m, S), NEW k \in Tokens, NEW a \in Addresses,
           NEW t \in Int, CanAdd(m, a, t)
    PROVE  LET n == AddEncryptionMapping(m, a, k, t)
           IN  /\ GoodTable(n, S \cup {<<k, a>>}) /\ n.num >= m.num
               /\ SparesOthers(m, n, a, t)
<1> DEFINE T == S \cup {<<k, a>>}
           L == Listed(m, a, t)
           R == Reusable(m, t)
           i == IF L # {} THEN Min(L) ELSE Min(R)
           e == [address |-> a, key |-> k, lastAccess |-> t, expireTime |-> t + Timeout]
           f == [m.entry EXCEPT ![i] = e]
           u == IF L = {} /\ i > m.num THEN i ELSE m.num
           n == AddEncryptionMapping(m, a, k, t)
<1>1. L \in SUBSET Nat /\ R \in SUBSET Nat /\ L \subseteq Entries /\ R \subseteq Entries
  BY ConstantFacts DEF Listed, Reusable
<1>2. L # {} => Min(L) \in L
  <2> HIDE DEF L
  <2> QED BY <1>1, MinFacts
<1>3. R # {} => Min(R) \in R
  <2> HIDE DEF R
  <2> QED BY <1>1, MinFacts
<1>4. L # {} \/ R # {}
  BY DEF CanAdd
<1>5. i \in Entries /\ (i \in L \/ i \in R)
  BY <1>1, <1>2, <1>3, <1>4
<1>6. e \in Entry /\ Genuine(e, T)
  BY ConstantFacts DEF Entry, EntryAddresses, EntryKeys, Genuine
<1>7. m \in Table /\ m.entry \in [Entries -> Entry] /\ m.num \in 0 .. MaxEntries
  BY TableFields DEF GoodTable
<1>8. n = [num |-> u, entry |-> f]
  BY DEF AddEncryptionMapping
<1>9. /\ f \in [Entries -> Entry]
      /\ \A x \in Entries : f[x] = IF x = i THEN e ELSE m.entry[x]
  <2> HIDE DEF i, e
  <2> QED BY <1>5, <1>6, <1>7
<1>10. u \in 0 .. MaxEntries /\ u >= m.num
  <2> HIDE DEF i
  <2> QED BY <1>5, <1>7, ConstantFacts
<1>11. n \in Table /\ n.num = u /\ n.entry = f
  <2> HIDE DEF n, f, u
  <2> QED BY <1>8, <1>9, <1>10, TableFrom
<1>12. GoodTable(n, T)
  <2>1. \A x \in Entries : Genuine(m.entry[x], T)
    BY DEF GoodTable, Genuine
  <2> HIDE DEF n, f, e, i, T
  <2> QED BY <1>6, <1>9, <1>11, <2>1 DEF GoodTable
<1>13. ASSUME NEW j, NEW b, b # a, Secure(m, j, b, t)
       PROVE  j \in 1 .. n.num /\ n.entry[j] = m.entry[j]
  <2>1. j \in Entries /\ j \in 1 .. m.num
    BY <1>13, <1>7, TableFields DEF Secure
  <2>2. j \notin L
    BY <1>13 DEF Listed, Secure
  <2>3. j \notin R
    BY <1>13, ConstantFacts DEF Reusable, Secure
  <2>4. j # i
    BY <1>5, <2>2, <2>3
  <2>5. n.entry[j] = m.entry[j]
    <3> HIDE DEF n, f, i, e
    <3> QED BY <1>9, <1>11, <2>1, <2>4
  <2>6. j \in 1 .. n.num
    <3> HIDE DEF n, u
    <3> QED BY <1>7, <1>10, <1>11, <2>1
  <2> QED BY <2>5, <2>6
<1> HIDE DEF n, f, i, e, u, L, R, T
<1>14. n.num >= m.num
  BY <1>10, <1>11
<1>15. SparesOthers(m, n, a, t)
  BY <1>13 DEF SparesOthers
<1> QED BY <1>12, <1>14, <1>15 DEF n, T

\* SetEncryptionEntryExpiration, as connectClient uses it.
LEMMA PinFacts ==
    ASSUME NEW m, NEW S, GoodTable(m, S), NEW j \in Entries \cup {None}
    PROVE  LET n == Pinned(m, j)
           IN  /\ GoodTable(n, S) /\ n.num = m.num
               /\ \A i \in Entries :
                    /\ n.entry[i].address = m.entry[i].address
                    /\ n.entry[i].key = m.entry[i].key
                    /\ n.entry[i].lastAccess = m.entry[i].lastAccess
                    /\ n.entry[i].expireTime \in {m.entry[i].expireTime, NoExpiry}
               /\ InBounds(m, j) => n.entry[j].expireTime = NoExpiry
<1> DEFINE n == Pinned(m, j)
<1>1. m \in Table
  BY DEF GoodTable
<1>2. CASE ~InBounds(m, j)
  <2>1. n = m
    BY <1>2 DEF Pinned, SetExpiration
  <2> QED BY <1>2, <2>1
<1>3. CASE InBounds(m, j)
  <2> DEFINE e == [m.entry[j] EXCEPT !.expireTime = NoExpiry]
  <2>1. j \in Entries /\ m.entry[j] \in Entry
    BY <1>1, <1>3, TableFields DEF InBounds
  <2>2. /\ e \in Entry /\ e.address = m.entry[j].address /\ e.key = m.entry[j].key
        /\ e.lastAccess = m.entry[j].lastAccess /\ e.expireTime = NoExpiry
    BY <2>1, ConstantFacts DEF Entry
  <2>3. n = With(m, j, e)
    BY <1>3 DEF Pinned, SetExpiration, With
  <2> HIDE DEF e, n
  <2>4. /\ n \in Table /\ n.num = m.num
        /\ \A i \in Entries : n.entry[i] = IF i = j THEN e ELSE m.entry[i]
    BY <1>1, <2>1, <2>2, <2>3, EntryReplaced
  <2>5. GoodTable(n, S)
    BY <2>2, <2>4 DEF GoodTable, Genuine
  <2>6. /\ \A i \in Entries :
             /\ n.entry[i].address = m.entry[i].address
             /\ n.entry[i].key = m.entry[i].key
             /\ n.entry[i].lastAccess = m.entry[i].lastAccess
             /\ n.entry[i].expireTime \in {m.entry[i].expireTime, NoExpiry}
        /\ n.entry[j].expireTime = NoExpiry
    BY <2>1, <2>2, <2>4
  <2> QED BY <2>4, <2>5, <2>6 DEF n
<1> QED BY <1>2, <1>3

\* TouchEncryptionEntry
LEMMA TouchFacts ==
    ASSUME NEW m, NEW S, GoodTable(m, S), NEW j \in Entries \cup {None}, NEW a, NEW t \in Int
    PROVE  LET n == AfterTouch(m, j, a, t)
           IN  /\ GoodTable(n, S) /\ Accessed(m, n, t)
               /\ CanTouch(m, j, a) => n.entry[j].lastAccess = t
<1>1. CASE ~CanTouch(m, j, a)
  BY <1>1, AccessedSame DEF AfterTouch
<1>2. CASE CanTouch(m, j, a)
  <2>1. j \in Entries
    BY <1>2 DEF CanTouch, InBounds
  <2>2. AfterTouch(m, j, a, t) = AccessAt(m, j, t)
    BY <1>2 DEF AfterTouch, AccessAt
  <2> QED BY <2>1, <2>2, EntryAccessed
<1> QED BY <1>1, <1>2

\* A key that reads something is in an entry of an address its token was used
\* from.
LEMMA KeyFacts ==
    ASSUME NEW m, NEW S, GoodTable(m, S), NEW j \in Entries \cup {None}, NEW k \in Tokens,
           KeyOf(m, j) = k
    PROVE  j \in Entries /\ InBounds(m, j) /\ <<k, m.entry[j].address>> \in S
<1>1. k # NoKey
  BY ConstantFacts
<1>2. InBounds(m, j) /\ m.entry[j].key = k
  BY <1>1 DEF KeyOf
<1>3. j \in Entries
  BY <1>2 DEF InBounds
<1> QED BY <1>1, <1>2, <1>3 DEF GoodTable, Genuine

\* RemoveEncryptionEntry leaves alone what is secure for other addresses, and
\* within the searched part.
LEMMA RemoveFacts ==
    ASSUME NEW m, NEW S, GoodTable(m, S), NEW a, NEW t \in Int
    PROVE  LET n == RemoveEncryptionEntry(m, a, t)
           IN  /\ GoodTable(n, S)
               /\ \A j, b : b # a /\ Secure(m, j, b, t) =>
                    j \in 1 .. n.num /\ n.entry[j] = m.entry[j]
<1> DEFINE F == {i \in Entries : i <= m.num /\ m.entry[i].address = a}
           i == Min(F)
           c == [m.entry EXCEPT ![i] = ClearedEntry(@)]
           K == {j \in Entries :
                   /\ j < i /\ Fresh(c[j], t)
                   /\ c[j].expireTime < 0 \/ c[j].expireTime > t}
           u == IF i = m.num THEN NumAfterRemove(K) ELSE m.num
           n == RemoveEncryptionEntry(m, a, t)
<1>1. m \in Table /\ m.num \in 0 .. MaxEntries /\ m.entry \in [Entries -> Entry]
  BY TableFields DEF GoodTable
<1>2. CASE F = {} \/ a = NoAddress
  <2>1. n = m
    BY <1>2 DEF RemoveEncryptionEntry
  <2> QED BY <2>1 DEF Secure
<1>3. CASE ~(F = {} \/ a = NoAddress)
  <2>1. n = [num |-> u, entry |-> c]
    BY <1>3 DEF RemoveEncryptionEntry
  <2>2. i \in F
    <3>1. F \in SUBSET Nat
      BY ConstantFacts
    <3> HIDE DEF F
    <3> QED BY <1>3, <3>1, MinFacts
  <2>3. i \in Entries /\ i <= m.num /\ m.entry[i].address = a
    BY <2>2
  <2> HIDE DEF i
  <2>4. /\ c \in [Entries -> Entry]
        /\ \A j \in Entries : c[j] = IF j = i THEN ClearedEntry(m.entry[i]) ELSE m.entry[j]
    BY <1>1, <2>3, ClearedFacts
  <2> HIDE DEF c
  <2>5. /\ \A j \in {0} \cup K : j \in Nat /\ j <= MaxEntries
        /\ Max({0} \cup K) \in {0} \cup K /\ \A j \in {0} \cup K : Max({0} \cup K) >= j
    <3>1. \A j \in {0} \cup K : j \in Nat /\ j <= MaxEntries
      BY ConstantFacts
    <3> DEFINE Z == {0} \cup K
    <3>2. Z \in SUBSET Nat /\ Z # {} /\ \A j \in Z : j <= MaxEntries
      BY <3>1
    <3> HIDE DEF Z
    <3>3. Max(Z) \in Z /\ \A j \in Z : Max(Z) >= j
      BY <3>2, ConstantFacts, MaxFacts
    <3> QED BY <3>1, <3>3 DEF Z
  <2> HIDE DEF K
  <2>6. u \in 0 .. MaxEntries
    <3>1. NumAfterRemove(K) \in {0} \cup K
      BY <2>5 DEF NumAfterRemove
    <3>2. NumAfterRemove(K) \in Nat /\ NumAfterRemove(K) <= MaxEntries
      BY <2>5, <3>1
    <3> QED BY <1>1, <3>2, ConstantFacts
  <2> HIDE DEF u, n
  <2>7. n \in Table /\ n.num = u /\ n.entry = c
    BY <2>1, <2>4, <2>6, TableFrom
  <2>8. GoodTable(n, S)
    BY <2>4, <2>7, ClearedFacts DEF GoodTable
  <2>9. ASSUME NEW j, NEW b, b # a, Secure(m, j, b, t)
        PROVE  j \in 1 .. n.num /\ n.entry[j] = m.entry[j]
    <3>1. j \in Entries /\ j \in 1 .. m.num /\ j # i
      BY <1>1, <2>3, <2>9, TableFields DEF Secure
    <3>2. n.entry[j] = m.entry[j] /\ c[j] = m.entry[j]
      BY <2>4, <2>7, <3>1
    <3>3. CASE i = m.num
      <4>1. j < i
        BY <3>1, <3>3, <1>1
      <4>2. j \in K
        BY <2>9, <3>1, <3>2, <4>1, ConstantFacts DEF K, Secure
      <4>3. u >= j
        BY <2>5, <3>3, <4>2 DEF u, NumAfterRemove
      <4> QED BY <2>6, <2>7, <3>1, <3>2, <4>3
    <3>4. CASE i # m.num
      BY <2>7, <3>1, <3>2, <3>4 DEF u
    <3> QED BY <3>3, <3>4
  <2> QED BY <2>8, <2>9 DEF n
<1> QED BY <1>2, <1>3

-----------------------------------------------------------------------------
(* RemoveEncryptionEntry for several clients, one after the other: a loop  *)
(* is a recursive function of the number of rounds.                        *)

\* One round: slot n.
Round(m, slots, n) ==
    IF n \in slots THEN RemoveEncryptionEntry(m, instance[n].address, time) ELSE m

\* f[n] is the table after the first n rounds, for every n up to k.
Rounds(f, m, slots, k) ==
    f = [n \in 0 .. k |-> IF n = 0 THEN m ELSE Round(f[n - 1], slots, n)]

LEMMA RoundsExist ==
    ASSUME NEW m, NEW slots
    PROVE  \A k \in Nat : \E f : Rounds(f, m, slots, k)
<1> DEFINE B == {k \in Nat : ~\E f : Rounds(f, m, slots, k)}
<1>1. SUFFICES ASSUME B # {} PROVE FALSE
  OBVIOUS
<1>2. PICK k \in B : \A l \in B : k <= l
  <2>1. B \in SUBSET Nat
    OBVIOUS
  <2> HIDE DEF B
  <2> QED BY <1>1, <2>1, NatMin
<1>3. k \in Nat /\ ~\E f : Rounds(f, m, slots, k)
  BY <1>2
<1>4. CASE k = 0
  <2> DEFINE f == [n \in 0 .. 0 |-> m]
  <2>1. f = [n \in 0 .. 0 |-> IF n = 0 THEN m ELSE Round(f[n - 1], slots, n)]
    OBVIOUS
  <2>2. Rounds(f, m, slots, 0)
    BY <2>1 DEF Rounds
  <2> QED BY <1>3, <1>4, <2>2
<1>5. CASE k # 0
  <2>1. k - 1 \in Nat /\ k - 1 \notin B
    BY <1>2, <1>3, <1>5
  <2>2. PICK f : Rounds(f, m, slots, k - 1)
    BY <2>1
  <2> DEFINE g == [n \in 0 .. k |-> IF n = k THEN Round(f[k - 1], slots, k) ELSE f[n]]
  <2>3. ASSUME NEW n \in 0 .. k
        PROVE  g[n] = IF n = 0 THEN m ELSE Round(g[n - 1], slots, n)
    <3>1. \A l \in 0 .. k - 1 :
            f[l] = IF l = 0 THEN m ELSE Round(f[l - 1], slots, l)
      BY <2>2 DEF Rounds
    <3>2. CASE n = k
      <4>1. g[k] = Round(f[k - 1], slots, k) /\ g[k - 1] = f[k - 1]
        BY <1>3, <1>5
      <4> QED BY <3>2, <4>1, <1>5
    <3>3. CASE n # k /\ n # 0
      <4>1. n \in 0 .. k - 1 /\ n - 1 \in 0 .. k - 1 /\ n - 1 # k /\ n - 1 \in 0 .. k
        BY <3>3, <1>3
      <4>2. g[n] = f[n] /\ g[n - 1] = f[n - 1]
        BY <3>3, <4>1
      <4>3. f[n] = Round(f[n - 1], slots, n)
        BY <3>1, <3>3, <4>1
      <4> HIDE DEF g
      <4> QED BY <3>3, <4>2, <4>3
    <3>4. CASE n = 0
      <4>1. 0 \in 0 .. k - 1 /\ 0 \in 0 .. k
        BY <1>3, <1>5
      <4>2. g[0] = f[0] /\ f[0] = m
        BY <3>1, <4>1, <1>5
      <4> HIDE DEF g
      <4> QED BY <3>4, <4>2
    <3> QED BY <3>2, <3>3, <3>4
  <2>4. g = [n \in 0 .. k |-> IF n = 0 THEN m ELSE Round(g[n - 1], slots, n)]
    <3>1. g = [n \in 0 .. k |-> g[n]]
      OBVIOUS
    <3> HIDE DEF g
    <3> QED BY <2>3, <3>1
  <2>5. Rounds(g, m, slots, k)
    <3> HIDE DEF g
    <3> QED BY <2>4 DEF Rounds
  <2> QED BY <1>3, <2>5
<1> QED BY <1>4, <1>5

LEMMA RemovalsAre ==
    ASSUME NEW m, NEW slots
    PROVE  \E f : /\ Rounds(f, m, slots, MaxClients)
                  /\ TableWithout(m, slots) = f[MaxClients]
<1> DEFINE f == CHOOSE g : Rounds(g, m, slots, MaxClients)
<1>1. MaxClients \in Nat
  BY ConstantFacts
<1>2. \E g : Rounds(g, m, slots, MaxClients)
  BY <1>1, RoundsExist
<1>3. Rounds(f, m, slots, MaxClients)
  BY <1>2
<1>4. TableWithout(m, slots) = f[MaxClients]
  BY Zenon DEF TableWithout, Rounds, Round
<1> HIDE DEF f
<1> QED BY <1>3, <1>4

\* What is secure in m for an address that no client of slots has is so in n.
Spared(m, n, slots) ==
    \A j, b : Secure(m, j, b, time) /\ (\A i \in slots : instance[i].address # b) =>
        j \in 1 .. n.num /\ n.entry[j] = m.entry[j]

LEMMA WithoutFacts ==
    ASSUME NEW m, NEW S, GoodTable(m, S), NEW slots, time \in Int
    PROVE  GoodTable(TableWithout(m, slots), S) /\ Spared(m, TableWithout(m, slots), slots)
<1>1. PICK f : /\ Rounds(f, m, slots, MaxClients)
               /\ TableWithout(m, slots) = f[MaxClients]
  BY RemovalsAre
<1>2. /\ f[0] = m
      /\ \A n \in 1 .. MaxClients : f[n] = Round(f[n - 1], slots, n)
  BY <1>1, ConstantFacts DEF Rounds
<1> DEFINE B == {n \in Nat : n <= MaxClients /\ ~(GoodTable(f[n], S) /\ Spared(m, f[n], slots))}
<1>3. B = {}
  <2> SUFFICES ASSUME B # {} PROVE FALSE
    OBVIOUS
  <2>1. PICK n \in B : \A l \in B : n <= l
    <3>1. B \in SUBSET Nat
      OBVIOUS
    <3> HIDE DEF B
    <3> QED BY <3>1, NatMin
  <2>2. n \in Nat /\ n <= MaxClients /\ ~(GoodTable(f[n], S) /\ Spared(m, f[n], slots))
    BY <2>1
  <2>3. n # 0
    <3>1. Spared(m, m, slots)
      BY DEF Spared, Secure
    <3> QED BY <1>2, <2>2, <3>1
  <2>4. n - 1 \in Nat /\ n - 1 \notin B /\ n - 1 <= MaxClients /\ n \in 1 .. MaxClients
    BY <2>1, <2>2, <2>3, ConstantFacts
  <2>5. GoodTable(f[n - 1], S) /\ Spared(m, f[n - 1], slots)
    BY <2>4
  <2>6. f[n] = Round(f[n - 1], slots, n)
    BY <1>2, <2>4
  <2> HIDE DEF B
  <2>7. CASE n \notin slots
    BY <2>2, <2>5, <2>6, <2>7 DEF Round
  <2>8. CASE n \in slots
    <3> DEFINE p == f[n - 1]
               q == f[n]
               a == instance[n].address
    <3>1. q = RemoveEncryptionEntry(p, a, time)
      BY <2>6, <2>8 DEF Round
    <3> HIDE DEF q
    <3>2. /\ GoodTable(q, S)
          /\ \A j, b : b # a /\ Secure(p, j, b, time) =>
               j \in 1 .. q.num /\ q.entry[j] = p.entry[j]
      BY <2>5, <3>1, RemoveFacts
    <3>3. ASSUME NEW j, NEW b, Secure(m, j, b, time), \A i \in slots : instance[i].address # b
          PROVE  j \in 1 .. q.num /\ q.entry[j] = m.entry[j]
      <4>1. j \in 1 .. p.num /\ p.entry[j] = m.entry[j]
        BY <2>5, <3>3 DEF Spared
      <4> HIDE DEF p
      <4>2. Secure(p, j, b, time)
        BY <3>3, <4>1 DEF Secure
      <4>3. b # a
        BY <2>8, <3>3
      <4> QED BY <3>2, <4>1, <4>2, <4>3
    <3>4. Spared(m, q, slots)
      BY <3>3 DEF Spared
    <3> QED BY <2>2, <3>2, <3>4 DEF q
  <2> QED BY <2>7, <2>8
<1> QED BY <1>1, <1>3, ConstantFacts

-----------------------------------------------------------------------------
(* The inductive invariant.                                                *)

ClientRecord ==
    [connected : BOOLEAN, confirmed : BOOLEAN, clientId : Ids \cup {NoId},
     address : EntryAddresses, encryptionIndex : Entries \cup {None},
     lastSendTime : Nat, lastRecvTime : Nat, packetQueue : Seq(Addresses)]

HistoryEntry == [time : Int, mac : EntryKeys, address : EntryAddresses]

\* The payloads of a queue came from address a.
AllFrom(queue, a) == \A n \in DOMAIN queue : queue[n] = a

\* A client that is connected has an address, one that is not has no payloads,
\* and nothing was sent in the future.
Sound(c, t) ==
    /\ c \in ClientRecord
    /\ c.connected => c.address \in Addresses
    /\ ~c.connected => c.packetQueue = <<>>
    /\ AllFrom(c.packetQueue, c.address)
    /\ c.lastSendTime <= t /\ c.lastRecvTime <= t

\* A blocked goroutine has found the channel full.
ChannelInv ==
    /\ backlog \in 0 .. ChannelSize /\ burst \in Nat
    /\ receiver \in {"reading", "blocked", "ended"}
    /\ receiver = "blocked" => backlog = ChannelSize

ClientsSound ==
    instance \in [Slots -> ClientRecord] /\ \A i \in Slots : Sound(instance[i], time)

OthersTyped ==
    /\ time \in Nat /\ phase \in {"idle", "draining"} /\ running \in BOOLEAN
    /\ tokenEntries \in [History!EntryIndices -> HistoryEntry]
    /\ sources \subseteq Tokens \X Addresses /\ accepted \subseteq Tokens
    /\ disturbed \subseteq Slots

\* The part that needs no assumption on how often Update is called.
BaseInv ==
    /\ OthersTyped
    /\ ClientsSound
    /\ GoodTable(table, sources)
    /\ ChannelInv
    /\ panicked \in BOOLEAN

\* How long ago the mapping of a client may have been used last.
Slack == IF phase = "draining" THEN SendInterval + MaxGap ELSE SendInterval

\* Client c has entry c.encryptionIndex for itself, and what it was sent
\* counted as a use of the entry.
Backed(c, m, t, slack) ==
    LET e == m.entry[c.encryptionIndex]
    IN  /\ c.encryptionIndex \in 1 .. m.num
        /\ e.address = c.address /\ e.expireTime = NoExpiry
        /\ c.lastSendTime <= e.lastAccess /\ t <= e.lastAccess + slack

\* Whoever shares an address is counted as disturbed.
SharersDisturbed ==
    \A i, k \in Connected :
        i # k /\ instance[i].address = instance[k].address => i \in disturbed

MapInv ==
    /\ SharersDisturbed
    /\ \A i \in Connected \ disturbed : Backed(instance[i], table, time, Slack)

\* Update is called often enough for a mapping in use not to time out.
UpdatesInTime == SendInterval + MaxGap <= Timeout

-----------------------------------------------------------------------------
(* The assignments to a client instance.                                   *)

\* What hearing from a client and reading its payloads leave alone.
Kept(c, d) ==
    /\ d.connected = c.connected /\ d.address = c.address
    /\ d.encryptionIndex = c.encryptionIndex /\ d.lastSendTime = c.lastSendTime
    /\ d.lastRecvTime >= c.lastRecvTime

SentClient(c, t) == [c EXCEPT !.lastSendTime = t]
HeardClient(c, t) == [c EXCEPT !.lastRecvTime = t, !.confirmed = TRUE]
WithQueue(c, q) == [c EXCEPT !.packetQueue = q]
Joined(c, id, a, j, t) ==
    [c EXCEPT !.connected = TRUE, !.clientId = id, !.address = a,
              !.encryptionIndex = j, !.lastSendTime = t, !.lastRecvTime = t]

LEMMA ClientFields ==
    ASSUME NEW c \in ClientRecord
    PROVE  /\ c.connected \in BOOLEAN /\ c.confirmed \in BOOLEAN
           /\ c.clientId \in Ids \cup {NoId} /\ c.address \in EntryAddresses
           /\ c.encryptionIndex \in Entries \cup {None}
           /\ c.lastSendTime \in Nat /\ c.lastRecvTime \in Nat
           /\ c.packetQueue \in Seq(Addresses)
BY DEF ClientRecord

LEMMA NewSound == ASSUME NEW t \in Nat PROVE Sound(NewClientInstance, t)
<1> DEFINE c == NewClientInstance
<1>1. 1 \in Entries
  BY ConstantFacts DEF Entries
<1>2. <<>> \in Seq(Addresses) /\ DOMAIN <<>> = {}
  OBVIOUS
<1>3. c \in ClientRecord /\ c.connected = FALSE /\ c.packetQueue = <<>>
      /\ c.lastSendTime = 0 /\ c.lastRecvTime = 0
  BY <1>1, <1>2 DEF NewClientInstance, ClientRecord, EntryAddresses
<1> HIDE DEF c
<1>4. Sound(c, t)
  BY <1>2, <1>3 DEF Sound, AllFrom
<1> QED BY <1>4 DEF c

LEMMA ClearedSound ==
    ASSUME NEW c, NEW t \in Nat
    PROVE  Sound(Cleared(c), t) /\ Cleared(c).connected = FALSE
<1> DEFINE d == Cleared(c)
<1>1. <<>> \in Seq(Addresses) /\ DOMAIN <<>> = {}
  OBVIOUS
<1>2. d \in ClientRecord /\ d.connected = FALSE /\ d.packetQueue = <<>>
      /\ d.lastSendTime = 0 /\ d.lastRecvTime = 0
  BY <1>1 DEF Cleared, NewClientInstance, ClientRecord, EntryAddresses
<1> HIDE DEF d
<1>3. Sound(d, t)
  BY <1>1, <1>2 DEF Sound, AllFrom
<1> QED BY <1>2, <1>3 DEF d

LEMMA SentSound ==
    ASSUME NEW t \in Nat, NEW c, Sound(c, t)
    PROVE  LET d == SentClient(c, t)
           IN  /\ Sound(d, t) /\ d.connected = c.connected /\ d.address = c.address
               /\ d.encryptionIndex = c.encryptionIndex /\ d.lastSendTime = t
               /\ d.lastRecvTime = c.lastRecvTime
<1> DEFINE d == SentClient(c, t)
<1>1. /\ d \in ClientRecord /\ d.connected = c.connected /\ d.address = c.address
      /\ d.encryptionIndex = c.encryptionIndex /\ d.lastSendTime = t
      /\ d.lastRecvTime = c.lastRecvTime /\ d.packetQueue = c.packetQueue
  BY DEF SentClient, Sound, ClientRecord
<1> HIDE DEF d
<1>2. Sound(d, t)
  BY <1>1 DEF Sound
<1> QED BY <1>1, <1>2 DEF d

LEMMA KeptItself == ASSUME NEW c \in ClientRecord PROVE Kept(c, c)
BY ClientFields DEF Kept

LEMMA HeardSound ==
    ASSUME NEW t \in Nat, NEW c, Sound(c, t)
    PROVE  Sound(HeardClient(c, t), t) /\ Kept(c, HeardClient(c, t))
<1> DEFINE d == HeardClient(c, t)
<1>1. /\ d \in ClientRecord /\ d.connected = c.connected /\ d.address = c.address
      /\ d.encryptionIndex = c.encryptionIndex /\ d.lastSendTime = c.lastSendTime
      /\ d.lastRecvTime = t /\ d.packetQueue = c.packetQueue
  BY DEF HeardClient, Sound, ClientRecord
<1> HIDE DEF d
<1>2. Sound(d, t) /\ Kept(c, d)
  BY <1>1 DEF Sound, Kept
<1> QED BY <1>2 DEF d

LEMMA QueueSound ==
    ASSUME NEW t \in Nat, NEW c, Sound(c, t),
           NEW q \in Seq(Addresses), AllFrom(q, c.address), c.connected \/ q = <<>>
    PROVE  Sound(WithQueue(c, q), t) /\ Kept(c, WithQueue(c, q))
<1> DEFINE d == WithQueue(c, q)
<1>1. /\ d \in ClientRecord /\ d.connected = c.connected /\ d.address = c.address
      /\ d.encryptionIndex = c.encryptionIndex /\ d.lastSendTime = c.lastSendTime
      /\ d.lastRecvTime = c.lastRecvTime /\ d.packetQueue = q
  BY DEF WithQueue, Sound, ClientRecord
<1> HIDE DEF d
<1>2. c.lastRecvTime \in Nat
  BY ClientFields DEF Sound
<1>3. Sound(d, t)
  BY <1>1 DEF Sound
<1>4. Kept(c, d)
  BY <1>1, <1>2 DEF Kept
<1> QED BY <1>3, <1>4 DEF d

LEMMA JoinedSound ==
    ASSUME NEW t \in Nat, NEW c, Sound(c, t), ~c.connected,
           NEW id \in Ids, NEW a \in Addresses, NEW j \in Entries \cup {None}
    PROVE  LET d == Joined(c, id, a, j, t)
           IN  /\ Sound(d, t) /\ d.connected /\ d.address = a
               /\ d.encryptionIndex = j /\ d.lastSendTime = t /\ d.lastRecvTime = t
<1> DEFINE d == Joined(c, id, a, j, t)
<1>1. /\ d \in ClientRecord /\ d.connected = TRUE /\ d.address = a
      /\ d.encryptionIndex = j /\ d.lastSendTime = t
      /\ d.lastRecvTime = t /\ d.packetQueue = c.packetQueue
  BY DEF Joined, Sound, ClientRecord, EntryAddresses
<1>2. DOMAIN c.packetQueue = {}
  BY DEF Sound
<1> HIDE DEF d
<1>3. Sound(d, t)
  BY <1>1, <1>2 DEF Sound, AllFrom
<1> QED BY <1>1, <1>3 DEF d

\* A payload is pushed only onto the queue of a client at its address.
LEMMA PushFacts ==
    ASSUME NEW q \in Seq(Addresses), NEW a \in Addresses, AllFrom(q, a)
    PROVE  Push(q, a) \in Seq(Addresses) /\ AllFrom(Push(q, a), a)
<1>1. Append(q, a) \in Seq(Addresses) /\ AllFrom(Append(q, a), a)
  BY DEF AllFrom
<1> QED BY <1>1 DEF Push

LEMMA TailFacts ==
    ASSUME NEW q \in Seq(Addresses), q # <<>>, NEW a, AllFrom(q, a)
    PROVE  Tail(q) \in Seq(Addresses) /\ AllFrom(Tail(q), a)
BY DEF AllFrom

-----------------------------------------------------------------------------
(* Lookups in a state.                                                     *)

InSlots == instance \in [Slots -> ClientRecord]

LEMMA BaseFacts ==
    ASSUME BaseInv
    PROVE  /\ time \in Nat /\ time \in Int /\ GoodTable(table, sources) /\ table \in Table
           /\ InSlots
           /\ \A i \in Slots : instance[i] \in ClientRecord /\ Sound(instance[i], time)
           /\ \A i \in Slots : i \in Connected <=> instance[i].connected
           /\ Connected \subseteq Slots
BY ConstantFacts DEF BaseInv, OthersTyped, ClientsSound, GoodTable, InSlots, Connected, Sound

\* FindClientIndexByAddress
LEMMA ClientAtFacts ==
    ASSUME BaseInv, NEW a
    PROVE  /\ ClientAt(a) \in Slots \cup {None}
           /\ ClientAt(a) # None =>
                /\ ClientAt(a) \in Slots /\ ClientAt(a) \in Connected
                /\ instance[ClientAt(a)].address = a /\ instance[ClientAt(a)].connected
           /\ ClientAt(a) = None <=> AtAddress(a) = {}
<1> DEFINE S == AtAddress(a)
<1>1. /\ S \in SUBSET Nat
      /\ \A i \in S : /\ i \in Slots /\ i \in Connected /\ instance[i].address = a
                      /\ instance[i].connected /\ i # None
  BY ConstantFacts DEF AtAddress, Connected
<1>2. S # {} => Min(S) \in S
  <2> HIDE DEF S
  <2> QED BY <1>1, MinFacts
<1>3. ClientAt(a) = IF S = {} THEN None ELSE Min(S)
  BY DEF ClientAt
<1> HIDE DEF S
<1>4. CASE S = {}
  BY <1>3, <1>4 DEF S
<1>5. CASE S # {}
  BY <1>1, <1>2, <1>3, <1>5 DEF S
<1> QED BY <1>4, <1>5

\* OnPacketData: the entry for a packet of address a.
LEMMA LookupFacts ==
    ASSUME BaseInv, NEW a
    PROVE  /\ GoodTable(TableFor(a), sources) /\ Accessed(table, TableFor(a), time)
           /\ IndexFor(a) \in Entries \cup {None}
           /\ AtAddress(a) = {} /\ IndexFor(a) # None =>
                /\ IndexFor(a) \in 1 .. TableFor(a).num
                /\ TableFor(a).entry[IndexFor(a)].address = a
                /\ TableFor(a).entry[IndexFor(a)].lastAccess = time
<1>1. CASE ClientAt(a) # None
  <2>1. TableFor(a) = table /\ IndexFor(a) = instance[ClientAt(a)].encryptionIndex
    BY <1>1 DEF TableFor, IndexFor
  <2>2. IndexFor(a) \in Entries \cup {None} /\ AtAddress(a) # {}
    BY <1>1, <2>1, ClientAtFacts, BaseFacts, ClientFields
  <2> QED BY <2>1, <2>2, BaseFacts, AccessedSame
<1>2. CASE ClientAt(a) = None
  <2>1. /\ TableFor(a) = AfterFind(table, a, time)
        /\ IndexFor(a) = FindEncryptionEntryIndex(table, a, time)
    BY <1>2 DEF TableFor, IndexFor
  <2> QED BY <2>1, BaseFacts, FindFacts
<1> QED BY <1>1, <1>2

\* A server that is not full has a free slot.
LEMMA FreeFacts ==
    ASSUME BaseInv, Cardinality(Connected) # MaxClients
    PROVE  Min(Free) \in Slots /\ ~instance[Min(Free)].connected
<1>1. Free # {}
  <2> SUFFICES ASSUME Free = {} PROVE FALSE
    OBVIOUS
  <2>1. Connected = Slots
    BY BaseFacts DEF Free
  <2>2. Cardinality(Slots) = MaxClients
    <3>1. 1 \in Int /\ MaxClients \in Int /\ ~(1 > MaxClients) /\ MaxClients - 1 + 1 = MaxClients
      BY ConstantFacts
    <3> QED BY <3>1, FS_Interval DEF Slots
  <2> QED BY <2>1, <2>2
<1>2. Free \in SUBSET Nat
  BY ConstantFacts DEF Free
<1>3. Min(Free) \in Free
  BY <1>1, <1>2, MinFacts
<1> QED BY <1>3 DEF Free

-----------------------------------------------------------------------------
(* Sending to several clients and removing several.                        *)

LEMMA SendsFacts ==
    ASSUME BaseInv, NEW slots
    PROVE  LET n == TableAfterSends(slots)
           IN  /\ GoodTable(n, sources) /\ Accessed(table, n, time)
               /\ \A i \in slots : instance[i].encryptionIndex \in Entries =>
                    n.entry[instance[i].encryptionIndex].lastAccess = time
<1> DEFINE Used(j) == \E i \in slots : instance[i].encryptionIndex = j
           g == [j \in Entries |-> [table.entry[j] EXCEPT !.lastAccess = time]]
           f == [j \in Entries |-> IF Used(j) THEN g[j] ELSE table.entry[j]]
           n == TableAfterSends(slots)
<1>1. /\ table \in Table /\ time \in Int /\ table.num \in 0 .. MaxEntries
      /\ \A j \in Entries : table.entry[j] \in Entry
  BY BaseFacts, TableFields
<1>2. ASSUME NEW j \in Entries
      PROVE  /\ g[j] \in Entry /\ g[j].address = table.entry[j].address
             /\ g[j].key = table.entry[j].key /\ g[j].lastAccess = time
             /\ g[j].expireTime = table.entry[j].expireTime
  BY <1>1 DEF Entry
<1> HIDE DEF g
<1>3. /\ f \in [Entries -> Entry]
      /\ \A j \in Entries : f[j] = IF Used(j) THEN g[j] ELSE table.entry[j]
  <2> HIDE DEF Used
  <2> QED BY <1>1, <1>2
<1>4. n = [table EXCEPT !.entry = f]
  BY DEF TableAfterSends, g
<1> HIDE DEF f, n
<1>5. n \in Table /\ n.num = table.num /\ n.entry = f
  BY <1>1, <1>3, <1>4 DEF Table
<1>6. ASSUME NEW j \in Entries
      PROVE  /\ Genuine(n.entry[j], sources)
             /\ n.entry[j].address = table.entry[j].address
             /\ n.entry[j].key = table.entry[j].key
             /\ n.entry[j].expireTime = table.entry[j].expireTime
             /\ n.entry[j].lastAccess \in {table.entry[j].lastAccess, time}
  <2> HIDE DEF Used
  <2>1. Genuine(table.entry[j], sources)
    BY BaseFacts DEF GoodTable
  <2> QED BY <1>2, <1>3, <1>5, <2>1 DEF Genuine
<1>7. GoodTable(n, sources) /\ Accessed(table, n, time)
  BY <1>5, <1>6 DEF GoodTable, Accessed
<1>8. ASSUME NEW i \in slots, instance[i].encryptionIndex \in Entries
      PROVE  n.entry[instance[i].encryptionIndex].lastAccess = time
  <2>1. Used(instance[i].encryptionIndex)
    OBVIOUS
  <2> HIDE DEF Used
  <2> QED BY <1>2, <1>3, <1>5, <1>8, <2>1
<1> QED BY <1>7, <1>8 DEF n

LEMMA SendersFacts ==
    ASSUME BaseInv, NEW slots
    PROVE  LET d == ClientsAfterSends(slots)
           IN  /\ d \in [Slots -> ClientRecord]
               /\ \A i \in Slots :
                    /\ Sound(d[i], time)
                    /\ d[i].connected = instance[i].connected
                    /\ d[i].address = instance[i].address
                    /\ d[i].encryptionIndex = instance[i].encryptionIndex
                    /\ d[i].lastRecvTime = instance[i].lastRecvTime
                    /\ d[i].lastSendTime =
                         IF i \in slots THEN time ELSE instance[i].lastSendTime
<1> DEFINE d == ClientsAfterSends(slots)
<1>1. d = [i \in Slots |-> IF i \in slots THEN SentClient(instance[i], time) ELSE instance[i]]
  BY DEF ClientsAfterSends, SentClient
<1> HIDE DEF d
<1>2. ASSUME NEW i \in Slots
      PROVE  /\ d[i] = IF i \in slots THEN SentClient(instance[i], time) ELSE instance[i]
             /\ Sound(d[i], time) /\ d[i] \in ClientRecord
             /\ d[i].connected = instance[i].connected
             /\ d[i].address = instance[i].address
             /\ d[i].encryptionIndex = instance[i].encryptionIndex
             /\ d[i].lastRecvTime = instance[i].lastRecvTime
             /\ d[i].lastSendTime = IF i \in slots THEN time ELSE instance[i].lastSendTime
  <2>1. d[i] = IF i \in slots THEN SentClient(instance[i], time) ELSE instance[i]
    BY <1>1
  <2>2. CASE i \in slots
    <3>1. Sound(instance[i], time) /\ time \in Nat
      BY BaseFacts
    <3>2. d[i] = SentClient(instance[i], time)
      BY <2>1, <2>2
    <3>3. /\ Sound(d[i], time) /\ d[i].connected = instance[i].connected
          /\ d[i].address = instance[i].address
          /\ d[i].encryptionIndex = instance[i].encryptionIndex
          /\ d[i].lastSendTime = time /\ d[i].lastRecvTime = instance[i].lastRecvTime
      BY <3>1, <3>2, SentSound
    <3> QED BY <2>1, <2>2, <3>3 DEF Sound
  <2>3. CASE i \notin slots
    BY <2>1, <2>3, BaseFacts
  <2> QED BY <2>2, <2>3
<1>3. d \in [Slots -> ClientRecord]
  <2>1. d = [i \in Slots |-> d[i]]
    BY <1>1
  <2> QED BY <1>2, <2>1
<1> QED BY <1>2, <1>3 DEF d

LEMMA DisconnectBase ==
    ASSUME BaseInv, time' = time, NEW m, GoodTable(m, sources),
           NEW clients, \A i \in Slots : Sound(clients[i], time),
           NEW slots, Disconnect(m, clients, slots)
    PROVE  /\ ClientsSound' /\ GoodTable(table', sources) /\ Spared(m, table', slots)
           /\ disturbed' = disturbed \ slots /\ disturbed' \subseteq Slots
           /\ \A i \in Slots : /\ i \in slots => ~instance'[i].connected
                               /\ i \notin slots => instance'[i] = clients[i]
<1>1. time \in Nat /\ time \in Int
  BY BaseFacts
<1>2. GoodTable(table', sources) /\ Spared(m, table', slots)
  BY <1>1, WithoutFacts DEF Disconnect
<1>3. \A i \in Slots : instance'[i] = IF i \in slots THEN Cleared(clients[i]) ELSE clients[i]
  BY DEF Disconnect
<1>4. ASSUME NEW i \in Slots
      PROVE  /\ Sound(instance'[i], time') /\ instance'[i] \in ClientRecord
             /\ i \in slots => ~instance'[i].connected
             /\ i \notin slots => instance'[i] = clients[i]
  <2>1. CASE i \in slots
    BY <1>1, <1>3, <2>1, ClearedSound DEF Sound
  <2>2. CASE i \notin slots
    BY <1>3, <2>2 DEF Sound
  <2> QED BY <2>1, <2>2
<1>5. instance' \in [Slots -> ClientRecord]
  <2>1. instance' = [i \in Slots |-> instance'[i]]
    BY DEF Disconnect
  <2> QED BY <1>4, <2>1
<1>6. disturbed' = disturbed \ slots /\ disturbed' \subseteq Slots
  BY DEF Disconnect, BaseInv, OthersTyped
<1> QED BY <1>2, <1>4, <1>5, <1>6 DEF ClientsSound

\* A change of the client in slot i alone.
LEMMA OneClient ==
    ASSUME BaseInv, time' = time, NEW i \in Slots, NEW d, Sound(d, time),
           instance' = [instance EXCEPT ![i] = d]
    PROVE  /\ ClientsSound' /\ instance'[i] = d
           /\ \A k \in Slots : k # i => instance'[k] = instance[k]
<1>1. InSlots /\ \A k \in Slots : Sound(instance[k], time)
  BY BaseFacts
<1>2. instance'[i] = d /\ \A k \in Slots : k # i => instance'[k] = instance[k]
  BY <1>1 DEF InSlots
<1>3. d \in ClientRecord
  BY DEF Sound
<1>4. instance' \in [Slots -> ClientRecord]
  BY <1>1, <1>3 DEF InSlots
<1> QED BY <1>1, <1>2, <1>4 DEF ClientsSound

-----------------------------------------------------------------------------
(* Every step keeps the first part of the invariant.                       *)

\* What is said of the clients, the table and the panic after a step.
Core == ClientsSound /\ GoodTable(table, sources) /\ panicked \in BOOLEAN

LEMMA InitBase == Init => BaseInv
<1> SUFFICES ASSUME Init PROVE BaseInv
  OBVIOUS
<1>1. /\ time = 0 /\ phase = "idle" /\ running = TRUE /\ panicked = FALSE
      /\ instance = [i \in Slots |-> NewClientInstance] /\ table = NewTable
      /\ tokenEntries = History!ResetEntries
      /\ backlog = 0 /\ receiver = "reading" /\ burst = 0
      /\ sources = {} /\ accepted = {} /\ disturbed = {}
  BY DEF Init
<1>2. Sound(NewClientInstance, 0) /\ NewClientInstance \in ClientRecord
  BY NewSound DEF Sound
<1>3. ClientsSound
  BY <1>1, <1>2 DEF ClientsSound
<1>4. GoodTable(table, sources)
  BY <1>1, NewTableGood
<1>5. History!ResetEntries \in [History!EntryIndices -> HistoryEntry]
  BY DEF History!ResetEntries, HistoryEntry, EntryKeys, EntryAddresses
<1>6. OthersTyped
  BY <1>1, <1>5 DEF OthersTyped
<1>7. ChannelInv
  BY <1>1, ConstantFacts, GoServerAssumption DEF ChannelInv
<1> QED BY <1>1, <1>3, <1>4, <1>6, <1>7 DEF BaseInv

\* The clients are left alone.
LEMMA ClientsStill ==
    ASSUME BaseInv, instance' = instance, time' = time
    PROVE  ClientsSound'
BY DEF BaseInv, ClientsSound

LEMMA BeginCore == ASSUME BaseInv, UpdateBegin PROVE Core' /\ time' \in Nat /\ time' >= time
<1>1. /\ instance' = instance /\ table' = table /\ panicked' = panicked
      /\ sources' = sources
      /\ time' = time \/ time' \in time .. time + MaxGap
  BY DEF UpdateBegin
<1>2. time' \in Nat /\ time' >= time
  BY <1>1, BaseFacts, ConstantFacts
<1>3. ASSUME NEW i \in Slots PROVE Sound(instance'[i], time')
  <2>1. Sound(instance[i], time) /\ time \in Nat
    BY BaseFacts
  <2>2. instance[i].lastSendTime \in Nat /\ instance[i].lastRecvTime \in Nat
    BY <2>1, ClientFields DEF Sound
  <2> QED BY <1>1, <1>2, <2>1, <2>2 DEF Sound
<1> QED BY <1>1, <1>2, <1>3 DEF Core, BaseInv, ClientsSound

LEMMA UnreadableCore ==
    ASSUME BaseInv, NEW a \in Addresses, UnreadablePacket(a)
    PROVE  Core'
<1>1. /\ instance' = instance /\ time' = time /\ table' = TableFor(a)
      /\ panicked' = panicked /\ sources' = sources
  BY DEF UnreadablePacket, TakePacket
<1> QED BY <1>1, ClientsStill, LookupFacts DEF Core, BaseInv

LEMMA RequestCore ==
    ASSUME BaseInv, NEW k \in Tokens, NEW a \in Addresses, ConnectionRequest(k, a)
    PROVE  /\ Core' /\ disturbed' \subseteq Slots /\ sources' \subseteq Tokens \X Addresses
           /\ tokenEntries' \in [History!EntryIndices -> HistoryEntry]
<1> DEFINE m == TableFor(a)
           full == Cardinality(Connected) = MaxClients \/ ~CanAdd(m, a, time)
<1>1. instance' = instance /\ time' = time /\ panicked' = panicked
  BY DEF ConnectionRequest, TakePacket
<1>2. /\ full => table' = m /\ sources' = sources /\ disturbed' = disturbed
      /\ ~full => /\ table' = AddEncryptionMapping(m, a, k, time)
                  /\ sources' = sources \cup {<<k, a>>}
                  /\ disturbed' = disturbed \cup AtAddress(a)
  BY DEF ConnectionRequest
<1>3. GoodTable(m, sources) /\ time \in Int /\ time \in Nat
  BY LookupFacts, BaseFacts
<1>4. GoodTable(table', sources')
  <2> HIDE DEF m
  <2>1. CanAdd(m, a, time) =>
          GoodTable(AddEncryptionMapping(m, a, k, time), sources \cup {<<k, a>>})
    BY <1>3, AddFacts
  <2> QED BY <1>2, <1>3, <2>1
<1>5. sources' \subseteq Tokens \X Addresses /\ disturbed' \subseteq Slots
  BY <1>2 DEF BaseInv, OthersTyped, AtAddress, Connected
<1>6. tokenEntries' \in [History!EntryIndices -> HistoryEntry]
  <2> DEFINE e == [time |-> time, mac |-> k, address |-> a]
  <2>1. e \in HistoryEntry
    BY <1>3, ConstantFacts DEF HistoryEntry, EntryKeys, EntryAddresses
  <2>2. tokenEntries \in [History!EntryIndices -> HistoryEntry]
    BY DEF BaseInv, OthersTyped
  <2>3. \/ tokenEntries' = tokenEntries
        \/ tokenEntries' = [tokenEntries EXCEPT ![History!Oldest(tokenEntries)] = e]
    BY DEF ConnectionRequest, History!RecordToken
  <2> HIDE DEF e
  <2> QED BY <2>1, <2>2, <2>3
<1> QED BY <1>1, <1>4, <1>5, <1>6, ClientsStill DEF Core, BaseInv

\* More pairs of tokens and addresses make no table worse.
LEMMA GoodGrows ==
    ASSUME NEW m, NEW S, NEW T, GoodTable(m, S), S \subseteq T
    PROVE  GoodTable(m, T)
BY DEF GoodTable, Genuine

\* The steps of connectClient: the slot, the pinned table, the touch.  The
\* entry of the key is of an address the token was used from; the first client
\* of an address finds it by that address.
LEMMA ResponseFacts ==
    ASSUME BaseInv, NEW k \in Tokens, NEW a \in Addresses, ConnectionResponse(k, a),
           Cardinality(Connected) # MaxClients
    PROVE  LET j == IndexFor(a)
               i == Min(Free)
               m == Pinned(TableFor(a), j)
           IN  /\ i \in Slots /\ ~instance[i].connected /\ j \in Entries
               /\ InBounds(TableFor(a), j) /\ GoodTable(m, sources)
               /\ InBounds(m, j) /\ <<k, m.entry[j].address>> \in sources
               /\ AtAddress(a) = {} =>
                    TableFor(a).entry[j].address = a /\ CanTouch(m, j, a)
               /\ instance' = [instance EXCEPT ![i] =
                                 Joined(instance[i], TokenId[k], a, j, time)]
               /\ panicked' = ~CanTouch(m, j, a) /\ table' = AfterTouch(m, j, a, time)
               /\ sources' = sources \cup {<<k, a>>}
               /\ accepted' = accepted \cup {k}
               /\ disturbed' = IF AtAddress(a) = {} THEN disturbed
                               ELSE disturbed \cup AtAddress(a) \cup {i}
<1> DEFINE j == IndexFor(a)
           i == Min(Free)
           n == TableFor(a)
           m == Pinned(n, j)
<1>1. i \in Slots /\ ~instance[i].connected
  BY FreeFacts
<1>2. /\ GoodTable(n, sources) /\ j \in Entries \cup {None} /\ KeyOf(n, j) = k
      /\ AtAddress(a) = {} /\ j # None => n.entry[j].address = a
  BY LookupFacts DEF ConnectionResponse, Readable
<1>3. /\ panicked' = ~CanTouch(m, j, a) /\ table' = AfterTouch(m, j, a, time)
      /\ sources' = sources \cup {<<k, a>>}
      /\ accepted' = accepted \cup {k}
      /\ disturbed' = IF AtAddress(a) = {} THEN disturbed
                      ELSE disturbed \cup AtAddress(a) \cup {i}
      /\ instance' = [instance EXCEPT ![i] =
                        [@ EXCEPT !.connected = TRUE, !.clientId = TokenId[k],
                                  !.address = a, !.encryptionIndex = j,
                                  !.lastSendTime = time, !.lastRecvTime = time]]
  BY DEF ConnectionResponse
<1>4. instance' = [instance EXCEPT ![i] = Joined(instance[i], TokenId[k], a, j, time)]
  <2> HIDE DEF i, j
  <2> QED BY <1>3 DEF Joined
<1> HIDE DEF n, j, i
<1>5. j \in Entries /\ InBounds(n, j) /\ <<k, n.entry[j].address>> \in sources
  BY <1>2, KeyFacts
<1>6. /\ GoodTable(m, sources) /\ m.num = n.num
      /\ m.entry[j].address = n.entry[j].address
  BY <1>2, <1>5, PinFacts
<1> HIDE DEF m
<1>7. InBounds(m, j) /\ <<k, m.entry[j].address>> \in sources
  BY <1>5, <1>6 DEF InBounds
<1>8. ASSUME AtAddress(a) = {} PROVE n.entry[j].address = a /\ CanTouch(m, j, a)
  <2>1. n.entry[j].address = a
    BY <1>2, <1>5, <1>8, ConstantFacts
  <2> QED BY <1>6, <1>7, <2>1, ConstantFacts DEF CanTouch
<1>9. /\ i \in Slots /\ ~instance[i].connected /\ j \in Entries
      /\ InBounds(n, j) /\ GoodTable(m, sources)
      /\ InBounds(m, j) /\ <<k, m.entry[j].address>> \in sources
      /\ AtAddress(a) = {} => n.entry[j].address = a /\ CanTouch(m, j, a)
      /\ instance' = [instance EXCEPT ![i] = Joined(instance[i], TokenId[k], a, j, time)]
      /\ panicked' = ~CanTouch(m, j, a) /\ table' = AfterTouch(m, j, a, time)
      /\ sources' = sources \cup {<<k, a>>}
      /\ accepted' = accepted \cup {k}
      /\ disturbed' = IF AtAddress(a) = {} THEN disturbed
                      ELSE disturbed \cup AtAddress(a) \cup {i}
  BY <1>1, <1>3, <1>4, <1>5, <1>6, <1>7, <1>8
<1> QED BY <1>9 DEF n, m, j, i

LEMMA ResponseCore ==
    ASSUME BaseInv, NEW k \in Tokens, NEW a \in Addresses, ConnectionResponse(k, a)
    PROVE  /\ Core' /\ disturbed' \subseteq Slots /\ accepted' \subseteq Tokens
           /\ sources' \subseteq Tokens \X Addresses
<1> DEFINE j == IndexFor(a)
           i == Min(Free)
           m == Pinned(TableFor(a), j)
<1>1. time' = time /\ time \in Nat /\ time \in Int
  BY BaseFacts DEF ConnectionResponse, TakePacket
<1>2. /\ disturbed \subseteq Slots /\ accepted \subseteq Tokens /\ panicked \in BOOLEAN
      /\ sources \subseteq Tokens \X Addresses
  BY DEF BaseInv, OthersTyped
<1>3. CASE Cardinality(Connected) = MaxClients
  <2>1. /\ table' = TableFor(a) /\ panicked' = panicked /\ instance' = instance
        /\ accepted' = accepted /\ disturbed' = disturbed /\ sources' = sources
    BY <1>3 DEF ConnectionResponse
  <2> QED BY <1>1, <1>2, <2>1, LookupFacts, ClientsStill DEF Core
<1>4. CASE Cardinality(Connected) # MaxClients
  <2> DEFINE d == Joined(instance[i], TokenId[k], a, j, time)
  <2>1. /\ i \in Slots /\ ~instance[i].connected /\ j \in Entries
        /\ GoodTable(m, sources) /\ instance' = [instance EXCEPT ![i] = d]
        /\ panicked' \in BOOLEAN /\ table' = AfterTouch(m, j, a, time)
        /\ sources' = sources \cup {<<k, a>>} /\ accepted' = accepted \cup {k}
        /\ disturbed' = IF AtAddress(a) = {} THEN disturbed
                        ELSE disturbed \cup AtAddress(a) \cup {i}
    BY <1>4, ResponseFacts
  <2> HIDE DEF i, j, m
  <2>2. Sound(d, time)
    <3>1. Sound(instance[i], time) /\ TokenId[k] \in Ids /\ a \in Addresses
      BY <2>1, BaseFacts, ConstantFacts
    <3> QED BY <1>1, <2>1, <3>1, JoinedSound
  <2> HIDE DEF d
  <2>3. ClientsSound'
    BY <1>1, <2>1, <2>2, OneClient
  <2>4. GoodTable(table', sources')
    <3>1. GoodTable(table', sources)
      BY <1>1, <2>1, TouchFacts
    <3> QED BY <2>1, <3>1, GoodGrows
  <2>5. /\ disturbed' \subseteq Slots /\ accepted' \subseteq Tokens
        /\ sources' \subseteq Tokens \X Addresses
    BY <1>2, <2>1 DEF AtAddress, Connected
  <2> QED BY <2>1, <2>3, <2>4, <2>5 DEF Core
<1> QED BY <1>3, <1>4

\* The client in slot i is replaced by d, which keeps what Kept says.
LEMMA OneKept ==
    ASSUME BaseInv, time' = time, NEW i \in Slots, NEW d, Sound(d, time),
           Kept(instance[i], d), instance' = [instance EXCEPT ![i] = d]
    PROVE  ClientsSound' /\ \A x \in Slots : Kept(instance[x], instance'[x])
<1>1. /\ ClientsSound' /\ instance'[i] = d
      /\ \A x \in Slots : x # i => instance'[x] = instance[x]
  BY OneClient
<1>2. ASSUME NEW x \in Slots PROVE Kept(instance[x], instance'[x])
  <2>1. CASE x = i
    BY <1>1, <2>1
  <2>2. CASE x # i
    BY <1>1, <2>2, KeptItself, BaseFacts
  <2> QED BY <2>1, <2>2
<1> QED BY <1>1, <1>2

LEMMA KeepAliveCore ==
    ASSUME BaseInv, NEW k \in Tokens, NEW a \in Addresses, KeepAlive(k, a)
    PROVE  Core' /\ \A x \in Slots : Kept(instance[x], instance'[x])
<1> DEFINE i == ClientAt(a)
           d == HeardClient(instance[i], time)
<1>1. /\ i # None /\ time' = time /\ table' = table /\ panicked' = panicked
      /\ sources' = sources
      /\ instance' = [instance EXCEPT ![i].lastRecvTime = time, ![i].confirmed = TRUE]
  BY DEF KeepAlive, FromClient, TakePacket
<1>2. i \in Slots /\ time \in Nat
  BY <1>1, ClientAtFacts, BaseFacts
<1> HIDE DEF i
<1>3. Sound(d, time) /\ Kept(instance[i], d)
  BY <1>2, BaseFacts, HeardSound
<1>4. instance' = [instance EXCEPT ![i] = d]
  BY <1>1, <1>2, BaseFacts DEF HeardClient, InSlots
<1> HIDE DEF d
<1>5. ClientsSound' /\ \A x \in Slots : Kept(instance[x], instance'[x])
  BY <1>1, <1>2, <1>3, <1>4, OneKept
<1> QED BY <1>1, <1>5 DEF Core, BaseInv

LEMMA PayloadCore ==
    ASSUME BaseInv, NEW k \in Tokens, NEW a \in Addresses, Payload(k, a)
    PROVE  Core' /\ \A x \in Slots : Kept(instance[x], instance'[x])
<1> DEFINE i == ClientAt(a)
           c == HeardClient(instance[i], time)
           q == Push(instance[i].packetQueue, a)
           d == WithQueue(c, q)
<1>1. /\ i # None /\ time' = time /\ table' = table /\ panicked' = panicked
      /\ sources' = sources
      /\ instance' = [instance EXCEPT ![i].lastRecvTime = time, ![i].confirmed = TRUE,
                                      ![i].packetQueue = Push(@, a)]
  BY DEF Payload, FromClient, TakePacket
<1>2. /\ i \in Slots /\ time \in Nat /\ Sound(instance[i], time)
      /\ instance[i].address = a /\ instance[i].connected
      /\ instance[i] \in ClientRecord
  BY <1>1, ClientAtFacts, BaseFacts
<1> HIDE DEF i
<1>3. Sound(c, time) /\ Kept(instance[i], c) /\ c.packetQueue = instance[i].packetQueue
  <2>1. c.packetQueue = instance[i].packetQueue
    BY <1>2 DEF HeardClient, ClientRecord
  <2> HIDE DEF c
  <2> QED BY <1>2, <2>1, HeardSound DEF c
<1>4. q \in Seq(Addresses) /\ AllFrom(q, a)
  BY <1>2, PushFacts, ClientFields DEF Sound
<1>5. instance' = [instance EXCEPT ![i] = d]
  <2>1. d = [instance[i] EXCEPT !.lastRecvTime = time, !.confirmed = TRUE, !.packetQueue = q]
    BY DEF HeardClient, WithQueue
  <2>2. instance' = [instance EXCEPT ![i] =
              [instance[i] EXCEPT !.lastRecvTime = time, !.confirmed = TRUE, !.packetQueue = q]]
    <3> DEFINE P(x) == Push(x, a)
    <3>1. instance' = [instance EXCEPT ![i].lastRecvTime = time, ![i].confirmed = TRUE,
                                       ![i].packetQueue = P(@)]
      BY <1>1
    <3>2. q = P(instance[i].packetQueue)
      OBVIOUS
    <3> HIDE DEF P, q
    <3> QED BY <1>2, <3>1, <3>2, BaseFacts DEF InSlots, ClientRecord
  <2> QED BY <2>1, <2>2
<1> HIDE DEF c, q
<1>6. Sound(d, time) /\ Kept(c, d)
  BY <1>2, <1>3, <1>4, QueueSound DEF Kept
<1>7. Kept(instance[i], d)
  <2>1. /\ instance[i].lastRecvTime \in Nat /\ c.lastRecvTime \in Nat
        /\ d.lastRecvTime \in Nat
    BY <1>2, <1>3, <1>6, BaseFacts, ClientFields DEF Sound
  <2> HIDE DEF d
  <2> QED BY <1>3, <1>6, <2>1 DEF Kept
<1> HIDE DEF d
<1>8. ClientsSound' /\ \A x \in Slots : Kept(instance[x], instance'[x])
  BY <1>1, <1>2, <1>5, <1>6, <1>7, OneKept
<1> QED BY <1>1, <1>8 DEF Core, BaseInv

LEMMA ReadCore ==
    ASSUME BaseInv, NEW i \in Slots, RecvPayload(i)
    PROVE  Core' /\ \A x \in Slots : Kept(instance[x], instance'[x])
<1> DEFINE q == Tail(instance[i].packetQueue)
           d == WithQueue(instance[i], q)
<1>1. /\ time' = time /\ table' = table /\ panicked' = panicked /\ sources' = sources
      /\ instance[i].packetQueue # <<>>
      /\ instance' = [instance EXCEPT ![i].packetQueue = Tail(@)]
  BY DEF RecvPayload, ApiCall
<1>2. time \in Nat /\ Sound(instance[i], time) /\ instance[i] \in ClientRecord
  BY BaseFacts
<1>3. q \in Seq(Addresses) /\ AllFrom(q, instance[i].address) /\ instance[i].connected
  BY <1>1, <1>2, TailFacts, ClientFields DEF Sound
<1>4. instance' = [instance EXCEPT ![i] = d]
  BY <1>1, BaseFacts DEF WithQueue, InSlots
<1> HIDE DEF q
<1>5. Sound(d, time) /\ Kept(instance[i], d)
  BY <1>2, <1>3, QueueSound
<1> HIDE DEF d
<1>6. ClientsSound' /\ \A x \in Slots : Kept(instance[x], instance'[x])
  BY <1>1, <1>4, <1>5, OneKept
<1> QED BY <1>1, <1>6 DEF Core, BaseInv

LEMMA DisconnectReceivedCore ==
    ASSUME BaseInv, NEW k \in Tokens, NEW a \in Addresses, DisconnectReceived(k, a)
    PROVE  Core' /\ disturbed' \subseteq Slots
<1>1. /\ time' = time /\ panicked' = panicked /\ sources' = sources
      /\ Disconnect(table, instance, {ClientAt(a)})
  BY DEF DisconnectReceived, TakePacket
<1> QED BY <1>1, BaseFacts, DisconnectBase DEF Core, BaseInv

LEMMA DisconnectClientCore ==
    ASSUME BaseInv, NEW id, DisconnectClient(id)
    PROVE  Core' /\ disturbed' \subseteq Slots
<1>1. /\ time' = time /\ panicked' = panicked /\ sources' = sources
      /\ Disconnect(table, instance, {Min(WithId(id))})
  BY DEF DisconnectClient, ApiCall
<1> QED BY <1>1, BaseFacts, DisconnectBase DEF Core, BaseInv

LEMMA UpdateEndCore == ASSUME BaseInv, UpdateEnd PROVE Core' /\ disturbed' \subseteq Slots
<1> DEFINE m == TableAfterSends(KeepAliveDue)
           d == ClientsAfterSends(KeepAliveDue)
<1>1. /\ time' = time /\ panicked' = panicked /\ sources' = sources
      /\ Disconnect(m, d, Overdue)
  BY DEF UpdateEnd
<1>2. GoodTable(m, sources) /\ \A i \in Slots : Sound(d[i], time)
  BY SendsFacts, SendersFacts
<1> HIDE DEF m, d
<1> QED BY <1>1, <1>2, DisconnectBase DEF Core, BaseInv

LEMMA SendCore == ASSUME BaseInv, NEW slots, SendPayload(slots) PROVE Core'
<1> DEFINE to == {i \in slots : Reachable(i)}
           early == {i \in slots : /\ ~instance[i].confirmed
                                   /\ KeyOf(table, instance[i].encryptionIndex) # NoKey}
<1>1. /\ time' = time /\ panicked' = panicked /\ sources' = sources
      /\ table' = TableAfterSends(to)
      /\ instance' = ClientsAfterSends(to \cup early)
  BY DEF SendPayload, ApiCall
<1> HIDE DEF to, early
<1>2. GoodTable(table', sources')
  BY <1>1, SendsFacts
<1>3. ClientsSound'
  BY <1>1, SendersFacts DEF ClientsSound
<1> QED BY <1>1, <1>2, <1>3 DEF Core, BaseInv

LEMMA StopCore ==
    ASSUME BaseInv, Stop
    PROVE  /\ Core' /\ disturbed' \subseteq Slots
           /\ tokenEntries' \in [History!EntryIndices -> HistoryEntry]
           /\ \A i \in Slots : ~instance'[i].connected
<1> DEFINE m == TableWithout(table, Connected)
<1>1. /\ time' = time /\ panicked' = panicked /\ table' = ResetCryptoEntries(m)
      /\ sources' = sources
      /\ instance' = [i \in Slots |-> IF i \in Connected THEN Cleared(instance[i])
                                                         ELSE instance[i]]
      /\ tokenEntries' = History!ResetEntries /\ disturbed' = {}
  BY DEF Stop, ApiCall
<1>2. GoodTable(m, sources) /\ m \in Table
  BY BaseFacts, WithoutFacts DEF GoodTable
<1>3. GoodTable(table', sources')
  BY <1>1, <1>2, ResetGood
<1>4. ASSUME NEW i \in Slots
      PROVE  /\ Sound(instance'[i], time) /\ instance'[i] \in ClientRecord
             /\ ~instance'[i].connected
  <2>1. instance'[i] = IF i \in Connected THEN Cleared(instance[i]) ELSE instance[i]
    BY <1>1
  <2>2. CASE i \in Connected
    BY <2>1, <2>2, ClearedSound, BaseFacts DEF Sound
  <2>3. CASE i \notin Connected
    BY <2>1, <2>3, BaseFacts
  <2> QED BY <2>2, <2>3
<1>5. ClientsSound'
  <2>1. instance' = [i \in Slots |-> instance'[i]]
    BY <1>1
  <2>2. instance' \in [Slots -> ClientRecord]
    BY <1>4, <2>1
  <2> QED BY <1>1, <1>4, <2>2 DEF ClientsSound
<1>6. History!ResetEntries \in [History!EntryIndices -> HistoryEntry]
  BY DEF History!ResetEntries, HistoryEntry, EntryKeys, EntryAddresses
<1> QED BY <1>1, <1>3, <1>4, <1>5, <1>6 DEF Core, BaseInv

\* The channel.
LEMMA TakeChannel == ASSUME BaseInv, TakePacket PROVE ChannelInv'
BY ConstantFacts DEF BaseInv, ChannelInv, TakePacket

LEMMA ReceiveChannel == ASSUME BaseInv, Receive PROVE ChannelInv'
BY ConstantFacts DEF BaseInv, ChannelInv, Receive

LEMMA StillChannel ==
    ASSUME BaseInv, UNCHANGED <<backlog, receiver>>, burst' \in {burst, 0}
    PROVE  ChannelInv'
BY DEF BaseInv, ChannelInv

\* A packet is taken; what it does to clients and table is given.
LEMMA PacketBase ==
    ASSUME BaseInv, TakePacket, Core', disturbed' \subseteq Slots,
           sources' \subseteq Tokens \X Addresses, accepted' \subseteq Tokens,
           tokenEntries' \in [History!EntryIndices -> HistoryEntry]
    PROVE  BaseInv'
<1>1. ChannelInv'
  BY TakeChannel
<1>2. OthersTyped'
  BY DEF BaseInv, OthersTyped, TakePacket
<1> QED BY <1>1, <1>2 DEF BaseInv, Core

LEMMA ApiBase ==
    ASSUME BaseInv, ApiCall, Core', disturbed' \subseteq Slots, running' \in BOOLEAN,
           tokenEntries' \in [History!EntryIndices -> HistoryEntry]
    PROVE  BaseInv'
<1>1. ChannelInv'
  BY StillChannel DEF ApiCall
<1>2. OthersTyped'
  BY DEF BaseInv, OthersTyped, ApiCall
<1> QED BY <1>1, <1>2 DEF BaseInv, Core

LEMMA NextBase == BaseInv /\ [Next]_vars => BaseInv'
<1> SUFFICES ASSUME BaseInv, [Next]_vars PROVE BaseInv'
  OBVIOUS
<1>1. /\ disturbed \subseteq Slots /\ sources \subseteq Tokens \X Addresses
      /\ accepted \subseteq Tokens
      /\ tokenEntries \in [History!EntryIndices -> HistoryEntry] /\ running \in BOOLEAN
  BY DEF BaseInv, OthersTyped
<1>2. CASE UNCHANGED vars
  BY <1>2 DEF vars, BaseInv, OthersTyped, ClientsSound, ChannelInv
<1>19. CASE Dead
  BY <1>2, <1>19 DEF Dead
<1>3. CASE Receive
  <2>1. ChannelInv'
    BY <1>3, ReceiveChannel
  <2>2. ClientsSound'
    BY <1>3, ClientsStill DEF Receive
  <2>3. OthersTyped' /\ GoodTable(table', sources') /\ panicked' \in BOOLEAN
    BY <1>3 DEF Receive, BaseInv, OthersTyped
  <2> QED BY <2>1, <2>2, <2>3 DEF BaseInv
<1>4. CASE ReceiverEnds
  <2>1. ChannelInv'
    BY <1>4 DEF ReceiverEnds, BaseInv, ChannelInv
  <2>2. ClientsSound'
    BY <1>4, ClientsStill DEF ReceiverEnds
  <2>3. OthersTyped' /\ GoodTable(table', sources') /\ panicked' \in BOOLEAN
    BY <1>4 DEF ReceiverEnds, BaseInv, OthersTyped
  <2> QED BY <2>1, <2>2, <2>3 DEF BaseInv
<1>5. CASE UpdateBegin
  <2>1. Core' /\ time' \in Nat
    BY <1>5, BeginCore
  <2>2. ChannelInv'
    BY <1>5, StillChannel DEF UpdateBegin
  <2>3. OthersTyped'
    BY <1>5, <2>1 DEF UpdateBegin, BaseInv, OthersTyped
  <2> QED BY <2>1, <2>2, <2>3 DEF BaseInv, Core
<1>6. CASE UpdateEnd
  <2>1. Core' /\ disturbed' \subseteq Slots
    BY <1>6, UpdateEndCore
  <2>2. ChannelInv'
    BY <1>6, StillChannel DEF UpdateEnd, ChannelEmpty
  <2>3. OthersTyped'
    BY <1>6, <2>1 DEF UpdateEnd, ChannelEmpty, BaseInv, OthersTyped
  <2> QED BY <2>1, <2>2, <2>3 DEF BaseInv, Core
<1>7. CASE \E a \in Addresses : UnreadablePacket(a)
  <2>1. PICK a \in Addresses : UnreadablePacket(a)
    BY <1>7
  <2>2. /\ TakePacket /\ disturbed' = disturbed /\ sources' = sources
        /\ accepted' = accepted /\ tokenEntries' = tokenEntries
    BY <2>1 DEF UnreadablePacket
  <2> QED BY <1>1, <2>1, <2>2, UnreadableCore, PacketBase
<1>8. ASSUME NEW k \in Tokens, NEW a \in Addresses, ConnectionRequest(k, a) PROVE BaseInv'
  <2>1. TakePacket /\ accepted' = accepted
    BY <1>8 DEF ConnectionRequest
  <2> QED BY <1>1, <1>8, <2>1, RequestCore, PacketBase
<1>9. ASSUME NEW k \in Tokens, NEW a \in Addresses, ConnectionResponse(k, a) PROVE BaseInv'
  <2>1. TakePacket /\ tokenEntries' = tokenEntries
    BY <1>9 DEF ConnectionResponse
  <2> QED BY <1>1, <1>9, <2>1, ResponseCore, PacketBase
<1>10. ASSUME NEW k \in Tokens, NEW a \in Addresses, KeepAlive(k, a) PROVE BaseInv'
  <2>1. /\ TakePacket /\ disturbed' = disturbed /\ sources' = sources
        /\ accepted' = accepted /\ tokenEntries' = tokenEntries
    BY <1>10 DEF KeepAlive
  <2> QED BY <1>1, <1>10, <2>1, KeepAliveCore, PacketBase
<1>11. ASSUME NEW k \in Tokens, NEW a \in Addresses, Payload(k, a) PROVE BaseInv'
  <2>1. /\ TakePacket /\ disturbed' = disturbed /\ sources' = sources
        /\ accepted' = accepted /\ tokenEntries' = tokenEntries
    BY <1>11 DEF Payload
  <2> QED BY <1>1, <1>11, <2>1, PayloadCore, PacketBase
<1>12. ASSUME NEW k \in Tokens, NEW a \in Addresses, DisconnectReceived(k, a) PROVE BaseInv'
  <2>1. /\ TakePacket /\ sources' = sources
        /\ accepted' = accepted /\ tokenEntries' = tokenEntries
    BY <1>12 DEF DisconnectReceived
  <2> QED BY <1>1, <1>12, <2>1, DisconnectReceivedCore, PacketBase
<1>13. ASSUME NEW slots, SendPayload(slots) PROVE BaseInv'
  <2>1. /\ ApiCall /\ disturbed' = disturbed /\ running' = running
        /\ tokenEntries' = tokenEntries
    BY <1>13 DEF SendPayload
  <2> QED BY <1>1, <1>13, <2>1, SendCore, ApiBase
<1>14. ASSUME NEW id, DisconnectClient(id) PROVE BaseInv'
  <2>1. ApiCall /\ running' = running /\ tokenEntries' = tokenEntries
    BY <1>14 DEF DisconnectClient
  <2> QED BY <1>1, <1>14, <2>1, DisconnectClientCore, ApiBase
<1>15. ASSUME NEW i \in Slots, RecvPayload(i) PROVE BaseInv'
  <2>1. /\ ApiCall /\ disturbed' = disturbed /\ running' = running
        /\ tokenEntries' = tokenEntries
    BY <1>15 DEF RecvPayload
  <2> QED BY <1>1, <1>15, <2>1, ReadCore, ApiBase
<1>16. CASE Stop
  <2>1. ApiCall /\ running' = FALSE
    BY <1>16 DEF Stop
  <2> QED BY <1>16, <2>1, StopCore, ApiBase
<1>17. CASE Api
  <2>1. ASSUME NEW id \in Ids, SendPayloadToClient(id) PROVE BaseInv'
    BY <1>13, <2>1 DEF SendPayloadToClient
  <2> QED BY <1>13, <1>14, <1>15, <1>16, <1>17, <2>1 DEF Api
<1>18. CASE Packet
  BY <1>7, <1>8, <1>9, <1>10, <1>11, <1>12, <1>18 DEF Packet
<1> QED BY <1>2, <1>3, <1>4, <1>5, <1>6, <1>17, <1>18, <1>19 DEF Next

\* Every step of the server keeps the base invariant: a key it holds was filed
\* by a request from the address it is filed under or by an earlier use of its
\* token from there, a cleared entry has neither key nor address, a free slot
\* holds no payloads, and the goroutine waits only on a full channel.
THEOREM ServerInvariant == Spec => []BaseInv
BY InitBase, NextBase, PTL DEF Spec

LEMMA PanicStep ==
    ASSUME BaseInv, BaseInv', PanicNeedsMovedToken, [Next]_vars
    PROVE  PanicNeedsMovedToken'
<1>1. CASE UNCHANGED vars \/ Dead
  <2>1. panicked' = panicked /\ sources' = sources /\ instance' = instance
    BY <1>1 DEF vars, Dead
  <2>2. ASSUME panicked
        PROVE  \E t \in Tokens, a, b \in Addresses :
                   /\ a # b /\ {<<t, a>>, <<t, b>>} \subseteq sources'
                   /\ \E i, j \in AtAddress(a)' : i # j
    <3>1. PICK t \in Tokens, a \in Addresses, b \in Addresses :
            /\ a # b /\ {<<t, a>>, <<t, b>>} \subseteq sources
            /\ \E i, j \in AtAddress(a) : i # j
      BY <2>2 DEF PanicNeedsMovedToken
    <3>2. AtAddress(a)' = AtAddress(a)
      BY <2>1 DEF AtAddress, Connected
    <3> QED BY <2>1, <3>1, <3>2
  <2> QED BY <2>1, <2>2 DEF PanicNeedsMovedToken
<1>2. ASSUME ~panicked, panicked' = panicked PROVE PanicNeedsMovedToken'
  BY <1>2 DEF PanicNeedsMovedToken
<1>3. ASSUME NEW k \in Tokens, NEW a \in Addresses, ConnectionResponse(k, a)
      PROVE  PanicNeedsMovedToken'
  <2> DEFINE j == IndexFor(a)
             x == Min(Free)
             m == Pinned(TableFor(a), j)
             b == m.entry[j].address
             d == Joined(instance[x], TokenId[k], a, j, time)
  <2>1. time' = time /\ time \in Nat /\ ~panicked
    BY <1>3, BaseFacts DEF ConnectionResponse, TakePacket
  <2>2. CASE Cardinality(Connected) = MaxClients
    <3>1. panicked' = panicked
      BY <1>3, <2>2 DEF ConnectionResponse
    <3> QED BY <1>2, <2>1, <3>1
  <2>3. CASE Cardinality(Connected) # MaxClients
    <3>1. /\ x \in Slots /\ ~instance[x].connected /\ j \in Entries
          /\ InBounds(m, j) /\ <<k, b>> \in sources
          /\ AtAddress(a) = {} => CanTouch(m, j, a)
          /\ instance' = [instance EXCEPT ![x] = d]
          /\ panicked' = ~CanTouch(m, j, a) /\ sources' = sources \cup {<<k, a>>}
      BY <1>3, <2>3, ResponseFacts
    <3> HIDE DEF x, j, m
    <3>2. CASE CanTouch(m, j, a)
      BY <3>1, <3>2 DEF PanicNeedsMovedToken
    <3>3. CASE ~CanTouch(m, j, a)
      <4>1. b \in Addresses /\ b # a
        BY <3>1, <3>3, ConstantFacts DEF CanTouch, BaseInv, OthersTyped
      <4>2. {<<k, a>>, <<k, b>>} \subseteq sources'
        BY <3>1
      <4>3. PICK l \in AtAddress(a) : TRUE
        BY <3>1, <3>3
      <4>4. l \in Slots /\ l # x /\ instance[l].connected /\ instance[l].address = a
        BY <3>1, <4>3, BaseFacts DEF AtAddress
      <4>5. Sound(d, time) /\ d.connected /\ d.address = a
        <5>1. Sound(instance[x], time) /\ TokenId[k] \in Ids
          BY <3>1, BaseFacts, ConstantFacts
        <5> QED BY <2>1, <3>1, <5>1, JoinedSound
      <4> HIDE DEF d, b
      <4>6. instance'[x] = d /\ instance'[l] = instance[l]
        BY <2>1, <3>1, <4>4, <4>5, OneClient
      <4>7. x \in AtAddress(a)' /\ l \in AtAddress(a)'
        BY <3>1, <4>4, <4>5, <4>6, ConstantFacts DEF AtAddress, Connected
      <4> QED BY <4>1, <4>2, <4>4, <4>7 DEF PanicNeedsMovedToken
    <3> QED BY <3>2, <3>3
  <2> QED BY <2>2, <2>3
<1>4. CASE Receive \/ ReceiverEnds \/ UpdateBegin \/ UpdateEnd
  BY <1>2, <1>4 DEF Receive, ReceiverEnds, UpdateBegin, UpdateEnd, ChannelEmpty
<1>5. CASE Api
  <2>1. ~panicked /\ panicked' = panicked
    BY <1>5 DEF Api, SendPayloadToClient, SendPayload, DisconnectClient, RecvPayload,
                Stop, ApiCall
  <2> QED BY <1>2, <2>1
<1>6. CASE Packet
  <2>1. ASSUME NEW k \in Tokens, NEW a \in Addresses,
               \/ ConnectionRequest(k, a) \/ KeepAlive(k, a) \/ Payload(k, a)
               \/ DisconnectReceived(k, a)
        PROVE  ~panicked /\ panicked' = panicked
    BY <2>1 DEF ConnectionRequest, KeepAlive, Payload, DisconnectReceived, TakePacket
  <2>2. ASSUME NEW a \in Addresses, UnreadablePacket(a) PROVE ~panicked /\ panicked' = panicked
    BY <2>2 DEF UnreadablePacket, TakePacket
  <2> QED BY <1>2, <1>3, <1>6, <2>1, <2>2 DEF Packet
<1> QED BY <1>1, <1>4, <1>5, <1>6 DEF Next

\* The panic in sendKeepAlive (server.go:438-441) needs a token that was used
\* from two addresses, and two clients at one of them: the key that read the
\* response lies in an entry of an address its token was used from, which is
\* the response's own unless the index came from a client already there.
THEOREM PanicNeedsMove == Spec => []PanicNeedsMovedToken
<1>1. Init => PanicNeedsMovedToken
  BY DEF Init, PanicNeedsMovedToken
<1>2. BaseInv /\ BaseInv' /\ PanicNeedsMovedToken /\ [Next]_vars => PanicNeedsMovedToken'
  BY PanicStep
<1> QED BY <1>1, <1>2, ServerInvariant, PTL DEF Spec

\* A payload waiting in a slot came from the address of the slot's client,
\* whoever had the slot before (client_instance.go:35-49).
THEOREM QueuedFromOccupant == Spec => []PayloadFromOccupant
<1>1. BaseInv => PayloadFromOccupant
  BY DEF BaseInv, ClientsSound, Sound, AllFrom, PayloadFromOccupant
<1> QED BY <1>1, ServerInvariant, PTL

-----------------------------------------------------------------------------
(* The mappings of the clients, when Update is called in time.             *)

SlackFits == Slack \in Nat /\ Slack <= Timeout

LEMMA SlackFacts == ASSUME UpdatesInTime, BaseInv PROVE SlackFits
BY ConstantFacts DEF UpdatesInTime, BaseInv, OthersTyped, Slack, SlackFits

\* What backs a client is secure.
LEMMA BackedSecure ==
    ASSUME NEW c \in ClientRecord, NEW m \in Table, NEW t \in Int,
           NEW s \in Nat, s <= Timeout, Backed(c, m, t, s)
    PROVE  Secure(m, c.encryptionIndex, c.address, t)
<1>1. c.encryptionIndex \in Entries
  BY TableFields DEF Backed
<1>2. m.entry[c.encryptionIndex].lastAccess \in Int
  BY <1>1, TableFields
<1> QED BY <1>1, <1>2, ConstantFacts DEF Backed, Secure, Fresh

\* The entry is left as it is.
LEMMA BackedSame ==
    ASSUME NEW c, NEW d, NEW m, NEW n, NEW t, NEW s, Backed(c, m, t, s), Kept(c, d),
           c.encryptionIndex \in 1 .. n.num,
           n.entry[c.encryptionIndex] = m.entry[c.encryptionIndex]
    PROVE  Backed(d, n, t, s)
BY DEF Backed, Kept

\* Accesses leave a client backed, sent to or not.
LEMMA BackedAccessed ==
    ASSUME NEW c \in ClientRecord, NEW d, NEW m \in Table, NEW n \in Table,
           NEW t \in Nat, NEW s \in Nat, Backed(c, m, t, s), Accessed(m, n, t),
           d.address = c.address, d.encryptionIndex = c.encryptionIndex,
           c.lastSendTime <= t,
           \/ d.lastSendTime = c.lastSendTime
           \/ d.lastSendTime = t /\ n.entry[c.encryptionIndex].lastAccess = t
    PROVE  Backed(d, n, t, s)
<1> DEFINE j == c.encryptionIndex
<1>1. j \in Entries /\ j \in 1 .. n.num
  BY TableFields DEF Backed, Accessed
<1>2. /\ n.entry[j].address = m.entry[j].address
      /\ n.entry[j].expireTime = m.entry[j].expireTime
      /\ n.entry[j].lastAccess \in {m.entry[j].lastAccess, t}
  BY <1>1 DEF Accessed
<1>3. m.entry[j].lastAccess \in Int /\ c.lastSendTime \in Nat
  BY <1>1, TableFields, ClientFields
<1>4. d.lastSendTime <= n.entry[j].lastAccess /\ t <= n.entry[j].lastAccess + s
  BY <1>2, <1>3 DEF Backed
<1> QED BY <1>1, <1>2, <1>4 DEF Backed

\* No one joins, no one who stays is forgotten to be disturbed, and those who
\* are not stay backed.
LEMMA NobodyJoins ==
    ASSUME BaseInv, BaseInv', MapInv,
           \A i \in Slots : instance'[i].connected =>
               /\ instance[i].connected /\ instance'[i].address = instance[i].address
               /\ i \in disturbed => i \in disturbed',
           \A i \in Slots : instance'[i].connected /\ i \notin disturbed' =>
               Backed(instance'[i], table', time', Slack')
    PROVE  MapInv'
<1>1. \A i \in Slots : i \in Connected <=> instance[i].connected
  BY BaseFacts
<1>2. \A i \in Connected' : i \in Slots /\ instance'[i].connected
  BY DEF Connected
<1>3. SharersDisturbed'
  <2> SUFFICES ASSUME NEW i \in Connected', NEW k \in Connected', i # k,
                      instance'[i].address = instance'[k].address
               PROVE  i \in disturbed'
    BY DEF SharersDisturbed
  <2>1. /\ i \in Slots /\ k \in Slots /\ i \in Connected /\ k \in Connected
        /\ instance[i].address = instance[k].address
    BY <1>1, <1>2
  <2> QED BY <1>2, <2>1 DEF MapInv, SharersDisturbed
<1>4. \A i \in Connected' \ disturbed' : Backed(instance'[i], table', time', Slack')
  BY <1>2
<1> QED BY <1>3, <1>4 DEF MapInv

LEMMA UndisturbedFacts ==
    ASSUME UpdatesInTime, BaseInv, MapInv,
           NEW i \in Slots, instance[i].connected, i \notin disturbed
    PROVE  /\ Backed(instance[i], table, time, Slack)
           /\ Secure(table, instance[i].encryptionIndex, instance[i].address, time)
           /\ instance[i].lastSendTime <= time
           /\ \A k \in Connected : k # i => instance[k].address # instance[i].address
<1>1. i \in Connected
  BY BaseFacts
<1>2. Backed(instance[i], table, time, Slack)
  BY <1>1 DEF MapInv
<1>3. Secure(table, instance[i].encryptionIndex, instance[i].address, time)
  <2>1. Slack \in Nat /\ Slack <= Timeout
    BY SlackFacts DEF SlackFits
  <2> QED BY <1>2, <2>1, BaseFacts, BackedSecure
<1>4. instance[i].lastSendTime <= time
  BY BaseFacts DEF Sound
<1>5. \A k \in Connected : k # i => instance[k].address # instance[i].address
  BY <1>1 DEF MapInv, SharersDisturbed
<1> QED BY <1>2, <1>3, <1>4, <1>5

LEMMA SlackFactsNext == ASSUME UpdatesInTime, BaseInv' PROVE SlackFits'
BY ConstantFacts DEF UpdatesInTime, BaseInv, OthersTyped, Slack, SlackFits

\* Nothing happens to the clients but that they are heard of or read from.
LEMMA MapKept ==
    ASSUME UpdatesInTime, BaseInv, BaseInv', MapInv,
           UNCHANGED <<time, phase, disturbed>>, Accessed(table, table', time),
           \A i \in Slots : Kept(instance[i], instance'[i])
    PROVE  MapInv'
<1>1. Slack' = Slack /\ Slack \in Nat
  BY SlackFacts DEF Slack, SlackFits
<1>2. ASSUME NEW i \in Slots, instance'[i].connected, i \notin disturbed'
      PROVE  Backed(instance'[i], table', time', Slack')
  <2>1. /\ Backed(instance[i], table, time, Slack) /\ instance[i].lastSendTime <= time
        /\ instance[i] \in ClientRecord /\ table \in Table /\ table' \in Table /\ time \in Nat
    BY <1>2, UndisturbedFacts, BaseFacts DEF Kept, BaseInv, GoodTable
  <2>2. Backed(instance'[i], table', time, Slack)
    BY <1>1, <2>1, BackedAccessed DEF Kept
  <2> QED BY <1>1, <2>2
<1>3. \A i \in Slots : instance'[i].connected =>
        /\ instance[i].connected /\ instance'[i].address = instance[i].address
        /\ i \in disturbed => i \in disturbed'
  BY DEF Kept
<1> QED BY <1>2, <1>3, NobodyJoins

LEMMA KeptSame ==
    ASSUME BaseInv, instance' = instance
    PROVE  \A i \in Slots : Kept(instance[i], instance'[i])
BY BaseFacts, KeptItself

LEMMA MapBegin == ASSUME UpdatesInTime, BaseInv, BaseInv', MapInv, UpdateBegin PROVE MapInv'
<1>1. /\ instance' = instance /\ table' = table /\ disturbed' = disturbed /\ phase = "idle"
      /\ \/ phase' = "idle" /\ time' = time
         \/ phase' = "draining" /\ time' \in time .. time + MaxGap
  BY DEF UpdateBegin
<1>2. ASSUME NEW i \in Slots, instance'[i].connected, i \notin disturbed'
      PROVE  Backed(instance'[i], table', time', Slack')
  <2>1. Backed(instance[i], table, time, Slack)
    BY <1>1, <1>2, UndisturbedFacts
  <2>2. instance[i].encryptionIndex \in Entries /\ table \in Table /\ time \in Nat
    BY <2>1, BaseFacts, TableFields DEF Backed
  <2>3. table.entry[instance[i].encryptionIndex].lastAccess \in Int
    BY <2>2, TableFields
  <2>4. time' <= table.entry[instance[i].encryptionIndex].lastAccess + Slack'
    BY <1>1, <2>1, <2>2, <2>3, ConstantFacts DEF Backed, Slack
  <2> QED BY <1>1, <2>1, <2>4 DEF Backed
<1> QED BY <1>1, <1>2, NobodyJoins

LEMMA MapRequest ==
    ASSUME UpdatesInTime, BaseInv, BaseInv', MapInv,
           NEW k \in Tokens, NEW a \in Addresses, ConnectionRequest(k, a)
    PROVE  MapInv'
<1> DEFINE m == TableFor(a)
           n == AddEncryptionMapping(m, a, k, time)
<1>1. instance' = instance /\ time' = time /\ phase' = phase
  BY DEF ConnectionRequest, TakePacket
<1>2. /\ table \in Table /\ time \in Nat /\ time \in Int
      /\ GoodTable(m, sources) /\ m \in Table /\ Accessed(table, m, time)
  BY BaseFacts, LookupFacts DEF GoodTable
<1>3. \/ table' = m /\ disturbed' = disturbed
      \/ CanAdd(m, a, time) /\ table' = n /\ disturbed' = disturbed \cup AtAddress(a)
  BY DEF ConnectionRequest
<1>4. CASE table' = m /\ disturbed' = disturbed
  BY <1>1, <1>2, <1>4, KeptSame, MapKept
<1>5. CASE CanAdd(m, a, time) /\ table' = n /\ disturbed' = disturbed \cup AtAddress(a)
  <2> HIDE DEF m
  <2>1. SparesOthers(m, n, a, time)
    BY <1>2, <1>5, AddFacts
  <2> HIDE DEF n
  <2>2. Slack' = Slack /\ Slack \in Nat
    BY <1>1, SlackFacts DEF Slack, SlackFits
  <2>3. ASSUME NEW i \in Slots, instance'[i].connected, i \notin disturbed'
        PROVE  Backed(instance'[i], table', time', Slack')
    <3> DEFINE c == instance[i]
    <3>1. /\ Backed(c, table, time, Slack) /\ c.lastSendTime <= time /\ c \in ClientRecord
          /\ Secure(table, c.encryptionIndex, c.address, time)
      BY <1>1, <1>5, <2>3, UndisturbedFacts, BaseFacts
    <3>2. c.address # a
      BY <1>1, <1>5, <2>3, BaseFacts DEF AtAddress
    <3>3. Backed(c, m, time, Slack)
      BY <1>2, <2>2, <3>1, BackedAccessed
    <3>4. Secure(m, c.encryptionIndex, c.address, time)
      BY <1>2, <3>1, AccessedSecure
    <3> HIDE DEF c
    <3>5. c.encryptionIndex \in 1 .. n.num /\ n.entry[c.encryptionIndex] = m.entry[c.encryptionIndex]
      BY <2>1, <3>2, <3>4 DEF SparesOthers
    <3>6. Backed(c, n, time, Slack)
      BY <3>1, <3>3, <3>5, BackedSame, KeptItself
    <3> QED BY <1>1, <1>5, <2>2, <3>6 DEF c
  <2> QED BY <1>1, <1>5, <2>3, NobodyJoins
<1> QED BY <1>3, <1>4, <1>5

\* The clients of slots are removed, after the others were sent to.
LEMMA MapDisconnect ==
    ASSUME UpdatesInTime, BaseInv, BaseInv', MapInv, time' = time,
           NEW m, GoodTable(m, sources), NEW clients,
           \A i \in Slots : /\ Sound(clients[i], time)
                            /\ clients[i].connected = instance[i].connected
                            /\ clients[i].address = instance[i].address,
           NEW slots, slots \subseteq Connected, Disconnect(m, clients, slots),
           \A i \in Slots \ slots : instance[i].connected /\ i \notin disturbed =>
               Backed(clients[i], m, time, Slack')
    PROVE  MapInv'
<1>1. time \in Int /\ m \in Table
  BY BaseFacts DEF GoodTable
<1>2. /\ Spared(m, table', slots) /\ disturbed' = disturbed \ slots
      /\ \A i \in Slots : /\ i \in slots => ~instance'[i].connected
                          /\ i \notin slots => instance'[i] = clients[i]
  BY DisconnectBase
<1>3. Slack' \in Nat /\ Slack' <= Timeout
  BY SlackFactsNext DEF SlackFits
<1>4. ASSUME NEW i \in Slots, instance'[i].connected, i \notin disturbed'
      PROVE  Backed(instance'[i], table', time', Slack')
  <2> DEFINE c == clients[i]
  <2>1. i \notin slots /\ instance'[i] = c /\ instance[i].connected /\ i \notin disturbed
    BY <1>2, <1>4
  <2>2. Backed(c, m, time, Slack') /\ c \in ClientRecord
    BY <2>1 DEF Sound
  <2>3. c.address = instance[i].address
    OBVIOUS
  <2> HIDE DEF c
  <2>4. Secure(m, c.encryptionIndex, c.address, time)
    BY <1>1, <1>3, <2>2, BackedSecure
  <2>5. \A x \in slots : instance[x].address # c.address
    BY <2>1, <2>3, UndisturbedFacts
  <2>6. /\ c.encryptionIndex \in 1 .. table'.num
        /\ table'.entry[c.encryptionIndex] = m.entry[c.encryptionIndex]
    BY <1>2, <2>4, <2>5 DEF Spared
  <2>7. Backed(c, table', time, Slack')
    BY <2>2, <2>6, BackedSame, KeptItself
  <2> QED BY <2>1, <2>7
<1>5. \A i \in Slots : instance'[i].connected =>
        /\ instance[i].connected /\ instance'[i].address = instance[i].address
        /\ i \in disturbed => i \in disturbed'
  BY <1>2
<1> QED BY <1>4, <1>5, NobodyJoins

\* One client is removed, by its own packet or by a call.
LEMMA MapDisconnectOne ==
    ASSUME UpdatesInTime, BaseInv, BaseInv', MapInv, time' = time, phase' = phase,
           NEW x \in Connected, Disconnect(table, instance, {x})
    PROVE  MapInv'
<1>1. Slack' = Slack
  BY DEF Slack
<1>2. \A i \in Slots \ {x} : instance[i].connected /\ i \notin disturbed =>
        Backed(instance[i], table, time, Slack')
  BY <1>1, UndisturbedFacts
<1>3. {x} \subseteq Connected /\ GoodTable(table, sources) /\ \A i \in Slots : Sound(instance[i], time)
  BY BaseFacts
<1> QED BY <1>2, <1>3, MapDisconnect

\* A client with a mapping can be written to.
LEMMA BackedReachable ==
    ASSUME BaseInv, NEW i \in Slots, instance[i].connected, NEW s,
           Backed(instance[i], table, time, s)
    PROVE  Reachable(i) /\ instance[i].encryptionIndex \in Entries
<1> DEFINE j == instance[i].encryptionIndex
<1>1. table \in Table /\ j \in 1 .. table.num /\ j \in Entries /\ table.num \in Nat
  BY BaseFacts, TableFields DEF Backed
<1>2. instance[i].address \in Addresses /\ table.entry[j].address = instance[i].address
  BY BaseFacts DEF Sound, Backed
<1>3. Genuine(table.entry[j], sources)
  BY <1>1, BaseFacts DEF GoodTable
<1>4. InBounds(table, j)
  BY <1>1, ConstantFacts DEF InBounds
<1>5. table.entry[j].key # NoKey /\ instance[i].address # NoAddress
  BY <1>2, <1>3, ConstantFacts DEF Genuine
<1> QED BY <1>1, <1>2, <1>4, <1>5 DEF Reachable, KeyOf, CanTouch

LEMMA MapUpdateEnd == ASSUME UpdatesInTime, BaseInv, BaseInv', MapInv, UpdateEnd PROVE MapInv'
<1> DEFINE D == KeepAliveDue
           m == TableAfterSends(D)
           d == ClientsAfterSends(D)
<1>1. time' = time /\ phase' = "idle" /\ Disconnect(m, d, Overdue)
  BY DEF UpdateEnd, ChannelEmpty
<1>2. Slack' = SendInterval /\ SendInterval \in Nat
  BY <1>1, ConstantFacts DEF Slack
<1>3. /\ GoodTable(m, sources) /\ m \in Table /\ Accessed(table, m, time)
      /\ \A i \in D : instance[i].encryptionIndex \in Entries =>
           m.entry[instance[i].encryptionIndex].lastAccess = time
  BY SendsFacts DEF GoodTable
<1>4. \A i \in Slots : /\ Sound(d[i], time) /\ d[i].connected = instance[i].connected
                       /\ d[i].address = instance[i].address
                       /\ d[i].encryptionIndex = instance[i].encryptionIndex
                       /\ d[i].lastSendTime =
                            IF i \in D THEN time ELSE instance[i].lastSendTime
  BY SendersFacts
<1> HIDE DEF m, d
<1>5. Overdue \subseteq Connected
  BY DEF Overdue
<1>6. ASSUME NEW i \in Slots, instance[i].connected, i \notin disturbed
      PROVE  Backed(d[i], m, time, Slack')
  <2> DEFINE c == instance[i]
             j == c.encryptionIndex
  <2>1. /\ Backed(c, table, time, Slack) /\ c.lastSendTime <= time /\ c \in ClientRecord
        /\ table \in Table /\ time \in Nat /\ i \in Connected /\ Slack \in Nat
    BY <1>6, UndisturbedFacts, BaseFacts, SlackFacts DEF SlackFits
  <2>2. Reachable(i) /\ j \in Entries
    BY <1>6, <2>1, BackedReachable
  <2>3. table.entry[j].lastAccess \in Int /\ c.lastSendTime \in Nat
    BY <2>1, <2>2, TableFields, ClientFields
  <2>4. CASE i \in D
    <3>1. m.entry[j].lastAccess = time /\ d[i].lastSendTime = time
      BY <1>3, <1>4, <2>2, <2>4
    <3>2. Backed(d[i], m, time, Slack)
      BY <1>3, <1>4, <2>1, <3>1, BackedAccessed
    <3> QED BY <1>2, <1>4, <2>1, <3>1, <3>2 DEF Backed
  <2>5. CASE i \notin D
    <3>1. ~(c.lastSendTime + SendInterval <= time)
      BY <2>1, <2>2, <2>5 DEF KeepAliveDue
    <3>2. Backed(c, table, time, SendInterval)
      BY <1>2, <2>1, <2>3, <3>1 DEF Backed
    <3>3. d[i].lastSendTime = c.lastSendTime
      BY <1>4, <2>5
    <3>4. Backed(d[i], m, time, SendInterval)
      BY <1>2, <1>3, <1>4, <2>1, <3>2, <3>3, BackedAccessed
    <3> QED BY <1>2, <3>4
  <2> QED BY <2>4, <2>5
<1> HIDE DEF D
<1> QED BY <1>1, <1>3, <1>4, <1>5, <1>6, MapDisconnect

LEMMA MapSend ==
    ASSUME UpdatesInTime, BaseInv, BaseInv', MapInv, NEW slots, SendPayload(slots)
    PROVE  MapInv'
<1> DEFINE to == {i \in slots : Reachable(i)}
           early == {i \in slots : /\ ~instance[i].confirmed
                                   /\ KeyOf(table, instance[i].encryptionIndex) # NoKey}
<1>1. /\ time' = time /\ phase' = phase /\ disturbed' = disturbed
      /\ table' = TableAfterSends(to) /\ instance' = ClientsAfterSends(to \cup early)
  BY DEF SendPayload, ApiCall
<1>2. \A i \in to \cup early : Reachable(i) => i \in to
  OBVIOUS
<1> HIDE DEF to, early
<1>3. /\ table' \in Table /\ Accessed(table, table', time)
      /\ \A i \in to : instance[i].encryptionIndex \in Entries =>
           table'.entry[instance[i].encryptionIndex].lastAccess = time
  BY <1>1, SendsFacts DEF GoodTable
<1>4. \A i \in Slots : /\ instance'[i].connected = instance[i].connected
                       /\ instance'[i].address = instance[i].address
                       /\ instance'[i].encryptionIndex = instance[i].encryptionIndex
                       /\ instance'[i].lastSendTime =
                            IF i \in to \cup early THEN time ELSE instance[i].lastSendTime
  BY <1>1, SendersFacts
<1>5. Slack' = Slack /\ Slack \in Nat
  BY <1>1, SlackFacts DEF Slack, SlackFits
<1>6. ASSUME NEW i \in Slots, instance'[i].connected, i \notin disturbed'
      PROVE  Backed(instance'[i], table', time', Slack')
  <2>1. /\ Backed(instance[i], table, time, Slack) /\ instance[i].lastSendTime <= time
        /\ instance[i] \in ClientRecord /\ table \in Table /\ time \in Nat
        /\ Reachable(i) /\ instance[i].encryptionIndex \in Entries
    BY <1>1, <1>4, <1>6, UndisturbedFacts, BaseFacts, BackedReachable
  <2>2. \/ instance'[i].lastSendTime = instance[i].lastSendTime
        \/ /\ instance'[i].lastSendTime = time
           /\ table'.entry[instance[i].encryptionIndex].lastAccess = time
    BY <1>2, <1>3, <1>4, <2>1
  <2>3. Backed(instance'[i], table', time, Slack)
    BY <1>3, <1>4, <1>5, <2>1, <2>2, BackedAccessed
  <2> QED BY <1>1, <1>5, <2>3
<1> QED BY <1>1, <1>4, <1>6, NobodyJoins

LEMMA MapStop == ASSUME BaseInv, BaseInv', MapInv, Stop PROVE MapInv'
<1>1. \A i \in Slots : ~instance'[i].connected
  BY StopCore
<1> QED BY <1>1, NobodyJoins

\* A client joins: the first one of its address uses the entry its response
\* was read with, any other makes all clients of the address disturbed.
LEMMA MapResponse ==
    ASSUME UpdatesInTime, BaseInv, BaseInv', MapInv,
           NEW k \in Tokens, NEW a \in Addresses, ConnectionResponse(k, a)
    PROVE  MapInv'
<1> DEFINE j == IndexFor(a)
           x == Min(Free)
           n == TableFor(a)
           m == Pinned(n, j)
           d == Joined(instance[x], TokenId[k], a, j, time)
<1>1. time' = time /\ phase' = phase /\ time \in Nat /\ time \in Int /\ table \in Table
  BY BaseFacts DEF ConnectionResponse, TakePacket
<1>2. GoodTable(n, sources) /\ n \in Table /\ Accessed(table, n, time)
  BY LookupFacts DEF GoodTable
<1>3. CASE Cardinality(Connected) = MaxClients
  <2>1. table' = n /\ instance' = instance /\ disturbed' = disturbed
    BY <1>3 DEF ConnectionResponse
  <2> QED BY <1>1, <1>2, <2>1, KeptSame, MapKept
<1>4. CASE Cardinality(Connected) # MaxClients
  <2>1. /\ x \in Slots /\ ~instance[x].connected /\ j \in Entries
        /\ InBounds(n, j) /\ GoodTable(m, sources)
        /\ AtAddress(a) = {} => n.entry[j].address = a /\ CanTouch(m, j, a)
        /\ instance' = [instance EXCEPT ![x] = d]
        /\ table' = AfterTouch(m, j, a, time)
        /\ disturbed' = IF AtAddress(a) = {} THEN disturbed
                        ELSE disturbed \cup AtAddress(a) \cup {x}
    BY <1>4, ResponseFacts
  <2>2. AtAddress(a) = {} => j \in 1 .. n.num
    BY <2>1, LookupFacts, ConstantFacts
  <2> HIDE DEF x, j, n
  <2>3. /\ Sound(d, time) /\ d.connected /\ d.address = a
        /\ d.encryptionIndex = j /\ d.lastSendTime = time
    <3>1. Sound(instance[x], time) /\ TokenId[k] \in Ids /\ a \in Addresses
      BY <2>1, BaseFacts, ConstantFacts
    <3> DEFINE c == instance[x]
               id == TokenId[k]
    <3>2. ~c.connected /\ j \in Entries \cup {None} /\ d = Joined(c, id, a, j, time)
      BY <2>1
    <3>3. Sound(c, time) /\ id \in Ids /\ a \in Addresses
      BY <3>1
    <3> HIDE DEF c, id, d
    <3>4. LET e == Joined(c, id, a, j, time)
          IN  /\ Sound(e, time) /\ e.connected /\ e.address = a
              /\ e.encryptionIndex = j /\ e.lastSendTime = time
      <4>1. time \in Nat /\ Sound(c, time) /\ ~c.connected /\ id \in Ids
            /\ a \in Addresses /\ j \in Entries \cup {None}
        BY <1>1, <3>2, <3>3
      <4> QED BY <4>1, JoinedSound
    <3> QED BY <3>2, <3>4
  <2> HIDE DEF d
  <2>4. instance'[x] = d /\ \A i \in Slots : i # x => instance'[i] = instance[i]
    BY <1>1, <2>1, <2>3, OneClient
  <2>5. /\ m \in Table /\ m.num = n.num
        /\ \A i \in Entries : /\ m.entry[i].address = n.entry[i].address
                              /\ m.entry[i].lastAccess = n.entry[i].lastAccess
                              /\ m.entry[i].expireTime \in {n.entry[i].expireTime, NoExpiry}
        /\ m.entry[j].expireTime = NoExpiry
    BY <1>2, <2>1, PinFacts DEF GoodTable
  <2> HIDE DEF m
  <2>6. /\ table' \in Table /\ Accessed(m, table', time)
        /\ AtAddress(a) = {} => table'.entry[j].lastAccess = time
    BY <1>1, <2>1, TouchFacts DEF GoodTable
  <2>7. Slack' = Slack /\ Slack \in Nat
    BY <1>1, SlackFacts DEF Slack, SlackFits
  <2>8. ASSUME NEW i \in Slots, i # x, instance[i].connected, i \notin disturbed
        PROVE  Backed(instance'[i], table', time', Slack')
    <3> DEFINE c == instance[i]
    <3>1. /\ Backed(c, table, time, Slack) /\ c.lastSendTime <= time /\ c \in ClientRecord
      BY <2>8, UndisturbedFacts, BaseFacts
    <3>2. Backed(c, n, time, Slack)
      BY <1>1, <1>2, <2>7, <3>1, BackedAccessed
    <3>3. c.encryptionIndex \in Entries
      BY <1>2, <3>2, TableFields DEF Backed
    <3>4. Backed(c, m, time, Slack)
      BY <2>5, <3>2, <3>3 DEF Backed
    <3>5. Backed(c, table', time, Slack)
      BY <1>1, <2>5, <2>6, <2>7, <3>1, <3>4, BackedAccessed
    <3> QED BY <1>1, <2>4, <2>7, <2>8, <3>5
  <2>9. ASSUME AtAddress(a) = {} PROVE Backed(instance'[x], table', time', Slack')
    <3>1. j \in 1 .. table'.num
      BY <2>2, <2>5, <2>6, <2>9 DEF Accessed
    <3>2. /\ table'.entry[j].address = a /\ table'.entry[j].expireTime = NoExpiry
          /\ table'.entry[j].lastAccess = time
      BY <2>1, <2>5, <2>6, <2>9 DEF Accessed
    <3> QED BY <1>1, <2>3, <2>4, <2>6, <2>7, <3>1, <3>2 DEF Backed
  <2>10. \A i \in Connected' : i \in Slots /\ (i # x => i \in Connected)
    BY <2>4 DEF Connected
  <2>11. SharersDisturbed'
    <3> SUFFICES ASSUME NEW i \in Connected', NEW l \in Connected', i # l,
                        instance'[i].address = instance'[l].address
                 PROVE  i \in disturbed'
      BY DEF SharersDisturbed
    <3>1. CASE i # x /\ l # x
      <4>1. i \in Connected /\ l \in Connected /\ instance[i].address = instance[l].address
        BY <2>4, <2>10, <3>1
      <4>2. i \in disturbed
        BY <4>1 DEF MapInv, SharersDisturbed
      <4> QED BY <2>1, <4>2
    <3>2. CASE i = x
      <4>1. l \in AtAddress(a)
        BY <2>3, <2>4, <2>10, <3>2 DEF AtAddress
      <4> QED BY <2>1, <3>2, <4>1
    <3>3. CASE l = x
      <4>1. i \in AtAddress(a)
        BY <2>3, <2>4, <2>10, <3>3 DEF AtAddress
      <4> QED BY <2>1, <4>1
    <3> QED BY <3>1, <3>2, <3>3
  <2>12. ASSUME NEW i \in Connected' \ disturbed'
         PROVE  Backed(instance'[i], table', time', Slack')
    <3>1. CASE i = x
      <4>1. AtAddress(a) = {}
        BY <2>1, <2>12, <3>1
      <4> QED BY <2>9, <3>1, <4>1
    <3>2. CASE i # x
      <4>1. i \in Slots /\ instance[i].connected /\ i \notin disturbed
        BY <2>1, <2>10, <2>12, <3>2, BaseFacts
      <4> QED BY <2>8, <3>2, <4>1
    <3> QED BY <3>1, <3>2
  <2> QED BY <2>11, <2>12 DEF MapInv
<1> QED BY <1>3, <1>4

LEMMA WithIdFacts ==
    ASSUME NEW id, WithId(id) # {}
    PROVE  Min(WithId(id)) \in Connected
<1>1. WithId(id) \in SUBSET Nat /\ WithId(id) \subseteq Connected
  BY ConstantFacts DEF WithId, Connected
<1> QED BY <1>1, MinFacts

LEMMA NextMap ==
    ASSUME UpdatesInTime, BaseInv, BaseInv', MapInv, [Next]_vars
    PROVE  MapInv'
<1>1. ASSUME UNCHANGED <<instance, table, time, phase, disturbed>> PROVE MapInv'
  BY <1>1, KeptSame, AccessedSame, MapKept
<1>2. CASE UNCHANGED vars \/ Dead
  BY <1>1, <1>2 DEF vars, Dead
<1>3. CASE Receive \/ ReceiverEnds
  BY <1>1, <1>3 DEF Receive, ReceiverEnds
<1>4. CASE UpdateBegin
  BY <1>4, MapBegin
<1>5. CASE UpdateEnd
  BY <1>5, MapUpdateEnd
<1>6. ASSUME NEW a \in Addresses, UnreadablePacket(a) PROVE MapInv'
  <2>1. /\ instance' = instance /\ UNCHANGED <<time, phase, disturbed>>
        /\ table' = TableFor(a)
    BY <1>6 DEF UnreadablePacket, TakePacket
  <2>2. Accessed(table, table', time)
    BY <2>1, LookupFacts
  <2> QED BY <2>1, <2>2, KeptSame, MapKept
<1>7. ASSUME NEW k \in Tokens, NEW a \in Addresses, KeepAlive(k, a) PROVE MapInv'
  <2>1. UNCHANGED <<time, phase, disturbed>> /\ table' = table
    BY <1>7 DEF KeepAlive, TakePacket
  <2> QED BY <1>7, <2>1, KeepAliveCore, AccessedSame, MapKept
<1>8. ASSUME NEW k \in Tokens, NEW a \in Addresses, Payload(k, a) PROVE MapInv'
  <2>1. UNCHANGED <<time, phase, disturbed>> /\ table' = table
    BY <1>8 DEF Payload, TakePacket
  <2> QED BY <1>8, <2>1, PayloadCore, AccessedSame, MapKept
<1>9. ASSUME NEW k \in Tokens, NEW a \in Addresses, DisconnectReceived(k, a) PROVE MapInv'
  <2>1. /\ time' = time /\ phase' = phase
        /\ Disconnect(table, instance, {ClientAt(a)})
        /\ ClientAt(a) # None
    BY <1>9 DEF DisconnectReceived, FromClient, TakePacket
  <2> QED BY <2>1, ClientAtFacts, MapDisconnectOne
<1>10. CASE Packet
  BY <1>6, <1>7, <1>8, <1>9, <1>10, MapRequest, MapResponse DEF Packet
<1>11. ASSUME NEW id \in Ids, DisconnectClient(id) PROVE MapInv'
  <2>1. /\ time' = time /\ phase' = phase /\ WithId(id) # {}
        /\ Disconnect(table, instance, {Min(WithId(id))})
    BY <1>11 DEF DisconnectClient, ApiCall
  <2> QED BY <2>1, WithIdFacts, MapDisconnectOne
<1>12. ASSUME NEW id \in Ids, SendPayloadToClient(id) PROVE MapInv'
  BY <1>12, MapSend DEF SendPayloadToClient
<1>13. ASSUME NEW i \in Slots, RecvPayload(i) PROVE MapInv'
  <2>1. UNCHANGED <<time, phase, disturbed>> /\ table' = table
    BY <1>13 DEF RecvPayload, ApiCall
  <2> QED BY <1>13, <2>1, ReadCore, AccessedSame, MapKept
<1>14. CASE Api
  BY <1>11, <1>12, <1>13, <1>14, MapSend, MapStop DEF Api
<1> QED BY <1>2, <1>3, <1>4, <1>5, <1>10, <1>14 DEF Next

LEMMA InitMap == Init => MapInv
<1> SUFFICES ASSUME Init PROVE MapInv
  OBVIOUS
<1>1. Connected = {}
  BY DEF Init, Connected, NewClientInstance
<1> QED BY <1>1 DEF MapInv, SharersDisturbed

\* When Update is called often enough for a mapping in use not to time out, a
\* client whose address asked and answered once keeps its mapping: unexpired,
\* its own, and within the searched part of the table, whatever the clients
\* that were let in twice do to theirs (server.go:412-430,
\* client_manager.go:237-318).
THEOREM ClientsKeepEntries == ASSUME UpdatesInTime PROVE Spec => []MappingBacksClient
<1>1. BaseInv /\ BaseInv' /\ MapInv /\ [Next]_vars => MapInv'
  BY NextMap
<1>2. MapInv => MappingBacksClient
  BY DEF MapInv, Backed, MappingBacksClient
<1> QED BY <1>1, <1>2, InitMap, ServerInvariant, PTL DEF Spec

-----------------------------------------------------------------------------
(* How long a silent client may stay.                                      *)

\* Outside of Update every connected client was heard of less than Timeout
\* ago; inside, the time since the last Update comes to it.
SilenceBounded ==
    \A i \in Connected :
        time < instance[i].lastRecvTime + Timeout + (IF phase = "draining" THEN MaxGap ELSE 0)

\* Whoever is connected was so before and is heard of no less, or just came.
LEMMA QuietStep ==
    ASSUME BaseInv, BaseInv', SilenceBounded, time' = time, phase' = phase,
           \A i \in Slots : instance'[i].connected =>
               \/ /\ instance[i].connected
                  /\ instance'[i].lastRecvTime >= instance[i].lastRecvTime
               \/ instance'[i].lastRecvTime = time
    PROVE  SilenceBounded'
<1> DEFINE gap == IF phase = "draining" THEN MaxGap ELSE 0
<1>1. gap \in Nat /\ gap' = gap /\ time \in Nat /\ Timeout \in Nat /\ Timeout > 0
  BY ConstantFacts, BaseFacts
<1>2. ASSUME NEW i \in Connected' PROVE time' < instance'[i].lastRecvTime + Timeout + gap
  <2>1. i \in Slots /\ instance'[i].connected /\ instance'[i].lastRecvTime \in Nat
    BY ClientFields DEF Connected, BaseInv, ClientsSound
  <2>2. CASE /\ instance[i].connected
             /\ instance'[i].lastRecvTime >= instance[i].lastRecvTime
    <3>1. i \in Connected /\ instance[i].lastRecvTime \in Nat
      BY <2>1, <2>2, BaseFacts, ClientFields
    <3>2. time < instance[i].lastRecvTime + Timeout + gap
      BY <3>1 DEF SilenceBounded
    <3> HIDE DEF gap
    <3> QED BY <1>1, <2>1, <2>2, <3>1, <3>2
  <2>3. CASE instance'[i].lastRecvTime = time
    BY <1>1, <2>3
  <2> QED BY <2>1, <2>2, <2>3
<1> QED BY <1>1, <1>2 DEF SilenceBounded

LEMMA KeptQuiet ==
    ASSUME BaseInv, BaseInv', SilenceBounded, time' = time, phase' = phase,
           \A i \in Slots : Kept(instance[i], instance'[i])
    PROVE  SilenceBounded'
BY QuietStep DEF Kept

LEMMA DisconnectQuiet ==
    ASSUME BaseInv, BaseInv', SilenceBounded, time' = time, phase' = phase,
           NEW slots, Disconnect(table, instance, slots)
    PROVE  SilenceBounded'
<1>1. GoodTable(table, sources) /\ \A i \in Slots : Sound(instance[i], time)
  BY BaseFacts
<1>2. \A i \in Slots : /\ i \in slots => ~instance'[i].connected
                       /\ i \notin slots => instance'[i] = instance[i]
  BY <1>1, DisconnectBase
<1>3. \A i \in Slots : instance[i].lastRecvTime >= instance[i].lastRecvTime
  BY BaseFacts, ClientFields
<1> QED BY <1>2, <1>3, QuietStep

LEMMA NextBounded ==
    ASSUME BaseInv, BaseInv', SilenceBounded, [Next]_vars
    PROVE  SilenceBounded'
<1>1. ASSUME instance' = instance, time' = time, phase' = phase PROVE SilenceBounded'
  BY <1>1, KeptSame, KeptQuiet
<1>2. CASE UNCHANGED vars \/ Dead
  BY <1>1, <1>2 DEF vars, Dead
<1>3. CASE Receive \/ ReceiverEnds
  BY <1>1, <1>3 DEF Receive, ReceiverEnds
<1>4. CASE UpdateBegin
  <2>1. /\ instance' = instance /\ phase = "idle"
        /\ \/ phase' = "idle" /\ time' = time
           \/ phase' = "draining" /\ time' \in time .. time + MaxGap
    BY <1>4 DEF UpdateBegin
  <2>2. ASSUME NEW i \in Connected'
        PROVE  time' < instance'[i].lastRecvTime + Timeout
                         + (IF phase' = "draining" THEN MaxGap ELSE 0)
    <3>1. i \in Connected /\ i \in Slots
      BY <2>1 DEF Connected
    <3>2. time < instance[i].lastRecvTime + Timeout + 0
      BY <2>1, <3>1 DEF SilenceBounded
    <3>3. instance[i].lastRecvTime \in Nat /\ time \in Nat
      BY <3>1, BaseFacts, ClientFields
    <3> QED BY <2>1, <3>2, <3>3, ConstantFacts
  <2> QED BY <2>2 DEF SilenceBounded
<1>5. CASE UpdateEnd
  <2> DEFINE m == TableAfterSends(KeepAliveDue)
             d == ClientsAfterSends(KeepAliveDue)
  <2>1. time' = time /\ phase' = "idle" /\ Disconnect(m, d, Overdue)
    BY <1>5 DEF UpdateEnd, ChannelEmpty
  <2>2. /\ GoodTable(m, sources)
        /\ \A i \in Slots : /\ Sound(d[i], time) /\ d[i].connected = instance[i].connected
                            /\ d[i].lastRecvTime = instance[i].lastRecvTime
    BY SendsFacts, SendersFacts
  <2> HIDE DEF m, d
  <2>3. \A i \in Slots : /\ i \in Overdue => ~instance'[i].connected
                         /\ i \notin Overdue => instance'[i] = d[i]
    BY <2>1, <2>2, DisconnectBase
  <2>4. ASSUME NEW i \in Connected'
        PROVE  time' < instance'[i].lastRecvTime + Timeout + 0
    <3>1. i \in Slots /\ instance'[i].connected
      BY DEF Connected
    <3>2. i \notin Overdue /\ instance'[i].lastRecvTime = instance[i].lastRecvTime
      BY <2>2, <2>3, <3>1
    <3>3. i \in Connected /\ instance[i].lastRecvTime \in Nat /\ time \in Nat
      BY <2>2, <2>3, <3>1, BaseFacts, ClientFields
    <3> QED BY <2>1, <3>2, <3>3, ConstantFacts DEF Overdue
  <2> QED BY <2>1, <2>4 DEF SilenceBounded
<1>6. ASSUME NEW k \in Tokens, NEW a \in Addresses, ConnectionResponse(k, a) PROVE SilenceBounded'
  <2> DEFINE j == IndexFor(a)
             x == Min(Free)
             d == Joined(instance[x], TokenId[k], a, j, time)
  <2>1. time' = time /\ phase' = phase /\ time \in Nat
    BY <1>6, BaseFacts DEF ConnectionResponse, TakePacket
  <2>2. CASE Cardinality(Connected) = MaxClients
    <3>1. instance' = instance
      BY <1>6, <2>2 DEF ConnectionResponse
    <3> QED BY <1>1, <2>1, <3>1
  <2>3. CASE Cardinality(Connected) # MaxClients
    <3>1. /\ x \in Slots /\ ~instance[x].connected /\ j \in Entries
          /\ instance' = [instance EXCEPT ![x] = d]
      BY <1>6, <2>3, ResponseFacts
    <3> HIDE DEF x, j
    <3>2. Sound(d, time) /\ d.lastRecvTime = time
      <4>1. Sound(instance[x], time) /\ TokenId[k] \in Ids /\ a \in Addresses
        BY <3>1, BaseFacts, ConstantFacts
      <4> QED BY <2>1, <3>1, <4>1, JoinedSound
    <3> HIDE DEF d
    <3>3. instance'[x] = d /\ \A i \in Slots : i # x => instance'[i] = instance[i]
      BY <2>1, <3>1, <3>2, OneClient
    <3>4. \A i \in Slots : instance[i].lastRecvTime >= instance[i].lastRecvTime
      BY BaseFacts, ClientFields
    <3> QED BY <2>1, <3>2, <3>3, <3>4, QuietStep
  <2> QED BY <2>2, <2>3
<1>7. ASSUME NEW k \in Tokens, NEW a \in Addresses, KeepAlive(k, a) \/ Payload(k, a) PROVE SilenceBounded'
  <2>1. time' = time /\ phase' = phase
    BY <1>7 DEF KeepAlive, Payload, TakePacket
  <2> QED BY <1>7, <2>1, KeepAliveCore, PayloadCore, KeptQuiet
<1>8. CASE Packet
  <2>1. ASSUME NEW a \in Addresses, UnreadablePacket(a) PROVE SilenceBounded'
    BY <1>1, <2>1 DEF UnreadablePacket, TakePacket
  <2>2. ASSUME NEW k \in Tokens, NEW a \in Addresses, ConnectionRequest(k, a) PROVE SilenceBounded'
    BY <1>1, <2>2 DEF ConnectionRequest, TakePacket
  <2>3. ASSUME NEW k \in Tokens, NEW a \in Addresses, DisconnectReceived(k, a) PROVE SilenceBounded'
    <3>1. /\ time' = time /\ phase' = phase
          /\ Disconnect(table, instance, {ClientAt(a)})
      BY <2>3 DEF DisconnectReceived, TakePacket
    <3> QED BY <3>1, DisconnectQuiet
  <2> QED BY <1>6, <1>7, <1>8, <2>1, <2>2, <2>3 DEF Packet
<1>9. ASSUME NEW slots, SendPayload(slots) PROVE SilenceBounded'
  <2>1. \E s : instance' = ClientsAfterSends(s)
    BY <1>9 DEF SendPayload
  <2>2. PICK s : instance' = ClientsAfterSends(s)
    BY <2>1
  <2>3. \A i \in Slots : /\ instance'[i].connected = instance[i].connected
                         /\ instance'[i].lastRecvTime = instance[i].lastRecvTime
    BY <2>2, SendersFacts
  <2>4. time' = time /\ phase' = phase
    BY <1>9 DEF SendPayload, ApiCall
  <2>5. \A i \in Slots : instance[i].lastRecvTime >= instance[i].lastRecvTime
    BY BaseFacts, ClientFields
  <2> QED BY <2>3, <2>4, <2>5, QuietStep
<1>10. CASE Api
  <2>1. ASSUME NEW id \in Ids, SendPayloadToClient(id) PROVE SilenceBounded'
    BY <1>9, <2>1 DEF SendPayloadToClient
  <2>2. ASSUME NEW id \in Ids, DisconnectClient(id) PROVE SilenceBounded'
    <3>1. /\ time' = time /\ phase' = phase
          /\ Disconnect(table, instance, {Min(WithId(id))})
      BY <2>2 DEF DisconnectClient, ApiCall
    <3> QED BY <3>1, DisconnectQuiet
  <2>3. ASSUME NEW i \in Slots, RecvPayload(i) PROVE SilenceBounded'
    <3>1. time' = time /\ phase' = phase
      BY <2>3 DEF RecvPayload, ApiCall
    <3> QED BY <2>3, <3>1, ReadCore, KeptQuiet
  <2>4. CASE Stop
    <3>1. time' = time /\ phase' = phase
      BY <2>4 DEF Stop, ApiCall
    <3> QED BY <2>4, <3>1, StopCore, QuietStep
  <2> QED BY <1>9, <1>10, <2>1, <2>2, <2>3, <2>4 DEF Api
<1> QED BY <1>2, <1>3, <1>4, <1>5, <1>8, <1>10 DEF Next

\* CheckTimeouts leaves no client that was silent for Timeout or longer, and
\* no packet or call brings one back: a client that the server counts as
\* connected was heard of less than Timeout ago at the end of the last Update
\* (client_manager.go:410-420).
THEOREM SilenceEnds == Spec => []SilenceBounded
<1>1. Init => SilenceBounded
  <2> SUFFICES ASSUME Init PROVE SilenceBounded
    OBVIOUS
  <2>1. Connected = {}
    BY DEF Init, Connected, NewClientInstance
  <2> QED BY <2>1 DEF SilenceBounded
<1>2. BaseInv /\ BaseInv' /\ SilenceBounded /\ [Next]_vars => SilenceBounded'
  BY NextBounded
<1> QED BY <1>1, <1>2, ServerInvariant, PTL DEF Spec
=============================================================================

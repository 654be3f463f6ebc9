--------------------------- MODULE GoClientManager ---------------------------
(***************************************************************************)
(* The encryption entries of the Go client manager (client_manager.go:     *)
(* 79-348) as operators on a table value.  It differs from netcode.c's     *)
(* encryption manager: one time-out for all entries, an entry given up by  *)
(* a removal keeps its address, a mapping is refreshed wherever it lies    *)
(* and whether or not it expired, and bounds are tested with >.            *)
(* Entry i of the code is entry i + 1 here; 0 is the code's -1.  The pair  *)
(* of keys of an entry is one key, the connect token's.                    *)
(***************************************************************************)
EXTENDS Integers, FiniteSetsExt

CONSTANTS
    Addresses, NoAddress,   \* NoAddress: a nil *net.UDPAddr
    NoKey,                  \* the all-zero key of a cleared entry
    MaxEntries,             \* maxClients * 8
    Timeout                 \* ClientManager.timeout, in ticks

ASSUME ManagerAssumption ==
    /\ NoAddress \notin Addresses
    /\ MaxEntries \in Nat \ {0} /\ Timeout \in Nat \ {0}

Entries == 1 .. MaxEntries
None == 0               \* no entry, no client: -1 in the code
LongAgo == -1000        \* lastAccess of a cleared entry
NoExpiry == -1

\* Mutant of ClearedEntry: the keys are left in place.
ClearedEntryKeepingKeys(e) ==
    [expireTime |-> NoExpiry, lastAccess |-> LongAgo, address |-> NoAddress, key |-> e.key]

\* clearCryptoEntry
ClearedEntry(e) ==
    [expireTime |-> NoExpiry, lastAccess |-> LongAgo, address |-> NoAddress, key |-> NoKey]

\* resetCryptoEntries, which leaves numCryptoEntries alone.
ResetCryptoEntries(m) == [m EXCEPT !.entry = [i \in Entries |-> ClearedEntry(@[i])]]

\* NewClientManager
NewTable ==
    [num |-> 0, entry |-> [i \in Entries |-> ClearedEntry([key |-> NoKey])]]

\* serverTimedout, true while the entry has NOT timed out.
Fresh(e, time) == e.lastAccess + Timeout >= time

\* The entries FindEncryptionEntryIndex may return.
Findable(m, a, time) ==
    {i \in Entries : /\ i <= m.num /\ m.entry[i].address = a
                     /\ Fresh(m.entry[i], time)
                     /\ m.entry[i].expireTime < 0 \/ m.entry[i].expireTime >= time}

\* FindEncryptionEntryIndex: the index, and the table with the entry accessed.
FindEncryptionEntryIndex(m, a, time) ==
    IF Findable(m, a, time) = {} THEN None ELSE Min(Findable(m, a, time))

AfterFind(m, a, time) ==
    IF Findable(m, a, time) = {} THEN m
    ELSE [m EXCEPT !.entry[Min(Findable(m, a, time))].lastAccess = time]

\* AddEncryptionMapping: an entry of the address that has not timed out is
\* refreshed, else the first one that timed out or expired is taken.
Listed(m, a, time) ==
    {i \in Entries : m.entry[i].address = a /\ Fresh(m.entry[i], time)}

Reusable(m, time) ==
    {i \in Entries : \/ ~Fresh(m.entry[i], time)
                     \/ m.entry[i].expireTime >= 0 /\ m.entry[i].expireTime < time}

CanAdd(m, a, time) == Listed(m, a, time) # {} \/ Reusable(m, time) # {}

AddEncryptionMapping(m, a, key, time) ==
    LET old == Listed(m, a, time)
        i == IF old # {} THEN Min(old) ELSE Min(Reusable(m, time))
    IN  [num   |-> IF old = {} /\ i > m.num THEN i ELSE m.num,
         entry |-> [m.entry EXCEPT ![i] =
                      [address |-> a, key |-> key, lastAccess |-> time,
                       expireTime |-> time + Timeout]]]

\* The bounds test of the functions that take an index: index > num is
\* refused, so that in the code's numbering one index too many is let in.
InBounds(m, i) == i # None /\ i <= m.num + 1

\* TouchEncryptionEntry: whether it succeeds, and the table afterwards.
CanTouch(m, i, a) == InBounds(m, i) /\ a # NoAddress /\ m.entry[i].address = a

AfterTouch(m, i, a, time) ==
    IF CanTouch(m, i, a) THEN [m EXCEPT !.entry[i].lastAccess = time] ELSE m

\* SetEncryptionEntryExpiration
SetExpiration(m, i, expire) ==
    IF InBounds(m, i) THEN [m EXCEPT !.entry[i].expireTime = expire] ELSE m

\* getEncryptionEntryKey; nil and the all-zero key decrypt nothing.
KeyOf(m, i) == IF InBounds(m, i) THEN m.entry[i].key ELSE NoKey

\* The count after the removal of the last entry.
NumAfterRemove(kept) == Max({0} \cup kept)

\* RemoveEncryptionEntry: the first entry of the address is cleared; when it
\* was the last one, the entries before it that timed out or expired are given
\* up, address and all.
RemoveEncryptionEntry(m, a, time) ==
    LET found == {i \in Entries : i <= m.num /\ m.entry[i].address = a}
        i == Min(found)
        cleared == [m.entry EXCEPT ![i] = ClearedEntry(@)]
        kept == {j \in Entries :
                   /\ j < i /\ Fresh(cleared[j], time)
                   /\ cleared[j].expireTime < 0 \/ cleared[j].expireTime > time}
    IN  IF found = {} \/ a = NoAddress THEN m
        ELSE [num   |-> IF i = m.num THEN NumAfterRemove(kept) ELSE m.num,
              entry |-> cleared]
=============================================================================

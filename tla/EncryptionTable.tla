--------------------------- MODULE EncryptionTable ---------------------------
(***************************************************************************)
(* The encryption manager of netcode.c (3222-3413) as operators on a table *)
(* value: a fixed array of entries, the first num of which are searched.   *)
(* An entry is dead when it expired, and dead entries are reused.          *)
(* The pair of keys of a mapping is one key here, the connect token's.     *)
(* Times are ticks; a timeout is in seconds, as in the code.               *)
(***************************************************************************)
EXTENDS Integers, FiniteSetsExt

CONSTANTS
    Addresses,          \* the addresses packets come from
    NoAddress,          \* NETCODE_ADDRESS_NONE
    NoKey,              \* an all-zero key
    MaxMappings,        \* NETCODE_MAX_ENCRYPTION_MAPPINGS
    TicksPerSecond

ASSUME TableAssumption ==
    /\ NoAddress \notin Addresses
    /\ MaxMappings \in Nat \ {0}
    /\ TicksPerSecond \in Nat \ {0}

Indices == 0 .. MaxMappings - 1
NotFound == -1
Never == -1 * TicksPerSecond             \* expire_time -1.0: does not expire
LongAgo == -1000 * TicksPerSecond        \* last_access_time -1000.0

Ticks(seconds) == seconds * TicksPerSecond

EmptyEntry ==
    [timeout |-> 0, expire_time |-> Never, last_access_time |-> LongAgo,
     address |-> NoAddress, key |-> NoKey]

\* netcode_encryption_manager_reset
ResetTable == [num |-> 0, entry |-> [i \in Indices |-> EmptyEntry]]

\* netcode_encryption_manager_entry_expired
EntryExpired(e, time) ==
    \/ e.timeout > 0 /\ e.last_access_time + Ticks(e.timeout) < time
    \/ e.expire_time >= 0 /\ e.expire_time < time

\* The entries below num that a search for address a can return.
LiveAt(em, a, time) ==
    {i \in Indices : /\ i < em.num
                     /\ em.entry[i].address = a
                     /\ ~EntryExpired(em.entry[i], time)}

\* Mutant of Reusable: live entries are taken as well.
ReusableAny(em, time) == {i \in Indices : em.entry[i].address = NoAddress \/ i < em.num}

\* The entries that netcode_encryption_manager_add_encryption_mapping may take
\* for a new mapping.
Reusable(em, time) ==
    {i \in Indices : \/ em.entry[i].address = NoAddress
                     \/ EntryExpired(em.entry[i], time)}

CanAdd(em, a, time) == LiveAt(em, a, time) # {} \/ Reusable(em, time) # {}

\* Mutant of NumAfterAdd: an entry taken beyond the bound stays beyond it.
NumUnchanged(num, i) == num

NumAfterAdd(num, i) == IF i + 1 > num THEN i + 1 ELSE num

\* netcode_encryption_manager_add_encryption_mapping, when CanAdd: the live
\* mapping of the address is overwritten, else the first reusable entry taken.
AddMapping(em, a, key, time, expire, timeout) ==
    LET i == IF LiveAt(em, a, time) # {} THEN Min(LiveAt(em, a, time))
                                         ELSE Min(Reusable(em, time))
    IN  [num   |-> NumAfterAdd(em.num, i),
         entry |-> [em.entry EXCEPT ![i] =
                      [timeout |-> timeout, expire_time |-> expire,
                       last_access_time |-> time, address |-> a, key |-> key]]]

\* The entry a removal clears keeps its timeout.
ClearedEntry(e) == [EmptyEntry EXCEPT !.timeout = e.timeout]

\* Mutant of LastLiveBelow: the scan never stops at a live entry.
NoneLiveBelow(entry, i, time) == NotFound

\* The last entry below i that is alive: the backward scan of a removal.
LastLiveBelow(entry, i, time) ==
    Max({NotFound} \cup {j \in Indices : j < i /\ ~EntryExpired(entry[j], time)})

\* Mutant of NumAfterRemove: off by one.
NumIsLast(last) == last

NumAfterRemove(last) == last + 1

\* netcode_encryption_manager_remove_encryption_mapping: the first entry of
\* the address is cleared, expired or not; when it was the last one, the dead
\* entries before it are given up as well (only their address is reset).
RemoveMapping(em, a, time) ==
    LET found == {i \in Indices : i < em.num /\ em.entry[i].address = a}
        i == Min(found)
        cleared == [em.entry EXCEPT ![i] = ClearedEntry(@)]
        last == LastLiveBelow(cleared, i, time)
    IN  IF found = {} THEN em
        ELSE IF i + 1 # em.num THEN [em EXCEPT !.entry = cleared]
        ELSE [num   |-> NumAfterRemove(last),
              entry |-> [j \in Indices |->
                           IF last < j /\ j < i
                           THEN [cleared[j] EXCEPT !.address = NoAddress]
                           ELSE cleared[j]]]

\* netcode_encryption_manager_find_encryption_mapping: the index ...
FindIndex(em, a, time) ==
    IF LiveAt(em, a, time) = {} THEN NotFound ELSE Min(LiveAt(em, a, time))

\* ... and the table, in which the entry found was accessed.
FindTouch(em, a, time) ==
    IF LiveAt(em, a, time) = {} THEN em
    ELSE [em EXCEPT !.entry[FindIndex(em, a, time)].last_access_time = time]

\* netcode_encryption_manager_touch: whether the entry is still the address's,
\* and the table afterwards.
TouchAllowed(em, i, a) == em.entry[i].address = a

TouchMapping(em, i, a, time) ==
    IF TouchAllowed(em, i, a)
    THEN [em EXCEPT !.entry[i].last_access_time = time] ELSE em

\* netcode_encryption_manager_set_expire_time
SetExpireTime(em, i, expire) == [em EXCEPT !.entry[i].expire_time = expire]

\* netcode_encryption_manager_get_send_key / _get_receive_key / _get_timeout
KeyOf(em, i) == IF i = NotFound THEN NoKey ELSE em.entry[i].key
TimeoutOf(em, i) == IF i = NotFound THEN 0 ELSE em.entry[i].timeout
=============================================================================

-------------------------- MODULE EncryptionManager --------------------------
(***************************************************************************)
(* The encryption manager driven the way netcode_server_t drives it: an    *)
(* unconnected address may get a mapping (a connection request) and be     *)
(* looked up (any packet), connecting pins the mapping found, a connected  *)
(* client is sent packets and in the end removed by address.               *)
(***************************************************************************)
EXTENDS EncryptionTable

CONSTANTS
    Keys,           \* the keys of the connect tokens
    Timeouts,       \* the tokens' timeouts in seconds, -1 for none
    MaxGap,         \* bound: the largest step of the clock, in ticks
    MaxTime         \* bound: the last time of the clock

ASSUME ManagerAssumption ==
    /\ NoKey \notin Keys
    /\ Timeouts \subseteq Int
    /\ NoKey \notin [key : Keys \cup {NoKey}, timeout : Timeouts \cup {0},
                     last_access_time : Int, expire_time : Int]
    /\ MaxGap \in Nat /\ MaxTime \in Nat

VARIABLES
    now,
    em,         \* the table
    held        \* address -> index its connected client uses, or NotFound

vars == <<now, em, held>>

Init ==
    /\ now = 0
    /\ em = ResetTable
    /\ held = [a \in Addresses |-> NotFound]

\* The server sends to every connected client before its mapping can expire
\* (NetcodeServer checks that: MappingBacksClient).
Tick ==
    \E t \in now + 1 .. now + MaxGap :
        /\ t <= MaxTime
        /\ \A a \in Addresses :
             held[a] # NotFound => ~EntryExpired(em.entry[held[a]], t)
        /\ now' = t
        /\ UNCHANGED <<em, held>>

Add(a, k, timeout) ==
    /\ held[a] = NotFound
    /\ em' = IF CanAdd(em, a, now)
             THEN AddMapping(em, a, k, now, now + Ticks(timeout), timeout) ELSE em
    /\ UNCHANGED <<now, held>>

Find(a) ==
    /\ held[a] = NotFound
    /\ em' = FindTouch(em, a, now)
    /\ UNCHANGED <<now, held>>

\* A connection response: found, pinned, and touched by the first keep alive.
Connect(a) ==
    LET i == FindIndex(em, a, now)
    IN  /\ held[a] = NotFound
        /\ i # NotFound
        /\ em' = TouchMapping(SetExpireTime(FindTouch(em, a, now), i, Never), i, a, now)
        /\ held' = [held EXCEPT ![a] = i]
        /\ UNCHANGED now

Send(a) ==
    /\ held[a] # NotFound
    /\ em' = TouchMapping(em, held[a], a, now)
    /\ UNCHANGED <<now, held>>

Disconnect(a) ==
    /\ held[a] # NotFound
    /\ em' = RemoveMapping(em, a, now)
    /\ held' = [held EXCEPT ![a] = NotFound]
    /\ UNCHANGED now

Reset ==
    /\ em' = ResetTable
    /\ held' = [a \in Addresses |-> NotFound]
    /\ UNCHANGED now

Next ==
    \/ Tick
    \/ \E a \in Addresses, k \in Keys, t \in Timeouts : Add(a, k, t)
    \/ \E a \in Addresses : Find(a) \/ Connect(a) \/ Send(a) \/ Disconnect(a)
    \/ Reset

Spec == Init /\ [][Next]_vars

-----------------------------------------------------------------------------
(* Properties.                                                             *)

Entry ==
    [timeout : Timeouts \cup {0}, expire_time : Int, last_access_time : Int,
     address : Addresses \cup {NoAddress}, key : Keys \cup {NoKey}]

TypeOK ==
    /\ now \in Nat
    /\ em \in [num : 0 .. MaxMappings, entry : [Indices -> Entry]]
    /\ held \in [Addresses -> Indices \cup {NotFound}]

\* The search bound covers every entry in use: shrinking it never strands a
\* mapping (netcode.c:3331-3345), adding one never forgets to raise it (3306).
NumCoversEntries ==
    \A i \in Indices : i >= em.num => em.entry[i].address = NoAddress

\* A connected client's index stays inside the searched part and keeps its
\* address: the assertions of touch, set_expire_time and the key getters.
HeldIndexValid ==
    \A a \in Addresses : held[a] # NotFound =>
        held[a] < em.num /\ em.entry[held[a]].address = a

\* The mapping of an address as the store sees it.
StoreOf(a) ==
    LET i == FindIndex(em, a, now)
        e == em.entry[i]
    IN  IF i = NotFound THEN NoKey
        ELSE [key |-> e.key, timeout |-> e.timeout,
              last_access_time |-> e.last_access_time, expire_time |-> e.expire_time]

Store == INSTANCE MappingStore WITH
    store <- [a \in Addresses |-> StoreOf(a)], NoMapping <- NoKey

\* The table of reused entries behaves as a map from addresses to mappings:
\* no operation on one address loses, revives or alters the mapping of another
\* (netcode.c:3273-3375).
ImplementsStore == Store!StoreSpec
=============================================================================

------------------------ MODULE ConnectTokenEntries ------------------------
(***************************************************************************)
(* The server's history of connect tokens already used (netcode.c:3417-    *)
(* 3485) as operators: a fixed array, searched by the token's mac, in      *)
(* which a new token replaces the oldest entry.                            *)
(***************************************************************************)
EXTENDS Integers, FiniteSetsExt

CONSTANTS
    MaxTokenEntries,        \* NETCODE_MAX_CONNECT_TOKEN_ENTRIES
    NoMac,                  \* the all-zero mac
    NoSource,               \* the all-zero address
    Before                  \* time -1000.0

EntryIndices == 0 .. MaxTokenEntries - 1

\* netcode_connect_token_entries_reset
ResetEntries ==
    [i \in EntryIndices |-> [time |-> Before, mac |-> NoMac, address |-> NoSource]]

Matching(entries, mac) == {i \in EntryIndices : entries[i].mac = mac}

\* The first of the entries with the smallest time.
Oldest(entries) ==
    Min({i \in EntryIndices :
           \A j \in EntryIndices : entries[i].time <= entries[j].time})

\* Mutant of TokenAllowed: the address is not compared.
TokenAllowedAnywhere(entries, address, mac) == TRUE

\* netcode_connect_token_entries_find_or_add: whether the token may be used
\* from the address (the last matching entry decides) ...
TokenAllowed(entries, address, mac) ==
    Matching(entries, mac) # {} =>
        entries[Max(Matching(entries, mac))].address = address

\* ... and the history afterwards; an entry reused keeps its time.
RecordToken(entries, address, mac, time) ==
    IF Matching(entries, mac) # {} THEN entries
    ELSE [entries EXCEPT ![Oldest(entries)] =
            [time |-> time, mac |-> mac, address |-> address]]
=============================================================================

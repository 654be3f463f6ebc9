---------------------------- MODULE MappingStore ----------------------------
(***************************************************************************)
(* What the encryption manager promises the server: a store of at most one *)
(* mapping per address that changes only when it is told to, and forgets a *)
(* mapping exactly when it expires.  No table, no indices, no reuse.       *)
(***************************************************************************)
EXTENDS Integers

CONSTANTS Addresses, Keys, Timeouts, NoMapping, TicksPerSecond

VARIABLES now, store
storeVars == <<now, store>>

Forever == -1 * TicksPerSecond

Alive(m, time) ==
    /\ m.timeout > 0 => m.last_access_time + m.timeout * TicksPerSecond >= time
    /\ m.expire_time >= 0 => m.expire_time >= time

StoreInit == now = 0 /\ store = [a \in Addresses |-> NoMapping]

\* Time passes: a mapping is forgotten exactly when it expires.
Pass ==
    /\ now' > now
    /\ store' = [a \in Addresses |->
                   IF store[a] # NoMapping /\ Alive(store[a], now')
                   THEN store[a] ELSE NoMapping]

Put(a, k, timeout) ==
    LET m == [key |-> k, timeout |-> timeout, last_access_time |-> now,
              expire_time |-> now + timeout * TicksPerSecond]
    IN  store' = [store EXCEPT ![a] = IF Alive(m, now) THEN m ELSE NoMapping]

Access(a) ==
    /\ store[a] # NoMapping
    /\ store' = [store EXCEPT ![a].last_access_time = now]

Keep(a) ==
    /\ store[a] # NoMapping
    /\ store' = [store EXCEPT ![a].last_access_time = now, ![a].expire_time = Forever]

Delete(a) == store' = [store EXCEPT ![a] = NoMapping]

Clear == store' = [a \in Addresses |-> NoMapping]

StoreNext ==
    \/ Pass
    \/ now' = now /\ Clear
    \/ /\ now' = now
       /\ \E a \in Addresses :
            \/ Access(a) \/ Keep(a) \/ Delete(a)
            \/ \E k \in Keys, t \in Timeouts : Put(a, k, t)

StoreSpec == StoreInit /\ [][StoreNext]_storeVars
=============================================================================

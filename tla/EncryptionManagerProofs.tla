----------------------- MODULE EncryptionManagerProofs -----------------------
(***************************************************************************)
(* The encryption manager is safe and implements MappingStore, for every   *)
(* set of addresses, keys and time-outs, every size of the table and every *)
(* sequence of calls.                                                      *)
(***************************************************************************)
EXTENDS EncryptionManager, EncryptionTableProofs

EntryTimeouts == Timeouts \cup {0}
EntryKeys == Keys \cup {NoKey}

\* The entry of a connected client does not expire before its next packet.
HeldAlive ==
    \A a \in Addresses : held[a] # NotFound => ~EntryExpired(em.entry[held[a]], now)

\* The inductive invariant.  HeldAlive is what keeps an addition from taking a
\* connected client's entry; LiveFirst is what makes a removal, which stops at
\* expired entries too, remove the mapping a search finds.
IInv ==
    /\ TypeOK
    /\ NumCoversEntries
    /\ HeldIndexValid
    /\ HeldAlive
    /\ LiveFirst(em, now)

-----------------------------------------------------------------------------
(* The invariant in the terms of the table.                                *)

LEMMA TypeFacts ==
    /\ EntryTimeouts \in SUBSET Int /\ 0 \in EntryTimeouts /\ NoKey \in EntryKeys
    /\ Entry = EntryOf(EntryTimeouts, EntryKeys)
BY ManagerAssumption DEF Entry, EntryOf, EntryTimeouts, EntryKeys

LEMMA InvFacts ==
    ASSUME IInv
    PROVE  /\ now \in Int /\ now \in Nat
           /\ em \in TableOf(EntryTimeouts, EntryKeys) /\ Covered(em) /\ LiveFirst(em, now)
           /\ held \in [Addresses -> Indices \cup {NotFound}]
           /\ \A a \in Addresses : held[a] # NotFound =>
                held[a] \in Indices /\ InUse(em, held[a], a, now)
BY TypeFacts DEF IInv, TypeOK, TableOf, Covered, NumCoversEntries, HeldIndexValid,
                 HeldAlive, InUse

LEMMA InvFromFacts ==
    ASSUME now' \in Nat, em' \in TableOf(EntryTimeouts, EntryKeys), Covered(em'), LiveFirst(em', now'),
           held' \in [Addresses -> Indices \cup {NotFound}],
           \A a \in Addresses : held'[a] # NotFound => InUse(em', held'[a], a, now')
    PROVE  IInv'
<1>1. TypeOK'
  BY TypeFacts DEF TypeOK, TableOf
<1>2. NumCoversEntries'
  BY DEF NumCoversEntries, Covered
<1>3. HeldIndexValid' /\ HeldAlive'
  BY DEF HeldIndexValid, HeldAlive, InUse
<1> QED BY <1>1, <1>2, <1>3 DEF IInv

-----------------------------------------------------------------------------
(* Every operation keeps the invariant.                                    *)

LEMMA InitInv == Init => IInv
<1> SUFFICES ASSUME Init PROVE IInv
  OBVIOUS
<1>1. em \in TableOf(EntryTimeouts, EntryKeys) /\ Covered(em) /\ LiveFirst(em, now)
  BY TypeFacts, ResetTableFacts DEF Init
<1>2. TypeOK
  BY <1>1, TypeFacts DEF Init, TypeOK, TableOf
<1>3. NumCoversEntries
  BY <1>1 DEF NumCoversEntries, Covered
<1> QED BY <1>1, <1>2, <1>3 DEF Init, IInv, HeldIndexValid, HeldAlive

LEMMA TickInv == ASSUME IInv, Tick PROVE IInv'
<1>1. PICK t \in now + 1 .. now + MaxGap :
        /\ \A a \in Addresses :
             held[a] # NotFound => ~EntryExpired(em.entry[held[a]], t)
        /\ now' = t /\ em' = em /\ held' = held
  BY DEF Tick
<1>2. now \in Nat /\ t \in Nat /\ now < t
  BY InvFacts, ManagerAssumption
<1>3. LiveFirst(em, t)
  <2> SUFFICES ASSUME NEW i \in Indices, NEW j \in Indices,
                      em.entry[i].address = em.entry[j].address,
                      em.entry[i].address # NoAddress,
                      ~EntryExpired(em.entry[i], t)
               PROVE  i <= j
    BY DEF LiveFirst
  <2>1. em.entry[i] \in EntryOf(EntryTimeouts, EntryKeys)
    BY InvFacts, TypeFacts, TableFields
  <2>2. ~EntryExpired(em.entry[i], now)
    BY <2>1, <1>2, TypeFacts, ExpiredStays
  <2> QED BY <2>2, InvFacts DEF LiveFirst
<1> QED BY <1>1, <1>2, <1>3, InvFacts, InvFromFacts DEF InUse

LEMMA AddInv ==
    ASSUME IInv, NEW a \in Addresses, NEW k \in Keys, NEW t \in Timeouts, Add(a, k, t)
    PROVE  IInv'
<1>1. held[a] = NotFound /\ now' = now /\ held' = held
  BY DEF Add
<1>2. CASE ~CanAdd(em, a, now)
  <2>1. em' = em
    BY <1>2 DEF Add
  <2> QED BY <1>1, <2>1, InvFacts, InvFromFacts
<1>3. CASE CanAdd(em, a, now)
  <2> DEFINE expire == now + Ticks(t)
  <2>1. em' = AddMapping(em, a, k, now, expire, t)
    BY <1>3 DEF Add
  <2>2. t \in EntryTimeouts /\ t \in Int /\ k \in EntryKeys /\ expire \in Int
    BY InvFacts, ManagerAssumption, TimeFacts DEF EntryTimeouts, EntryKeys
  <2> HIDE DEF expire
  <2>3. /\ em' \in TableOf(EntryTimeouts, EntryKeys) /\ Covered(em') /\ LiveFirst(em', now)
        /\ \A b \in Addresses \ {a}, j \in Indices :
             InUse(em, j, b, now) => InUse(em', j, b, now)
    BY <1>3, <2>1, <2>2, InvFacts, TypeFacts, AddFacts
  <2> QED BY <1>1, <2>3, InvFacts, InvFromFacts
<1> QED BY <1>2, <1>3

LEMMA FindInv == ASSUME IInv, NEW a \in Addresses, Find(a) PROVE IInv'
<1>1. em' = FindTouch(em, a, now) /\ now' = now /\ held' = held
  BY DEF Find
<1>2. /\ em' \in TableOf(EntryTimeouts, EntryKeys) /\ Covered(em') /\ LiveFirst(em', now)
      /\ \A b \in Addresses, j \in Indices : InUse(em', j, b, now) <=> InUse(em, j, b, now)
  BY <1>1, InvFacts, TypeFacts, FindTouchFacts
<1> QED BY <1>1, <1>2, InvFacts, InvFromFacts

LEMMA ConnectInv == ASSUME IInv, NEW a \in Addresses, Connect(a) PROVE IInv'
<1> DEFINE i == FindIndex(em, a, now)
<1>1. /\ i # NotFound /\ now' = now /\ held' = [held EXCEPT ![a] = i]
      /\ em' = TouchMapping(SetExpireTime(FindTouch(em, a, now), i, Never), i, a, now)
  BY DEF Connect
<1>2. /\ em' \in TableOf(EntryTimeouts, EntryKeys) /\ Covered(em') /\ LiveFirst(em', now)
      /\ i \in Indices /\ InUse(em, i, a, now)
      /\ \A b \in Addresses, j \in Indices : InUse(em', j, b, now) <=> InUse(em, j, b, now)
  BY <1>1, InvFacts, TypeFacts, ConnectFacts
<1> HIDE DEF i
<1>3. held' \in [Addresses -> Indices \cup {NotFound}]
  BY <1>1, <1>2, InvFacts
<1>4. ASSUME NEW b \in Addresses, held'[b] # NotFound PROVE InUse(em', held'[b], b, now)
  <2>1. CASE b = a
    BY <2>1, <1>1, <1>2, InvFacts
  <2>2. CASE b # a
    BY <2>2, <1>1, <1>2, <1>4, InvFacts
  <2> QED BY <2>1, <2>2
<1> QED BY <1>1, <1>2, <1>3, <1>4, InvFacts, InvFromFacts

LEMMA SendInv == ASSUME IInv, NEW a \in Addresses, Send(a) PROVE IInv'
<1>1. held[a] # NotFound /\ em' = TouchMapping(em, held[a], a, now)
      /\ now' = now /\ held' = held
  BY DEF Send
<1>2. held[a] \in Indices /\ InUse(em, held[a], a, now)
  BY <1>1, InvFacts
<1>3. /\ em' \in TableOf(EntryTimeouts, EntryKeys) /\ Covered(em') /\ LiveFirst(em', now)
      /\ \A b \in Addresses, j \in Indices : InUse(em', j, b, now) <=> InUse(em, j, b, now)
  BY <1>1, <1>2, InvFacts, TypeFacts, TouchFacts
<1> QED BY <1>1, <1>3, InvFacts, InvFromFacts

LEMMA DisconnectInv == ASSUME IInv, NEW a \in Addresses, Disconnect(a) PROVE IInv'
<1>1. /\ em' = RemoveMapping(em, a, now) /\ now' = now
      /\ held' = [held EXCEPT ![a] = NotFound]
  BY DEF Disconnect
<1>2. /\ em' \in TableOf(EntryTimeouts, EntryKeys) /\ Covered(em') /\ LiveFirst(em', now)
      /\ \A b \in Addresses \ {a}, j \in Indices :
           InUse(em, j, b, now) => InUse(em', j, b, now)
  BY <1>1, InvFacts, TypeFacts, RemoveFacts
<1>3. held' \in [Addresses -> Indices \cup {NotFound}]
  BY <1>1, InvFacts
<1>4. ASSUME NEW b \in Addresses, held'[b] # NotFound PROVE InUse(em', held'[b], b, now)
  BY <1>1, <1>2, <1>4, InvFacts
<1> QED BY <1>1, <1>2, <1>3, <1>4, InvFacts, InvFromFacts

LEMMA ResetInv == ASSUME IInv, Reset PROVE IInv'
<1>1. em' = ResetTable /\ now' = now /\ held' = [a \in Addresses |-> NotFound]
  BY DEF Reset
<1>2. em' \in TableOf(EntryTimeouts, EntryKeys) /\ Covered(em') /\ LiveFirst(em', now)
  BY <1>1, TypeFacts, ResetTableFacts
<1> QED BY <1>1, <1>2, InvFacts, InvFromFacts

LEMMA NextInv == IInv /\ [Next]_vars => IInv'
<1> SUFFICES ASSUME IInv, [Next]_vars PROVE IInv'
  OBVIOUS
<1>1. CASE UNCHANGED vars
  BY <1>1, InvFacts, InvFromFacts DEF vars
<1>2. CASE Next
  BY <1>2, TickInv, AddInv, FindInv, ConnectInv, SendInv, DisconnectInv, ResetInv DEF Next
<1> QED BY <1>1, <1>2

\* The invariant holds in every state the server can drive the manager into.
THEOREM ManagerInvariant == Spec => []IInv
BY InitInv, NextInv, PTL DEF Spec

\* The table keeps its shape, whatever is added and removed.
THEOREM ManagerTypes == Spec => []TypeOK
BY ManagerInvariant, PTL DEF IInv

\* No call leaves an entry in use above the search bound: the shrinking loop of
\* a removal (netcode.c:3331-3345) stops in time.
THEOREM NothingStranded == Spec => []NumCoversEntries
BY ManagerInvariant, PTL DEF IInv

\* The index a connected client was given stays its own until it is removed
\* (the assertions of netcode.c:3370, 3380, 3391).
THEOREM IndexStaysValid == Spec => []HeldIndexValid
BY ManagerInvariant, PTL DEF IInv

-----------------------------------------------------------------------------
(* The refinement: what a search finds, per address, is a MappingStore.    *)

MappingOf(e) ==
    [key |-> e.key, timeout |-> e.timeout,
     last_access_time |-> e.last_access_time, expire_time |-> e.expire_time]

\* The store of a table at a time.
StoreOfTable(m, t, a) ==
    IF FindIndex(m, a, t) = NotFound THEN NoKey ELSE MappingOf(m.entry[FindIndex(m, a, t)])

LEMMA StoreIs ==
    \A a \in Addresses : StoreOf(a) = StoreOfTable(em, now, a)
BY DEF StoreOf, StoreOfTable, MappingOf

LEMMA StoreIsNext ==
    \A a \in Addresses : StoreOf(a)' = StoreOfTable(em', now', a)
BY DEF StoreOf, StoreOfTable, MappingOf

\* A mapping is never NoKey.
LEMMA MappingIsNot ==
    ASSUME NEW e \in EntryOf(EntryTimeouts, EntryKeys)
    PROVE  MappingOf(e) # NoKey
<1>1. MappingOf(e) \in [key : EntryKeys, timeout : EntryTimeouts,
                       last_access_time : Int, expire_time : Int]
  BY DEF EntryOf, MappingOf
<1> QED BY <1>1, ManagerAssumption DEF EntryKeys, EntryTimeouts

\* The store has the mapping of the entry in use, and nothing otherwise.
LEMMA StoreHas ==
    ASSUME NEW m \in TableOf(EntryTimeouts, EntryKeys), NEW t, LiveFirst(m, t),
           NEW a \in Addresses, NEW i \in Indices, InUse(m, i, a, t)
    PROVE  StoreOfTable(m, t, a) = MappingOf(m.entry[i]) /\ StoreOfTable(m, t, a) # NoKey
<1>1. FindIndex(m, a, t) = i /\ i # NotFound
  BY FindUnique, IndexFacts
<1>2. m.entry[i] \in EntryOf(EntryTimeouts, EntryKeys)
  BY TypeFacts, TableFields
<1> QED BY <1>1, <1>2, MappingIsNot DEF StoreOfTable

LEMMA StoreHasNot ==
    ASSUME NEW m, NEW t, NEW a \in Addresses,
           \A i \in Indices : ~InUse(m, i, a, t)
    PROVE  StoreOfTable(m, t, a) = NoKey
BY FindFacts DEF StoreOfTable

\* Two tables with the same entry in use for an address store the same for it.
LEMMA StoreSame ==
    ASSUME NEW m \in TableOf(EntryTimeouts, EntryKeys),
           NEW r \in TableOf(EntryTimeouts, EntryKeys), NEW t,
           LiveFirst(m, t), LiveFirst(r, t), NEW b \in Addresses,
           \A j \in Indices : InUse(r, j, b, t) <=> InUse(m, j, b, t),
           \A j \in Indices : InUse(m, j, b, t) => r.entry[j] = m.entry[j]
    PROVE  StoreOfTable(r, t, b) = StoreOfTable(m, t, b)
<1>1. CASE \A j \in Indices : ~InUse(m, j, b, t)
  BY <1>1, StoreHasNot
<1>2. ASSUME NEW j \in Indices, InUse(m, j, b, t)
      PROVE  StoreOfTable(r, t, b) = StoreOfTable(m, t, b)
  BY <1>2, StoreHas
<1> QED BY <1>1, <1>2

\* A mapping of the store is alive by the store's rule exactly when the entry
\* has not expired by the manager's.
LEMMA AliveIs ==
    ASSUME NEW e \in EntryOf(EntryTimeouts, EntryKeys), NEW t \in Int
    PROVE  Store!Alive(MappingOf(e), t) <=> ~EntryExpired(e, t)
<1>1. /\ e.timeout \in Int /\ e.expire_time \in Int /\ e.last_access_time \in Int
      /\ Ticks(e.timeout) \in Int
  BY TypeFacts, TimeFacts DEF EntryOf
<1>2. /\ MappingOf(e).timeout = e.timeout /\ MappingOf(e).expire_time = e.expire_time
      /\ MappingOf(e).last_access_time = e.last_access_time
  BY DEF MappingOf
<1>3. e.timeout * TicksPerSecond = Ticks(e.timeout)
  BY DEF Ticks
<1> QED BY <1>1, <1>2, <1>3 DEF Store!Alive, EntryExpired

storeFn == [a \in Addresses |-> StoreOf(a)]

\* The store after a step that may change it for address a only.
LEMMA StoreUpdate ==
    ASSUME NEW a \in Addresses, NEW v, StoreOfTable(em', now', a) = v,
           \A b \in Addresses \ {a} : StoreOfTable(em', now', b) = StoreOfTable(em, now, b)
    PROVE  storeFn' = [storeFn EXCEPT ![a] = v]
<1>1. storeFn' = [b \in Addresses |-> StoreOfTable(em', now', b)]
  BY StoreIsNext DEF storeFn
<1>2. storeFn = [b \in Addresses |-> StoreOfTable(em, now, b)]
  BY StoreIs DEF storeFn
<1> QED BY <1>1, <1>2

LEMMA StoreUnchanged ==
    ASSUME \A b \in Addresses : StoreOfTable(em', now', b) = StoreOfTable(em, now, b)
    PROVE  storeFn' = storeFn
BY StoreIs, StoreIsNext DEF storeFn

LEMMA InitStore == Init => Store!StoreInit
<1> SUFFICES ASSUME Init PROVE Store!StoreInit
  OBVIOUS
<1>1. \A i \in Indices, a \in Addresses : ~InUse(em, i, a, now)
  BY IndexFacts DEF Init, ResetTable, InUse
<1>2. \A a \in Addresses : StoreOf(a) = NoKey
  BY <1>1, StoreIs, StoreHasNot
<1> QED BY <1>2 DEF Init, Store!StoreInit

LEMMA TickStore == ASSUME IInv, Tick PROVE Store!Pass
<1>1. PICK t \in now + 1 .. now + MaxGap : now' = t /\ em' = em
  BY DEF Tick
<1>2. now \in Nat /\ t \in Nat /\ t \in Int /\ now < t
  BY InvFacts, ManagerAssumption
<1>3. IInv'
  BY TickInv
<1>4. LiveFirst(em, t)
  BY <1>1, <1>3 DEF IInv
<1>5. em \in TableOf(EntryTimeouts, EntryKeys) /\ LiveFirst(em, now)
  BY InvFacts
<1>6. ASSUME NEW a \in Addresses
      PROVE  StoreOfTable(em, t, a) =
               IF /\ StoreOfTable(em, now, a) # NoKey
                  /\ Store!Alive(StoreOfTable(em, now, a), t)
               THEN StoreOfTable(em, now, a) ELSE NoKey
  <2>1. \A i \in Indices : em.entry[i] \in EntryOf(EntryTimeouts, EntryKeys)
    BY <1>5, TypeFacts, TableFields
  <2>2. \A i \in Indices : InUse(em, i, a, t) => InUse(em, i, a, now)
    BY <2>1, <1>2, TypeFacts, ExpiredStays DEF InUse
  <2>3. CASE \A i \in Indices : ~InUse(em, i, a, now)
    BY <2>2, <2>3, StoreHasNot
  <2>4. ASSUME NEW i \in Indices, InUse(em, i, a, now)
        PROVE  StoreOfTable(em, t, a) =
                 IF /\ StoreOfTable(em, now, a) # NoKey
                    /\ Store!Alive(StoreOfTable(em, now, a), t)
                 THEN StoreOfTable(em, now, a) ELSE NoKey
    <3>1. StoreOfTable(em, now, a) = MappingOf(em.entry[i])
          /\ StoreOfTable(em, now, a) # NoKey
      BY <1>5, <2>4, StoreHas
    <3>2. Store!Alive(MappingOf(em.entry[i]), t) <=> ~EntryExpired(em.entry[i], t)
      BY <2>1, <1>2, AliveIs
    <3>3. CASE EntryExpired(em.entry[i], t)
      <4>1. \A j \in Indices : ~InUse(em, j, a, t)
        <5> SUFFICES ASSUME NEW j \in Indices, InUse(em, j, a, t) PROVE FALSE
          OBVIOUS
        <5>1. InUse(em, j, a, now)
          BY <2>2
        <5>2. j = FindIndex(em, a, now) /\ i = FindIndex(em, a, now)
          BY <5>1, <2>4, <1>5, FindUnique
        <5> QED BY <5>2, <3>3 DEF InUse
      <4>2. StoreOfTable(em, t, a) = NoKey
        BY <4>1, StoreHasNot
      <4> QED BY <3>1, <3>2, <3>3, <4>2
    <3>4. CASE ~EntryExpired(em.entry[i], t)
      <4>1. InUse(em, i, a, t)
        BY <2>4, <3>4 DEF InUse
      <4>2. StoreOfTable(em, t, a) = MappingOf(em.entry[i])
        BY <4>1, <1>4, <1>5, StoreHas
      <4> QED BY <3>1, <3>2, <3>4, <4>2
    <3> QED BY <3>3, <3>4
  <2> QED BY <2>3, <2>4
<1>7. now' > now
  BY <1>1, <1>2
<1>8. \A a \in Addresses : StoreOf(a)' =
        IF StoreOf(a) # NoKey /\ Store!Alive(StoreOf(a), now')
        THEN StoreOf(a) ELSE NoKey
  BY <1>1, <1>6, StoreIs, StoreIsNext
<1> QED BY <1>7, <1>8 DEF Store!Pass

LEMMA AddStore ==
    ASSUME IInv, NEW a \in Addresses, NEW k \in Keys, NEW t \in Timeouts, Add(a, k, t)
    PROVE  Store!Put(a, k, t) \/ storeFn' = storeFn
<1>1. now' = now
  BY DEF Add
<1>2. CASE ~CanAdd(em, a, now)
  <2>1. em' = em
    BY <1>2 DEF Add
  <2> QED BY <1>1, <2>1, StoreUnchanged
<1>3. CASE CanAdd(em, a, now)
  <2> DEFINE expire == now + Ticks(t)
             e == NewEntry(a, k, now, expire, t)
  <2>1. em' = AddMapping(em, a, k, now, expire, t)
    BY <1>3 DEF Add
  <2>2. t \in EntryTimeouts /\ t \in Int /\ k \in EntryKeys /\ expire \in Int
        /\ now \in Int
    BY InvFacts, ManagerAssumption, TimeFacts DEF EntryTimeouts, EntryKeys
  <2>3. e \in EntryOf(EntryTimeouts, EntryKeys) /\ e.address = a
    BY <2>2 DEF NewEntry, EntryOf
  <2>4. MappingOf(e) = [key |-> k, timeout |-> t, last_access_time |-> now,
                        expire_time |-> now + t * TicksPerSecond]
    BY DEF MappingOf, NewEntry, Ticks
  <2> HIDE DEF expire
  <2>5. /\ em' \in TableOf(EntryTimeouts, EntryKeys) /\ LiveFirst(em', now)
        /\ \A b \in Addresses \ {a}, j \in Indices :
             /\ InUse(em', j, b, now) <=> InUse(em, j, b, now)
             /\ InUse(em, j, b, now) => em'.entry[j] = em.entry[j]
        /\ \E i \in Indices :
             /\ i < em'.num /\ em'.entry[i] = e
             /\ \A j \in Indices \ {i} : ~InUse(em', j, a, now)
    BY <1>3, <2>1, <2>2, InvFacts, TypeFacts, AddFacts
  <2> HIDE DEF e
  <2>6. PICK i \in Indices :
          /\ i < em'.num /\ em'.entry[i] = e
          /\ \A j \in Indices \ {i} : ~InUse(em', j, a, now)
    BY <2>5
  <2>7. Store!Alive(MappingOf(e), now) <=> ~EntryExpired(e, now)
    BY <2>2, <2>3, AliveIs
  <2>8. StoreOfTable(em', now', a) =
          IF Store!Alive(MappingOf(e), now) THEN MappingOf(e) ELSE NoKey
    <3>1. CASE EntryExpired(e, now)
      <4>1. \A j \in Indices : ~InUse(em', j, a, now)
        BY <3>1, <2>6 DEF InUse
      <4> QED BY <4>1, <3>1, <2>7, <1>1, StoreHasNot
    <3>2. CASE ~EntryExpired(e, now)
      <4>1. InUse(em', i, a, now)
        BY <3>2, <2>3, <2>6 DEF InUse
      <4> QED BY <4>1, <3>2, <2>5, <2>6, <2>7, <1>1, StoreHas
    <3> QED BY <3>1, <3>2
  <2>9. \A b \in Addresses \ {a} : StoreOfTable(em', now', b) = StoreOfTable(em, now, b)
    BY <2>5, <1>1, InvFacts, StoreSame
  <2>10. storeFn' = [storeFn EXCEPT ![a] =
                      IF Store!Alive(MappingOf(e), now) THEN MappingOf(e) ELSE NoKey]
    BY <2>8, <2>9, StoreUpdate
  <2> QED BY <2>4, <2>10 DEF Store!Put, storeFn
<1> QED BY <1>2, <1>3

\* The mapping of an accessed entry, and of a pinned one.
LEMMA AccessedMapping ==
    ASSUME NEW e \in EntryOf(EntryTimeouts, EntryKeys), NEW t \in Int
    PROVE  /\ MappingOf(Accessed(e, t)) = [MappingOf(e) EXCEPT !.last_access_time = t]
           /\ MappingOf(Accessed(Pinned(e), t)) =
                [MappingOf(e) EXCEPT !.last_access_time = t, !.expire_time = Never]
<1>1. /\ Accessed(e, t).key = e.key /\ Accessed(e, t).timeout = e.timeout
      /\ Accessed(e, t).last_access_time = t /\ Accessed(e, t).expire_time = e.expire_time
  BY TypeFacts, AccessedFacts
<1> DEFINE p == Pinned(e)
<1>2. /\ p \in EntryOf(EntryTimeouts, EntryKeys) /\ p.key = e.key
      /\ p.timeout = e.timeout /\ p.expire_time = Never
  BY TypeFacts, PinnedFacts
<1> HIDE DEF p
<1>3. /\ Accessed(p, t).key = e.key /\ Accessed(p, t).timeout = e.timeout
      /\ Accessed(p, t).last_access_time = t /\ Accessed(p, t).expire_time = Never
  BY <1>2, TypeFacts, AccessedFacts
<1>4. MappingOf(Accessed(e, t)) = [MappingOf(e) EXCEPT !.last_access_time = t]
  BY <1>1 DEF MappingOf
<1>5. MappingOf(Accessed(p, t)) =
        [MappingOf(e) EXCEPT !.last_access_time = t, !.expire_time = Never]
  <2> DEFINE R == [key : {e.key}, timeout : {e.timeout},
                   last_access_time : Int, expire_time : Int]
             m == MappingOf(e)
  <2>1. m \in R /\ MappingOf(Accessed(p, t)) \in R
    BY <1>3, TimeFacts DEF MappingOf, EntryOf
  <2>2. /\ MappingOf(Accessed(p, t)).last_access_time = t
        /\ MappingOf(Accessed(p, t)).expire_time = Never
    BY <1>3 DEF MappingOf
  <2> HIDE DEF m
  <2>3. MappingOf(Accessed(p, t)) = [m EXCEPT !.last_access_time = t, !.expire_time = Never]
    BY <2>1, <2>2
  <2> QED BY <2>3 DEF m
<1> QED BY <1>4, <1>5 DEF p

\* An access of the entry in use for an address is an access of the store.
LEMMA AccessStore ==
    ASSUME IInv, NEW a \in Addresses, NEW i \in Indices, InUse(em, i, a, now),
           now' = now, em' \in TableOf(EntryTimeouts, EntryKeys), LiveFirst(em', now),
           \A b \in Addresses, j \in Indices :
              /\ InUse(em', j, b, now) <=> InUse(em, j, b, now)
              /\ b # a /\ InUse(em, j, b, now) => em'.entry[j] = em.entry[j],
           em'.entry[i] = Accessed(em.entry[i], now)
    PROVE  Store!Access(a)
<1>1. em.entry[i] \in EntryOf(EntryTimeouts, EntryKeys) /\ now \in Int
  BY InvFacts, TypeFacts, TableFields
<1>2. StoreOfTable(em, now, a) = MappingOf(em.entry[i]) /\ StoreOfTable(em, now, a) # NoKey
  BY InvFacts, StoreHas
<1>3. StoreOfTable(em', now', a) = MappingOf(Accessed(em.entry[i], now))
  BY StoreHas
<1>4. \A b \in Addresses \ {a} : StoreOfTable(em', now', b) = StoreOfTable(em, now, b)
  BY InvFacts, StoreSame
<1>5. storeFn' = [storeFn EXCEPT ![a] = MappingOf(Accessed(em.entry[i], now))]
  BY <1>3, <1>4, StoreUpdate
<1>6. storeFn[a] = MappingOf(em.entry[i]) /\ storeFn[a] # NoKey
  BY <1>2, StoreIs DEF storeFn
<1>7. storeFn' = [storeFn EXCEPT ![a] = [storeFn[a] EXCEPT !.last_access_time = now]]
  <2>1. MappingOf(Accessed(em.entry[i], now)) = [storeFn[a] EXCEPT !.last_access_time = now]
    <3>1. MappingOf(Accessed(em.entry[i], now)) =
            [MappingOf(em.entry[i]) EXCEPT !.last_access_time = now]
      BY <1>1, AccessedMapping
    <3> QED BY <3>1, <1>6
  <2> QED BY <2>1, <1>5
<1>8. storeFn' = [storeFn EXCEPT ![a].last_access_time = now]
  BY <1>7 DEF storeFn
<1> QED BY <1>6, <1>8 DEF Store!Access, storeFn

LEMMA FindStore ==
    ASSUME IInv, NEW a \in Addresses, Find(a)
    PROVE  Store!Access(a) \/ storeFn' = storeFn
<1>1. em' = FindTouch(em, a, now) /\ now' = now
  BY DEF Find
<1>2. CASE LiveAt(em, a, now) = {}
  <2>1. em' = em
    BY <1>1, <1>2 DEF FindTouch
  <2> QED BY <1>1, <2>1, StoreUnchanged
<1>3. CASE LiveAt(em, a, now) # {}
  <2> DEFINE i == FindIndex(em, a, now)
  <2>1. i \in Indices /\ InUse(em, i, a, now)
    BY <1>3, FindFacts
  <2>2. /\ em' \in TableOf(EntryTimeouts, EntryKeys) /\ LiveFirst(em', now)
        /\ \A b \in Addresses, j \in Indices :
             /\ InUse(em', j, b, now) <=> InUse(em, j, b, now)
             /\ b # a /\ InUse(em, j, b, now) => em'.entry[j] = em.entry[j]
             /\ InUse(em, j, a, now) => em'.entry[j] = Accessed(em.entry[j], now)
    BY <1>1, InvFacts, TypeFacts, FindTouchFacts
  <2> HIDE DEF i
  <2> QED BY <1>1, <2>1, <2>2, AccessStore
<1> QED BY <1>2, <1>3

LEMMA SendStore == ASSUME IInv, NEW a \in Addresses, Send(a) PROVE Store!Access(a)
<1>1. held[a] # NotFound /\ em' = TouchMapping(em, held[a], a, now) /\ now' = now
  BY DEF Send
<1>2. held[a] \in Indices /\ InUse(em, held[a], a, now)
  BY <1>1, InvFacts
<1>3. /\ em' \in TableOf(EntryTimeouts, EntryKeys) /\ LiveFirst(em', now)
      /\ \A b \in Addresses, j \in Indices : InUse(em', j, b, now) <=> InUse(em, j, b, now)
      /\ \A j \in Indices \ {held[a]} : em'.entry[j] = em.entry[j]
      /\ em'.entry[held[a]] = Accessed(em.entry[held[a]], now)
  BY <1>1, <1>2, InvFacts, TypeFacts, TouchFacts
<1>4. \A b \in Addresses, j \in Indices : b # a /\ InUse(em, j, b, now) => j # held[a]
  BY <1>2 DEF InUse
<1> QED BY <1>1, <1>2, <1>3, <1>4, AccessStore

LEMMA ConnectStore == ASSUME IInv, NEW a \in Addresses, Connect(a) PROVE Store!Keep(a)
<1> DEFINE i == FindIndex(em, a, now)
<1>1. /\ i # NotFound /\ now' = now
      /\ em' = TouchMapping(SetExpireTime(FindTouch(em, a, now), i, Never), i, a, now)
  BY DEF Connect
<1>2. /\ em' \in TableOf(EntryTimeouts, EntryKeys) /\ LiveFirst(em', now)
      /\ i \in Indices /\ InUse(em, i, a, now)
      /\ \A b \in Addresses, j \in Indices :
           /\ InUse(em', j, b, now) <=> InUse(em, j, b, now)
           /\ b # a /\ InUse(em, j, b, now) => em'.entry[j] = em.entry[j]
      /\ em'.entry[i] = Accessed(Pinned(em.entry[i]), now)
  BY <1>1, InvFacts, TypeFacts, ConnectFacts
<1> HIDE DEF i
<1>3. em.entry[i] \in EntryOf(EntryTimeouts, EntryKeys) /\ now \in Int
  BY <1>2, InvFacts, TypeFacts, TableFields
<1>4. StoreOfTable(em, now, a) = MappingOf(em.entry[i]) /\ StoreOfTable(em, now, a) # NoKey
  BY <1>2, InvFacts, StoreHas
<1>5. StoreOfTable(em', now', a) = MappingOf(Accessed(Pinned(em.entry[i]), now))
  BY <1>1, <1>2, StoreHas
<1>6. \A b \in Addresses \ {a} : StoreOfTable(em', now', b) = StoreOfTable(em, now, b)
  BY <1>1, <1>2, InvFacts, StoreSame
<1>7. storeFn' = [storeFn EXCEPT ![a] = MappingOf(Accessed(Pinned(em.entry[i]), now))]
  BY <1>5, <1>6, StoreUpdate
<1>8. storeFn[a] = MappingOf(em.entry[i]) /\ storeFn[a] # NoKey
  BY <1>4, StoreIs DEF storeFn
<1>9. storeFn' = [storeFn EXCEPT ![a] = [storeFn[a] EXCEPT !.last_access_time = now,
                                                           !.expire_time = Never]]
  <2>1. MappingOf(Accessed(Pinned(em.entry[i]), now)) =
          [storeFn[a] EXCEPT !.last_access_time = now, !.expire_time = Never]
    <3>1. MappingOf(Accessed(Pinned(em.entry[i]), now)) =
            [MappingOf(em.entry[i]) EXCEPT !.last_access_time = now, !.expire_time = Never]
      BY <1>3, AccessedMapping
    <3> QED BY <3>1, <1>8
  <2> QED BY <2>1, <1>7
<1>10. storeFn' = [storeFn EXCEPT ![a].last_access_time = now, ![a].expire_time = Never]
  <2>1. [storeFn EXCEPT ![a].last_access_time = now] =
          [storeFn EXCEPT ![a] = [storeFn[a] EXCEPT !.last_access_time = now]]
    BY DEF storeFn
  <2>2. storeFn \in [Addresses -> {storeFn[b] : b \in Addresses}]
    BY DEF storeFn
  <2> QED BY <1>9, <2>1, <2>2
<1>11. Never = Store!Forever
  BY DEF Never, Store!Forever
<1> QED BY <1>8, <1>10, <1>11 DEF Store!Keep, storeFn

LEMMA DisconnectStore ==
    ASSUME IInv, NEW a \in Addresses, Disconnect(a) PROVE Store!Delete(a)
<1>1. em' = RemoveMapping(em, a, now) /\ now' = now
  BY DEF Disconnect
<1>2. /\ em' \in TableOf(EntryTimeouts, EntryKeys) /\ LiveFirst(em', now)
      /\ \A b \in Addresses \ {a}, j \in Indices :
           /\ InUse(em', j, b, now) <=> InUse(em, j, b, now)
           /\ InUse(em, j, b, now) => em'.entry[j] = em.entry[j]
      /\ \A j \in Indices : ~InUse(em', j, a, now)
  BY <1>1, InvFacts, TypeFacts, RemoveFacts
<1>3. StoreOfTable(em', now', a) = NoKey
  BY <1>1, <1>2, StoreHasNot
<1>4. \A b \in Addresses \ {a} : StoreOfTable(em', now', b) = StoreOfTable(em, now, b)
  BY <1>1, <1>2, InvFacts, StoreSame
<1> QED BY <1>3, <1>4, StoreUpdate DEF Store!Delete, storeFn

LEMMA ResetStore == ASSUME Reset PROVE Store!Clear
<1>1. \A i \in Indices, a \in Addresses : ~InUse(em', i, a, now')
  BY IndexFacts DEF Reset, ResetTable, InUse
<1>2. \A a \in Addresses : StoreOf(a)' = NoKey
  BY <1>1, StoreIsNext, StoreHasNot
<1> QED BY <1>2 DEF Store!Clear

LEMMA NextStore == IInv /\ [Next]_vars => [Store!StoreNext]_(Store!storeVars)
<1> SUFFICES ASSUME IInv, [Next]_vars PROVE [Store!StoreNext]_(Store!storeVars)
  OBVIOUS
<1>1. CASE UNCHANGED vars
  <2>1. now' = now /\ em' = em
    BY <1>1 DEF vars
  <2>2. storeFn' = storeFn
    BY <2>1, StoreUnchanged
  <2> QED BY <2>1, <2>2 DEF Store!storeVars, storeFn
<1>2. CASE Tick
  BY <1>2, TickStore DEF Store!StoreNext
<1>3. ASSUME NEW a \in Addresses, NEW k \in Keys, NEW t \in Timeouts, Add(a, k, t)
      PROVE  [Store!StoreNext]_(Store!storeVars)
  <2>1. now' = now
    BY <1>3 DEF Add
  <2> QED BY <1>3, <2>1, AddStore DEF Store!StoreNext, Store!storeVars, storeFn
<1>4. ASSUME NEW a \in Addresses, Find(a) \/ Connect(a) \/ Send(a) \/ Disconnect(a)
      PROVE  [Store!StoreNext]_(Store!storeVars)
  <2>1. now' = now
    BY <1>4 DEF Find, Connect, Send, Disconnect
  <2> QED BY <1>4, <2>1, FindStore, ConnectStore, SendStore, DisconnectStore
          DEF Store!StoreNext, Store!storeVars, storeFn
<1>5. CASE Reset
  BY <1>5, ResetStore DEF Reset, Store!StoreNext
<1> QED BY <1>1, <1>2, <1>3, <1>4, <1>5 DEF Next

\* The table of reused entries is a map from addresses to mappings: an operation
\* on one address never loses, revives or alters the mapping of another, and a
\* mapping goes exactly when it expires or is removed (netcode.c:3273-3375).
THEOREM ManagerImplementsStore == Spec => ImplementsStore
<1>1. Init => Store!StoreInit
  BY InitStore
<1>2. IInv /\ [Next]_vars => [Store!StoreNext]_(Store!storeVars)
  BY NextStore
<1> QED BY <1>1, <1>2, ManagerInvariant, PTL DEF Spec, ImplementsStore, Store!StoreSpec
=============================================================================

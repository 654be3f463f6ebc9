-------------------------- MODULE EndpointsProofs --------------------------
(* Sockets and their owners, for every number of objects, descriptors and  *)
(* ports, and for every order in which the rest of the program opens and   *)
(* closes descriptors between the system calls of a create.                *)
EXTENDS Endpoints, SequenceTheorems, WellFoundedInduction, TLAPS

OptionNames == {"v6only", "sndbuf", "rcvbuf", "nonblocking"}

SocketRecord ==
    [use : {"socket"}, type : {IPV4, IPV6}, options : SUBSET OptionNames,
     port : Ports \cup {0}, waiting : Seq(BOOLEAN)]

DescriptorRecord == {Free, Foreign} \cup SocketRecord

Types ==
    /\ descriptor \in [Descriptors -> DescriptorRecord]
    /\ end \in [Ends -> EndRecords \cup {NoEnd}]
    /\ call \in CallRecords \cup {NoCall}

-----------------------------------------------------------------------------
(* The inductive invariant: what a socket has at each step of its create,  *)
(* who owns it, and that no two own the same.                              *)

\* The options that are set when a step is reached.
SetAt(step, type) ==
    (IF type = IPV6 /\ step \notin {"socket", "v6only"} THEN {"v6only"} ELSE {})
    \cup (IF step \notin {"socket", "v6only", "sndbuf"} THEN {"sndbuf"} ELSE {})
    \cup (IF step \notin {"socket", "v6only", "sndbuf", "rcvbuf"} THEN {"rcvbuf"} ELSE {})
    \cup (IF step = "allocate" THEN {"nonblocking"} ELSE {})

\* The steps after bind.
BoundAt(step) == step \in {"sockname", "nonblocking", "allocate"}

\* A socket s of type, as far as step.
SocketAt(s, step, type) ==
    /\ s.use = "socket" /\ s.type = type
    /\ SetAt(step, type) \subseteq s.options
    /\ BoundAt(step) => s.port # 0

\* The create call c has the socket it should have.
CallFits(c, ds) ==
    /\ c.step = "socket" \/ c.simulator = TRUE => c.handle = 0
    /\ c.simulator = TRUE => c.step = "allocate"
    /\ c.simulator = FALSE /\ c.step # "socket" =>
          /\ c.handle # 0
          /\ SocketAt(ds[c.handle], c.step, c.address.type)
          /\ BoundAt(c.step) /\ c.address.port # 0 => ds[c.handle].port = c.address.port
          /\ c.step \in {"nonblocking", "allocate"} => c.port = ds[c.handle].port
          /\ c.step = "sockname" => c.address.port = 0
    /\ c.step \notin {"nonblocking", "allocate"} => c.port = c.address.port

\* The object o has the socket it should have.
EndFits(o, ds) ==
    /\ o.simulator = TRUE => o.handle = 0
    /\ o.simulator = FALSE =>
          /\ o.handle # 0
          /\ SocketAt(ds[o.handle], "allocate", o.type)
          /\ o.kind = "client" \/ o.port # 0 => o.port = ds[o.handle].port

\* Somebody will close descriptor d.
OwnerOf(d, ends, c) ==
    \/ \E e \in Ends : ends[e] # NoEnd /\ ends[e].handle = d
    \/ c # NoCall /\ c.handle = d

AllOwned(ds, ends, c) ==
    \A d \in Descriptors : d # 0 /\ ds[d].use = "socket" => OwnerOf(d, ends, c)

EndsApart(ends) ==
    \A e, f \in Ends :
        ends[e] # NoEnd /\ ends[f] # NoEnd /\ ends[e].handle = ends[f].handle /\ e # f
            => ends[e].handle = 0

CallApart(ends, c) ==
    c # NoCall => /\ ends[c.end] = NoEnd
                  /\ \A e \in Ends : ends[e] # NoEnd /\ ends[e].handle = c.handle
                                        => c.handle = 0

EndsFit(ends, ds) == \A e \in Ends : ends[e] # NoEnd => EndFits(ends[e], ds)

Inv ==
    /\ Types
    /\ EndsFit(end, descriptor)
    /\ call # NoCall => CallFits(call, descriptor)
    /\ EndsApart(end) /\ CallApart(end, call)
    /\ AllOwned(descriptor, end, call)

-----------------------------------------------------------------------------
(* The constants, and the lowest free descriptor.                          *)

\* What the assumptions say of the constants.
LEMMA Constants ==
    /\ Descriptors \subseteq Nat /\ 0 \in Descriptors
    /\ 0 \notin Ports
    /\ NoEnd \notin EndRecords /\ NoCall \notin CallRecords
BY EndpointAssumption DEF Descriptors

\* A set of natural numbers that is not empty has a smallest element.
LEMMA LowestExists ==
    ASSUME NEW S \in SUBSET Nat, S # {}
    PROVE  \E x \in S : \A y \in S : x <= y
<1> DEFINE R == OpToRel(<, Nat)
<1>1. IsWellFoundedOn(R, Nat)
  BY NatLessThanWellFounded
<1>2. PICK x \in S : \A y \in S : <<y, x>> \notin R
  <2> HIDE DEF R
  <2> QED BY <1>1, WFMin
<1>3. ASSUME NEW y \in S PROVE x <= y
  <2>1. ~(y < x)
    <3>1. SUFFICES ASSUME y < x PROVE <<y, x>> \in R
      BY <1>2
    <3>2. <<y, x>> \in Nat \X Nat
      OBVIOUS
    <3> QED BY <3>1, <3>2 DEF OpToRel
  <2> QED BY <2>1
<1> QED BY <1>3

\* So a search for the first of some numbers returns one of them.
LEMMA MinIn ==
    ASSUME NEW S \in SUBSET Nat, S # {}
    PROVE  Min(S) \in S
BY LowestExists DEF Min

\* socket() returns a descriptor that was free.
LEMMA LowestFree ==
    ASSUME FreeDescriptors # {}
    PROVE  Min(FreeDescriptors) \in Descriptors /\ descriptor[Min(FreeDescriptors)] = Free
<1>1. FreeDescriptors \in SUBSET Nat
  BY Constants DEF FreeDescriptors
<1>2. Min(FreeDescriptors) \in FreeDescriptors
  BY <1>1, MinIn
<1> QED BY <1>2 DEF FreeDescriptors

\* A descriptor in use as a socket is a socket.
LEMMA IsSocket ==
    ASSUME NEW s \in DescriptorRecord
    PROVE  /\ s.use = "socket" => s \in SocketRecord
           /\ s \in SocketRecord => s.use = "socket"
<1>1. Free.use = "free" /\ Foreign.use = "foreign"
  BY DEF Free, Foreign
<1>2. s = Free \/ s = Foreign \/ s \in SocketRecord
  BY DEF DescriptorRecord
<1>3. s \in SocketRecord => s.use = "socket"
  BY DEF SocketRecord
<1> QED BY <1>1, <1>2, <1>3

\* Free and foreign descriptors are no sockets.
LEMMA NoSocket == Free.use # "socket" /\ Foreign.use # "socket"
BY DEF Free, Foreign

-----------------------------------------------------------------------------
(* Steps that leave the owners as they are.                                *)

\* A socket whose waiting datagrams alone may have changed.
SameSocket(s, t) ==
    t.use = s.use /\ t.type = s.type /\ t.options = s.options /\ t.port = s.port

LEMMA SameFits ==
    ASSUME NEW s, NEW t, SameSocket(s, t), NEW step, NEW type, SocketAt(s, step, type)
    PROVE  SocketAt(t, step, type)
BY DEF SameSocket, SocketAt

\* The sockets stay the sockets they are.
SameSockets(ds, es) ==
    \A d \in Descriptors :
        /\ ds[d].use = "socket" => SameSocket(ds[d], es[d])
        /\ es[d].use = "socket" => ds[d].use = "socket"

LEMMA EndFrame ==
    ASSUME NEW o \in EndRecords, NEW ds, NEW es, EndFits(o, ds),
           o.handle # 0 => SameSocket(ds[o.handle], es[o.handle])
    PROVE  EndFits(o, es)
<1>1. o.simulator = TRUE => o.handle = 0
  BY DEF EndFits
<1>2. ASSUME o.simulator = FALSE
      PROVE  /\ o.handle # 0
             /\ SocketAt(es[o.handle], "allocate", o.type)
             /\ o.kind = "client" \/ o.port # 0 => o.port = es[o.handle].port
  <2>1. /\ o.handle # 0
        /\ SocketAt(ds[o.handle], "allocate", o.type)
        /\ o.kind = "client" \/ o.port # 0 => o.port = ds[o.handle].port
    BY <1>2 DEF EndFits
  <2>2. SameSocket(ds[o.handle], es[o.handle])
    BY <2>1
  <2>3. SocketAt(es[o.handle], "allocate", o.type)
    BY <2>1, <2>2, SameFits
  <2> QED BY <2>1, <2>2, <2>3 DEF SameSocket
<1> QED BY <1>1, <1>2 DEF EndFits

LEMMA CallFrame ==
    ASSUME NEW c \in CallRecords, NEW ds, NEW es, CallFits(c, ds),
           c.handle # 0 => SameSocket(ds[c.handle], es[c.handle])
    PROVE  CallFits(c, es)
<1>1. /\ c.step = "socket" \/ c.simulator = TRUE => c.handle = 0
      /\ c.simulator = TRUE => c.step = "allocate"
      /\ c.step \notin {"nonblocking", "allocate"} => c.port = c.address.port
  BY DEF CallFits
<1>2. ASSUME c.simulator = FALSE, c.step # "socket"
      PROVE  /\ c.handle # 0
             /\ SocketAt(es[c.handle], c.step, c.address.type)
             /\ BoundAt(c.step) /\ c.address.port # 0 => es[c.handle].port = c.address.port
             /\ c.step \in {"nonblocking", "allocate"} => c.port = es[c.handle].port
             /\ c.step = "sockname" => c.address.port = 0
  <2>1. /\ c.handle # 0
        /\ SocketAt(ds[c.handle], c.step, c.address.type)
        /\ BoundAt(c.step) /\ c.address.port # 0 => ds[c.handle].port = c.address.port
        /\ c.step \in {"nonblocking", "allocate"} => c.port = ds[c.handle].port
        /\ c.step = "sockname" => c.address.port = 0
    BY <1>2 DEF CallFits
  <2>2. SameSocket(ds[c.handle], es[c.handle])
    BY <2>1
  <2>3. SocketAt(es[c.handle], c.step, c.address.type)
    BY <2>1, <2>2, SameFits
  <2> QED BY <2>1, <2>2, <2>3 DEF SameSocket
<1> QED BY <1>1, <1>2 DEF CallFits

\* The handles of the objects and of the call are sockets.
LEMMA HandlesAreSockets ==
    ASSUME Inv
    PROVE  /\ \A e \in Ends : end[e] # NoEnd =>
                 /\ end[e] \in EndRecords /\ end[e].handle \in Descriptors
                 /\ EndFits(end[e], descriptor)
                 /\ end[e].handle # 0 => descriptor[end[e].handle].use = "socket"
           /\ call # NoCall =>
                 /\ call \in CallRecords /\ call.handle \in Descriptors
                 /\ CallFits(call, descriptor)
                 /\ call.handle # 0 => descriptor[call.handle].use = "socket"
<1>1. ASSUME NEW e \in Ends, end[e] # NoEnd
      PROVE  /\ end[e] \in EndRecords /\ end[e].handle \in Descriptors
             /\ EndFits(end[e], descriptor)
             /\ end[e].handle # 0 => descriptor[end[e].handle].use = "socket"
  <2>1. end[e] \in EndRecords /\ EndFits(end[e], descriptor)
    BY <1>1 DEF Inv, Types, EndsFit
  <2>2. end[e].handle \in Descriptors /\ end[e].simulator \in BOOLEAN
    BY <2>1 DEF EndRecords
  <2> QED BY <2>1, <2>2 DEF EndFits, SocketAt
<1>2. ASSUME call # NoCall
      PROVE  /\ call \in CallRecords /\ call.handle \in Descriptors
             /\ CallFits(call, descriptor)
             /\ call.handle # 0 => descriptor[call.handle].use = "socket"
  <2>1. call \in CallRecords /\ CallFits(call, descriptor)
    BY <1>2 DEF Inv, Types
  <2>2. call.handle \in Descriptors /\ call.simulator \in BOOLEAN
    BY <2>1 DEF CallRecords
  <2> QED BY <2>1, <2>2 DEF CallFits, SocketAt
<1> QED BY <1>1, <1>2

\* A step that changes no owner, and sockets only in what waits in them.
LEMMA DataInv ==
    ASSUME Inv, UNCHANGED <<end, call>>,
           descriptor' \in [Descriptors -> DescriptorRecord],
           SameSockets(descriptor, descriptor')
    PROVE  Inv'
<1>1. Types'
  BY DEF Inv, Types
<1>2. EndsFit(end', descriptor')
  <2> SUFFICES ASSUME NEW e \in Ends, end[e] # NoEnd PROVE EndFits(end[e], descriptor')
    BY DEF EndsFit
  <2>1. /\ end[e] \in EndRecords /\ end[e].handle \in Descriptors
        /\ EndFits(end[e], descriptor)
        /\ end[e].handle # 0 => descriptor[end[e].handle].use = "socket"
    BY HandlesAreSockets
  <2> QED BY <2>1, EndFrame DEF SameSockets
<1>3. call' # NoCall => CallFits(call', descriptor')
  <2> SUFFICES ASSUME call # NoCall PROVE CallFits(call, descriptor')
    OBVIOUS
  <2>1. /\ call \in CallRecords /\ call.handle \in Descriptors
        /\ CallFits(call, descriptor)
        /\ call.handle # 0 => descriptor[call.handle].use = "socket"
    BY HandlesAreSockets
  <2> QED BY <2>1, CallFrame DEF SameSockets
<1>4. EndsApart(end') /\ CallApart(end', call')
  BY DEF Inv
<1>5. AllOwned(descriptor', end', call')
  BY DEF Inv, AllOwned, SameSockets
<1> QED BY <1>1, <1>2, <1>3, <1>4, <1>5 DEF Inv

-----------------------------------------------------------------------------
(* Steps of a create call.                                                 *)

\* A call in progress has its socket to itself.
LEMMA CallAlone ==
    ASSUME Inv, call # NoCall, call.handle # 0
    PROVE  \A e \in Ends : end[e] # NoEnd => end[e].handle # call.handle
BY DEF Inv, CallApart

\* Changing the socket of the call disturbs no object.
LEMMA OthersFit ==
    ASSUME Inv, NEW h \in Descriptors, NEW es,
           \A e \in Ends : end[e] # NoEnd /\ end[e].handle # 0 => end[e].handle # h,
           \A d \in Descriptors : d # h => es[d] = descriptor[d]
    PROVE  EndsFit(end, es)
<1> SUFFICES ASSUME NEW e \in Ends, end[e] # NoEnd PROVE EndFits(end[e], es)
  BY DEF EndsFit
<1>1. /\ end[e] \in EndRecords /\ end[e].handle \in Descriptors
      /\ EndFits(end[e], descriptor)
  BY HandlesAreSockets
<1>2. end[e].handle # 0 => SameSocket(descriptor[end[e].handle], es[end[e].handle])
  BY <1>1 DEF SameSocket
<1> QED BY <1>1, <1>2, EndFrame

\* netcode_socket_destroy changes no other descriptor.
LEMMA DestroyedFacts ==
    ASSUME Inv, NEW h \in Descriptors
    PROVE  /\ SocketDestroyed(h) \in [Descriptors -> DescriptorRecord]
           /\ \A d \in Descriptors : d # h => SocketDestroyed(h)[d] = descriptor[d]
           /\ h # 0 => SocketDestroyed(h)[h].use # "socket"
<1>1. descriptor \in [Descriptors -> DescriptorRecord] /\ Free \in DescriptorRecord
  BY DEF Inv, Types, DescriptorRecord
<1> QED BY <1>1, NoSocket DEF SocketDestroyed

\* A failure closes the socket of the call, which nobody else has.
LEMMA FailInv ==
    ASSUME Inv, call # NoCall, Fail
    PROVE  Inv'
<1>1. call.handle \in Descriptors
  BY HandlesAreSockets
<1>2. /\ descriptor' \in [Descriptors -> DescriptorRecord]
      /\ \A d \in Descriptors : d # call.handle => descriptor'[d] = descriptor[d]
      /\ call.handle # 0 => descriptor'[call.handle].use # "socket"
  BY <1>1, DestroyedFacts DEF Fail
<1>3. call' = NoCall /\ end' = end
  BY DEF Fail
<1>4. \A e \in Ends : end[e] # NoEnd /\ end[e].handle # 0 => end[e].handle # call.handle
  BY CallAlone
<1>5. EndsFit(end', descriptor')
  BY <1>1, <1>2, <1>3, <1>4, OthersFit
<1>6. AllOwned(descriptor', end', call')
  <2> SUFFICES ASSUME NEW d \in Descriptors, d # 0, descriptor'[d].use = "socket"
               PROVE  OwnerOf(d, end, NoCall)
    BY <1>3 DEF AllOwned
  <2>1. d # call.handle
    BY <1>2
  <2>2. OwnerOf(d, end, call)
    BY <1>2, <2>1 DEF Inv, AllOwned
  <2> QED BY <2>1, <2>2 DEF OwnerOf
<1>7. EndsApart(end') /\ CallApart(end', call')
  BY <1>3 DEF Inv, CallApart
<1> QED BY <1>2, <1>3, <1>5, <1>6, <1>7 DEF Inv, Types

\* A call that goes on with its socket.
LEMMA AdvanceInv ==
    ASSUME Inv, call # NoCall, call.handle # 0, end' = end,
           call' \in CallRecords, call'.handle = call.handle, call'.end = call.end,
           descriptor' \in [Descriptors -> DescriptorRecord],
           \A d \in Descriptors : d # call.handle => descriptor'[d] = descriptor[d],
           CallFits(call', descriptor')
    PROVE  Inv'
<1>1. call.handle \in Descriptors /\ call' # NoCall
  BY HandlesAreSockets, Constants
<1>2. \A e \in Ends : end[e] # NoEnd /\ end[e].handle # 0 => end[e].handle # call.handle
  BY CallAlone
<1>3. EndsFit(end', descriptor')
  BY <1>1, <1>2, OthersFit
<1>4. AllOwned(descriptor', end', call')
  <2> SUFFICES ASSUME NEW d \in Descriptors, d # 0, descriptor'[d].use = "socket"
               PROVE  OwnerOf(d, end, call')
    BY DEF AllOwned
  <2>1. CASE d = call.handle
    BY <1>1, <2>1 DEF OwnerOf
  <2>2. CASE d # call.handle
    BY <2>2 DEF Inv, AllOwned, OwnerOf
  <2> QED BY <2>1, <2>2
<1>5. EndsApart(end') /\ CallApart(end', call')
  BY DEF Inv, CallApart
<1> QED BY <1>3, <1>4, <1>5 DEF Inv, Types

\* The steps follow one another, with a type and a port that do not change.
LEMMA AfterType ==
    ASSUME NEW c \in CallRecords, c.step # "allocate"
    PROVE  /\ [c EXCEPT !.step = After(@, c.address)] \in CallRecords
           /\ c.address.type \in {IPV4, IPV6} /\ c.address.port \in Ports \cup {0}
<1>1. c.address \in BindAddresses
  BY DEF CallRecords
<1>2. c.address.type \in {IPV4, IPV6} /\ c.address.port \in Ports \cup {0}
  BY <1>1 DEF BindAddresses
<1>3. After(c.step, c.address) \in {"socket", "v6only", "sndbuf", "rcvbuf", "bind",
                                    "sockname", "nonblocking", "allocate"}
  BY DEF After, CallRecords
<1> QED BY <1>2, <1>3 DEF CallRecords

\* The fields of a call after one step.
LEMMA AdvancedFields ==
    ASSUME Inv, call # NoCall, call.step # "allocate"
    PROVE  /\ Advanced \in CallRecords
           /\ Advanced.step = After(call.step, call.address)
           /\ Advanced.handle = call.handle /\ Advanced.end = call.end
           /\ Advanced.address = call.address /\ Advanced.port = call.port
           /\ Advanced.simulator = call.simulator /\ call.simulator = FALSE
<1>1. call \in CallRecords /\ CallFits(call, descriptor)
  BY HandlesAreSockets
<1>2. Advanced \in CallRecords
  BY <1>1, AfterType DEF Advanced
<1>3. /\ Advanced.step = After(call.step, call.address)
      /\ Advanced.handle = call.handle /\ Advanced.end = call.end
      /\ Advanced.address = call.address /\ Advanced.port = call.port
      /\ Advanced.simulator = call.simulator
  BY <1>1 DEF Advanced, CallRecords
<1>4. call.simulator \in BOOLEAN
  BY <1>1 DEF CallRecords
<1> QED BY <1>1, <1>2, <1>3, <1>4 DEF CallFits

\* setsockopt and fcntl: the option of the step is one more.
LEMMA OptionSet ==
    ASSUME NEW s \in SocketRecord, NEW step \in OptionNames, NEW a \in BindAddresses,
           SocketAt(s, step, a.type)
    PROVE  /\ WithOption(s, step) \in SocketRecord
           /\ SocketAt(WithOption(s, step), After(step, a), a.type)
           /\ WithOption(s, step).port = s.port
<1> DEFINE t == WithOption(s, step)
<1>1. /\ t \in SocketRecord
      /\ t.use = s.use /\ t.type = s.type /\ t.port = s.port
      /\ t.options = s.options \cup {step}
  BY DEF WithOption, SocketRecord, OptionNames
<1> HIDE DEF t
<1>2. SetAt(After(step, a), a.type) \subseteq SetAt(step, a.type) \cup {step}
  BY DEF SetAt, After, OptionNames, IPV4, IPV6
<1>3. BoundAt(After(step, a)) => BoundAt(step)
  BY DEF BoundAt, After, OptionNames
<1>4. SocketAt(t, After(step, a), a.type)
  BY <1>1, <1>2, <1>3 DEF SocketAt
<1> QED BY <1>1, <1>4 DEF t

\* The calls of setsockopt and fcntl.
LEMMA SetOptionInv ==
    ASSUME Inv, SetOption
    PROVE  Inv'
<1>1. CASE Fail
  BY <1>1, FailInv DEF SetOption
<1>2. CASE ~Fail
  <2> DEFINE h == call.handle
             s == descriptor[h]
  <2>1. /\ call # NoCall /\ call.step \in OptionNames
        /\ descriptor' = [descriptor EXCEPT ![h] = WithOption(s, call.step)]
        /\ call' = Advanced /\ end' = end
    BY <1>2 DEF SetOption, OptionNames
  <2>2. /\ call \in CallRecords /\ h \in Descriptors /\ CallFits(call, descriptor)
        /\ call.step \notin {"allocate", "socket", "sockname", "bind"}
    BY <2>1, HandlesAreSockets DEF OptionNames
  <2>3. /\ call' \in CallRecords /\ call'.step = After(call.step, call.address)
        /\ call'.handle = h /\ call'.end = call.end
        /\ call'.address = call.address /\ call'.port = call.port
        /\ call'.simulator = FALSE /\ call.simulator = FALSE
    BY <2>1, <2>2, AdvancedFields
  <2>4. /\ h # 0 /\ SocketAt(s, call.step, call.address.type)
        /\ BoundAt(call.step) /\ call.address.port # 0 => s.port = call.address.port
        /\ call.step \in {"nonblocking", "allocate"} => call.port = s.port
        /\ call.step \notin {"nonblocking", "allocate"} => call.port = call.address.port
    BY <2>2, <2>3 DEF CallFits
  <2>5. descriptor \in [Descriptors -> DescriptorRecord]
    BY DEF Inv, Types
  <2>6. s \in DescriptorRecord
    BY <2>2, <2>5
  <2>7. s \in SocketRecord /\ call.address \in BindAddresses
    BY <2>2, <2>4, <2>6, IsSocket DEF SocketAt, CallRecords
  <2> DEFINE t == WithOption(s, call.step)
  <2>8. t \in SocketRecord /\ t.port = s.port
        /\ SocketAt(t, After(call.step, call.address), call.address.type)
    BY <2>1, <2>4, <2>7, OptionSet
  <2>9. /\ descriptor'[h] = t
        /\ \A d \in Descriptors : d # h => descriptor'[d] = descriptor[d]
    BY <2>1, <2>2, <2>5
  <2>10. descriptor' \in [Descriptors -> DescriptorRecord]
    <3>1. t \in DescriptorRecord
      BY <2>8 DEF DescriptorRecord
    <3> HIDE DEF t
    <3> QED BY <2>1, <2>5, <3>1 DEF t
  <2>11. CallFits(call', descriptor')
    <3>1. /\ After(call.step, call.address) \notin {"socket", "sockname"}
          /\ After(call.step, call.address) \in {"nonblocking", "allocate"} =>
               call.step = "nonblocking"
          /\ BoundAt(After(call.step, call.address)) => BoundAt(call.step)
      BY <2>1 DEF After, OptionNames, BoundAt
    <3>2. /\ call'.step \in {"nonblocking", "allocate"} => call'.port = descriptor'[h].port
          /\ call'.step \notin {"nonblocking", "allocate"} => call'.port = call'.address.port
      <4>1. After(call.step, call.address) \notin {"nonblocking", "allocate"} =>
               call.step \notin {"nonblocking", "allocate"}
        BY <2>1 DEF After, OptionNames
      <4> HIDE DEF t
      <4> QED BY <2>3, <2>4, <2>8, <2>9, <3>1, <4>1
    <3> HIDE DEF t
    <3> QED BY <2>3, <2>4, <2>8, <2>9, <3>1, <3>2 DEF CallFits
  <2> HIDE DEF t, s
  <2> QED BY <2>1, <2>3, <2>4, <2>9, <2>10, <2>11, AdvanceInv
<1> QED BY <1>1, <1>2

\* bind gives the socket a port, the one asked for if there was one.
LEMMA BindInv ==
    ASSUME Inv, Bind
    PROVE  Inv'
<1>1. CASE Fail
  BY <1>1, FailInv DEF Bind
<1>2. CASE ~Fail
  <2> DEFINE h == call.handle
             s == descriptor[h]
  <2>1. PICK p \in IF call.address.port = 0 THEN Ports ELSE {call.address.port} :
          descriptor' = [descriptor EXCEPT ![h].port = p]
    BY <1>2 DEF Bind
  <2>2. call # NoCall /\ call.step = "bind" /\ call' = Advanced /\ end' = end
    BY <1>2 DEF Bind
  <2>3. call \in CallRecords /\ h \in Descriptors /\ CallFits(call, descriptor)
    BY <2>2, HandlesAreSockets
  <2>4. /\ call' \in CallRecords /\ call'.step = After(call.step, call.address)
        /\ call'.handle = h /\ call'.end = call.end
        /\ call'.address = call.address /\ call'.port = call.port
        /\ call'.simulator = FALSE /\ call.simulator = FALSE
    BY <2>2, AdvancedFields
  <2>5. /\ h # 0 /\ SocketAt(s, "bind", call.address.type)
        /\ call.port = call.address.port
    BY <2>2, <2>3, <2>4 DEF CallFits
  <2>6. descriptor \in [Descriptors -> DescriptorRecord]
    BY DEF Inv, Types
  <2>7. s \in SocketRecord
    BY <2>3, <2>5, <2>6, IsSocket DEF SocketAt
  <2>8. /\ p \in Ports \cup {0} /\ p # 0
        /\ call.address.port # 0 => p = call.address.port
    BY <2>2, <2>3, AfterType, Constants
  <2> DEFINE t == [s EXCEPT !.port = p]
  <2>9. /\ t \in SocketRecord /\ t.use = s.use /\ t.type = s.type
        /\ t.options = s.options /\ t.port = p
    BY <2>7, <2>8 DEF SocketRecord
  <2>10. descriptor' = [descriptor EXCEPT ![h] = t]
    BY <2>1
  <2>11. t \in DescriptorRecord
    BY <2>9 DEF DescriptorRecord
  <2> HIDE DEF t
  <2>12. /\ descriptor' \in [Descriptors -> DescriptorRecord] /\ descriptor'[h] = t
         /\ \A d \in Descriptors : d # h => descriptor'[d] = descriptor[d]
    BY <2>3, <2>6, <2>10, <2>11
  <2>13. SocketAt(t, call'.step, call.address.type)
    <3>1. SetAt(call'.step, call.address.type) = SetAt("bind", call.address.type)
      BY <2>2, <2>4 DEF After, SetAt
    <3> QED BY <2>5, <2>8, <2>9, <3>1 DEF SocketAt
  <2>14. CallFits(call', descriptor')
    <3>1. /\ call.address.port = 0 => call'.step = "sockname"
          /\ call.address.port # 0 => call'.step = "nonblocking"
      BY <2>2, <2>4 DEF After
    <3> HIDE DEF s
    <3> QED BY <2>4, <2>5, <2>8, <2>9, <2>12, <2>13, <3>1 DEF CallFits
  <2> HIDE DEF s
  <2> QED BY <2>2, <2>4, <2>5, <2>12, <2>14, AdvanceInv
<1> QED BY <1>1, <1>2

\* getsockname tells the port the socket got.
LEMMA GetSockNameInv ==
    ASSUME Inv, GetSockName
    PROVE  Inv'
<1>1. CASE Fail
  BY <1>1, FailInv DEF GetSockName
<1>2. CASE ~Fail
  <2> DEFINE h == call.handle
             s == descriptor[h]
  <2>1. /\ call # NoCall /\ call.step = "sockname"
        /\ call' = [Advanced EXCEPT !.port = s.port]
        /\ UNCHANGED <<descriptor, end>>
    BY <1>2 DEF GetSockName
  <2>2. call \in CallRecords /\ h \in Descriptors /\ CallFits(call, descriptor)
    BY <2>1, HandlesAreSockets
  <2>3. /\ Advanced \in CallRecords /\ Advanced.step = After(call.step, call.address)
        /\ Advanced.handle = h /\ Advanced.end = call.end
        /\ Advanced.address = call.address
        /\ Advanced.simulator = FALSE /\ call.simulator = FALSE
    BY <2>1, AdvancedFields
  <2>4. /\ h # 0 /\ SocketAt(s, "sockname", call.address.type)
        /\ call.address.port = 0
    BY <2>1, <2>2, <2>3 DEF CallFits
  <2>5. descriptor \in [Descriptors -> DescriptorRecord]
    BY DEF Inv, Types
  <2>6. s \in SocketRecord
    BY <2>2, <2>4, <2>5, IsSocket DEF SocketAt
  <2>7. s.port \in Ports \cup {0}
    BY <2>6 DEF SocketRecord
  <2>8. After(call.step, call.address) = "nonblocking"
    BY <2>1 DEF After
  <2> HIDE DEF s
  <2>9. /\ call' \in CallRecords /\ call'.step = "nonblocking" /\ call'.port = s.port
        /\ call'.handle = h /\ call'.end = call.end /\ call'.address = call.address
        /\ call'.simulator = FALSE
    BY <2>1, <2>3, <2>7, <2>8 DEF CallRecords
  <2>10. SocketAt(s, "nonblocking", call.address.type)
    BY <2>4 DEF SocketAt, SetAt, BoundAt
  <2>11. CallFits(call', descriptor')
    BY <2>1, <2>4, <2>9, <2>10 DEF CallFits, s
  <2> QED BY <2>1, <2>4, <2>5, <2>9, <2>11, AdvanceInv
<1> QED BY <1>1, <1>2

\* socket: nobody owned the free descriptor it returns.  Descriptor 0 is
\* dropped, and is nobody's.
LEMMA OpenSocketInv ==
    ASSUME Inv, OpenSocket
    PROVE  Inv'
<1> DEFINE d == Min(FreeDescriptors)
           n == NewSocket(call.address.type)
<1>1. /\ call # NoCall /\ call.step = "socket" /\ end' = end
      /\ \/ /\ FreeDescriptors # {}
            /\ descriptor' = [descriptor EXCEPT ![d] = n]
            /\ call' = IF d = 0 THEN NoCall ELSE [Advanced EXCEPT !.handle = d]
         \/ call' = NoCall /\ UNCHANGED descriptor
  BY DEF OpenSocket
<1>2. call \in CallRecords /\ CallFits(call, descriptor) /\ call.handle = 0
  BY <1>1, HandlesAreSockets DEF CallFits
<1>3. descriptor \in [Descriptors -> DescriptorRecord]
  BY DEF Inv, Types
<1>4. /\ n \in SocketRecord /\ n \in DescriptorRecord
      /\ n.use = "socket" /\ n.type = call.address.type
  <2>1. call.address.type \in {IPV4, IPV6}
    BY <1>1, <1>2, AfterType
  <2>2. n \in SocketRecord
    BY <2>1 DEF NewSocket, SocketRecord
  <2> QED BY <2>2 DEF NewSocket, DescriptorRecord
<1> HIDE DEF n
<1>5. CASE call' = NoCall
  <2>1. \A e \in Descriptors : e # 0 => descriptor'[e] = descriptor[e]
    BY <1>1, <1>3, <1>5, AdvancedFields, Constants
       DEF CallRecords
  <2>2. descriptor' \in [Descriptors -> DescriptorRecord]
    <3>1. CASE UNCHANGED descriptor
      BY <1>3, <3>1
    <3>2. CASE FreeDescriptors # {} /\ descriptor' = [descriptor EXCEPT ![d] = n]
      BY <1>3, <1>4, <3>2
    <3> QED BY <1>1, <3>1, <3>2
  <2>3. 0 \in Descriptors
    BY Constants
  <2>4. EndsFit(end', descriptor')
    BY <1>1, <2>1, <2>3, OthersFit
  <2>5. AllOwned(descriptor', end', call')
    <3> SUFFICES ASSUME NEW e \in Descriptors, e # 0, descriptor'[e].use = "socket"
                 PROVE  OwnerOf(e, end, NoCall)
      BY <1>1, <1>5 DEF AllOwned
    <3>1. OwnerOf(e, end, call)
      BY <2>1 DEF Inv, AllOwned
    <3> QED BY <1>2, <3>1 DEF OwnerOf
  <2>6. EndsApart(end') /\ CallApart(end', call')
    BY <1>1, <1>5 DEF Inv, CallApart
  <2> QED BY <1>1, <1>5, <2>2, <2>4, <2>5, <2>6 DEF Inv, Types
<1>6. CASE call' # NoCall
  <2>1. /\ FreeDescriptors # {} /\ d # 0
        /\ descriptor' = [descriptor EXCEPT ![d] = n]
        /\ call' = [Advanced EXCEPT !.handle = d]
    BY <1>1, <1>6
  <2>2. d \in Descriptors /\ descriptor[d].use # "socket"
    BY <2>1, LowestFree, NoSocket
  <2> HIDE DEF d
  <2>3. /\ descriptor' \in [Descriptors -> DescriptorRecord] /\ descriptor'[d] = n
        /\ \A e \in Descriptors : e # d => descriptor'[e] = descriptor[e]
    BY <1>3, <1>4, <2>1, <2>2
  <2>4. /\ Advanced \in CallRecords
        /\ Advanced.step = After(call.step, call.address) /\ Advanced.end = call.end
        /\ Advanced.address = call.address /\ Advanced.port = call.port
        /\ Advanced.simulator = FALSE
    BY <1>1, AdvancedFields
  <2>5. /\ call' \in CallRecords /\ call'.handle = d
        /\ call'.step = After(call.step, call.address) /\ call'.end = call.end
        /\ call'.address = call.address /\ call'.port = call.port
        /\ call'.simulator = FALSE
    BY <2>1, <2>2, <2>4 DEF CallRecords
  <2>6. \A e \in Ends : end[e] # NoEnd => end[e].handle # d
    BY <2>1, <2>2, HandlesAreSockets
  <2>7. EndsFit(end', descriptor')
    BY <1>1, <2>2, <2>3, <2>6, OthersFit
  <2>8. CallFits(call', descriptor')
    <3>1. /\ call'.step = IF call.address.type = IPV6 THEN "v6only" ELSE "sndbuf"
          /\ call.port = call.address.port
      BY <1>1, <1>2, <2>5 DEF After, CallFits
    <3>2. SocketAt(n, call'.step, call.address.type)
      BY <1>4, <3>1 DEF SocketAt, SetAt, BoundAt
    <3> QED BY <2>1, <2>3, <2>5, <3>1, <3>2 DEF CallFits, BoundAt
  <2>9. AllOwned(descriptor', end', call')
    <3> SUFFICES ASSUME NEW e \in Descriptors, e # 0, descriptor'[e].use = "socket"
                 PROVE  OwnerOf(e, end, call')
      BY <1>1 DEF AllOwned
    <3>1. CASE e = d
      BY <1>6, <2>5, <3>1 DEF OwnerOf
    <3>2. CASE e # d
      <4>1. OwnerOf(e, end, call)
        BY <2>3, <3>2 DEF Inv, AllOwned
      <4> QED BY <1>2, <4>1 DEF OwnerOf
    <3> QED BY <3>1, <3>2
  <2>10. EndsApart(end') /\ CallApart(end', call')
    BY <1>1, <2>5, <2>6 DEF Inv, CallApart
  <2> QED BY <1>1, <1>6, <2>3, <2>5, <2>7, <2>8, <2>9, <2>10 DEF Inv, Types
<1> QED BY <1>5, <1>6

\* The create functions start without a socket.
LEMMA CreateInv ==
    ASSUME Inv, NEW e \in Ends, NEW kind \in {"client", "server"},
           NEW a \in BindAddresses, NEW simulator \in BOOLEAN,
           Create(e, kind, a, simulator)
    PROVE  Inv'
<1>1. /\ call = NoCall /\ end[e] = NoEnd /\ UNCHANGED <<descriptor, end>>
      /\ call' = [end |-> e, kind |-> kind, address |-> a, simulator |-> simulator,
                  handle |-> 0, port |-> a.port,
                  step |-> IF simulator THEN "allocate" ELSE "socket"]
  BY DEF Create
<1>2. a.port \in Ports \cup {0} /\ 0 \in Descriptors
  BY Constants DEF BindAddresses
<1>3. call' \in CallRecords
  BY <1>1, <1>2 DEF CallRecords
<1>4. /\ call'.end = e /\ call'.handle = 0 /\ call'.address = a /\ call'.port = a.port
      /\ call'.simulator = simulator
      /\ simulator = TRUE => call'.step = "allocate"
      /\ simulator = FALSE => call'.step = "socket"
  BY <1>1
<1>5. CallFits(call', descriptor')
  BY <1>4 DEF CallFits
<1>6. CallApart(end', call')
  BY <1>1, <1>4 DEF CallApart
<1>7. AllOwned(descriptor', end', call')
  BY <1>1 DEF Inv, AllOwned, OwnerOf
<1> QED BY <1>1, <1>3, <1>5, <1>6, <1>7 DEF Inv, Types

\* The new object takes the socket over from the call.
LEMMA AllocateInv ==
    ASSUME Inv, Allocate
    PROVE  Inv'
<1>1. CASE Fail
  BY <1>1, FailInv DEF Allocate
<1>2. CASE ~Fail
  <2> DEFINE o == [kind |-> call.kind, simulator |-> call.simulator,
                   handle |-> call.handle, type |-> call.address.type,
                   port |-> IF call.kind = "client" THEN call.port ELSE call.address.port]
  <2>1. /\ call # NoCall /\ call.step = "allocate" /\ call' = NoCall
        /\ end' = [end EXCEPT ![call.end] = o] /\ UNCHANGED descriptor
    BY <1>2 DEF Allocate
  <2>2. call \in CallRecords /\ CallFits(call, descriptor) /\ call.handle \in Descriptors
    BY <2>1, HandlesAreSockets
  <2>3. /\ call.end \in Ends /\ call.kind \in {"client", "server"}
        /\ call.simulator \in BOOLEAN /\ call.port \in Ports \cup {0}
        /\ call.address \in BindAddresses
    BY <2>2 DEF CallRecords
  <2>4. call.address.type \in {IPV4, IPV6} /\ call.address.port \in Ports \cup {0}
    BY <2>3 DEF BindAddresses
  <2>5. o \in EndRecords
    BY <2>2, <2>3, <2>4 DEF EndRecords
  <2>6. /\ o.kind = call.kind /\ o.simulator = call.simulator /\ o.handle = call.handle
        /\ o.type = call.address.type
        /\ o.kind = "client" => o.port = call.port
        /\ o.kind # "client" => o.port = call.address.port
    OBVIOUS
  <2> HIDE DEF o
  <2>7. EndFits(o, descriptor)
    <3>1. o.simulator = TRUE => o.handle = 0
      BY <2>2, <2>6 DEF CallFits
    <3>2. ASSUME o.simulator = FALSE
          PROVE  /\ o.handle # 0
                 /\ SocketAt(descriptor[o.handle], "allocate", o.type)
                 /\ o.kind = "client" \/ o.port # 0 => o.port = descriptor[o.handle].port
      <4>1. /\ call.handle # 0
            /\ SocketAt(descriptor[call.handle], "allocate", call.address.type)
            /\ call.address.port # 0 => descriptor[call.handle].port = call.address.port
            /\ call.port = descriptor[call.handle].port
        BY <2>1, <2>2, <2>6, <3>2 DEF CallFits, BoundAt
      <4> QED BY <2>6, <4>1
    <3> QED BY <3>1, <3>2 DEF EndFits
  <2>8. o # NoEnd
    BY <2>5, Constants
  <2>9. end \in [Ends -> EndRecords \cup {NoEnd}] /\ end[call.end] = NoEnd
    BY <2>1 DEF Inv, Types, CallApart
  <2>10. /\ end' \in [Ends -> EndRecords \cup {NoEnd}] /\ end'[call.end] = o
         /\ \A e \in Ends : e # call.end => end'[e] = end[e]
    BY <2>1, <2>3, <2>5, <2>9
  <2>11. EndsFit(end', descriptor')
    <3> SUFFICES ASSUME NEW e \in Ends, end'[e] # NoEnd PROVE EndFits(end'[e], descriptor)
      BY <2>1 DEF EndsFit
    <3>1. CASE e = call.end
      BY <2>7, <2>10, <3>1
    <3>2. CASE e # call.end
      BY <2>10, <3>2 DEF Inv, EndsFit
    <3> QED BY <3>1, <3>2
  <2>12. AllOwned(descriptor', end', call')
    <3> SUFFICES ASSUME NEW d \in Descriptors, d # 0, descriptor[d].use = "socket"
                 PROVE  \E e \in Ends : end'[e] # NoEnd /\ end'[e].handle = d
      BY <2>1 DEF AllOwned, OwnerOf
    <3>1. CASE call.handle = d
      BY <2>3, <2>6, <2>8, <2>10, <3>1
    <3>2. CASE call.handle # d
      <4>1. PICK e \in Ends : end[e] # NoEnd /\ end[e].handle = d
        BY <3>2 DEF Inv, AllOwned, OwnerOf
      <4>2. e # call.end
        BY <2>9, <4>1
      <4> QED BY <2>10, <4>1, <4>2
    <3> QED BY <3>1, <3>2
  <2>13. EndsApart(end')
    <3> SUFFICES ASSUME NEW e \in Ends, NEW f \in Ends, end'[e] # NoEnd, end'[f] # NoEnd,
                        end'[e].handle = end'[f].handle, e # f
                 PROVE  end'[e].handle = 0
      BY DEF EndsApart
    <3>1. \A x \in Ends : end[x] # NoEnd /\ end[x].handle = call.handle => call.handle = 0
      BY <2>1 DEF Inv, CallApart
    <3>2. CASE e = call.end
      BY <2>6, <2>10, <3>1, <3>2
    <3>3. CASE f = call.end
      BY <2>6, <2>10, <3>1, <3>3
    <3>4. CASE e # call.end /\ f # call.end
      BY <2>10, <3>4 DEF Inv, EndsApart
    <3> QED BY <3>2, <3>3, <3>4
  <2>14. CallApart(end', call')
    BY <2>1 DEF CallApart
  <2> QED BY <2>1, <2>10, <2>11, <2>12, <2>13, <2>14 DEF Inv, Types
<1> QED BY <1>1, <1>2

\* Destroying an object closes its own socket and nobody else's.
LEMMA DestroyInv ==
    ASSUME Inv, NEW e \in Ends, Destroy(e)
    PROVE  Inv'
<1> DEFINE h == end[e].handle
<1>1. /\ call = NoCall /\ call' = NoCall /\ end[e] # NoEnd
      /\ descriptor' = SocketDestroyed(h) /\ end' = [end EXCEPT ![e] = NoEnd]
  BY DEF Destroy
<1>2. h \in Descriptors
  BY <1>1, HandlesAreSockets
<1>3. /\ descriptor' \in [Descriptors -> DescriptorRecord]
      /\ \A d \in Descriptors : d # h => descriptor'[d] = descriptor[d]
      /\ h # 0 => descriptor'[h].use # "socket"
  BY <1>1, <1>2, DestroyedFacts
<1>4. end \in [Ends -> EndRecords \cup {NoEnd}]
  BY DEF Inv, Types
<1>5. /\ end' \in [Ends -> EndRecords \cup {NoEnd}] /\ end'[e] = NoEnd
      /\ \A f \in Ends : f # e => end'[f] = end[f]
  BY <1>1, <1>4
<1>6. EndsFit(end', descriptor')
  <2> SUFFICES ASSUME NEW f \in Ends, end'[f] # NoEnd PROVE EndFits(end'[f], descriptor')
    BY DEF EndsFit
  <2>1. f # e /\ end'[f] = end[f]
    BY <1>5
  <2>2. /\ end[f] \in EndRecords /\ end[f].handle \in Descriptors
        /\ EndFits(end[f], descriptor)
    BY <2>1, HandlesAreSockets
  <2>3. end[f].handle # 0 => end[f].handle # h
    BY <1>1, <2>1 DEF Inv, EndsApart
  <2>4. end[f].handle # 0 => SameSocket(descriptor[end[f].handle], descriptor'[end[f].handle])
    BY <1>3, <2>2, <2>3 DEF SameSocket
  <2> QED BY <2>1, <2>2, <2>4, EndFrame
<1>7. AllOwned(descriptor', end', call')
  <2> SUFFICES ASSUME NEW d \in Descriptors, d # 0, descriptor'[d].use = "socket"
               PROVE  \E f \in Ends : end'[f] # NoEnd /\ end'[f].handle = d
    BY <1>1 DEF AllOwned, OwnerOf
  <2>1. d # h
    BY <1>3
  <2>2. PICK f \in Ends : end[f] # NoEnd /\ end[f].handle = d
    BY <1>1, <1>3, <2>1 DEF Inv, AllOwned, OwnerOf
  <2> QED BY <1>5, <2>1, <2>2
<1>8. EndsApart(end') /\ CallApart(end', call')
  BY <1>1, <1>5 DEF Inv, EndsApart, CallApart
<1> QED BY <1>1, <1>3, <1>5, <1>6, <1>7, <1>8 DEF Inv, Types

-----------------------------------------------------------------------------
(* Datagrams, and the rest of the program.                                 *)

\* What an update leaves in a socket is a part of what was there.
LEMMA UnreadType ==
    ASSUME NEW w \in Seq(BOOLEAN)
    PROVE  Unread(w) \in Seq(BOOLEAN)
<1> DEFINE empty == {i \in DOMAIN w : ~w[i]}
<1>1. CASE empty = {}
  BY <1>1 DEF Unread
<1>2. CASE empty # {}
  <2>1. DOMAIN w = 1 .. Len(w) /\ Len(w) \in Nat
    OBVIOUS
  <2>2. empty \in SUBSET Nat
    BY <2>1
  <2> HIDE DEF empty
  <2>3. Min(empty) \in Nat
    BY <1>2, <2>2, MinIn
  <2>4. Unread(w) = SubSeq(w, Min(empty) + 1, Len(w))
    BY <1>2 DEF Unread, empty
  <2>5. \A i \in Min(empty) + 1 .. Len(w) : w[i] \in BOOLEAN
    BY <2>1, <2>3
  <2> QED BY <2>1, <2>3, <2>4, <2>5, SubSeqProperties
<1> QED BY <1>1, <1>2

\* Only what waits in one socket changes.
LEMMA WaitingInv ==
    ASSUME Inv, UNCHANGED <<end, call>>,
           NEW d \in Descriptors, descriptor[d].use = "socket", NEW w \in Seq(BOOLEAN),
           descriptor' = [descriptor EXCEPT ![d].waiting = w]
    PROVE  Inv'
<1> DEFINE s == descriptor[d]
           t == [s EXCEPT !.waiting = w]
<1>1. descriptor \in [Descriptors -> DescriptorRecord]
  BY DEF Inv, Types
<1>2. s \in SocketRecord
  BY <1>1, IsSocket
<1>3. t \in SocketRecord /\ SameSocket(s, t)
  BY <1>2 DEF SocketRecord, SameSocket
<1>4. t \in DescriptorRecord
  BY <1>3 DEF DescriptorRecord
<1>5. descriptor' = [descriptor EXCEPT ![d] = t]
  OBVIOUS
<1> HIDE DEF t
<1>6. /\ descriptor' \in [Descriptors -> DescriptorRecord] /\ descriptor'[d] = t
      /\ \A x \in Descriptors : x # d => descriptor'[x] = descriptor[x]
  BY <1>1, <1>4, <1>5
<1>7. SameSockets(descriptor, descriptor')
  BY <1>3, <1>6 DEF SameSockets, SameSocket
<1> QED BY <1>6, <1>7, DataInv

\* A datagram that is sent or arrives waits in its socket.
LEMMA DeliverInv ==
    ASSUME Inv, UNCHANGED <<end, call>>, NEW d \in Sockets, NEW b \in BOOLEAN, Deliver(d, b)
    PROVE  Inv'
<1>1. d \in Descriptors /\ descriptor[d].use = "socket"
  BY DEF Sockets
<1>2. descriptor[d] \in SocketRecord
  BY <1>1, IsSocket DEF Inv, Types
<1>3. descriptor[d].waiting \in Seq(BOOLEAN)
  BY <1>2 DEF SocketRecord
<1>4. Append(descriptor[d].waiting, b) \in Seq(BOOLEAN)
  BY <1>3
<1>5. descriptor' = [descriptor EXCEPT ![d].waiting = Append(descriptor[d].waiting, b)]
  BY DEF Deliver
<1> QED BY <1>1, <1>4, <1>5, WaitingInv

\* An update empties the socket of its object.
LEMMA UpdateInv ==
    ASSUME Inv, NEW e \in Ends, Update(e)
    PROVE  Inv'
<1> DEFINE h == end[e].handle
<1>1. /\ end[e] # NoEnd /\ ~end[e].simulator /\ UNCHANGED <<end, call>>
      /\ descriptor' = [descriptor EXCEPT ![h].waiting = Unread(descriptor[h].waiting)]
  BY DEF Update
<1>2. /\ end[e] \in EndRecords /\ h \in Descriptors /\ EndFits(end[e], descriptor)
      /\ h # 0 => descriptor[h].use = "socket"
  BY <1>1, HandlesAreSockets
<1>3. end[e].simulator = FALSE
  BY <1>1, <1>2 DEF EndRecords
<1>4. descriptor[h].use = "socket"
  BY <1>2, <1>3 DEF EndFits
<1>5. descriptor[h] \in SocketRecord
  BY <1>2, <1>4, IsSocket DEF Inv, Types
<1>6. descriptor[h].waiting \in Seq(BOOLEAN)
  BY <1>5 DEF SocketRecord
<1>7. Unread(descriptor[h].waiting) \in Seq(BOOLEAN)
  BY <1>6, UnreadType
<1> HIDE DEF h
<1> QED BY <1>1, <1>2, <1>4, <1>7, WaitingInv

\* What the rest of the program opens was free and what it closes is its own.
LEMMA ForeignInv ==
    ASSUME Inv, ForeignOpen \/ \E d \in Descriptors : ForeignClose(d)
    PROVE  Inv'
<1>1. descriptor \in [Descriptors -> DescriptorRecord]
  BY DEF Inv, Types
<1>2. PICK d \in Descriptors, r \in {Free, Foreign} :
         /\ descriptor[d].use # "socket" /\ descriptor' = [descriptor EXCEPT ![d] = r]
         /\ UNCHANGED <<end, call>>
  <2>1. CASE ForeignOpen
    BY <2>1, LowestFree, NoSocket DEF ForeignOpen
  <2>2. CASE \E d \in Descriptors : ForeignClose(d)
    BY <2>2, NoSocket DEF ForeignClose
  <2> QED BY <2>1, <2>2
<1>3. r \in DescriptorRecord /\ r.use # "socket"
  BY NoSocket DEF DescriptorRecord
<1>4. /\ descriptor' \in [Descriptors -> DescriptorRecord] /\ descriptor'[d] = r
      /\ \A x \in Descriptors : x # d => descriptor'[x] = descriptor[x]
  BY <1>1, <1>2, <1>3
<1>5. SameSockets(descriptor, descriptor')
  BY <1>2, <1>3, <1>4 DEF SameSockets, SameSocket
<1> QED BY <1>2, <1>4, <1>5, DataInv

\* netcode_init and netcode_term touch no object and no socket.
LEMMA InitTermInv ==
    ASSUME Inv, NetcodeInit \/ NetcodeTerm \/ UNCHANGED vars
    PROVE  Inv'
<1>1. UNCHANGED <<descriptor, end, call>>
  BY DEF NetcodeInit, NetcodeTerm, vars
<1> QED BY <1>1 DEF Inv, Types

-----------------------------------------------------------------------------
(* The theorems.                                                           *)

\* Before netcode_init there is no object and no call.
LEMMA InitInv == Init => Inv
<1> SUFFICES ASSUME Init PROVE Inv
  OBVIOUS
<1>1. Free \in DescriptorRecord /\ Foreign \in DescriptorRecord
  BY DEF DescriptorRecord
<1>2. \A d \in Descriptors : descriptor[d] = Free \/ descriptor[d] = Foreign
  BY DEF Init
<1>3. descriptor \in [Descriptors -> DescriptorRecord]
  BY <1>1 DEF Init
<1>4. \A e \in Ends : end[e] = NoEnd
  BY DEF Init
<1>5. end \in [Ends -> EndRecords \cup {NoEnd}] /\ call = NoCall
  BY DEF Init
<1>6. AllOwned(descriptor, end, call)
  BY <1>2, NoSocket DEF AllOwned
<1>7. EndsFit(end, descriptor) /\ EndsApart(end) /\ CallApart(end, call)
  BY <1>4, <1>5 DEF EndsFit, EndsApart, CallApart
<1> QED BY <1>3, <1>5, <1>6, <1>7 DEF Inv, Types

\* Every step keeps the invariant.
LEMMA NextInv == Inv /\ [Next]_vars => Inv'
<1> SUFFICES ASSUME Inv, [Next]_vars PROVE Inv'
  OBVIOUS
<1>1. CASE NetcodeInit \/ NetcodeTerm \/ UNCHANGED vars
  BY <1>1, InitTermInv
<1>2. CASE \E e \in Ends, kind \in {"client", "server"}, a \in BindAddresses,
              simulator \in BOOLEAN : Create(e, kind, a, simulator)
  BY <1>2, CreateInv
<1>3. CASE OpenSocket \/ SetOption \/ Bind \/ GetSockName \/ Allocate
  BY <1>3, OpenSocketInv, SetOptionInv, BindInv, GetSockNameInv, AllocateInv
<1>4. CASE \E e \in Ends : Destroy(e) \/ Update(e)
  BY <1>4, DestroyInv, UpdateInv
<1>5. CASE \E e \in Ends : \E type \in {IPV4, IPV6}, port \in Ports : Send(e, type, port)
  <2>1. PICK d \in Sockets : Deliver(d, TRUE) /\ UNCHANGED <<end, call>>
    BY <1>5 DEF Send
  <2> QED BY <2>1, DeliverInv
<1>6. CASE \E d \in Sockets : Arrive(d)
  <2>1. PICK d \in Sockets, b \in BOOLEAN : Deliver(d, b) /\ UNCHANGED <<end, call>>
    BY <1>6 DEF Arrive
  <2> QED BY <2>1, DeliverInv
<1>7. CASE ForeignOpen \/ \E d \in Descriptors : ForeignClose(d)
  BY <1>7, ForeignInv
<1> QED BY <1>1, <1>2, <1>3, <1>4, <1>5, <1>6, <1>7 DEF Next

\* Every socket is as far as its create call is, and has one owner
\* (netcode.c:443-600).
THEOREM EndpointInvariant == Spec => []Inv
BY InitInv, NextInv, PTL DEF Spec

\* Whichever system call fails, and however descriptors are reused by the rest
\* of the program, no socket is lost, shared, or closed by somebody else
\* (netcode.c:443-455, 474-600, 2498-2502, 3581-3585).
THEOREM NoSocketLost == Spec => []SocketsOwned
<1>1. ASSUME Inv PROVE SocketsOwned
  <2>1. ASSUME NEW d \in Sockets \ {0} PROVE d \in Owned
    <3>1. d \in Descriptors /\ d # 0 /\ descriptor[d].use = "socket"
      BY <2>1 DEF Sockets
    <3>2. OwnerOf(d, end, call)
      BY <1>1, <3>1 DEF Inv, AllOwned
    <3> QED BY <3>1, <3>2 DEF OwnerOf, Owned, Live
  <2>2. ASSUME NEW d \in Owned PROVE d \in Sockets \ {0}
    <3>1. d # 0 /\ OwnerOf(d, end, call)
      BY <2>2 DEF OwnerOf, Owned, Live
    <3>2. d \in Descriptors /\ descriptor[d].use = "socket"
      BY <1>1, <3>1, HandlesAreSockets DEF OwnerOf
    <3> QED BY <3>1, <3>2 DEF Sockets
  <2>3. \A e, f \in Live : end[e].handle = end[f].handle /\ e # f => end[e].handle = 0
    BY <1>1 DEF Inv, EndsApart, Live
  <2>4. Sockets \ {0} = Owned
    BY <2>1, <2>2
  <2> QED BY <2>3, <2>4 DEF SocketsOwned
<1>2. Inv => SocketsOwned
  BY <1>1
<1> QED BY <1>2, EndpointInvariant, PTL

\* Every live object has a bound socket of its type that does not block, or is
\* in the simulator without one, and a client knows its port
\* (netcode.c:489-590, 2514).
THEOREM ObjectsAreReady == Spec => []LiveObjectsReady
<1>1. ASSUME Inv PROVE LiveObjectsReady
  <2> SUFFICES ASSUME NEW e \in Live
               PROVE  LET o == end[e]
                          s == descriptor[o.handle]
                      IN  IF o.simulator THEN o.handle = 0
                          ELSE /\ o.handle # 0 /\ s.use = "socket" /\ s.type = o.type
                               /\ {"sndbuf", "rcvbuf", "nonblocking"} \subseteq s.options
                               /\ o.type = IPV6 => "v6only" \in s.options
                               /\ s.port # 0
                               /\ o.kind = "client" \/ o.port # 0 => o.port = s.port
    BY DEF LiveObjectsReady
  <2> DEFINE o == end[e]
             s == descriptor[o.handle]
  <2>1. o \in EndRecords /\ EndFits(o, descriptor)
    BY <1>1, HandlesAreSockets DEF Live
  <2>2. o.simulator \in BOOLEAN
    BY <2>1 DEF EndRecords
  <2>3. CASE o.simulator = TRUE
    BY <2>1, <2>3 DEF EndFits
  <2>4. CASE o.simulator = FALSE
    <3>1. /\ o.handle # 0 /\ SocketAt(s, "allocate", o.type)
          /\ o.kind = "client" \/ o.port # 0 => o.port = s.port
      BY <2>1, <2>4 DEF EndFits
    <3>2. /\ {"sndbuf", "rcvbuf", "nonblocking"} \subseteq SetAt("allocate", o.type)
          /\ o.type = IPV6 => "v6only" \in SetAt("allocate", o.type)
          /\ BoundAt("allocate")
      BY DEF SetAt, BoundAt
    <3>3. /\ s.use = "socket" /\ s.type = o.type /\ s.port # 0
          /\ SetAt("allocate", o.type) \subseteq s.options
      BY <3>1, <3>2 DEF SocketAt
    <3> HIDE DEF s, o
    <3>4. /\ {"sndbuf", "rcvbuf", "nonblocking"} \subseteq s.options
          /\ o.type = IPV6 => "v6only" \in s.options
      BY <3>2, <3>3
    <3> QED BY <2>4, <3>1, <3>3, <3>4 DEF s, o
  <2> QED BY <2>2, <2>3, <2>4
<1>2. Inv => LiveObjectsReady
  BY <1>1
<1> QED BY <1>2, EndpointInvariant, PTL
=============================================================================

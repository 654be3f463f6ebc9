----------------------------- MODULE Endpoints -----------------------------
(***************************************************************************)
(* The life of a client or server object and of its socket: netcode_init   *)
(* and netcode_term, netcode_socket_create with every system call that may *)
(* fail on the way (netcode.c:377-720), the create functions around it and *)
(* the destroy functions (2451-2575, 3535-3671), and the datagrams that    *)
(* wait in a socket until an update reads them.                            *)
(*                                                                         *)
(* netcode is called by one thread; a create is taken apart into its       *)
(* system calls because other threads of the application open and close    *)
(* descriptors, and other programs take ports, in between.                 *)
(***************************************************************************)
EXTENDS Integers, Sequences, FiniteSetsExt

CONSTANTS
    Ends,               \* the client and server objects the application makes
    MaxDescriptor,      \* bound: the largest file descriptor
    Ports,              \* the ports of the machine, without 0
    NoEnd, NoCall,
    MaxWaiting,         \* datagrams a socket's receive buffer holds
    MaxArrivals         \* bound: datagrams that arrive

VARIABLES
    initialized,        \* netcode.initialized
    descriptor,         \* the descriptors of the process
    end,                \* the live objects
    call,               \* the create call in progress
    arrivals            \* datagrams that arrived so far

vars == <<initialized, descriptor, end, call, arrivals>>

Descriptors == 0 .. MaxDescriptor

IPV4 == 1
IPV6 == 2

\* What netcode_parse_address returns for a text it accepts; the host is left
\* out, for others the create functions return without a trace.
BindAddresses == [type : {IPV4, IPV6}, port : Ports \cup {0}]

\* The objects, and the create calls on their way.
EndRecords ==
    [kind : {"client", "server"}, simulator : BOOLEAN, handle : Descriptors,
     type : {IPV4, IPV6}, port : Ports \cup {0}]

CallRecords ==
    [end : Ends, kind : {"client", "server"}, address : BindAddresses,
     simulator : BOOLEAN, handle : Descriptors, port : Ports \cup {0},
     step : {"socket", "v6only", "sndbuf", "rcvbuf", "bind", "sockname",
             "nonblocking", "allocate"}]

ASSUME EndpointAssumption ==
    /\ MaxDescriptor \in Nat
    /\ Ports \subseteq Nat \ {0}
    /\ {MaxWaiting, MaxArrivals} \subseteq Nat
    /\ NoEnd \notin EndRecords /\ NoCall \notin CallRecords

\* A descriptor is free, of another part of the program, or a socket.
Free == [use |-> "free"]
Foreign == [use |-> "foreign"]
NewSocket(type) ==
    [use |-> "socket", type |-> type, options |-> {}, port |-> 0, waiting |-> <<>>]

Sockets == {d \in Descriptors : descriptor[d].use = "socket"}
FreeDescriptors == {d \in Descriptors : descriptor[d] = Free}

\* Descriptor 0 is standard input, until somebody closes it.
Init ==
    /\ initialized = FALSE
    /\ descriptor = [d \in Descriptors |-> IF d = 0 THEN Foreign ELSE Free]
    /\ end = [e \in Ends |-> NoEnd]
    /\ call = NoCall
    /\ arrivals = 0

-----------------------------------------------------------------------------
(* netcode_init, netcode_term.  The application destroys its objects first *)
(* (netcode_socket_destroy asserts that netcode is initialized).           *)

NetcodeInit ==
    /\ ~initialized
    /\ initialized' = TRUE
    /\ UNCHANGED <<descriptor, end, call, arrivals>>

NetcodeTerm ==
    /\ initialized /\ call = NoCall
    /\ \A e \in Ends : end[e] = NoEnd
    /\ initialized' = FALSE
    /\ UNCHANGED <<descriptor, end, call, arrivals>>

-----------------------------------------------------------------------------
(* netcode_socket_create.                                                  *)

\* Mutant of SocketDestroyed: the handle is forgotten, not closed.
SocketForgotten(handle) == descriptor

\* netcode_socket_destroy: handle 0 stands for no socket.
SocketDestroyed(handle) ==
    IF handle # 0 THEN [descriptor EXCEPT ![handle] = Free] ELSE descriptor

\* Every failure closes the socket and leaves the caller with nothing.
Fail ==
    /\ descriptor' = SocketDestroyed(call.handle)
    /\ call' = NoCall
    /\ UNCHANGED <<initialized, end, arrivals>>

\* The step that follows a step, for an address.
After(step, a) ==
    CASE step = "socket"      -> IF a.type = IPV6 THEN "v6only" ELSE "sndbuf"
      [] step = "v6only"      -> "sndbuf"
      [] step = "sndbuf"      -> "rcvbuf"
      [] step = "rcvbuf"      -> "bind"
      [] step = "bind"        -> IF a.port = 0 THEN "sockname" ELSE "nonblocking"
      [] step = "sockname"    -> "nonblocking"
      [] step = "nonblocking" -> "allocate"

Advanced == [call EXCEPT !.step = After(@, call.address)]

\* netcode_client_create_internal and netcode_server_create_internal, up to
\* the socket.  A simulated client needs a port.
Create(e, kind, a, simulator) ==
    /\ initialized /\ call = NoCall /\ end[e] = NoEnd
    /\ simulator /\ kind = "client" => a.port # 0
    /\ call' = [end |-> e, kind |-> kind, address |-> a, simulator |-> simulator,
                handle |-> 0, port |-> a.port,
                step |-> IF simulator THEN "allocate" ELSE "socket"]
    /\ UNCHANGED <<initialized, descriptor, end, arrivals>>

\* socket() returns the lowest free descriptor or fails.  Descriptor 0 is
\* taken for a failure, and nobody closes it.
OpenSocket ==
    LET d == Min(FreeDescriptors)
    IN  /\ call # NoCall /\ call.step = "socket"
        /\ \/ /\ FreeDescriptors # {}
              /\ descriptor' = [descriptor EXCEPT ![d] = NewSocket(call.address.type)]
              /\ call' = IF d = 0 THEN NoCall ELSE [Advanced EXCEPT !.handle = d]
           \/ call' = NoCall /\ UNCHANGED descriptor
        /\ UNCHANGED <<initialized, end, arrivals>>

\* Mutant of WithOption: the option is not set.
WithoutOption(s, option) == s

WithOption(s, option) == [s EXCEPT !.options = @ \cup {option}]

\* The three calls of setsockopt and the one of fcntl.
SetOption ==
    /\ call # NoCall /\ call.step \in {"v6only", "sndbuf", "rcvbuf", "nonblocking"}
    /\ \/ /\ descriptor' = [descriptor EXCEPT ![call.handle] = WithOption(@, call.step)]
          /\ call' = Advanced
          /\ UNCHANGED <<initialized, end, arrivals>>
       \/ Fail

\* bind() (external): a port is taken for sockets of its own type, and for all
\* when one of the two sockets serves both types; 0 asks for any port.
Taken(s, port) ==
    \E d \in Sockets :
        LET other == descriptor[d]
            both(x) == x.type = IPV6 /\ "v6only" \notin x.options
        IN  other.port = port /\ (other.type = s.type \/ both(other) \/ both(s))

Bind ==
    LET s == descriptor[call.handle]
    IN  /\ call # NoCall /\ call.step = "bind"
        /\ \/ /\ \E p \in IF call.address.port = 0 THEN Ports ELSE {call.address.port} :
                   /\ ~Taken(s, p)
                   /\ descriptor' = [descriptor EXCEPT ![call.handle].port = p]
              /\ call' = Advanced
              /\ UNCHANGED <<initialized, end, arrivals>>
           \/ Fail

\* getsockname()
GetSockName ==
    /\ call # NoCall /\ call.step = "sockname"
    /\ \/ /\ call' = [Advanced EXCEPT !.port = descriptor[call.handle].port]
          /\ UNCHANGED <<initialized, descriptor, end, arrivals>>
       \/ Fail

\* The object.  A client's address has the port of its socket, a server's is
\* the one it was asked for.
Allocate ==
    /\ call # NoCall /\ call.step = "allocate"
    /\ \/ /\ end' = [end EXCEPT ![call.end] =
                       [kind |-> call.kind, simulator |-> call.simulator,
                        handle |-> call.handle, type |-> call.address.type,
                        port |-> IF call.kind = "client" THEN call.port
                                                         ELSE call.address.port]]
          /\ call' = NoCall
          /\ UNCHANGED <<initialized, descriptor, arrivals>>
       \/ Fail

\* netcode_client_destroy, netcode_server_destroy
Destroy(e) ==
    /\ initialized /\ call = NoCall /\ end[e] # NoEnd
    /\ descriptor' = SocketDestroyed(end[e].handle)
    /\ end' = [end EXCEPT ![e] = NoEnd]
    /\ UNCHANGED <<initialized, call, arrivals>>

-----------------------------------------------------------------------------
(* Datagrams: TRUE has contents, FALSE is empty.                           *)

Deliver(d, contents) ==
    /\ Len(descriptor[d].waiting) < MaxWaiting /\ arrivals < MaxArrivals
    /\ descriptor' = [descriptor EXCEPT ![d].waiting = Append(@, contents)]
    /\ arrivals' = arrivals + 1

\* netcode_socket_send_packet: sendto reaches a socket of the type that has the
\* port; its result is ignored.
Send(e, type, port) ==
    /\ call = NoCall /\ end[e] # NoEnd /\ ~end[e].simulator
    /\ type = descriptor[end[e].handle].type
    /\ \E d \in Sockets :
         /\ descriptor[d].type = type /\ descriptor[d].port = port
         /\ Deliver(d, TRUE)
    /\ UNCHANGED <<initialized, end, call>>

\* A datagram of another program (external).
Arrive(d) ==
    /\ descriptor[d].port # 0
    /\ \E contents \in BOOLEAN : Deliver(d, contents)
    /\ UNCHANGED <<initialized, end, call>>

\* Mutant of Unread: the loop leaves the empty datagram in the buffer.
UnreadWithEmpty(waiting) ==
    LET empty == {i \in DOMAIN waiting : ~waiting[i]}
    IN  IF empty = {} THEN <<>> ELSE SubSeq(waiting, Min(empty), Len(waiting))

\* The loop around netcode_socket_receive_packet: an empty datagram reads as
\* zero bytes, like an empty buffer, and ends the loop.
Unread(waiting) ==
    LET empty == {i \in DOMAIN waiting : ~waiting[i]}
    IN  IF empty = {} THEN <<>> ELSE SubSeq(waiting, Min(empty) + 1, Len(waiting))

\* netcode_client_update and netcode_server_update: recvfrom on an empty buffer
\* returns only when the socket does not block.
Update(e) ==
    LET s == descriptor[end[e].handle]
    IN  /\ call = NoCall /\ end[e] # NoEnd /\ ~end[e].simulator
        /\ "nonblocking" \in s.options \/ \E i \in DOMAIN s.waiting : ~s.waiting[i]
        /\ descriptor' = [descriptor EXCEPT ![end[e].handle].waiting = Unread(@)]
        /\ UNCHANGED <<initialized, end, call, arrivals>>

-----------------------------------------------------------------------------
(* The rest of the program.                                                *)

ForeignOpen ==
    /\ FreeDescriptors # {}
    /\ descriptor' = [descriptor EXCEPT ![Min(FreeDescriptors)] = Foreign]
    /\ UNCHANGED <<initialized, end, call, arrivals>>

ForeignClose(d) ==
    /\ descriptor[d] = Foreign
    /\ descriptor' = [descriptor EXCEPT ![d] = Free]
    /\ UNCHANGED <<initialized, end, call, arrivals>>

-----------------------------------------------------------------------------
Next ==
    \/ NetcodeInit \/ NetcodeTerm
    \/ \E e \in Ends, kind \in {"client", "server"}, a \in BindAddresses,
          simulator \in BOOLEAN : Create(e, kind, a, simulator)
    \/ OpenSocket \/ SetOption \/ Bind \/ GetSockName \/ Allocate
    \/ \E e \in Ends :
          \/ Destroy(e) \/ Update(e)
          \/ \E type \in {IPV4, IPV6}, port \in Ports : Send(e, type, port)
    \/ \E d \in Sockets : Arrive(d)
    \/ ForeignOpen
    \/ \E d \in Descriptors : ForeignClose(d)

Spec == Init /\ [][Next]_vars

\* The application updates every object it has, and a create call ends.
FairSpec ==
    /\ Spec
    /\ \A e \in Ends : SF_vars(Update(e))
    /\ WF_vars(OpenSocket \/ SetOption \/ Bind \/ GetSockName \/ Allocate)

-----------------------------------------------------------------------------
(* Properties.                                                             *)

Live == {e \in Ends : end[e] # NoEnd}

\* The sockets somebody will close: those of the live objects, and that of the
\* call in progress.
Owned ==
    ({end[e].handle : e \in Live} \cup (IF call = NoCall THEN {} ELSE {call.handle})) \ {0}

\* Whatever call fails, and however descriptors are reused, an open socket has
\* an owner (descriptor 0, which the code takes for an error, excepted), no two
\* objects share one, and no owner's handle has become something else, so that
\* closing it closes its own socket (netcode.c:443-455, 474-600, 2498-2502,
\* 3581-3585).
SocketsOwned ==
    /\ Sockets \ {0} = Owned
    /\ \A e, f \in Live : end[e].handle = end[f].handle /\ e # f => end[e].handle = 0

\* A live object is ready for use: in the simulator without a socket, otherwise
\* with one that is bound, does not block, has its buffers sized and, for IPv6,
\* leaves the IPv4 port alone; a client knows its port, also when it asked for
\* any (netcode.c:489-590, 2514).
LiveObjectsReady ==
    \A e \in Live :
        LET o == end[e]
            s == descriptor[o.handle]
        IN  IF o.simulator THEN o.handle = 0
            ELSE /\ o.handle # 0 /\ s.use = "socket" /\ s.type = o.type
                 /\ {"sndbuf", "rcvbuf", "nonblocking"} \subseteq s.options
                 /\ o.type = IPV6 => "v6only" \in s.options
                 /\ s.port # 0
                 /\ o.kind = "client" \/ o.port # 0 => o.port = s.port

\* Everything that arrives at an object is read in the end, although an empty
\* datagram stops the reading and a blocking socket would stop the program
\* (netcode.c:660-687, 2792-2794, 4310-4312).
ArrivedIsRead ==
    <>[](\A e \in Live : end[e].handle # 0 => descriptor[end[e].handle].waiting = <<>>)
=============================================================================

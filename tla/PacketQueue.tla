---------------------------- MODULE PacketQueue ----------------------------
(***************************************************************************)
(* netcode_packet_queue_t (netcode.c:2082-2158): a ring of pointers.  The  *)
(* slots outside the waiting part are never reset by a pop, so a pointer   *)
(* that was handed out stays behind in its slot.                           *)
(***************************************************************************)
EXTENDS Integers, Sequences

CONSTANTS
    QueueSize,          \* NETCODE_PACKET_QUEUE_SIZE
    Null                \* a null pointer

ASSUME QueueSizeAssumption == QueueSize \in Nat \ {0}

Slots == 0 .. QueueSize - 1

\* netcode_packet_queue_init
NewQueue == [num |-> 0, start |-> 0, data |-> [i \in Slots |-> Null]]

\* Mutant of PushIndex: the end of the array is the end of the queue.
PushIndexStuck(q) == IF q.start + q.num < QueueSize THEN q.start + q.num ELSE QueueSize - 1

PushIndex(q) == (q.start + q.num) % QueueSize

Full(q) == q.num = QueueSize

\* netcode_packet_queue_push, when not Full (a full queue frees the packet).
Pushed(q, x) == [q EXCEPT !.data[PushIndex(q)] = x, !.num = @ + 1]

\* netcode_packet_queue_pop
First(q) == q.data[q.start]

Popped(q) == [q EXCEPT !.start = (@ + 1) % QueueSize, !.num = @ - 1]

\* netcode_packet_queue_clear: the pointers it frees.  They are the waiting
\* ones only when the queue starts at index 0.
ClearFrees(q) == {q.data[i] : i \in 0 .. q.num - 1} \ {Null}

\* The packets waiting, first one first.
Waiting(q) == [i \in 1 .. q.num |-> q.data[(q.start + i - 1) % QueueSize]]
=============================================================================

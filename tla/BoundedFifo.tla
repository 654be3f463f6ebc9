---------------------------- MODULE BoundedFifo ----------------------------
(***************************************************************************)
(* What a packet queue promises: packets come out in the order in which    *)
(* they went in, a packet is refused only when Capacity of them are        *)
(* waiting, and clearing forgets all of them.                              *)
(***************************************************************************)
EXTENDS Naturals, Sequences

CONSTANTS Capacity, Items

VARIABLE fifo

Init == fifo = <<>>

Push == \E x \in Items : Len(fifo) < Capacity /\ fifo' = Append(fifo, x)
Pop == fifo # <<>> /\ fifo' = Tail(fifo)
Clear == fifo' = <<>>

Next == Push \/ Pop \/ Clear

Spec == Init /\ [][Next]_fifo
=============================================================================

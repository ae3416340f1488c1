---------------------------- MODULE BoundedFifo ----------------------------
(***************************************************************************)
(* What a bounded queue promises: packets leave in the order in which they *)
(* came, none is lost, none is duplicated, and there are never more than   *)
(* Limit of them.                                                          *)
(***************************************************************************)
EXTENDS Naturals, Sequences

CONSTANTS Packets, Limit

VARIABLE fifo

Init == fifo = <<>>

Put(p) == Len(fifo) < Limit /\ fifo' = Append(fifo, p)

Get == fifo # <<>> /\ fifo' = Tail(fifo)

Next == Get \/ \E p \in Packets : Put(p)

Spec == Init /\ [][Next]_fifo

=============================================================================

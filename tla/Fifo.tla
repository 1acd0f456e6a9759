-------------------------------- MODULE Fifo --------------------------------
(***************************************************************************)
(* What every queue of the library promises, whatever it is made of: items *)
(* leave in the order they entered, one at a time, and there are never     *)
(* more of them than the queue has room for.                               *)
(***************************************************************************)
EXTENDS Naturals, Sequences

CONSTANTS Items, Room

VARIABLE q

Init == q = <<>>

Put(x) == Len(q) < Room /\ q' = Append(q, x)

Take == q # <<>> /\ q' = Tail(q)

Next == Take \/ \E x \in Items : Put(x)

Spec == Init /\ [][Next]_q

=============================================================================

------------------------------ MODULE MCLlist ------------------------------
(* A linked list of up to four nodes, two values and an iterator.  Four   *)
(* nodes give a head, a tail and two inner nodes, so that every search,    *)
(* link and unlink happens at the front, in the middle and at the end, and *)
(* a cursor can stand on each of them while the others change.  Iterators  *)
(* keep no state in the list, so one stands for any number.                *)
EXTENDS Llist, TLC

CONSTANTS n1, n2, n3, n4, v1, v2, x1

MCNode == {n1, n2, n3, n4}
MCValue == {v1, v2}
MCIter == {x1}

(* Addresses and values are only compared for equality. *)
Symmetric == Permutations(MCNode) \cup Permutations(MCValue)
=============================================================================

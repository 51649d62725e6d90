------------------------------- MODULE MCDmap -------------------------------
(* A map of up to four keys, two values and an iterator.  Four keys give a *)
(* first, a last and two inner pairs.  There is a node for every key, and  *)
(* malloc hands out any free one, so addresses are reused while a stale    *)
(* cursor still holds them.  Iterators keep no state in the map, so one    *)
(* stands for any number.                                                  *)
EXTENDS Dmap, TLC

CONSTANTS n1, n2, n3, n4, k1, k2, k3, k4, v1, v2, x1

MCNode == {n1, n2, n3, n4}
MCKey == {k1, k2, k3, k4}
MCValue == {v1, v2}
MCIter == {x1}

(* Addresses, keys and values are only compared for equality. *)
Symmetric == Permutations(MCNode) \cup Permutations(MCKey)
             \cup Permutations(MCValue)
=============================================================================

----------------------------- MODULE MCJsonTree -----------------------------
EXTENDS JsonTree

CONSTANTS n1, n2, n3, n4, k1, k2, a1, a2

MCNode == {n1, n2, n3, n4}
MCKey == {k1, k2}
MCAtom == {a1, a2}
MCScalar == {"null", "number"}

(* Four nodes hold an object in a list in an object, or a copy of a pair;  *)
(* one refused key is enough to see its string stay.  Addresses, keys and  *)
(* values are only compared for equality.                                  *)
Symmetric == Permutations(MCNode) \cup Permutations(MCKey) \cup Permutations(MCAtom)
=============================================================================

------------------------------ MODULE MCVector ------------------------------
(* Vectors with steps of one, two and three slots and up to four values.   *)
(* With steps of one the block is resized by every call, with steps of two *)
(* or three it is filled, grown and shrunk again, and an insert meets it   *)
(* half full, full, and full with a step to spare.  One iterator, since    *)
(* iterators keep no state in the vector.                                  *)
EXTENDS Vector, TLC

CONSTANTS v1, v2, x1

MCValue == {v1, v2}
MCIter == {x1}
MCAlloc == 1 .. 3

Symmetric == Permutations(MCValue)
=============================================================================

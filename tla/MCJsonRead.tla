----------------------------- MODULE MCJsonRead -----------------------------
(***************************************************************************)
(* Every text of at most MaxInput characters with two keys, two levels,    *)
(* strings of two characters and numbers of three.  Eleven characters are  *)
(* the least that give an object the same key twice with a number behind   *)
(* it and its separator; each limit is met long before that.               *)
(***************************************************************************)
EXTENDS JsonRead

CONSTANTS k1, k2

MCKey == {k1, k2}
=============================================================================

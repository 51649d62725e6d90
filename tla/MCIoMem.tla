------------------------------ MODULE MCIoMem -------------------------------
(***************************************************************************)
(* A buffer of three bytes over an alphabet of two, with lengths and       *)
(* positions up to 4: every read, write and position falls short of the    *)
(* end, meets it and goes past it.                                         *)
(***************************************************************************)
EXTENDS IoMem

CONSTANTS x, y

MCByte == {x, y}
=============================================================================

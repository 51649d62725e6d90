----------------------------- MODULE StreamSpec -----------------------------
(***************************************************************************)
(* What the two ends of a byte stream may rely on (cosmic_io_write and     *)
(* cosmic_io_read of src/cosmic_io.c): the bytes that were taken from the  *)
(* writer arrive at the reader in their order, once, and none that was not *)
(* taken.  A positive answer is the number of bytes.  Any other answer to  *)
(* a read means that none came, but to a write it says nothing of how many *)
(* were taken; a write may be long, its bytes arriving before its answer.  *)
(***************************************************************************)
EXTENDS Integers, Sequences, SequencesExt

VARIABLES
  put,         (* the bytes taken from the writer                           *)
  got,         (* the bytes given to the reader                             *)
  base,        (* how many had been taken when the last write was answered  *)
  wans, rans   (* the last answers to a write and to a read                 *)

Init == put = <<>> /\ got = <<>> /\ base = 0

Write ==
  /\ IsPrefix(put, put')
  /\ UNCHANGED got
  /\ \/ base' = base /\ UNCHANGED wans
     \/ base' = Len(put') /\ (wans' > 0 => wans' = Len(put') - base)

Read ==
  /\ IsPrefix(got, got')
  /\ IsPrefix(got', put)
  /\ Len(got') = Len(got) + (IF rans' > 0 THEN rans' ELSE 0)
  /\ UNCHANGED <<put, base>>

Next == Write \/ Read

Step == [Next]_<<put, got, base, wans, rans>>

Spec == Init /\ [][Next]_<<put, got, base, wans, rans>>
=============================================================================

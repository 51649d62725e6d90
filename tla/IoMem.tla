------------------------------- MODULE IoMem --------------------------------
(***************************************************************************)
(* The memory stream of src/cosmic_io_mem.c: a buffer that belongs to the  *)
(* caller, a cursor for reads and one for writes.  Neither knows of the    *)
(* other: reads are bounded by the buffer, not by what has been written.   *)
(* Lengths are of type size_t and wrap around at Word.                     *)
(***************************************************************************)
EXTENDS Integers, Sequences, SequencesExt

CONSTANTS
  Byte,      (* what a byte may be                    *)
  BufLen,    (* len, the size of the buffer           *)
  Word,      (* the number of values of a size_t      *)
  OUTSIDE    (* what lies behind the buffer           *)

ASSUME IoMemAssumption ==
  /\ BufLen \in Nat /\ Word \in Nat /\ BufLen < Word
  /\ OUTSIDE \notin Byte

VARIABLES
  buf,       (* io->buf                                                     *)
  r, w,      (* io->r, io->w                                                *)
  ans,       (* the answer of the last call                                 *)
  put,       (* history: the bytes written since the write cursor was set   *)
  got,       (* history: the bytes read since the read cursor was set       *)
  overrun,   (* history: a write has gone past the end of the buffer        *)
  piped      (* history: no cursor was set, and reads kept behind writes    *)

memVars == <<buf, r, w, ans, put, got, overrun, piped>>

(* cosmic_io_mem_new; the buffer holds what the caller left in it. *)
MemInit ==
  /\ buf \in [1 .. BufLen -> Byte]
  /\ r = 0 /\ w = 0
  /\ ans = 0
  /\ put = <<>> /\ got = <<>>
  /\ overrun = FALSE
  /\ piped = TRUE

Room(pos) == (BufLen - pos) % Word

Fitting(pos, n) == IF Room(pos) < n THEN Room(pos) ELSE n

At(p) == IF p \in 1 .. BufLen THEN buf[p] ELSE OUTSIDE

Refuse == ans' = -1 /\ UNCHANGED <<buf, r, w, put, got, overrun, piped>>

(* k bytes behind pos are copied out, and the cursor goes behind them. *)
Fetch(pos, k) ==
  IF Room(pos) = 0 THEN Refuse
  ELSE /\ r' = pos + k
       /\ got' = got \o [i \in 1 .. k |-> At(pos + i)]
       /\ ans' = k
       /\ piped' = (piped /\ r' <= w)
       /\ UNCHANGED <<buf, w, put, overrun>>

(* Mutant: a read past the last byte starts over. *)
ReadAround(n) == LET pos == IF Room(r) = 0 THEN 0 ELSE r IN Fetch(pos, Fitting(pos, n))

MemRead(n) == Fetch(r, Fitting(r, n))

(* k bytes of s are copied to the place behind pos, and the cursor moves by move. *)
Copy(s, pos, k, move) ==
  IF Room(w) = 0 THEN Refuse
  ELSE /\ buf' = [p \in 1 .. BufLen |-> IF p \in pos + 1 .. pos + k THEN s[p - pos] ELSE buf[p]]
       /\ w' = w + move
       /\ put' = put \o SubSeq(s, 1, k)
       /\ ans' = k
       /\ overrun' = (overrun \/ pos + k > BufLen)
       /\ UNCHANGED <<r, got, piped>>

(* Mutant: every write goes to the start of the buffer. *)
WriteAtStart(s) == Copy(s, 0, Fitting(w, Len(s)), Fitting(w, Len(s)))

MemWrite(s) == Copy(s, w, Fitting(w, Len(s)), Fitting(w, Len(s)))

Rsetpos(p) ==
  IF p > BufLen THEN Refuse
  ELSE /\ r' = p
       /\ got' = <<>>
       /\ ans' = p
       /\ piped' = FALSE
       /\ UNCHANGED <<buf, w, put, overrun>>

WriteFrom(p) ==
  /\ w' = p
  /\ put' = <<>>
  /\ ans' = p
  /\ piped' = FALSE
  /\ UNCHANGED <<buf, r, got, overrun>>

(* Mutant: one position past the end is taken. *)
WsetposPast(p) == IF p > BufLen + 1 THEN Refuse ELSE WriteFrom(p)

Wsetpos(p) == IF p > BufLen THEN Refuse ELSE WriteFrom(p)

MemNext ==
  \/ \E n \in 0 .. Word - 1 : MemRead(n) \/ Rsetpos(n) \/ Wsetpos(n)
  \/ \E n \in 0 .. Word - 1 : \E s \in [1 .. n -> Byte] : MemWrite(s)

MemSpec == MemInit /\ [][MemNext]_memVars
-----------------------------------------------------------------------------
(* Every variable has its type; neither cursor leaves the buffer.          *)
MemTypeOK ==
  /\ buf \in [1 .. BufLen -> Byte]
  /\ r \in 0 .. BufLen /\ w \in 0 .. BufLen
  /\ ans \in -1 .. BufLen
  /\ put \in Seq(Byte) /\ got \in Seq(Byte)
  /\ overrun \in BOOLEAN /\ piped \in BOOLEAN

(* The unsigned subtraction of a cursor from len never wraps: no call      *)
(* copies from or to a place behind the buffer (:22, :43).                 *)
InsideBuffer ==
  /\ ~overrun
  /\ \A i \in DOMAIN got : got[i] # OUTSIDE

(* Whatever was written since the write cursor was set lies before it, in  *)
(* order, a write that did not fit included (:48).                         *)
Lasts == put = SubSeq(buf, w - Len(put) + 1, w)

(* As long as no cursor is set and no read overtakes the writes, the       *)
(* stream hands on what it was given.  A read that overtakes them is       *)
(* served from the old bytes of the buffer.                                *)
Pipe == INSTANCE StreamSpec WITH base <- Len(put), wans <- ans, rans <- ans
ActsAsPipe == [][piped' => Pipe!Next]_memVars
=============================================================================

------------------------------- MODULE Vector -------------------------------
(***************************************************************************)
(* The list of src/cosmic_vector.c: one block of slots, grown and shrunk   *)
(* by realloc in steps of alloc_size.                                      *)
(*                                                                         *)
(* block maps the offsets of the allocated slots to what they hold; cap is *)
(* their number.  A write outside is not stopped by anything: it sets      *)
(* overrun, and of a program that has done it nothing more is said.        *)
(* realloc either leaves the block where it is or moves it, and a pointer  *)
(* into a block that moved dangles.  malloc and realloc do not fail (the   *)
(* code does not handle it).                                               *)
(***************************************************************************)
EXTENDS Integers, Sequences

CONSTANTS
  Value,      (* the values a list holds (cosmic_any_t)                    *)
  Junk,       (* what malloc leaves in a slot                              *)
  NoValue,    (* the out parameter of a call that leaves it alone          *)
  Alloc,      (* the sizes a vector is created with                        *)
  MaxLen,     (* bound: a caller adds nothing to a vector of this length   *)
  Iter        (* the iterators a caller can hold at a time                 *)

(* A size of 0 is excluded: len % alloc_size is then undefined (:31, :49). *)
ASSUME VectorAssumption ==
  /\ Alloc \subseteq Nat \ {0}
  /\ MaxLen \in Nat
  /\ Junk \notin Value /\ NoValue \notin Value

VARIABLES
  alive,      (* the vector has been created and not freed                 *)
  alloc,      (* struct cosmic_list: alloc_size, len, block                *)
  len,
  block,
  cap,        (* the slots of the block, which the code does not keep      *)
  overrun,    (* a call wrote or read outside the block                    *)
  it,         (* struct cosmic_iterator: block and end, as offsets         *)
  changed,    (* history: iterators whose vector changed under them        *)
  ret         (* the last call and its answer                              *)

vars == <<alive, alloc, len, block, cap, overrun, it, changed, ret>>
vecVars == <<alive, alloc, len, block, cap, overrun>>

(* An iterator is closed, points into the block, or dangles. *)
Cursor(s, c, e) == [state |-> s, cur |-> c, end |-> e]
Closed == Cursor("closed", 0, 0)

Index == 0 .. MaxLen + 1
Answer(call, c, o) == [call |-> call, code |-> c, out |-> o]

Open == {x \in Iter : it[x].state # "closed"}

-----------------------------------------------------------------------------
Init ==
  /\ alive = TRUE
  /\ alloc \in Alloc
  /\ len = 0
  /\ cap = alloc
  /\ block = [j \in 0 .. alloc - 1 |-> Junk]
  /\ overrun = FALSE
  /\ it = [x \in Iter |-> Closed]
  /\ changed = {}
  /\ ret = Answer(<<"new">>, 0, NoValue)

(* realloc to c slots: what fits is kept, and the block may move.          *)
Realloc(c) ==
  /\ cap' = c
  /\ \E moved \in BOOLEAN :
       it' = IF moved THEN [x \in Iter |-> IF x \in Open THEN [it[x] EXCEPT !.state = "dangling"]
                                           ELSE it[x]]
             ELSE it

KeepBlock == cap' = cap /\ it' = it

Fail(call) ==
  /\ ret' = Answer(call, -1, NoValue)
  /\ UNCHANGED <<vecVars, it, changed>>

Size ==
  /\ alive
  /\ ret' = Answer(<<"size">>, len, NoValue)
  /\ UNCHANGED <<vecVars, it, changed>>

Get(i) ==
  /\ alive
  /\ IF i >= len THEN Fail(<<"get", i>>)
     ELSE /\ ret' = Answer(<<"get", i>>, 0, block[i])
          /\ UNCHANGED <<vecVars, it, changed>>

(* Iterators that had values to come can no longer tell which.             *)
Changed ==
  /\ changed' = changed \cup {x \in Open : it[x].cur # it[x].end}
  /\ UNCHANGED <<alive, alloc>>

(* Mutant: the block grows by a slot, not by a step. *)
GrowByOne(n) == IF n % alloc = 0 THEN Realloc(n + 1) ELSE KeepBlock

Grow(n) == IF n % alloc = 0 THEN Realloc(n + alloc) ELSE KeepBlock

(* Mutant: a block of one slot is not grown by the second value. *)
AddAfterTwo(o) ==
  /\ alive
  /\ len < MaxLen
  /\ IF len > 1 THEN Grow(len) ELSE KeepBlock
  /\ block' = [j \in 0 .. cap' - 1 |-> IF j = len THEN o
                                       ELSE IF j < cap THEN block[j] ELSE Junk]
  /\ overrun' = (len >= cap')
  /\ len' = len + 1
  /\ ret' = Answer(<<"add">>, len + 1, NoValue)
  /\ Changed

(* A full block is grown before the value is written behind the last one.  *)
Add(o) ==
  /\ alive
  /\ len < MaxLen
  /\ IF len # 0 THEN Grow(len) ELSE KeepBlock
  /\ block' = [j \in 0 .. cap' - 1 |-> IF j = len THEN o
                                       ELSE IF j < cap THEN block[j] ELSE Junk]
  /\ overrun' = (len >= cap')
  /\ len' = len + 1
  /\ ret' = Answer(<<"add">>, len + 1, NoValue)
  /\ Changed

(* The length is counted up first, and it is the new length that decides   *)
(* whether the block grows; then the values behind i move up.              *)
Insert(i, o) ==
  /\ alive
  /\ IF i > len THEN Fail(<<"insert", i>>)
     ELSE /\ len < MaxLen
          /\ Grow(len + 1)
          /\ block' = [j \in 0 .. cap' - 1 |->
                         IF j = i THEN o
                         ELSE IF i < j /\ j <= len THEN block[j - 1]
                         ELSE IF j < cap THEN block[j] ELSE Junk]
          /\ overrun' = (len >= cap')
          /\ len' = len + 1
          /\ ret' = Answer(<<"insert", i>>, 0, NoValue)
          /\ Changed

(* Mutant: the last value is not moved down. *)
RemoveShort(call, i) ==
  /\ alive
  /\ IF i >= len THEN Fail(call)
     ELSE /\ Grow(len - 1)
          /\ block' = [j \in 0 .. cap' - 1 |->
                         IF j >= cap THEN Junk
                         ELSE IF i <= j /\ j + 2 < len THEN block[j + 1] ELSE block[j]]
          /\ len' = len - 1
          /\ ret' = Answer(call, 0, block[i])
          /\ Changed
          /\ UNCHANGED overrun

(* The values behind i move down; the last slot keeps its old value.       *)
RemoveAt(call, i) ==
  /\ alive
  /\ IF i >= len THEN Fail(call)
     ELSE /\ Grow(len - 1)
          /\ block' = [j \in 0 .. cap' - 1 |->
                         IF j >= cap THEN Junk
                         ELSE IF i <= j /\ j + 1 < len THEN block[j + 1] ELSE block[j]]
          /\ len' = len - 1
          /\ ret' = Answer(call, 0, block[i])
          /\ Changed
          /\ UNCHANGED overrun

Remove(i) == RemoveAt(<<"remove", i>>, i)

(* pop takes the first value. *)
Pop == RemoveAt(<<"pop">>, 0)

Free ==
  /\ alive
  /\ alive' = FALSE
  /\ len' = 0
  /\ cap' = 0
  /\ block' = [j \in {} |-> Junk]
  /\ it' = [x \in Iter |-> IF x \in Open THEN [it[x] EXCEPT !.state = "dangling"]
                           ELSE it[x]]
  /\ changed' = changed \cup {x \in Open : it[x].cur # it[x].end}
  /\ ret' = Answer(<<"free">>, 0, NoValue)
  /\ UNCHANGED <<alloc, overrun>>

New ==
  /\ ~alive
  /\ alive' = TRUE
  /\ alloc' \in Alloc
  /\ len' = 0
  /\ cap' = alloc'
  /\ block' = [j \in 0 .. alloc' - 1 |-> Junk]
  /\ ret' = Answer(<<"new">>, 0, NoValue)
  /\ UNCHANGED <<overrun, it, changed>>

-----------------------------------------------------------------------------
(* Mutant: the end is the end of the block. *)
IterOpenToCap(x) ==
  /\ alive
  /\ x \notin Open
  /\ it' = [it EXCEPT ![x] = Cursor("live", 0, cap)]
  /\ ret' = Answer(<<"iterator", x>>, 0, NoValue)
  /\ UNCHANGED <<vecVars, changed>>

(* The iterator takes the bounds of the values of this moment.             *)
IterOpen(x) ==
  /\ alive
  /\ x \notin Open
  /\ it' = [it EXCEPT ![x] = Cursor("live", 0, len)]
  /\ ret' = Answer(<<"iterator", x>>, 0, NoValue)
  /\ UNCHANGED <<vecVars, changed>>

(* What is read through a cursor that dangles, or outside the block, or    *)
(* from a slot never written, can be anything.                             *)
Readable(x) ==
  /\ it[x].state = "live"
  /\ it[x].cur < cap
  /\ block[it[x].cur] # Junk

IterNext(x) ==
  /\ x \in Open
  /\ IF it[x].cur = it[x].end THEN Fail(<<"next", x>>)
     ELSE /\ \E o \in Value : /\ Readable(x) => o = block[it[x].cur]
                              /\ ret' = Answer(<<"next", x>>, 0, o)
          /\ it' = [it EXCEPT ![x].cur = @ + 1]
          /\ UNCHANGED <<vecVars, changed>>

(* The vtable of the vector has no next_pair (:105). *)
IterNextPair(x) == x \in Open /\ Fail(<<"next_pair", x>>)

IterHasNext(x) ==
  /\ x \in Open
  /\ ret' = Answer(<<"has_next", x>>, IF it[x].cur = it[x].end THEN 0 ELSE 1, NoValue)
  /\ UNCHANGED <<vecVars, it, changed>>

IterClose(x) ==
  /\ x \in Open
  /\ it' = [it EXCEPT ![x] = Closed]
  /\ changed' = changed \ {x}
  /\ ret' = Answer(<<"close", x>>, 0, NoValue)
  /\ UNCHANGED vecVars

Next ==
  /\ ~overrun
  /\ \/ Size \/ Pop \/ Free \/ New
     \/ \E o \in Value : Add(o)
     \/ \E i \in Index : Get(i) \/ Remove(i)
     \/ \E i \in Index, o \in Value : Insert(i, o)
     \/ \E x \in Iter : \/ IterOpen(x) \/ IterNext(x) \/ IterNextPair(x)
                        \/ IterHasNext(x) \/ IterClose(x)

Spec == Init /\ [][Next]_vars
-----------------------------------------------------------------------------
(* Every variable has its type.                                            *)
TypeOK ==
  /\ alive \in BOOLEAN
  /\ alloc \in Alloc
  /\ len \in 0 .. MaxLen
  /\ cap \in Nat
  /\ block \in [0 .. cap - 1 -> Value \cup {Junk}]
  /\ overrun \in BOOLEAN
  /\ it \in [Iter -> [state : {"closed", "live", "dangling"},
                      cur : 0 .. MaxLen, end : 0 .. MaxLen]]
  /\ changed \subseteq Iter
  /\ ret.code \in Int
  /\ ret.out \in Value \cup {NoValue}

(* The block has a whole number of steps, holds every value of the vector, *)
(* and none of them is a slot that was never written, unless a call has    *)
(* overrun it.                                                             *)
Capacity ==
  alive /\ ~overrun =>
    /\ cap % alloc = 0
    /\ len <= cap
    /\ \A j \in 0 .. len - 1 : block[j] # Junk

(* Only one call can overrun the block: an insert into a vector that has   *)
(* filled it exactly, by exactly one slot (:46-52).                        *)
OverrunOnlyByInsert ==
  overrun => /\ ret.call[1] = "insert"
             /\ alloc > 1
             /\ len = cap + 1
             /\ cap % alloc = 0

(* The bytes written by insert lie inside the block that                   *)
(* "Realloc to the block" (:48) has made room in.                          *)
InsideBlock == ~overrun

(* An iterator never runs past the end it was opened with, and one that    *)
(* has values to come from an unchanged vector points into them.           *)
Cursors ==
  /\ \A x \in Iter : it[x].cur <= it[x].end
  /\ changed \subseteq Open
  /\ \A x \in Open \ changed :
       it[x].cur = it[x].end \/ (it[x].state = "live" /\ it[x].end = len)

-----------------------------------------------------------------------------
(* The list a caller sees.                                                 *)
listBar == [k \in 1 .. len |-> block[k - 1]]

posBar ==
  [x \in Iter |-> IF x \notin Open THEN -2
                  ELSE IF x \in changed THEN -3
                  ELSE IF it[x].cur = it[x].end THEN -1
                  ELSE it[x].cur]

L == INSTANCE ListSpec WITH list <- listBar, pos <- posBar,
                            MaxIndex <- MaxLen + 1, Stable <- FALSE

(* Until it overruns its block the vector is a list whose iterators are    *)
(* good until the list changes.                                            *)
ListUntilOverrun == L!Init /\ [][overrun' \/ L!Next]_(L!vars)
=============================================================================

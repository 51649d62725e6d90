------------------------------ MODULE ListSpec ------------------------------
(***************************************************************************)
(* What a caller of include/cosmic/cosmic_list.h may rely on, whichever    *)
(* implementation stands behind the vtable: a list is a sequence of        *)
(* values, every call answers with a code and at most one value, and an    *)
(* iterator is a position in the sequence.  In the linked list it keeps    *)
(* pointing at the same element while others come and go (Stable); in the  *)
(* vector it is good for nothing once the list has changed.                *)
(*                                                                         *)
(* Positions count from 0, as the indices of the library do.  A position   *)
(* is one of three marks below zero when it points at no element.          *)
(***************************************************************************)
EXTENDS Integers, Sequences

CONSTANTS
  Value,      (* the values a list holds (cosmic_any_t)                    *)
  NoValue,    (* the out parameter of a call that leaves it alone          *)
  Stable,     (* whether iterators outlive changes to the list             *)
  Iter,       (* the iterators a caller can hold at a time                 *)
  MaxIndex    (* the largest index a caller passes                         *)

VARIABLES
  alive,      (* the list has been created and not freed                   *)
  list,       (* the elements, in order                                    *)
  pos,        (* where each iterator stands                                *)
  ret         (* the last call and its answer                              *)

vars == <<alive, list, pos, ret>>

Exhausted == -1   (* past the last element; it stays there                 *)
Closed    == -2   (* not open                                              *)
Invalid   == -3   (* its element was removed: it answers anything          *)

Index == 0 .. MaxIndex

(* What a call answers: a code and, where it has one, a value. *)
Answer(call, c, o) == [call |-> call, code |-> c, out |-> o]

InsertedAt(s, i, o) ==
  [k \in 1 .. Len(s) + 1 |->
     IF k <= i THEN s[k] ELSE IF k = i + 1 THEN o ELSE s[k - 1]]

RemovedAt(s, i) ==
  [k \in 1 .. Len(s) - 1 |-> IF k <= i THEN s[k] ELSE s[k + 1]]

(* The iterators that are not past the end, all struck. *)
Disturbed == [x \in Iter |-> IF pos[x] >= 0 THEN Invalid ELSE pos[x]]

Init ==
  /\ alive = TRUE
  /\ list = <<>>
  /\ pos = [x \in Iter |-> Closed]
  /\ ret = Answer(<<"new">>, 0, NoValue)

(* A call that is refused changes nothing but the answer. *)
Fail(call) ==
  /\ ret' = Answer(call, -1, NoValue)
  /\ UNCHANGED <<alive, list, pos>>

Size ==
  /\ alive
  /\ ret' = Answer(<<"size">>, Len(list), NoValue)
  /\ UNCHANGED <<alive, list, pos>>

Get(i) ==
  /\ alive
  /\ IF i < Len(list)
     THEN ret' = Answer(<<"get", i>>, 0, list[i + 1]) /\ UNCHANGED <<alive, list, pos>>
     ELSE Fail(<<"get", i>>)

(* A new element is seen by no iterator that is already exhausted. *)
Add(o) ==
  /\ alive
  /\ list' = Append(list, o)
  /\ pos' = IF Stable THEN pos ELSE Disturbed
  /\ ret' = Answer(<<"add">>, Len(list) + 1, NoValue)
  /\ UNCHANGED alive

(* The two implementations answer a successful insert differently: the     *)
(* linked list with the new length, the vector with 0.                     *)
Insert(i, o) ==
  /\ alive
  /\ IF i <= Len(list)
     THEN /\ list' = InsertedAt(list, i, o)
          /\ pos' = IF Stable
                    THEN [x \in Iter |-> IF pos[x] >= i THEN pos[x] + 1 ELSE pos[x]]
                    ELSE Disturbed
          /\ \E c \in {0, Len(list) + 1} : ret' = Answer(<<"insert", i>>, c, NoValue)
          /\ UNCHANGED alive
     ELSE Fail(<<"insert", i>>)

Take(call, i) ==
  IF i < Len(list)
  THEN /\ list' = RemovedAt(list, i)
       /\ pos' = IF Stable
                 THEN [x \in Iter |-> IF pos[x] = i THEN Invalid
                                     ELSE IF pos[x] > i THEN pos[x] - 1
                                     ELSE pos[x]]
                 ELSE Disturbed
       /\ ret' = Answer(call, 0, list[i + 1])
       /\ UNCHANGED alive
  ELSE Fail(call)

Remove(i) == alive /\ Take(<<"remove", i>>, i)

(* pop takes the first element. *)
Pop == alive /\ Take(<<"pop">>, 0)

(* Freeing the list hands every element back and strands the iterators.    *)
Free ==
  /\ alive
  /\ alive' = FALSE
  /\ list' = <<>>
  /\ pos' = Disturbed
  /\ ret' = Answer(<<"free">>, 0, NoValue)

New ==
  /\ ~alive
  /\ alive' = TRUE
  /\ ret' = Answer(<<"new">>, 0, NoValue)
  /\ UNCHANGED <<list, pos>>

IterOpen(x) ==
  /\ alive
  /\ pos[x] = Closed
  /\ pos' = [pos EXCEPT ![x] = IF list = <<>> THEN Exhausted ELSE 0]
  /\ ret' = Answer(<<"iterator", x>>, 0, NoValue)
  /\ UNCHANGED <<alive, list>>

(* The elements come in order, each once; after the last one every call    *)
(* is refused.                                                             *)
IterNext(x) ==
  \/ /\ pos[x] >= 0
     /\ ret' = Answer(<<"next", x>>, 0, list[pos[x] + 1])
     /\ pos' = [pos EXCEPT ![x] = IF pos[x] + 1 = Len(list) THEN Exhausted
                                  ELSE pos[x] + 1]
     /\ UNCHANGED <<alive, list>>
  \/ pos[x] = Exhausted /\ Fail(<<"next", x>>)
  \/ /\ pos[x] = Invalid
     /\ \/ Fail(<<"next", x>>)
        \/ /\ \E o \in Value : ret' = Answer(<<"next", x>>, 0, o)
           /\ UNCHANGED <<alive, list, pos>>

IterHasNext(x) ==
  /\ pos[x] # Closed
  /\ \E c \in {0, 1} :
       /\ pos[x] # Invalid => c = (IF pos[x] = Exhausted THEN 0 ELSE 1)
       /\ ret' = Answer(<<"has_next", x>>, c, NoValue)
  /\ UNCHANGED <<alive, list, pos>>

(* A list iterator has no pairs to give. *)
IterNextPair(x) == pos[x] # Closed /\ Fail(<<"next_pair", x>>)

IterClose(x) ==
  /\ pos[x] # Closed
  /\ pos' = [pos EXCEPT ![x] = Closed]
  /\ ret' = Answer(<<"close", x>>, 0, NoValue)
  /\ UNCHANGED <<alive, list>>

Next ==
  \/ Size \/ Pop \/ Free \/ New
  \/ \E o \in Value : Add(o)
  \/ \E i \in Index : Get(i) \/ Remove(i)
  \/ \E i \in Index, o \in Value : Insert(i, o)
  \/ \E x \in Iter : \/ IterOpen(x) \/ IterNext(x) \/ IterHasNext(x)
                     \/ IterNextPair(x) \/ IterClose(x)

Spec == Init /\ [][Next]_vars
=============================================================================

------------------------------ MODULE MapSpec ------------------------------
(***************************************************************************)
(* What a caller of include/cosmic/cosmic_map.h may rely on: a map holds   *)
(* at most one pair for a key, remembers the order in which its keys were  *)
(* added, and an iterator is a position in that order.                     *)
(*                                                                         *)
(* Keys are compared by the cosmic_cmp function of the caller; a member of *)
(* Key stands for all the keys that compare equal.                         *)
(***************************************************************************)
EXTENDS Integers, Sequences

CONSTANTS
  Key,        (* the keys, up to cmp                                       *)
  Value,      (* the values                                                *)
  NoValue,    (* the out parameter of a call that leaves it alone          *)
  Iter        (* the iterators a caller can hold at a time                 *)

VARIABLES
  alive,      (* the map has been created and not freed                    *)
  pairs,      (* its pairs, in the order their keys were added             *)
  pos,        (* where each iterator stands, counted from 0                *)
  ret         (* the last call and its answer                              *)

vars == <<alive, pairs, pos, ret>>

Exhausted == -1   (* past the last pair; it stays there                    *)
Closed    == -2   (* not open                                              *)
Invalid   == -3   (* its pair was removed: it answers anything             *)

Pair(k, v) == [k |-> k, v |-> v]
Has(k) == \E i \in DOMAIN pairs : pairs[i].k = k

(* What a call answers: a code and, where it has one, a key, value or pair. *)
Answer(call, c, o) == [call |-> call, code |-> c, out |-> o]

WithoutAt(s, j) ==
  [i \in 1 .. Len(s) - 1 |-> IF i < j THEN s[i] ELSE s[i + 1]]

Init ==
  /\ alive = TRUE
  /\ pairs = <<>>
  /\ pos = [x \in Iter |-> Closed]
  /\ ret = Answer(<<"new">>, 0, NoValue)

Keep(call, c, o) ==
  /\ ret' = Answer(call, c, o)
  /\ UNCHANGED <<alive, pairs, pos>>

Size == alive /\ Keep(<<"size">>, Len(pairs), NoValue)

Get(k) ==
  /\ alive
  /\ \/ \E i \in DOMAIN pairs : /\ pairs[i].k = k
                                /\ Keep(<<"get", k>>, 0, pairs[i].v)
     \/ ~Has(k) /\ Keep(<<"get", k>>, -1, NoValue)

(* A key that is there already is refused, and keeps its value and place.  *)
Add(k, v) ==
  /\ alive
  /\ \/ Has(k) /\ Keep(<<"add", k>>, -1, NoValue)
     \/ /\ ~Has(k)
        /\ pairs' = Append(pairs, Pair(k, v))
        /\ ret' = Answer(<<"add", k>>, Len(pairs) + 1, NoValue)
        /\ UNCHANGED <<alive, pos>>

(* The pair is handed back whole, and the others stay in order. *)
Remove(k) ==
  /\ alive
  /\ \/ \E j \in DOMAIN pairs :
          /\ pairs[j].k = k
          /\ pairs' = WithoutAt(pairs, j)
          /\ pos' = [x \in Iter |-> IF pos[x] = j - 1 THEN Invalid
                                    ELSE IF pos[x] >= j THEN pos[x] - 1
                                    ELSE pos[x]]
          /\ ret' = Answer(<<"remove", k>>, 0, pairs[j])
          /\ UNCHANGED alive
     \/ ~Has(k) /\ Keep(<<"remove", k>>, -1, NoValue)

Free ==
  /\ alive
  /\ alive' = FALSE
  /\ pairs' = <<>>
  /\ pos' = [x \in Iter |-> IF pos[x] >= 0 THEN Invalid ELSE pos[x]]
  /\ ret' = Answer(<<"free">>, 0, NoValue)

New ==
  /\ ~alive
  /\ alive' = TRUE
  /\ ret' = Answer(<<"new">>, 0, NoValue)
  /\ UNCHANGED <<pairs, pos>>

IterOpen(x) ==
  /\ alive
  /\ pos[x] = Closed
  /\ pos' = [pos EXCEPT ![x] = IF pairs = <<>> THEN Exhausted ELSE 0]
  /\ ret' = Answer(<<"iterator", x>>, 0, NoValue)
  /\ UNCHANGED <<alive, pairs>>

(* Both kinds of next advance; they differ in what they hand out, o, and   *)
(* in what they may hand out once the pair is gone.                        *)
Advance(x, call, o, anything) ==
  \/ /\ pos[x] >= 0
     /\ ret' = Answer(call, 0, o)
     /\ pos' = [pos EXCEPT ![x] = IF pos[x] + 1 = Len(pairs) THEN Exhausted
                                  ELSE pos[x] + 1]
     /\ UNCHANGED <<alive, pairs>>
  \/ pos[x] = Exhausted /\ Keep(call, -1, NoValue)
  \/ /\ pos[x] = Invalid
     /\ Keep(call, -1, NoValue) \/ \E a \in anything : Keep(call, 0, a)

IterNext(x) == Advance(x, <<"next", x>>, pairs[pos[x] + 1].k, Key)

IterNextPair(x) ==
  Advance(x, <<"next_pair", x>>, pairs[pos[x] + 1], [k : Key, v : Value])

IterHasNext(x) ==
  /\ pos[x] # Closed
  /\ \E c \in {0, 1} :
       /\ pos[x] # Invalid => c = (IF pos[x] = Exhausted THEN 0 ELSE 1)
       /\ Keep(<<"has_next", x>>, c, NoValue)

IterClose(x) ==
  /\ pos[x] # Closed
  /\ pos' = [pos EXCEPT ![x] = Closed]
  /\ ret' = Answer(<<"close", x>>, 0, NoValue)
  /\ UNCHANGED <<alive, pairs>>

Next ==
  \/ Size \/ Free \/ New
  \/ \E k \in Key : Get(k) \/ Remove(k)
  \/ \E k \in Key, v \in Value : Add(k, v)
  \/ \E x \in Iter : \/ IterOpen(x) \/ IterNext(x) \/ IterNextPair(x)
                     \/ IterHasNext(x) \/ IterClose(x)

Spec == Init /\ [][Next]_vars
=============================================================================

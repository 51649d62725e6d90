------------------------------- MODULE Llist --------------------------------
(***************************************************************************)
(* The linked list of src/cosmic_llist.c: nodes on a heap, each with the   *)
(* index it stands at, a head and a tail pointer and a cached length.      *)
(*                                                                         *)
(* heap maps the nodes that are allocated to their fields; malloc takes    *)
(* any node outside its domain, so a freed address may be given out again. *)
(* One call of the library is one step: it has no threads and no           *)
(* callbacks, and the calls of one caller interleave with open iterators.  *)
(* malloc does not fail (the code does not handle it); Node bounds the     *)
(* length of a list.                                                       *)
(***************************************************************************)
EXTENDS Integers, Sequences

CONSTANTS
  Node,       (* the addresses malloc can return for a node                *)
  Value,      (* the values a list holds (cosmic_any_t)                    *)
  Iter,       (* the iterators a caller can hold at a time                 *)
  NULL,       (* the null pointer                                          *)
  CLOSED,     (* an iterator that is not open                              *)
  NoValue,    (* the out parameter of a call that leaves it alone          *)
  MaxIndex    (* the largest index a caller passes                         *)

ASSUME LlistAssumption ==
  /\ MaxIndex \in Nat
  /\ NULL \notin Node
  /\ CLOSED \notin Node \cup {NULL}

VARIABLES
  alive,      (* the list has been created and not freed                   *)
  len,        (* struct cosmic_list: len, head, tail                       *)
  head,
  tail,
  heap,       (* allocated nodes: i, o, next                               *)
  it,         (* the cursor of every iterator                              *)
  stale,      (* history: open iterators whose node has been freed         *)
  ret         (* the last call and its answer                              *)

vars == <<alive, len, head, tail, heap, it, stale, ret>>
listVars == <<alive, len, head, tail, heap>>

Index == 0 .. MaxIndex
Pointer == Node \cup {NULL}

(* What a call answers: a code and, where it has one, a value. *)
Answer(call, c, o) == [call |-> call, code |-> c, out |-> o]

(***************************************************************************)
(* Walking the chain: the nodes reached from n along next, n included.     *)
(* They are the nodes in every set that holds n and is closed under next.  *)
(***************************************************************************)
Linked(S) == \A m \in S : heap[m].next \in S \cup {NULL}

Follow(n) ==
  IF n = NULL THEN {}
  ELSE {m \in DOMAIN heap :
          \A S \in SUBSET DOMAIN heap : n \in S /\ Linked(S) => m \in S}

(* The first node on the chain that carries index i. *)
Hits(i) == {n \in Follow(head) : heap[n].i = i}

GetNode(i) ==
  IF i >= len \/ Hits(i) = {} THEN NULL
  ELSE CHOOSE n \in Hits(i) : Hits(i) \subseteq Follow(n)

-----------------------------------------------------------------------------
Init ==
  /\ alive = TRUE
  /\ len = 0
  /\ head = NULL
  /\ tail = NULL
  /\ heap = [n \in {} |-> NULL]
  /\ it = [x \in Iter |-> CLOSED]
  /\ stale = {}
  /\ ret = Answer(<<"new">>, 0, NoValue)

Fail(call) ==
  /\ ret' = Answer(call, -1, NoValue)
  /\ UNCHANGED <<listVars, it, stale>>

Size ==
  /\ alive
  /\ ret' = Answer(<<"size">>, len, NoValue)
  /\ UNCHANGED <<listVars, it, stale>>

Get(i) ==
  /\ alive
  /\ IF GetNode(i) = NULL THEN Fail(<<"get", i>>)
     ELSE /\ ret' = Answer(<<"get", i>>, 0, heap[GetNode(i)].o)
          /\ UNCHANGED <<listVars, it, stale>>

AddNode(call, o) ==
  /\ \E n \in Node \ DOMAIN heap :
       /\ heap' = [m \in DOMAIN heap \cup {n} |->
                     IF m = n THEN [i |-> len, o |-> o, next |-> NULL]
                     ELSE IF head # NULL /\ m = tail
                          THEN [heap[m] EXCEPT !.next = n]
                          ELSE heap[m]]
       /\ head' = IF head = NULL THEN n ELSE head
       /\ tail' = n
  /\ len' = len + 1
  /\ ret' = Answer(call, len + 1, NoValue)
  /\ UNCHANGED <<alive, it, stale>>

Add(o) == alive /\ AddNode(<<"add">>, o)

(* Mutant: the tail check is left out, as if every insert were inner. *)
LinkAfterNoTailCheck(prev, n, i, o) ==
  LET after == IF prev = NULL THEN head ELSE heap[prev].next
  IN  /\ heap' = [m \in DOMAIN heap \cup {n} |->
                    IF m = n THEN [i |-> i, o |-> o, next |-> after]
                    ELSE [i |-> IF m \in Follow(after) THEN heap[m].i + 1
                                ELSE heap[m].i,
                          o |-> heap[m].o,
                          next |-> IF m = prev THEN n ELSE heap[m].next]]
      /\ head' = IF prev = NULL THEN n ELSE head
      /\ UNCHANGED tail

(* Link a new node n behind prev, in front when prev is null, and move the *)
(* index of every node after it one up.                                    *)
LinkAfter(prev, n, i, o) ==
  LET after == IF prev = NULL THEN head ELSE heap[prev].next
  IN  /\ heap' = [m \in DOMAIN heap \cup {n} |->
                    IF m = n THEN [i |-> i, o |-> o, next |-> after]
                    ELSE [i |-> IF m \in Follow(after) THEN heap[m].i + 1
                                ELSE heap[m].i,
                          o |-> heap[m].o,
                          next |-> IF m = prev THEN n ELSE heap[m].next]]
      /\ head' = IF prev = NULL THEN n ELSE head
      /\ tail' = IF prev = tail THEN n ELSE tail

Insert(i, o) ==
  /\ alive
  /\ IF i > len THEN Fail(<<"insert", i>>)
     ELSE IF i = 0 /\ head = NULL THEN AddNode(<<"insert", i>>, o)
     ELSE /\ \E n \in Node \ DOMAIN heap :
               LinkAfter(IF i = 0 THEN NULL ELSE GetNode(i - 1), n, i, o)
          /\ len' = len + 1
          /\ ret' = Answer(<<"insert", i>>, len + 1, NoValue)
          /\ UNCHANGED <<alive, it, stale>>

(* Mutant: the nodes behind n keep their index. *)
UnlinkNoDecrement(prev, n) ==
  /\ heap' = [m \in DOMAIN heap \ {n} |->
                [heap[m] EXCEPT !.next = IF m = prev THEN heap[n].next ELSE @]]
  /\ head' = IF prev = NULL THEN heap[n].next ELSE head
  /\ tail' = IF n = tail THEN prev ELSE tail

(* Unlink n, the node behind prev or the first one, move the index of the  *)
(* nodes from n on one down and free n.                                    *)
Unlink(prev, n) ==
  /\ heap' = [m \in DOMAIN heap \ {n} |->
                [i |-> IF m \in Follow(n) THEN heap[m].i - 1 ELSE heap[m].i,
                 o |-> heap[m].o,
                 next |-> IF m = prev THEN heap[n].next ELSE heap[m].next]]
  /\ head' = IF prev = NULL THEN heap[n].next ELSE head
  /\ tail' = IF n = tail THEN prev ELSE tail

RemoveNode(call, i) ==
  IF i >= len THEN Fail(call)
  ELSE LET prev == IF i = 0 THEN NULL ELSE GetNode(i - 1)
           n    == IF i = 0 THEN head ELSE heap[prev].next
       IN  /\ Unlink(prev, n)
           /\ len' = len - 1
           /\ ret' = Answer(call, 0, heap[n].o)
           /\ stale' = stale \cup {x \in Iter : it[x] = n}
           /\ UNCHANGED <<alive, it>>

Remove(i) == alive /\ RemoveNode(<<"remove", i>>, i)

Pop == alive /\ RemoveNode(<<"pop">>, 0)

(* cosmic_llist_free pops and deallocates until the list is empty.         *)
Free ==
  /\ alive
  /\ alive' = FALSE
  /\ len' = 0
  /\ head' = NULL
  /\ tail' = NULL
  /\ heap' = [m \in DOMAIN heap \ Follow(head) |-> heap[m]]
  /\ stale' = stale \cup {x \in Iter : it[x] \in Follow(head)}
  /\ ret' = Answer(<<"free">>, 0, NoValue)
  /\ UNCHANGED it

New ==
  /\ ~alive
  /\ alive' = TRUE
  /\ len' = 0
  /\ head' = NULL
  /\ tail' = NULL
  /\ ret' = Answer(<<"new">>, 0, NoValue)
  /\ UNCHANGED <<heap, it, stale>>

-----------------------------------------------------------------------------
IterOpen(x) ==
  /\ alive
  /\ it[x] = CLOSED
  /\ it' = [it EXCEPT ![x] = head]
  /\ ret' = Answer(<<"iterator", x>>, 0, NoValue)
  /\ UNCHANGED <<listVars, stale>>

(* Mutant: the cursor is left where it is by the call that reads it. *)
IterNextNoAdvance(x) ==
  /\ it[x] # CLOSED
  /\ x \notin stale
  /\ IF it[x] = NULL THEN Fail(<<"next", x>>)
     ELSE /\ ret' = Answer(<<"next", x>>, 0, heap[it[x]].o)
          /\ UNCHANGED <<listVars, it, stale>>

(* Reading through the cursor. *)
IterNext(x) ==
  /\ it[x] # CLOSED
  /\ x \notin stale
  /\ IF it[x] = NULL THEN Fail(<<"next", x>>)
     ELSE /\ ret' = Answer(<<"next", x>>, 0, heap[it[x]].o)
          /\ it' = [it EXCEPT ![x] = heap[it[x]].next]
          /\ UNCHANGED <<listVars, stale>>

(* The node under the cursor has been freed: reading it is undefined, and  *)
(* the call answers with any value, or with none.                          *)
IterNextStale(x) ==
  /\ x \in stale
  /\ \/ Fail(<<"next", x>>)
     \/ /\ \E o \in Value : ret' = Answer(<<"next", x>>, 0, o)
        /\ UNCHANGED <<listVars, it, stale>>

(* Once a stale cursor has moved it is anything, so both answers occur.    *)
IterHasNext(x) ==
  /\ it[x] # CLOSED
  /\ \E c \in {0, 1} :
       /\ x \notin stale => c = (IF it[x] = NULL THEN 0 ELSE 1)
       /\ ret' = Answer(<<"has_next", x>>, c, NoValue)
  /\ UNCHANGED <<listVars, it, stale>>

(* The vtable entry next_pair of a list iterator is null. *)
IterNextPair(x) == it[x] # CLOSED /\ Fail(<<"next_pair", x>>)

IterClose(x) ==
  /\ it[x] # CLOSED
  /\ it' = [it EXCEPT ![x] = CLOSED]
  /\ stale' = stale \ {x}
  /\ ret' = Answer(<<"close", x>>, 0, NoValue)
  /\ UNCHANGED listVars

Next ==
  \/ Size \/ Pop \/ Free \/ New
  \/ \E o \in Value : Add(o)
  \/ \E i \in Index : Get(i) \/ Remove(i)
  \/ \E i \in Index, o \in Value : Insert(i, o)
  \/ \E x \in Iter : \/ IterOpen(x) \/ IterNext(x) \/ IterNextStale(x)
                     \/ IterHasNext(x) \/ IterNextPair(x) \/ IterClose(x)

Spec == Init /\ [][Next]_vars
-----------------------------------------------------------------------------
(* Every variable has its type: the heap is a function on the allocated    *)
(* nodes, and a cursor is a pointer or closed.                             *)
TypeOK ==
  /\ alive \in BOOLEAN
  /\ len \in Nat
  /\ head \in Pointer
  /\ tail \in Pointer
  /\ DOMAIN heap \subseteq Node
  /\ heap \in [DOMAIN heap -> [i : Nat, o : Value, next : Pointer]]
  /\ it \in [Iter -> Pointer \cup {CLOSED}]
  /\ stale \subseteq Iter
  /\ ret.code \in Int /\ ret.out \in Value \cup {NoValue}

(* The indices kept in the nodes are 0 .. len - 1, each in one node.       *)
Indexed ==
  /\ \A n \in DOMAIN heap : heap[n].i < len
  /\ \A m, n \in DOMAIN heap : heap[m].i = heap[n].i => m = n
  /\ \A k \in 0 .. len - 1 : \E n \in DOMAIN heap : heap[n].i = k

(* next leads to the node with the next index and is null at the tail.     *)
Chained ==
  \A n \in DOMAIN heap :
    IF n = tail THEN heap[n].next = NULL
    ELSE heap[n].next \in DOMAIN heap /\ heap[heap[n].next].i = heap[n].i + 1

(* head and tail are allocated, and null together on the empty list only;  *)
(* the list that does not exist holds no node.                             *)
Ends ==
  /\ head \in DOMAIN heap \/ (head = NULL /\ DOMAIN heap = {})
  /\ tail \in DOMAIN heap \/ (tail = NULL /\ DOMAIN heap = {})
  /\ head # NULL => heap[head].i = 0
  /\ tail # NULL => heap[tail].i = len - 1
  /\ DOMAIN heap = {} => len = 0
  /\ ~alive => DOMAIN heap = {}

(* An open cursor whose node has not been freed is null or an allocated    *)
(* node, and only an open one can be stale.                                *)
Cursors ==
  /\ \A x \in Iter \ stale : it[x] \in DOMAIN heap \cup {NULL, CLOSED}
  /\ \A x \in stale : it[x] \in Node

(* The shape of the list (cosmic_llist.c): what add, insert and remove     *)
(* have to restore, whatever calls came before.                            *)
Shape == Indexed /\ Chained /\ Ends /\ Cursors

(* Following next from the head meets every allocated node, and every call *)
(* that searches by index (cosmic_llist_get_node, :34-46) finds one node   *)
(* for an index below len: nothing is lost or leaked by relinking, and     *)
(* insert and remove never go through a null prev (:91, :125).             *)
NothingLost ==
  /\ Follow(head) = DOMAIN heap
  /\ \A k \in 0 .. len - 1 : GetNode(k) # NULL /\ heap[GetNode(k)].i = k

-----------------------------------------------------------------------------
(* The list a caller sees: the values by index, and where a cursor stands. *)
At(k) == CHOOSE n \in DOMAIN heap : heap[n].i = k

listBar == [k \in 1 .. len |-> heap[At(k - 1)].o]

posBar ==
  [x \in Iter |-> IF it[x] = CLOSED THEN -2
                  ELSE IF x \in stale THEN -3
                  ELSE IF it[x] = NULL THEN -1
                  ELSE heap[it[x]].i]

L == INSTANCE ListSpec WITH list <- listBar, pos <- posBar, Stable <- TRUE

(* The linked list is a list: every call does to the sequence of values,   *)
(* to the iterators and to the answer what ListSpec says.                  *)
ImplementsList == L!Spec
=============================================================================

-------------------------------- MODULE Dmap --------------------------------
(***************************************************************************)
(* The map of src/cosmic_dmap.c: a doubly linked chain of nodes, searched  *)
(* from the head with the comparison of the caller.                        *)
(*                                                                         *)
(* heap maps the nodes that are allocated to their fields; malloc takes    *)
(* any node outside its domain and does not fail (the code does not handle *)
(* it).  Keys that compare equal are one member of Key, so cmp is equality.*)
(* order is a history variable: the nodes in the order they were added.    *)
(***************************************************************************)
EXTENDS Integers, Sequences

CONSTANTS
  Node,       (* the addresses malloc can return for a node                *)
  Key,        (* the keys, up to cmp                                       *)
  Value,      (* the values                                                *)
  Iter,       (* the iterators a caller can hold at a time                 *)
  NULL,       (* the null pointer                                          *)
  CLOSED,     (* an iterator that is not open                              *)
  NoValue     (* the out parameter of a call that leaves it alone          *)

ASSUME DmapAssumption ==
  /\ NULL \notin Node
  /\ CLOSED \notin Node \cup {NULL}

VARIABLES
  alive,      (* the map has been created and not freed                    *)
  len,        (* struct cosmic_map: len, head, tail                        *)
  head,
  tail,
  heap,       (* allocated nodes: k, v, next, prev                         *)
  order,      (* history: the nodes of the map, oldest first               *)
  it,         (* the cursor of every iterator                              *)
  stale,      (* history: open iterators whose node has been freed         *)
  ret         (* the last call and its answer                              *)

vars == <<alive, len, head, tail, heap, order, it, stale, ret>>
mapVars == <<alive, len, head, tail, heap, order>>

Pointer == Node \cup {NULL}
NodeRecord == [k : Key, v : Value, next : Pointer, prev : Pointer]

Pair(k, v) == [k |-> k, v |-> v]
Answer(call, c, o) == [call |-> call, code |-> c, out |-> o]

(* The nodes met from n along next: those in every set that holds n and    *)
(* the successors of its members.                                          *)
Linked(S) == \A m \in S : heap[m].next \in S \cup {NULL}

Follow(n) ==
  IF n = NULL THEN {}
  ELSE {m \in DOMAIN heap :
          \A S \in SUBSET DOMAIN heap : n \in S /\ Linked(S) => m \in S}

(* The first node on the chain with key k. *)
Hits(k) == {n \in Follow(head) : heap[n].k = k}

GetNode(k) ==
  IF len = 0 \/ head = NULL \/ Hits(k) = {} THEN NULL
  ELSE CHOOSE n \in Hits(k) : Hits(k) \subseteq Follow(n)

-----------------------------------------------------------------------------
Init ==
  /\ alive = TRUE
  /\ len = 0
  /\ head = NULL
  /\ tail = NULL
  /\ heap = [n \in {} |-> NULL]
  /\ order = <<>>
  /\ it = [x \in Iter |-> CLOSED]
  /\ stale = {}
  /\ ret = Answer(<<"new">>, 0, NoValue)

Keep(call, c, o) ==
  /\ ret' = Answer(call, c, o)
  /\ UNCHANGED <<mapVars, it, stale>>

Size == alive /\ Keep(<<"size">>, len, NoValue)

Get(k) ==
  /\ alive
  /\ IF GetNode(k) = NULL THEN Keep(<<"get", k>>, -1, NoValue)
     ELSE Keep(<<"get", k>>, 0, heap[GetNode(k)].v)

LinkLast(n, k, v) ==
  /\ heap' = [m \in DOMAIN heap \cup {n} |->
                IF m = n THEN [k |-> k, v |-> v, next |-> NULL,
                               prev |-> IF head = NULL THEN NULL ELSE tail]
                ELSE IF head # NULL /\ m = tail
                     THEN [k |-> heap[m].k, v |-> heap[m].v,
                           next |-> n, prev |-> heap[m].prev]
                ELSE heap[m]]
  /\ head' = IF head = NULL THEN n ELSE head
  /\ tail' = n

Add(k, v) ==
  /\ alive
  /\ IF GetNode(k) # NULL THEN Keep(<<"add", k>>, -1, NoValue)
     ELSE /\ \E n \in Node \ DOMAIN heap :
               LinkLast(n, k, v) /\ order' = Append(order, n)
          /\ len' = len + 1
          /\ ret' = Answer(<<"add", k>>, len + 1, NoValue)
          /\ UNCHANGED <<alive, it, stale>>

(* Mutant: the back pointer of the node behind n is left as it was. *)
UnlinkForward(n) ==
  /\ heap' = [m \in DOMAIN heap \ {n} |->
                [heap[m] EXCEPT !.next = IF @ = n THEN heap[n].next ELSE @]]
  /\ head' = IF n = head THEN heap[n].next ELSE head
  /\ tail' = IF n = tail THEN heap[n].prev ELSE tail

(* Mutant: only the back pointers are joined over n. *)
UnlinkBackward(n) ==
  /\ heap' = [m \in DOMAIN heap \ {n} |->
                [heap[m] EXCEPT !.prev = IF @ = n THEN heap[n].prev ELSE @]]
  /\ head' = IF n = head THEN heap[n].next ELSE head
  /\ tail' = IF n = tail THEN heap[n].prev ELSE tail

(* The neighbours of n are joined over it, and n is freed. *)
Unlink(n) ==
  LET p == heap[n].prev
      q == heap[n].next
  IN  /\ heap' = [m \in DOMAIN heap \ {n} |->
                    [k |-> heap[m].k, v |-> heap[m].v,
                     next |-> IF m = p THEN q ELSE heap[m].next,
                     prev |-> IF m = q THEN p ELSE heap[m].prev]]
      /\ head' = IF n = head THEN q ELSE head
      /\ tail' = IF n = tail THEN p ELSE tail

(* order without n. *)
Without(n) ==
  [i \in 1 .. Len(order) - 1 |->
     IF \E j \in 1 .. i : order[j] = n THEN order[i + 1] ELSE order[i]]

Remove(k) ==
  /\ alive
  /\ LET n == GetNode(k)
     IN  IF n = NULL THEN Keep(<<"remove", k>>, -1, NoValue)
         ELSE /\ Unlink(n)
              /\ len' = len - 1
              /\ order' = Without(n)
              /\ ret' = Answer(<<"remove", k>>, 0, Pair(heap[n].k, heap[n].v))
              /\ stale' = stale \cup {x \in Iter : it[x] = n}
              /\ UNCHANGED <<alive, it>>

(* cosmic_dmap_free walks the chain from the head and frees what it meets. *)
Free ==
  /\ alive
  /\ alive' = FALSE
  /\ len' = 0
  /\ head' = NULL
  /\ tail' = NULL
  /\ heap' = [m \in DOMAIN heap \ Follow(head) |-> heap[m]]
  /\ order' = <<>>
  /\ stale' = stale \cup {x \in Iter : it[x] \in Follow(head)}
  /\ ret' = Answer(<<"free">>, 0, NoValue)
  /\ UNCHANGED it

New ==
  /\ ~alive
  /\ alive' = TRUE
  /\ len' = 0
  /\ head' = NULL
  /\ tail' = NULL
  /\ ret' = Answer(<<"new">>, 0, NoValue)
  /\ UNCHANGED <<heap, order, it, stale>>

-----------------------------------------------------------------------------
IterOpen(x) ==
  /\ alive
  /\ it[x] = CLOSED
  /\ it' = [it EXCEPT ![x] = head]
  /\ ret' = Answer(<<"iterator", x>>, 0, NoValue)
  /\ UNCHANGED <<mapVars, stale>>

(* next hands out the key, next_pair the key and the value. *)
Step(x, call, out) ==
  /\ ret' = Answer(call, 0, out)
  /\ it' = [it EXCEPT ![x] = heap[it[x]].next]
  /\ UNCHANGED <<mapVars, stale>>

IterNext(x) ==
  /\ it[x] # CLOSED
  /\ x \notin stale
  /\ IF it[x] = NULL THEN Keep(<<"next", x>>, -1, NoValue)
     ELSE Step(x, <<"next", x>>, heap[it[x]].k)

(* Mutant: the pair is read after the cursor has moved on. *)
IterNextPairLate(x) ==
  /\ it[x] # CLOSED
  /\ x \notin stale
  /\ IF it[x] = NULL THEN Keep(<<"next_pair", x>>, -1, NoValue)
     ELSE LET n == IF heap[it[x]].next = NULL THEN it[x] ELSE heap[it[x]].next
          IN  Step(x, <<"next_pair", x>>, Pair(heap[it[x]].k, heap[n].v))

IterNextPair(x) ==
  /\ it[x] # CLOSED
  /\ x \notin stale
  /\ IF it[x] = NULL THEN Keep(<<"next_pair", x>>, -1, NoValue)
     ELSE Step(x, <<"next_pair", x>>, Pair(heap[it[x]].k, heap[it[x]].v))

(* The node under the cursor has been freed: reading it is undefined, and  *)
(* the call answers with anything, or with nothing.                        *)
IterNextStale(x) ==
  /\ x \in stale
  /\ \/ Keep(<<"next", x>>, -1, NoValue)
     \/ \E k \in Key : Keep(<<"next", x>>, 0, k)
     \/ Keep(<<"next_pair", x>>, -1, NoValue)
     \/ \E k \in Key, v \in Value : Keep(<<"next_pair", x>>, 0, Pair(k, v))

IterHasNext(x) ==
  /\ it[x] # CLOSED
  /\ \E c \in {0, 1} :
       /\ x \notin stale => c = (IF it[x] = NULL THEN 0 ELSE 1)
       /\ Keep(<<"has_next", x>>, c, NoValue)

IterClose(x) ==
  /\ it[x] # CLOSED
  /\ it' = [it EXCEPT ![x] = CLOSED]
  /\ stale' = stale \ {x}
  /\ ret' = Answer(<<"close", x>>, 0, NoValue)
  /\ UNCHANGED mapVars

Next ==
  \/ Size \/ Free \/ New
  \/ \E k \in Key : Get(k) \/ Remove(k)
  \/ \E k \in Key, v \in Value : Add(k, v)
  \/ \E x \in Iter : \/ IterOpen(x) \/ IterNext(x) \/ IterNextPair(x)
                     \/ IterNextStale(x) \/ IterHasNext(x) \/ IterClose(x)

Spec == Init /\ [][Next]_vars
-----------------------------------------------------------------------------
(* Every variable has its type.                                            *)
TypeOK ==
  /\ alive \in BOOLEAN
  /\ len \in Nat
  /\ head \in Pointer
  /\ tail \in Pointer
  /\ DOMAIN heap \subseteq Node
  /\ heap \in [DOMAIN heap -> NodeRecord]
  /\ order \in [1 .. len -> DOMAIN heap]
  /\ it \in [Iter -> Pointer \cup {CLOSED}]
  /\ stale \subseteq Iter
  /\ ret.code \in Int
  /\ ret.out \in Value \cup Key \cup [k : Key, v : Value] \cup {NoValue}

(* The allocated nodes are the nodes of the map, each once.                *)
Ordered ==
  /\ \A i, j \in 1 .. len : order[i] = order[j] => i = j
  /\ \A n \in DOMAIN heap : \E i \in 1 .. len : order[i] = n

(* next and prev join each node to its neighbours in the order of adding,  *)
(* and head and tail are its ends.                                         *)
Joined ==
  /\ \A i \in 1 .. len :
       /\ heap[order[i]].next = IF i = len THEN NULL ELSE order[i + 1]
       /\ heap[order[i]].prev = IF i = 1 THEN NULL ELSE order[i - 1]
  /\ head = IF len = 0 THEN NULL ELSE order[1]
  /\ tail = IF len = 0 THEN NULL ELSE order[len]

(* No two nodes carry the same key: add refuses one that is there (:65).   *)
KeysDistinct ==
  \A m, n \in DOMAIN heap : heap[m].k = heap[n].k => m = n

(* An open cursor whose node has not been freed is null or an allocated    *)
(* node, and only an open one can be stale.                                *)
Cursors ==
  /\ \A x \in Iter \ stale : it[x] \in DOMAIN heap \cup {NULL, CLOSED}
  /\ \A x \in stale : it[x] \in Node

(* The shape of the map, whatever calls came before.                       *)
Shape ==
  Ordered /\ Joined /\ KeysDistinct /\ Cursors /\ (~alive => len = 0)

(* Every node can be reached from the head, so a key that is there is      *)
(* found (cosmic_dmap_get_node, :41-47), a removed key is gone, and free   *)
(* gives back every node (:182).                                           *)
NothingLost ==
  /\ Follow(head) = DOMAIN heap
  /\ \A n \in DOMAIN heap : GetNode(heap[n].k) = n

-----------------------------------------------------------------------------
(* The map a caller sees: the pairs in the order of their nodes, and where *)
(* a cursor stands in it.                                                  *)
Place(n) == CHOOSE i \in 1 .. len : order[i] = n

pairsBar ==
  [i \in 1 .. len |-> Pair(heap[order[i]].k, heap[order[i]].v)]

posBar ==
  [x \in Iter |-> IF it[x] = CLOSED THEN -2
                  ELSE IF x \in stale THEN -3
                  ELSE IF it[x] = NULL THEN -1
                  ELSE Place(it[x]) - 1]

M == INSTANCE MapSpec WITH pairs <- pairsBar, pos <- posBar

(* The linked map is a map: every call does to the pairs, the iterators    *)
(* and the answer what MapSpec says.                                       *)
ImplementsMap == M!Spec
=============================================================================

---------------------------- MODULE LlistProofs ----------------------------
(***************************************************************************)
(* Proofs about Llist, for every set of addresses, values and iterators.   *)
(*                                                                         *)
(* Type correctness together with the shape of the list is inductive.  It  *)
(* is a statement about single nodes and their neighbours; what it says of *)
(* the whole chain, that following next from a node meets exactly the      *)
(* nodes with its index and the higher ones, is the lemma FollowIs.        *)
(***************************************************************************)
EXTENDS Llist, FiniteSetTheorems, SequenceTheorems, TLAPS

IInv == TypeOK /\ Shape

USE LlistAssumption DEF Pointer

-----------------------------------------------------------------------------
(* A set of naturals that has an element has a least one: the library says *)
(* so of a predicate that is an operator, which the provers cannot use.    *)
LEMMA LeastNatural ==
  ASSUME NEW T \in SUBSET Nat, T # {}
  PROVE  \E x \in T : \A y \in T : x <= y
<1> DEFINE R == StrictSubsetOrdering(Nat)
           D == {0 .. x : x \in T}
<1>1. \A x \in Nat : 0 .. x \in FiniteSubsetsOf(Nat)
  BY FS_Interval DEF FiniteSubsetsOf
<1>2. PICK x \in T : \A y \in T : ~ (<<0 .. y, 0 .. x>> \in R)
  <2>1. D # {} /\ D \subseteq FiniteSubsetsOf(Nat)
    BY <1>1
  <2>2. \E X \in D : \A Y \in D : ~ (<<Y, X>> \in R)
    <3> HIDE DEF R, D
    <3> QED
      BY <2>1, FS_StrictSubsetOrderingWellFounded, WFMin DEF R
  <2>3. QED
    BY <2>2
<1>3. ASSUME NEW y \in T, y < x
      PROVE  FALSE
  <2>1. 0 .. y \subseteq 0 .. x /\ x \in 0 .. x /\ x \notin 0 .. y
    BY <1>3
  <2>2. <<0 .. y, 0 .. x>> \in R
    BY <2>1 DEF StrictSubsetOrdering
  <2>3. QED
    BY <2>2, <1>2
<1>4. QED
  BY <1>3

-----------------------------------------------------------------------------
(* The chain from n (cosmic_llist.c:41-45) is n and the nodes with a       *)
(* higher index.                                                           *)
LEMMA FollowIs ==
  ASSUME IInv, NEW n \in DOMAIN heap
  PROVE  Follow(n) = {m \in DOMAIN heap : heap[m].i >= heap[n].i}
<1> DEFINE U == {m \in DOMAIN heap : heap[m].i >= heap[n].i}
<1>0. /\ n # NULL
      /\ \A m \in DOMAIN heap : heap[m].i \in Nat
  BY DEF IInv, TypeOK
<1>1. n \in U /\ Linked(U) /\ U \subseteq DOMAIN heap
  BY <1>0 DEF IInv, Shape, Chained, Linked
<1>2. ASSUME NEW S \in SUBSET DOMAIN heap, n \in S, Linked(S), NEW m \in U, m \notin S
      PROVE  FALSE
  <2> DEFINE T == {heap[x].i : x \in U \ S}
  <2>1. T \in SUBSET Nat /\ T # {}
    BY <1>0, <1>2
  <2>2. PICK k \in T : \A y \in T : k <= y
    BY <2>1, LeastNatural
  <2>3. PICK x \in U \ S : heap[x].i = k
    OBVIOUS
  <2>4. k > heap[n].i
    BY <2>3, <1>0, <1>2 DEF IInv, Shape, Indexed
  <2>5. k - 1 \in 0 .. len - 1
    BY <2>3, <2>4, <1>0 DEF IInv, TypeOK, Shape, Indexed
  <2>6. PICK p \in DOMAIN heap : heap[p].i = k - 1
    BY <2>5 DEF IInv, Shape, Indexed
  <2>7. p \in S
    <3>1. p \in U
      BY <2>1, <2>4, <2>6, <1>0
    <3>2. SUFFICES ASSUME p \notin S
                   PROVE  FALSE
      OBVIOUS
    <3>3. heap[p].i \in T
      BY <3>1, <3>2
    <3>4. QED
      BY <2>1, <2>2, <2>6, <3>3
  <2>8. p # tail
    <3>1. k \in 0 .. len - 1
      BY <2>1, <2>3 DEF IInv, TypeOK, Shape, Indexed
    <3>2. QED
      BY <2>6, <3>1 DEF IInv, TypeOK, Shape, Ends
  <2>9. heap[p].next \in DOMAIN heap /\ heap[heap[p].next].i = k
    <3>1. k \in Nat
      BY <2>1
    <3>2. QED
      BY <2>6, <2>8, <3>1 DEF IInv, Shape, Chained
  <2>10. heap[p].next = x
    BY <2>3, <2>9 DEF IInv, Shape, Indexed
  <2>11. QED
    BY <2>7, <2>9, <2>10, <1>2, <2>3 DEF Linked, IInv, TypeOK
<1>3. QED
  BY <1>0, <1>1, <1>2 DEF Follow
(* From the head the chain meets every allocated node.                     *)
LEMMA FollowHead ==
  ASSUME IInv
  PROVE  Follow(head) = DOMAIN heap
<1>1. CASE head = NULL
  BY <1>1 DEF Follow, IInv, TypeOK, Shape, Ends
<1>2. CASE head # NULL
  <2>1. head \in DOMAIN heap /\ heap[head].i = 0
    BY <1>2 DEF IInv, Shape, Ends
  <2>2. \A m \in DOMAIN heap : heap[m].i >= 0
    BY DEF IInv, TypeOK
  <2>3. QED
    BY <2>1, <2>2, FollowIs
<1>3. QED
  BY <1>1, <1>2

(* The search by index (cosmic_llist_get_node, :34-46) finds the one node  *)
(* with that index, and nothing past the end.                              *)
LEMMA GetNodeIs ==
  ASSUME IInv, NEW i \in Nat
  PROVE  /\ i >= len => GetNode(i) = NULL
         /\ i < len => GetNode(i) \in DOMAIN heap /\ heap[GetNode(i)].i = i
<1>1. CASE i >= len
  BY <1>1 DEF GetNode, IInv, TypeOK
<1>2. CASE i < len
  <2>1. PICK n \in DOMAIN heap : heap[n].i = i
    BY <1>2 DEF IInv, TypeOK, Shape, Indexed
  <2>2. head \in DOMAIN heap /\ head # NULL /\ heap[head].i = 0
    BY <2>1 DEF IInv, TypeOK, Shape, Ends
  <2>3. Follow(head) = DOMAIN heap
    BY FollowHead
  <2>4. Hits(i) = {n}
    BY <2>1, <2>3 DEF Hits, IInv, Shape, Indexed
  <2>5. n \in Follow(n)
    BY FollowIs DEF IInv, TypeOK
  <2>6. GetNode(i) = n
    BY <1>2, <2>4, <2>5 DEF GetNode, IInv, TypeOK
  <2>7. QED
    BY <1>2, <2>1, <2>6 DEF IInv, TypeOK
<1>3. QED
  BY <1>1, <1>2 DEF IInv, TypeOK

(* The shape of the list gives what callers need of it: no node is out of  *)
(* reach and every index below len is found.                               *)
LEMMA ShapeNothingLost == IInv => NothingLost
<1> SUFFICES ASSUME IInv
             PROVE  NothingLost
  OBVIOUS
<1>1. Follow(head) = DOMAIN heap
  BY FollowHead
<1>2. \A k \in 0 .. len - 1 : k \in Nat /\ k < len
  BY DEF IInv, TypeOK
<1>3. QED
  BY <1>1, <1>2, GetNodeIs DEF NothingLost, IInv, TypeOK

-----------------------------------------------------------------------------
(* Linking a node at the end (cosmic_llist_add, :57-69): what becomes of   *)
(* the fields.                                                             *)
AddEffect(n, o) ==
  /\ DOMAIN heap' = DOMAIN heap \cup {n}
  /\ heap'[n] = [i |-> len, o |-> o, next |-> NULL]
  /\ \A m \in DOMAIN heap :
       /\ heap'[m].i = heap[m].i
       /\ heap'[m].o = heap[m].o
       /\ heap'[m].next = IF m = tail THEN n ELSE heap[m].next
       /\ heap'[m] \in [i : Nat, o : Value, next : Pointer]
  /\ head' = IF head = NULL THEN n ELSE head
  /\ tail' = n
  /\ heap' = [m \in DOMAIN heap' |-> heap'[m]]

LEMMA AddNodeEffect ==
  ASSUME IInv, NEW call, NEW o \in Value, AddNode(call, o)
  PROVE  \E n \in Node \ DOMAIN heap : AddEffect(n, o)
<1>1. PICK n \in Node \ DOMAIN heap :
        /\ heap' = [m \in DOMAIN heap \cup {n} |->
                     IF m = n THEN [i |-> len, o |-> o, next |-> NULL]
                     ELSE IF head # NULL /\ m = tail
                          THEN [heap[m] EXCEPT !.next = n]
                          ELSE heap[m]]
        /\ head' = IF head = NULL THEN n ELSE head
        /\ tail' = n
  BY DEF AddNode
<1>2. /\ DOMAIN heap' = DOMAIN heap \cup {n}
      /\ heap'[n] = [i |-> len, o |-> o, next |-> NULL]
      /\ heap' = [m \in DOMAIN heap' |-> heap'[m]]
  BY <1>1
<1>3. \A m \in DOMAIN heap :
        /\ heap'[m].i = heap[m].i
        /\ heap'[m].o = heap[m].o
        /\ heap'[m].next = IF m = tail THEN n ELSE heap[m].next
        /\ heap'[m] \in [i : Nat, o : Value, next : Pointer]
  BY <1>1 DEF IInv, TypeOK, Shape, Ends
<1>4. AddEffect(n, o)
  BY <1>1, <1>2, <1>3 DEF AddEffect
<1>5. QED
  BY <1>4

LEMMA AddNodePreserves ==
  ASSUME IInv, alive, NEW call, NEW o \in Value, AddNode(call, o)
  PROVE  IInv'
<1>1. PICK n \in Node \ DOMAIN heap : AddEffect(n, o)
  BY AddNodeEffect
<1>2. /\ len' = len + 1 /\ alive' = alive /\ it' = it /\ stale' = stale
      /\ ret' = Answer(call, len + 1, NoValue)
  BY DEF AddNode
<1>3. AddEffect(n, o)
  BY <1>1
<1> USE <1>3 DEF AddEffect
<1>4. TypeOK'
  BY <1>1, <1>2, <1>3 DEF IInv, TypeOK, Answer
<1>5. Indexed'
  <2>1. heap'[n].i = len /\ len \in Nat
    BY <1>3 DEF IInv, TypeOK
  <2>2. \A m \in DOMAIN heap' : heap'[m].i < len'
    BY <1>2, <1>3, <2>1 DEF IInv, TypeOK, Shape, Indexed
  <2>3. \A m, p \in DOMAIN heap' : heap'[m].i = heap'[p].i => m = p
    BY <1>3, <2>1 DEF IInv, TypeOK, Shape, Indexed
  <2>4. \A k \in 0 .. len' - 1 : \E m \in DOMAIN heap' : heap'[m].i = k
    <3>1. SUFFICES ASSUME NEW k \in 0 .. len' - 1
                   PROVE  \E m \in DOMAIN heap' : heap'[m].i = k
      OBVIOUS
    <3>2. CASE k = len
      BY <3>2, <2>1, <1>3
    <3>3. CASE k # len
      BY <3>3, <2>1, <1>2, <1>3 DEF IInv, Shape, Indexed
    <3>4. QED
      BY <3>2, <3>3
  <2>5. QED
    BY <2>2, <2>3, <2>4 DEF Indexed
<1>6. Chained'
  BY <1>1, <1>2, <1>3 DEF IInv, TypeOK, Shape, Chained, Ends, Indexed
<1>7. Ends'
  <2>1. head' \in DOMAIN heap' /\ tail' \in DOMAIN heap'
    BY <1>1, <1>3 DEF IInv, Shape, Ends
  <2>2. heap'[head'].i = 0
    <3>1. CASE head = NULL
      <4>1. head' = n /\ len = 0
        BY <3>1, <1>1 DEF IInv, TypeOK, Shape, Ends
      <4>2. heap'[n].i = len
        BY <1>3
      <4>3. QED
        BY <4>1, <4>2
    <3>2. CASE head # NULL
      <4>1. head' = head /\ head \in DOMAIN heap /\ heap[head].i = 0
        BY <3>2, <1>1 DEF IInv, Shape, Ends
      <4>2. QED
        BY <4>1, <1>3
    <3>3. QED
      BY <3>1, <3>2
  <2>3. heap'[tail'].i = len' - 1
    BY <1>1, <1>2, <1>3 DEF IInv, TypeOK
  <2>4. QED
    BY <2>1, <2>2, <2>3, <1>2 DEF Ends
<1>8. Cursors'
  BY <1>2, <1>3 DEF IInv, TypeOK, Shape, Cursors
<1>9. QED
  BY <1>4, <1>5, <1>6, <1>7, <1>8 DEF IInv, Shape
(* The place of index i: the node before it, and the chain from it on.     *)
LEMMA PlaceIs ==
  ASSUME IInv, NEW i \in Nat, i <= len, head # NULL,
         NEW prev, prev = IF i = 0 THEN NULL ELSE GetNode(i - 1),
         NEW after, after = IF prev = NULL THEN head ELSE heap[prev].next
  PROVE  /\ i = 0 => prev = NULL
         /\ i > 0 => prev \in DOMAIN heap /\ heap[prev].i = i - 1
         /\ i < len => after \in DOMAIN heap /\ heap[after].i = i
         /\ i = len => after = NULL
         /\ i = len <=> prev = tail
         /\ Follow(after) = {m \in DOMAIN heap : heap[m].i >= i}
<1>1. i > 0 => prev \in DOMAIN heap /\ heap[prev].i = i - 1 /\ prev # NULL
  BY GetNodeIs DEF IInv, TypeOK
<1>2. head \in DOMAIN heap /\ tail \in DOMAIN heap /\ len > 0
  BY DEF IInv, TypeOK, Shape, Ends, Indexed
<1>3. i = len <=> prev = tail
  <2>1. tail # NULL /\ heap[tail].i = len - 1
    BY <1>2 DEF IInv, TypeOK, Shape, Ends
  <2>2. CASE i = 0
    BY <2>1, <2>2, <1>2
  <2>3. CASE i > 0
    BY <2>1, <2>3, <1>1, <1>2 DEF IInv, TypeOK, Shape, Indexed
  <2>4. QED
    BY <2>2, <2>3
<1>4. i < len => after \in DOMAIN heap /\ heap[after].i = i
  BY <1>1, <1>2, <1>3 DEF IInv, TypeOK, Shape, Ends, Chained
<1>5. i = len => after = NULL
  BY <1>1, <1>2, <1>3 DEF IInv, TypeOK, Shape, Ends, Chained
<1>6. Follow(after) = {m \in DOMAIN heap : heap[m].i >= i}
  <2>1. CASE i < len
    BY <2>1, <1>4, FollowIs
  <2>2. CASE i = len
    <3>1. \A m \in DOMAIN heap : heap[m].i \in Nat /\ heap[m].i < len
      BY DEF IInv, TypeOK, Shape, Indexed
    <3>2. Follow(after) = {}
      BY <2>2, <1>5 DEF Follow
    <3>3. QED
      BY <2>2, <3>1, <3>2
  <2>3. QED
    BY <2>1, <2>2 DEF IInv, TypeOK
<1>7. QED
  BY <1>1, <1>3, <1>4, <1>5, <1>6

(* Linking a node before the one with index i or at the end                *)
(* (cosmic_llist_insert, :84-108): what becomes of the fields.             *)
LinkEffect(prev, after, n, i, o) ==
  /\ DOMAIN heap' = DOMAIN heap \cup {n}
  /\ heap'[n] = [i |-> i, o |-> o, next |-> after]
  /\ heap'[n].i = i /\ heap'[n].o = o /\ heap'[n].next = after
  /\ \A m \in DOMAIN heap :
       /\ heap'[m].i = IF heap[m].i >= i THEN heap[m].i + 1 ELSE heap[m].i
       /\ heap'[m].o = heap[m].o
       /\ heap'[m].next = IF m = prev THEN n ELSE heap[m].next
       /\ heap'[m] \in [i : Nat, o : Value, next : Pointer]
  /\ heap' = [m \in DOMAIN heap' |-> heap'[m]]

LEMMA LinkHasEffect ==
  ASSUME IInv, NEW i \in Nat, i <= len, head # NULL, NEW o \in Value,
         NEW prev, prev = IF i = 0 THEN NULL ELSE GetNode(i - 1),
         NEW after, after = IF prev = NULL THEN head ELSE heap[prev].next,
         NEW n \in Node \ DOMAIN heap,
         LinkAfter(prev, n, i, o)
  PROVE  LinkEffect(prev, after, n, i, o)
<1>1. Follow(after) = {m \in DOMAIN heap : heap[m].i >= i}
  BY PlaceIs
<1>2. heap' = [m \in DOMAIN heap \cup {n} |->
                 IF m = n THEN [i |-> i, o |-> o, next |-> after]
                 ELSE [i |-> IF m \in Follow(after) THEN heap[m].i + 1
                             ELSE heap[m].i,
                       o |-> heap[m].o,
                       next |-> IF m = prev THEN n ELSE heap[m].next]]
  BY DEF LinkAfter
<1>3. /\ DOMAIN heap' = DOMAIN heap \cup {n}
      /\ heap'[n] = [i |-> i, o |-> o, next |-> after]
      /\ heap' = [m \in DOMAIN heap' |-> heap'[m]]
  BY <1>2
<1>4. ASSUME NEW m \in DOMAIN heap
      PROVE  /\ heap'[m].i = IF heap[m].i >= i THEN heap[m].i + 1 ELSE heap[m].i
             /\ heap'[m].o = heap[m].o
             /\ heap'[m].next = IF m = prev THEN n ELSE heap[m].next
             /\ heap'[m] \in [i : Nat, o : Value, next : Pointer]
  <2>1. heap'[m] = [i |-> IF m \in Follow(after) THEN heap[m].i + 1
                          ELSE heap[m].i,
                    o |-> heap[m].o,
                    next |-> IF m = prev THEN n ELSE heap[m].next]
    BY <1>2
  <2>2. heap[m] \in [i : Nat, o : Value, next : Pointer]
    BY DEF IInv, TypeOK
  <2>3. m \in Follow(after) <=> heap[m].i >= i
    BY <1>1
  <2>4. QED
    BY <2>1, <2>2, <2>3
<1>5. QED
  BY <1>3, <1>4 DEF LinkEffect

LEMMA LinkPreserves ==
  ASSUME IInv, alive, NEW i \in Nat, i <= len, head # NULL, NEW o \in Value,
         NEW prev, prev = IF i = 0 THEN NULL ELSE GetNode(i - 1),
         NEW n \in Node \ DOMAIN heap,
         LinkAfter(prev, n, i, o),
         len' = len + 1, NEW call, ret' = Answer(call, len + 1, NoValue),
         UNCHANGED <<alive, it, stale>>
  PROVE  IInv'
<1> DEFINE after == IF prev = NULL THEN head ELSE heap[prev].next
<1>1. /\ i = 0 => prev = NULL
      /\ i > 0 => prev \in DOMAIN heap /\ heap[prev].i = i - 1
      /\ i < len => after \in DOMAIN heap /\ heap[after].i = i
      /\ i = len => after = NULL
      /\ i = len <=> prev = tail
  BY PlaceIs
<1>2. head \in DOMAIN heap /\ tail \in DOMAIN heap
  BY DEF IInv, Shape, Ends
<1>3. /\ head' = IF prev = NULL THEN n ELSE head
      /\ tail' = IF prev = tail THEN n ELSE tail
  BY DEF LinkAfter
<1>4. LinkEffect(prev, after, n, i, o)
  BY LinkHasEffect
<1> HIDE DEF after
<1> USE DEF LinkEffect
<1>5. \A m \in DOMAIN heap : heap[m].i \in Nat /\ heap[m].i < len /\ len \in Nat
  BY DEF IInv, TypeOK, Shape, Indexed
<1>6. TypeOK'
  <2>1. after \in Pointer
    BY <1>1 DEF IInv, TypeOK
  <2>2. heap'[n] \in [i : Nat, o : Value, next : Pointer]
    BY <1>4, <2>1
  <2>3. heap' = [m \in DOMAIN heap' |-> heap'[m]]
    BY <1>4
  <2>4. heap' \in [DOMAIN heap' -> [i : Nat, o : Value, next : Pointer]]
    BY <1>4, <2>2, <2>3
  <2>5. QED
    BY <1>3, <1>4, <2>4 DEF IInv, TypeOK, Answer
<1>7. Indexed'
  <2>1. ASSUME NEW m \in DOMAIN heap'
        PROVE  heap'[m].i < len'
    <3>1. CASE m = n
      BY <3>1, <1>4, <1>5 DEF IInv, TypeOK
    <3>2. CASE m \in DOMAIN heap
      BY <3>2, <1>4, <1>5
    <3>3. QED
      BY <3>1, <3>2, <1>4
  <2>2. ASSUME NEW m \in DOMAIN heap', NEW p \in DOMAIN heap',
               heap'[m].i = heap'[p].i
        PROVE  m = p
    <3>1. ASSUME NEW q \in DOMAIN heap
          PROVE  heap'[q].i # i
      BY <1>4, <1>5
    <3>2. CASE m \in DOMAIN heap /\ p \in DOMAIN heap
      <4>1. heap[m].i = heap[p].i
        BY <3>2, <2>2, <1>4, <1>5
      <4>2. QED
        BY <3>2, <4>1 DEF IInv, Shape, Indexed
    <3>3. CASE m = n \/ p = n
      BY <3>1, <3>3, <2>2, <1>4
    <3>4. QED
      BY <3>2, <3>3, <1>4
  <2>3. ASSUME NEW k \in 0 .. len' - 1
        PROVE  \E m \in DOMAIN heap' : heap'[m].i = k
    <3>1. CASE k = i
      BY <3>1, <1>4
    <3>2. CASE k < i
      <4>1. k \in 0 .. len - 1
        BY <3>2 DEF IInv, TypeOK
      <4>2. PICK m \in DOMAIN heap : heap[m].i = k
        BY <4>1 DEF IInv, Shape, Indexed
      <4>3. QED
        BY <3>2, <4>2, <1>4
    <3>3. CASE k > i
      <4>1. k - 1 \in 0 .. len - 1
        BY <3>3, <1>5 DEF IInv, TypeOK
      <4>2. PICK m \in DOMAIN heap : heap[m].i = k - 1
        BY <4>1 DEF IInv, Shape, Indexed
      <4>3. QED
        BY <3>3, <4>2, <1>4
    <3>4. QED
      BY <3>1, <3>2, <3>3
  <2>4. QED
    BY <2>1, <2>2, <2>3 DEF Indexed
<1>8. Chained'
  <2> SUFFICES ASSUME NEW m \in DOMAIN heap'
               PROVE  IF m = tail' THEN heap'[m].next = NULL
                      ELSE /\ heap'[m].next \in DOMAIN heap'
                           /\ heap'[heap'[m].next].i = heap'[m].i + 1
    BY DEF Chained
  <2>1. CASE m = n
    <3>1. CASE i = len
      BY <2>1, <3>1, <1>1, <1>3, <1>4
    <3>2. CASE i < len
      <4>1. m # tail'
        BY <2>1, <3>2, <1>1, <1>2, <1>3 DEF IInv, TypeOK
      <4>2. after \in DOMAIN heap /\ heap'[after].i = i + 1
        BY <3>2, <1>1, <1>4
      <4>3. QED
        BY <2>1, <4>1, <4>2, <1>4
    <3>3. QED
      BY <3>1, <3>2 DEF IInv, TypeOK
  <2>2. CASE m = prev /\ m # n
    <3>1. i > 0 /\ m \in DOMAIN heap /\ heap[m].i = i - 1
      BY <2>2, <1>1, <1>4 DEF IInv, TypeOK
    <3>2. heap'[m].next = n /\ heap'[m].i = i - 1
      BY <2>2, <3>1, <1>4
    <3>3. m # tail'
      BY <2>2, <1>3
    <3>4. QED
      BY <3>1, <3>2, <3>3, <1>4
  <2>3. CASE m # prev /\ m # n
    <3>1. heap[m].i # i - 1
      BY <2>3, <1>1, <1>4, <1>5 DEF IInv, TypeOK, Shape, Indexed
    <3>2. CASE m = tail
      <4>1. m \in DOMAIN heap /\ m = tail' /\ heap[m].next = NULL
        BY <2>3, <3>2, <1>3, <1>4 DEF IInv, Shape, Chained
      <4>2. QED
        BY <4>1, <2>3, <1>4
    <3>3. CASE m # tail
      <4>1. heap[m].next \in DOMAIN heap /\ heap[heap[m].next].i = heap[m].i + 1
        BY <2>3, <3>3, <1>4 DEF IInv, Shape, Chained
      <4>2. m \in DOMAIN heap /\ m # tail' /\ heap'[m].next = heap[m].next
        BY <2>3, <3>3, <1>2, <1>3, <1>4
      <4>3. heap'[heap[m].next].i = heap'[m].i + 1
        BY <3>1, <4>1, <4>2, <1>4, <1>5
      <4>4. QED
        BY <4>1, <4>2, <4>3, <1>4
    <3>4. QED
      BY <3>2, <3>3
  <2>4. QED
    BY <2>1, <2>2, <2>3
<1>9. Ends'
  <2>1. head' \in DOMAIN heap' /\ tail' \in DOMAIN heap'
    BY <1>2, <1>3, <1>4
  <2>2. heap'[head'].i = 0
    BY <1>1, <1>2, <1>3, <1>4 DEF IInv, TypeOK, Shape, Ends
  <2>3. heap'[tail'].i = len' - 1
    BY <1>1, <1>2, <1>3, <1>4, <1>5 DEF IInv, TypeOK, Shape, Ends
  <2>4. QED
    BY <2>1, <2>2, <2>3 DEF Ends
<1>10. Cursors'
  BY <1>4 DEF IInv, Shape, Cursors
<1>11. QED
  BY <1>6, <1>7, <1>8, <1>9, <1>10 DEF IInv, Shape
(* Unlinking the node with index i (cosmic_llist_remove, :117-149): what   *)
(* becomes of the fields.                                                  *)
UnlinkEffect(prev, n, i) ==
  /\ DOMAIN heap' = DOMAIN heap \ {n}
  /\ \A m \in DOMAIN heap \ {n} :
       /\ heap'[m].i = IF heap[m].i > i THEN heap[m].i - 1 ELSE heap[m].i
       /\ heap'[m].o = heap[m].o
       /\ heap'[m].next = IF m = prev THEN heap[n].next ELSE heap[m].next
       /\ heap'[m] \in [i : Nat, o : Value, next : Pointer]
  /\ heap' = [m \in DOMAIN heap' |-> heap'[m]]

LEMMA RemovedPlaceIs ==
  ASSUME IInv, NEW i \in Nat, i < len,
         NEW prev, prev = IF i = 0 THEN NULL ELSE GetNode(i - 1),
         NEW n, n = IF i = 0 THEN head ELSE heap[prev].next
  PROVE  /\ head \in DOMAIN heap /\ tail \in DOMAIN heap /\ head # NULL
         /\ i = 0 => prev = NULL
         /\ i > 0 => prev \in DOMAIN heap /\ heap[prev].i = i - 1 /\ prev # NULL
         /\ n \in DOMAIN heap /\ heap[n].i = i
         /\ Follow(n) = {m \in DOMAIN heap : heap[m].i >= i}
         /\ \A m \in DOMAIN heap : heap[m].i \in Nat /\ heap[m].i < len
         /\ \A m \in DOMAIN heap : heap[m].i = i <=> m = n
         /\ len \in Nat
<1>1. head \in DOMAIN heap /\ tail \in DOMAIN heap /\ head # NULL
  <2>1. PICK m \in DOMAIN heap : heap[m].i = i
    BY DEF IInv, TypeOK, Shape, Indexed
  <2>2. QED
    BY <2>1 DEF IInv, TypeOK, Shape, Ends
<1>2. /\ i = 0 => prev = NULL
      /\ i > 0 => prev \in DOMAIN heap /\ heap[prev].i = i - 1 /\ prev # NULL
      /\ n \in DOMAIN heap /\ heap[n].i = i
      /\ Follow(n) = {m \in DOMAIN heap : heap[m].i >= i}
  BY <1>1, PlaceIs DEF IInv, TypeOK
<1>3. /\ \A m \in DOMAIN heap : heap[m].i \in Nat /\ heap[m].i < len
      /\ \A m \in DOMAIN heap : heap[m].i = i <=> m = n
      /\ len \in Nat
  BY <1>2 DEF IInv, TypeOK, Shape, Indexed
<1>4. QED
  BY <1>1, <1>2, <1>3

LEMMA UnlinkHasEffect ==
  ASSUME IInv, NEW i \in Nat, i < len,
         NEW prev, prev = IF i = 0 THEN NULL ELSE GetNode(i - 1),
         NEW n, n = IF i = 0 THEN head ELSE heap[prev].next,
         Unlink(prev, n)
  PROVE  UnlinkEffect(prev, n, i)
<1>1. /\ n \in DOMAIN heap /\ heap[n].i = i
      /\ Follow(n) = {m \in DOMAIN heap : heap[m].i >= i}
      /\ \A m \in DOMAIN heap : heap[m].i \in Nat
      /\ \A m \in DOMAIN heap : heap[m].i = i <=> m = n
  BY RemovedPlaceIs
<1>2. heap' = [m \in DOMAIN heap \ {n} |->
                 [i |-> IF m \in Follow(n) THEN heap[m].i - 1 ELSE heap[m].i,
                  o |-> heap[m].o,
                  next |-> IF m = prev THEN heap[n].next ELSE heap[m].next]]
  BY DEF Unlink
<1>3. /\ DOMAIN heap' = DOMAIN heap \ {n}
      /\ heap' = [m \in DOMAIN heap' |-> heap'[m]]
  BY <1>2
<1>4. ASSUME NEW m \in DOMAIN heap \ {n}
      PROVE  /\ heap'[m].i = IF heap[m].i > i THEN heap[m].i - 1 ELSE heap[m].i
             /\ heap'[m].o = heap[m].o
             /\ heap'[m].next = IF m = prev THEN heap[n].next ELSE heap[m].next
             /\ heap'[m] \in [i : Nat, o : Value, next : Pointer]
  <2>1. heap'[m] = [i |-> IF m \in Follow(n) THEN heap[m].i - 1 ELSE heap[m].i,
                    o |-> heap[m].o,
                    next |-> IF m = prev THEN heap[n].next ELSE heap[m].next]
    BY <1>2
  <2>2. /\ heap[m] \in [i : Nat, o : Value, next : Pointer]
        /\ heap[n] \in [i : Nat, o : Value, next : Pointer]
    BY <1>1 DEF IInv, TypeOK
  <2>3. m \in Follow(n) <=> heap[m].i > i
    <3>1. heap[m].i \in Nat /\ heap[m].i # i
      BY <1>1
    <3>2. QED
      BY <3>1, <1>1
  <2>4. QED
    BY <2>1, <2>2, <2>3
<1>5. QED
  BY <1>3, <1>4 DEF UnlinkEffect

LEMMA UnlinkPreserves ==
  ASSUME IInv, alive, NEW i \in Nat, i < len,
         NEW prev, prev = IF i = 0 THEN NULL ELSE GetNode(i - 1),
         NEW n, n = IF i = 0 THEN head ELSE heap[prev].next,
         Unlink(prev, n),
         len' = len - 1, NEW call, ret' = Answer(call, 0, heap[n].o),
         stale' = stale \cup {x \in Iter : it[x] = n},
         UNCHANGED <<alive, it>>
  PROVE  IInv'
<1>1. head \in DOMAIN heap /\ tail \in DOMAIN heap /\ head # NULL
  BY RemovedPlaceIs
<1>2. /\ i = 0 => prev = NULL
      /\ i > 0 => prev \in DOMAIN heap /\ heap[prev].i = i - 1 /\ prev # NULL
      /\ n \in DOMAIN heap /\ heap[n].i = i
  BY RemovedPlaceIs
<1>3. /\ head' = IF prev = NULL THEN heap[n].next ELSE head
      /\ tail' = IF n = tail THEN prev ELSE tail
  BY DEF Unlink
<1>4. /\ \A m \in DOMAIN heap : heap[m].i \in Nat /\ heap[m].i < len
      /\ \A m \in DOMAIN heap : heap[m].i = i <=> m = n
      /\ len \in Nat
  BY RemovedPlaceIs
<1>5. UnlinkEffect(prev, n, i)
  BY UnlinkHasEffect
<1> USE DEF UnlinkEffect
<1>6. n = tail <=> i = len - 1
  BY <1>1, <1>2, <1>4 DEF IInv, TypeOK, Shape, Ends
<1>7. n # tail => heap[n].next \in DOMAIN heap /\ heap[heap[n].next].i = i + 1
  BY <1>2 DEF IInv, Shape, Chained
<1>8. n = tail => heap[n].next = NULL
  BY <1>2 DEF IInv, Shape, Chained
<1>9. TypeOK'
  <2>1. heap' \in [DOMAIN heap' -> [i : Nat, o : Value, next : Pointer]]
    BY <1>5
  <2>2. heap[n].next \in Pointer /\ heap[n].o \in Value
    BY <1>2 DEF IInv, TypeOK
  <2>3. head' \in Pointer /\ tail' \in Pointer
    BY <2>2, <1>2, <1>3 DEF IInv, TypeOK
  <2>4. len' \in Nat
    BY <1>2, <1>4
  <2>5. QED
    BY <2>1, <2>2, <2>3, <2>4, <1>5 DEF IInv, TypeOK, Answer
<1>10. Indexed'
  <2>0. \A m \in DOMAIN heap' :
          m \in DOMAIN heap /\ heap[m].i \in Nat /\ heap[m].i # i
    BY <1>4, <1>5
  <2>1. ASSUME NEW m \in DOMAIN heap'
        PROVE  heap'[m].i < len'
    <3>1. heap[m].i < len /\ heap[m].i \in Nat
      BY <2>0, <1>4
    <3>2. heap[m].i > i \/ heap[m].i < i
      BY <2>0
    <3>3. heap'[m].i = IF heap[m].i > i THEN heap[m].i - 1 ELSE heap[m].i
      BY <1>5
    <3>4. QED
      BY <3>1, <3>2, <3>3, <1>4
  <2>2. ASSUME NEW m \in DOMAIN heap', NEW p \in DOMAIN heap',
               heap'[m].i = heap'[p].i
        PROVE  m = p
    <3>1. heap[m].i = heap[p].i
      <4>1. /\ heap'[m].i = IF heap[m].i > i THEN heap[m].i - 1 ELSE heap[m].i
            /\ heap'[p].i = IF heap[p].i > i THEN heap[p].i - 1 ELSE heap[p].i
        BY <1>5
      <4>2. QED
        BY <4>1, <2>0, <2>2
    <3>2. QED
      BY <3>1, <1>5 DEF IInv, Shape, Indexed
  <2>3. ASSUME NEW k \in 0 .. len' - 1
        PROVE  \E m \in DOMAIN heap' : heap'[m].i = k
    <3>1. CASE k < i
      <4>1. k \in 0 .. len - 1
        BY <3>1 DEF IInv, TypeOK
      <4>2. PICK m \in DOMAIN heap : heap[m].i = k
        BY <4>1 DEF IInv, Shape, Indexed
      <4>3. QED
        BY <3>1, <4>2, <1>4, <1>5
    <3>2. CASE k >= i
      <4>1. k + 1 \in 0 .. len - 1
        BY DEF IInv, TypeOK
      <4>2. PICK m \in DOMAIN heap : heap[m].i = k + 1
        BY <4>1 DEF IInv, Shape, Indexed
      <4>3. QED
        BY <3>2, <4>2, <1>4, <1>5
    <3>3. QED
      BY <3>1, <3>2
  <2>4. QED
    BY <2>1, <2>2, <2>3 DEF Indexed
<1>11. Chained'
  <2> SUFFICES ASSUME NEW m \in DOMAIN heap'
               PROVE  IF m = tail' THEN heap'[m].next = NULL
                      ELSE /\ heap'[m].next \in DOMAIN heap'
                           /\ heap'[heap'[m].next].i = heap'[m].i + 1
    BY DEF Chained
  <2>0. m \in DOMAIN heap /\ m # n
    BY <1>5
  <2>1. CASE m = prev
    <3>0. i > 0 /\ heap[m].i = i - 1
      BY <2>1, <2>0, <1>2 DEF IInv, TypeOK
    <3>1. CASE n = tail
      BY <2>1, <3>1, <2>0, <1>3, <1>5, <1>8
    <3>2. CASE n # tail
      <4>1. m # tail'
        BY <3>2, <3>0, <1>1, <1>2, <1>3, <1>4, <1>6 DEF IInv, TypeOK, Shape, Ends
      <4>2. heap'[m].next = heap[n].next /\ heap'[m].i = i - 1
        BY <2>0, <2>1, <3>0, <1>5
      <4>3. heap[n].next # n /\ heap'[heap[n].next].i = i
        <5>1. heap[n].next \in DOMAIN heap \ {n} /\ heap[heap[n].next].i = i + 1
          BY <3>2, <1>2, <1>7
        <5>2. QED
          BY <5>1, <1>5
      <4>4. QED
        BY <3>2, <4>1, <4>2, <4>3, <1>5, <1>7
    <3>3. QED
      BY <3>1, <3>2
  <2>2. CASE m # prev
    <3>0. heap'[m].next = heap[m].next
      BY <2>0, <2>2, <1>5
    <3>1. heap[m].i # i - 1
      BY <2>0, <2>2, <1>2, <1>4 DEF IInv, TypeOK, Shape, Indexed
    <3>2. CASE m = tail
      BY <2>0, <3>0, <3>2, <1>3 DEF IInv, Shape, Chained
    <3>3. CASE m # tail
      <4>1. heap[m].next \in DOMAIN heap /\ heap[heap[m].next].i = heap[m].i + 1
        BY <2>0, <3>3 DEF IInv, Shape, Chained
      <4>2. m # tail'
        BY <2>0, <2>2, <3>3, <1>3
      <4>3. heap[m].next # n
        BY <2>0, <3>1, <4>1, <1>4
      <4>4. heap'[heap[m].next].i = heap'[m].i + 1
        <5>1. heap[m].i \in Nat /\ heap[m].i # i /\ heap[m].i # i - 1
          BY <2>0, <3>1, <1>4
        <5>2. heap'[m].i = IF heap[m].i > i THEN heap[m].i - 1 ELSE heap[m].i
          BY <2>0, <1>5
        <5>3. heap'[heap[m].next].i = IF heap[m].i + 1 > i THEN heap[m].i ELSE heap[m].i + 1
          BY <4>1, <4>3, <5>1, <1>5
        <5>4. QED
          BY <5>1, <5>2, <5>3
      <4>5. QED
        BY <3>0, <4>1, <4>2, <4>3, <4>4, <1>5
    <3>4. QED
      BY <3>2, <3>3
  <2>3. QED
    BY <2>1, <2>2
<1>12. Ends'
  <2>1. CASE len = 1
    <3>1. i = 0 /\ n = tail /\ prev = NULL
      BY <2>1, <1>2, <1>6
    <3>2. DOMAIN heap' = {}
      <4>1. \A m \in DOMAIN heap : heap[m].i = 0
        BY <2>1, <1>4
      <4>2. QED
        BY <4>1, <3>1, <1>4, <1>5
    <3>3. QED
      BY <2>1, <3>1, <3>2, <1>3, <1>8 DEF Ends
  <2>2. CASE len > 1
    <3>1. head' \in DOMAIN heap' /\ heap'[head'].i = 0 /\ head' # NULL
      <4>1. CASE i = 0
        <5>1. n # tail /\ head' = heap[n].next
          BY <2>2, <4>1, <1>2, <1>3, <1>6
        <5>2. QED
          BY <4>1, <5>1, <1>4, <1>5, <1>7 DEF IInv, TypeOK
      <4>2. CASE i > 0
        <5>1. head' = head /\ heap[head].i = 0 /\ head # n
          BY <4>2, <1>1, <1>2, <1>3 DEF IInv, Shape, Ends
        <5>2. QED
          BY <4>2, <5>1, <1>1, <1>5
      <4>3. QED
        BY <4>1, <4>2
    <3>2. tail' \in DOMAIN heap' /\ heap'[tail'].i = len' - 1
      <4>1. CASE n = tail
        <5>1. i > 0 /\ tail' = prev /\ prev # n
          BY <2>2, <4>1, <1>2, <1>3, <1>6 DEF IInv, TypeOK
        <5>2. QED
          BY <4>1, <5>1, <1>2, <1>5, <1>6
      <4>2. CASE n # tail
        <5>1. tail' = tail /\ heap[tail].i = len - 1 /\ heap[tail].i > i
          BY <4>2, <1>1, <1>3, <1>4, <1>6 DEF IInv, TypeOK, Shape, Ends
        <5>2. QED
          BY <4>2, <5>1, <1>1, <1>5
      <4>3. QED
        BY <4>1, <4>2
    <3>3. QED
      BY <3>1, <3>2 DEF Ends
  <2>3. QED
    BY <2>1, <2>2 DEF IInv, TypeOK
<1>13. Cursors'
  BY <1>2, <1>5 DEF IInv, TypeOK, Shape, Cursors
<1>14. QED
  BY <1>9, <1>10, <1>11, <1>12, <1>13 DEF IInv, Shape
-----------------------------------------------------------------------------
(* The list is created in shape.                                           *)
LEMMA InitInv == Init => IInv
BY DEF Init, IInv, TypeOK, Shape, Indexed, Chained, Ends, Cursors, Answer

(* A call that changes neither the list nor an iterator keeps the shape.   *)
LEMMA ReadPreserves ==
  ASSUME IInv, UNCHANGED <<listVars, it, stale>>,
         ret'.code \in Int, ret'.out \in Value \cup {NoValue}
  PROVE  IInv'
BY DEF IInv, TypeOK, Shape, Indexed, Chained, Ends, Cursors, listVars

LEMMA FailPreserves ==
  ASSUME IInv, NEW call, Fail(call)
  PROVE  IInv'
BY ReadPreserves DEF Fail, Answer

(* remove and pop (cosmic_llist.c:111-156).                                *)
LEMMA RemovePreserves ==
  ASSUME IInv, alive, NEW i \in Nat, NEW call, RemoveNode(call, i)
  PROVE  IInv'
<1>1. CASE i >= len
  BY <1>1, FailPreserves DEF RemoveNode
<1>2. CASE i < len
  <2> DEFINE prev == IF i = 0 THEN NULL ELSE GetNode(i - 1)
             n    == IF i = 0 THEN head ELSE heap[prev].next
  <2>1. /\ Unlink(prev, n)
        /\ len' = len - 1
        /\ ret' = Answer(call, 0, heap[n].o)
        /\ stale' = stale \cup {x \in Iter : it[x] = n}
        /\ UNCHANGED <<alive, it>>
    <3>1. ~(i >= len)
      BY <1>2 DEF IInv, TypeOK
    <3>2. QED
      BY <3>1 DEF RemoveNode
  <2> HIDE DEF n
  <2>2. n = IF i = 0 THEN head ELSE heap[prev].next
    BY DEF n
  <2> HIDE DEF prev
  <2>3. prev = IF i = 0 THEN NULL ELSE GetNode(i - 1)
    BY DEF prev
  <2>4. QED
    BY <1>2, <2>1, <2>2, <2>3, UnlinkPreserves
<1>3. QED
  BY <1>1, <1>2 DEF IInv, TypeOK

(* insert (cosmic_llist.c:71-109).                                         *)
LEMMA InsertPreserves ==
  ASSUME IInv, NEW i \in Nat, NEW o \in Value, Insert(i, o)
  PROVE  IInv'
<1>0. alive
  BY DEF Insert
<1>1. CASE i > len
  BY <1>1, FailPreserves DEF Insert
<1>2. CASE i <= len /\ i = 0 /\ head = NULL
  BY <1>0, <1>2, AddNodePreserves DEF Insert, IInv, TypeOK
<1>3. CASE i <= len /\ head # NULL
  <2>0. ~(i > len) /\ ~(i = 0 /\ head = NULL)
    BY <1>3 DEF IInv, TypeOK
  <2>1. PICK n \in Node \ DOMAIN heap :
          LinkAfter(IF i = 0 THEN NULL ELSE GetNode(i - 1), n, i, o)
    BY <2>0, Zenon DEF Insert
  <2>2. /\ len' = len + 1
        /\ ret' = Answer(<<"insert", i>>, len + 1, NoValue)
        /\ UNCHANGED <<alive, it, stale>>
    BY <2>0, Zenon DEF Insert
  <2>3. QED
    BY <1>0, <1>3, <2>1, <2>2, LinkPreserves
<1>4. i > len \/ (i <= len /\ i = 0 /\ head = NULL) \/ (i <= len /\ head # NULL)
  BY DEF IInv, TypeOK, Shape, Ends
<1>5. QED
  BY <1>1, <1>2, <1>3, <1>4

(* Every call keeps the list in shape.                                     *)
LEMMA NextInv == IInv /\ [Next]_vars => IInv'
<1> SUFFICES ASSUME IInv, [Next]_vars
             PROVE  IInv'
  OBVIOUS
<1>1. CASE Size
  BY <1>1, ReadPreserves DEF Size, Answer, IInv, TypeOK
<1>2. CASE Pop
  BY <1>2, RemovePreserves DEF Pop
<1>3. CASE Free
  <2>1. DOMAIN heap' = {} /\ heap' \in [{} -> [i : Nat, o : Value, next : Pointer]]
    BY <1>3, FollowHead DEF Free
  <2>2. TypeOK'
    <3>1. DOMAIN heap' \subseteq Node
      BY <2>1
    <3>2. heap' \in [DOMAIN heap' -> [i : Nat, o : Value, next : Pointer]]
      BY <2>1
    <3>3. /\ alive' = FALSE /\ len' = 0 /\ head' = NULL /\ tail' = NULL
          /\ it' = it /\ ret' = Answer(<<"free">>, 0, NoValue)
          /\ stale' = stale \cup {x \in Iter : it[x] \in Follow(head)}
      BY <1>3 DEF Free
    <3>4. stale' \subseteq Iter
      BY <3>3 DEF IInv, TypeOK
    <3>5. ret'.code \in Int /\ ret'.out \in Value \cup {NoValue}
      BY <3>3 DEF Answer
    <3>6. it' \in [Iter -> Pointer \cup {CLOSED}]
      BY <3>3 DEF IInv, TypeOK
    <3>7. alive' \in BOOLEAN /\ len' \in Nat /\ head' \in Pointer /\ tail' \in Pointer
      BY <3>3
    <3>8. QED
      BY <3>1, <3>2, <3>4, <3>5, <3>6, <3>7, Zenon DEF TypeOK
  <2>3. Indexed' /\ Chained' /\ Ends'
    BY <1>3, <2>1 DEF Free, Indexed, Chained, Ends
  <2>4. Cursors'
    BY <1>3, <2>1, FollowHead DEF Free, IInv, TypeOK, Shape, Cursors
  <2>5. QED
    BY <2>2, <2>3, <2>4 DEF IInv, Shape
<1>4. CASE New
  BY <1>4 DEF New, IInv, TypeOK, Shape, Indexed, Chained, Ends, Cursors, Answer
<1>5. ASSUME NEW o \in Value, Add(o)
      PROVE  IInv'
  BY <1>5, AddNodePreserves DEF Add
<1>6. ASSUME NEW i \in Index, Get(i)
      PROVE  IInv'
  <2>1. i \in Nat
    BY DEF Index
  <2>2. CASE GetNode(i) = NULL
    BY <1>6, <2>2, FailPreserves DEF Get
  <2>3. CASE GetNode(i) # NULL
    <3>1. GetNode(i) \in DOMAIN heap
      BY <2>1, <2>3, GetNodeIs DEF IInv, TypeOK
    <3>2. heap[GetNode(i)].o \in Value
      BY <3>1 DEF IInv, TypeOK
    <3>3. QED
      BY <1>6, <2>3, <3>2, ReadPreserves DEF Get, Answer
  <2>4. QED
    BY <2>2, <2>3
<1>7. ASSUME NEW i \in Index, Remove(i)
      PROVE  IInv'
  BY <1>7, RemovePreserves DEF Remove, Index
<1>8. ASSUME NEW i \in Index, NEW o \in Value, Insert(i, o)
      PROVE  IInv'
  BY <1>8, InsertPreserves DEF Index
<1>9. ASSUME NEW x \in Iter, IterOpen(x)
      PROVE  IInv'
  BY <1>9 DEF IterOpen, IInv, TypeOK, Shape, Indexed, Chained, Ends, Cursors,
              listVars, Answer
<1>10. ASSUME NEW x \in Iter, IterNext(x)
       PROVE  IInv'
  <2>1. CASE it[x] = NULL
    BY <1>10, <2>1, FailPreserves DEF IterNext
  <2>2. CASE it[x] # NULL
    <3>1. /\ it[x] \in DOMAIN heap /\ x \notin stale
          /\ ret' = Answer(<<"next", x>>, 0, heap[it[x]].o)
          /\ it' = [it EXCEPT ![x] = heap[it[x]].next]
          /\ UNCHANGED <<listVars, stale>>
      BY <1>10, <2>2 DEF IterNext, IInv, Shape, Cursors
    <3>2. heap[it[x]].o \in Value /\ heap[it[x]].next \in DOMAIN heap \cup {NULL}
      BY <3>1 DEF IInv, TypeOK, Shape, Chained
    <3>3. TypeOK' /\ Cursors'
      BY <3>1, <3>2 DEF IInv, TypeOK, Shape, Cursors, listVars, Answer
    <3>4. QED
      BY <3>1, <3>3 DEF IInv, Shape, Indexed, Chained, Ends, listVars
  <2>3. QED
    BY <2>1, <2>2
<1>11. ASSUME NEW x \in Iter, IterNextStale(x)
       PROVE  IInv'
  BY <1>11, FailPreserves, ReadPreserves DEF IterNextStale, Answer
<1>12. ASSUME NEW x \in Iter, IterHasNext(x)
       PROVE  IInv'
  BY <1>12, ReadPreserves DEF IterHasNext, Answer
<1>13. ASSUME NEW x \in Iter, IterNextPair(x)
       PROVE  IInv'
  BY <1>13, FailPreserves DEF IterNextPair
<1>14. ASSUME NEW x \in Iter, IterClose(x)
       PROVE  IInv'
  BY <1>14 DEF IterClose, IInv, TypeOK, Shape, Indexed, Chained, Ends, Cursors,
               listVars, Answer
<1>15. CASE UNCHANGED vars
  BY <1>15 DEF vars, IInv, TypeOK, Shape, Indexed, Chained, Ends, Cursors
<1>16. QED
  BY <1>1, <1>2, <1>3, <1>4, <1>5, <1>6, <1>7, <1>8, <1>9, <1>10, <1>11,
     <1>12, <1>13, <1>14, <1>15 DEF Next

(* Whatever calls are made, in whatever order and with whatever iterators  *)
(* open, the variables keep their types and the list keeps its shape.      *)
THEOREM AlwaysInShape == Spec => [](TypeOK /\ Shape)
<1>1. Init => IInv
  BY InitInv
<1>2. IInv /\ [Next]_vars => IInv'
  BY NextInv
<1>3. IInv => TypeOK /\ Shape
  BY DEF IInv
<1>4. QED
  BY <1>1, <1>2, <1>3, PTL DEF Spec

(* No call loses a node or makes an index below the length unfindable, so  *)
(* insert and remove never go through a null pointer (:91, :125) and free  *)
(* gives back every node (:199).                                           *)
THEOREM NeverLost == Spec => []NothingLost
<1>1. Init => IInv
  BY InitInv
<1>2. IInv /\ [Next]_vars => IInv'
  BY NextInv
<1>3. IInv => NothingLost
  BY ShapeNothingLost
<1>4. QED
  BY <1>1, <1>2, <1>3, PTL DEF Spec
-----------------------------------------------------------------------------
(* The sequence a caller sees: a node with index i holds element i.        *)
LEMMA ListBarIs ==
  IInv => /\ listBar \in [1 .. len -> Value]
          /\ \A n \in DOMAIN heap : listBar[heap[n].i + 1] = heap[n].o
<1> SUFFICES ASSUME IInv
             PROVE  /\ listBar \in [1 .. len -> Value]
                    /\ \A n \in DOMAIN heap : listBar[heap[n].i + 1] = heap[n].o
  OBVIOUS
<1>1. \A n \in DOMAIN heap :
        /\ heap[n].i \in 0 .. len - 1
        /\ heap[n].o \in Value
        /\ At(heap[n].i) = n
  BY DEF IInv, TypeOK, Shape, Indexed, At
<1>2. \A k \in 1 .. len : At(k - 1) \in DOMAIN heap
  <2> SUFFICES ASSUME NEW k \in 1 .. len
               PROVE  At(k - 1) \in DOMAIN heap
    OBVIOUS
  <2>1. k - 1 \in 0 .. len - 1
    BY DEF IInv, TypeOK
  <2>2. QED
    BY <2>1, <1>1 DEF IInv, Shape, Indexed
<1>3. QED
  BY <1>1, <1>2 DEF listBar, IInv, TypeOK

(* A sequence of that length that agrees with every node is that sequence. *)
LEMMA ListBarUnique ==
  IInv => \A s \in [1 .. len -> Value] :
            (\A n \in DOMAIN heap : s[heap[n].i + 1] = heap[n].o) => s = listBar
<1> SUFFICES ASSUME IInv, NEW s \in [1 .. len -> Value],
                    \A n \in DOMAIN heap : s[heap[n].i + 1] = heap[n].o
             PROVE  s = listBar
  OBVIOUS
<1>1. ASSUME NEW k \in 1 .. len
      PROVE  s[k] = listBar[k]
  <2>1. k - 1 \in 0 .. len - 1
    BY DEF IInv, TypeOK
  <2>2. PICK n \in DOMAIN heap : heap[n].i = k - 1
    BY <2>1 DEF IInv, Shape, Indexed
  <2>3. QED
    BY <2>2, ListBarIs
<1>2. listBar \in [1 .. len -> Value]
  BY ListBarIs
<1>3. s = [k \in 1 .. len |-> s[k]] /\ listBar = [k \in 1 .. len |-> listBar[k]]
  BY <1>2
<1>4. QED
  BY <1>1, <1>3

(* Where an iterator stands for a caller.                                  *)
LEMMA PosBarIs ==
  IInv => /\ posBar \in [Iter -> Int]
          /\ \A x \in Iter :
               posBar[x] = IF it[x] = CLOSED THEN -2
                           ELSE IF x \in stale THEN -3
                           ELSE IF it[x] = NULL THEN -1
                           ELSE heap[it[x]].i
          /\ \A x \in Iter : it[x] \in DOMAIN heap /\ x \notin stale <=> posBar[x] >= 0
<1> SUFFICES ASSUME IInv
             PROVE  /\ posBar \in [Iter -> Int]
                    /\ \A x \in Iter :
                         posBar[x] = IF it[x] = CLOSED THEN -2
                                     ELSE IF x \in stale THEN -3
                                     ELSE IF it[x] = NULL THEN -1
                                     ELSE heap[it[x]].i
                    /\ \A x \in Iter : it[x] \in DOMAIN heap /\ x \notin stale
                                         <=> posBar[x] >= 0
  OBVIOUS
<1>1. \A x \in Iter :
        posBar[x] = IF it[x] = CLOSED THEN -2
                    ELSE IF x \in stale THEN -3
                    ELSE IF it[x] = NULL THEN -1
                    ELSE heap[it[x]].i
  BY DEF posBar
<1>2. \A m \in DOMAIN heap : heap[m].i \in Nat /\ m # NULL /\ m # CLOSED
  BY DEF IInv, TypeOK
<1>3. \A x \in Iter \ stale : it[x] \in DOMAIN heap \cup {NULL, CLOSED}
  BY DEF IInv, Shape, Cursors
<1>4. \A x \in Iter : posBar[x] \in Int
  BY <1>1, <1>2, <1>3
<1>5. posBar \in [Iter -> Int]
  BY <1>4 DEF posBar
<1>6. \A x \in Iter : it[x] \in DOMAIN heap /\ x \notin stale <=> posBar[x] >= 0
  BY <1>1, <1>2, <1>3
<1>7. QED
  BY <1>1, <1>5, <1>6

(* A call that leaves the list and the iterators alone leaves the view.    *)
LEMMA ViewUnchanged ==
  ASSUME UNCHANGED <<listVars, it, stale>>
  PROVE  alive' = alive /\ listBar' = listBar /\ posBar' = posBar
BY DEF listVars, listBar, posBar, At

(* The two facts about the view after a step, for use under a prime.       *)
LEMMA ViewAfter ==
  ASSUME IInv'
  PROVE  /\ \A s \in [1 .. len' -> Value] :
               (\A n \in DOMAIN heap' : s[heap'[n].i + 1] = heap'[n].o) => s = listBar'
         /\ \A x \in Iter :
               posBar'[x] = IF it'[x] = CLOSED THEN -2
                            ELSE IF x \in stale' THEN -3
                            ELSE IF it'[x] = NULL THEN -1
                            ELSE heap'[it'[x]].i
<1>1. (IInv => \A s \in [1 .. len -> Value] :
            (\A n \in DOMAIN heap : s[heap[n].i + 1] = heap[n].o) => s = listBar)'
  BY ListBarUnique, PTL
<1>2. \A x \in Iter :
        posBar'[x] = IF it'[x] = CLOSED THEN -2
                     ELSE IF x \in stale' THEN -3
                     ELSE IF it'[x] = NULL THEN -1
                     ELSE heap'[it'[x]].i
  BY DEF posBar
<1>3. QED
  BY <1>1, <1>2

(* An iterator's position is a function on the iterators.                  *)
LEMMA PosBarUnique ==
  ASSUME NEW p, p = [x \in Iter |-> p[x]], \A x \in Iter : p[x] = posBar'[x]
  PROVE  posBar' = p
<1>1. posBar' = [x \in Iter |-> posBar'[x]]
  BY DEF posBar
<1>2. QED
  BY <1>1

-----------------------------------------------------------------------------
(* add appends to the sequence and moves no iterator.                      *)
LEMMA AddRefines ==
  ASSUME IInv, IInv', alive, NEW call, NEW o \in Value, AddNode(call, o)
  PROVE  /\ listBar' = Append(listBar, o)
         /\ posBar' = posBar
<1>1. PICK n \in Node \ DOMAIN heap : AddEffect(n, o)
  BY AddNodeEffect
<1>2. len' = len + 1 /\ it' = it /\ stale' = stale
  BY DEF AddNode
<1>3. /\ listBar \in [1 .. len -> Value] /\ len \in Nat
      /\ \A m \in DOMAIN heap : listBar[heap[m].i + 1] = heap[m].o
      /\ \A m \in DOMAIN heap : heap[m].i \in Nat /\ heap[m].i < len
  BY ListBarIs DEF IInv, TypeOK, Shape, Indexed
<1>4. listBar' = Append(listBar, o)
  <2> DEFINE s == Append(listBar, o)
  <2>1. listBar \in Seq(Value) /\ Len(listBar) = len
    BY <1>3
  <2>2. /\ s \in [1 .. len' -> Value]
        /\ \A k \in 1 .. len : s[k] = listBar[k]
        /\ s[len + 1] = o
    <3>1. /\ s \in Seq(Value) /\ Len(s) = len + 1
          /\ \A k \in 1 .. len : s[k] = listBar[k]
          /\ s[len + 1] = o
      BY <2>1, AppendProperties
    <3> HIDE DEF s
    <3>2. QED
      BY <3>1, <1>2, LenProperties
  <2> HIDE DEF s
  <2>3. ASSUME NEW m \in DOMAIN heap'
        PROVE  s[heap'[m].i + 1] = heap'[m].o
    <3>1. CASE m = n
      BY <3>1, <1>1, <2>2 DEF AddEffect
    <3>2. CASE m \in DOMAIN heap
      <4>1. heap[m].i + 1 \in 1 .. len
        BY <3>2, <1>3
      <4>2. heap'[m].i = heap[m].i /\ heap'[m].o = heap[m].o
        BY <3>2, <1>1 DEF AddEffect
      <4>3. QED
        BY <3>2, <4>1, <4>2, <1>3, <2>2
    <3>3. QED
      BY <3>1, <3>2, <1>1 DEF AddEffect
  <2>4. QED
    BY <2>2, <2>3, ViewAfter DEF s
<1>5. posBar' = posBar
  <2>1. \A x \in Iter \ stale : it[x] \in DOMAIN heap \cup {NULL, CLOSED}
    BY DEF IInv, Shape, Cursors
  <2>2. \A m \in DOMAIN heap : heap'[m].i = heap[m].i
    BY <1>1 DEF AddEffect
  <2>3. \A x \in Iter : posBar[x] = posBar'[x]
    BY <1>2, <2>1, <2>2, PosBarIs, ViewAfter
  <2>4. QED
    BY <2>3, PosBarUnique DEF posBar
<1>6. QED
  BY <1>4, <1>5

(* insert puts the value at its index and moves the iterators behind it.   *)
LEMMA LinkRefines ==
  ASSUME IInv, IInv', NEW i \in Nat, i <= len, head # NULL, NEW o \in Value,
         NEW prev, prev = IF i = 0 THEN NULL ELSE GetNode(i - 1),
         NEW n \in Node \ DOMAIN heap,
         LinkAfter(prev, n, i, o),
         len' = len + 1, UNCHANGED <<it, stale>>
  PROVE  /\ listBar' = L!InsertedAt(listBar, i, o)
         /\ posBar' = [x \in Iter |-> IF posBar[x] >= i THEN posBar[x] + 1
                                       ELSE posBar[x]]
<1> DEFINE after == IF prev = NULL THEN head ELSE heap[prev].next
<1>1. LinkEffect(prev, after, n, i, o)
  BY LinkHasEffect
<1> HIDE DEF after
<1>2. /\ DOMAIN heap' = DOMAIN heap \cup {n}
      /\ heap'[n].i = i /\ heap'[n].o = o
      /\ \A m \in DOMAIN heap :
           /\ heap'[m].i = IF heap[m].i >= i THEN heap[m].i + 1 ELSE heap[m].i
           /\ heap'[m].o = heap[m].o
  BY <1>1 DEF LinkEffect
<1>3. /\ listBar \in [1 .. len -> Value] /\ len \in Nat
      /\ \A m \in DOMAIN heap : listBar[heap[m].i + 1] = heap[m].o
      /\ \A m \in DOMAIN heap : heap[m].i \in Nat /\ heap[m].i < len
  BY ListBarIs DEF IInv, TypeOK, Shape, Indexed
<1>4. listBar' = L!InsertedAt(listBar, i, o)
  <2> DEFINE s == L!InsertedAt(listBar, i, o)
  <2>1. Len(listBar) = len
    BY <1>3
  <2>2. s = [k \in 1 .. len + 1 |-> IF k <= i THEN listBar[k]
                                    ELSE IF k = i + 1 THEN o ELSE listBar[k - 1]]
    BY <2>1 DEF L!InsertedAt
  <2> HIDE DEF s
  <2>3. s \in [1 .. len' -> Value]
    <3>1. /\ \A k \in 1 .. len + 1 : k <= i => k \in 1 .. len
          /\ \A k \in 1 .. len + 1 :
               ~(k <= i) /\ k # i + 1 => k - 1 \in 1 .. len
      BY <1>3
    <3>2. QED
      BY <1>3, <2>2, <3>1
  <2>4. ASSUME NEW m \in DOMAIN heap'
        PROVE  s[heap'[m].i + 1] = heap'[m].o
    <3>1. CASE m = n
      BY <3>1, <1>2, <1>3, <2>2
    <3>2. CASE m \in DOMAIN heap
      <4>1. /\ heap[m].i \in Nat /\ heap[m].i < len
            /\ listBar[heap[m].i + 1] = heap[m].o
            /\ heap'[m].o = heap[m].o
        BY <3>2, <1>2, <1>3
      <4>0. heap'[m].i = IF heap[m].i >= i THEN heap[m].i + 1 ELSE heap[m].i
        BY <3>2, <1>2
      <4>2. CASE heap[m].i >= i
        <5>1. heap'[m].i + 1 \in 1 .. len + 1 /\ heap'[m].i + 1 > i + 1
          BY <4>0, <4>1, <4>2, <1>3
        <5>2. s[heap'[m].i + 1] = listBar[heap'[m].i]
          BY <5>1, <2>2, <4>0, <4>1
        <5>3. QED
          BY <4>0, <4>1, <4>2, <5>2
      <4>3. CASE ~(heap[m].i >= i)
        <5>1. heap'[m].i + 1 \in 1 .. len + 1 /\ heap'[m].i + 1 <= i
          BY <4>0, <4>1, <4>3, <1>3
        <5>2. s[heap'[m].i + 1] = listBar[heap'[m].i + 1]
          BY <5>1, <2>2
        <5>3. QED
          BY <4>0, <4>1, <4>3, <5>2
      <4>4. QED
        BY <4>2, <4>3
    <3>3. QED
      BY <3>1, <3>2, <1>2
  <2>5. QED
    BY <2>3, <2>4, ViewAfter DEF s
<1>5. posBar' = [x \in Iter |-> IF posBar[x] >= i THEN posBar[x] + 1 ELSE posBar[x]]
  <2>1. \A x \in Iter \ stale : it[x] \in DOMAIN heap \cup {NULL, CLOSED}
    BY DEF IInv, Shape, Cursors
  <2>2. NULL \notin DOMAIN heap /\ CLOSED \notin DOMAIN heap /\ it' = it /\ stale' = stale
    BY DEF IInv, TypeOK
  <2>3. ASSUME NEW x \in Iter
        PROVE  posBar'[x] = IF posBar[x] >= i THEN posBar[x] + 1 ELSE posBar[x]
    <3>1. CASE it[x] \in DOMAIN heap /\ x \notin stale
      BY <3>1, <2>2, <1>2, <1>3, PosBarIs, ViewAfter
    <3>2. CASE ~(it[x] \in DOMAIN heap /\ x \notin stale)
      BY <3>2, <2>1, <2>2, PosBarIs, ViewAfter
    <3>3. QED
      BY <3>1, <3>2
  <2> DEFINE p == [x \in Iter |-> IF posBar[x] >= i THEN posBar[x] + 1 ELSE posBar[x]]
  <2>4. p = [x \in Iter |-> p[x]] /\ \A x \in Iter : p[x] = posBar'[x]
    BY <2>3
  <2> HIDE DEF p
  <2>5. posBar' = p
    BY <2>4, PosBarUnique
  <2>6. QED
    BY <2>5 DEF p
<1>6. QED
  BY <1>4, <1>5
(* An insert into the empty list is an add of the code (:80-82), and the   *)
(* same step of the sequence.                                              *)
LEMMA InsertEmptyRefines ==
  ASSUME IInv, head = NULL, NEW o \in Value
  PROVE  /\ L!InsertedAt(listBar, 0, o) = Append(listBar, o)
         /\ posBar = [x \in Iter |-> IF posBar[x] >= 0 THEN posBar[x] + 1
                                      ELSE posBar[x]]
<1>1. DOMAIN heap = {} /\ len = 0
  BY DEF IInv, TypeOK, Shape, Ends
<1>2. listBar \in Seq(Value) /\ Len(listBar) = 0
  BY <1>1, ListBarIs
<1>3. L!InsertedAt(listBar, 0, o) = Append(listBar, o)
  <2>1. L!InsertedAt(listBar, 0, o) = [k \in 1 .. 1 |-> o]
    BY <1>2 DEF L!InsertedAt
  <2> DEFINE s == Append(listBar, o)
  <2>2. s \in Seq(Value) /\ Len(s) = 1 /\ s[1] = o
    BY <1>2, AppendProperties
  <2> HIDE DEF s
  <2>3. s = [k \in 1 .. 1 |-> o]
    <3>1. s \in [1 .. 1 -> Value]
      BY <2>2, LenProperties
    <3>2. s = [k \in 1 .. 1 |-> s[k]]
      BY <3>1
    <3>3. QED
      BY <2>2, <3>2
  <2>4. QED
    BY <2>1, <2>3 DEF s
<1>4. \A x \in Iter : ~(posBar[x] >= 0)
  BY <1>1, PosBarIs
<1>5. QED
  BY <1>3, <1>4 DEF posBar

LEMMA InsertRefines ==
  ASSUME IInv, IInv', NEW i \in Index, NEW o \in Value, Insert(i, o)
  PROVE  L!Insert(i, o)
<1>0. alive /\ i \in Nat /\ len \in Nat /\ Len(listBar) = len
  BY ListBarIs DEF Insert, Index, IInv, TypeOK
<1>1. CASE i > len
  <2>1. Fail(<<"insert", i>>)
    BY <1>1 DEF Insert
  <2>2. /\ ret' = Answer(<<"insert", i>>, -1, NoValue)
        /\ alive' = alive /\ listBar' = listBar /\ posBar' = posBar
    BY <2>1, ViewUnchanged DEF Fail
  <2>3. ~(i <= Len(listBar))
    BY <1>0, <1>1
  <2>4. QED
    BY <1>0, <2>2, <2>3 DEF L!Insert, L!Fail, L!Answer, Answer
<1>2. CASE i <= len /\ i = 0 /\ head = NULL
  <2>1. AddNode(<<"insert", i>>, o)
    BY <1>0, <1>2 DEF Insert
  <2>2. /\ listBar' = L!InsertedAt(listBar, i, o)
        /\ posBar' = [x \in Iter |-> IF posBar[x] >= i THEN posBar[x] + 1
                                      ELSE posBar[x]]
    BY <1>0, <1>2, <2>1, AddRefines, InsertEmptyRefines
  <2>3. alive' = alive /\ ret' = Answer(<<"insert", i>>, len + 1, NoValue)
    BY <2>1 DEF AddNode
  <2>4. i <= Len(listBar)
    BY <1>0, <1>2
  <2>5. QED
    BY <1>0, <2>2, <2>3, <2>4 DEF L!Insert, L!Answer, Answer
<1>3. CASE i <= len /\ head # NULL
  <2>0. ~(i > len) /\ ~(i = 0 /\ head = NULL)
    BY <1>0, <1>3
  <2>1. PICK n \in Node \ DOMAIN heap :
          LinkAfter(IF i = 0 THEN NULL ELSE GetNode(i - 1), n, i, o)
    BY <2>0, Zenon DEF Insert
  <2>2. /\ len' = len + 1
        /\ ret' = Answer(<<"insert", i>>, len + 1, NoValue)
        /\ UNCHANGED <<alive, it, stale>>
    BY <2>0, Zenon DEF Insert
  <2>3. /\ listBar' = L!InsertedAt(listBar, i, o)
        /\ posBar' = [x \in Iter |-> IF posBar[x] >= i THEN posBar[x] + 1
                                      ELSE posBar[x]]
    BY <1>0, <1>3, <2>1, <2>2, LinkRefines
  <2>4. i <= Len(listBar)
    BY <1>0, <1>3
  <2>5. QED
    BY <1>0, <2>2, <2>3, <2>4 DEF L!Insert, L!Answer, Answer
<1>4. i > len \/ (i <= len /\ i = 0 /\ head = NULL) \/ (i <= len /\ head # NULL)
  BY <1>0 DEF IInv, TypeOK, Shape, Ends
<1>5. QED
  BY <1>1, <1>2, <1>3, <1>4

(* remove and pop take one value out and strand the iterators on it.       *)
LEMMA UnlinkRefines ==
  ASSUME IInv, IInv', NEW i \in Nat, i < len,
         NEW prev, prev = IF i = 0 THEN NULL ELSE GetNode(i - 1),
         NEW n, n = IF i = 0 THEN head ELSE heap[prev].next,
         Unlink(prev, n),
         len' = len - 1, it' = it, stale' = stale \cup {x \in Iter : it[x] = n}
  PROVE  /\ heap[n].o = listBar[i + 1]
         /\ listBar' = L!RemovedAt(listBar, i)
         /\ posBar' = [x \in Iter |-> IF posBar[x] = i THEN L!Invalid
                                       ELSE IF posBar[x] > i THEN posBar[x] - 1
                                       ELSE posBar[x]]
<1>1. /\ n \in DOMAIN heap /\ heap[n].i = i
      /\ \A m \in DOMAIN heap : heap[m].i \in Nat /\ heap[m].i < len
      /\ \A m \in DOMAIN heap : heap[m].i = i <=> m = n
      /\ len \in Nat
  BY RemovedPlaceIs
<1>2. /\ DOMAIN heap' = DOMAIN heap \ {n}
      /\ \A m \in DOMAIN heap \ {n} :
           /\ heap'[m].i = IF heap[m].i > i THEN heap[m].i - 1 ELSE heap[m].i
           /\ heap'[m].o = heap[m].o
  <2>1. UnlinkEffect(prev, n, i)
    BY UnlinkHasEffect
  <2>2. QED
    BY <2>1 DEF UnlinkEffect
<1>3. /\ listBar \in [1 .. len -> Value]
      /\ \A m \in DOMAIN heap : listBar[heap[m].i + 1] = heap[m].o
  BY ListBarIs
<1>4. listBar' = L!RemovedAt(listBar, i)
  <2> DEFINE s == L!RemovedAt(listBar, i)
  <2>1. Len(listBar) = len
    BY <1>1, <1>3
  <2>2. s = [k \in 1 .. len - 1 |-> IF k <= i THEN listBar[k] ELSE listBar[k + 1]]
    BY <2>1 DEF L!RemovedAt
  <2> HIDE DEF s
  <2>3. s \in [1 .. len' -> Value]
    <3>1. \A k \in 1 .. len - 1 : k \in 1 .. len /\ k + 1 \in 1 .. len
      BY <1>1
    <3>2. QED
      BY <1>3, <2>2, <3>1
  <2>4. ASSUME NEW m \in DOMAIN heap'
        PROVE  s[heap'[m].i + 1] = heap'[m].o
    <3>1. /\ m \in DOMAIN heap /\ heap[m].i \in Nat /\ heap[m].i < len
          /\ heap[m].i # i
          /\ listBar[heap[m].i + 1] = heap[m].o
          /\ heap'[m].o = heap[m].o
          /\ heap'[m].i = IF heap[m].i > i THEN heap[m].i - 1 ELSE heap[m].i
      BY <1>1, <1>2, <1>3
    <3>2. CASE heap[m].i > i
      BY <3>1, <3>2, <1>1, <2>2
    <3>3. CASE ~(heap[m].i > i)
      BY <3>1, <3>3, <1>1, <2>2
    <3>4. QED
      BY <3>2, <3>3
  <2>5. QED
    BY <2>3, <2>4, ViewAfter DEF s
<1>5. posBar' = [x \in Iter |-> IF posBar[x] = i THEN L!Invalid
                                ELSE IF posBar[x] > i THEN posBar[x] - 1
                                ELSE posBar[x]]
  <2>1. \A x \in Iter \ stale : it[x] \in DOMAIN heap \cup {NULL, CLOSED}
    BY DEF IInv, Shape, Cursors
  <2>2. NULL \notin DOMAIN heap /\ CLOSED \notin DOMAIN heap /\ NULL # CLOSED
    BY DEF IInv, TypeOK
  <2>3. ASSUME NEW x \in Iter
        PROVE  posBar'[x] = IF posBar[x] = i THEN -3
                            ELSE IF posBar[x] > i THEN posBar[x] - 1
                            ELSE posBar[x]
    <3>1. CASE it[x] \in DOMAIN heap /\ x \notin stale
      <4>1. posBar[x] = heap[it[x]].i
        BY <3>1, <2>2, PosBarIs
      <4>2. CASE it[x] = n
        BY <3>1, <4>1, <4>2, <1>1, <2>2, ViewAfter
      <4>3. CASE it[x] # n
        <5>1. posBar'[x] = heap'[it[x]].i
          BY <3>1, <4>3, <2>2, ViewAfter
        <5>2. /\ heap[it[x]].i # i /\ heap[it[x]].i \in Nat
              /\ heap'[it[x]].i = IF heap[it[x]].i > i THEN heap[it[x]].i - 1
                                  ELSE heap[it[x]].i
          BY <3>1, <4>3, <1>1, <1>2
        <5>3. QED
          BY <4>1, <5>1, <5>2
      <4>4. QED
        BY <4>2, <4>3
    <3>2. CASE it[x] \in DOMAIN heap /\ x \in stale
      BY <3>2, <2>2, PosBarIs, ViewAfter
    <3>3. CASE it[x] \notin DOMAIN heap
      BY <3>3, <2>1, <2>2, <1>1, PosBarIs, ViewAfter
    <3>4. QED
      BY <3>1, <3>2, <3>3
  <2> DEFINE p == [x \in Iter |-> IF posBar[x] = i THEN L!Invalid
                                  ELSE IF posBar[x] > i THEN posBar[x] - 1
                                  ELSE posBar[x]]
  <2>4. p = [x \in Iter |-> p[x]] /\ \A x \in Iter : p[x] = posBar'[x]
    BY <2>3 DEF L!Invalid
  <2> HIDE DEF p
  <2>5. posBar' = p
    BY <2>4, PosBarUnique
  <2>6. QED
    BY <2>5 DEF p
<1>6. QED
  BY <1>1, <1>3, <1>4, <1>5

LEMMA RemoveRefines ==
  ASSUME IInv, IInv', alive, NEW i \in Nat, NEW call, RemoveNode(call, i)
  PROVE  L!Take(call, i)
<1>0. len \in Nat /\ Len(listBar) = len
  BY ListBarIs DEF IInv, TypeOK
<1>1. CASE i >= len
  <2>1. Fail(call)
    BY <1>1 DEF RemoveNode
  <2>2. /\ ret' = Answer(call, -1, NoValue)
        /\ alive' = alive /\ listBar' = listBar /\ posBar' = posBar
    BY <2>1, ViewUnchanged DEF Fail
  <2>3. ~(i < Len(listBar))
    BY <1>0, <1>1
  <2>4. QED
    BY <2>2, <2>3 DEF L!Take, L!Fail, L!Answer, Answer
<1>2. CASE i < len
  <2> DEFINE prev == IF i = 0 THEN NULL ELSE GetNode(i - 1)
             n    == IF i = 0 THEN head ELSE heap[prev].next
  <2>1. /\ Unlink(prev, n)
        /\ len' = len - 1
        /\ ret' = Answer(call, 0, heap[n].o)
        /\ stale' = stale \cup {x \in Iter : it[x] = n}
        /\ UNCHANGED <<alive, it>>
    <3>1. ~(i >= len)
      BY <1>0, <1>2
    <3>2. QED
      BY <3>1 DEF RemoveNode
  <2> HIDE DEF n
  <2>2. n = IF i = 0 THEN head ELSE heap[prev].next
    BY DEF n
  <2> HIDE DEF prev
  <2>3. prev = IF i = 0 THEN NULL ELSE GetNode(i - 1)
    BY DEF prev
  <2>4. /\ heap[n].o = listBar[i + 1]
        /\ listBar' = L!RemovedAt(listBar, i)
        /\ posBar' = [x \in Iter |-> IF posBar[x] = i THEN L!Invalid
                                      ELSE IF posBar[x] > i THEN posBar[x] - 1
                                      ELSE posBar[x]]
    BY <1>2, <2>1, <2>2, <2>3, UnlinkRefines
  <2>5. i < Len(listBar)
    BY <1>0, <1>2
  <2>6. QED
    BY <2>1, <2>4, <2>5 DEF L!Take, L!Answer, Answer
<1>3. QED
  BY <1>0, <1>1, <1>2
-----------------------------------------------------------------------------
(* An iterator opens at the first element and moves to the next one.       *)
LEMMA IterOpenRefines ==
  ASSUME IInv, IInv', NEW x \in Iter, IterOpen(x)
  PROVE  L!IterOpen(x)
<1>1. /\ alive /\ it[x] = CLOSED /\ it' = [it EXCEPT ![x] = head]
      /\ ret' = Answer(<<"iterator", x>>, 0, NoValue)
      /\ UNCHANGED <<listVars, stale>>
  BY DEF IterOpen
<1>2. listBar' = listBar /\ alive' = alive /\ heap' = heap /\ stale' = stale
  BY <1>1 DEF listVars, listBar, At
<1>3. posBar[x] = -2 /\ x \notin stale
  BY <1>1, PosBarIs DEF IInv, TypeOK, Shape, Cursors
<1>4. posBar' = [posBar EXCEPT ![x] = IF listBar = <<>> THEN -1 ELSE 0]
  <2>1. CASE head = NULL
    <3>1. listBar = <<>>
      BY <2>1 DEF listBar, IInv, TypeOK, Shape, Ends
    <3>2. posBar'[x] = -1
      BY <2>1, <1>1, <1>2, <1>3, ViewAfter DEF IInv, TypeOK
    <3>3. QED
      BY <1>1, <1>2, <3>1, <3>2 DEF posBar, IInv, TypeOK
  <2>2. CASE head # NULL
    <3>1. head \in DOMAIN heap /\ head # CLOSED /\ heap[head].i = 0
      BY <2>2 DEF IInv, TypeOK, Shape, Ends
    <3>2. len # 0
      BY <3>1 DEF IInv, TypeOK, Shape, Indexed
    <3>3. listBar # <<>>
      BY <3>2, ListBarIs DEF IInv, TypeOK
    <3>4. posBar'[x] = 0
      BY <2>2, <3>1, <1>1, <1>2, <1>3, ViewAfter DEF IInv, TypeOK
    <3>5. QED
      BY <1>1, <1>2, <3>3, <3>4 DEF posBar, IInv, TypeOK
  <2>3. QED
    BY <2>1, <2>2
<1>5. QED
  BY <1>1, <1>2, <1>3, <1>4 DEF L!IterOpen, L!Closed, L!Exhausted, L!Answer, Answer

LEMMA IterNextRefines ==
  ASSUME IInv, IInv', NEW x \in Iter, IterNext(x)
  PROVE  L!IterNext(x)
<1>0. it[x] # CLOSED /\ x \notin stale
  BY DEF IterNext
<1>1. CASE it[x] = NULL
  <2>1. Fail(<<"next", x>>)
    BY <1>1 DEF IterNext
  <2>2. /\ ret' = Answer(<<"next", x>>, -1, NoValue)
        /\ alive' = alive /\ listBar' = listBar /\ posBar' = posBar
    BY <2>1, ViewUnchanged DEF Fail
  <2>3. posBar[x] = -1
    BY <1>0, <1>1, PosBarIs
  <2>4. QED
    BY <2>2, <2>3 DEF L!IterNext, L!Fail, L!Exhausted, L!Answer, Answer
<1>2. CASE it[x] # NULL
  <2>1. /\ ret' = Answer(<<"next", x>>, 0, heap[it[x]].o)
        /\ it' = [it EXCEPT ![x] = heap[it[x]].next]
        /\ UNCHANGED <<listVars, stale>>
    BY <1>2 DEF IterNext
  <2>2. /\ listBar' = listBar /\ alive' = alive /\ heap' = heap /\ stale' = stale
    BY <2>1 DEF listVars, listBar, At
  <2>3. /\ it[x] \in DOMAIN heap /\ heap[it[x]].i \in Nat /\ heap[it[x]].i < len
        /\ len \in Nat /\ Len(listBar) = len
        /\ listBar[heap[it[x]].i + 1] = heap[it[x]].o
    BY <1>0, <1>2, ListBarIs DEF IInv, TypeOK, Shape, Cursors, Indexed
  <2>4. posBar[x] = heap[it[x]].i
    BY <1>0, <1>2, PosBarIs
  <2>5. it'[x] = heap[it[x]].next /\ \A y \in Iter : y # x => it'[y] = it[y]
    BY <2>1 DEF IInv, TypeOK
  <2>6. posBar'[x] = IF posBar[x] + 1 = len THEN -1 ELSE posBar[x] + 1
    <3>1. CASE it[x] = tail
      <4>1. heap[it[x]].next = NULL /\ heap[it[x]].i = len - 1
        BY <2>3, <3>1 DEF IInv, TypeOK, Shape, Chained, Ends
      <4>2. posBar'[x] = -1
        BY <4>1, <1>0, <2>2, <2>5, ViewAfter
      <4>3. QED
        BY <4>1, <4>2, <2>3, <2>4
    <3>2. CASE it[x] # tail
      <4>1. /\ heap[it[x]].next \in DOMAIN heap
            /\ heap[heap[it[x]].next].i = heap[it[x]].i + 1
            /\ heap[heap[it[x]].next].i < len
        BY <2>3, <3>2 DEF IInv, Shape, Chained, Indexed
      <4>2. heap[it[x]].next # NULL /\ heap[it[x]].next # CLOSED
        BY <4>1 DEF IInv, TypeOK
      <4>3. posBar'[x] = heap[it[x]].i + 1
        BY <4>1, <4>2, <1>0, <2>2, <2>5, ViewAfter
      <4>4. QED
        BY <4>1, <4>3, <2>3, <2>4
    <3>3. QED
      BY <3>1, <3>2
  <2>7. \A y \in Iter : y # x => posBar'[y] = posBar[y]
    BY <2>2, <2>5, PosBarIs, ViewAfter
  <2> DEFINE p == [posBar EXCEPT ![x] = IF posBar[x] + 1 = Len(listBar) THEN -1
                                        ELSE posBar[x] + 1]
  <2>8. posBar' = p
    <3>1. p = [y \in Iter |-> p[y]] /\ \A y \in Iter : p[y] = posBar'[y]
      BY <2>3, <2>6, <2>7, PosBarIs
    <3> HIDE DEF p
    <3>2. QED
      BY <3>1, PosBarUnique
  <2>9. QED
    BY <2>1, <2>2, <2>3, <2>4, <2>8 DEF L!IterNext, L!Exhausted, L!Answer, Answer
<1>3. QED
  BY <1>1, <1>2

LEMMA IterCloseRefines ==
  ASSUME IInv, IInv', NEW x \in Iter, IterClose(x)
  PROVE  L!IterClose(x)
<1>1. /\ it[x] # CLOSED
      /\ it' = [it EXCEPT ![x] = CLOSED]
      /\ stale' = stale \ {x}
      /\ ret' = Answer(<<"close", x>>, 0, NoValue)
      /\ UNCHANGED listVars
  BY DEF IterClose
<1>2. listBar' = listBar /\ alive' = alive /\ heap' = heap
  BY <1>1 DEF listVars, listBar, At
<1>3. posBar[x] # -2
  <2>1. \A m \in DOMAIN heap : heap[m].i # -2
    BY DEF IInv, TypeOK
  <2>2. x \in stale \/ it[x] = NULL \/ it[x] \in DOMAIN heap
    BY <1>1 DEF IInv, Shape, Cursors
  <2>3. QED
    BY <1>1, <2>1, <2>2, PosBarIs
<1>4. it'[x] = CLOSED /\ \A y \in Iter : y # x => it'[y] = it[y]
  BY <1>1 DEF IInv, TypeOK
<1>5. posBar'[x] = -2 /\ \A y \in Iter : y # x => posBar'[y] = posBar[y]
  BY <1>1, <1>2, <1>4, PosBarIs, ViewAfter
<1> DEFINE p == [posBar EXCEPT ![x] = -2]
<1>6. posBar' = p
  <2>1. p = [y \in Iter |-> p[y]] /\ \A y \in Iter : p[y] = posBar'[y]
    BY <1>5, PosBarIs
  <2> HIDE DEF p
  <2>2. QED
    BY <2>1, PosBarUnique
<1>7. QED
  BY <1>1, <1>2, <1>3, <1>6 DEF L!IterClose, L!Closed, L!Answer, Answer

LEMMA FreeRefines ==
  ASSUME IInv, IInv', Free
  PROVE  L!Free
<1>1. /\ alive /\ alive' = FALSE /\ len' = 0 /\ it' = it
      /\ stale' = stale \cup {x \in Iter : it[x] \in Follow(head)}
      /\ ret' = Answer(<<"free">>, 0, NoValue)
  BY DEF Free
<1>2. listBar' = <<>>
  BY <1>1 DEF listBar
<1>3. \A x \in Iter : it[x] \in DOMAIN heap <=> it[x] \in Follow(head)
  BY FollowHead
<1>4. \A x \in Iter : posBar'[x] = IF posBar[x] >= 0 THEN -3 ELSE posBar[x]
  <2>1. \A x \in Iter \ stale : it[x] \in DOMAIN heap \cup {NULL, CLOSED}
    BY DEF IInv, Shape, Cursors
  <2>2. NULL \notin DOMAIN heap /\ CLOSED \notin DOMAIN heap /\ NULL # CLOSED
    BY DEF IInv, TypeOK
  <2> SUFFICES ASSUME NEW x \in Iter
               PROVE  posBar'[x] = IF posBar[x] >= 0 THEN -3 ELSE posBar[x]
    OBVIOUS
  <2>3. CASE it[x] \in DOMAIN heap
    BY <2>3, <2>2, <1>1, <1>3, PosBarIs, ViewAfter
  <2>4. CASE it[x] \notin DOMAIN heap
    BY <2>4, <2>1, <2>2, <1>1, <1>3, PosBarIs, ViewAfter
  <2>5. QED
    BY <2>3, <2>4
<1> DEFINE p == [x \in Iter |-> IF posBar[x] >= 0 THEN L!Invalid ELSE posBar[x]]
<1>5. posBar' = p
  <2>1. p = [y \in Iter |-> p[y]] /\ \A y \in Iter : p[y] = posBar'[y]
    BY <1>4 DEF L!Invalid
  <2> HIDE DEF p
  <2>2. QED
    BY <2>1, PosBarUnique
<1>6. QED
  BY <1>1, <1>2, <1>5 DEF L!Free, L!Disturbed, L!Answer, Answer
(* Where a cursor stands tells the calls on it apart.                      *)
LEMMA OpenIs ==
  IInv => \A x \in Iter :
            /\ it[x] # CLOSED <=> posBar[x] # -2
            /\ x \in stale <=> posBar[x] = -3
            /\ x \notin stale => (it[x] = NULL <=> posBar[x] = -1)
<1> SUFFICES ASSUME IInv, NEW x \in Iter
             PROVE  /\ it[x] # CLOSED <=> posBar[x] # -2
                    /\ x \in stale <=> posBar[x] = -3
                    /\ x \notin stale => (it[x] = NULL <=> posBar[x] = -1)
  OBVIOUS
<1>1. \A m \in DOMAIN heap : heap[m].i \in Nat /\ m # NULL /\ m # CLOSED
  BY DEF IInv, TypeOK
<1>2. /\ x \notin stale => it[x] \in DOMAIN heap \cup {NULL, CLOSED}
      /\ x \in stale => it[x] \in Node
  BY DEF IInv, Shape, Cursors
<1>3. NULL \notin Node /\ CLOSED \notin Node /\ NULL # CLOSED
  OBVIOUS
<1>4. CASE x \in stale
  BY <1>2, <1>3, <1>4, PosBarIs
<1>5. CASE x \notin stale
  BY <1>1, <1>2, <1>3, <1>5, PosBarIs
<1>6. QED
  BY <1>4, <1>5

(* Every step of the linked list is a step of the sequence, or none.       *)
LEMMA StepRefines ==
  IInv /\ IInv' /\ [Next]_vars => [L!Next]_<<alive, listBar, posBar, ret>>
<1> SUFFICES ASSUME IInv, IInv', [Next]_vars
             PROVE  [L!Next]_<<alive, listBar, posBar, ret>>
  OBVIOUS
<1>0. len \in Nat /\ Len(listBar) = len
  BY ListBarIs DEF IInv, TypeOK
<1>1. CASE Size
  <2>1. /\ alive /\ ret' = Answer(<<"size">>, len, NoValue)
        /\ alive' = alive /\ listBar' = listBar /\ posBar' = posBar
    BY <1>1, ViewUnchanged DEF Size
  <2>2. L!Size
    BY <2>1, <1>0 DEF L!Size, L!Answer, Answer
  <2>3. QED
    BY <2>2 DEF L!Next
<1>2. CASE Pop
  <2>1. L!Pop
    BY <1>2, RemoveRefines DEF Pop, L!Pop
  <2>2. QED
    BY <2>1 DEF L!Next
<1>3. CASE Free
  BY <1>3, FreeRefines DEF L!Next
<1>4. CASE New
  <2>1. DOMAIN heap = {} /\ heap' = heap /\ len = 0 /\ len' = 0
    BY <1>4 DEF New, IInv, TypeOK, Shape, Ends
  <2>2. listBar' = listBar /\ posBar' = posBar
    BY <1>4, <2>1 DEF New, listBar, posBar, At
  <2>3. L!New
    BY <1>4, <2>2 DEF New, L!New, L!Answer, Answer
  <2>4. QED
    BY <2>3 DEF L!Next
<1>5. ASSUME NEW o \in Value, Add(o)
      PROVE  [L!Next]_<<alive, listBar, posBar, ret>>
  <2>1. alive /\ alive' = alive /\ ret' = Answer(<<"add">>, len + 1, NoValue)
    BY <1>5 DEF Add, AddNode
  <2>2. listBar' = Append(listBar, o) /\ posBar' = posBar
    BY <1>5, <2>1, AddRefines DEF Add
  <2>3. L!Add(o)
    BY <2>1, <2>2, <1>0 DEF L!Add, L!Answer, Answer
  <2>4. QED
    BY <2>3 DEF L!Next
<1>6. ASSUME NEW i \in Index, Get(i)
      PROVE  [L!Next]_<<alive, listBar, posBar, ret>>
  <2>0. i \in Nat /\ alive
    BY <1>6 DEF Get, Index
  <2>1. L!Get(i)
    <3>1. CASE i >= len
      <4>1. GetNode(i) = NULL
        BY <2>0, <3>1, GetNodeIs
      <4>2. Fail(<<"get", i>>)
        BY <1>6, <4>1 DEF Get
      <4>3. /\ ret' = Answer(<<"get", i>>, -1, NoValue)
            /\ alive' = alive /\ listBar' = listBar /\ posBar' = posBar
        BY <4>2, ViewUnchanged DEF Fail
      <4>4. ~(i < Len(listBar))
        BY <1>0, <2>0, <3>1
      <4>5. QED
        BY <2>0, <4>3, <4>4 DEF L!Get, L!Fail, L!Answer, Answer
    <3>2. CASE i < len
      <4>1. GetNode(i) \in DOMAIN heap /\ heap[GetNode(i)].i = i
        BY <2>0, <3>2, GetNodeIs
      <4>2. GetNode(i) # NULL
        BY <4>1 DEF IInv, TypeOK
      <4>3. heap[GetNode(i)].o = listBar[i + 1]
        BY <4>1, ListBarIs
      <4>4. /\ ret' = Answer(<<"get", i>>, 0, heap[GetNode(i)].o)
            /\ alive' = alive /\ listBar' = listBar /\ posBar' = posBar
        BY <1>6, <4>2, ViewUnchanged DEF Get
      <4>5. i < Len(listBar)
        BY <1>0, <3>2
      <4>6. QED
        BY <2>0, <4>3, <4>4, <4>5 DEF L!Get, L!Answer, Answer
    <3>3. QED
      BY <1>0, <2>0, <3>1, <3>2
  <2>2. QED
    BY <2>1 DEF L!Next, Index, L!Index
<1>7. ASSUME NEW i \in Index, Remove(i)
      PROVE  [L!Next]_<<alive, listBar, posBar, ret>>
  <2>1. L!Remove(i)
    BY <1>7, RemoveRefines DEF Remove, L!Remove, Index
  <2>2. QED
    BY <2>1 DEF L!Next, Index, L!Index
<1>8. ASSUME NEW i \in Index, NEW o \in Value, Insert(i, o)
      PROVE  [L!Next]_<<alive, listBar, posBar, ret>>
  <2>1. L!Insert(i, o)
    BY <1>8, InsertRefines
  <2>2. QED
    BY <2>1 DEF L!Next, Index, L!Index
<1>9. ASSUME NEW x \in Iter, IterOpen(x)
      PROVE  [L!Next]_<<alive, listBar, posBar, ret>>
  BY <1>9, IterOpenRefines DEF L!Next
<1>10. ASSUME NEW x \in Iter, IterNext(x)
       PROVE  [L!Next]_<<alive, listBar, posBar, ret>>
  BY <1>10, IterNextRefines DEF L!Next
<1>11. ASSUME NEW x \in Iter, IterNextStale(x)
       PROVE  [L!Next]_<<alive, listBar, posBar, ret>>
  <2>1. /\ posBar[x] = -3
        /\ alive' = alive /\ listBar' = listBar /\ posBar' = posBar
    BY <1>11, OpenIs, ViewUnchanged DEF IterNextStale, Fail
  <2>2. \/ ret' = Answer(<<"next", x>>, -1, NoValue)
        \/ \E o \in Value : ret' = Answer(<<"next", x>>, 0, o)
    BY <1>11 DEF IterNextStale, Fail
  <2>3. L!IterNext(x)
    BY <2>1, <2>2 DEF L!IterNext, L!Invalid, L!Fail, L!Answer, Answer
  <2>4. QED
    BY <2>3 DEF L!Next
<1>12. ASSUME NEW x \in Iter, IterHasNext(x)
       PROVE  [L!Next]_<<alive, listBar, posBar, ret>>
  <2>1. alive' = alive /\ listBar' = listBar /\ posBar' = posBar
    BY <1>12, ViewUnchanged DEF IterHasNext
  <2>2. L!IterHasNext(x)
    BY <1>12, <2>1, OpenIs
    DEF IterHasNext, L!IterHasNext, L!Closed, L!Invalid, L!Exhausted, L!Answer, Answer
  <2>3. QED
    BY <2>2 DEF L!Next
<1>13. ASSUME NEW x \in Iter, IterNextPair(x)
       PROVE  [L!Next]_<<alive, listBar, posBar, ret>>
  <2>1. alive' = alive /\ listBar' = listBar /\ posBar' = posBar
    BY <1>13, ViewUnchanged DEF IterNextPair, Fail
  <2>2. L!IterNextPair(x)
    BY <1>13, <2>1, OpenIs
    DEF IterNextPair, Fail, L!IterNextPair, L!Closed, L!Fail, L!Answer, Answer
  <2>3. QED
    BY <2>2 DEF L!Next
<1>14. ASSUME NEW x \in Iter, IterClose(x)
       PROVE  [L!Next]_<<alive, listBar, posBar, ret>>
  BY <1>14, IterCloseRefines DEF L!Next
<1>15. CASE UNCHANGED vars
  <2>1. alive' = alive /\ ret' = ret /\ listBar' = listBar /\ posBar' = posBar
    BY <1>15, ViewUnchanged DEF vars, listVars
  <2>2. QED
    BY <2>1
<1>16. QED
  BY <1>1, <1>2, <1>3, <1>4, <1>5, <1>6, <1>7, <1>8, <1>9, <1>10, <1>11,
     <1>12, <1>13, <1>14, <1>15 DEF Next

LEMMA InitRefines == Init => L!Init
BY DEF Init, L!Init, listBar, posBar, L!Closed, L!Answer, Answer

(* The linked list implements the list a caller of cosmic_list.h is        *)
(* promised: get, add, insert, remove, pop, free and the iterators do to   *)
(* the chain of nodes what ListSpec does to a sequence.                    *)
THEOREM LlistImplementsList == Spec => ImplementsList
<1>1. Init => IInv
  BY InitInv
<1>2. IInv /\ [Next]_vars => IInv'
  BY NextInv
<1>3. Init => L!Init
  BY InitRefines
<1>4. IInv /\ IInv' /\ [Next]_vars => [L!Next]_<<alive, listBar, posBar, ret>>
  BY StepRefines
<1>5. QED
  BY <1>1, <1>2, <1>3, <1>4, PTL DEF Spec, ImplementsList, L!Spec, L!vars
=============================================================================

---------------------------- MODULE DmapProofs -----------------------------
(***************************************************************************)
(* Proofs about Dmap, for every set of addresses, keys, values and         *)
(* iterators.                                                              *)
(*                                                                         *)
(* Type correctness together with the shape of the map is inductive.  The  *)
(* history order turns what is to be said of the whole chain into facts    *)
(* about neighbours; the lemma FollowIs turns them back into what a walk   *)
(* along next meets.                                                       *)
(***************************************************************************)
EXTENDS Dmap, FiniteSetTheorems, SequenceTheorems, TLAPS

IInv == TypeOK /\ Shape

USE DmapAssumption DEF Pointer, NodeRecord

-----------------------------------------------------------------------------
(* A set of naturals that has an element has a least one: the library says *)
(* so of a predicate that is an operator, which the provers cannot use.    *)
LEMMA LeastNatural ==
  ASSUME NEW T \in SUBSET Nat, T # {}
  PROVE  \E x \in T : \A y \in T : x <= y
<1> DEFINE R == StrictSubsetOrdering(Nat)
           D == {0 .. x : x \in T}
<1>1. \A x \in Nat : 0 .. x \in FiniteSubsetsOf(Nat)
  BY FS_Interval DEF FiniteSubsetsOf
<1>2. PICK x \in T : \A y \in T : ~ (<<0 .. y, 0 .. x>> \in R)
  <2>1. D # {} /\ D \subseteq FiniteSubsetsOf(Nat)
    BY <1>1
  <2>2. \E X \in D : \A Y \in D : ~ (<<Y, X>> \in R)
    <3> HIDE DEF R, D
    <3> QED
      BY <2>1, FS_StrictSubsetOrderingWellFounded, WFMin DEF R
  <2>3. QED
    BY <2>2
<1>3. ASSUME NEW y \in T, y < x
      PROVE  FALSE
  <2>1. 0 .. y \subseteq 0 .. x /\ x \in 0 .. x /\ x \notin 0 .. y
    BY <1>3
  <2>2. <<0 .. y, 0 .. x>> \in R
    BY <2>1 DEF StrictSubsetOrdering
  <2>3. QED
    BY <2>2, <1>2
<1>4. QED
  BY <1>3

-----------------------------------------------------------------------------
(* What the invariant says of the fields, for the provers.                 *)
LEMMA Fields ==
  ASSUME IInv
  PROVE  /\ len \in Nat
         /\ order \in [1 .. len -> DOMAIN heap]
         /\ \A i \in 1 .. len : order[i] \in DOMAIN heap
         /\ \A n \in DOMAIN heap : n \in Node /\ n # NULL /\ n # CLOSED
         /\ \A n \in DOMAIN heap : heap[n] \in NodeRecord
         /\ \A i, j \in 1 .. len : order[i] = order[j] => i = j
         /\ \A n \in DOMAIN heap : \E i \in 1 .. len : order[i] = n
BY DEF IInv, TypeOK, Shape, Ordered

LEMMA OrderIsSequence ==
  ASSUME IInv
  PROVE  order \in Seq(DOMAIN heap) /\ Len(order) = len
BY Fields

(* The chain from a node (cosmic_dmap.c:41-47) is that node and the ones   *)
(* added after it.                                                         *)
LEMMA FollowIs ==
  ASSUME IInv, NEW j \in 1 .. len
  PROVE  Follow(order[j]) = {order[i] : i \in j .. len}
<1> DEFINE U == {order[i] : i \in j .. len}
<1>0. j \in Nat /\ len \in Nat /\ j .. len \subseteq 1 .. len
  BY Fields
<1>1. U \subseteq DOMAIN heap /\ order[j] \in U
  BY <1>0, Fields
<1>2. Linked(U)
  <2> SUFFICES ASSUME NEW i \in j .. len
               PROVE  heap[order[i]].next \in U \cup {NULL}
    BY DEF Linked
  <2>1. heap[order[i]].next = IF i = len THEN NULL ELSE order[i + 1]
    BY <1>0 DEF IInv, Shape, Joined
  <2>2. CASE i = len
    BY <2>1, <2>2
  <2>3. CASE i # len
    <3>1. i + 1 \in j .. len
      BY <2>3, <1>0
    <3>2. QED
      BY <2>1, <2>3, <3>1
  <2>4. QED
    BY <2>2, <2>3
<1>3. ASSUME NEW S \in SUBSET DOMAIN heap, order[j] \in S, Linked(S),
             NEW m \in U, m \notin S
      PROVE  FALSE
  <2> DEFINE T == {i \in j .. len : order[i] \notin S}
  <2>1. T \in SUBSET Nat /\ T # {}
    BY <1>0, <1>3
  <2>2. PICK i \in T : \A y \in T : i <= y
    BY <2>1, LeastNatural
  <2>3. i \in j .. len /\ i # j /\ order[i] \notin S
    BY <1>3
  <2>4. i - 1 \in j .. len /\ i - 1 # len /\ i - 1 \in 1 .. len
    BY <2>3, <1>0
  <2>5. order[i - 1] \in S
    BY <2>2, <2>4
  <2>6. heap[order[i - 1]].next = order[i]
    <3>1. heap[order[i - 1]].next = IF i - 1 = len THEN NULL ELSE order[i - 1 + 1]
      BY <2>4 DEF IInv, Shape, Joined
    <3>2. i - 1 + 1 = i
      BY <2>3
    <3>3. QED
      BY <3>1, <3>2, <2>4
  <2>7. order[i] # NULL
    BY <2>3, <1>0, Fields
  <2>8. QED
    BY <1>3, <2>3, <2>5, <2>6, <2>7 DEF Linked
<1>4. order[j] # NULL
  BY Fields
<1>5. QED
  BY <1>1, <1>2, <1>3, <1>4 DEF Follow

(* From the head the chain meets every allocated node.                     *)
LEMMA FollowHead ==
  ASSUME IInv
  PROVE  Follow(head) = DOMAIN heap
<1>1. CASE len = 0
  <2>1. head = NULL
    BY <1>1 DEF IInv, Shape, Joined
  <2>2. DOMAIN heap = {}
    <3>1. 1 .. len = {}
      BY <1>1
    <3>2. QED
      BY <3>1, Fields
  <2>3. QED
    BY <2>1, <2>2 DEF Follow
<1>2. CASE len # 0
  <2>1. 1 \in 1 .. len /\ head = order[1]
    BY <1>2, Fields DEF IInv, Shape, Joined
  <2>2. Follow(head) = {order[i] : i \in 1 .. len}
    BY <2>1, FollowIs
  <2>3. {order[i] : i \in 1 .. len} \subseteq DOMAIN heap
    BY Fields
  <2>4. DOMAIN heap \subseteq {order[i] : i \in 1 .. len}
    BY Fields
  <2>5. QED
    BY <2>2, <2>3, <2>4
<1>3. QED
  BY <1>1, <1>2

(* The search by key (cosmic_dmap_get_node, :34-50) finds the one node     *)
(* that has it, or nothing.                                                *)
LEMMA GetNodeIs ==
  ASSUME IInv, NEW k
  PROVE  /\ \A n \in DOMAIN heap : heap[n].k = k => GetNode(k) = n
         /\ (\A n \in DOMAIN heap : heap[n].k # k) => GetNode(k) = NULL
         /\ GetNode(k) # NULL => GetNode(k) \in DOMAIN heap /\ heap[GetNode(k)].k = k
<1>1. ASSUME NEW n \in DOMAIN heap, heap[n].k = k
      PROVE  GetNode(k) = n
  <2>1. Hits(k) = {n}
    BY <1>1, FollowHead DEF Hits, IInv, Shape, KeysDistinct
  <2>2. len # 0 /\ head # NULL
    <3>1. PICK i \in 1 .. len : order[i] = n
      BY Fields
    <3>2. len # 0
      BY <3>1, Fields
    <3>3. 1 \in 1 .. len /\ head = order[1]
      BY <3>2, Fields DEF IInv, Shape, Joined
    <3>4. QED
      BY <3>2, <3>3, Fields
  <2>3. n \in Follow(n)
    <3>1. PICK i \in 1 .. len : order[i] = n
      BY Fields
    <3>2. i \in i .. len
      BY Fields
    <3>3. QED
      BY <3>1, <3>2, FollowIs
  <2>4. QED
    BY <2>1, <2>2, <2>3 DEF GetNode
<1>2. ASSUME \A n \in DOMAIN heap : heap[n].k # k
      PROVE  GetNode(k) = NULL
  <2>1. Hits(k) = {}
    BY <1>2, FollowHead DEF Hits
  <2>2. QED
    BY <2>1 DEF GetNode
<1>3. QED
  BY <1>1, <1>2

(* The shape of the map gives what callers need of it.                     *)
LEMMA ShapeNothingLost == IInv => NothingLost
BY FollowHead, GetNodeIs DEF NothingLost

-----------------------------------------------------------------------------
(* What the calls do to the fields.                                        *)
AddEffect(n, k, v) ==
  /\ DOMAIN heap' = DOMAIN heap \cup {n}
  /\ heap' = [m \in DOMAIN heap' |-> heap'[m]]
  /\ heap'[n].k = k /\ heap'[n].v = v
  /\ heap'[n].next = NULL
  /\ heap'[n].prev = IF len = 0 THEN NULL ELSE order[len]
  /\ heap'[n] \in NodeRecord
  /\ \A m \in DOMAIN heap :
       /\ heap'[m].k = heap[m].k
       /\ heap'[m].v = heap[m].v
       /\ heap'[m].prev = heap[m].prev
       /\ heap'[m].next = IF len # 0 /\ m = order[len] THEN n ELSE heap[m].next
       /\ heap'[m] \in NodeRecord
  /\ head' = IF len = 0 THEN n ELSE order[1]
  /\ tail' = n
  /\ len' = len + 1
  /\ order' = Append(order, n)
  /\ UNCHANGED <<alive, it, stale>>

LEMMA Ends ==
  ASSUME IInv
  PROVE  /\ head = NULL <=> len = 0
         /\ len # 0 => /\ 1 \in 1 .. len /\ len \in 1 .. len
                       /\ head = order[1] /\ tail = order[len]
                       /\ head \in DOMAIN heap /\ tail \in DOMAIN heap
<1>1. len # 0 => 1 \in 1 .. len /\ len \in 1 .. len
  BY Fields
<1>2. /\ head = IF len = 0 THEN NULL ELSE order[1]
      /\ tail = IF len = 0 THEN NULL ELSE order[len]
  BY DEF IInv, Shape, Joined
<1>3. QED
  BY <1>1, <1>2, Fields

LEMMA LinkLastEffect ==
  ASSUME IInv, alive, NEW k \in Key, NEW v \in Value, Add(k, v), GetNode(k) = NULL
  PROVE  \E n \in Node \ DOMAIN heap :
           AddEffect(n, k, v) /\ ret' = Answer(<<"add", k>>, len + 1, NoValue)
<1>1. PICK n \in Node \ DOMAIN heap : LinkLast(n, k, v) /\ order' = Append(order, n)
  BY DEF Add
<1>2. len' = len + 1 /\ ret' = Answer(<<"add", k>>, len + 1, NoValue)
      /\ UNCHANGED <<alive, it, stale>>
  BY DEF Add
<1>3. /\ heap' = [m \in DOMAIN heap \cup {n} |->
                  IF m = n THEN [k |-> k, v |-> v, next |-> NULL,
                                 prev |-> IF head = NULL THEN NULL ELSE tail]
                  ELSE IF head # NULL /\ m = tail
                       THEN [k |-> heap[m].k, v |-> heap[m].v,
                             next |-> n, prev |-> heap[m].prev]
                  ELSE heap[m]]
      /\ head' = IF head = NULL THEN n ELSE head
      /\ tail' = n
  BY <1>1 DEF LinkLast
<1>4. DOMAIN heap' = DOMAIN heap \cup {n} /\ heap' = [m \in DOMAIN heap' |-> heap'[m]]
  BY <1>3
<1>5. heap'[n] = [k |-> k, v |-> v, next |-> NULL,
                  prev |-> IF len = 0 THEN NULL ELSE order[len]]
  BY <1>3, Ends
<1>6. (IF len = 0 THEN NULL ELSE order[len]) \in Pointer
  BY Ends, Fields
<1>7. heap'[n] \in NodeRecord
  BY <1>5, <1>6
<1>8. ASSUME NEW m \in DOMAIN heap
      PROVE  /\ heap'[m].k = heap[m].k
             /\ heap'[m].v = heap[m].v
             /\ heap'[m].prev = heap[m].prev
             /\ heap'[m].next = IF len # 0 /\ m = order[len] THEN n ELSE heap[m].next
             /\ heap'[m] \in NodeRecord
  <2>1. CASE len # 0 /\ m = order[len]
    <3>1. heap'[m] = [k |-> heap[m].k, v |-> heap[m].v,
                      next |-> n, prev |-> heap[m].prev]
      BY <1>3, <1>8, <2>1, Ends
    <3>2. heap[m] \in NodeRecord
      BY <1>8, Fields
    <3>3. QED
      BY <2>1, <3>1, <3>2
  <2>2. CASE ~(len # 0 /\ m = order[len])
    <3>1. heap'[m] = heap[m]
      BY <1>3, <1>8, <2>2, Ends
    <3>2. QED
      BY <1>8, <2>2, <3>1, Fields
  <2>3. QED
    BY <2>1, <2>2
<1>9. head' = IF len = 0 THEN n ELSE order[1]
  BY <1>3, Ends
<1>10. AddEffect(n, k, v)
  BY <1>1, <1>2, <1>3, <1>4, <1>5, <1>7, <1>8, <1>9 DEF AddEffect
<1>11. QED
  BY <1>2, <1>10

LEMMA AddPreserves ==
  ASSUME IInv, alive, NEW k \in Key, NEW v \in Value, NEW n \in Node \ DOMAIN heap,
         AddEffect(n, k, v), ret' = Answer(<<"add", k>>, len + 1, NoValue),
         GetNode(k) = NULL
  PROVE  IInv'
<1>0. /\ len \in Nat /\ len' = len + 1 /\ len' \in Nat
      /\ 1 .. len' = 1 .. len \cup {len'}
      /\ len' \notin 1 .. len
  BY Fields DEF AddEffect
<1>1. /\ \A i \in 1 .. len : order'[i] = order[i]
      /\ order'[len'] = n
      /\ order' \in [1 .. len' -> DOMAIN heap']
  <2>1. order \in Seq(DOMAIN heap') /\ Len(order) = len /\ n \in DOMAIN heap'
    BY OrderIsSequence, Fields DEF AddEffect
  <2>2. order' = Append(order, n)
    BY DEF AddEffect
  <2>3. order' \in Seq(DOMAIN heap') /\ Len(order') = len'
    BY <1>0, <2>1, <2>2, AppendProperties
  <2>4. order' \in [1 .. Len(order') -> DOMAIN heap']
    BY <2>3, LenProperties
  <2>5. \A i \in 1 .. len : order'[i] = order[i]
    BY <2>1, <2>2, AppendProperties
  <2>6. order'[len'] = n
    BY <1>0, <2>1, <2>2, AppendProperties
  <2>7. QED
    BY <2>3, <2>4, <2>5, <2>6
<1>2. TypeOK'
  <2>1. heap' \in [DOMAIN heap' -> NodeRecord] /\ DOMAIN heap' \subseteq Node
    <3>1. \A m \in DOMAIN heap' : heap'[m] \in NodeRecord
      BY DEF AddEffect
    <3>2. heap' = [m \in DOMAIN heap' |-> heap'[m]]
      BY DEF AddEffect
    <3>3. DOMAIN heap' \subseteq Node
      BY DEF AddEffect, IInv, TypeOK
    <3>4. QED
      BY <3>1, <3>2, <3>3
  <2>2. head' \in Pointer /\ tail' \in Pointer
    <3>1. head' = IF len = 0 THEN n ELSE order[1]
      BY DEF AddEffect
    <3>2. QED
      BY <3>1, Ends, Fields DEF AddEffect
  <2>3. ret'.code \in Int /\ ret'.out = NoValue
    BY <1>0 DEF Answer
  <2>4. QED
    BY <1>0, <1>1, <2>1, <2>2, <2>3 DEF TypeOK, AddEffect, IInv
<1>3. Ordered'
  <2>1. \A i \in 1 .. len : order'[i] # n
    BY <1>1, Fields
  <2>2. \A i, j \in 1 .. len' : order'[i] = order'[j] => i = j
    BY <1>0, <1>1, <2>1, Fields
  <2>3. \A m \in DOMAIN heap' : \E i \in 1 .. len' : order'[i] = m
    <3>1. \A m \in DOMAIN heap' : m \in DOMAIN heap \/ m = n
      BY DEF AddEffect
    <3>2. QED
      BY <1>0, <1>1, <3>1, Fields
  <2>4. QED
    BY <2>2, <2>3 DEF Ordered
<1>4. Joined'
  <2>1. ASSUME NEW i \in 1 .. len'
        PROVE  /\ heap'[order'[i]].next = IF i = len' THEN NULL ELSE order'[i + 1]
               /\ heap'[order'[i]].prev = IF i = 1 THEN NULL ELSE order'[i - 1]
    <3>1. CASE i = len'
      <4>1. heap'[n].next = NULL /\ heap'[n].prev = IF len = 0 THEN NULL ELSE order[len]
        BY DEF AddEffect
      <4>2. i - 1 = len /\ (len # 0 => len \in 1 .. len) /\ (i = 1 <=> len = 0)
        BY <1>0, <3>1
      <4>3. QED
        BY <1>1, <3>1, <4>1, <4>2
    <3>2. CASE i # len'
      <4>1. /\ i \in 1 .. len /\ order'[i] = order[i] /\ order[i] \in DOMAIN heap
        BY <1>0, <1>1, <2>1, <3>2, Fields
      <4>2. /\ heap[order[i]].next = IF i = len THEN NULL ELSE order[i + 1]
            /\ heap[order[i]].prev = IF i = 1 THEN NULL ELSE order[i - 1]
        BY <4>1 DEF IInv, Shape, Joined
      <4>3. /\ heap'[order[i]].prev = heap[order[i]].prev
            /\ heap'[order[i]].next = IF len # 0 /\ order[i] = order[len] THEN n
                                      ELSE heap[order[i]].next
        BY <4>1 DEF AddEffect
      <4>4. len # 0 /\ len \in 1 .. len /\ (order[i] = order[len] <=> i = len)
        BY <4>1, <1>0, Fields
      <4>5. heap'[order[i]].next = order'[i + 1]
        <5>1. CASE i = len
          BY <5>1, <4>3, <4>4, <1>0, <1>1
        <5>2. CASE i # len
          <6>1. i + 1 \in 1 .. len
            BY <4>1, <5>2, <1>0
          <6>2. QED
            BY <4>2, <4>3, <4>4, <5>2, <6>1, <1>1
        <5>3. QED
          BY <5>1, <5>2
      <4>6. heap'[order[i]].prev = IF i = 1 THEN NULL ELSE order'[i - 1]
        <5>1. i # 1 => i - 1 \in 1 .. len
          BY <4>1, <1>0
        <5>2. QED
          BY <4>2, <4>3, <5>1, <1>1
      <4>7. QED
        BY <3>2, <4>1, <4>5, <4>6
    <3>3. QED
      BY <3>1, <3>2
  <2>2. head' = order'[1] /\ tail' = order'[len'] /\ len' # 0
    <3>1. CASE len = 0
      BY <3>1, <1>0, <1>1 DEF AddEffect
    <3>2. CASE len # 0
      BY <3>2, <1>0, <1>1, Ends DEF AddEffect
    <3>3. QED
      BY <3>1, <3>2
  <2>3. QED
    BY <2>1, <2>2 DEF Joined
<1>5. KeysDistinct'
  <2>1. \A m \in DOMAIN heap : heap[m].k # k
    <3>1. \A m \in DOMAIN heap : m # NULL
      BY Fields
    <3>2. QED
      BY <3>1, GetNodeIs
  <2>2. \A m, p \in DOMAIN heap : heap[m].k = heap[p].k => m = p
    BY DEF IInv, Shape, KeysDistinct
  <2>3. QED
    BY <2>1, <2>2 DEF AddEffect, KeysDistinct
<1>6. Cursors'
  BY DEF IInv, Shape, Cursors, AddEffect
<1>7. QED
  BY <1>2, <1>3, <1>4, <1>5, <1>6 DEF IInv, Shape, AddEffect

-----------------------------------------------------------------------------
(* Removing the node at place j (cosmic_dmap.c:88-114).                    *)
RemoveEffect(n, j) ==
  /\ DOMAIN heap' = DOMAIN heap \ {n}
  /\ heap' = [m \in DOMAIN heap' |-> heap'[m]]
  /\ \A m \in DOMAIN heap \ {n} :
       /\ heap'[m].k = heap[m].k
       /\ heap'[m].v = heap[m].v
       /\ heap'[m].next = IF m = heap[n].prev THEN heap[n].next ELSE heap[m].next
       /\ heap'[m].prev = IF m = heap[n].next THEN heap[n].prev ELSE heap[m].prev
       /\ heap'[m] \in NodeRecord
  /\ head' = IF j = 1 THEN heap[n].next ELSE head
  /\ tail' = IF j = len THEN heap[n].prev ELSE tail
  /\ len' = len - 1
  /\ order' = [i \in 1 .. len - 1 |-> IF i < j THEN order[i] ELSE order[i + 1]]
  /\ stale' = stale \cup {x \in Iter : it[x] = n}
  /\ alive' = alive /\ it' = it

LEMMA WithoutIs ==
  ASSUME IInv, NEW j \in 1 .. len, NEW n, n = order[j]
  PROVE  Without(n) = [i \in 1 .. len - 1 |-> IF i < j THEN order[i] ELSE order[i + 1]]
<1>1. len \in Nat /\ Len(order) = len /\ j \in Nat
  BY Fields, OrderIsSequence
<1>2. ASSUME NEW i \in 1 .. len - 1
      PROVE  (\E h \in 1 .. i : order[h] = n) <=> ~(i < j)
  <2>1. \A h \in 1 .. i : h \in 1 .. len /\ (order[h] = n <=> h = j)
    BY <1>1, <1>2, Fields
  <2>2. QED
    BY <1>1, <2>1
<1>3. QED
  BY <1>1, <1>2 DEF Without

LEMMA UnlinkEffect ==
  ASSUME IInv, alive, NEW k \in Key, Remove(k), GetNode(k) # NULL,
         NEW n, n = GetNode(k)
  PROVE  /\ n \in DOMAIN heap /\ heap[n].k = k
         /\ \E j \in 1 .. len : n = order[j] /\ RemoveEffect(n, j)
         /\ ret' = Answer(<<"remove", k>>, 0, Pair(heap[n].k, heap[n].v))
<1>1. n \in DOMAIN heap /\ heap[n].k = k
  BY GetNodeIs
<1>2. PICK j \in 1 .. len : n = order[j]
  BY <1>1, Fields
<1>3. /\ Unlink(n)
      /\ len' = len - 1
      /\ order' = Without(n)
      /\ ret' = Answer(<<"remove", k>>, 0, Pair(heap[n].k, heap[n].v))
      /\ stale' = stale \cup {x \in Iter : it[x] = n}
      /\ alive' = alive /\ it' = it
  BY DEF Remove
<1>4. /\ heap' = [m \in DOMAIN heap \ {n} |->
                    [k |-> heap[m].k, v |-> heap[m].v,
                     next |-> IF m = heap[n].prev THEN heap[n].next ELSE heap[m].next,
                     prev |-> IF m = heap[n].next THEN heap[n].prev ELSE heap[m].prev]]
      /\ head' = IF n = head THEN heap[n].next ELSE head
      /\ tail' = IF n = tail THEN heap[n].prev ELSE tail
  BY <1>3 DEF Unlink
<1>5. DOMAIN heap' = DOMAIN heap \ {n} /\ heap' = [m \in DOMAIN heap' |-> heap'[m]]
  BY <1>4
<1>6. ASSUME NEW m \in DOMAIN heap \ {n}
      PROVE  /\ heap'[m].k = heap[m].k
             /\ heap'[m].v = heap[m].v
             /\ heap'[m].next = IF m = heap[n].prev THEN heap[n].next ELSE heap[m].next
             /\ heap'[m].prev = IF m = heap[n].next THEN heap[n].prev ELSE heap[m].prev
             /\ heap'[m] \in NodeRecord
  <2>1. heap[m] \in NodeRecord /\ heap[n] \in NodeRecord
    BY <1>1, <1>6, Fields
  <2>2. QED
    BY <1>4, <1>6, <2>1
<1>7. n = head <=> j = 1
  BY <1>2, Ends, Fields
<1>8. n = tail <=> j = len
  BY <1>2, Ends, Fields
<1>9. order' = [i \in 1 .. len - 1 |-> IF i < j THEN order[i] ELSE order[i + 1]]
  BY <1>2, <1>3, WithoutIs
<1>10. RemoveEffect(n, j)
  BY <1>3, <1>4, <1>5, <1>6, <1>7, <1>8, <1>9 DEF RemoveEffect
<1>11. QED
  BY <1>1, <1>2, <1>3, <1>10

(* Where the node now at place i stood before the removal.                 *)
Was(i, j) == IF i < j THEN i ELSE i + 1

LEMMA RemovedOrder ==
  ASSUME IInv, NEW j \in 1 .. len, NEW n, n = order[j], RemoveEffect(n, j)
  PROVE  /\ len \in Nat /\ len' = len - 1 /\ len' \in Nat
         /\ \A i \in 1 .. len' : /\ Was(i, j) \in 1 .. len /\ Was(i, j) # j
                                  /\ order'[i] = order[Was(i, j)]
                                  /\ order'[i] \in DOMAIN heap'
         /\ order' \in [1 .. len' -> DOMAIN heap']
<1>1. len \in Nat /\ j \in Nat /\ len' = len - 1 /\ len' \in Nat
  BY Fields DEF RemoveEffect
<1>2. ASSUME NEW i \in 1 .. len'
      PROVE  /\ Was(i, j) \in 1 .. len /\ Was(i, j) # j
             /\ order'[i] = order[Was(i, j)]
             /\ order'[i] \in DOMAIN heap'
  <2>1. Was(i, j) \in 1 .. len /\ Was(i, j) # j
    BY <1>1, <1>2 DEF Was
  <2>2. order'[i] = order[Was(i, j)]
    BY <1>1, <1>2 DEF Was, RemoveEffect
  <2>3. order[Was(i, j)] \in DOMAIN heap /\ order[Was(i, j)] # n
    BY <2>1, Fields
  <2>4. QED
    BY <2>1, <2>2, <2>3 DEF RemoveEffect
<1>3. order' = [i \in 1 .. len' |-> order'[i]]
  BY <1>1 DEF RemoveEffect
<1>4. QED
  BY <1>1, <1>2, <1>3

LEMMA RemovePreserves ==
  ASSUME IInv, alive, NEW j \in 1 .. len, NEW n, n = order[j], RemoveEffect(n, j),
         ret'.code \in Int,
         ret'.out \in Value \cup Key \cup [k : Key, v : Value] \cup {NoValue}
  PROVE  IInv'
<1>0. /\ len \in Nat /\ len' = len - 1 /\ len' \in Nat /\ j \in Nat
      /\ n \in DOMAIN heap
      /\ heap[n] \in NodeRecord
  BY RemovedOrder, Fields
<1>1. \A i \in 1 .. len' : /\ Was(i, j) \in 1 .. len /\ Was(i, j) # j
                           /\ order'[i] = order[Was(i, j)]
                           /\ order'[i] \in DOMAIN heap'
  BY RemovedOrder
<1>2. TypeOK'
  <2>1. heap' \in [DOMAIN heap' -> NodeRecord] /\ DOMAIN heap' \subseteq Node
    <3>1. \A m \in DOMAIN heap' : heap'[m] \in NodeRecord
      BY DEF RemoveEffect
    <3>2. heap' = [m \in DOMAIN heap' |-> heap'[m]]
      BY DEF RemoveEffect
    <3>3. DOMAIN heap' \subseteq Node
      BY Fields DEF RemoveEffect
    <3>4. QED
      BY <3>1, <3>2, <3>3
  <2>2. head' \in Pointer /\ tail' \in Pointer
    BY <1>0 DEF RemoveEffect, IInv, TypeOK
  <2>3. order' \in [1 .. len' -> DOMAIN heap']
    BY RemovedOrder
  <2>4. it' \in [Iter -> Pointer \cup {CLOSED}] /\ stale' \subseteq Iter /\ alive' \in BOOLEAN
    BY DEF RemoveEffect, IInv, TypeOK
  <2>5. QED
    BY <1>0, <2>1, <2>2, <2>3, <2>4 DEF TypeOK
<1>3. Ordered'
  <2>1. ASSUME NEW a \in 1 .. len', NEW b \in 1 .. len', order'[a] = order'[b]
        PROVE  a = b
    <3>1. Was(a, j) = Was(b, j)
      BY <2>1, <1>1, Fields
    <3>2. QED
      BY <3>1, <1>0, <2>1 DEF Was
  <2>2. ASSUME NEW m \in DOMAIN heap'
        PROVE  \E i \in 1 .. len' : order'[i] = m
    <3>1. m \in DOMAIN heap /\ m # n
      BY <2>2 DEF RemoveEffect
    <3>2. PICK h \in 1 .. len : order[h] = m
      BY <3>1, Fields
    <3>3. h # j
      BY <3>1, <3>2
    <3>4. CASE h < j
      <4>1. h \in 1 .. len' /\ Was(h, j) = h
        BY <3>4, <1>0 DEF Was
      <4>2. QED
        BY <4>1, <1>1, <3>2
    <3>5. CASE h > j
      <4>1. h - 1 \in 1 .. len' /\ Was(h - 1, j) = h
        BY <3>5, <1>0 DEF Was
      <4>2. QED
        BY <4>1, <1>1, <3>2
    <3>6. QED
      BY <3>3, <3>4, <3>5, <1>0
  <2>3. QED
    BY <2>1, <2>2 DEF Ordered
<1>4. Joined'
  <2>1. /\ heap[n].next = IF j = len THEN NULL ELSE order[j + 1]
        /\ heap[n].prev = IF j = 1 THEN NULL ELSE order[j - 1]
    BY DEF IInv, Shape, Joined
  <2>2. \A h \in 1 .. len : /\ order[h] = heap[n].next <=> h = j + 1
                            /\ order[h] = heap[n].prev <=> h = j - 1
    <3> SUFFICES ASSUME NEW h \in 1 .. len
                 PROVE  /\ order[h] = heap[n].next <=> h = j + 1
                        /\ order[h] = heap[n].prev <=> h = j - 1
      OBVIOUS
    <3>1. order[h] # NULL
      BY Fields
    <3>2. order[h] = heap[n].next <=> h = j + 1
      <4>1. CASE j = len
        BY <4>1, <3>1, <2>1, <1>0
      <4>2. CASE j # len
        <5>1. j + 1 \in 1 .. len
          BY <4>2, <1>0
        <5>2. QED
          BY <4>2, <5>1, <2>1, Fields
      <4>3. QED
        BY <4>1, <4>2
    <3>3. order[h] = heap[n].prev <=> h = j - 1
      <4>1. CASE j = 1
        BY <4>1, <3>1, <2>1, <1>0
      <4>2. CASE j # 1
        <5>1. j - 1 \in 1 .. len
          BY <4>2, <1>0
        <5>2. QED
          BY <4>2, <5>1, <2>1, Fields
      <4>3. QED
        BY <4>1, <4>2
    <3>4. QED
      BY <3>2, <3>3
  <2>3. ASSUME NEW i \in 1 .. len'
        PROVE  /\ heap'[order'[i]].next = IF i = len' THEN NULL ELSE order'[i + 1]
               /\ heap'[order'[i]].prev = IF i = 1 THEN NULL ELSE order'[i - 1]
    <3> DEFINE h == Was(i, j)
    <3>1. h \in 1 .. len /\ h # j /\ order'[i] = order[h]
          /\ order[h] \in DOMAIN heap \ {n}
      BY <1>1, <2>3 DEF RemoveEffect
    <3>2. /\ heap[order[h]].next = IF h = len THEN NULL ELSE order[h + 1]
          /\ heap[order[h]].prev = IF h = 1 THEN NULL ELSE order[h - 1]
      BY <3>1 DEF IInv, Shape, Joined
    <3>3. /\ heap'[order[h]].next = IF h = j - 1 THEN heap[n].next ELSE heap[order[h]].next
          /\ heap'[order[h]].prev = IF h = j + 1 THEN heap[n].prev ELSE heap[order[h]].prev
      BY <3>1, <2>2 DEF RemoveEffect
    <3>4. i # len' => i + 1 \in 1 .. len' /\ order'[i + 1] = order[Was(i + 1, j)]
      <4>1. i # len' => i + 1 \in 1 .. len'
        BY <1>0, <2>3
      <4>2. QED
        BY <4>1, <1>1
    <3>5. i # 1 => i - 1 \in 1 .. len' /\ order'[i - 1] = order[Was(i - 1, j)]
      <4>1. i # 1 => i - 1 \in 1 .. len'
        BY <1>0, <2>3
      <4>2. QED
        BY <4>1, <1>1
    <3>6. CASE i < j - 1
      <4>1. h = i /\ h # len /\ i # len' /\ h # j - 1 /\ Was(i + 1, j) = h + 1
        BY <3>6, <1>0, <2>3 DEF Was
      <4>2. h # j + 1 /\ (i # 1 => Was(i - 1, j) = h - 1)
        BY <3>6, <1>0, <2>3 DEF Was
      <4>3. QED
        BY <4>1, <4>2, <3>1, <3>2, <3>3, <3>4, <3>5
    <3>7. CASE i = j - 1
      <4>1. h = i /\ h # j + 1 /\ (i # 1 => Was(i - 1, j) = h - 1)
        BY <3>7, <1>0, <2>3 DEF Was
      <4>2. (i = len' <=> j = len) /\ Was(i + 1, j) = j + 1
        BY <3>7, <1>0, <2>3 DEF Was
      <4>3. QED
        BY <4>1, <4>2, <3>7, <2>1, <3>1, <3>2, <3>3, <3>4, <3>5
    <3>8. CASE i = j
      <4>1. h = j + 1 /\ h # j - 1 /\ h - 1 = j /\ h # 1
        BY <3>8, <1>0, <2>3 DEF Was
      <4>2. (i = len' <=> h = len) /\ Was(i + 1, j) = h + 1
        BY <3>8, <1>0, <2>3 DEF Was
      <4>3. (i = 1 <=> j = 1) /\ Was(i - 1, j) = j - 1
        BY <3>8, <1>0, <2>3 DEF Was
      <4>4. QED
        BY <4>1, <4>2, <4>3, <2>1, <3>1, <3>2, <3>3, <3>4, <3>5
    <3>9. CASE i > j
      <4>1. h = i + 1 /\ h # j - 1 /\ h # j + 1 /\ h # 1 /\ i # 1
        BY <3>9, <1>0, <2>3 DEF Was
      <4>2. (i = len' <=> h = len) /\ Was(i + 1, j) = h + 1 /\ Was(i - 1, j) = h - 1
        BY <3>9, <1>0, <2>3 DEF Was
      <4>3. QED
        BY <4>1, <4>2, <3>1, <3>2, <3>3, <3>4, <3>5
    <3>10. QED
      BY <3>6, <3>7, <3>8, <3>9, <1>0, <2>3
  <2>4. head' = IF len' = 0 THEN NULL ELSE order'[1]
    <3>1. CASE j = 1
      <4>1. head' = heap[n].next
        BY <3>1 DEF RemoveEffect
      <4>2. len' # 0 => 1 \in 1 .. len' /\ Was(1, j) = 2
        BY <3>1, <1>0 DEF Was
      <4>3. len' = 0 <=> len = 1
        BY <1>0
      <4>4. QED
        BY <3>1, <4>1, <4>2, <4>3, <2>1, <1>1
    <3>2. CASE j # 1
      <4>1. head' = order[1]
        BY <3>2, <1>0, Ends DEF RemoveEffect
      <4>2. 1 \in 1 .. len' /\ Was(1, j) = 1 /\ len' # 0
        BY <3>2, <1>0 DEF Was
      <4>3. QED
        BY <4>1, <4>2, <1>1
    <3>3. QED
      BY <3>1, <3>2
  <2>5. tail' = IF len' = 0 THEN NULL ELSE order'[len']
    <3>1. CASE j = len
      <4>1. tail' = heap[n].prev
        BY <3>1 DEF RemoveEffect
      <4>2. len' # 0 => len' \in 1 .. len' /\ Was(len', j) = j - 1
        BY <3>1, <1>0 DEF Was
      <4>3. len' = 0 <=> j = 1
        BY <3>1, <1>0
      <4>4. QED
        BY <4>1, <4>2, <4>3, <2>1, <1>1
    <3>2. CASE j # len
      <4>1. tail' = order[len]
        BY <3>2, <1>0, Ends DEF RemoveEffect
      <4>2. len' \in 1 .. len' /\ Was(len', j) = len /\ len' # 0
        BY <3>2, <1>0 DEF Was
      <4>3. QED
        BY <4>1, <4>2, <1>1
    <3>3. QED
      BY <3>1, <3>2
  <2>6. QED
    BY <2>3, <2>4, <2>5 DEF Joined
<1>5. KeysDistinct'
  BY DEF IInv, Shape, KeysDistinct, RemoveEffect
<1>6. Cursors'
  <2>1. \A x \in Iter \ stale' : it'[x] \in DOMAIN heap' \cup {NULL, CLOSED}
    BY DEF IInv, Shape, Cursors, RemoveEffect
  <2>2. \A x \in stale' : it'[x] \in Node
    BY <1>0, Fields DEF IInv, Shape, Cursors, RemoveEffect
  <2>3. QED
    BY <2>1, <2>2 DEF Cursors
<1>7. QED
  BY <1>2, <1>3, <1>4, <1>5, <1>6 DEF IInv, Shape, RemoveEffect

-----------------------------------------------------------------------------
LEMMA InitInv == Init => IInv
<1> SUFFICES ASSUME Init
             PROVE  IInv
  OBVIOUS
<1>1. DOMAIN heap = {} /\ heap \in [{} -> NodeRecord]
  BY DEF Init
<1>2. 1 .. len = {} /\ order \in [1 .. len -> DOMAIN heap]
  BY <1>1 DEF Init
<1>3. TypeOK
  BY <1>1, <1>2 DEF Init, TypeOK, Answer
<1>4. Shape
  BY <1>1, <1>2 DEF Init, Shape, Ordered, Joined, KeysDistinct, Cursors
<1>5. QED
  BY <1>3, <1>4 DEF IInv

LEMMA FreePreserves ==
  ASSUME IInv, Free
  PROVE  IInv'
<1>1. /\ alive' = FALSE /\ len' = 0 /\ head' = NULL /\ tail' = NULL /\ order' = <<>>
      /\ heap' = [m \in DOMAIN heap \ Follow(head) |-> heap[m]]
      /\ stale' = stale \cup {x \in Iter : it[x] \in Follow(head)}
      /\ ret' = Answer(<<"free">>, 0, NoValue)
      /\ it' = it
  BY DEF Free
<1>2. Follow(head) = DOMAIN heap
  BY FollowHead
<1>3. DOMAIN heap' = {} /\ heap' \in [DOMAIN heap' -> NodeRecord]
  BY <1>1, <1>2
<1>4. 1 .. len' = {} /\ order' \in [1 .. len' -> DOMAIN heap']
  BY <1>1, <1>3
<1>5. TypeOK'
  <2>1. ret'.code = 0 /\ ret'.out = NoValue
    BY <1>1 DEF Answer
  <2>2. stale' \subseteq Iter /\ it' \in [Iter -> Pointer \cup {CLOSED}]
    BY <1>1 DEF IInv, TypeOK
  <2>3. /\ alive' \in BOOLEAN /\ len' \in Nat
        /\ head' \in Pointer /\ tail' \in Pointer
        /\ DOMAIN heap' \subseteq Node
    BY <1>1, <1>3
  <2>4. QED
    BY <1>3, <1>4, <2>1, <2>2, <2>3 DEF TypeOK
<1>6. Cursors'
  BY <1>1, <1>2, <1>3, Fields DEF IInv, Shape, Cursors
<1>7. Ordered' /\ Joined' /\ KeysDistinct'
  BY <1>1, <1>3, <1>4 DEF Ordered, Joined, KeysDistinct
<1>8. QED
  BY <1>1, <1>5, <1>6, <1>7 DEF IInv, Shape

(* A call that leaves the map alone and moves a cursor to null, to a node, *)
(* or closes it.                                                           *)
LEMMA CursorPreserves ==
  ASSUME IInv, UNCHANGED mapVars, NEW x \in Iter,
         NEW p \in DOMAIN heap \cup {NULL, CLOSED}, it' = [it EXCEPT ![x] = p],
         stale' = IF p = CLOSED THEN stale \ {x} ELSE stale,
         x \notin stale \/ p = CLOSED,
         ret'.code \in Int,
         ret'.out \in Value \cup Key \cup [k : Key, v : Value] \cup {NoValue}
  PROVE  IInv'
<1>1. p \in Pointer \cup {CLOSED}
  BY Fields
<1>2. /\ alive' = alive /\ len' = len /\ head' = head /\ tail' = tail
      /\ heap' = heap /\ order' = order
  BY DEF mapVars
<1>3. it' \in [Iter -> Pointer \cup {CLOSED}] /\ stale' \subseteq Iter
  BY <1>1 DEF IInv, TypeOK
<1>4. TypeOK'
  BY <1>2, <1>3 DEF IInv, TypeOK
<1>5. it'[x] = p /\ \A y \in Iter : y # x => it'[y] = it[y]
  BY DEF IInv, TypeOK
<1>6. Cursors'
  <2>1. \A y \in Iter \ stale' : it'[y] \in DOMAIN heap \cup {NULL, CLOSED}
    BY <1>5 DEF IInv, Shape, Cursors
  <2>2. \A y \in stale' : y # x /\ y \in stale /\ y \in Iter
    BY DEF IInv, TypeOK
  <2>3. \A y \in stale' : it'[y] \in Node
    BY <2>2, <1>5 DEF IInv, Shape, Cursors
  <2>4. QED
    BY <1>2, <2>1, <2>3 DEF Cursors
<1>7. Ordered' /\ Joined' /\ KeysDistinct' /\ (~alive' => len' = 0)
  BY <1>2 DEF IInv, Shape, Ordered, Joined, KeysDistinct
<1>8. QED
  BY <1>4, <1>6, <1>7 DEF IInv, Shape

(* A call that only answers.                                               *)
LEMMA KeepPreserves ==
  ASSUME IInv, NEW call, NEW c \in Int,
         NEW o \in Value \cup Key \cup [k : Key, v : Value] \cup {NoValue},
         Keep(call, c, o)
  PROVE  IInv'
<1>1. /\ alive' = alive /\ len' = len /\ head' = head /\ tail' = tail
      /\ heap' = heap /\ order' = order /\ it' = it /\ stale' = stale
      /\ ret' = Answer(call, c, o)
  BY DEF Keep, mapVars
<1>2. TypeOK'
  BY <1>1 DEF IInv, TypeOK, Answer
<1>3. Shape'
  BY <1>1 DEF IInv, Shape, Ordered, Joined, KeysDistinct, Cursors
<1>4. QED
  BY <1>2, <1>3 DEF IInv

LEMMA NodeFields ==
  ASSUME IInv, NEW n \in DOMAIN heap
  PROVE  /\ heap[n].k \in Key /\ heap[n].v \in Value
         /\ heap[n].next \in DOMAIN heap \cup {NULL}
<1>1. heap[n] \in NodeRecord
  BY Fields
<1>2. PICK i \in 1 .. len : order[i] = n
  BY Fields
<1>3. heap[n].next = IF i = len THEN NULL ELSE order[i + 1]
  BY <1>2 DEF IInv, Shape, Joined
<1>4. i # len => i + 1 \in 1 .. len
  BY Fields
<1>5. QED
  BY <1>1, <1>3, <1>4, Fields

(* Every call keeps the shape.                                             *)
LEMMA NextInv == IInv /\ [Next]_vars => IInv'
<1> SUFFICES ASSUME IInv, [Next]_vars
             PROVE  IInv'
  OBVIOUS
<1>1. CASE Size
  BY <1>1, KeepPreserves, Fields DEF Size
<1>2. CASE Free
  BY <1>2, FreePreserves
<1>3. CASE New
  <2>1. /\ alive' = TRUE /\ len' = 0 /\ head' = NULL /\ tail' = NULL /\ heap' = heap
        /\ order' = order /\ it' = it /\ stale' = stale /\ len = 0
        /\ ret' = Answer(<<"new">>, 0, NoValue)
    BY <1>3 DEF New, IInv, Shape
  <2>2. TypeOK'
    BY <2>1 DEF IInv, TypeOK, Answer
  <2>3. Shape'
    BY <2>1 DEF IInv, Shape, Ordered, Joined, KeysDistinct, Cursors
  <2>4. QED
    BY <2>2, <2>3 DEF IInv
<1>4. ASSUME NEW k \in Key, Get(k)
      PROVE  IInv'
  <2>1. CASE GetNode(k) = NULL
    BY <1>4, <2>1, KeepPreserves DEF Get
  <2>2. CASE GetNode(k) # NULL
    <3>1. heap[GetNode(k)].v \in Value
      BY <2>2, GetNodeIs, NodeFields
    <3>2. Keep(<<"get", k>>, 0, heap[GetNode(k)].v)
      BY <1>4, <2>2 DEF Get
    <3> DEFINE o == heap[GetNode(k)].v
    <3> HIDE DEF o
    <3>3. QED
      BY <3>1, <3>2, KeepPreserves DEF o
  <2>3. QED
    BY <2>1, <2>2
<1>5. ASSUME NEW k \in Key, Remove(k)
      PROVE  IInv'
  <2>1. CASE GetNode(k) = NULL
    BY <1>5, <2>1, KeepPreserves DEF Remove
  <2>2. CASE GetNode(k) # NULL
    <3> DEFINE n == GetNode(k)
    <3>0. alive
      BY <1>5 DEF Remove
    <3>1. /\ n \in DOMAIN heap
          /\ \E j \in 1 .. len : n = order[j] /\ RemoveEffect(n, j)
          /\ ret' = Answer(<<"remove", k>>, 0, Pair(heap[n].k, heap[n].v))
      BY <1>5, <2>2, <3>0, UnlinkEffect
    <3> HIDE DEF n
    <3>2. PICK j \in 1 .. len : n = order[j] /\ RemoveEffect(n, j)
      BY <3>1
    <3>3. ret'.code \in Int /\ ret'.out \in [k : Key, v : Value]
      <4>1. heap[n].k \in Key /\ heap[n].v \in Value
        BY <3>1, NodeFields
      <4>2. QED
        BY <3>1, <4>1 DEF Answer, Pair
    <3>4. QED
      BY <3>0, <3>2, <3>3, RemovePreserves
  <2>3. QED
    BY <2>1, <2>2
<1>6. ASSUME NEW k \in Key, NEW v \in Value, Add(k, v)
      PROVE  IInv'
  <2>1. CASE GetNode(k) # NULL
    BY <1>6, <2>1, KeepPreserves DEF Add
  <2>2. CASE GetNode(k) = NULL
    <3>1. alive
      BY <1>6 DEF Add
    <3>2. PICK n \in Node \ DOMAIN heap :
            AddEffect(n, k, v) /\ ret' = Answer(<<"add", k>>, len + 1, NoValue)
      BY <1>6, <2>2, <3>1, LinkLastEffect
    <3>3. QED
      BY <2>2, <3>1, <3>2, AddPreserves
  <2>3. QED
    BY <2>1, <2>2
<1>7. ASSUME NEW x \in Iter, IterOpen(x)
      PROVE  IInv'
  <2>1. head \in DOMAIN heap \cup {NULL} /\ head # CLOSED
    BY Ends, Fields
  <2>2. x \notin stale
    BY <1>7 DEF IterOpen, IInv, Shape, Cursors
  <2>3. ret'.code \in Int /\ ret'.out = NoValue
    BY <1>7 DEF IterOpen, Answer
  <2>4. it' = [it EXCEPT ![x] = head] /\ stale' = stale /\ UNCHANGED mapVars
    BY <1>7 DEF IterOpen
  <2>5. QED
    BY <2>1, <2>2, <2>3, <2>4, CursorPreserves
<1>8. ASSUME NEW x \in Iter, it[x] # CLOSED, x \notin stale, it[x] # NULL,
             NEW call, NEW o \in Key \cup [k : Key, v : Value], Step(x, call, o)
      PROVE  IInv'
  <2>1. it[x] \in DOMAIN heap
    BY <1>8 DEF IInv, Shape, Cursors
  <2>2. heap[it[x]].next \in DOMAIN heap \cup {NULL} /\ heap[it[x]].next # CLOSED
    BY <2>1, NodeFields, Fields
  <2>3. ret'.code \in Int /\ ret'.out = o
    BY <1>8 DEF Step, Answer
  <2>4. it' = [it EXCEPT ![x] = heap[it[x]].next] /\ stale' = stale /\ UNCHANGED mapVars
    BY <1>8 DEF Step
  <2> DEFINE p == heap[it[x]].next
  <2> HIDE DEF p
  <2>5. p \in DOMAIN heap \cup {NULL} /\ p # CLOSED /\ it' = [it EXCEPT ![x] = p]
    BY <2>2, <2>4 DEF p
  <2>6. QED
    BY <1>8, <2>3, <2>4, <2>5, CursorPreserves
<1>9. ASSUME NEW x \in Iter, IterNext(x)
      PROVE  IInv'
  <2>1. CASE it[x] = NULL
    BY <1>9, <2>1, KeepPreserves DEF IterNext
  <2>2. CASE it[x] # NULL
    <3>1. it[x] # CLOSED /\ x \notin stale /\ Step(x, <<"next", x>>, heap[it[x]].k)
      BY <1>9, <2>2 DEF IterNext
    <3>2. heap[it[x]].k \in Key
      BY <2>2, <3>1, NodeFields DEF IInv, Shape, Cursors
    <3>3. QED
      BY <2>2, <3>1, <3>2, <1>8
  <2>3. QED
    BY <2>1, <2>2
<1>10. ASSUME NEW x \in Iter, IterNextPair(x)
       PROVE  IInv'
  <2>1. CASE it[x] = NULL
    BY <1>10, <2>1, KeepPreserves DEF IterNextPair
  <2>2. CASE it[x] # NULL
    <3>1. it[x] # CLOSED /\ x \notin stale
          /\ Step(x, <<"next_pair", x>>, Pair(heap[it[x]].k, heap[it[x]].v))
      BY <1>10, <2>2 DEF IterNextPair
    <3>2. Pair(heap[it[x]].k, heap[it[x]].v) \in [k : Key, v : Value]
      BY <2>2, <3>1, NodeFields DEF IInv, Shape, Cursors, Pair
    <3>3. QED
      BY <2>2, <3>1, <3>2, <1>8
  <2>3. QED
    BY <2>1, <2>2
<1>11. ASSUME NEW x \in Iter, IterNextStale(x)
       PROVE  IInv'
  <2>1. CASE Keep(<<"next", x>>, -1, NoValue) \/ Keep(<<"next_pair", x>>, -1, NoValue)
    BY <2>1, KeepPreserves
  <2>2. CASE \E k \in Key : Keep(<<"next", x>>, 0, k)
    BY <2>2, KeepPreserves
  <2>3. CASE \E k \in Key, v \in Value : Keep(<<"next_pair", x>>, 0, Pair(k, v))
    <3>1. PICK k \in Key, v \in Value : Keep(<<"next_pair", x>>, 0, Pair(k, v))
      BY <2>3
    <3>2. Pair(k, v) \in [k : Key, v : Value]
      BY DEF Pair
    <3>3. QED
      BY <3>1, <3>2, KeepPreserves
  <2>4. QED
    BY <1>11, <2>1, <2>2, <2>3 DEF IterNextStale
<1>12. ASSUME NEW x \in Iter, IterHasNext(x)
       PROVE  IInv'
  <2>1. PICK c \in {0, 1} : Keep(<<"has_next", x>>, c, NoValue)
    BY <1>12 DEF IterHasNext
  <2>2. QED
    BY <2>1, KeepPreserves
<1>13. ASSUME NEW x \in Iter, IterClose(x)
       PROVE  IInv'
  <2>1. ret'.code \in Int /\ ret'.out = NoValue
    BY <1>13 DEF IterClose, Answer
  <2>2. it' = [it EXCEPT ![x] = CLOSED] /\ stale' = stale \ {x} /\ UNCHANGED mapVars
    BY <1>13 DEF IterClose
  <2>3. QED
    BY <2>1, <2>2, CursorPreserves
<1>14. CASE UNCHANGED vars
  <2>1. /\ alive' = alive /\ len' = len /\ head' = head /\ tail' = tail
        /\ heap' = heap /\ order' = order /\ it' = it /\ stale' = stale /\ ret' = ret
    BY <1>14 DEF vars
  <2>2. QED
    BY <2>1 DEF IInv, TypeOK, Shape, Ordered, Joined, KeysDistinct, Cursors
<1>15. QED
  BY <1>1, <1>2, <1>3, <1>4, <1>5, <1>6, <1>7, <1>9, <1>10, <1>11, <1>12,
     <1>13, <1>14 DEF Next

(* The map keeps its type and shape under every sequence of calls.         *)
THEOREM AlwaysInShape == Spec => [](TypeOK /\ Shape)
<1>1. Init => IInv
  BY InitInv
<1>2. IInv /\ [Next]_vars => IInv'
  BY NextInv
<1>3. QED
  BY <1>1, <1>2, PTL DEF Spec, IInv

(* A key that was added and not removed is found, and free gives back      *)
(* every node.                                                             *)
THEOREM NeverLost == Spec => []NothingLost
<1>1. Init => IInv
  BY InitInv
<1>2. IInv /\ [Next]_vars => IInv'
  BY NextInv
<1>3. IInv => NothingLost
  BY ShapeNothingLost
<1>4. QED
  BY <1>1, <1>2, <1>3, PTL DEF Spec

-----------------------------------------------------------------------------
(* The refinement of MapSpec.                                              *)
LEMMA PlaceIs ==
  ASSUME IInv, NEW i \in 1 .. len
  PROVE  Place(order[i]) = i
BY Fields DEF Place

LEMMA PairsIs ==
  ASSUME IInv
  PROVE  /\ pairsBar \in Seq([k : Key, v : Value])
         /\ Len(pairsBar) = len /\ DOMAIN pairsBar = 1 .. len
         /\ \A i \in 1 .. len : /\ pairsBar[i] = Pair(heap[order[i]].k, heap[order[i]].v)
                               /\ pairsBar[i].k = heap[order[i]].k
                               /\ pairsBar[i].v = heap[order[i]].v
<1>1. \A i \in 1 .. len : Pair(heap[order[i]].k, heap[order[i]].v) \in [k : Key, v : Value]
  BY Fields, NodeFields DEF Pair
<1>2. pairsBar \in [1 .. len -> [k : Key, v : Value]]
  BY <1>1 DEF pairsBar
<1>3. pairsBar \in Seq([k : Key, v : Value]) /\ Len(pairsBar) = len
  <2> HIDE DEF pairsBar
  <2> DEFINE T == [k : Key, v : Value]
  <2>1. pairsBar \in [1 .. len -> T] /\ len \in Nat
    BY <1>2, Fields
  <2> HIDE DEF T
  <2>2. pairsBar \in Seq(T) /\ Len(pairsBar) = len
    BY <2>1
  <2>3. QED
    BY <2>2 DEF T
<1>4. QED
  BY <1>2, <1>3 DEF pairsBar, Pair

(* Where a cursor stands.                                                  *)
LEMMA PosIs ==
  ASSUME IInv, NEW x \in Iter
  PROVE  /\ it[x] = CLOSED => posBar[x] = -2 /\ x \notin stale
         /\ x \in stale => posBar[x] = -3 /\ it[x] # CLOSED /\ it[x] # NULL
         /\ x \notin stale /\ it[x] = NULL => posBar[x] = -1
         /\ \A i \in 1 .. len : x \notin stale /\ it[x] = order[i] => posBar[x] = i - 1
         /\ x \notin stale /\ it[x] # NULL /\ it[x] # CLOSED
              => \E i \in 1 .. len : it[x] = order[i]
<1>1. posBar[x] = IF it[x] = CLOSED THEN -2
                  ELSE IF x \in stale THEN -3
                  ELSE IF it[x] = NULL THEN -1
                  ELSE Place(it[x]) - 1
  BY DEF posBar
<1>2. /\ x \notin stale => it[x] \in DOMAIN heap \cup {NULL, CLOSED}
      /\ x \in stale => it[x] \in Node
  BY DEF IInv, Shape, Cursors
<1>3. \A i \in 1 .. len : order[i] # NULL /\ order[i] # CLOSED /\ Place(order[i]) = i
  BY Fields, PlaceIs
<1>4. QED
  BY <1>1, <1>2, <1>3, Fields

LEMMA PosOf ==
  IInv => \A y \in Iter :
            /\ it[y] = CLOSED => posBar[y] = -2
            /\ y \in stale => posBar[y] = -3
            /\ y \notin stale /\ it[y] = NULL => posBar[y] = -1
            /\ \A i \in 1 .. len : y \notin stale /\ it[y] = order[i] => posBar[y] = i - 1
BY PosIs

LEMMA PosAfter ==
  ASSUME IInv'
  PROVE  \A y \in Iter :
            /\ it'[y] = CLOSED => posBar'[y] = -2
            /\ y \in stale' => posBar'[y] = -3
            /\ y \notin stale' /\ it'[y] = NULL => posBar'[y] = -1
            /\ \A i \in 1 .. len' : y \notin stale' /\ it'[y] = order'[i] => posBar'[y] = i - 1
<1>1. (IInv => \A y \in Iter :
                 /\ it[y] = CLOSED => posBar[y] = -2
                 /\ y \in stale => posBar[y] = -3
                 /\ y \notin stale /\ it[y] = NULL => posBar[y] = -1
                 /\ \A i \in 1 .. len : y \notin stale /\ it[y] = order[i] => posBar[y] = i - 1)'
  BY PosOf, PTL
<1>2. QED
  BY <1>1

(* The five kinds of cursor tell positions apart.                          *)
LEMMA KindIs ==
  ASSUME IInv, NEW x \in Iter
  PROVE  /\ it[x] = CLOSED <=> posBar[x] = -2
         /\ x \in stale <=> posBar[x] = -3
         /\ (x \notin stale /\ it[x] = NULL) <=> posBar[x] = -1
         /\ (x \notin stale /\ it[x] # NULL /\ it[x] # CLOSED)
              <=> posBar[x] >= 0
         /\ posBar[x] \in Int
<1>1. CASE it[x] = CLOSED
  BY <1>1, PosIs
<1>2. CASE x \in stale
  BY <1>2, PosIs
<1>3. CASE x \notin stale /\ it[x] = NULL
  BY <1>3, PosIs
<1>4. CASE x \notin stale /\ it[x] # NULL /\ it[x] # CLOSED
  <2>1. PICK i \in 1 .. len : it[x] = order[i]
    BY <1>4, PosIs
  <2>2. posBar[x] = i - 1
    BY <1>4, <2>1, PosIs
  <2>3. posBar[x] \in Int /\ posBar[x] >= 0
    BY <2>2, Fields
  <2>4. QED
    BY <1>4, <2>3
<1>5. QED
  BY <1>1, <1>2, <1>3, <1>4

LEMMA PosBarUnique ==
  ASSUME NEW p, p = [x \in Iter |-> p[x]], \A x \in Iter : p[x] = posBar'[x]
  PROVE  posBar' = p
<1>1. posBar' = [x \in Iter |-> posBar'[x]]
  BY DEF posBar
<1>2. QED
  BY <1>1

(* The caller's view of a call that changes neither map nor cursors.       *)
LEMMA ViewUnchanged ==
  ASSUME IInv, UNCHANGED <<mapVars, it, stale>>
  PROVE  alive' = alive /\ pairsBar' = pairsBar /\ posBar' = posBar
BY DEF mapVars, pairsBar, posBar, Place

LEMMA KeepRefines ==
  ASSUME IInv, NEW call, NEW c, NEW o, Keep(call, c, o)
  PROVE  /\ M!Keep(call, c, o)
         /\ ret' = Answer(call, c, o)
<1>1. alive' = alive /\ pairsBar' = pairsBar /\ posBar' = posBar
  BY ViewUnchanged DEF Keep
<1>2. QED
  BY <1>1 DEF Keep, M!Keep, M!Answer, Answer

LEMMA HasIs ==
  ASSUME IInv, NEW k
  PROVE  /\ M!Has(k) <=> GetNode(k) # NULL
         /\ \A j \in 1 .. len : pairsBar[j].k = k => GetNode(k) = order[j]
         /\ \A j \in 1 .. len : GetNode(k) = order[j] => pairsBar[j].k = k
<1>1. \A j \in 1 .. len : pairsBar[j].k = k => GetNode(k) = order[j]
  BY PairsIs, GetNodeIs, Fields
<1>2. \A j \in 1 .. len : order[j] # NULL
  BY Fields
<1>3. \A j \in 1 .. len : GetNode(k) = order[j] => pairsBar[j].k = k
  BY <1>2, PairsIs, GetNodeIs
<1>4. GetNode(k) # NULL => \E j \in 1 .. len : GetNode(k) = order[j]
  BY GetNodeIs, Fields
<1>5. QED
  BY <1>1, <1>2, <1>3, <1>4, PairsIs DEF M!Has

(* Adding a key appends its pair and leaves the cursors where they stand.  *)
LEMMA AddRefines ==
  ASSUME IInv, IInv', alive, NEW k \in Key, NEW v \in Value, Add(k, v)
  PROVE  M!Add(k, v)
<1>1. CASE GetNode(k) # NULL
  <2>1. Keep(<<"add", k>>, -1, NoValue)
    BY <1>1 DEF Add
  <2>2. M!Keep(<<"add", k>>, -1, NoValue) /\ M!Has(k)
    BY <1>1, <2>1, KeepRefines, HasIs
  <2>3. QED
    BY <2>2 DEF M!Add
<1>2. CASE GetNode(k) = NULL
  <2>1. PICK n \in Node \ DOMAIN heap :
          AddEffect(n, k, v) /\ ret' = Answer(<<"add", k>>, len + 1, NoValue)
    BY <1>2, LinkLastEffect
  <2>2. /\ len \in Nat /\ len' = len + 1 /\ 1 .. len' = 1 .. len \cup {len'}
        /\ len' \notin 1 .. len
    BY <2>1, Fields DEF AddEffect
  <2>3. /\ \A i \in 1 .. len : order'[i] = order[i]
        /\ order'[len'] = n
    <3>1. order \in Seq(DOMAIN heap \cup {n}) /\ Len(order) = len
      BY OrderIsSequence, Fields
    <3>2. order' = Append(order, n)
      BY <2>1 DEF AddEffect
    <3>3. QED
      BY <2>2, <3>1, <3>2, AppendProperties
  <2>4. pairsBar' = Append(pairsBar, Pair(k, v))
    <3>1. pairsBar' = [i \in 1 .. len' |-> Pair(heap'[order'[i]].k, heap'[order'[i]].v)]
      BY DEF pairsBar
    <3>2. \A i \in 1 .. len : Pair(heap'[order'[i]].k, heap'[order'[i]].v) = pairsBar[i]
      BY <2>1, <2>3, PairsIs, Fields DEF AddEffect
    <3>3. Pair(heap'[order'[len']].k, heap'[order'[len']].v) = Pair(k, v)
      BY <2>1, <2>3 DEF AddEffect
    <3> DEFINE p == Pair(k, v)
               s == Append(pairsBar, p)
               T == [k : Key, v : Value]
    <3>4. p \in T /\ pairsBar \in Seq(T) /\ Len(pairsBar) = len
      BY PairsIs DEF Pair
    <3> HIDE DEF p, T
    <3>5. /\ s \in Seq(T) /\ Len(s) = len' /\ s[len'] = p
          /\ \A i \in 1 .. len : s[i] = pairsBar[i]
      BY <3>4, <2>2, AppendProperties
    <3> HIDE DEF s
    <3>6. s = [i \in 1 .. len' |-> s[i]]
      BY <3>5, LenProperties
    <3>7. \A i \in 1 .. len' : s[i] = Pair(heap'[order'[i]].k, heap'[order'[i]].v)
      BY <2>2, <3>2, <3>3, <3>5 DEF p
    <3>8. pairsBar' = s
      BY <3>1, <3>6, <3>7
    <3>9. QED
      BY <3>8 DEF s, p
  <2>5. posBar' = posBar
    <3>1. ASSUME NEW x \in Iter
          PROVE  posBar'[x] = posBar[x]
      <4>1. it' = it /\ stale' = stale
        BY <2>1 DEF AddEffect
      <4>2. /\ posBar[x] = IF it[x] = CLOSED THEN -2 ELSE IF x \in stale THEN -3
                           ELSE IF it[x] = NULL THEN -1 ELSE Place(it[x]) - 1
            /\ posBar'[x] = IF it[x] = CLOSED THEN -2 ELSE IF x \in stale THEN -3
                            ELSE IF it[x] = NULL THEN -1 ELSE Place(it[x])' - 1
        BY <4>1 DEF posBar
      <4>3. CASE x \notin stale /\ it[x] # NULL /\ it[x] # CLOSED
        <5>1. PICK i \in 1 .. len : it[x] = order[i]
          BY <4>3, PosIs
        <5>2. i \in 1 .. len' /\ it'[x] = order'[i] /\ x \notin stale'
          BY <2>2, <2>3, <4>1, <4>3, <5>1
        <5>3. QED
          BY <4>3, <5>1, <5>2, PosAfter, PosIs
      <4>4. QED
        BY <4>2, <4>3
    <3>2. posBar = [x \in Iter |-> posBar[x]]
      BY DEF posBar
    <3>3. QED
      BY <3>1, <3>2, PosBarUnique
  <2>6. ~M!Has(k) /\ alive' = alive /\ Len(pairsBar) = len
    BY <1>2, <2>1, HasIs, PairsIs DEF AddEffect
  <2>7. QED
    BY <2>1, <2>4, <2>5, <2>6 DEF M!Add, M!Pair, Pair, M!Answer, Answer
<1>3. QED
  BY <1>1, <1>2

(* Removing a key takes its pair out, and the cursors behind it move up.   *)
LEMMA UnlinkRefines ==
  ASSUME IInv, IInv', NEW j \in 1 .. len, NEW n, n = order[j], RemoveEffect(n, j)
  PROVE  /\ pairsBar' = M!WithoutAt(pairsBar, j)
         /\ posBar' = [x \in Iter |-> IF posBar[x] = j - 1 THEN M!Invalid
                                      ELSE IF posBar[x] >= j THEN posBar[x] - 1
                                      ELSE posBar[x]]
<1>1. /\ len \in Nat /\ len' = len - 1 /\ len' \in Nat /\ j \in Nat
      /\ \A i \in 1 .. len' : /\ Was(i, j) \in 1 .. len /\ Was(i, j) # j
                              /\ order'[i] = order[Was(i, j)]
                              /\ order'[i] \in DOMAIN heap'
  BY RemovedOrder
<1>2. pairsBar' = M!WithoutAt(pairsBar, j)
  <2>1. pairsBar' = [i \in 1 .. len' |-> Pair(heap'[order'[i]].k, heap'[order'[i]].v)]
    BY DEF pairsBar
  <2>2. M!WithoutAt(pairsBar, j) = [i \in 1 .. len' |-> IF i < j THEN pairsBar[i]
                                                       ELSE pairsBar[i + 1]]
    BY <1>1, PairsIs DEF M!WithoutAt
  <2>3. ASSUME NEW i \in 1 .. len'
        PROVE  Pair(heap'[order'[i]].k, heap'[order'[i]].v)
                 = IF i < j THEN pairsBar[i] ELSE pairsBar[i + 1]
    <3>1. /\ Was(i, j) \in 1 .. len /\ order'[i] = order[Was(i, j)]
          /\ order'[i] \in DOMAIN heap \ {n}
      BY <1>1, <2>3 DEF RemoveEffect
    <3>2. /\ heap'[order'[i]].k = heap[order[Was(i, j)]].k
          /\ heap'[order'[i]].v = heap[order[Was(i, j)]].v
      BY <3>1 DEF RemoveEffect
    <3>3. pairsBar[Was(i, j)] = Pair(heap[order[Was(i, j)]].k, heap[order[Was(i, j)]].v)
      BY <3>1, PairsIs
    <3>4. QED
      BY <3>2, <3>3 DEF Was
  <2> HIDE DEF pairsBar
  <2>4. QED
    BY <2>1, <2>2, <2>3
<1>3. ASSUME NEW x \in Iter
      PROVE  posBar'[x] = IF posBar[x] = j - 1 THEN -3
                          ELSE IF posBar[x] >= j THEN posBar[x] - 1
                          ELSE posBar[x]
  <2>0. it' = it /\ stale' = stale \cup {y \in Iter : it[y] = n} /\ n # NULL /\ n # CLOSED
    BY Fields DEF RemoveEffect
  <2>1. CASE it[x] = CLOSED
    <3>1. posBar[x] = -2
      BY <2>1, PosIs
    <3>2. posBar'[x] = -2
      BY <2>0, <2>1, PosAfter
    <3>3. QED
      BY <3>1, <3>2, <1>1
  <2>2. CASE x \in stale
    <3>1. posBar[x] = -3 /\ posBar'[x] = -3
      BY <2>0, <2>2, PosIs, PosAfter
    <3>2. QED
      BY <3>1, <1>1
  <2>3. CASE x \notin stale /\ it[x] = NULL
    <3>1. posBar[x] = -1 /\ posBar'[x] = -1
      BY <2>0, <2>3, PosIs, PosAfter
    <3>2. QED
      BY <3>1, <1>1
  <2>4. CASE x \notin stale /\ it[x] # NULL /\ it[x] # CLOSED
    <3>1. PICK h \in 1 .. len : it[x] = order[h]
      BY <2>4, PosIs
    <3>2. posBar[x] = h - 1 /\ h \in Nat
      BY <2>4, <3>1, PosIs, Fields
    <3>3. CASE h = j
      <4>1. x \in stale'
        BY <2>0, <3>1, <3>3
      <4>2. posBar'[x] = -3
        BY <4>1, PosAfter
      <4>3. QED
        BY <4>2, <3>2, <3>3
    <3>4. CASE h # j
      <4>1. it[x] # n
        BY <3>1, <3>4, Fields
      <4>2. x \notin stale'
        BY <2>0, <2>4, <4>1
      <4> DEFINE i == IF h < j THEN h ELSE h - 1
      <4>3. i \in 1 .. len' /\ Was(i, j) = h
        BY <1>1, <3>1, <3>2, <3>4 DEF Was
      <4>4. it'[x] = order'[i]
        BY <4>3, <1>1, <2>0, <3>1
      <4>5. posBar'[x] = i - 1
        BY <4>2, <4>3, <4>4, PosAfter
      <4>6. QED
        BY <4>5, <3>2, <3>4, <1>1
    <3>5. QED
      BY <3>3, <3>4
  <2>5. QED
    BY <2>1, <2>2, <2>3, <2>4
<1> DEFINE p == [x \in Iter |-> IF posBar[x] = j - 1 THEN M!Invalid
                                ELSE IF posBar[x] >= j THEN posBar[x] - 1
                                ELSE posBar[x]]
<1>4. posBar' = p
  <2>1. p = [x \in Iter |-> p[x]] /\ \A x \in Iter : p[x] = posBar'[x]
    BY <1>3 DEF M!Invalid
  <2> HIDE DEF p
  <2>2. QED
    BY <2>1, PosBarUnique
<1>5. QED
  BY <1>2, <1>4

LEMMA RemoveRefines ==
  ASSUME IInv, IInv', NEW k \in Key, Remove(k)
  PROVE  M!Remove(k)
<1>0. alive
  BY DEF Remove
<1>1. CASE GetNode(k) = NULL
  <2>1. Keep(<<"remove", k>>, -1, NoValue)
    BY <1>1 DEF Remove
  <2>2. M!Keep(<<"remove", k>>, -1, NoValue) /\ ~M!Has(k)
    BY <1>1, <2>1, KeepRefines, HasIs
  <2>3. QED
    BY <1>0, <2>2 DEF M!Remove
<1>2. CASE GetNode(k) # NULL
  <2> DEFINE n == GetNode(k)
  <2>1. /\ n \in DOMAIN heap
        /\ \E j \in 1 .. len : n = order[j] /\ RemoveEffect(n, j)
        /\ ret' = Answer(<<"remove", k>>, 0, Pair(heap[n].k, heap[n].v))
    BY <1>0, <1>2, UnlinkEffect
  <2>2. PICK j \in 1 .. len : n = order[j] /\ RemoveEffect(n, j)
    BY <2>1
  <2>3. pairsBar[j].k = k /\ j \in DOMAIN pairsBar
    BY <2>2, HasIs, PairsIs
  <2> HIDE DEF n
  <2>4. pairsBar[j] = Pair(heap[n].k, heap[n].v)
    BY <2>2, PairsIs
  <2>5. /\ pairsBar' = M!WithoutAt(pairsBar, j)
        /\ posBar' = [x \in Iter |-> IF posBar[x] = j - 1 THEN M!Invalid
                                      ELSE IF posBar[x] >= j THEN posBar[x] - 1
                                      ELSE posBar[x]]
    BY <2>2, UnlinkRefines
  <2>6. alive' = alive /\ ret' = M!Answer(<<"remove", k>>, 0, pairsBar[j])
    BY <2>1, <2>2, <2>4 DEF RemoveEffect, Answer, M!Answer
  <2>7. QED
    BY <1>0, <2>3, <2>5, <2>6 DEF M!Remove
<1>3. QED
  BY <1>1, <1>2

LEMMA FreeRefines ==
  ASSUME IInv, IInv', Free
  PROVE  M!Free
<1>1. /\ alive /\ alive' = FALSE /\ len' = 0 /\ it' = it
      /\ stale' = stale \cup {x \in Iter : it[x] \in Follow(head)}
      /\ ret' = Answer(<<"free">>, 0, NoValue)
  BY DEF Free
<1>2. pairsBar' = <<>>
  BY <1>1 DEF pairsBar
<1>3. Follow(head) = DOMAIN heap /\ NULL \notin DOMAIN heap /\ CLOSED \notin DOMAIN heap
  BY FollowHead, Fields
<1>4. \A x \in Iter : posBar'[x] = IF posBar[x] >= 0 THEN -3 ELSE posBar[x]
  <2> SUFFICES ASSUME NEW x \in Iter
               PROVE  posBar'[x] = IF posBar[x] >= 0 THEN -3 ELSE posBar[x]
    OBVIOUS
  <2>1. CASE it[x] = CLOSED
    BY <2>1, <1>1, <1>3, PosIs, PosAfter
  <2>2. CASE x \in stale
    BY <2>2, <1>1, PosIs, PosAfter
  <2>3. CASE x \notin stale /\ it[x] = NULL
    BY <2>3, <1>1, <1>3, PosIs, PosAfter
  <2>4. CASE x \notin stale /\ it[x] # NULL /\ it[x] # CLOSED
    <3>1. it[x] \in DOMAIN heap
      BY <2>4 DEF IInv, Shape, Cursors
    <3>2. x \in stale'
      BY <3>1, <1>1, <1>3
    <3>3. posBar'[x] = -3 /\ posBar[x] >= 0
      BY <3>2, <2>4, PosAfter, KindIs
    <3>4. QED
      BY <3>3
  <2>5. QED
    BY <2>1, <2>2, <2>3, <2>4
<1> DEFINE p == [x \in Iter |-> IF posBar[x] >= 0 THEN M!Invalid ELSE posBar[x]]
<1>5. posBar' = p
  <2>1. p = [x \in Iter |-> p[x]] /\ \A x \in Iter : p[x] = posBar'[x]
    BY <1>4 DEF M!Invalid
  <2> HIDE DEF p
  <2>2. QED
    BY <2>1, PosBarUnique
<1>6. QED
  BY <1>1, <1>2, <1>5 DEF M!Free, M!Answer, Answer

(* A cursor that moves, the map being left alone: its new position.        *)
LEMMA MoveRefines ==
  ASSUME IInv, IInv', NEW x \in Iter, UNCHANGED <<mapVars, stale>>,
         NEW p, it' = [it EXCEPT ![x] = p], NEW q, posBar'[x] = q
  PROVE  /\ posBar' = [posBar EXCEPT ![x] = q]
         /\ pairsBar' = pairsBar /\ alive' = alive
<1>1. \A y \in Iter : y # x => it'[y] = it[y]
  BY DEF IInv, TypeOK
<1>2. \A y \in Iter : y # x => posBar'[y] = posBar[y]
  BY <1>1 DEF posBar, mapVars, Place
<1>3. pairsBar' = pairsBar /\ alive' = alive
  BY DEF pairsBar, mapVars
<1> DEFINE b == [posBar EXCEPT ![x] = q]
<1>4. b = [y \in Iter |-> b[y]] /\ \A y \in Iter : b[y] = posBar'[y]
  <2>1. posBar = [y \in Iter |-> posBar[y]]
    BY DEF posBar
  <2> HIDE DEF posBar
  <2>2. QED
    BY <2>1, <1>2
<1> HIDE DEF b
<1>5. posBar' = b
  BY <1>4, PosBarUnique
<1>6. QED
  BY <1>3, <1>5 DEF b

LEMMA IterOpenRefines ==
  ASSUME IInv, IInv', NEW x \in Iter, IterOpen(x)
  PROVE  M!IterOpen(x)
<1>1. /\ alive /\ it[x] = CLOSED /\ it' = [it EXCEPT ![x] = head]
      /\ ret' = Answer(<<"iterator", x>>, 0, NoValue)
      /\ UNCHANGED <<mapVars, stale>>
  BY DEF IterOpen
<1>2. posBar[x] = -2 /\ x \notin stale
  BY <1>1, PosIs
<1>3. it'[x] = head /\ stale' = stale /\ len' = len /\ order' = order
  BY <1>1 DEF IInv, TypeOK, mapVars
<1>4. posBar'[x] = IF pairsBar = <<>> THEN -1 ELSE 0
  <2>1. CASE len = 0
    <3>1. head = NULL /\ pairsBar = <<>>
      BY <2>1, Ends DEF pairsBar
    <3>2. QED
      BY <3>1, <1>2, <1>3, PosAfter
  <2>2. CASE len # 0
    <3>1. 1 \in 1 .. len' /\ it'[x] = order'[1]
      BY <2>2, <1>3, Ends
    <3>2. posBar'[x] = 1 - 1
      <4>1. x \notin stale'
        BY <1>2, <1>3
      <4>2. \A i \in 1 .. len' : it'[x] = order'[i] => posBar'[x] = i - 1
        BY <4>1, PosAfter
      <4>3. QED
        BY <3>1, <4>2
    <3>3. pairsBar # <<>>
      BY <2>2, PairsIs
    <3>4. QED
      BY <3>2, <3>3
  <2>3. QED
    BY <2>1, <2>2
<1> DEFINE q == IF pairsBar = <<>> THEN -1 ELSE 0
<1>5. posBar'[x] = q
  BY <1>4
<1> HIDE DEF q
<1>6. /\ posBar' = [posBar EXCEPT ![x] = q]
      /\ pairsBar' = pairsBar /\ alive' = alive
  BY <1>1, <1>5, MoveRefines
<1>7. QED
  BY <1>1, <1>2, <1>6 DEF q, M!IterOpen, M!Closed, M!Exhausted, M!Answer, Answer

(* Both kinds of next move to the node behind.                             *)
LEMMA StepRefines ==
  ASSUME IInv, IInv', NEW x \in Iter, it[x] # CLOSED, x \notin stale, it[x] # NULL,
         NEW call, NEW o, NEW anything, Step(x, call, o)
  PROVE  M!Advance(x, call, o, anything)
<1>1. /\ ret' = Answer(call, 0, o)
      /\ it' = [it EXCEPT ![x] = heap[it[x]].next]
      /\ UNCHANGED <<mapVars, stale>>
  BY DEF Step
<1>2. PICK i \in 1 .. len : it[x] = order[i]
  BY PosIs
<1>3. posBar[x] = i - 1 /\ i \in Nat /\ Len(pairsBar) = len
  BY <1>2, PosIs, PairsIs, Fields
<1>4. heap[it[x]].next = IF i = len THEN NULL ELSE order[i + 1]
  BY <1>2 DEF IInv, Shape, Joined
<1>5. it'[x] = heap[it[x]].next /\ stale' = stale /\ len' = len /\ order' = order
  BY <1>1 DEF IInv, TypeOK, mapVars
<1>6. posBar'[x] = IF posBar[x] + 1 = Len(pairsBar) THEN -1 ELSE posBar[x] + 1
  <2>1. CASE i = len
    BY <2>1, <1>3, <1>4, <1>5, PosAfter
  <2>2. CASE i # len
    <3>1. i + 1 \in 1 .. len' /\ it'[x] = order'[i + 1]
      BY <2>2, <1>4, <1>5, Fields
    <3>2. posBar'[x] = i + 1 - 1
      <4>1. x \notin stale'
        BY <1>5
      <4>2. \A h \in 1 .. len' : it'[x] = order'[h] => posBar'[x] = h - 1
        BY <4>1, PosAfter
      <4>3. QED
        BY <3>1, <4>2
    <3>3. QED
      BY <3>2, <2>2, <1>3
  <2>3. QED
    BY <2>1, <2>2
<1> DEFINE q == IF posBar[x] + 1 = Len(pairsBar) THEN -1 ELSE posBar[x] + 1
           p == heap[it[x]].next
<1>7. posBar'[x] = q /\ it' = [it EXCEPT ![x] = p]
  BY <1>1, <1>6
<1> HIDE DEF q, p
<1>8. /\ posBar' = [posBar EXCEPT ![x] = q]
      /\ pairsBar' = pairsBar /\ alive' = alive
  BY <1>1, <1>7, MoveRefines
<1>9. posBar[x] >= 0
  BY <1>3, Fields
<1>10. QED
  BY <1>1, <1>8, <1>9 DEF q, M!Advance, M!Exhausted, M!Answer, Answer

LEMMA IterNextRefines ==
  ASSUME IInv, IInv', NEW x \in Iter, IterNext(x)
  PROVE  M!IterNext(x)
<1>0. it[x] # CLOSED /\ x \notin stale
  BY DEF IterNext
<1>1. CASE it[x] = NULL
  <2>1. Keep(<<"next", x>>, -1, NoValue)
    BY <1>1 DEF IterNext
  <2>2. M!Keep(<<"next", x>>, -1, NoValue) /\ posBar[x] = -1
    BY <1>0, <1>1, <2>1, KeepRefines, PosIs
  <2>3. QED
    BY <2>2 DEF M!IterNext, M!Advance, M!Exhausted
<1>2. CASE it[x] # NULL
  <2>1. Step(x, <<"next", x>>, heap[it[x]].k)
    BY <1>2 DEF IterNext
  <2>2. PICK i \in 1 .. len : it[x] = order[i]
    BY <1>0, <1>2, PosIs
  <2>3. posBar[x] + 1 = i /\ pairsBar[i].k = heap[order[i]].k
    BY <1>0, <2>2, PosIs, PairsIs, Fields
  <2> DEFINE o == heap[it[x]].k
             call == <<"next", x>>
  <2>4. o = pairsBar[posBar[x] + 1].k /\ Step(x, call, o)
    BY <2>1, <2>2, <2>3
  <2> HIDE DEF o, call
  <2>5. M!Advance(x, call, o, Key)
    BY <1>0, <1>2, <2>4, StepRefines
  <2>6. QED
    BY <2>4, <2>5 DEF M!IterNext, call
<1>3. QED
  BY <1>1, <1>2

LEMMA IterNextPairRefines ==
  ASSUME IInv, IInv', NEW x \in Iter, IterNextPair(x)
  PROVE  M!IterNextPair(x)
<1>0. it[x] # CLOSED /\ x \notin stale
  BY DEF IterNextPair
<1>1. CASE it[x] = NULL
  <2>1. Keep(<<"next_pair", x>>, -1, NoValue)
    BY <1>1 DEF IterNextPair
  <2>2. M!Keep(<<"next_pair", x>>, -1, NoValue) /\ posBar[x] = -1
    BY <1>0, <1>1, <2>1, KeepRefines, PosIs
  <2>3. QED
    BY <2>2 DEF M!IterNextPair, M!Advance, M!Exhausted
<1>2. CASE it[x] # NULL
  <2>1. Step(x, <<"next_pair", x>>, Pair(heap[it[x]].k, heap[it[x]].v))
    BY <1>2 DEF IterNextPair
  <2>2. PICK i \in 1 .. len : it[x] = order[i]
    BY <1>0, <1>2, PosIs
  <2>3. posBar[x] + 1 = i /\ pairsBar[i] = Pair(heap[order[i]].k, heap[order[i]].v)
    BY <1>0, <2>2, PosIs, PairsIs, Fields
  <2> DEFINE o == Pair(heap[it[x]].k, heap[it[x]].v)
             call == <<"next_pair", x>>
             all == [k : Key, v : Value]
  <2>4. o = pairsBar[posBar[x] + 1] /\ Step(x, call, o)
    BY <2>1, <2>2, <2>3
  <2> HIDE DEF o, call, all
  <2>5. M!Advance(x, call, o, all)
    BY <1>0, <1>2, <2>4, StepRefines
  <2>6. QED
    BY <2>4, <2>5 DEF M!IterNextPair, call, all
<1>3. QED
  BY <1>1, <1>2

LEMMA IterNextStaleRefines ==
  ASSUME IInv, IInv', NEW x \in Iter, IterNextStale(x)
  PROVE  M!IterNext(x) \/ M!IterNextPair(x)
<1>0. posBar[x] = -3
  BY PosIs DEF IterNextStale
<1>1. CASE Keep(<<"next", x>>, -1, NoValue)
  BY <1>0, <1>1, KeepRefines DEF M!IterNext, M!Advance, M!Invalid
<1>2. CASE Keep(<<"next_pair", x>>, -1, NoValue)
  BY <1>0, <1>2, KeepRefines DEF M!IterNextPair, M!Advance, M!Invalid
<1>3. CASE \E k \in Key : Keep(<<"next", x>>, 0, k)
  BY <1>0, <1>3, KeepRefines DEF M!IterNext, M!Advance, M!Invalid
<1>4. CASE \E k \in Key, v \in Value : Keep(<<"next_pair", x>>, 0, Pair(k, v))
  <2>1. PICK k \in Key, v \in Value : Keep(<<"next_pair", x>>, 0, Pair(k, v))
    BY <1>4
  <2>2. Pair(k, v) \in [k : Key, v : Value]
    BY DEF Pair
  <2>3. M!Keep(<<"next_pair", x>>, 0, Pair(k, v))
    BY <2>1, KeepRefines
  <2>4. QED
    BY <1>0, <2>2, <2>3 DEF M!IterNextPair, M!Advance, M!Invalid
<1>5. QED
  BY <1>1, <1>2, <1>3, <1>4 DEF IterNextStale

LEMMA IterHasNextRefines ==
  ASSUME IInv, IInv', NEW x \in Iter, IterHasNext(x)
  PROVE  M!IterHasNext(x)
<1>1. PICK c \in {0, 1} : /\ x \notin stale => c = (IF it[x] = NULL THEN 0 ELSE 1)
                          /\ Keep(<<"has_next", x>>, c, NoValue)
  BY DEF IterHasNext
<1>2. it[x] # CLOSED
  BY DEF IterHasNext
<1>3. M!Keep(<<"has_next", x>>, c, NoValue)
  BY <1>1, KeepRefines
<1>4. /\ posBar[x] # -2
      /\ posBar[x] # -3 => c = (IF posBar[x] = -1 THEN 0 ELSE 1)
  BY <1>1, <1>2, KindIs
<1>5. QED
  BY <1>3, <1>4 DEF M!IterHasNext, M!Closed, M!Invalid, M!Exhausted

LEMMA IterCloseRefines ==
  ASSUME IInv, IInv', NEW x \in Iter, IterClose(x)
  PROVE  M!IterClose(x)
<1>1. /\ it[x] # CLOSED /\ it' = [it EXCEPT ![x] = CLOSED] /\ stale' = stale \ {x}
      /\ ret' = Answer(<<"close", x>>, 0, NoValue)
      /\ UNCHANGED mapVars
  BY DEF IterClose
<1>2. posBar[x] # -2
  BY <1>1, KindIs
<1>3. it'[x] = CLOSED /\ \A y \in Iter : y # x => it'[y] = it[y]
  BY <1>1 DEF IInv, TypeOK
<1>4. posBar'[x] = -2
  BY <1>3, PosAfter
<1>5. \A y \in Iter : y # x => posBar'[y] = posBar[y]
  BY <1>1, <1>3 DEF posBar, mapVars, Place
<1>6. pairsBar' = pairsBar /\ alive' = alive
  BY <1>1 DEF pairsBar, mapVars
<1> DEFINE b == [posBar EXCEPT ![x] = -2]
<1>7. posBar' = b
  <2>1. posBar = [y \in Iter |-> posBar[y]]
    BY DEF posBar
  <2> HIDE DEF posBar
  <2>2. b = [y \in Iter |-> b[y]] /\ \A y \in Iter : b[y] = posBar'[y]
    BY <2>1, <1>4, <1>5
  <2> HIDE DEF b
  <2>3. QED
    BY <2>2, PosBarUnique
<1>8. QED
  BY <1>1, <1>2, <1>6, <1>7 DEF M!IterClose, M!Closed, M!Answer, Answer

(* Every step of the linked map is a step of the map a caller sees, or     *)
(* leaves what he sees as it is.                                           *)
LEMMA NextRefines ==
  IInv /\ IInv' /\ [Next]_vars => [M!Next]_<<alive, pairsBar, posBar, ret>>
<1> SUFFICES ASSUME IInv, IInv', [Next]_vars
             PROVE  [M!Next]_<<alive, pairsBar, posBar, ret>>
  OBVIOUS
<1>1. CASE Size
  <2>1. M!Keep(<<"size">>, Len(pairsBar), NoValue)
    BY <1>1, KeepRefines, PairsIs DEF Size
  <2>2. M!Size
    BY <1>1, <2>1 DEF Size, M!Size
  <2>3. QED
    BY <2>2 DEF M!Next
<1>2. CASE Free
  BY <1>2, FreeRefines DEF M!Next
<1>3. CASE New
  <2>1. /\ ~alive /\ alive' = TRUE /\ len' = len /\ heap' = heap /\ order' = order
        /\ it' = it /\ stale' = stale /\ ret' = Answer(<<"new">>, 0, NoValue)
    BY <1>3 DEF New, IInv, Shape
  <2>2. pairsBar' = pairsBar /\ posBar' = posBar
    BY <2>1 DEF pairsBar, posBar, Place
  <2>3. M!New
    BY <2>1, <2>2 DEF M!New, M!Answer, Answer
  <2>4. QED
    BY <2>3 DEF M!Next
<1>4. ASSUME NEW k \in Key, Get(k)
      PROVE  M!Get(k)
  <2>0. alive
    BY <1>4 DEF Get
  <2>1. CASE GetNode(k) = NULL
    <3>1. Keep(<<"get", k>>, -1, NoValue)
      BY <1>4, <2>1 DEF Get
    <3>2. M!Keep(<<"get", k>>, -1, NoValue) /\ ~M!Has(k)
      BY <2>1, <3>1, KeepRefines, HasIs
    <3>3. QED
      BY <2>0, <3>2 DEF M!Get
  <2>2. CASE GetNode(k) # NULL
    <3>1. PICK j \in 1 .. len : GetNode(k) = order[j]
      BY <2>2, GetNodeIs, Fields
    <3>2. /\ j \in DOMAIN pairsBar /\ pairsBar[j].k = k
          /\ pairsBar[j].v = heap[GetNode(k)].v
      BY <3>1, HasIs, PairsIs
    <3>3. Keep(<<"get", k>>, 0, pairsBar[j].v)
      BY <1>4, <2>2, <3>2 DEF Get
    <3>4. M!Keep(<<"get", k>>, 0, pairsBar[j].v)
      BY <3>3, KeepRefines
    <3>5. QED
      BY <2>0, <3>2, <3>4 DEF M!Get
  <2>3. QED
    BY <2>1, <2>2
<1>5. ASSUME NEW k \in Key, NEW v \in Value, Add(k, v)
      PROVE  M!Add(k, v)
  BY <1>5, AddRefines DEF Add
<1>6. CASE UNCHANGED vars
  <2>1. pairsBar' = pairsBar /\ posBar' = posBar /\ alive' = alive
    BY <1>6, ViewUnchanged DEF vars, mapVars
  <2>2. QED
    BY <1>6, <2>1 DEF vars
<1>7. ASSUME NEW x \in Iter, \/ IterOpen(x) \/ IterNext(x) \/ IterNextPair(x)
                             \/ IterNextStale(x) \/ IterHasNext(x) \/ IterClose(x)
      PROVE  \/ M!IterOpen(x) \/ M!IterNext(x) \/ M!IterNextPair(x)
             \/ M!IterHasNext(x) \/ M!IterClose(x)
  BY <1>7, IterOpenRefines, IterNextRefines, IterNextPairRefines,
     IterNextStaleRefines, IterHasNextRefines, IterCloseRefines
<1>8. QED
  <2>1. ASSUME NEW k \in Key, Get(k) \/ Remove(k)
        PROVE  M!Next
    BY <2>1, <1>4, RemoveRefines DEF M!Next
  <2>2. ASSUME NEW k \in Key, NEW v \in Value, Add(k, v)
        PROVE  M!Next
    BY <2>2, <1>5 DEF M!Next
  <2>3. ASSUME NEW x \in Iter, \/ IterOpen(x) \/ IterNext(x) \/ IterNextPair(x)
                               \/ IterNextStale(x) \/ IterHasNext(x) \/ IterClose(x)
        PROVE  M!Next
    BY <2>3, <1>7 DEF M!Next
  <2>4. QED
    BY <1>1, <1>2, <1>3, <1>6, <2>1, <2>2, <2>3 DEF Next

LEMMA InitRefines == Init => M!Init
BY DEF Init, M!Init, pairsBar, posBar, M!Closed, M!Answer, Answer

(* The linked map implements the map a caller of cosmic_map.h is promised: *)
(* add, get, remove, free and the iterators do to the chain of nodes what  *)
(* MapSpec does to a sequence of pairs with distinct keys.                 *)
THEOREM DmapImplementsMap == Spec => ImplementsMap
<1>1. Init => IInv
  BY InitInv
<1>2. IInv /\ [Next]_vars => IInv'
  BY NextInv
<1>3. Init => M!Init
  BY InitRefines
<1>4. IInv /\ IInv' /\ [Next]_vars => [M!Next]_<<alive, pairsBar, posBar, ret>>
  BY NextRefines
<1>5. QED
  BY <1>1, <1>2, <1>3, <1>4, PTL DEF Spec, ImplementsMap, M!Spec, M!vars
=============================================================================

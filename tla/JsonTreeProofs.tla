--------------------------- MODULE JsonTreeProofs ---------------------------
(***************************************************************************)
(* However many values there are, however they are nested: every value has *)
(* one owner and every key string one pair, equality is that of documents, *)
(* a copy is equal and apart, and a replace is done whole or not at all.   *)
(*                                                                         *)
(* The nodes form a forest whose roots the caller holds.  That there is no *)
(* circle is said of sets, in both directions: among any nodes there is    *)
(* one with none of them as its child, and one with none as its parent.    *)
(* That takes the place of an induction over values.                       *)
(***************************************************************************)
EXTENDS JsonTree, FiniteSetTheorems, SequenceTheorems, TLAPS

ItemRec == [k : Key \cup {NONE}, v : Node]
JsonRec == [type : Scalar \cup Container \cup {"error"}, val : Atom \cup {NONE},
            items : Seq(ItemRec)]

Within(t) == \A m \in DOMAIN t : Children(t, m) \subseteq DOMAIN t
Down(t) == \A S \in SUBSET DOMAIN t :
             S # {} => \E n \in S : Children(t, n) \cap S = {}
Up(t) == \A S \in SUBSET DOMAIN t :
           S # {} => \E n \in S : \A m \in S : n \notin Children(t, m)

(* Only containers have items; no object has a key twice, and the items of *)
(* a list have none.                                                       *)
Formed(j) ==
  /\ j.type \notin Container => j.items = <<>>
  /\ j.type = "object" =>
       \A a, b \in DOMAIN j.items : j.items[a].k = j.items[b].k => a = b
  /\ j.type = "list" => \A a \in DOMAIN j.items : j.items[a].k = NONE

(* The nodes of t are trees, and their roots are h. *)
Forest(t, h) ==
  /\ DOMAIN t \subseteq Node /\ t \in [DOMAIN t -> JsonRec]
  /\ \A n \in DOMAIN t : Formed(t[n])
  /\ h \subseteq DOMAIN t
  /\ \A n \in DOMAIN t : t[n].type = "error" => n \in h
  /\ \A m \in DOMAIN t : Children(t, m) \subseteq DOMAIN t \ h
  /\ \A n \in DOMAIN t \ h : \E m \in DOMAIN t : n \in Children(t, m)
  /\ \A m1, m2 \in DOMAIN t : \A a \in DOMAIN t[m1].items, b \in DOMAIN t[m2].items :
       t[m1].items[a].v = t[m2].items[b].v => m1 = m2 /\ a = b
  /\ Down(t) /\ Up(t)

Answered == ret.ok \in BOOLEAN /\ ret.out \in Node \cup {NONE}

Counting == /\ strings = Strings(json, Live) + refused
            /\ refused \in 0 .. MaxRefused

IInv == Forest(json, held) /\ Counting /\ Answered

USE JsonTreeAssumption

-----------------------------------------------------------------------------
(* An array, as the byte buffers of the code, is a sequence.               *)
LEMMA ArrayIsSeq ==
  ASSUME NEW S, NEW k \in Nat, NEW f \in [1 .. k -> S]
  PROVE  f \in Seq(S) /\ Len(f) = k
OBVIOUS

-----------------------------------------------------------------------------
(* What can be reached from a node.                                        *)

Closed(t, C) == \A m \in C : Children(t, m) \subseteq C
Reach(t, n) == {m \in DOMAIN t :
                  \A C \in SUBSET DOMAIN t : n \in C /\ Closed(t, C) => m \in C}

LEMMA ReachLeast ==
  ASSUME NEW t, NEW n, NEW C \in SUBSET DOMAIN t, n \in C, Closed(t, C)
  PROVE  Reach(t, n) \subseteq C
BY DEF Reach

LEMMA ReachHolds ==
  ASSUME NEW t, Within(t), NEW n \in DOMAIN t
  PROVE  /\ n \in Reach(t, n)
         /\ Closed(t, Reach(t, n))
         /\ Reach(t, n) \subseteq DOMAIN t
<1>1. n \in Reach(t, n) /\ Reach(t, n) \subseteq DOMAIN t
  BY DEF Reach
<1>2. ASSUME NEW m \in Reach(t, n), NEW c \in Children(t, m)
      PROVE  c \in Reach(t, n)
  <2>1. c \in DOMAIN t
    BY <1>1, <1>2 DEF Within
  <2>2. ASSUME NEW C \in SUBSET DOMAIN t, n \in C, Closed(t, C)
        PROVE  c \in C
    <3>1. m \in C
      BY <1>2, <2>2, ReachLeast
    <3>2. QED
      BY <1>2, <2>2, <3>1 DEF Closed
  <2>3. QED
    BY <2>1, <2>2 DEF Reach
<1>3. QED
  BY <1>1, <1>2 DEF Closed

LEMMA ReachStep ==
  ASSUME NEW t, Within(t), NEW n \in DOMAIN t
  PROVE  Reach(t, n) = {n} \cup UNION {Reach(t, c) : c \in Children(t, n)}
<1> DEFINE C == {n} \cup UNION {Reach(t, c) : c \in Children(t, n)}
<1>1. /\ n \in Reach(t, n) /\ Closed(t, Reach(t, n)) /\ Reach(t, n) \subseteq DOMAIN t
      /\ Children(t, n) \subseteq DOMAIN t
  BY ReachHolds DEF Within
<1>2. \A c \in Children(t, n) : /\ c \in Reach(t, c) /\ Closed(t, Reach(t, c))
                                /\ Reach(t, c) \subseteq DOMAIN t
                                /\ Reach(t, c) \subseteq Reach(t, n)
  <2> TAKE c \in Children(t, n)
  <2>1. c \in Reach(t, n)
    BY <1>1 DEF Closed
  <2>2. QED
    BY <1>1, <2>1, ReachHolds, ReachLeast
<1>3. C \subseteq Reach(t, n)
  BY <1>1, <1>2
<1>4. Closed(t, C)
  <2> SUFFICES ASSUME NEW m \in C, NEW x \in Children(t, m)
               PROVE  x \in C
    BY DEF Closed
  <2>1. CASE m = n
    BY <1>2, <2>1
  <2>2. CASE m # n
    <3>1. PICK c \in Children(t, n) : m \in Reach(t, c)
      BY <2>2
    <3>2. x \in Reach(t, c)
      BY <1>2, <3>1 DEF Closed
    <3>3. QED
      BY <3>2
  <2>3. QED
    BY <2>1, <2>2
<1>5. Reach(t, n) \subseteq C
  <2>1. C \in SUBSET DOMAIN t /\ n \in C
    BY <1>1, <1>3
  <2> HIDE DEF C
  <2>2. QED
    BY <1>4, <2>1, ReachLeast
<1>6. QED
  BY <1>3, <1>5

(* What copy and free walk is what can be reached.                         *)
LEMMA BelowIs ==
  ASSUME NEW t, Within(t), Down(t), NEW n \in DOMAIN t
  PROVE  Below(t, n) = Reach(t, n)
<1> DEFINE Is(g) == g = [m \in DOMAIN t |-> {m} \cup UNION {g[c] : c \in Children(t, m)}]
           below == CHOOSE g : Is(g)
           r == [m \in DOMAIN t |-> Reach(t, m)]
<1>1. Is(r)
  <2>1. ASSUME NEW m \in DOMAIN t
        PROVE  r[m] = {m} \cup UNION {r[c] : c \in Children(t, m)}
    <3>1. \A c \in Children(t, m) : r[c] = Reach(t, c)
      BY DEF Within
    <3>2. {r[c] : c \in Children(t, m)} = {Reach(t, c) : c \in Children(t, m)}
      BY <3>1
    <3>3. QED
      BY <3>2, ReachStep
  <2>2. QED
    BY <2>1
<1>2. Is(below)
  BY <1>1
<1>3. Below(t, n) = below[n]
  BY DEF Below
<1> DEFINE S == {m \in DOMAIN t : below[m] # Reach(t, m)}
<1>4. ASSUME S # {}
      PROVE  FALSE
  <2>1. PICK m \in S : Children(t, m) \cap S = {}
    BY <1>4 DEF Down
  <2>2. \A c \in Children(t, m) : below[c] = Reach(t, c)
    <3> HIDE DEF below
    <3> QED
      BY <2>1 DEF Within
  <2>3. {below[c] : c \in Children(t, m)} = {Reach(t, c) : c \in Children(t, m)}
    <3> HIDE DEF below
    <3> QED
      BY <2>2
  <2>4. below[m] = {m} \cup UNION {below[c] : c \in Children(t, m)}
    <3> HIDE DEF below
    <3> QED
      BY <1>2
  <2>5. QED
    BY <2>1, <2>3, <2>4, ReachStep
<1>5. QED
  BY <1>3, <1>4

-----------------------------------------------------------------------------
(* What a forest is, in the terms of the model.                            *)

LEMMA ForestFacts ==
  ASSUME NEW t, NEW h, Forest(t, h)
  PROVE  /\ Within(t) /\ IsFiniteSet(DOMAIN t)
         /\ \A n \in DOMAIN t : t[n] \in JsonRec /\ t[n].items \in Seq(ItemRec)
         /\ \A n \in DOMAIN t : Below(t, n) = Reach(t, n)
<1>1. Within(t) /\ IsFiniteSet(DOMAIN t)
  BY FS_Subset DEF Forest, Within
<1>2. \A n \in DOMAIN t : t[n] \in JsonRec /\ t[n].items \in Seq(ItemRec)
  BY DEF Forest, JsonRec
<1>3. \A n \in DOMAIN t : Below(t, n) = Reach(t, n)
  BY <1>1, BelowIs DEF Forest
<1>4. QED
  BY <1>1, <1>2, <1>3

LEMMA SlotsIs ==
  ASSUME NEW t, NEW ns
  PROVE  \A p : p \in Slots(t, ns) <=> \E n \in ns : \E a \in DOMAIN t[n].items : p = <<n, a>>
<1>1. ASSUME NEW p, p \in Slots(t, ns)
      PROVE  \E n \in ns : \E a \in DOMAIN t[n].items : p = <<n, a>>
  <2>1. PICK n \in ns : p \in {n} \X DOMAIN t[n].items
    BY <1>1 DEF Slots
  <2>2. QED
    BY <2>1
<1>2. ASSUME NEW n \in ns, NEW a \in DOMAIN t[n].items
      PROVE  <<n, a>> \in Slots(t, ns)
  <2>1. <<n, a>> \in {n} \X DOMAIN t[n].items
    OBVIOUS
  <2>2. QED
    BY <2>1 DEF Slots
<1>3. QED
  BY <1>1, <1>2

LEMMA SlotsFinite ==
  ASSUME NEW t, NEW ns, IsFiniteSet(ns), \A n \in ns : t[n].items \in Seq(ItemRec)
  PROVE  IsFiniteSet(Slots(t, ns))
<1> DEFINE f == [n \in ns |-> {n} \X DOMAIN t[n].items]
           T == {{n} \X DOMAIN t[n].items : n \in ns}
<1>1. f \in Surjection(ns, T)
  BY DEF Surjection
<1>2. IsFiniteSet(T)
  BY <1>1, FS_Surjection
<1>3. ASSUME NEW n \in ns
      PROVE  IsFiniteSet({n} \X DOMAIN t[n].items)
  <2>1. DOMAIN t[n].items = 1 .. Len(t[n].items) /\ Len(t[n].items) \in Nat
    BY LenProperties
  <2>2. IsFiniteSet(DOMAIN t[n].items)
    BY <2>1, FS_Interval
  <2>3. QED
    BY <2>2, FS_Singleton, FS_Product
<1>4. \A x \in T : IsFiniteSet(x)
  BY <1>3
<1>5. QED
  BY <1>2, <1>4, FS_UNION DEF Slots

(* The strings of nodes that are apart are counted apart.                  *)
LEMMA StringsAdd ==
  ASSUME NEW t, NEW A, NEW B, A \cap B = {}, IsFiniteSet(A), IsFiniteSet(B),
         \A n \in A \cup B : t[n].items \in Seq(ItemRec)
  PROVE  /\ Strings(t, A) \in Nat /\ Strings(t, B) \in Nat
         /\ Strings(t, A \cup B) = Strings(t, A) + Strings(t, B)
<1> DEFINE Objects(ns) == {n \in ns : t[n].type = "object"}
<1>1. IsFiniteSet(Objects(A)) /\ IsFiniteSet(Objects(B))
  BY FS_Subset
<1>2. /\ IsFiniteSet(Slots(t, Objects(A))) /\ IsFiniteSet(Slots(t, Objects(B)))
  BY <1>1, SlotsFinite
<1>3. Slots(t, Objects(A \cup B)) = Slots(t, Objects(A)) \cup Slots(t, Objects(B))
  BY DEF Slots
<1>4. Slots(t, Objects(A)) \cap Slots(t, Objects(B)) = {}
  BY SlotsIs
<1>5. Cardinality({}) = 0
  BY FS_EmptySet
<1>6. /\ Strings(t, A) = Cardinality(Slots(t, Objects(A)))
      /\ Strings(t, B) = Cardinality(Slots(t, Objects(B)))
      /\ Strings(t, A \cup B) = Cardinality(Slots(t, Objects(A)) \cup Slots(t, Objects(B)))
  BY <1>3 DEF Strings
<1> HIDE DEF Objects
<1>7. /\ Strings(t, A) \in Nat /\ Strings(t, B) \in Nat
  BY <1>2, <1>6, FS_CardinalityType
<1>8. Strings(t, A \cup B) = Strings(t, A) + Strings(t, B) - 0
  BY <1>2, <1>4, <1>5, <1>6, FS_Union
<1>9. QED
  BY <1>7, <1>8

LEMMA StringsType ==
  ASSUME NEW t, NEW A, IsFiniteSet(A), \A n \in A : t[n].items \in Seq(ItemRec)
  PROVE  Strings(t, A) \in Nat
<1>1. IsFiniteSet({}) /\ A \cap {} = {} /\ A \cup {} = A
  BY FS_EmptySet
<1>2. QED
  BY <1>1, StringsAdd

(* Strings depend on the nodes they are counted in only.                   *)
LEMMA StringsSame ==
  ASSUME NEW t, NEW u, NEW A,
         \A n \in A : t[n].type = u[n].type /\ DOMAIN t[n].items = DOMAIN u[n].items
  PROVE  Strings(u, A) = Strings(t, A)
<1>1. {n \in A : u[n].type = "object"} = {n \in A : t[n].type = "object"}
  OBVIOUS
<1>2. ASSUME NEW S \in SUBSET A
      PROVE  Slots(u, S) = Slots(t, S)
  <2>1. {{n} \X DOMAIN u[n].items : n \in S} = {{n} \X DOMAIN t[n].items : n \in S}
    OBVIOUS
  <2>2. QED
    BY <2>1 DEF Slots
<1>3. QED
  BY <1>1, <1>2 DEF Strings

-----------------------------------------------------------------------------
(* Owners in a forest.                                                     *)

LEMMA OneParent ==
  ASSUME NEW t, NEW h, Forest(t, h), NEW m1 \in DOMAIN t, NEW m2 \in DOMAIN t,
         NEW c, c \in Children(t, m1), c \in Children(t, m2)
  PROVE  m1 = m2
BY DEF Forest, Children

(* What is below a node, but not the node, has its owner there too.        *)
LEMMA ParentBelow ==
  ASSUME NEW t, NEW h, Forest(t, h), NEW n \in DOMAIN t, NEW c \in Reach(t, n), c # n
  PROVE  \E m \in Reach(t, n) : c \in Children(t, m)
<1> DEFINE C == {x \in Reach(t, n) : x = n \/ \E m \in Reach(t, n) : x \in Children(t, m)}
<1>1. /\ n \in Reach(t, n) /\ Closed(t, Reach(t, n)) /\ Reach(t, n) \subseteq DOMAIN t
  BY ForestFacts, ReachHolds
<1>2. Closed(t, C)
  BY <1>1 DEF Closed
<1>3. C \in SUBSET DOMAIN t /\ n \in C
  BY <1>1
<1>4. c \in C
  <2> HIDE DEF C
  <2> QED
    BY <1>2, <1>3, ReachLeast
<1>5. QED
  BY <1>4

LEMMA OwnerBelow ==
  ASSUME NEW t, NEW h, Forest(t, h), NEW n \in h, NEW m \in DOMAIN t,
         NEW c \in Reach(t, n), c \in Children(t, m)
  PROVE  m \in Reach(t, n)
<1>1. n \in DOMAIN t /\ c # n
  BY DEF Forest
<1>2. PICK x \in Reach(t, n) : c \in Children(t, x)
  BY <1>1, ParentBelow
<1>3. x \in DOMAIN t
  BY DEF Reach
<1>4. QED
  BY <1>2, <1>3, OneParent

(* Nothing is lost: the first node, from above, that is below no root      *)
(* would have an owner that is below none either.                          *)
LEMMA Rooted ==
  ASSUME NEW t, NEW h, Forest(t, h), NEW x \in DOMAIN t
  PROVE  \E n \in h : x \in Reach(t, n)
<1> DEFINE U == {y \in DOMAIN t : \A n \in h : y \notin Reach(t, n)}
<1>1. ASSUME U # {}
      PROVE  FALSE
  <2>1. PICK y \in U : \A m \in U : y \notin Children(t, m)
    BY <1>1 DEF Forest, Up
  <2>2. y \notin h
    BY <2>1, ForestFacts, ReachHolds
  <2>3. PICK m \in DOMAIN t : y \in Children(t, m)
    BY <2>2 DEF Forest
  <2>4. PICK n \in h : m \in Reach(t, n)
    BY <2>1, <2>3
  <2>5. n \in DOMAIN t
    BY DEF Forest
  <2>6. y \in Reach(t, n)
    BY <2>3, <2>4, <2>5, ForestFacts, ReachHolds DEF Closed
  <2>7. QED
    BY <2>1, <2>6
<1>2. QED
  BY <1>1

LEMMA InvOneOwner ==
  ASSUME IInv
  PROVE  OneOwner
<1>1. Forest(json, held) /\ Live = DOMAIN json
  BY DEF IInv, Live
<1>2. TypeOK
  <2>1. strings \in Nat
    <3>1. Strings(json, Live) \in Nat
      BY <1>1, ForestFacts, StringsType
    <3>2. QED
      BY <3>1 DEF IInv, Counting
  <2>2. \A n \in Live : /\ Type(n) \in Scalar \cup Container \cup {"error"}
                        /\ json[n].val \in Atom \cup {NONE}
                        /\ json[n].items \in Seq([k : Key \cup {NONE}, v : Node])
    BY <1>1, ForestFacts DEF JsonRec, ItemRec, Type
  <2>3. QED
    BY <1>1, <2>1, <2>2 DEF IInv, Counting, Answered, Forest, TypeOK
<1>3. KeysCounted
  BY DEF IInv, Counting, KeysCounted
<1>4. ASSUME NEW n \in Live
      PROVE  /\ Cardinality(Places(n)) = IF n \in held THEN 0 ELSE 1
             /\ Children(json, n) \subseteq Live
             /\ Cardinality(KeysOf(n)) = (IF Type(n) = "object" THEN Len(json[n].items)
                                          ELSE Cardinality(KeysOf(n) \cap {NONE}))
             /\ Type(n) = "error" => n \in held
  <2>1. Children(json, n) \subseteq Live /\ (Type(n) = "error" => n \in held)
    BY <1>1 DEF Forest, Type
  <2>2. \A p : p \in Places(n) <=> \E m \in Live : \E a \in DOMAIN json[m].items :
                                     p = <<m, a>> /\ json[m].items[a].v = n
    BY SlotsIs DEF Places
  <2>3. ASSUME n \in held
        PROVE  Cardinality(Places(n)) = 0
    <3>1. \A m \in Live : \A a \in DOMAIN json[m].items : json[m].items[a].v # n
      BY <1>1, <2>3 DEF Forest, Children
    <3>2. Places(n) = {}
      BY <2>2, <3>1
    <3>3. QED
      BY <3>2, FS_EmptySet
  <2>4. ASSUME n \notin held
        PROVE  Cardinality(Places(n)) = 1
    <3>0. PICK m \in Live : \E a \in DOMAIN json[m].items : json[m].items[a].v = n
      BY <1>1, <2>4 DEF Forest, Children
    <3>1. PICK a \in DOMAIN json[m].items : json[m].items[a].v = n
      BY <3>0
    <3>2. \A m2 \in Live : \A b \in DOMAIN json[m2].items :
            json[m2].items[b].v = n => m2 = m /\ b = a
      BY <1>1, <3>1 DEF Forest
    <3>3. Places(n) = {<<m, a>>}
      BY <2>2, <3>1, <3>2
    <3>4. QED
      BY <3>3, FS_Singleton
  <2>5. Cardinality(KeysOf(n)) = (IF Type(n) = "object" THEN Len(json[n].items)
                                  ELSE Cardinality(KeysOf(n) \cap {NONE}))
    <3>1. Formed(json[n]) /\ json[n] \in JsonRec /\ json[n].items \in Seq(ItemRec)
      BY <1>1, ForestFacts DEF Forest
    <3>2. DOMAIN json[n].items = 1 .. Len(json[n].items) /\ Len(json[n].items) \in Nat
      BY <3>1, LenProperties
    <3>3. CASE Type(n) = "object"
      <4> DEFINE f == [a \in 1 .. Len(json[n].items) |-> json[n].items[a].k]
      <4>1. f \in Bijection(1 .. Len(json[n].items), KeysOf(n))
        BY <3>1, <3>2, <3>3
           DEF KeysOf, Formed, Type, Bijection, Injection, Surjection, IsInjective
      <4>2. ExistsBijection(1 .. Len(json[n].items), KeysOf(n))
        BY <4>1 DEF ExistsBijection
      <4>3. QED
        BY <3>2, <3>3, <4>2, FS_CountingElements
    <3>4. CASE Type(n) # "object"
      <4>1. \A a \in DOMAIN json[n].items : json[n].items[a].k = NONE
        <5>1. CASE Type(n) = "list"
          BY <3>1, <5>1 DEF Formed, Type
        <5>2. CASE Type(n) # "list"
          BY <3>1, <3>4, <5>2 DEF Formed, Type, Container
        <5>3. QED
          BY <5>1, <5>2
      <4>2. KeysOf(n) \cap {NONE} = KeysOf(n)
        BY <4>1 DEF KeysOf
      <4>3. QED
        BY <3>4, <4>2
    <3>5. QED
      BY <3>3, <3>4
  <2>6. QED
    BY <2>1, <2>3, <2>4, <2>5
<1>5. Live = UNION {Below(json, n) : n \in held}
  <2>1. \A n \in held : n \in Live /\ Below(json, n) = Reach(json, n)
    BY <1>1, ForestFacts DEF Forest
  <2>2. {Below(json, n) : n \in held} = {Reach(json, n) : n \in held}
    BY <2>1
  <2>3. \A x \in Live : \E n \in held : x \in Reach(json, n)
    BY <1>1, Rooted
  <2>4. \A n \in held : Reach(json, n) \subseteq Live
    BY <1>1 DEF Reach
  <2>5. Live = UNION {Reach(json, n) : n \in held}
    BY <2>3, <2>4
  <2>6. QED
    BY <2>2, <2>5
<1>6. QED
  BY <1>2, <1>3, <1>4, <1>5 DEF OneOwner

-----------------------------------------------------------------------------
(* How a forest changes.                                                   *)

LEMMA ReachAlike ==
  ASSUME NEW t, NEW u, Within(t), Within(u), NEW n \in DOMAIN t,
         \A m \in Reach(t, n) : m \in DOMAIN u /\ Children(u, m) = Children(t, m)
  PROVE  Reach(u, n) = Reach(t, n)
<1>1. /\ n \in Reach(t, n) /\ Closed(t, Reach(t, n)) /\ Reach(t, n) \subseteq DOMAIN t
  BY ReachHolds
<1>2. Closed(u, Reach(t, n)) /\ Reach(t, n) \subseteq DOMAIN u
  BY <1>1 DEF Closed
<1>3. Reach(u, n) \subseteq Reach(t, n)
  BY <1>1, <1>2, ReachLeast
<1>4. n \in Reach(u, n) /\ Closed(u, Reach(u, n))
  BY <1>1, ReachHolds
<1>5. Closed(t, Reach(u, n)) /\ Reach(u, n) \subseteq DOMAIN t
  BY <1>1, <1>3, <1>4 DEF Closed
<1>6. Reach(t, n) \subseteq Reach(u, n)
  BY <1>4, <1>5, ReachLeast
<1>7. QED
  BY <1>3, <1>6

(* With fewer links, or fewer nodes, there is still no circle.             *)
LEMMA FewerLinks ==
  ASSUME NEW t, NEW u, Down(t), Up(t), DOMAIN u \subseteq DOMAIN t,
         \A m \in DOMAIN u : Children(u, m) \subseteq Children(t, m)
  PROVE  Down(u) /\ Up(u)
<1>1. ASSUME NEW S \in SUBSET DOMAIN u, S # {}
      PROVE  /\ \E n \in S : Children(u, n) \cap S = {}
             /\ \E n \in S : \A m \in S : n \notin Children(u, m)
  <2>1. S \in SUBSET DOMAIN t /\ \A m \in S : Children(u, m) \subseteq Children(t, m)
    OBVIOUS
  <2>2. PICK n \in S : Children(t, n) \cap S = {}
    BY <1>1, <2>1 DEF Down
  <2>3. PICK x \in S : \A m \in S : x \notin Children(t, m)
    BY <1>1, <2>1 DEF Up
  <2>4. QED
    BY <2>1, <2>2, <2>3
<1>2. QED
  BY <1>1 DEF Down, Up

(* A new link from j to v makes no circle when j is not below v: what is   *)
(* below v can be looked at apart from the rest.                           *)
LEMMA NewLink ==
  ASSUME NEW t, NEW u, Within(t), Down(t), Up(t), DOMAIN u = DOMAIN t,
         NEW j \in DOMAIN t, NEW v \in DOMAIN t, j \notin Reach(t, v),
         \A m \in DOMAIN t \ {j} : Children(u, m) = Children(t, m),
         Children(u, j) = Children(t, j) \cup {v}
  PROVE  Down(u) /\ Up(u)
<1>1. v \in Reach(t, v) /\ Closed(t, Reach(t, v)) /\ Reach(t, v) \subseteq DOMAIN t
  BY ReachHolds
<1>2. ASSUME NEW S \in SUBSET DOMAIN t, S # {}
      PROVE  \E n \in S : Children(u, n) \cap S = {}
  <2>1. CASE v \in S
    <3>1. PICK n \in S \cap Reach(t, v) : Children(t, n) \cap (S \cap Reach(t, v)) = {}
      <4>1. S \cap Reach(t, v) \in SUBSET DOMAIN t /\ S \cap Reach(t, v) # {}
        BY <1>1, <2>1
      <4>2. QED
        BY <4>1 DEF Down
    <3>2. n # j /\ Children(t, n) \subseteq Reach(t, v)
      BY <1>1, <3>1 DEF Closed
    <3>3. QED
      BY <3>1, <3>2
  <2>2. CASE v \notin S
    <3>1. PICK n \in S : Children(t, n) \cap S = {}
      BY <1>2 DEF Down
    <3>2. QED
      BY <2>2, <3>1
  <2>3. QED
    BY <2>1, <2>2
<1>3. ASSUME NEW S \in SUBSET DOMAIN t, S # {}
      PROVE  \E n \in S : \A m \in S : n \notin Children(u, m)
  <2>1. CASE j \in S
    <3> DEFINE A == S \ Reach(t, v)
    <3>1. PICK n \in A : \A m \in A : n \notin Children(t, m)
      <4>1. A \in SUBSET DOMAIN t /\ A # {}
        BY <2>1
      <4> HIDE DEF A
      <4>2. QED
        BY <4>1 DEF Up
    <3>2. n # v /\ \A m \in Reach(t, v) : n \notin Children(t, m)
      BY <1>1, <3>1 DEF Closed
    <3>3. QED
      BY <3>1, <3>2
  <2>2. CASE j \notin S
    <3>1. PICK n \in S : \A m \in S : n \notin Children(t, m)
      BY <1>3 DEF Up
    <3>2. QED
      BY <2>2, <3>1
  <2>3. QED
    BY <2>1, <2>2
<1>4. QED
  BY <1>2, <1>3 DEF Down, Up

(* No value is in itself. *)
LEMMA NotInItself ==
  ASSUME NEW t, Within(t), Down(t), NEW j \in DOMAIN t, NEW v \in Children(t, j)
  PROVE  j \notin Reach(t, v)
<1> SUFFICES ASSUME j \in Reach(t, v)
             PROVE  FALSE
  OBVIOUS
<1> DEFINE S == {m \in DOMAIN t : j \in Reach(t, m)}
<1>1. v \in S
  BY DEF Within
<1>2. PICK m \in S : Children(t, m) \cap S = {}
  <2>1. S \in SUBSET DOMAIN t /\ S # {}
    BY <1>1
  <2> HIDE DEF S
  <2> QED
    BY <2>1 DEF Down
<1>3. CASE m = j
  BY <1>1, <1>2, <1>3
<1>4. CASE m # j
  <2>1. PICK c \in Children(t, m) : j \in Reach(t, c)
    BY <1>2, <1>4, ReachStep
  <2>2. c \in S
    BY <1>2, <2>1 DEF Within
  <2>3. QED
    BY <1>2, <2>1, <2>2
<1>5. QED
  BY <1>3, <1>4

(* s with one more item, which is at p; o tells where the others are in s. *)
OneMore(s2, s, p, o) ==
  /\ p \in DOMAIN s2
  /\ o \in [DOMAIN s2 \ {p} -> DOMAIN s]
  /\ \A a, b \in DOMAIN s2 \ {p} : o[a] = o[b] => a = b
  /\ \A b \in DOMAIN s : \E a \in DOMAIN s2 \ {p} : o[a] = b
  /\ \A a \in DOMAIN s2 \ {p} : s2[a] = s[o[a]]

(* j has the items s in the place of its own. *)
Put(t, j, s) == [t EXCEPT ![j].items = s]

(* t and the new node n. *)
Plus(t, n, j) == [m \in DOMAIN t \cup {n} |-> IF m = n THEN j ELSE t[m]]

(* A node without items is made and held. *)
LEMMA ForestMake ==
  ASSUME NEW t, NEW h, Forest(t, h), NEW n \in Node \ DOMAIN t, NEW j \in JsonRec,
         j.items = <<>>,
         NEW u, u = Plus(t, n, j)
  PROVE  Forest(u, h \cup {n}) /\ Strings(u, DOMAIN u) = Strings(t, DOMAIN t)
<1>1. /\ DOMAIN u = DOMAIN t \cup {n} /\ u[n] = j /\ \A m \in DOMAIN t : u[m] = t[m]
      /\ \A m \in DOMAIN t : m # n
  BY DEF Plus
<1>2. Children(u, n) = {} /\ DOMAIN u[n].items = {}
  BY <1>1 DEF Children
<1>3. \A m \in DOMAIN t : Children(u, m) = Children(t, m)
  BY <1>1 DEF Children
<1>4. DOMAIN u \subseteq Node /\ u \in [DOMAIN u -> JsonRec]
  BY <1>1 DEF Forest, Plus
<1>5. \A m \in DOMAIN u : Formed(u[m])
  <2>1. Formed(j)
    BY DEF Formed
  <2>2. QED
    BY <1>1, <2>1 DEF Forest
<1>6. /\ h \cup {n} \subseteq DOMAIN u
      /\ \A m \in DOMAIN u : u[m].type = "error" => m \in h \cup {n}
  BY <1>1 DEF Forest
<1>7. \A m \in DOMAIN u : Children(u, m) \subseteq DOMAIN u \ (h \cup {n})
  BY <1>1, <1>2, <1>3 DEF Forest
<1>8. \A x \in DOMAIN u \ (h \cup {n}) : \E m \in DOMAIN u : x \in Children(u, m)
  BY <1>1, <1>3 DEF Forest
<1>9. \A m1, m2 \in DOMAIN u : \A a \in DOMAIN u[m1].items, b \in DOMAIN u[m2].items :
        u[m1].items[a].v = u[m2].items[b].v => m1 = m2 /\ a = b
  BY <1>1, <1>2 DEF Forest
<1>10. ASSUME NEW S \in SUBSET DOMAIN u, S # {}
       PROVE  /\ \E x \in S : Children(u, x) \cap S = {}
              /\ \E x \in S : \A m \in S : x \notin Children(u, m)
  <2>1. CASE n \in S
    <3>1. \A m \in S : n \notin Children(u, m)
      BY <1>7
    <3>2. QED
      BY <1>2, <2>1, <3>1
  <2>2. CASE n \notin S
    <3>1. S \in SUBSET DOMAIN t
      BY <1>1, <2>2
    <3>2. /\ \E x \in S : Children(t, x) \cap S = {}
          /\ \E x \in S : \A m \in S : x \notin Children(t, m)
      BY <1>10, <3>1 DEF Forest, Down, Up
    <3>3. QED
      BY <1>3, <3>1, <3>2
  <2>3. QED
    BY <2>1, <2>2
<1>11. Down(u) /\ Up(u)
  BY <1>10 DEF Down, Up
<1>12. Strings(u, DOMAIN u) = Strings(t, DOMAIN t)
  <2>1. Strings(u, DOMAIN t) = Strings(t, DOMAIN t)
    BY <1>1, StringsSame
  <2>2. Strings(u, {n}) = 0
    <3>1. Slots(u, {m \in {n} : u[m].type = "object"}) = {}
      <4> DEFINE ns == {m \in {n} : u[m].type = "object"}
      <4>1. \A m \in ns : DOMAIN u[m].items = {}
        BY <1>2
      <4> HIDE DEF ns
      <4>2. \A p : p \notin Slots(u, ns)
        BY <4>1, SlotsIs
      <4>3. QED
        BY <4>2 DEF ns
    <3>2. QED
      BY <3>1, FS_EmptySet DEF Strings
  <2>3. /\ IsFiniteSet(DOMAIN t) /\ IsFiniteSet({n}) /\ DOMAIN t \cap {n} = {}
        /\ \A m \in DOMAIN t \cup {n} : u[m].items \in Seq(ItemRec)
    <3>1. IsFiniteSet(DOMAIN t) /\ \A m \in DOMAIN t : t[m].items \in Seq(ItemRec)
      BY ForestFacts
    <3>2. IsFiniteSet({n})
      BY FS_Singleton
    <3>3. j.items \in Seq(ItemRec)
      BY DEF JsonRec
    <3>4. QED
      BY <1>1, <3>1, <3>2, <3>3
  <2>4. Strings(u, DOMAIN t) \in Nat /\ Strings(u, DOMAIN u) = Strings(u, DOMAIN t) + 0
    BY <1>1, <2>2, <2>3, StringsAdd
  <2>5. QED
    BY <2>1, <2>4
<1>13. QED
  BY <1>4, <1>5, <1>6, <1>7, <1>8, <1>9, <1>11, <1>12 DEF Forest

(* An object with another item has another key string. *)
LEMMA StringsGrow ==
  ASSUME NEW t, NEW u, NEW j \in DOMAIN t, DOMAIN u = DOMAIN t, IsFiniteSet(DOMAIN t),
         \A m \in DOMAIN t : t[m].items \in Seq(ItemRec) /\ u[m].type = t[m].type,
         \A m \in DOMAIN t \ {j} : u[m].items = t[m].items,
         u[j].items \in Seq(ItemRec), Len(u[j].items) = Len(t[j].items) + 1
  PROVE  Strings(u, DOMAIN t) = Strings(t, DOMAIN t) + IF t[j].type = "object" THEN 1 ELSE 0
<1> DEFINE l == Len(t[j].items)
           Objects == {m \in DOMAIN t : t[m].type = "object"}
<1>1. /\ Objects = {m \in DOMAIN t : u[m].type = "object"}
      /\ IsFiniteSet(Objects) /\ \A m \in Objects : m \in DOMAIN t
  BY FS_Subset
<1>2. l \in Nat /\ DOMAIN t[j].items = 1 .. l /\ DOMAIN u[j].items = 1 .. l + 1
  BY LenProperties
<1>3. Strings(u, DOMAIN t) = Cardinality(Slots(u, Objects))
      /\ Strings(t, DOMAIN t) = Cardinality(Slots(t, Objects))
  BY <1>1 DEF Strings
<1>4. IsFiniteSet(Slots(t, Objects))
  BY <1>1, SlotsFinite
<1>5. CASE t[j].type = "object"
  <2>1. j \in Objects
    BY <1>5
  <2> HIDE DEF Objects, l
  <2>2. <<j, l + 1>> \notin Slots(t, Objects)
    <3>1. l + 1 \notin 1 .. l
      BY <1>2
    <3>2. QED
      BY <1>2, <3>1, SlotsIs
  <2>3. 1 .. l + 1 = 1 .. l \cup {l + 1}
    BY <1>2
  <2>4. ASSUME NEW p
        PROVE  p \in Slots(u, Objects) <=> p \in Slots(t, Objects) \cup {<<j, l + 1>>}
    <3>1. p \in Slots(u, Objects) <=> \E n \in Objects : \E a \in DOMAIN u[n].items : p = <<n, a>>
      BY SlotsIs
    <3>2. p \in Slots(t, Objects) <=> \E n \in Objects : \E a \in DOMAIN t[n].items : p = <<n, a>>
      BY SlotsIs
    <3>3. \A n \in Objects \ {j} : DOMAIN u[n].items = DOMAIN t[n].items
      BY <1>1
    <3>4. QED
      BY <1>2, <2>1, <2>3, <3>1, <3>2, <3>3
  <2>5. Slots(u, Objects) = Slots(t, Objects) \cup {<<j, l + 1>>}
    BY <2>4
  <2>6. QED
    BY <1>3, <1>4, <1>5, <2>2, <2>5, FS_AddElement
<1>6. CASE t[j].type # "object"
  <2>1. Slots(u, Objects) = Slots(t, Objects)
    <3>1. \A n \in Objects : u[n].items = t[n].items
      BY <1>6
    <3>2. {{n} \X DOMAIN u[n].items : n \in Objects} = {{n} \X DOMAIN t[n].items : n \in Objects}
      BY <3>1
    <3>3. QED
      BY <3>2 DEF Slots
  <2>2. Cardinality(Slots(t, Objects)) \in Nat
    BY <1>4, FS_CardinalityType
  <2>3. QED
    BY <1>3, <1>6, <2>1, <2>2
<1>7. QED
  BY <1>5, <1>6

(* The item of a root goes into a container that is not below it.          *)
LEMMA ForestAttach ==
  ASSUME NEW t, NEW h, Forest(t, h), NEW v \in h, t[v].type # "error",
         NEW j \in DOMAIN t, j \notin Reach(t, v),
         NEW s2 \in Seq(ItemRec), NEW p, NEW o, OneMore(s2, t[j].items, p, o), s2[p].v = v,
         \/ t[j].type = "object" /\ \A a \in DOMAIN t[j].items : t[j].items[a].k # s2[p].k
         \/ t[j].type = "list" /\ s2[p].k = NONE,
         NEW u, u = Put(t, j, s2)
  PROVE  Forest(u, h \ {v})
<1>1. /\ DOMAIN u = DOMAIN t
      /\ \A m \in DOMAIN t \ {j} : u[m] = t[m]
      /\ u[j] \in JsonRec /\ u[j].items = s2 /\ u[j].type = t[j].type
  <2>1. t[j] \in JsonRec
    BY ForestFacts
  <2>2. u[j] = [t[j] EXCEPT !.items = s2] /\ DOMAIN u = DOMAIN t
        /\ \A m \in DOMAIN t \ {j} : u[m] = t[m]
    BY DEF Forest, Put
  <2>3. QED
    BY <2>1, <2>2 DEF JsonRec
<1>2. v \in DOMAIN t /\ \A m \in DOMAIN t : v \notin Children(t, m)
  BY DEF Forest
<1>3. \A m \in DOMAIN t \ {j} : Children(u, m) = Children(t, m)
  BY <1>1 DEF Children
<1>4. Children(u, j) = Children(t, j) \cup {v}
  <2>1. \A c \in Children(u, j) : c = v \/ c \in Children(t, j)
    BY <1>1 DEF Children, OneMore
  <2>2. \A c \in Children(t, j) : c \in Children(u, j)
    BY <1>1 DEF Children, OneMore
  <2>3. v \in Children(u, j)
    BY <1>1 DEF Children, OneMore
  <2>4. QED
    BY <2>1, <2>2, <2>3
<1>5. Down(u) /\ Up(u)
  <2>1. Within(t) /\ Down(t) /\ Up(t)
    BY ForestFacts DEF Forest
  <2>2. QED
    BY ONLY <1>1, <1>2, j \in DOMAIN t, j \notin Reach(t, v),
            <1>3, <1>4, <2>1, NewLink
<1>6. DOMAIN u \subseteq Node /\ u \in [DOMAIN u -> JsonRec]
  BY <1>1 DEF Forest, Put
<1>7. Formed(u[j])
  <2>1. Formed(t[j]) /\ t[j].type \in Container
    BY DEF Forest, Container
  <2>2. ASSUME t[j].type = "object", NEW a \in DOMAIN s2, NEW b \in DOMAIN s2, s2[a].k = s2[b].k
        PROVE  a = b
    <3>1. \A x, y \in DOMAIN t[j].items : t[j].items[x].k = t[j].items[y].k => x = y
      BY <2>1, <2>2 DEF Formed
    <3>2. \A x \in DOMAIN t[j].items : t[j].items[x].k # s2[p].k
      BY <2>2
    <3>3. QED
      BY <2>2, <3>1, <3>2 DEF OneMore
  <2>3. ASSUME t[j].type = "list", NEW a \in DOMAIN s2
        PROVE  s2[a].k = NONE
    BY <2>1, <2>3 DEF Formed, OneMore
  <2>4. QED
    BY <1>1, <2>1, <2>2, <2>3 DEF Formed
<1>8. \A m \in DOMAIN u : Formed(u[m])
  BY <1>1, <1>7 DEF Forest
<1>9. /\ h \ {v} \subseteq DOMAIN u
      /\ \A m \in DOMAIN u : u[m].type = "error" => m \in h \ {v}
      /\ \A m \in DOMAIN u : Children(u, m) \subseteq DOMAIN u \ (h \ {v})
      /\ \A n \in DOMAIN u \ (h \ {v}) : \E m \in DOMAIN u : n \in Children(u, m)
  <2>1. \A m \in DOMAIN u : u[m].type = t[m].type
    BY <1>1
  <2>2. h \ {v} \subseteq DOMAIN u /\ \A m \in DOMAIN u : u[m].type = "error" => m \in h \ {v}
    BY <1>1, <2>1 DEF Forest
  <2>3. \A m \in DOMAIN t : Children(t, m) \subseteq DOMAIN t \ h
    BY DEF Forest
  <2>4. \A m \in DOMAIN u : Children(u, m) \subseteq Children(t, m) \cup {v}
    BY <1>1, <1>3, <1>4
  <2>5. ASSUME NEW m \in DOMAIN u
        PROVE  Children(u, m) \subseteq DOMAIN u \ (h \ {v})
    <3>1. DOMAIN u = DOMAIN t /\ v \in DOMAIN t
      BY <1>1, <1>2
    <3>2. QED
      BY ONLY m \in DOMAIN u, <2>3, <2>4, <3>1
  <2>6. ASSUME NEW n \in DOMAIN u \ (h \ {v})
        PROVE  \E m \in DOMAIN u : n \in Children(u, m)
    <3>1. CASE n = v
      BY <1>1, <1>4, <3>1
    <3>2. CASE n # v
      <4>1. PICK m \in DOMAIN t : n \in Children(t, m)
        BY <1>1, <3>2 DEF Forest
      <4>2. n \in Children(u, m)
        BY <1>3, <1>4, <4>1
      <4>3. QED
        BY <1>1, <4>1, <4>2
    <3>3. QED
      BY <3>1, <3>2
  <2>7. QED
    BY <2>2, <2>5, <2>6
<1>10. ASSUME NEW m1 \in DOMAIN u, NEW m2 \in DOMAIN u,
              NEW a \in DOMAIN u[m1].items, NEW b \in DOMAIN u[m2].items,
              u[m1].items[a].v = u[m2].items[b].v
       PROVE  m1 = m2 /\ a = b
  <2> DEFINE New(m, x) == m = j /\ x = p
  <2>1. ASSUME NEW m \in DOMAIN u, NEW x \in DOMAIN u[m].items, ~ New(m, x)
        PROVE  \E y \in DOMAIN t[m].items :
                 /\ t[m].items[y] = u[m].items[x]
                 /\ IF m = j THEN y = o[x] ELSE y = x
    BY <1>1, <2>1 DEF OneMore
  <2>2. \A m \in DOMAIN u : \A x \in DOMAIN u[m].items :
          ~ New(m, x) => u[m].items[x].v # v
    <3> TAKE m \in DOMAIN u
    <3> TAKE x \in DOMAIN u[m].items
    <3> HAVE ~ New(m, x)
    <3>1. PICK y \in DOMAIN t[m].items : t[m].items[y] = u[m].items[x]
      BY <2>1
    <3>2. QED
      BY <1>1, <1>2, <3>1 DEF Children
  <2>3. CASE New(m1, a)
    BY <1>1, <1>10, <2>2, <2>3
  <2>4. CASE New(m2, b)
    BY <1>1, <1>10, <2>2, <2>4
  <2>5. CASE ~ New(m1, a) /\ ~ New(m2, b)
    <3>1. PICK y \in DOMAIN t[m1].items : /\ t[m1].items[y] = u[m1].items[a]
                                          /\ IF m1 = j THEN y = o[a] ELSE y = a
      BY <2>1, <2>5
    <3>2. PICK z \in DOMAIN t[m2].items : /\ t[m2].items[z] = u[m2].items[b]
                                          /\ IF m2 = j THEN z = o[b] ELSE z = b
      BY <2>1, <2>5
    <3>3. m1 = m2 /\ y = z
      BY <1>1, <1>10, <3>1, <3>2 DEF Forest
    <3>4. QED
      BY <1>1, <2>5, <3>1, <3>2, <3>3 DEF OneMore
  <2>6. QED
    BY <2>3, <2>4, <2>5
<1>11. QED
  BY <1>5, <1>6, <1>8, <1>9, <1>10 DEF Forest

(* The item at p of j holds v, and s are the others. *)
Leaves(t, j, s, p, o, v) == OneMore(t[j].items, s, p, o) /\ v = t[j].items[p].v

(* An item goes out of its container, and its value becomes a root.        *)
LEMMA ForestDetach ==
  ASSUME NEW t, NEW h, Forest(t, h), NEW j \in DOMAIN t,
         NEW s \in Seq(ItemRec), NEW p, NEW o, NEW v, Leaves(t, j, s, p, o, v),
         NEW u, u = Put(t, j, s)
  PROVE  /\ Forest(u, h \cup {v})
         /\ v \in DOMAIN t \ h /\ t[v].type # "error" /\ j # v
         /\ Reach(u, v) = Reach(t, v) /\ j \notin Reach(t, v)
<1> OneMore(t[j].items, s, p, o) /\ v = t[j].items[p].v
  BY DEF Leaves
<1>1. /\ DOMAIN u = DOMAIN t
      /\ \A m \in DOMAIN t \ {j} : u[m] = t[m]
      /\ u[j] \in JsonRec /\ u[j].items = s /\ u[j].type = t[j].type
  <2>1. t[j] \in JsonRec
    BY ForestFacts
  <2>2. u[j] = [t[j] EXCEPT !.items = s] /\ DOMAIN u = DOMAIN t
        /\ \A m \in DOMAIN t \ {j} : u[m] = t[m]
    BY DEF Forest, Put
  <2>3. QED
    BY <2>1, <2>2 DEF JsonRec
<1>2. v \in Children(t, j)
  BY DEF OneMore, Children
<1>3. v \in DOMAIN t \ h /\ t[v].type # "error"
  BY <1>2 DEF Forest
<1>4. ASSUME NEW m1 \in DOMAIN t, NEW m2 \in DOMAIN t,
             NEW a \in DOMAIN t[m1].items, NEW b \in DOMAIN t[m2].items,
             t[m1].items[a].v = t[m2].items[b].v
      PROVE  m1 = m2 /\ a = b
  BY <1>4 DEF Forest
<1>5. \A m \in DOMAIN t \ {j} : Children(u, m) = Children(t, m) /\ v \notin Children(t, m)
  <2>1. \A m \in DOMAIN t \ {j} : v \notin Children(t, m)
    BY <1>2, OneParent
  <2>2. QED
    BY <1>1, <2>1 DEF Children
<1>6. Children(u, j) = Children(t, j) \ {v}
  <2>1. ASSUME NEW c \in Children(u, j)
        PROVE  c \in Children(t, j) /\ c # v
    <3>1. PICK b \in DOMAIN s : c = s[b].v
      BY <1>1 DEF Children
    <3>2. PICK a \in DOMAIN t[j].items \ {p} : o[a] = b
      BY DEF OneMore
    <3>3. t[j].items[a].v = c
      BY <3>1, <3>2 DEF OneMore
    <3>4. p \in DOMAIN t[j].items
      BY DEF OneMore
    <3>5. c # v
      BY <1>4, <3>2, <3>3, <3>4
    <3>6. QED
      BY <3>2, <3>3, <3>5 DEF Children
  <2>2. ASSUME NEW c \in Children(t, j), c # v
        PROVE  c \in Children(u, j)
    BY <1>1, <2>2 DEF OneMore, Children
  <2>3. QED
    BY <2>1, <2>2
<1>7. j \notin Reach(t, v) /\ j # v
  <2>1. Within(t) /\ Down(t)
    BY ForestFacts DEF Forest
  <2>2. j \notin Reach(t, v)
    BY <1>2, <2>1, NotInItself
  <2>3. v \in Reach(t, v)
    BY <1>3, <2>1, ReachHolds
  <2>4. QED
    BY <2>2, <2>3
<1>8. Down(u) /\ Up(u)
  <2>1. \A m \in DOMAIN u : Children(u, m) \subseteq Children(t, m)
    BY <1>1, <1>5, <1>6
  <2>2. Down(t) /\ Up(t)
    BY DEF Forest
  <2>3. QED
    BY ONLY <1>1, <2>1, <2>2, FewerLinks
<1>9. DOMAIN u \subseteq Node /\ u \in [DOMAIN u -> JsonRec]
  BY <1>1 DEF Forest, Put
<1>10. Formed(u[j])
  <2>1. Formed(t[j])
    BY DEF Forest
  <2>2. \A b \in DOMAIN s : \E a \in DOMAIN t[j].items \ {p} : o[a] = b /\ t[j].items[a] = s[b]
    BY DEF OneMore
  <2>3. CASE t[j].type \notin Container
    BY <2>1, <2>3 DEF Formed, OneMore
  <2>4. CASE t[j].type = "object"
    <3>1. \A x, y \in DOMAIN t[j].items : t[j].items[x].k = t[j].items[y].k => x = y
      BY <2>1, <2>4 DEF Formed
    <3>2. \A a, b \in DOMAIN s : s[a].k = s[b].k => a = b
      BY <2>2, <3>1
    <3>3. QED
      BY <1>1, <2>4, <3>2 DEF Formed, Container
  <2>5. CASE t[j].type = "list"
    <3>1. \A a \in DOMAIN s : s[a].k = NONE
      BY <2>1, <2>2, <2>5 DEF Formed
    <3>2. QED
      BY <1>1, <2>5, <3>1 DEF Formed, Container
  <2>6. QED
    BY <2>3, <2>4, <2>5 DEF Container
<1>11. \A m \in DOMAIN u : Formed(u[m])
  BY <1>1, <1>10 DEF Forest
<1>12. /\ h \cup {v} \subseteq DOMAIN u
       /\ \A m \in DOMAIN u : u[m].type = "error" => m \in h \cup {v}
       /\ \A m \in DOMAIN u : Children(u, m) \subseteq DOMAIN u \ (h \cup {v})
       /\ \A n \in DOMAIN u \ (h \cup {v}) : \E m \in DOMAIN u : n \in Children(u, m)
  <2>1. \A m \in DOMAIN u : u[m].type = t[m].type
    BY <1>1
  <2>2. \A m \in DOMAIN u : Children(u, m) = Children(t, m) \ {v}
    BY <1>1, <1>5, <1>6
  <2>3. h \cup {v} \subseteq DOMAIN u /\ \A m \in DOMAIN u : u[m].type = "error" => m \in h \cup {v}
    BY <1>1, <1>3, <2>1 DEF Forest
  <2>4. \A m \in DOMAIN t : Children(t, m) \subseteq DOMAIN t \ h
    BY DEF Forest
  <2>5. ASSUME NEW m \in DOMAIN u
        PROVE  Children(u, m) \subseteq DOMAIN u \ (h \cup {v})
    <3>1. DOMAIN u = DOMAIN t
      BY <1>1
    <3>2. QED
      BY ONLY m \in DOMAIN u, <2>2, <2>4, <3>1
  <2>6. ASSUME NEW n \in DOMAIN u \ (h \cup {v})
        PROVE  \E m \in DOMAIN u : n \in Children(u, m)
    <3>1. PICK m \in DOMAIN t : n \in Children(t, m)
      BY <1>1 DEF Forest
    <3>2. QED
      BY <1>1, <2>2, <3>1
  <2>7. QED
    BY <2>3, <2>5, <2>6
<1>13. ASSUME NEW m1 \in DOMAIN u, NEW m2 \in DOMAIN u,
              NEW a \in DOMAIN u[m1].items, NEW b \in DOMAIN u[m2].items,
              u[m1].items[a].v = u[m2].items[b].v
       PROVE  m1 = m2 /\ a = b
  <2>1. \A m \in DOMAIN u : \A x \in DOMAIN u[m].items : \E y \in DOMAIN t[m].items :
          /\ t[m].items[y] = u[m].items[x]
          /\ IF m = j THEN y \in DOMAIN t[j].items \ {p} /\ o[y] = x ELSE y = x
    BY <1>1 DEF OneMore
  <2>2. PICK y \in DOMAIN t[m1].items :
          /\ t[m1].items[y] = u[m1].items[a]
          /\ IF m1 = j THEN y \in DOMAIN t[j].items \ {p} /\ o[y] = a ELSE y = a
    BY <2>1
  <2>3. PICK z \in DOMAIN t[m2].items :
          /\ t[m2].items[z] = u[m2].items[b]
          /\ IF m2 = j THEN z \in DOMAIN t[j].items \ {p} /\ o[z] = b ELSE z = b
    BY <2>1
  <2>4. m1 = m2 /\ y = z
    BY <1>1, <1>4, <1>13, <2>2, <2>3
  <2>5. QED
    BY <2>2, <2>3, <2>4
<1>14. Forest(u, h \cup {v})
  BY <1>8, <1>9, <1>11, <1>12, <1>13 DEF Forest
<1>15. Reach(u, v) = Reach(t, v)
  <2>1. \A m \in Reach(t, v) : m \in DOMAIN u /\ Children(u, m) = Children(t, m)
    <3>1. Reach(t, v) \subseteq DOMAIN t
      BY DEF Reach
    <3>2. QED
      BY <1>1, <1>5, <1>7, <3>1
  <2>2. Within(t) /\ Within(u)
    BY <1>14, ForestFacts
  <2>3. QED
    BY <1>3, <2>1, <2>2, ReachAlike
<1>16. QED
  BY <1>3, <1>7, <1>14, <1>15

LEMMA DropStrings ==
  ASSUME NEW t, IsFiniteSet(DOMAIN t), \A m \in DOMAIN t : t[m].items \in Seq(ItemRec),
         NEW ns \in SUBSET DOMAIN t, NEW u, u = Release(t, ns)
  PROVE  Strings(u, DOMAIN u) = Strings(t, DOMAIN t) - Strings(t, ns)
<1>1. DOMAIN u = DOMAIN t \ ns /\ \A m \in DOMAIN u : u[m] = t[m]
  BY DEF Release
<1>2. /\ IsFiniteSet(DOMAIN u) /\ IsFiniteSet(ns) /\ DOMAIN u \cap ns = {}
      /\ DOMAIN u \cup ns = DOMAIN t
  BY <1>1, FS_Subset
<1>3. /\ Strings(t, DOMAIN u) \in Nat /\ Strings(t, ns) \in Nat
      /\ Strings(t, DOMAIN t) = Strings(t, DOMAIN u) + Strings(t, ns)
  BY <1>2, StringsAdd
<1>4. Strings(u, DOMAIN u) = Strings(t, DOMAIN u)
  BY <1>1, StringsSame
<1>5. QED
  BY <1>3, <1>4

(* A root goes with all that is below it. *)
LEMMA ForestDrop ==
  ASSUME NEW t, NEW h, Forest(t, h), NEW n \in h,
         NEW u, u = Release(t, Reach(t, n))
  PROVE  /\ Forest(u, h \ {n})
         /\ DOMAIN u = DOMAIN t \ Reach(t, n) /\ \A m \in DOMAIN u : u[m] = t[m]
         /\ Strings(u, DOMAIN u) = Strings(t, DOMAIN t) - Strings(t, Reach(t, n))
<1> DEFINE B == Reach(t, n)
<1>1. DOMAIN u = DOMAIN t \ B /\ \A m \in DOMAIN u : u[m] = t[m]
  BY DEF Release
<1>2. n \in DOMAIN t /\ n \in B /\ Closed(t, B) /\ B \subseteq DOMAIN t
  <2>1. n \in DOMAIN t
    BY DEF Forest
  <2>2. QED
    BY <2>1, ForestFacts, ReachHolds
<1>3. \A m \in DOMAIN u : Children(u, m) = Children(t, m)
  BY <1>1 DEF Children
<1>4. \A m \in DOMAIN t : Children(t, m) \subseteq DOMAIN t \ h
  BY DEF Forest
<1>5. \A m \in DOMAIN t \ B : Children(t, m) \cap B = {}
  BY OwnerBelow
<1>6. DOMAIN u \subseteq Node /\ u \in [DOMAIN u -> JsonRec] /\ \A m \in DOMAIN u : Formed(u[m])
  <2>1. \A m \in DOMAIN t : m \in Node /\ t[m] \in JsonRec /\ Formed(t[m])
    BY DEF Forest
  <2>2. \A m \in DOMAIN u : m \in Node /\ u[m] \in JsonRec /\ Formed(u[m])
    BY <1>1, <2>1
  <2>3. u = [m \in DOMAIN u |-> u[m]]
    BY DEF Release
  <2>4. QED
    BY <2>2, <2>3
<1>7. h \ {n} \subseteq DOMAIN u
  <2>1. ASSUME NEW x \in h, x # n
        PROVE  x \notin B
    <3>1. ASSUME x \in B
          PROVE  \E m \in B : x \in Children(t, m)
      BY <1>2, <2>1, <3>1, ParentBelow
    <3>2. QED
      BY <1>2, <1>4, <3>1
  <2>2. h \subseteq DOMAIN t
    BY DEF Forest
  <2>3. QED
    BY <1>1, <2>1, <2>2
<1>8. \A m \in DOMAIN u : u[m].type = "error" => m \in h \ {n}
  <2>1. \A m \in DOMAIN t : t[m].type = "error" => m \in h
    BY DEF Forest
  <2>2. QED
    BY <1>1, <1>2, <2>1
<1>9. ASSUME NEW m \in DOMAIN u
      PROVE  Children(u, m) \subseteq DOMAIN u \ (h \ {n})
  <2>1. Children(u, m) \subseteq DOMAIN t \ h /\ Children(u, m) \cap B = {}
    BY <1>1, <1>3, <1>4, <1>5
  <2>2. QED
    BY <1>1, <2>1
<1>10. ASSUME NEW x \in DOMAIN u \ (h \ {n})
       PROVE  \E m \in DOMAIN u : x \in Children(u, m)
  <2>1. x \in DOMAIN t \ h /\ x \notin B
    BY <1>1, <1>2
  <2>2. PICK m \in DOMAIN t : x \in Children(t, m)
    BY <2>1 DEF Forest
  <2>3. m \in DOMAIN u
    BY <1>1, <1>2, <2>1, <2>2 DEF Closed
  <2>4. QED
    BY <1>3, <2>2, <2>3
<1>11. \A m1, m2 \in DOMAIN u : \A a \in DOMAIN u[m1].items, b \in DOMAIN u[m2].items :
         u[m1].items[a].v = u[m2].items[b].v => m1 = m2 /\ a = b
  BY <1>1 DEF Forest
<1>12. Down(u) /\ Up(u)
  <2>1. Down(t) /\ Up(t)
    BY DEF Forest
  <2>2. DOMAIN u \subseteq DOMAIN t /\ \A m \in DOMAIN u : Children(u, m) \subseteq Children(t, m)
    BY <1>1, <1>3
  <2>3. QED
    BY ONLY <2>1, <2>2, FewerLinks
<1>13. Strings(u, DOMAIN u) = Strings(t, DOMAIN t) - Strings(t, B)
  BY <1>2, ForestFacts, DropStrings
<1>14. QED
  BY <1>1, <1>6, <1>7, <1>8, <1>9, <1>10, <1>11, <1>12, <1>13 DEF Forest

(* u is t and a copy of the nodes ns, in which f names the copies.         *)
Copied(t, u, ns, f) ==
  /\ f \in [ns -> Node \ DOMAIN t] /\ \A a, b \in ns : f[a] = f[b] => a = b
  /\ u = [m \in DOMAIN u |-> u[m]] /\ DOMAIN u = DOMAIN t \cup {f[a] : a \in ns}
  /\ \A m \in DOMAIN t : u[m] = t[m]
  /\ \A a \in ns :
       u[f[a]] = Json(t[a].type, t[a].val,
                      [i \in DOMAIN t[a].items |-> Item(t[a].items[i].k, f[t[a].items[i].v])])

LEMMA CopiedNodes ==
  ASSUME NEW t, NEW h, Forest(t, h), NEW n \in DOMAIN t, NEW ns, ns = Reach(t, n),
         NEW u, NEW f, Copied(t, u, ns, f)
  PROVE  /\ n \in ns /\ ns \subseteq DOMAIN t
         /\ \A a \in ns : f[a] \notin DOMAIN t /\ f[a] \in Node /\ f[a] \in DOMAIN u
         /\ \A a \in ns : \A i \in DOMAIN t[a].items :
              t[a].items[i].v \in ns /\ t[a].items[i].k \in Key \cup {NONE}
         /\ \A a \in ns : Children(t, a) \subseteq ns \ {n}
         /\ \A a \in ns : /\ u[f[a]].type = t[a].type /\ u[f[a]].val = t[a].val
                          /\ DOMAIN u[f[a]].items = DOMAIN t[a].items
                          /\ \A i \in DOMAIN t[a].items :
                               /\ u[f[a]].items[i].k = t[a].items[i].k
                               /\ u[f[a]].items[i].v = f[t[a].items[i].v]
         /\ \A m \in DOMAIN t : Children(u, m) = Children(t, m)
<1>1. n \in ns /\ Closed(t, ns) /\ ns \subseteq DOMAIN t /\ Within(t) /\ Down(t)
  BY ForestFacts, ReachHolds DEF Forest
<1>2. \A a \in ns : f[a] \notin DOMAIN t /\ f[a] \in Node /\ f[a] \in DOMAIN u
  BY DEF Copied
<1>3. ASSUME NEW a \in ns
      PROVE  Children(t, a) \subseteq ns \ {n}
  <2>1. Children(t, a) \subseteq ns
    BY <1>1 DEF Closed
  <2>2. n \notin Children(t, a)
    BY <1>1, <1>3, NotInItself
  <2>3. QED
    BY <2>1, <2>2
<1>4. ASSUME NEW a \in ns, NEW i \in DOMAIN t[a].items
      PROVE  t[a].items[i].v \in ns /\ t[a].items[i].k \in Key \cup {NONE}
  <2>1. t[a].items[i].v \in ns
    BY <1>3 DEF Children
  <2>2. t[a].items \in Seq(ItemRec)
    BY <1>1, ForestFacts
  <2>3. t[a].items[i] \in ItemRec
    BY <2>2, LenProperties, ElementOfSeq
  <2>4. QED
    BY <2>1, <2>3 DEF ItemRec
<1>5. ASSUME NEW a \in ns
      PROVE  /\ u[f[a]].type = t[a].type /\ u[f[a]].val = t[a].val
             /\ DOMAIN u[f[a]].items = DOMAIN t[a].items
             /\ \A i \in DOMAIN t[a].items :
                  /\ u[f[a]].items[i].k = t[a].items[i].k
                  /\ u[f[a]].items[i].v = f[t[a].items[i].v]
  <2>1. u[f[a]] = Json(t[a].type, t[a].val,
                       [i \in DOMAIN t[a].items |-> Item(t[a].items[i].k, f[t[a].items[i].v])])
    BY DEF Copied
  <2>2. /\ u[f[a]].type = t[a].type /\ u[f[a]].val = t[a].val
        /\ u[f[a]].items
             = [i \in DOMAIN t[a].items |-> Item(t[a].items[i].k, f[t[a].items[i].v])]
    BY ONLY <2>1 DEF Json
  <2>3. QED
    BY ONLY <2>2 DEF Item
<1>6. \A m \in DOMAIN t : Children(u, m) = Children(t, m)
  BY DEF Copied, Children
<1>7. QED
  BY <1>1, <1>2, <1>3, <1>4, <1>5, <1>6

LEMMA CopiedChildren ==
  ASSUME NEW t, NEW h, Forest(t, h), NEW n \in DOMAIN t, NEW ns, ns = Reach(t, n),
         NEW u, NEW f, Copied(t, u, ns, f)
  PROVE  \A a \in ns : \A x : x \in Children(u, f[a]) <=> \E c \in Children(t, a) : x = f[c]
<1> TAKE a \in ns
<1>1. /\ DOMAIN u[f[a]].items = DOMAIN t[a].items
      /\ \A i \in DOMAIN t[a].items : u[f[a]].items[i].v = f[t[a].items[i].v]
  BY CopiedNodes
<1>2. Children(u, f[a]) = {u[f[a]].items[i].v : i \in DOMAIN t[a].items}
  BY <1>1 DEF Children
<1>3. QED
  BY <1>1, <1>2 DEF Children

(* A copy is a tree of its own. *)
LEMMA CopiedForms ==
  ASSUME NEW t, NEW h, Forest(t, h), NEW n \in DOMAIN t, NEW ns, ns = Reach(t, n),
         NEW u, NEW f, Copied(t, u, ns, f)
  PROVE  \A a \in ns : /\ u[f[a]] \in JsonRec /\ Formed(u[f[a]])
                       /\ u[f[a]].items \in Seq(ItemRec)
<1> SUFFICES ASSUME NEW a \in ns
             PROVE  u[f[a]] \in JsonRec /\ Formed(u[f[a]]) /\ u[f[a]].items \in Seq(ItemRec)
  OBVIOUS
<1> DEFINE items == [i \in DOMAIN t[a].items |-> Item(t[a].items[i].k, f[t[a].items[i].v])]
<1>1. a \in DOMAIN t /\ t[a] \in JsonRec /\ t[a].items \in Seq(ItemRec) /\ Formed(t[a])
  <2>1. a \in DOMAIN t
    BY DEF Reach
  <2>2. QED
    BY <2>1, ForestFacts DEF Forest
<1>2. \A i \in DOMAIN t[a].items :
        f[t[a].items[i].v] \in Node /\ t[a].items[i].k \in Key \cup {NONE}
  BY CopiedNodes
<1>3. DOMAIN t[a].items = 1 .. Len(t[a].items) /\ Len(t[a].items) \in Nat
  BY <1>1, LenProperties
<1>4. items \in [1 .. Len(t[a].items) -> ItemRec]
  BY <1>2, <1>3 DEF Item, ItemRec
<1>5. items \in Seq(ItemRec) /\ Len(items) = Len(t[a].items)
  BY <1>3, <1>4, ArrayIsSeq
<1>6. u[f[a]] = Json(t[a].type, t[a].val, items)
  BY DEF Copied
<1> HIDE DEF items
<1>7. u[f[a]] \in JsonRec /\ u[f[a]].items = items /\ u[f[a]].type = t[a].type
  BY <1>1, <1>5, <1>6 DEF Json, JsonRec
<1>8. /\ DOMAIN u[f[a]].items = DOMAIN t[a].items
      /\ \A i \in DOMAIN t[a].items : u[f[a]].items[i].k = t[a].items[i].k
  BY CopiedNodes
<1>9. Formed(u[f[a]])
  <2>1. CASE t[a].type \notin Container
    <3>1. t[a].items = <<>>
      BY <1>1, <2>1 DEF Formed
    <3>2. Len(items) = 0
      BY <1>5, <3>1
    <3>3. items = <<>>
      BY <1>5, <3>2, EmptySeq
    <3>4. QED
      BY <1>7, <2>1, <3>3 DEF Formed, Container
  <2>2. CASE t[a].type \in Container
    BY <1>1, <1>7, <1>8, <2>2 DEF Formed
  <2>3. QED
    BY <2>1, <2>2
<1>10. QED
  BY <1>5, <1>7, <1>9

LEMMA CopiedLinks ==
  ASSUME NEW t, NEW h, Forest(t, h), NEW n \in DOMAIN t, NEW ns, ns = Reach(t, n),
         NEW u, NEW f, Copied(t, u, ns, f)
  PROVE  Down(u) /\ Up(u)
<1>1. /\ \A a \in ns : f[a] \notin DOMAIN t /\ f[a] \in DOMAIN u
      /\ ns \subseteq DOMAIN t
      /\ \A a \in ns : Children(t, a) \subseteq ns
      /\ \A a \in ns : \A x : x \in Children(u, f[a]) <=> \E c \in Children(t, a) : x = f[c]
      /\ \A m \in DOMAIN t : Children(u, m) = Children(t, m)
  <2>1. /\ ns \subseteq DOMAIN t
        /\ \A a \in ns : f[a] \notin DOMAIN t /\ f[a] \in Node /\ f[a] \in DOMAIN u
    BY CopiedNodes
  <2>2. \A a \in ns : Children(t, a) \subseteq ns \ {n}
    BY CopiedNodes
  <2>3. \A a \in ns : \A x : x \in Children(u, f[a]) <=> \E c \in Children(t, a) : x = f[c]
    BY CopiedChildren
  <2>4. \A m \in DOMAIN t : Children(u, m) = Children(t, m)
    BY CopiedNodes
  <2>5. QED
    BY <2>1, <2>2, <2>3, <2>4
<1>2. /\ DOMAIN u = DOMAIN t \cup {f[a] : a \in ns}
      /\ \A a, b \in ns : f[a] = f[b] => a = b
  BY DEF Copied
<1>3. Within(t) /\ Down(t) /\ Up(t)
  BY ForestFacts DEF Forest
<1>4. \A m \in DOMAIN t : \A c \in Children(u, m) : c \in DOMAIN t
  BY <1>1, <1>3 DEF Within
<1>5. \A m \in DOMAIN u \ DOMAIN t : \A c \in Children(u, m) : c \notin DOMAIN t
  BY <1>1, <1>2
<1>6. ASSUME NEW S \in SUBSET DOMAIN u, S # {}
      PROVE  /\ \E x \in S : Children(u, x) \cap S = {}
             /\ \E x \in S : \A m \in S : x \notin Children(u, m)
  <2> DEFINE O == S \cap DOMAIN t
             P == {a \in ns : f[a] \in S}
  <2>1. /\ O # {} => /\ \E x \in O : Children(t, x) \cap O = {}
                     /\ \E x \in O : \A m \in O : x \notin Children(t, m)
        /\ P # {} => /\ \E x \in P : Children(t, x) \cap P = {}
                     /\ \E x \in P : \A m \in P : x \notin Children(t, m)
    <3>1. O \in SUBSET DOMAIN t /\ P \in SUBSET DOMAIN t
      BY <1>1
    <3> HIDE DEF O, P
    <3>2. QED
      BY <1>3, <3>1 DEF Down, Up
  <2>2. CASE O # {}
    <3>1. PICK x \in O : Children(t, x) \cap O = {}
      BY <2>1, <2>2
    <3>2. Children(u, x) \cap S = {}
      BY <1>1, <1>4, <3>1
    <3>3. PICK y \in O : \A m \in O : y \notin Children(t, m)
      BY <2>1, <2>2
    <3>4. \A m \in S : y \notin Children(u, m)
      BY <1>1, <1>5, <3>3
    <3>5. QED
      BY <3>1, <3>2, <3>3, <3>4
  <2>3. CASE O = {}
    <3>1. \A m \in S : \E a \in P : m = f[a]
      BY <1>2, <2>3
    <3>2. PICK x \in P : Children(t, x) \cap P = {}
      BY <1>6, <2>1, <3>1
    <3>3. Children(u, f[x]) \cap S = {}
      <4>1. ASSUME NEW c \in Children(t, x), f[c] \in S
            PROVE  FALSE
        <5>1. c \in ns
          BY <1>1, <3>2
        <5>2. QED
          BY <3>2, <4>1, <5>1
      <4>2. \A y : y \in Children(u, f[x]) <=> \E c \in Children(t, x) : y = f[c]
        BY <1>1, <3>2
      <4>3. QED
        BY <4>1, <4>2
    <3>4. PICK y \in P : \A m \in P : y \notin Children(t, m)
      BY <1>6, <2>1, <3>1
    <3>5. \A m \in S : f[y] \notin Children(u, m)
      <4> TAKE m \in S
      <4>1. PICK a \in P : m = f[a]
        BY <3>1
      <4>2. \A c \in Children(t, a) : c \in ns /\ f[c] # f[y]
        BY <1>1, <1>2, <3>4, <4>1
      <4>3. QED
        BY <1>1, <4>1, <4>2
    <3>6. QED
      BY <3>2, <3>3, <3>4, <3>5
  <2>4. QED
    BY <2>2, <2>3
<1>7. QED
  BY <1>6 DEF Down, Up

LEMMA CopiedStrings ==
  ASSUME NEW t, NEW h, Forest(t, h), NEW n \in DOMAIN t, NEW ns, ns = Reach(t, n),
         NEW u, NEW f, Copied(t, u, ns, f)
  PROVE  Strings(u, {f[a] : a \in ns}) = Strings(t, ns)
<1> DEFINE A == {a \in ns : t[a].type = "object"}
           B == {m \in {f[a] : a \in ns} : u[m].type = "object"}
           g == [p \in Slots(t, A) |-> <<f[p[1]], p[2]>>]
<1>1. \A a \in ns : u[f[a]].type = t[a].type /\ DOMAIN u[f[a]].items = DOMAIN t[a].items
  BY CopiedNodes
<1>2. \A a, b \in ns : f[a] = f[b] => a = b
  BY DEF Copied
<1>3. /\ \A a \in A : a \in ns /\ f[a] \in B
      /\ \A m \in B : \E a \in A : m = f[a]
  BY <1>1
<1> HIDE DEF A, B
<1>4. \A p : p \in Slots(t, A) <=> \E a \in A : \E i \in DOMAIN t[a].items : p = <<a, i>>
  BY SlotsIs
<1>5. \A p : p \in Slots(u, B) <=> \E m \in B : \E i \in DOMAIN u[m].items : p = <<m, i>>
  BY SlotsIs
<1>6. ASSUME NEW p \in Slots(t, A)
      PROVE  g[p] \in Slots(u, B)
  <2>1. PICK a \in A : \E i \in DOMAIN t[a].items : p = <<a, i>>
    BY <1>4
  <2>2. PICK i \in DOMAIN t[a].items : p = <<a, i>>
    BY <2>1
  <2>3. g[p] = <<f[a], i>> /\ f[a] \in B /\ i \in DOMAIN u[f[a]].items
    BY <1>1, <1>3, <2>2
  <2>4. QED
    BY <1>5, <2>3
<1>7. ASSUME NEW p \in Slots(t, A), NEW q \in Slots(t, A), g[p] = g[q]
      PROVE  p = q
  <2>1. PICK a \in A : \E i \in DOMAIN t[a].items : p = <<a, i>>
    BY <1>4
  <2>2. PICK i \in DOMAIN t[a].items : p = <<a, i>>
    BY <2>1
  <2>3. PICK b \in A : \E k \in DOMAIN t[b].items : q = <<b, k>>
    BY <1>4
  <2>4. PICK k \in DOMAIN t[b].items : q = <<b, k>>
    BY <2>3
  <2>5. f[a] = f[b] /\ i = k
    BY <1>7, <2>2, <2>4
  <2>6. QED
    BY <1>2, <1>3, <2>2, <2>4, <2>5
<1>8. ASSUME NEW q \in Slots(u, B)
      PROVE  \E p \in Slots(t, A) : g[p] = q
  <2>1. PICK m \in B : \E i \in DOMAIN u[m].items : q = <<m, i>>
    BY <1>5
  <2>2. PICK i \in DOMAIN u[m].items : q = <<m, i>>
    BY <2>1
  <2>3. PICK a \in A : m = f[a]
    BY <1>3
  <2>4. <<a, i>> \in Slots(t, A)
    BY <1>1, <1>3, <1>4, <2>2, <2>3
  <2>5. g[<<a, i>>] = q
    BY <2>2, <2>3, <2>4
  <2>6. QED
    BY <2>4, <2>5
<1>9. g \in Bijection(Slots(t, A), Slots(u, B))
  <2>1. g \in [Slots(t, A) -> Slots(u, B)]
    BY <1>6
  <2> HIDE DEF g
  <2>2. QED
    BY <1>7, <1>8, <2>1 DEF Bijection, Injection, Surjection, IsInjective
<1>10. IsFiniteSet(Slots(t, A))
  <2>1. /\ IsFiniteSet(DOMAIN t) /\ ns \subseteq DOMAIN t
        /\ \A a \in DOMAIN t : t[a].items \in Seq(ItemRec)
    BY ForestFacts DEF Reach
  <2>2. IsFiniteSet(A) /\ \A a \in A : t[a].items \in Seq(ItemRec)
    BY <1>3, <2>1, FS_Subset
  <2>3. QED
    BY <2>2, SlotsFinite
<1>11. Cardinality(Slots(t, A)) = Cardinality(Slots(u, B))
  <2>1. ExistsBijection(Slots(t, A), Slots(u, B))
    BY <1>9 DEF ExistsBijection
  <2>2. QED
    BY <1>10, <2>1, FS_Bijection
<1>12. QED
  BY <1>11 DEF Strings, A, B

LEMMA ForestCopy ==
  ASSUME NEW t, NEW h, Forest(t, h), NEW n \in DOMAIN t, t[n].type # "error",
         NEW ns, ns = Reach(t, n), NEW u, NEW f, Copied(t, u, ns, f)
  PROVE  /\ Forest(u, h \cup {f[n]})
         /\ Strings(u, DOMAIN u) = Strings(t, DOMAIN t) + Strings(t, ns)
<1>1. /\ n \in ns /\ ns \subseteq DOMAIN t
      /\ \A a \in ns : f[a] \notin DOMAIN t /\ f[a] \in Node /\ f[a] \in DOMAIN u
  BY CopiedNodes
<1>2. \A a \in ns : Children(t, a) \subseteq ns \ {n}
  BY CopiedNodes
<1>3. \A a \in ns : \A x : x \in Children(u, f[a]) <=> \E c \in Children(t, a) : x = f[c]
  BY CopiedChildren
<1>4. \A m \in DOMAIN t : Children(u, m) = Children(t, m)
  BY CopiedNodes
<1>5. /\ DOMAIN u = DOMAIN t \cup {f[a] : a \in ns}
      /\ \A a, b \in ns : f[a] = f[b] => a = b
      /\ \A m \in DOMAIN t : u[m] = t[m]
  BY DEF Copied
<1>6. /\ DOMAIN t \subseteq Node /\ h \subseteq DOMAIN t
      /\ \A m \in DOMAIN t : t[m] \in JsonRec /\ Formed(t[m]) /\ t[m].items \in Seq(ItemRec)
      /\ \A m \in DOMAIN t : t[m].type = "error" => m \in h
      /\ \A m \in DOMAIN t : Children(t, m) \subseteq DOMAIN t \ h
  BY ForestFacts DEF Forest
<1>7. \A a \in ns : u[f[a]] \in JsonRec /\ Formed(u[f[a]]) /\ u[f[a]].items \in Seq(ItemRec)
  BY CopiedForms
<1>8. /\ DOMAIN u \subseteq Node /\ u \in [DOMAIN u -> JsonRec]
      /\ \A m \in DOMAIN u : Formed(u[m])
  <2>1. \A m \in DOMAIN u : m \in Node /\ u[m] \in JsonRec /\ Formed(u[m])
    BY <1>1, <1>5, <1>6, <1>7
  <2>2. u = [m \in DOMAIN u |-> u[m]]
    BY DEF Copied
  <2>3. QED
    BY <2>1, <2>2
<1>9. \A a \in ns : t[a].type # "error"
  <2> SUFFICES ASSUME NEW a \in ns, a # n
               PROVE  t[a].type # "error"
    OBVIOUS
  <2>1. PICK m \in ns : a \in Children(t, m)
    BY ParentBelow
  <2>2. QED
    BY <1>1, <1>6, <2>1
<1>10. /\ h \cup {f[n]} \subseteq DOMAIN u
       /\ \A m \in DOMAIN u : u[m].type = "error" => m \in h \cup {f[n]}
  <2>1. \A a \in ns : u[f[a]].type # "error"
    BY <1>9, CopiedNodes
  <2>2. QED
    BY <1>1, <1>5, <1>6, <2>1
<1>11. ASSUME NEW m \in DOMAIN u
       PROVE  Children(u, m) \subseteq DOMAIN u \ (h \cup {f[n]})
  <2>1. CASE m \in DOMAIN t
    BY <1>1, <1>4, <1>5, <1>6, <2>1
  <2>2. CASE m \notin DOMAIN t
    <3>1. PICK a \in ns : m = f[a]
      BY <1>5, <2>2
    <3>2. ASSUME NEW x \in Children(u, m)
          PROVE  x \in DOMAIN u \ (h \cup {f[n]})
      <4>1. PICK c \in Children(t, a) : x = f[c]
        BY <1>3, <3>1
      <4>2. c \in ns /\ c # n
        BY <1>2, <4>1
      <4>3. QED
        BY <1>1, <1>5, <1>6, <4>1, <4>2
    <3>3. QED
      BY <3>2
  <2>3. QED
    BY <2>1, <2>2
<1>12. ASSUME NEW x \in DOMAIN u \ (h \cup {f[n]})
       PROVE  \E m \in DOMAIN u : x \in Children(u, m)
  <2>1. CASE x \in DOMAIN t
    <3>1. PICK m \in DOMAIN t : x \in Children(t, m)
      BY <2>1 DEF Forest
    <3>2. QED
      BY <1>4, <1>5, <3>1
  <2>2. CASE x \notin DOMAIN t
    <3>1. PICK a \in ns : x = f[a]
      BY <1>5, <2>2
    <3>2. PICK m \in ns : a \in Children(t, m)
      BY <3>1, ParentBelow
    <3>3. x \in Children(u, f[m])
      BY <1>3, <3>1, <3>2
    <3>4. QED
      BY <1>1, <3>3
  <2>3. QED
    BY <2>1, <2>2
<1>13. ASSUME NEW m1 \in DOMAIN u, NEW m2 \in DOMAIN u,
              NEW a \in DOMAIN u[m1].items, NEW b \in DOMAIN u[m2].items,
              u[m1].items[a].v = u[m2].items[b].v
       PROVE  m1 = m2 /\ a = b
  <2>1. ASSUME NEW x1 \in DOMAIN t, NEW x2 \in DOMAIN t,
               NEW y \in DOMAIN t[x1].items, NEW z \in DOMAIN t[x2].items,
               t[x1].items[y].v = t[x2].items[z].v
        PROVE  x1 = x2 /\ y = z
    BY <2>1 DEF Forest
  <2>2. \A m \in ns : /\ DOMAIN u[f[m]].items = DOMAIN t[m].items
                      /\ \A i \in DOMAIN t[m].items :
                           /\ u[f[m]].items[i].v = f[t[m].items[i].v]
                           /\ t[m].items[i].v \in ns
    BY CopiedNodes
  <2>3. \A m \in DOMAIN t : \A i \in DOMAIN u[m].items : u[m].items[i].v \in DOMAIN t
    <3>1. \A m \in DOMAIN t : \A i \in DOMAIN t[m].items : t[m].items[i].v \in DOMAIN t
      BY <1>6 DEF Children
    <3>2. QED
      BY <1>5, <3>1
  <2>4. \A m \in DOMAIN u \ DOMAIN t : \E x \in ns : m = f[x]
    BY <1>5
  <2>5. CASE m1 \in DOMAIN t /\ m2 \in DOMAIN t
    BY <1>5, <1>13, <2>1, <2>5
  <2>6. CASE m1 \in DOMAIN t /\ m2 \notin DOMAIN t
    BY <1>1, <1>13, <2>2, <2>3, <2>4, <2>6
  <2>7. CASE m1 \notin DOMAIN t /\ m2 \in DOMAIN t
    BY <1>1, <1>13, <2>2, <2>3, <2>4, <2>7
  <2>8. CASE m1 \notin DOMAIN t /\ m2 \notin DOMAIN t
    <3>1. PICK x1 \in ns : m1 = f[x1]
      BY <2>4, <2>8
    <3>2. PICK x2 \in ns : m2 = f[x2]
      BY <2>4, <2>8
    <3>3. t[x1].items[a].v = t[x2].items[b].v
      BY <1>5, <1>13, <2>2, <3>1, <3>2
    <3>4. x1 = x2 /\ a = b
      BY <1>1, <2>1, <2>2, <3>1, <3>2, <3>3
    <3>5. QED
      BY <3>1, <3>2, <3>4
  <2>9. QED
    BY <2>5, <2>6, <2>7, <2>8
<1>14. Down(u) /\ Up(u)
  BY CopiedLinks
<1>15. Forest(u, h \cup {f[n]})
  BY <1>8, <1>10, <1>11, <1>12, <1>13, <1>14 DEF Forest
<1>16. Strings(u, DOMAIN u) = Strings(t, DOMAIN t) + Strings(t, ns)
  <2> DEFINE C == {f[a] : a \in ns}
  <2>1. DOMAIN u = DOMAIN t \cup C /\ DOMAIN t \cap C = {}
    BY <1>1, <1>5
  <2>2. IsFiniteSet(DOMAIN t) /\ IsFiniteSet(C)
    <3>1. C \subseteq DOMAIN u /\ IsFiniteSet(DOMAIN u) /\ IsFiniteSet(DOMAIN t)
      BY <1>5, <1>15, ForestFacts
    <3>2. QED
      BY <3>1, FS_Subset
  <2>3. \A m \in DOMAIN t \cup C : u[m].items \in Seq(ItemRec)
    BY <1>5, <1>6, <1>7
  <2>4. Strings(u, C) = Strings(t, ns)
    BY CopiedStrings
  <2>5. Strings(u, DOMAIN t) = Strings(t, DOMAIN t)
    BY <1>5, StringsSame
  <2> HIDE DEF C
  <2>6. Strings(u, DOMAIN u) = Strings(u, DOMAIN t) + Strings(u, C)
    BY <2>1, <2>2, <2>3, StringsAdd
  <2>7. QED
    BY <2>4, <2>5, <2>6
<1>17. QED
  BY <1>15, <1>16

-----------------------------------------------------------------------------
(* Items come and go one at a time.                                        *)

LEMMA Joined ==
  ASSUME NEW a \in Seq(ItemRec), NEW b \in Seq(ItemRec)
  PROVE  /\ a \o b \in Seq(ItemRec) /\ Len(a \o b) = Len(a) + Len(b)
         /\ \A i \in 1 .. Len(a) + Len(b) : (a \o b)[i] =
              IF i <= Len(a) THEN a[i] ELSE b[i - Len(a)]
BY ConcatProperties

LEMMA Shifted ==
  ASSUME NEW s \in Seq(ItemRec), NEW s2 \in Seq(ItemRec), Len(s2) = Len(s) + 1,
         NEW p \in 1 .. Len(s) + 1,
         \A a \in 1 .. p - 1 : s2[a] = s[a],
         \A a \in p + 1 .. Len(s) + 1 : s2[a] = s[a - 1]
  PROVE  \E o : OneMore(s2, s, p, o)
<1> DEFINE l == Len(s)
           o == [a \in (1 .. l + 1) \ {p} |-> IF a < p THEN a ELSE a - 1]
<1>1. l \in Nat /\ DOMAIN s = 1 .. l /\ DOMAIN s2 = 1 .. l + 1 /\ p \in 1 .. l + 1
  BY LenProperties
<1>2. \A a \in (1 .. l + 1) \ {p} : o[a] = IF a < p THEN a ELSE a - 1
  OBVIOUS
<1>3. \A a \in (1 .. l + 1) \ {p} : (IF a < p THEN a ELSE a - 1) \in 1 .. l
  BY <1>1
<1>4. o \in [(1 .. l + 1) \ {p} -> 1 .. l]
  BY <1>3
<1>5. \A a \in (1 .. l + 1) \ {p} : s2[a] = s[IF a < p THEN a ELSE a - 1]
  BY <1>1
<1> HIDE DEF o, l
<1>6. \A a, b \in (1 .. l + 1) \ {p} : o[a] = o[b] => a = b
  BY <1>1, <1>2
<1>7. ASSUME NEW b \in 1 .. l
      PROVE  \E a \in (1 .. l + 1) \ {p} : o[a] = b
  <2>1. CASE b < p
    BY <1>1, <1>2, <2>1
  <2>2. CASE b >= p
    <3>1. b + 1 \in (1 .. l + 1) \ {p} /\ ~ (b + 1 < p)
      BY <1>1, <2>2
    <3>2. o[b + 1] = b
      BY <1>2, <3>1
    <3>3. QED
      BY <3>1, <3>2
  <2>3. QED
    BY <1>1, <2>1, <2>2
<1>8. \A a \in (1 .. l + 1) \ {p} : s2[a] = s[o[a]]
  BY <1>2, <1>5
<1>9. OneMore(s2, s, p, o)
  BY <1>1, <1>4, <1>6, <1>7, <1>8 DEF OneMore
<1>10. QED
  BY <1>9

LEMMA AppendMore ==
  ASSUME NEW s \in Seq(ItemRec), NEW x \in ItemRec
  PROVE  /\ Append(s, x) \in Seq(ItemRec) /\ Len(Append(s, x)) = Len(s) + 1
         /\ Append(s, x)[Len(s) + 1] = x
         /\ \E o : OneMore(Append(s, x), s, Len(s) + 1, o)
<1>1. Len(s) \in Nat
  BY LenProperties
<1>2. /\ Append(s, x) \in Seq(ItemRec) /\ Len(Append(s, x)) = Len(s) + 1
      /\ Append(s, x)[Len(s) + 1] = x
      /\ \A i \in 1 .. Len(s) : Append(s, x)[i] = s[i]
  BY AppendProperties
<1>3. \E o : OneMore(Append(s, x), s, Len(s) + 1, o)
  <2> DEFINE s2 == Append(s, x)
  <2>1. /\ \A a \in 1 .. (Len(s) + 1) - 1 : s2[a] = s[a]
        /\ \A a \in (Len(s) + 1) + 1 .. Len(s) + 1 : s2[a] = s[a - 1]
        /\ Len(s) + 1 \in 1 .. Len(s) + 1
    BY <1>1, <1>2
  <2> HIDE DEF s2
  <2>2. s2 \in Seq(ItemRec) /\ Len(s2) = Len(s) + 1
    BY <1>2 DEF s2
  <2>3. \E o : OneMore(s2, s, Len(s) + 1, o)
    BY <2>1, <2>2, Shifted
  <2>4. QED
    BY <2>3 DEF s2
<1>4. QED
  BY <1>2, <1>3

LEMMA PartOf ==
  ASSUME NEW s \in Seq(ItemRec), NEW m \in 1 .. Len(s) + 1, NEW n \in 0 .. Len(s), m <= n + 1
  PROVE  /\ SubSeq(s, m, n) \in Seq(ItemRec) /\ Len(SubSeq(s, m, n)) = n - m + 1
         /\ \A i \in 1 .. n - m + 1 : SubSeq(s, m, n)[i] = s[m + i - 1]
<1>1. Len(s) \in Nat /\ m \in Int /\ n \in Int
  BY LenProperties
<1>2. \A i \in m .. n : s[i] \in ItemRec
  BY <1>1, ElementOfSeq
<1>3. /\ SubSeq(s, m, n) \in Seq(ItemRec)
      /\ Len(SubSeq(s, m, n)) = IF m <= n THEN n - m + 1 ELSE 0
      /\ \A i \in 1 .. n - m + 1 : SubSeq(s, m, n)[i] = s[m + i - 1]
  BY <1>1, <1>2, SubSeqProperties
<1>4. QED
  BY <1>1, <1>3

LEMMA InsertMore ==
  ASSUME NEW s \in Seq(ItemRec), NEW x \in ItemRec, NEW p \in 1 .. Len(s) + 1
  PROVE  /\ InsertAt(s, p, x) \in Seq(ItemRec) /\ Len(InsertAt(s, p, x)) = Len(s) + 1
         /\ InsertAt(s, p, x)[p] = x
         /\ \E o : OneMore(InsertAt(s, p, x), s, p, o)
<1> DEFINE l == Len(s)
           s1 == SubSeq(s, 1, p - 1)
           s3 == SubSeq(s, p, l)
           one == <<x>>
           s12 == s1 \o one
           s2 == s12 \o s3
<1>1. l \in Nat /\ p \in Int /\ 1 <= p /\ p <= l + 1
  BY LenProperties
<1>2. /\ s1 \in Seq(ItemRec) /\ Len(s1) = p - 1
      /\ \A i \in 1 .. p - 1 : s1[i] = s[i]
  <2>1. /\ SubSeq(s, 1, p - 1) \in Seq(ItemRec) /\ Len(SubSeq(s, 1, p - 1)) = (p - 1) - 1 + 1
        /\ \A i \in 1 .. (p - 1) - 1 + 1 : SubSeq(s, 1, p - 1)[i] = s[1 + i - 1]
    BY <1>1, PartOf
  <2>2. QED
    BY <1>1, <2>1
<1>3. /\ s3 \in Seq(ItemRec) /\ Len(s3) = l - p + 1
      /\ \A i \in 1 .. l - p + 1 : s3[i] = s[p + i - 1]
  BY <1>1, PartOf
<1>4. one \in Seq(ItemRec) /\ Len(one) = 1 /\ one[1] = x
  OBVIOUS
<1> HIDE DEF one
<1>5. /\ s12 \in Seq(ItemRec) /\ Len(s12) = p
      /\ \A i \in 1 .. p : s12[i] = IF i <= p - 1 THEN s1[i] ELSE one[i - (p - 1)]
  <2> HIDE DEF s1
  <2>1. /\ s12 \in Seq(ItemRec) /\ Len(s12) = Len(s1) + Len(one)
        /\ \A i \in 1 .. Len(s1) + Len(one) : s12[i] =
             IF i <= Len(s1) THEN s1[i] ELSE one[i - Len(s1)]
    BY ONLY <1>2, <1>4, Joined DEF s12
  <2>2. Len(s1) + Len(one) = p
    BY <1>1, <1>2, <1>4
  <2>3. QED
    BY <1>2, <2>1, <2>2
<1>6. s12[p] = x /\ \A i \in 1 .. p - 1 : s12[i] = s[i]
  <2> HIDE DEF s1, s12
  <2>1. p - (p - 1) = 1 /\ ~ (p <= p - 1) /\ p \in 1 .. p
    BY <1>1
  <2>2. s12[p] = one[1]
    BY <1>5, <2>1
  <2>3. \A i \in 1 .. p - 1 : i \in 1 .. p /\ i <= p - 1
    BY <1>1
  <2>4. \A i \in 1 .. p - 1 : s12[i] = s[i]
    BY <1>2, <1>5, <2>3
  <2>5. QED
    BY <1>4, <2>2, <2>4
<1> HIDE DEF s12, s3
<1>7. /\ s2 \in Seq(ItemRec) /\ Len(s2) = l + 1
      /\ \A i \in 1 .. l + 1 : s2[i] = IF i <= p THEN s12[i] ELSE s3[i - p]
  <2>1. /\ s2 \in Seq(ItemRec) /\ Len(s2) = Len(s12) + Len(s3)
        /\ \A i \in 1 .. Len(s12) + Len(s3) : s2[i] =
             IF i <= Len(s12) THEN s12[i] ELSE s3[i - Len(s12)]
    BY ONLY <1>3, <1>5, Joined DEF s2
  <2>2. Len(s12) + Len(s3) = l + 1
    BY <1>1, <1>3, <1>5
  <2>3. QED
    BY <1>5, <2>1, <2>2
<1> HIDE DEF s2, l
<1>8. s2[p] = x /\ \A a \in 1 .. p - 1 : s2[a] = s[a]
  <2>1. p \in 1 .. l + 1 /\ p <= p /\ \A a \in 1 .. p - 1 : a \in 1 .. l + 1 /\ a <= p
    BY <1>1
  <2>2. QED
    BY <1>6, <1>7, <2>1
<1>9. \A a \in p + 1 .. l + 1 : s2[a] = s[a - 1]
  <2> TAKE a \in p + 1 .. l + 1
  <2>1. a \in 1 .. l + 1 /\ ~ (a <= p) /\ a - p \in 1 .. l - p + 1 /\ p + (a - p) - 1 = a - 1
    BY <1>1
  <2>2. s2[a] = s3[a - p]
    BY <1>7, <2>1
  <2>3. s3[a - p] = s[p + (a - p) - 1]
    BY <1>3, <2>1
  <2>4. QED
    BY <2>1, <2>2, <2>3
<1>10. \E o : OneMore(s2, s, p, o)
  BY <1>7, <1>8, <1>9, Shifted DEF l
<1>11. s2 = InsertAt(s, p, x)
  BY DEF s2, s12, s3, s1, one, l, InsertAt
<1>12. QED
  BY <1>7, <1>8, <1>10, <1>11 DEF l

LEMMA RemoveLess ==
  ASSUME NEW s \in Seq(ItemRec), NEW p \in 1 .. Len(s)
  PROVE  /\ RemoveAt(s, p) \in Seq(ItemRec) /\ Len(s) = Len(RemoveAt(s, p)) + 1
         /\ \E o : OneMore(s, RemoveAt(s, p), p, o)
<1> DEFINE l == Len(s)
           s1 == SubSeq(s, 1, p - 1)
           s3 == SubSeq(s, p + 1, l)
           s2 == s1 \o s3
<1>1. l \in Nat /\ p \in Int /\ 1 <= p /\ p <= l
  BY LenProperties
<1>2. /\ s1 \in Seq(ItemRec) /\ Len(s1) = p - 1
      /\ \A i \in 1 .. p - 1 : s1[i] = s[i]
  <2>1. /\ SubSeq(s, 1, p - 1) \in Seq(ItemRec) /\ Len(SubSeq(s, 1, p - 1)) = (p - 1) - 1 + 1
        /\ \A i \in 1 .. (p - 1) - 1 + 1 : SubSeq(s, 1, p - 1)[i] = s[1 + i - 1]
    BY <1>1, PartOf
  <2>2. QED
    BY <1>1, <2>1
<1>3. /\ s3 \in Seq(ItemRec) /\ Len(s3) = l - p
      /\ \A i \in 1 .. l - p : s3[i] = s[p + i]
  <2>1. /\ SubSeq(s, p + 1, l) \in Seq(ItemRec) /\ Len(SubSeq(s, p + 1, l)) = l - (p + 1) + 1
        /\ \A i \in 1 .. l - (p + 1) + 1 : SubSeq(s, p + 1, l)[i] = s[(p + 1) + i - 1]
    BY <1>1, PartOf
  <2>2. QED
    BY <1>1, <2>1
<1> HIDE DEF s1, s3
<1>4. /\ s2 \in Seq(ItemRec) /\ Len(s2) = l - 1
      /\ \A i \in 1 .. l - 1 : s2[i] = IF i <= p - 1 THEN s1[i] ELSE s3[i - (p - 1)]
  <2>1. /\ s2 \in Seq(ItemRec) /\ Len(s2) = Len(s1) + Len(s3)
        /\ \A i \in 1 .. Len(s1) + Len(s3) : s2[i] =
             IF i <= Len(s1) THEN s1[i] ELSE s3[i - Len(s1)]
    BY ONLY <1>2, <1>3, Joined DEF s2
  <2>2. Len(s1) + Len(s3) = l - 1
    BY <1>1, <1>2, <1>3
  <2>3. QED
    BY <1>2, <2>1, <2>2
<1> HIDE DEF s2
<1>5. \A a \in 1 .. p - 1 : s[a] = s2[a]
  <2>1. \A a \in 1 .. p - 1 : a \in 1 .. l - 1 /\ a <= p - 1
    BY <1>1
  <2>2. QED
    BY <1>2, <1>4, <2>1
<1>6. \A a \in p + 1 .. l : s[a] = s2[a - 1]
  <2> TAKE a \in p + 1 .. l
  <2>1. /\ a - 1 \in 1 .. l - 1 /\ ~ (a - 1 <= p - 1) /\ a - p \in 1 .. l - p
        /\ (a - 1) - (p - 1) = a - p /\ p + (a - p) = a
    BY <1>1
  <2>2. s2[a - 1] = s3[a - p]
    BY <1>4, <2>1
  <2>3. s3[a - p] = s[a]
    BY <1>3, <2>1
  <2>4. QED
    BY <2>2, <2>3
<1>7. \E o : OneMore(s, s2, p, o)
  <2>1. Len(s) = Len(s2) + 1 /\ Len(s2) + 1 = l
    BY <1>1, <1>4
  <2>2. QED
    BY <1>4, <1>5, <1>6, <2>1, Shifted
<1>8. s2 = RemoveAt(s, p)
  BY DEF s2, s1, s3, RemoveAt
<1>9. QED
  BY <1>1, <1>4, <1>7, <1>8

LEMMA PutIs ==
  ASSUME NEW t, NEW h, Forest(t, h), NEW j \in DOMAIN t, NEW s \in Seq(ItemRec),
         NEW u, u = Put(t, j, s)
  PROVE  /\ DOMAIN u = DOMAIN t /\ u[j].type = t[j].type /\ u[j].items = s
         /\ \A m \in DOMAIN t \ {j} : u[m] = t[m]
<1>1. t[j] \in JsonRec
  BY ForestFacts
<1>2. u[j] = [t[j] EXCEPT !.items = s] /\ DOMAIN u = DOMAIN t
      /\ \A m \in DOMAIN t \ {j} : u[m] = t[m]
  BY DEF Forest, Put
<1>3. QED
  BY <1>1, <1>2 DEF JsonRec

(* u is t with one item more in the object j.                              *)
Longer(t, u, j) ==
  /\ j \in DOMAIN t /\ DOMAIN u = DOMAIN t /\ IsFiniteSet(DOMAIN t)
  /\ t[j].type = "object" /\ u[j].type = "object"
  /\ \A m \in DOMAIN t \ {j} : u[m] = t[m]
  /\ \A m \in DOMAIN t : t[m].items \in Seq(ItemRec)
  /\ u[j].items \in Seq(ItemRec) /\ Len(u[j].items) = Len(t[j].items) + 1

LEMMA LongerStrings ==
  ASSUME NEW t, NEW u, NEW j, Longer(t, u, j)
  PROVE  /\ Strings(t, DOMAIN t) \in Nat
         /\ Strings(u, DOMAIN u) = Strings(t, DOMAIN t) + 1
<1>1. /\ \A m \in DOMAIN t : t[m].items \in Seq(ItemRec) /\ u[m].type = t[m].type
      /\ \A m \in DOMAIN t \ {j} : u[m].items = t[m].items
      /\ u[j].items \in Seq(ItemRec) /\ Len(u[j].items) = Len(t[j].items) + 1
      /\ j \in DOMAIN t /\ DOMAIN u = DOMAIN t /\ IsFiniteSet(DOMAIN t)
      /\ t[j].type = "object"
  BY DEF Longer
<1>2. Strings(u, DOMAIN t) = Strings(t, DOMAIN t) + IF t[j].type = "object" THEN 1 ELSE 0
  BY ONLY <1>1, StringsGrow
<1>3. Strings(t, DOMAIN t) \in Nat
  BY ONLY <1>1, StringsType
<1>4. QED
  BY <1>1, <1>2, <1>3

(* The items s2 are those of j and one at p, which j can take: the root v  *)
(* with a new key, or without one in a list.                               *)
Joins(t, h, j, s2, p, v) ==
  /\ v \in h /\ t[v].type # "error" /\ j \in DOMAIN t /\ j \notin Reach(t, v)
  /\ s2 \in Seq(ItemRec) /\ Len(s2) = Len(t[j].items) + 1
  /\ \E o : OneMore(s2, t[j].items, p, o)
  /\ s2[p].v = v
  /\ \/ t[j].type = "object" /\ \A a \in DOMAIN t[j].items : t[j].items[a].k # s2[p].k
     \/ t[j].type = "list" /\ s2[p].k = NONE

(* An item goes in, or goes out, with its key string.                      *)
LEMMA Attached ==
  ASSUME NEW t, NEW h, Forest(t, h), NEW j, NEW s2, NEW p, NEW v, Joins(t, h, j, s2, p, v),
         NEW u, u = Put(t, j, s2)
  PROVE  /\ Forest(u, h \ {v}) /\ DOMAIN u = DOMAIN t
         /\ u[j].type = t[j].type /\ u[j].items = s2
         /\ \A m \in DOMAIN t \ {j} : u[m] = t[m]
         /\ t[j].type = "object" => Strings(u, DOMAIN u) = Strings(t, DOMAIN t) + 1
         /\ t[j].type # "object" => Strings(u, DOMAIN u) = Strings(t, DOMAIN t)
<1> /\ v \in h /\ t[v].type # "error" /\ j \in DOMAIN t /\ j \notin Reach(t, v)
    /\ s2 \in Seq(ItemRec) /\ Len(s2) = Len(t[j].items) + 1
    /\ \E o : OneMore(s2, t[j].items, p, o)
    /\ s2[p].v = v
    /\ \/ t[j].type = "object" /\ \A a \in DOMAIN t[j].items : t[j].items[a].k # s2[p].k
       \/ t[j].type = "list" /\ s2[p].k = NONE
  BY DEF Joins
<1>1. PICK o : OneMore(s2, t[j].items, p, o)
  OBVIOUS
<1>2. Forest(u, h \ {v})
  BY <1>1, ForestAttach
<1>3. /\ DOMAIN u = DOMAIN t /\ \A m \in DOMAIN t \ {j} : u[m] = t[m]
      /\ u[j].items = s2 /\ u[j].type = t[j].type
  BY PutIs
<1>4. IsFiniteSet(DOMAIN t) /\ \A m \in DOMAIN t : t[m].items \in Seq(ItemRec)
  BY ForestFacts
<1>5. Strings(u, DOMAIN t) = Strings(t, DOMAIN t) + IF t[j].type = "object" THEN 1 ELSE 0
  <2>1. /\ \A m \in DOMAIN t : t[m].items \in Seq(ItemRec) /\ u[m].type = t[m].type
        /\ \A m \in DOMAIN t \ {j} : u[m].items = t[m].items
        /\ u[j].items \in Seq(ItemRec) /\ Len(u[j].items) = Len(t[j].items) + 1
    BY <1>3, <1>4
  <2>2. DOMAIN u = DOMAIN t /\ IsFiniteSet(DOMAIN t)
    BY <1>3, <1>4
  <2>3. QED
    BY ONLY j \in DOMAIN t, <2>1, <2>2, StringsGrow
<1>6. Strings(t, DOMAIN t) \in Nat
  BY <1>4, StringsType
<1>7. /\ t[j].type = "object" => Strings(u, DOMAIN u) = Strings(t, DOMAIN t) + 1
      /\ t[j].type # "object" => Strings(u, DOMAIN u) = Strings(t, DOMAIN t)
  BY <1>3, <1>5, <1>6
<1>8. QED
  BY <1>2, <1>3, <1>7

LEMMA Detached ==
  ASSUME NEW t, NEW h, Forest(t, h), NEW j \in DOMAIN t, NEW i \in DOMAIN t[j].items,
         NEW v, v = t[j].items[i].v,
         NEW u, u = Put(t, j, RemoveAt(t[j].items, i))
  PROVE  /\ Forest(u, h \cup {v}) /\ DOMAIN u = DOMAIN t
         /\ u[j].type = t[j].type /\ u[j].items = RemoveAt(t[j].items, i)
         /\ \A m \in DOMAIN t \ {j} : u[m] = t[m]
         /\ v \in DOMAIN t \ h /\ j # v
         /\ Reach(u, v) = Reach(t, v) /\ j \notin Reach(t, v)
         /\ Strings(u, DOMAIN u) = Strings(t, DOMAIN t) - IF t[j].type = "object" THEN 1 ELSE 0
<1>1. t[j].items \in Seq(ItemRec) /\ i \in 1 .. Len(t[j].items)
  BY ForestFacts, LenProperties
<1>2. PICK s \in Seq(ItemRec) : s = RemoveAt(t[j].items, i)
  BY <1>1, RemoveLess
<1>3. u = Put(t, j, s) /\ Len(t[j].items) = Len(s) + 1
  BY <1>1, <1>2, RemoveLess
<1>4. PICK o : Leaves(t, j, s, i, o, v)
  BY <1>1, <1>2, RemoveLess DEF Leaves
<1>5. /\ Forest(u, h \cup {v}) /\ v \in DOMAIN t \ h /\ j # v
      /\ Reach(u, v) = Reach(t, v) /\ j \notin Reach(t, v)
  <2>1. s \in Seq(ItemRec) /\ j \in DOMAIN t
    OBVIOUS
  <2>2. QED
    BY ONLY Forest(t, h), <2>1, <1>3, <1>4, ForestDetach
<1>6. /\ DOMAIN u = DOMAIN t /\ \A m \in DOMAIN t \ {j} : u[m] = t[m]
      /\ u[j].items = s /\ u[j].type = t[j].type
  BY <1>3, PutIs
<1>7. IsFiniteSet(DOMAIN u) /\ \A m \in DOMAIN u : u[m].items \in Seq(ItemRec)
  BY <1>5, ForestFacts
<1>8. /\ Strings(t, DOMAIN u) = Strings(u, DOMAIN u) + IF u[j].type = "object" THEN 1 ELSE 0
      /\ Strings(u, DOMAIN u) \in Nat
  <2>1. /\ \A m \in DOMAIN u : u[m].items \in Seq(ItemRec) /\ t[m].type = u[m].type
        /\ \A m \in DOMAIN u \ {j} : t[m].items = u[m].items
        /\ t[j].items \in Seq(ItemRec) /\ Len(t[j].items) = Len(u[j].items) + 1
        /\ j \in DOMAIN u /\ DOMAIN t = DOMAIN u
    BY <1>1, <1>3, <1>6, <1>7
  <2>2. Strings(t, DOMAIN u) = Strings(u, DOMAIN u) + IF u[j].type = "object" THEN 1 ELSE 0
    BY ONLY <1>7, <2>1, StringsGrow
  <2>3. Strings(u, DOMAIN u) \in Nat
    BY <1>7, StringsType
  <2>4. QED
    BY <2>2, <2>3
<1>9. Strings(u, DOMAIN u) = Strings(t, DOMAIN t) - IF t[j].type = "object" THEN 1 ELSE 0
  BY <1>6, <1>8
<1>10. QED
  BY <1>2, <1>5, <1>6, <1>9

(* A root that the caller keeps, or that goes with all below it. *)
Gone(t, v, keep) == IF keep THEN {} ELSE Reach(t, v)
Roots(h, v, keep) == IF keep THEN h ELSE h \ {v}

LEMMA MayDrop ==
  ASSUME NEW t, NEW h, Forest(t, h), NEW v \in h, NEW keep \in BOOLEAN,
         NEW u, u = Release(t, Gone(t, v, keep))
  PROVE  Forest(u, Roots(h, v, keep))
<1>1. CASE keep
  <2>1. u = t
    BY <1>1 DEF Forest, Release, Gone
  <2>2. QED
    BY <1>1, <2>1 DEF Roots
<1>2. CASE ~ keep
  <2>1. u = Release(t, Reach(t, v))
    BY <1>2 DEF Gone
  <2>2. Forest(u, h \ {v})
    BY ONLY Forest(t, h), v \in h, <2>1, ForestDrop
  <2>3. QED
    BY <1>2, <2>2 DEF Roots
<1>3. QED
  BY <1>1, <1>2

-----------------------------------------------------------------------------
(* Every call keeps the invariant.                                         *)

LEMMA InitInv == Init => IInv
<1> SUFFICES ASSUME Init
             PROVE  IInv
  OBVIOUS
<1>1. DOMAIN json = {} /\ json \in [DOMAIN json -> JsonRec] /\ held = {}
  BY DEF Init
<1>2. Forest(json, held)
  BY <1>1 DEF Forest, Down, Up
<1>3. Strings(json, Live) = 0
  <2>1. Slots(json, {n \in Live : json[n].type = "object"}) = {}
    BY <1>1, SlotsIs DEF Live
  <2>2. QED
    BY <2>1, FS_EmptySet DEF Strings
<1>4. Counting /\ Answered
  BY <1>3 DEF Init, Counting, Answered, Answer
<1>5. QED
  BY <1>2, <1>4 DEF IInv

LEMMA Kept ==
  ASSUME Forest(json', held'), strings' = Strings(json', DOMAIN json') + refused',
         refused' \in 0 .. MaxRefused, ret'.ok \in BOOLEAN, ret'.out \in Node \cup {NONE}
  PROVE  IInv'
BY DEF IInv, Counting, Answered, Live

(* What holds before every call.                                           *)
LEMMA Before ==
  ASSUME IInv
  PROVE  /\ Forest(json, held) /\ held \subseteq Node /\ held \subseteq Live
         /\ strings = Strings(json, DOMAIN json) + refused
         /\ refused \in 0 .. MaxRefused /\ refused \in Nat /\ Strings(json, DOMAIN json) \in Nat
         /\ ret.ok \in BOOLEAN /\ ret.out \in Node \cup {NONE}
<1>1. Forest(json, held) /\ held \subseteq Node /\ held \subseteq Live
  BY DEF IInv, Forest, Live
<1>2. Strings(json, DOMAIN json) \in Nat
  BY <1>1, ForestFacts, StringsType
<1>3. QED
  BY <1>1, <1>2 DEF IInv, Counting, Answered, Live

LEMMA FailKeeps ==
  ASSUME IInv, NEW c, Fail(c)
  PROVE  IInv'
<1>1. ret'.ok = FALSE /\ ret'.out = NONE
  BY DEF Fail, Answer
<1>2. QED
  BY <1>1, Before, Kept DEF Fail

LEMMA StutterKeeps ==
  ASSUME IInv, UNCHANGED vars
  PROVE  IInv'
BY Before, Kept DEF vars

LEMMA MakeKeeps ==
  ASSUME IInv, NEW c, NEW j \in JsonRec, j.items = <<>>, Make(c, j)
  PROVE  IInv'
<1>1. PICK n \in Node \ Live :
        /\ json' = [m \in Live \cup {n} |-> IF m = n THEN j ELSE json[m]]
        /\ held' = held \cup {n}
        /\ ret' = Answer(c, TRUE, n)
        /\ UNCHANGED <<strings, refused>>
  BY DEF Make, Done
<1>2. /\ Forest(json', held') /\ Strings(json', DOMAIN json') = Strings(json, DOMAIN json)
  <2>1. Forest(json, held) /\ n \in Node \ DOMAIN json
    BY Before DEF Live
  <2>2. json' = Plus(json, n, j)
    BY <1>1 DEF Live, Plus
  <2>3. QED
    BY ONLY <1>1, <2>1, <2>2, j \in JsonRec, j.items = <<>>, ForestMake
<1>3. ret'.ok = TRUE /\ ret'.out = n
  BY <1>1 DEF Answer
<1>4. QED
  BY <1>1, <1>2, <1>3, Before, Kept

LEMMA NewKeeps ==
  ASSUME IInv
  PROVE  /\ NewError => IInv'
         /\ \A t \in Container : NewContainer(t) => IInv'
         /\ \A t \in Scalar, x \in Atom \cup {NONE} : NewScalar(t, x) => IInv'
<1>0. <<>> \in Seq(ItemRec)
  BY EmptySeq
<1>1. ASSUME NewError
      PROVE  IInv'
  <2>1. Json("error", NONE, <<>>) \in JsonRec /\ Json("error", NONE, <<>>).items = <<>>
    BY <1>0 DEF Json, JsonRec
  <2>2. QED
    BY <1>1, <2>1, MakeKeeps DEF NewError
<1>2. ASSUME NEW t \in Container, NewContainer(t)
      PROVE  IInv'
  <2>1. Json(t, NONE, <<>>) \in JsonRec /\ Json(t, NONE, <<>>).items = <<>>
    BY <1>0 DEF Json, JsonRec
  <2>2. QED
    BY <1>2, <2>1, MakeKeeps DEF NewContainer
<1>3. ASSUME NEW t \in Scalar, NEW x \in Atom \cup {NONE}, NewScalar(t, x)
      PROVE  IInv'
  <2>1. Json(t, x, <<>>) \in JsonRec /\ Json(t, x, <<>>).items = <<>>
    BY <1>0 DEF Json, JsonRec
  <2>2. QED
    BY <1>3, <2>1, MakeKeeps DEF NewScalar
<1>4. QED
  BY <1>1, <1>2, <1>3

LEMMA FreeKeeps ==
  ASSUME IInv, NEW n, Free(n)
  PROVE  IInv'
<1>1. Forest(json, held) /\ n \in held /\ n \in DOMAIN json
  BY Before DEF Free, Live
<1>2. Below(json, n) = Reach(json, n)
  BY <1>1, ForestFacts
<1>3. json' = Release(json, Reach(json, n)) /\ held' = held \ {n}
  BY <1>2 DEF Free
<1>4. /\ Forest(json', held')
      /\ Strings(json', DOMAIN json')
           = Strings(json, DOMAIN json) - Strings(json, Reach(json, n))
  BY ONLY <1>1, <1>3, ForestDrop
<1>5. Strings(json, Reach(json, n)) \in Nat
  <2>1. Reach(json, n) \subseteq DOMAIN json
    BY DEF Reach
  <2>2. QED
    BY <1>1, <2>1, ForestFacts, FS_Subset, StringsType
<1>6. /\ strings' = Strings(json', DOMAIN json') + refused' /\ refused' = refused
      /\ ret'.ok = TRUE /\ ret'.out = NONE
  BY <1>2, <1>4, <1>5, Before DEF Free, Done, Answer
<1>7. QED
  BY <1>4, <1>6, Before, Kept

LEMMA RefuseKeeps ==
  ASSUME IInv, Refuse
  PROVE  IInv'
<1>1. /\ json' = json /\ held' = held /\ strings' = strings + 1
      /\ refused' = refused + 1 /\ refused < MaxRefused
      /\ ret'.ok = FALSE /\ ret'.out = NONE
  BY DEF Refuse, Answer
<1>2. /\ Forest(json', held') /\ Strings(json', DOMAIN json') = Strings(json, DOMAIN json)
      /\ strings = Strings(json, DOMAIN json) + refused
      /\ Strings(json, DOMAIN json) \in Nat /\ refused \in Nat
  BY <1>1, Before
<1>3. refused' \in 0 .. MaxRefused /\ strings' = Strings(json', DOMAIN json') + refused'
  BY <1>1, <1>2
<1>4. QED
  BY <1>1, <1>2, <1>3, Kept

LEMMA SetKeeps ==
  ASSUME IInv, NEW t \in Scalar, NEW n, NEW x \in Atom, Set(t, n, x)
  PROVE  IInv'
<1>1. CASE Type(n) # t
  BY <1>1, FailKeeps DEF Set
<1>2. CASE Type(n) = t
  <2>1. /\ n \in Live /\ json' = [json EXCEPT ![n].val = x] /\ ret' = Answer(<<"set">>, TRUE, NONE)
        /\ held' = held /\ strings' = strings /\ refused' = refused
    BY <1>2 DEF Set, Done
  <2>2. Forest(json, held) /\ json \in [DOMAIN json -> JsonRec]
    BY Before DEF Forest
  <2>3. /\ DOMAIN json' = DOMAIN json /\ json' \in [DOMAIN json -> JsonRec]
        /\ \A m \in DOMAIN json : json'[m].items = json[m].items /\ json'[m].type = json[m].type
    BY <2>1, <2>2 DEF Live, JsonRec
  <2>4. \A m \in DOMAIN json : Children(json', m) = Children(json, m)
    BY <2>3 DEF Children
  <2>5. Down(json') /\ Up(json')
    BY <2>2, <2>3, <2>4, FewerLinks DEF Forest
  <2>6. \A m \in DOMAIN json' : Formed(json'[m])
    <3>1. \A m \in DOMAIN json : Formed(json[m])
      BY <2>2 DEF Forest
    <3>2. QED
      BY <2>3, <3>1 DEF Formed
  <2>7. Forest(json', held')
    <3>1. DOMAIN json' \subseteq Node /\ json' \in [DOMAIN json' -> JsonRec] /\ held' \subseteq DOMAIN json'
      BY <2>1, <2>2, <2>3 DEF Forest
    <3>2. /\ \A m \in DOMAIN json' : json'[m].type = "error" => m \in held'
          /\ \A m \in DOMAIN json' : Children(json', m) \subseteq DOMAIN json' \ held'
          /\ \A m \in DOMAIN json' \ held' : \E y \in DOMAIN json' : m \in Children(json', y)
      BY <2>1, <2>2, <2>3, <2>4 DEF Forest
    <3>3. \A m1, m2 \in DOMAIN json' : \A a \in DOMAIN json'[m1].items, b \in DOMAIN json'[m2].items :
            json'[m1].items[a].v = json'[m2].items[b].v => m1 = m2 /\ a = b
      BY <2>2, <2>3 DEF Forest
    <3>4. QED
      BY <2>5, <2>6, <3>1, <3>2, <3>3 DEF Forest
  <2>8. Strings(json', DOMAIN json') = Strings(json, DOMAIN json)
    BY <2>3, StringsSame
  <2>9. ret'.ok = TRUE /\ ret'.out = NONE
    BY <2>1 DEF Answer
  <2>10. QED
    BY <2>1, <2>7, <2>8, <2>9, Before, Kept
<1>3. QED
  BY <1>1, <1>2

(* What the caller may give away. *)
LEMMA GivesIs ==
  ASSUME IInv, NEW v, NEW j, Gives(v, j)
  PROVE  /\ v \in held /\ v \in DOMAIN json /\ v \in Node /\ j \in DOMAIN json
         /\ j \notin Reach(json, v)
<1>1. v \in held /\ v \in DOMAIN json /\ v \in Node /\ j \in DOMAIN json
  BY Before DEF Gives, Live
<1>2. Below(json, v) = Reach(json, v)
  BY <1>1, Before, ForestFacts
<1>3. QED
  BY <1>1, <1>2 DEF Gives

LEMMA AddKvKeeps ==
  ASSUME IInv, NEW j, NEW k \in Key, NEW v, AddKv(j, k, v)
  PROVE  IInv'
<1>1. CASE Type(j) # "object" \/ Type(v) = "error"
  BY <1>1, FailKeeps DEF AddKv
<1>2. CASE ~ (Type(j) # "object" \/ Type(v) = "error") /\ k \in KeysOf(j)
  BY <1>2, RefuseKeeps DEF AddKv
<1>3. CASE ~ (Type(j) # "object" \/ Type(v) = "error") /\ k \notin KeysOf(j)
  <2>1. /\ json' = [json EXCEPT ![j].items = Append(@, Item(k, v))]
        /\ held' = held \ {v} /\ strings' = strings + 1 /\ refused' = refused
        /\ ret' = Answer(<<"add">>, TRUE, NONE) /\ Gives(v, j)
        /\ json[j].type = "object" /\ json[v].type # "error"
    BY <1>3 DEF AddKv, Done, Type
  <2>2. /\ v \in held /\ v \in DOMAIN json /\ v \in Node /\ j \in DOMAIN json
        /\ j \notin Reach(json, v)
    BY <2>1, GivesIs
  <2> DEFINE s == json[j].items
  <2>3. Forest(json, held) /\ s \in Seq(ItemRec) /\ Len(s) \in Nat /\ DOMAIN s = 1 .. Len(s)
    BY <2>2, Before, ForestFacts, LenProperties
  <2>4. Item(k, v) \in ItemRec /\ Item(k, v).k = k /\ Item(k, v).v = v
    BY <2>2 DEF Item, ItemRec
  <2>5. PICK s2 \in Seq(ItemRec) : s2 = Append(s, Item(k, v))
    BY <2>3, <2>4, AppendMore
  <2>6. /\ Len(s2) = Len(s) + 1 /\ s2[Len(s) + 1] = Item(k, v)
        /\ \E o : OneMore(s2, s, Len(s) + 1, o)
    BY <2>3, <2>4, <2>5, AppendMore
  <2>7. /\ s2[Len(s) + 1].v = v
        /\ json[j].type = "object" /\ \A a \in DOMAIN s : s[a].k # s2[Len(s) + 1].k
    BY <1>3, <2>1, <2>4, <2>6 DEF KeysOf
  <2>8. json' = Put(json, j, s2)
    BY <2>1, <2>5 DEF Put
  <2>9. /\ Forest(json', held \ {v})
        /\ Strings(json', DOMAIN json') = Strings(json, DOMAIN json) + 1
    <3>1. Forest(json, held) /\ v \in held /\ json[v].type # "error"
          /\ j \in DOMAIN json /\ j \notin Reach(json, v)
      BY <2>1, <2>2, <2>3
    <3>2. Joins(json, held, j, s2, Len(s) + 1, v)
      BY <2>5, <2>6, <2>7, <3>1 DEF Joins
    <3>3. QED
      BY ONLY <3>1, <3>2, <2>7, <2>8, Attached
  <2>10. ret'.ok = TRUE /\ ret'.out = NONE
    BY <2>1 DEF Answer
  <2>11. Forest(json', held') /\ strings' = Strings(json', DOMAIN json') + refused'
    BY <2>1, <2>9, Before
  <2>12. QED
    BY <2>1, <2>10, <2>11, Before, Kept
<1>4. QED
  BY <1>1, <1>2, <1>3

LEMMA InsertKeeps ==
  ASSUME IInv, NEW l, NEW v, NEW i \in Nat, Insert(l, i, v)
  PROVE  IInv'
<1> DEFINE s == json[l].items
<1>1. CASE Type(l) # "list" \/ Type(v) = "error" \/ i > Len(s)
  BY <1>1, FailKeeps DEF Insert
<1>2. CASE ~ (Type(l) # "list" \/ Type(v) = "error" \/ i > Len(s))
  <2>1. /\ json' = [json EXCEPT ![l].items = InsertAt(@, i + 1, Item(NONE, v))]
        /\ held' = held \ {v} /\ strings' = strings /\ refused' = refused
        /\ ret' = Answer(<<"add">>, TRUE, NONE) /\ Gives(v, l)
        /\ json[l].type = "list" /\ json[v].type # "error"
    BY <1>2 DEF Insert, Done, Type
  <2>2. /\ v \in held /\ v \in DOMAIN json /\ v \in Node /\ l \in DOMAIN json
        /\ l \notin Reach(json, v)
    BY <2>1, GivesIs
  <2>3. Forest(json, held) /\ s \in Seq(ItemRec) /\ Len(s) \in Nat /\ DOMAIN s = 1 .. Len(s)
    BY <2>2, Before, ForestFacts, LenProperties
  <2>4. Item(NONE, v) \in ItemRec /\ Item(NONE, v).k = NONE /\ Item(NONE, v).v = v
    BY <2>2 DEF Item, ItemRec
  <2>5. i + 1 \in 1 .. Len(s) + 1
    BY <1>2, <2>3
  <2>6. PICK s2 \in Seq(ItemRec) : s2 = InsertAt(s, i + 1, Item(NONE, v))
    BY <2>3, <2>4, <2>5, InsertMore
  <2>7. /\ Len(s2) = Len(s) + 1 /\ s2[i + 1] = Item(NONE, v)
        /\ \E o : OneMore(s2, s, i + 1, o)
    BY <2>3, <2>4, <2>5, <2>6, InsertMore
  <2>8. s2[i + 1].v = v /\ json[l].type = "list" /\ s2[i + 1].k = NONE
    BY <2>1, <2>4, <2>7
  <2>9. json' = Put(json, l, s2)
    BY <2>1, <2>6 DEF Put
  <2>10. /\ Forest(json', held \ {v})
         /\ Strings(json', DOMAIN json') = Strings(json, DOMAIN json)
    <3>1. Forest(json, held) /\ v \in held /\ json[v].type # "error"
          /\ l \in DOMAIN json /\ l \notin Reach(json, v)
      BY <2>1, <2>2, <2>3
    <3>2. Joins(json, held, l, s2, i + 1, v)
      BY <2>6, <2>7, <2>8, <3>1 DEF Joins
    <3>3. QED
      BY ONLY <3>1, <3>2, <2>8, <2>9, Attached
  <2>11. ret'.ok = TRUE /\ ret'.out = NONE
    BY <2>1 DEF Answer
  <2>12. Forest(json', held') /\ strings' = Strings(json', DOMAIN json') + refused'
    BY <2>1, <2>8, <2>10, Before
  <2>13. QED
    BY <2>1, <2>11, <2>12, Before, Kept
<1>3. QED
  BY <1>1, <1>2

LEMMA AddKeeps ==
  ASSUME IInv, NEW l, NEW v, Add(l, v)
  PROVE  IInv'
<1>1. l \in DOMAIN json
  BY DEF Add, Live
<1>2. Len(json[l].items) \in Nat
  BY <1>1, Before, ForestFacts, LenProperties
<1>3. Insert(l, Len(json[l].items), v)
  BY DEF Add
<1>4. QED
  BY <1>2, <1>3, InsertKeeps

LEMMA AddKvNewKeeps ==
  ASSUME IInv, NEW j, NEW k \in Key, NEW t \in Scalar, NEW x \in Atom, AddKvNew(j, k, t, x)
  PROVE  IInv'
<1>1. CASE Type(j) # "object"
  BY <1>1, FailKeeps DEF AddKvNew
<1>2. CASE Type(j) = "object" /\ k \in KeysOf(j)
  BY <1>2, RefuseKeeps DEF AddKvNew
<1>3. CASE Type(j) = "object" /\ k \notin KeysOf(j)
  <2> DEFINE s == json[j].items
             leaf == Json(t, x, <<>>)
  <2>1. PICK n \in Node \ Live :
          /\ json' = [m \in Live \cup {n} |->
                        IF m = n THEN leaf
                        ELSE IF m = j THEN [json[j] EXCEPT !.items = Append(@, Item(k, n))]
                        ELSE json[m]]
          /\ held' = held /\ strings' = strings + 1 /\ refused' = refused
          /\ ret' = Answer(<<"add">>, TRUE, NONE)
    BY <1>3 DEF AddKvNew, Done
  <2>2. /\ j \in DOMAIN json /\ n \in Node \ DOMAIN json /\ json[j].type = "object" /\ j # n
        /\ Forest(json, held) /\ held \subseteq DOMAIN json
    BY <1>3, <2>1, Before DEF AddKvNew, Live, Type
  <2>3. s \in Seq(ItemRec) /\ Len(s) \in Nat /\ DOMAIN s = 1 .. Len(s)
    BY <2>2, ForestFacts, LenProperties
  <2>4. leaf \in JsonRec /\ leaf.items = <<>> /\ leaf.type = t /\ t # "error"
    <3>1. <<>> \in Seq(ItemRec)
      BY EmptySeq
    <3>2. QED
      BY <3>1 DEF Json, JsonRec
  <2>5. PICK u : u = Plus(json, n, leaf)
    OBVIOUS
  <2>6. Forest(u, held \cup {n}) /\ Strings(u, DOMAIN u) = Strings(json, DOMAIN json)
    <3> HIDE DEF leaf
    <3>1. QED
      BY ONLY <2>2, <2>4, <2>5, ForestMake
  <2>7. /\ DOMAIN u = DOMAIN json \cup {n} /\ u[n] = leaf /\ u[j] = json[j]
        /\ \A m \in DOMAIN json : u[m] = json[m]
    BY <2>2, <2>5 DEF Plus
  <2>8. j \notin Reach(u, n)
    <3>1. Children(u, n) = {}
      BY <2>4, <2>7 DEF Children
    <3>2. Closed(u, {n}) /\ {n} \in SUBSET DOMAIN u
      BY <2>7, <3>1 DEF Closed
    <3>3. Reach(u, n) \subseteq {n}
      BY <3>2, ReachLeast
    <3>4. QED
      BY <2>2, <3>3
  <2>9. Item(k, n) \in ItemRec /\ Item(k, n).k = k /\ Item(k, n).v = n
    BY <2>2 DEF Item, ItemRec
  <2>10. PICK s2 \in Seq(ItemRec) : s2 = Append(s, Item(k, n))
    BY <2>3, <2>9, AppendMore
  <2>11. /\ Len(s2) = Len(s) + 1 /\ s2[Len(s) + 1] = Item(k, n)
         /\ \E o : OneMore(s2, s, Len(s) + 1, o)
    BY <2>3, <2>9, <2>10, AppendMore
  <2>12. Joins(u, held \cup {n}, j, s2, Len(s) + 1, n)
    <3>1. \A a \in DOMAIN s : s[a].k # k
      BY <1>3 DEF KeysOf
    <3>2. QED
      BY <2>2, <2>4, <2>7, <2>8, <2>9, <2>10, <2>11, <3>1 DEF Joins
  <2>13. json' = Put(u, j, s2)
    <3>1. Put(u, j, s2) = [m \in DOMAIN json \cup {n} |->
                             IF m = n THEN leaf
                             ELSE IF m = j THEN [json[j] EXCEPT !.items = s2]
                             ELSE json[m]]
      BY <2>2, <2>5, <2>7 DEF Put, Plus
    <3>2. QED
      BY <2>1, <2>10, <3>1 DEF Live
  <2>14. /\ Forest(json', (held \cup {n}) \ {n})
         /\ Strings(json', DOMAIN json') = Strings(u, DOMAIN u) + 1
    <3>1. u[j].type = "object"
      BY <2>2, <2>7
    <3>2. QED
      BY ONLY <2>6, <2>12, <2>13, <3>1, Attached
  <2>15. (held \cup {n}) \ {n} = held'
    BY <2>1, <2>2
  <2>16. ret'.ok = TRUE /\ ret'.out = NONE
    BY <2>1 DEF Answer
  <2>17. Forest(json', held') /\ strings' = Strings(json', DOMAIN json') + refused'
    <3>1. /\ strings = Strings(json, DOMAIN json) + refused /\ refused \in Nat
          /\ Strings(json, DOMAIN json) \in Nat
      BY Before
    <3>2. strings' = Strings(json', DOMAIN json') + refused'
      BY ONLY <3>1, <2>1, <2>6, <2>14
    <3>3. QED
      BY <2>14, <2>15, <3>2
  <2>18. QED
    BY <2>1, <2>16, <2>17, Before, Kept
<1>4. QED
  BY <1>1, <1>2, <1>3

(* An item leaves its container. *)
LEMMA TakeOutKeeps ==
  ASSUME IInv, NEW j \in DOMAIN json, NEW i \in DOMAIN json[j].items, NEW keep \in BOOLEAN,
         TakeOut(j, i, keep), Done(<<"remove">>, NONE), refused' = refused
  PROVE  IInv'
<1>1. Forest(json, held) /\ held \subseteq DOMAIN json
  BY Before DEF Live
<1>2. PICK v : v = json[j].items[i].v
  OBVIOUS
<1>3. PICK t : t = Put(json, j, RemoveAt(json[j].items, i))
  OBVIOUS
<1>4. /\ Forest(t, held \cup {v}) /\ DOMAIN t = DOMAIN json /\ v \in DOMAIN json \ held
      /\ t[j].type = json[j].type /\ \A m \in DOMAIN json \ {j} : t[m] = json[m]
      /\ Reach(t, v) = Reach(json, v) /\ j \notin Reach(json, v)
      /\ Strings(t, DOMAIN t)
           = Strings(json, DOMAIN json) - IF json[j].type = "object" THEN 1 ELSE 0
  BY <1>1, <1>2, <1>3, Detached
<1>5. Below(json, v) = Reach(json, v)
  BY <1>1, <1>4, ForestFacts
<1>6. PICK ns : ns = Gone(t, v, keep)
  OBVIOUS
<1>7. ns = Dropped(v, keep)
  BY <1>4, <1>5, <1>6 DEF Dropped, Gone
<1>8. /\ json' = Release(t, ns) /\ held' = held \cup IF keep THEN {v} ELSE {}
      /\ strings' = strings - (IF json[j].type = "object" THEN 1 ELSE 0) - Strings(json, ns)
  BY <1>2, <1>3, <1>7 DEF TakeOut, Put, Type
<1>9. /\ Forest(json', Roots(held \cup {v}, v, keep))
      /\ Strings(json', DOMAIN json') = Strings(t, DOMAIN t) - Strings(t, ns)
  <2>1. v \in held \cup {v}
    OBVIOUS
  <2>2. QED
    <3>1. Forest(t, held \cup {v}) /\ json' = Release(t, ns)
      BY <1>4, <1>8
    <3>2. Forest(json', Roots(held \cup {v}, v, keep))
      BY ONLY keep \in BOOLEAN, <1>6, <2>1, <3>1, MayDrop
    <3>3. Strings(json', DOMAIN json') = Strings(t, DOMAIN t) - Strings(t, ns)
      <4>1. ns \in SUBSET DOMAIN t
        BY <1>6 DEF Gone, Reach
      <4>2. QED
        BY <1>4, <3>1, <4>1, ForestFacts, DropStrings
    <3>4. QED
      BY <3>2, <3>3
<1>10. held' = Roots(held \cup {v}, v, keep)
  BY <1>4, <1>8 DEF Roots
<1>11. Strings(t, ns) = Strings(json, ns) /\ Strings(json, ns) \in Nat
  <2>1. ns \subseteq DOMAIN json \ {j}
    BY <1>4, <1>6 DEF Reach, Gone
  <2>2. Strings(t, ns) = Strings(json, ns)
    BY <1>4, <2>1, StringsSame
  <2>3. IsFiniteSet(ns) /\ \A m \in ns : json[m].items \in Seq(ItemRec)
    BY <1>1, <2>1, ForestFacts, FS_Subset
  <2>4. QED
    BY <2>2, <2>3, StringsType
<1>12. strings' = Strings(json', DOMAIN json') + refused'
  BY <1>4, <1>8, <1>9, <1>11, Before
<1>13. ret'.ok = TRUE /\ ret'.out = NONE
  BY DEF Done, Answer
<1>14. QED
  BY <1>9, <1>10, <1>12, <1>13, Before, Kept

LEMMA RemoveKeyKeeps ==
  ASSUME IInv, NEW j, NEW k, NEW keep \in BOOLEAN, RemoveKey(j, k, keep)
  PROVE  IInv'
<1>1. CASE Type(j) # "object" \/ k \notin KeysOf(j)
  BY <1>1, FailKeeps DEF RemoveKey
<1>2. CASE ~ (Type(j) # "object" \/ k \notin KeysOf(j))
  <2>1. IndexOf(j, k) \in DOMAIN json[j].items
    BY <1>2 DEF KeysOf, IndexOf
  <2>2. /\ j \in DOMAIN json /\ TakeOut(j, IndexOf(j, k), keep)
        /\ Done(<<"remove">>, NONE) /\ refused' = refused
    BY <1>2 DEF RemoveKey, Live
  <2>3. QED
    BY <2>1, <2>2, TakeOutKeeps
<1>3. QED
  BY <1>1, <1>2

LEMMA RemoveItemKeeps ==
  ASSUME IInv, NEW l, NEW i \in Nat, NEW keep \in BOOLEAN, RemoveItem(l, i, keep)
  PROVE  IInv'
<1>1. CASE Type(l) # "list" \/ i >= Len(json[l].items)
  BY <1>1, FailKeeps DEF RemoveItem
<1>2. CASE ~ (Type(l) # "list" \/ i >= Len(json[l].items))
  <2>1. /\ l \in DOMAIN json /\ TakeOut(l, i + 1, keep)
        /\ Done(<<"remove">>, NONE) /\ refused' = refused
    BY <1>2 DEF RemoveItem, Live
  <2>2. /\ DOMAIN json[l].items = 1 .. Len(json[l].items) /\ Len(json[l].items) \in Nat
    BY <2>1, Before, ForestFacts, LenProperties
  <2>3. i + 1 \in DOMAIN json[l].items
    BY <1>2, <2>2
  <2>4. QED
    BY <2>1, <2>3, TakeOutKeeps
<1>3. QED
  BY <1>1, <1>2

(* The items of an object without the one under k: the others. *)
LEMMA OthersThan ==
  ASSUME NEW s2 \in Seq(ItemRec), NEW i \in DOMAIN s2, NEW k, s2[i].k = k,
         \A a, b \in DOMAIN s2 : s2[a].k = s2[b].k => a = b,
         NEW s, s = RemoveAt(s2, i)
  PROVE  /\ s \in Seq(ItemRec) /\ Len(s2) = Len(s) + 1
         /\ \A a \in DOMAIN s : s[a].k # k
         /\ Range(s) = Range(s2) \ {Item(k, s2[i].v)}
         /\ s2[i] = Item(k, s2[i].v)
<1>1. i \in 1 .. Len(s2) /\ Len(s2) \in Nat /\ DOMAIN s2 = 1 .. Len(s2)
  BY LenProperties
<1>2. s \in Seq(ItemRec) /\ Len(s2) = Len(s) + 1
  BY <1>1, RemoveLess
<1>3. PICK o : OneMore(s2, s, i, o)
  BY <1>1, RemoveLess
<1>4. \A a \in DOMAIN s : \E b \in DOMAIN s2 \ {i} : s[a] = s2[b]
  BY <1>3 DEF OneMore
<1>5. \A b \in DOMAIN s2 \ {i} : \E a \in DOMAIN s : s[a] = s2[b]
  BY <1>3 DEF OneMore
<1>6. s2[i] = Item(k, s2[i].v)
  <2>1. s2[i] \in ItemRec
    BY <1>1, ElementOfSeq
  <2>2. QED
    BY <2>1 DEF ItemRec, Item
<1>7. \A b \in DOMAIN s2 \ {i} : s2[b].k # k /\ s2[b] # s2[i]
  OBVIOUS
<1>8. \A a \in DOMAIN s : s[a].k # k
  BY <1>4, <1>7
<1>9. Range(s) = Range(s2) \ {s2[i]}
  BY <1>4, <1>5, <1>7 DEF Range
<1>10. QED
  BY <1>2, <1>6, <1>8, <1>9

(* What has become of the value old under k, and of r. *)
Swapped(c, j, k, r, keep, old) ==
  /\ Len(json'[j].items) = Len(json[j].items)
  /\ Range(json'[j].items) = (Range(json[j].items) \ {Item(k, old)}) \cup {Item(k, r)}
  /\ r \notin held' /\ ret' = Answer(c, TRUE, IF keep THEN old ELSE NONE)
  /\ IF ret'.out = NONE THEN old \notin DOMAIN json' ELSE old \in held'

LEMMA SwapDoes ==
  ASSUME IInv, NEW c, NEW j, NEW k \in Key, NEW r, NEW keep \in BOOLEAN,
         Gives(r, j), Type(r) # "error", Type(j) = "object", k \in KeysOf(j),
         Swap(c, j, k, r, keep),
         NEW old, old = json[j].items[IndexOf(j, k)].v
  PROVE  IInv' /\ Swapped(c, j, k, r, keep, old)
<1> DEFINE items == json[j].items
<1>1. /\ Forest(json, held) /\ held \subseteq DOMAIN json
      /\ r \in held /\ r \in Node /\ j \in DOMAIN json /\ j \notin Reach(json, r)
      /\ json[j].type = "object" /\ json[r].type # "error"
  BY GivesIs, Before DEF Live, Type
<1>2. PICK i \in DOMAIN items : i = IndexOf(j, k) /\ items[i].k = k
  BY DEF KeysOf, IndexOf
<1>3. /\ items \in Seq(ItemRec) /\ \A a, b \in DOMAIN items : items[a].k = items[b].k => a = b
  <2>1. Formed(json[j])
    BY <1>1 DEF Forest
  <2>2. QED
    BY <1>1, <2>1, ForestFacts DEF Formed
<1>4. PICK s : s = RemoveAt(items, i)
  OBVIOUS
<1>5. /\ s \in Seq(ItemRec) /\ Len(items) = Len(s) + 1 /\ \A a \in DOMAIN s : s[a].k # k
      /\ Range(s) = Range(items) \ {Item(k, old)}
  <2>1. old = items[i].v
    BY <1>2
  <2>2. /\ s \in Seq(ItemRec) /\ Len(items) = Len(s) + 1 /\ \A a \in DOMAIN s : s[a].k # k
        /\ Range(s) = Range(items) \ {Item(k, items[i].v)}
    BY ONLY k \in Key, <1>2, <1>3, <1>4, OthersThan
  <2>3. QED
    BY <2>1, <2>2
<1>6. PICK t : t = Put(json, j, s)
  OBVIOUS
<1>7. /\ Forest(t, held \cup {old}) /\ DOMAIN t = DOMAIN json /\ old \in DOMAIN json \ held
      /\ t[j].type = "object" /\ t[j].items = s /\ \A m \in DOMAIN json \ {j} : t[m] = json[m]
      /\ Reach(t, old) = Reach(json, old) /\ j \notin Reach(json, old) /\ j # old
      /\ Strings(t, DOMAIN t) = Strings(json, DOMAIN json) - 1
  <2>1. old = json[j].items[i].v /\ t = Put(json, j, RemoveAt(json[j].items, i))
    BY <1>2, <1>4, <1>6
  <2>2. Forest(json, held) /\ j \in DOMAIN json /\ i \in DOMAIN json[j].items
    BY <1>1
  <2>3. /\ Forest(t, held \cup {old}) /\ DOMAIN t = DOMAIN json
        /\ t[j].type = json[j].type /\ t[j].items = RemoveAt(json[j].items, i)
        /\ \A m \in DOMAIN json \ {j} : t[m] = json[m]
        /\ old \in DOMAIN json \ held /\ j # old
        /\ Reach(t, old) = Reach(json, old) /\ j \notin Reach(json, old)
    BY ONLY <2>1, <2>2, Detached
  <2>4. Strings(t, DOMAIN t) = Strings(json, DOMAIN json) - 1
    <3>1. Longer(t, json, j)
      BY <1>1, <1>3, <1>4, <1>5, <2>3, ForestFacts DEF Longer
    <3>2. QED
      BY <3>1, LongerStrings
  <2>5. QED
    BY <1>1, <1>4, <2>3, <2>4
<1>8. Within(json) /\ Within(t)
  BY <1>1, <1>7, ForestFacts
<1>9. Reach(t, r) = Reach(json, r)
  <2>1. \A m \in Reach(json, r) : m \in DOMAIN t /\ Children(t, m) = Children(json, m)
    <3>1. Reach(json, r) \subseteq DOMAIN json
      BY DEF Reach
    <3>2. QED
      BY <1>1, <1>7, <3>1 DEF Children
  <2>2. QED
    BY <1>1, <1>8, <2>1, ReachAlike
<1>10. Item(k, r) \in ItemRec /\ Item(k, r).k = k /\ Item(k, r).v = r
  BY <1>1 DEF Item, ItemRec
<1>11. PICK s2 \in Seq(ItemRec) : s2 = Append(s, Item(k, r))
  BY <1>5, <1>10, AppendMore
<1>12. /\ Len(s2) = Len(s) + 1 /\ s2[Len(s) + 1] = Item(k, r)
       /\ \E o : OneMore(s2, s, Len(s) + 1, o)
  BY <1>5, <1>10, <1>11, AppendMore
<1>13. Joins(t, held \cup {old}, j, s2, Len(s) + 1, r)
  BY <1>1, <1>5, <1>7, <1>9, <1>10, <1>12 DEF Joins
<1>14. PICK u : u = Put(t, j, s2)
  OBVIOUS
<1>15. /\ Forest(u, (held \cup {old}) \ {r}) /\ DOMAIN u = DOMAIN json /\ u[j].items = s2
       /\ \A m \in DOMAIN json \ {j} : u[m] = json[m]
       /\ Strings(u, DOMAIN u) = Strings(t, DOMAIN t) + 1
  <2>1. Forest(t, held \cup {old})
    BY <1>7
  <2>2. Forest(u, (held \cup {old}) \ {r})
    BY ONLY <2>1, <1>13, <1>14, Attached
  <2>3. /\ DOMAIN u = DOMAIN t /\ u[j].items = s2 /\ u[j].type = "object"
        /\ \A m \in DOMAIN t \ {j} : u[m] = t[m]
    BY <1>1, <1>7, <1>14, PutIs
  <2>4. Strings(u, DOMAIN u) = Strings(t, DOMAIN t) + 1
    <3>1. Longer(t, u, j)
      BY <1>1, <1>7, <1>12, <2>3, ForestFacts DEF Longer
    <3>2. QED
      BY <3>1, LongerStrings
  <2>5. QED
    BY <1>7, <2>2, <2>3, <2>4
<1>16. Reach(u, old) = Reach(json, old)
  <2>1. Within(u)
    BY <1>15, ForestFacts
  <2>2. \A m \in Reach(json, old) : m \in DOMAIN u /\ Children(u, m) = Children(json, m)
    <3>1. Reach(json, old) \subseteq DOMAIN json
      BY DEF Reach
    <3>2. QED
      BY <1>7, <1>15, <3>1 DEF Children
  <2>3. QED
    BY <1>7, <1>8, <2>1, <2>2, ReachAlike
<1>17. PICK ns : ns = Gone(u, old, keep)
  OBVIOUS
<1>18. ns = Dropped(old, keep) /\ ns \subseteq DOMAIN json \ {j}
  <2>1. Below(json, old) = Reach(json, old)
    BY <1>1, <1>7, ForestFacts
  <2>2. QED
    BY <1>7, <1>16, <1>17, <2>1 DEF Dropped, Gone, Reach
<1>19. /\ json' = Release(u, ns) /\ held' = (held \ {r}) \cup IF keep THEN {old} ELSE {}
       /\ strings' = strings - Strings(json, ns) /\ refused' = refused
       /\ ret' = Answer(c, TRUE, IF keep THEN old ELSE NONE)
  <2>1. u = [json EXCEPT ![j].items = Append(RemoveAt(@, i), Item(k, r))]
    <3>1. Put(t, j, s2) = Put(json, j, s2)
      <4>1. json \in [DOMAIN json -> JsonRec] /\ json[j] \in JsonRec
        BY <1>1, ForestFacts DEF Forest
      <4>2. [[json[j] EXCEPT !.items = s] EXCEPT !.items = s2] = [json[j] EXCEPT !.items = s2]
        BY <4>1 DEF JsonRec
      <4>3. t[j] = [json[j] EXCEPT !.items = s]
        BY <1>1, <1>6 DEF Put
      <4>4. QED
        BY <1>1, <1>6, <4>1, <4>2, <4>3 DEF Put
    <3>2. QED
      BY <1>4, <1>11, <1>14, <3>1 DEF Put
  <2>2. QED
    BY <1>2, <1>18, <2>1 DEF Swap, Done
<1>20. Forest(json', held')
  <2>1. old \in (held \cup {old}) \ {r} /\ held' = Roots((held \cup {old}) \ {r}, old, keep)
    BY <1>1, <1>7, <1>19 DEF Roots
  <2>2. QED
    <3>1. Forest(u, (held \cup {old}) \ {r}) /\ json' = Release(u, Gone(u, old, keep))
      BY <1>15, <1>17, <1>19
    <3>2. Forest(json', Roots((held \cup {old}) \ {r}, old, keep))
      BY ONLY keep \in BOOLEAN, <2>1, <3>1, MayDrop
    <3>3. QED
      BY <2>1, <3>2
<1>21. strings' = Strings(json', DOMAIN json') + refused'
  <2>1. Strings(json', DOMAIN json') = Strings(u, DOMAIN u) - Strings(u, ns)
    <3>1. ns \in SUBSET DOMAIN u
      BY <1>15, <1>18
    <3>2. QED
      BY <1>15, <1>19, <3>1, ForestFacts, DropStrings
  <2>2. Strings(u, ns) = Strings(json, ns)
    BY <1>15, <1>18, StringsSame
  <2>3. Strings(json, ns) \in Nat
    <3>1. IsFiniteSet(ns) /\ \A m \in ns : json[m].items \in Seq(ItemRec)
      BY <1>1, <1>18, ForestFacts, FS_Subset
    <3>2. QED
      BY <3>1, StringsType
  <2>4. QED
    BY <1>7, <1>15, <1>19, <2>1, <2>2, <2>3, Before
<1>22. ret'.ok = TRUE /\ ret'.out = (IF keep THEN old ELSE NONE) /\ old \in Node
  BY <1>1, <1>7, <1>19 DEF Answer, Forest
<1>23. IInv'
  BY <1>19, <1>20, <1>21, <1>22, Before, Kept
<1>24. /\ j \in DOMAIN json' /\ json'[j].items = s2
       /\ \A m \in DOMAIN json' : m \notin ns
  BY <1>1, <1>15, <1>18, <1>19 DEF Release
<1>25. Range(s2) = Range(s) \cup {Item(k, r)}
  <2>1. PICK o : OneMore(s2, s, Len(s) + 1, o)
    BY <1>12
  <2>2. \A x \in Range(s2) : x \in Range(s) \cup {Item(k, r)}
    BY <1>12, <2>1 DEF OneMore, Range
  <2>3. \A x \in Range(s) : x \in Range(s2)
    BY <2>1 DEF OneMore, Range
  <2>4. Item(k, r) \in Range(s2)
    BY <1>12, <2>1 DEF OneMore, Range
  <2>5. QED
    BY <2>2, <2>3, <2>4
<1>26. r \notin held'
  BY <1>1, <1>7, <1>19
<1>27. IF ret'.out = NONE THEN old \notin DOMAIN json' ELSE old \in held'
  <2>1. CASE keep
    BY <1>19, <1>22, <2>1
  <2>2. CASE ~ keep
    <3>1. old \in Reach(json, old)
      BY <1>7, <1>8, ReachHolds
    <3>2. old \in ns
      BY <1>16, <1>17, <2>2, <3>1 DEF Gone
    <3>3. QED
      BY <1>22, <1>24, <2>2, <3>2
  <2>3. QED
    BY <2>1, <2>2
<1>28. QED
  BY <1>5, <1>12, <1>19, <1>23, <1>24, <1>25, <1>26, <1>27 DEF Swapped

LEMMA ReplaceKeeps ==
  ASSUME IInv, NEW j, NEW k \in Key, NEW r, NEW keep \in BOOLEAN, ReplaceKey(j, k, r, keep)
  PROVE  IInv'
<1> DEFINE c == <<"replace_key", j, k, r>>
<1>1. CASE Type(r) = "error" \/ Type(j) # "object" \/ k \notin KeysOf(j)
  BY <1>1, FailKeeps DEF ReplaceKey
<1>2. CASE ~ (Type(r) = "error" \/ Type(j) # "object" \/ k \notin KeysOf(j))
  <2>1. Gives(r, j) /\ Swap(c, j, k, r, keep)
    BY <1>2 DEF ReplaceKey
  <2> HIDE DEF c
  <2>2. QED
    BY <1>2, <2>1, SwapDoes
<1>3. QED
  BY <1>1, <1>2

(* What a copy makes. *)
LEMMA CopyIs ==
  ASSUME IInv, NEW n, Copy(n), Type(n) # "error"
  PROVE  \E f : /\ n \in DOMAIN json /\ Copied(json, json', Reach(json, n), f)
                /\ held' = held \cup {f[n]} /\ strings' = strings + Strings(json, Reach(json, n))
                /\ ret' = Answer(<<"copy", n>>, TRUE, f[n]) /\ refused' = refused
<1> DEFINE ns == Below(json, n)
<1>1. Forest(json, held) /\ n \in DOMAIN json /\ ns = Reach(json, n) /\ ns \subseteq DOMAIN json
  <2>1. Forest(json, held) /\ n \in DOMAIN json
    BY Before DEF Copy, Live
  <2>2. QED
    BY <2>1, ForestFacts DEF Reach
<1>2. \A a \in ns : json[a] \in JsonRec
  BY <1>1, ForestFacts
<1>3. PICK f \in [ns -> Node \ Live] :
        /\ \A a, b \in ns : f[a] = f[b] => a = b
        /\ json' = [m \in Live \cup {f[a] : a \in ns} |->
                      IF m \in Live THEN json[m]
                      ELSE LET a == CHOOSE b \in ns : f[b] = m
                           IN  [json[a] EXCEPT !.items =
                                  [i \in DOMAIN @ |-> Item(@[i].k, f[@[i].v])]]]
        /\ held' = held \cup {f[n]} /\ strings' = strings + Strings(json, ns)
        /\ ret' = Answer(<<"copy", n>>, TRUE, f[n]) /\ refused' = refused
  BY Zenon DEF Copy, Done
<1> HIDE DEF ns
<1>4. /\ DOMAIN json' = DOMAIN json \cup {f[a] : a \in ns}
      /\ \A m \in DOMAIN json : json'[m] = json[m]
      /\ json' = [m \in DOMAIN json' |-> json'[m]]
  BY <1>3 DEF Live
<1>5. ASSUME NEW a \in ns
      PROVE  json'[f[a]] = Json(json[a].type, json[a].val,
                                [i \in DOMAIN json[a].items |->
                                   Item(json[a].items[i].k, f[json[a].items[i].v])])
  <2>1. f[a] \in DOMAIN json' /\ f[a] \notin Live
    BY <1>3, <1>4
  <2>2. (CHOOSE b \in ns : f[b] = f[a]) = a
    BY <1>3
  <2>3. json'[f[a]] = [json[a] EXCEPT !.items =
                         [i \in DOMAIN json[a].items |->
                            Item(json[a].items[i].k, f[json[a].items[i].v])]]
    BY <1>3, <2>1, <2>2
  <2>4. QED
    BY <1>2, <2>3 DEF JsonRec, Json
<1>6. Copied(json, json', ns, f)
  BY <1>3, <1>4, <1>5 DEF Copied, Live
<1>7. QED
  BY <1>1, <1>3, <1>6

LEMMA CopyKeeps ==
  ASSUME IInv, NEW n, Copy(n)
  PROVE  IInv'
<1>1. CASE Type(n) = "error"
  BY <1>1, FailKeeps DEF Copy
<1>2. CASE Type(n) # "error"
  <2> DEFINE ns == Reach(json, n)
  <2>1. PICK f : /\ n \in DOMAIN json /\ Copied(json, json', ns, f)
                 /\ held' = held \cup {f[n]} /\ strings' = strings + Strings(json, ns)
                 /\ ret' = Answer(<<"copy", n>>, TRUE, f[n]) /\ refused' = refused
    BY <1>2, CopyIs
  <2>2. Forest(json, held) /\ json[n].type # "error"
    BY <1>2, Before DEF Type
  <2>3. /\ Forest(json', held \cup {f[n]})
        /\ Strings(json', DOMAIN json') = Strings(json, DOMAIN json) + Strings(json, ns)
    BY <2>1, <2>2, ForestCopy
  <2>4. f[n] \in Node
    BY <2>1, <2>2, CopiedNodes
  <2>5. Strings(json, ns) \in Nat
    <3>1. IsFiniteSet(ns) /\ \A m \in ns : json[m].items \in Seq(ItemRec)
      BY <2>2, ForestFacts, FS_Subset DEF Reach
    <3> HIDE DEF ns
    <3>2. QED
      BY <3>1, StringsType
  <2>6. ret'.ok = TRUE /\ ret'.out = f[n]
    BY <2>1 DEF Answer
  <2> HIDE DEF ns
  <2>7. strings' = Strings(json', DOMAIN json') + refused'
    BY <2>1, <2>3, <2>5, Before
  <2>8. QED
    BY <2>1, <2>3, <2>4, <2>6, <2>7, Before, Kept
<1>3. QED
  BY <1>1, <1>2

LEMMA NextInv == IInv /\ [Next]_vars => IInv'
<1> SUFFICES ASSUME IInv, [Next]_vars
             PROVE  IInv'
  OBVIOUS
<1>1. CASE NewError
  BY <1>1, NewKeeps
<1>2. CASE \E t \in Container : NewContainer(t)
  BY <1>2, NewKeeps
<1>3. CASE \E t \in Scalar, x \in Atom \cup {NONE} : NewScalar(t, x)
  BY <1>3, NewKeeps
<1>4. CASE \E n \in Node : Free(n) \/ Copy(n)
  BY <1>4, FreeKeeps, CopyKeeps
<1>5. CASE \E l, v \in Node : Add(l, v)
  BY <1>5, AddKeeps
<1>6. CASE \E t \in Scalar, n \in Node, x \in Atom : Set(t, n, x)
  BY <1>6, SetKeeps
<1>7. CASE \E j \in Node, k \in Key, keep \in BOOLEAN : RemoveKey(j, k, keep)
  BY <1>7, RemoveKeyKeeps
<1>8. CASE \E j, v \in Node, k \in Key :
             AddKv(j, k, v) \/ \E keep \in BOOLEAN : ReplaceKey(j, k, v, keep)
  BY <1>8, AddKvKeeps, ReplaceKeeps
<1>9. CASE \E j \in Node, k \in Key, t \in Scalar, x \in Atom : AddKvNew(j, k, t, x)
  BY <1>9, AddKvNewKeeps
<1>10. Index \subseteq Nat
  BY FS_CardinalityType DEF Index
<1>11. CASE \E l \in Node, i \in Index, keep \in BOOLEAN : RemoveItem(l, i, keep)
  BY <1>10, <1>11, RemoveItemKeeps
<1>12. CASE \E l, v \in Node, i \in Index : Insert(l, i, v)
  BY <1>10, <1>12, InsertKeeps
<1>13. CASE UNCHANGED vars
  BY <1>13, StutterKeeps
<1>14. QED
  BY <1>1, <1>2, <1>3, <1>4, <1>5, <1>6, <1>7, <1>8, <1>9, <1>11, <1>12, <1>13 DEF Next

LEMMA AlwaysInv == Spec => []IInv
<1>1. QED
  BY InitInv, NextInv, PTL DEF Spec

(* Every value has one owner, the caller or one place in one container, so *)
(* that it is freed once; none dangles, none is in itself, none is lost;   *)
(* no object has a key twice; and every key string is freed with its pair  *)
(* (:354-461, :463-480).                                                   *)
THEOREM OwnedOnce == Spec => []OneOwner
<1>1. IInv => OneOwner
  BY InvOneOwner
<1>2. QED
  BY <1>1, AlwaysInv, PTL

(* No other calls than replace_key and copy answer as they do. *)
LEMMA OtherCalls ==
  ASSUME Next, ret'.call[1] \in {"replace_key", "copy"}
  PROVE  \/ \E j \in Node, r \in Node, k \in Key, keep \in BOOLEAN : ReplaceKey(j, k, r, keep)
         \/ \E n \in Node : Copy(n)
<1> USE DEF Fail, Done, Answer
<1>1. ASSUME NEW c, NEW j, Make(c, j)
      PROVE  ret'.call = c
  BY <1>1 DEF Make
<1>2. ~ NewError
  BY <1>1 DEF NewError
<1>3. \A t \in Container : ~ NewContainer(t)
  BY <1>1 DEF NewContainer
<1>4. \A t \in Scalar, x \in Atom \cup {NONE} : ~ NewScalar(t, x)
  BY <1>1 DEF NewScalar
<1>5. \A n \in Node : ~ Free(n)
  BY DEF Free
<1>6. ~ Refuse
  BY DEF Refuse
<1>7. \A l, v \in Node : \A i : ~ Insert(l, i, v)
  BY DEF Insert
<1>8. \A l, v \in Node : ~ Add(l, v)
  BY <1>7 DEF Add
<1>9. \A t \in Scalar, n \in Node, x \in Atom : ~ Set(t, n, x)
  BY DEF Set
<1>10. \A j \in Node, k \in Key, keep \in BOOLEAN : ~ RemoveKey(j, k, keep)
  BY DEF RemoveKey
<1>11. \A j, v \in Node, k \in Key : ~ AddKv(j, k, v)
  BY <1>6 DEF AddKv
<1>12. \A j \in Node, k \in Key, t \in Scalar, x \in Atom : ~ AddKvNew(j, k, t, x)
  <2>1. ASSUME NEW j \in Node, NEW k \in Key, NEW t \in Scalar, NEW x \in Atom,
               AddKvNew(j, k, t, x)
        PROVE  FALSE
    <3> HIDE DEF Done, Fail
    <3>1. Fail(<<"add">>) \/ Done(<<"add">>, NONE)
      BY <1>6, <2>1, Zenon DEF AddKvNew
    <3>2. QED
      BY <3>1 DEF Done, Fail
  <2>2. QED
    BY <2>1
<1>13. \A l \in Node, i \in Index, keep \in BOOLEAN : ~ RemoveItem(l, i, keep)
  BY DEF RemoveItem
<1>14. QED
  BY <1>2, <1>3, <1>4, <1>5, <1>7, <1>8, <1>9, <1>10, <1>11, <1>12, <1>13 DEF Next

LEMMA ReplaceCalls ==
  ASSUME Next, ret'.call[1] = "replace_key"
  PROVE  \E j \in Node, r \in Node, k \in Key, keep \in BOOLEAN : ReplaceKey(j, k, r, keep)
<1>1. ASSUME NEW n \in Node, Copy(n)
      PROVE  FALSE
  <2>1. Fail(<<"copy", n>>) \/ \E x : Done(<<"copy", n>>, x)
    BY <1>1, Zenon DEF Copy
  <2>2. QED
    BY <2>1 DEF Done, Fail, Answer
<1>2. QED
  BY <1>1, OtherCalls

(* replace_key puts the new value in the place of the old one and hands    *)
(* the old one back or frees it, or it does nothing: it never stops        *)
(* between its remove and its add (:445-461).                              *)
THEOREM ReplacedWhole == Spec => ReplaceAllOrNothing
<1>1. ASSUME IInv, Next, ret'.call[1] = "replace_key"
      PROVE  ReplacedOrNot
  <2>1. PICK j \in Node, r \in Node, k \in Key, keep \in BOOLEAN : ReplaceKey(j, k, r, keep)
    BY <1>1, ReplaceCalls
  <2> DEFINE c == <<"replace_key", j, k, r>>
  <2>2. CASE Type(r) = "error" \/ Type(j) # "object" \/ k \notin KeysOf(j)
    <3>1. Fail(c)
      BY <2>1, <2>2 DEF ReplaceKey
    <3>2. ret'.ok = FALSE /\ UNCHANGED <<json, held, strings>>
      BY <3>1 DEF Fail, Answer
    <3>3. QED
      BY <3>2 DEF ReplacedOrNot
  <2>3. CASE ~ (Type(r) = "error" \/ Type(j) # "object" \/ k \notin KeysOf(j))
    <3>1. Gives(r, j) /\ Swap(c, j, k, r, keep)
      BY <2>1, <2>3 DEF ReplaceKey
    <3>2. PICK old : old = json[j].items[IndexOf(j, k)].v
      OBVIOUS
    <3>3. Swapped(c, j, k, r, keep, old)
      <4> HIDE DEF c
      <4>1. QED
        BY <1>1, <2>3, <3>1, <3>2, SwapDoes
    <3>4. /\ ret'.ok = TRUE /\ ret'.call[2] = j /\ ret'.call[3] = k /\ ret'.call[4] = r
      BY <3>3 DEF Answer, Swapped
    <3>5. QED
      BY <3>2, <3>3, <3>4 DEF ReplacedOrNot, Swapped
  <2>4. QED
    BY <2>2, <2>3
<1>2. IInv /\ [Next]_vars => [ReplacedOrNot]_vars
  <2>1. ASSUME IInv, Next
        PROVE  ReplacedOrNot
    BY <1>1, <2>1 DEF ReplacedOrNot
  <2>2. QED
    BY <2>1
<1>3. QED
  BY <1>2, AlwaysInv, PTL DEF Spec, ReplaceAllOrNothing

-----------------------------------------------------------------------------
(* What values stand for.  A document of the nodes C gives each of them    *)
(* what it stands for, from what its children stand for.                   *)

Stands(t, d, n) ==
  LET items == t[n].items
  IN  CASE t[n].type = "object" ->
             <<"object", {<<items[i].k, d[items[i].v]>> : i \in DOMAIN items}>>
        [] t[n].type = "list" -> <<"list", [i \in DOMAIN items |-> d[items[i].v]]>>
        [] t[n].type = "error" -> <<"error", n>>
        [] OTHER -> <<t[n].type, t[n].val>>

Documents(t, d, C) == d = [n \in C |-> Stands(t, d, n)]

LEMMA StandsSame ==
  ASSUME NEW t, NEW d, NEW e, NEW n, \A c \in Children(t, n) : d[c] = e[c]
  PROVE  Stands(t, d, n) = Stands(t, e, n)
<1>1. \A i \in DOMAIN t[n].items : d[t[n].items[i].v] = e[t[n].items[i].v]
  BY DEF Children
<1>2. /\ {<<t[n].items[i].k, d[t[n].items[i].v]>> : i \in DOMAIN t[n].items}
           = {<<t[n].items[i].k, e[t[n].items[i].v]>> : i \in DOMAIN t[n].items}
      /\ [i \in DOMAIN t[n].items |-> d[t[n].items[i].v]]
           = [i \in DOMAIN t[n].items |-> e[t[n].items[i].v]]
  BY <1>1
<1>3. QED
  BY <1>2 DEF Stands

(* There is at most one document. *)
LEMMA OneDocument ==
  ASSUME NEW t, Down(t), NEW C \in SUBSET DOMAIN t, Closed(t, C), NEW d, Documents(t, d, C),
         NEW B \in SUBSET DOMAIN t, Closed(t, B), NEW e, Documents(t, e, B),
         NEW n \in C \cap B
  PROVE  d[n] = e[n]
<1> DEFINE S == {m \in C \cap B : d[m] # e[m]}
<1>1. \A m \in C \cap B : d[m] = Stands(t, d, m) /\ e[m] = Stands(t, e, m)
  <2>1. d = [m \in C |-> Stands(t, d, m)] /\ e = [m \in B |-> Stands(t, e, m)]
    BY DEF Documents
  <2>2. \A m \in C : d[m] = Stands(t, d, m)
    BY ONLY <2>1
  <2>3. \A m \in B : e[m] = Stands(t, e, m)
    BY ONLY <2>1
  <2>4. QED
    BY <2>2, <2>3
<1>2. ASSUME S # {}
      PROVE  FALSE
  <2>1. PICK m \in S : Children(t, m) \cap S = {}
    <3>1. S \in SUBSET DOMAIN t
      OBVIOUS
    <3> HIDE DEF S
    <3>2. QED
      BY <1>2, <3>1 DEF Down
  <2>2. \A c \in Children(t, m) : d[c] = e[c]
    BY <2>1 DEF Closed
  <2>3. Stands(t, d, m) = Stands(t, e, m)
    BY <2>2, StandsSame
  <2>4. QED
    BY <1>1, <2>1, <2>3
<1>3. QED
  BY <1>2

(* There is one for what is below a node: the first node from below that   *)
(* has none would get one from those of its children.                      *)
LEMMA DocumentBelow ==
  ASSUME NEW t, Within(t), Down(t), NEW x \in DOMAIN t
  PROVE  \E d : Documents(t, d, Reach(t, x))
<1> DEFINE S == {n \in DOMAIN t : ~ \E d : Documents(t, d, Reach(t, n))}
<1>1. ASSUME S # {}
      PROVE  FALSE
  <2>1. PICK n \in S : Children(t, n) \cap S = {}
    <3>1. S \in SUBSET DOMAIN t
      OBVIOUS
    <3> HIDE DEF S
    <3>2. QED
      BY <1>1, <3>1 DEF Down
  <2> DEFINE Of(m, d) == \E c \in Children(t, n) : m \in Reach(t, c) /\ Documents(t, d, Reach(t, c))
             g == [m \in Reach(t, n) |-> (CHOOSE d : Of(m, d))[m]]
             e == [m \in Reach(t, n) |-> IF m = n THEN Stands(t, g, n) ELSE g[m]]
  <2>2. \A c \in Children(t, n) :
          /\ c \in DOMAIN t /\ c \in Reach(t, c) /\ Closed(t, Reach(t, c))
          /\ Reach(t, c) \in SUBSET DOMAIN t /\ n \notin Reach(t, c)
          /\ \E d : Documents(t, d, Reach(t, c))
    <3> TAKE c \in Children(t, n)
    <3>1. c \in DOMAIN t /\ c \notin S
      BY <2>1 DEF Within
    <3>2. \E d : Documents(t, d, Reach(t, c))
      BY <3>1
    <3>3. n \notin Reach(t, c)
      BY <2>1, NotInItself
    <3>4. QED
      BY <3>1, <3>2, <3>3, ReachHolds
  <2>3. Reach(t, n) = {n} \cup UNION {Reach(t, c) : c \in Children(t, n)}
    BY <2>1, ReachStep
  <2>4. ASSUME NEW c \in Children(t, n), NEW m \in Reach(t, c), NEW d, Documents(t, d, Reach(t, c))
        PROVE  m \in Reach(t, n) /\ m # n /\ g[m] = d[m] /\ e[m] = d[m]
    <3>1. m \in Reach(t, n) /\ m # n
      BY <2>2, <2>3
    <3>2. Of(m, d)
      BY <2>4
    <3>3. PICK b : b = CHOOSE y : Of(m, y)
      OBVIOUS
    <3>4. Of(m, b)
      <4> HIDE DEF Of
      <4>1. QED
        BY <3>2, <3>3
    <3>5. PICK c2 \in Children(t, n) : m \in Reach(t, c2) /\ Documents(t, b, Reach(t, c2))
      BY <3>4
    <3>6. b[m] = d[m]
      BY <2>1, <2>2, <2>4, <3>5, OneDocument
    <3>7. g[m] = d[m]
      <4> HIDE DEF Of
      <4>1. QED
        BY <3>1, <3>3, <3>6
    <3> HIDE DEF g
    <3>8. QED
      BY <3>1, <3>7
  <2> HIDE DEF g
  <2>5. e[n] = Stands(t, e, n)
    <3>1. \A c \in Children(t, n) : g[c] = e[c]
      BY <2>2, <2>4
    <3>2. Stands(t, g, n) = Stands(t, e, n)
      <4> HIDE DEF e
      <4>1. QED
        BY <3>1, StandsSame
    <3>3. e[n] = Stands(t, g, n)
      BY <2>3
    <3>4. QED
      BY <3>2, <3>3
  <2> HIDE DEF e
  <2>6. ASSUME NEW m \in Reach(t, n), m # n
        PROVE  e[m] = Stands(t, e, m)
    <3>1. PICK c \in Children(t, n) : m \in Reach(t, c)
      BY <2>3, <2>6
    <3>2. PICK d : Documents(t, d, Reach(t, c))
      BY <2>2
    <3>3. d[m] = Stands(t, d, m)
      <4>1. d = [y \in Reach(t, c) |-> Stands(t, d, y)]
        BY <3>2 DEF Documents
      <4>2. QED
        BY ONLY <3>1, <4>1
    <3>4. \A y \in Reach(t, c) : e[y] = d[y]
      BY <2>4, <3>2
    <3>5. \A y \in Children(t, m) : e[y] = d[y]
      BY <2>2, <3>1, <3>4 DEF Closed
    <3>6. Stands(t, e, m) = Stands(t, d, m)
      BY <3>5, StandsSame
    <3>7. QED
      BY <3>1, <3>3, <3>4, <3>6
  <2>7. Documents(t, e, Reach(t, n))
    <3>1. e = [m \in Reach(t, n) |-> e[m]]
      BY DEF e
    <3>2. \A m \in Reach(t, n) : e[m] = Stands(t, e, m)
      BY <2>5, <2>6
    <3>3. QED
      BY <3>1, <3>2 DEF Documents
  <2>8. QED
    BY <2>1, <2>7
<1>2. QED
  BY <1>1

LEMMA DocumentExists ==
  ASSUME NEW t, Within(t), Down(t)
  PROVE  \E d : Documents(t, d, DOMAIN t)
<1> DEFINE own(n) == CHOOSE d : Documents(t, d, Reach(t, n))
           doc == [n \in DOMAIN t |-> own(n)[n]]
<1>1. \A n \in DOMAIN t : Documents(t, own(n), Reach(t, n))
  BY DocumentBelow
<1> HIDE DEF own
<1>2. ASSUME NEW n \in DOMAIN t
      PROVE  doc[n] = Stands(t, doc, n)
  <2>1. n \in Reach(t, n) /\ Closed(t, Reach(t, n)) /\ Reach(t, n) \in SUBSET DOMAIN t
    BY ReachHolds
  <2>2. \A c \in Children(t, n) : doc[c] = own(n)[c]
    <3> TAKE c \in Children(t, n)
    <3>1. c \in DOMAIN t /\ c \in Reach(t, n)
      BY <2>1 DEF Within, Closed
    <3>2. c \in Reach(t, c) /\ Closed(t, Reach(t, c)) /\ Reach(t, c) \in SUBSET DOMAIN t
      BY <3>1, ReachHolds
    <3>3. own(c)[c] = own(n)[c]
      BY <1>1, <2>1, <3>1, <3>2, OneDocument
    <3>4. QED
      BY <3>1, <3>3
  <2>3. own(n)[n] = Stands(t, own(n), n)
    <3>1. own(n) = [m \in Reach(t, n) |-> Stands(t, own(n), m)]
      BY <1>1 DEF Documents
    <3>2. QED
      BY ONLY <2>1, <3>1
  <2>4. Stands(t, doc, n) = Stands(t, own(n), n)
    <3> HIDE DEF doc
    <3>1. QED
      BY <2>2, StandsSame
  <2>5. doc[n] = own(n)[n]
    OBVIOUS
  <2>6. QED
    BY <2>3, <2>4, <2>5
<1>3. doc = [n \in DOMAIN t |-> doc[n]]
  OBVIOUS
<1> HIDE DEF doc
<1>4. QED
  BY <1>2, <1>3 DEF Documents

(* The document of the model is one. *)
Documented == Documents(json, Document, Live)

LEMMA InvDocumented ==
  ASSUME IInv
  PROVE  Documented
<1>1. \E d : Documents(json, d, Live)
  BY Before, ForestFacts, DocumentExists DEF Live, Forest
<1>2. Document = CHOOSE d : Documents(json, d, Live)
  BY DEF Document, Documents, Stands, Type
<1>3. QED
  BY <1>1, <1>2 DEF Documented

-----------------------------------------------------------------------------
(* What cosmic_json_equals compares, one level of it.                      *)

Alike(eq, a, b) ==
  /\ Type(a) = Type(b)
  /\ CASE Type(a) = "object" -> SameObject(eq, a, b)
       [] Type(a) = "list" -> SameList(eq, a, b)
       [] Type(a) = "error" -> a = b
       [] OTHER -> json[a].val = json[b].val

Compares(eq) == eq = [a \in Live |-> [b \in Live |-> Alike(eq, a, b)]]

LEMMA StandsAs ==
  ASSUME NEW t, NEW d, NEW n
  PROVE  Stands(t, d, n)[1] = t[n].type
BY DEF Stands

(* What the items of a container are to these proofs. *)
LEMMA ItemsAre ==
  ASSUME IInv, NEW n \in Live
  PROVE  /\ DOMAIN json[n].items = 1 .. Len(json[n].items) /\ Len(json[n].items) \in Nat
         /\ \A i \in DOMAIN json[n].items : json[n].items[i].v \in Children(json, n)
         /\ Children(json, n) \subseteq Live
         /\ \A k : k \in KeysOf(n) <=> \E i \in DOMAIN json[n].items : json[n].items[i].k = k
         /\ IsFiniteSet(KeysOf(n))
         /\ Type(n) = "object" =>
              /\ \A i \in DOMAIN json[n].items : IndexOf(n, json[n].items[i].k) = i
              /\ Cardinality(KeysOf(n)) = Len(json[n].items)
<1>1. Forest(json, held) /\ Formed(json[n]) /\ json[n].items \in Seq(ItemRec)
  BY Before, ForestFacts DEF Live, Forest
<1>2. DOMAIN json[n].items = 1 .. Len(json[n].items) /\ Len(json[n].items) \in Nat
  BY <1>1, LenProperties
<1>3. /\ \A i \in DOMAIN json[n].items : json[n].items[i].v \in Children(json, n)
      /\ Children(json, n) \subseteq Live
  BY <1>1 DEF Children, Forest, Live
<1>4. \A k : k \in KeysOf(n) <=> \E i \in DOMAIN json[n].items : json[n].items[i].k = k
  BY DEF KeysOf
<1>5. IsFiniteSet(KeysOf(n))
  <2>1. IsFiniteSet(DOMAIN json[n].items)
    <3>1. Len(json[n].items) \in Int /\ 1 \in Int
      BY <1>2
    <3>2. IsFiniteSet(1 .. Len(json[n].items))
      BY ONLY <3>1, FS_Interval
    <3>3. QED
      BY <1>2, <3>2
  <2> DEFINE f == [i \in DOMAIN json[n].items |-> json[n].items[i].k]
  <2>2. f \in Surjection(DOMAIN json[n].items, KeysOf(n))
    BY <1>4 DEF Surjection
  <2> HIDE DEF f
  <2>3. QED
    BY <2>1, <2>2, FS_Surjection
<1>6. ASSUME Type(n) = "object"
      PROVE  /\ \A i \in DOMAIN json[n].items : IndexOf(n, json[n].items[i].k) = i
             /\ Cardinality(KeysOf(n)) = Len(json[n].items)
  <2>1. \A a, b \in DOMAIN json[n].items : json[n].items[a].k = json[n].items[b].k => a = b
    BY <1>1, <1>6 DEF Formed, Type
  <2>2. \A i \in DOMAIN json[n].items : IndexOf(n, json[n].items[i].k) = i
    BY <2>1 DEF IndexOf
  <2>3. Cardinality(KeysOf(n)) = Len(json[n].items)
    BY <1>6, InvOneOwner DEF OneOwner
  <2>4. QED
    BY <2>2, <2>3
<1>7. QED
  BY <1>2, <1>3, <1>4, <1>5, <1>6

(* Two objects are compared key by key: with as many keys on both sides,   *)
(* to find all those of one in the other is to find those of the other.    *)
LEMMA ObjectsAlike ==
  ASSUME IInv, NEW d, NEW eq, NEW a \in Live, NEW b \in Live,
         \A c \in Children(json, a) : \A y \in Live : eq[c][y] <=> d[c] = d[y],
         Type(a) = "object", Type(b) = "object"
  PROVE  SameObject(eq, a, b) <=> Stands(json, d, a) = Stands(json, d, b)
<1> DEFINE A == json[a].items
           B == json[b].items
           PA == {<<A[i].k, d[A[i].v]>> : i \in DOMAIN A}
           PB == {<<B[i].k, d[B[i].v]>> : i \in DOMAIN B}
<1>1. /\ DOMAIN A = 1 .. Len(A) /\ Len(A) \in Nat /\ IsFiniteSet(KeysOf(a))
      /\ \A i \in DOMAIN A : A[i].v \in Children(json, a)
      /\ \A k : k \in KeysOf(a) <=> \E i \in DOMAIN A : A[i].k = k
      /\ Cardinality(KeysOf(a)) = Len(A)
  BY ItemsAre
<1>2. /\ DOMAIN B = 1 .. Len(B) /\ Len(B) \in Nat /\ IsFiniteSet(KeysOf(b))
      /\ \A i \in DOMAIN B : B[i].v \in Live
      /\ \A k : k \in KeysOf(b) <=> \E i \in DOMAIN B : B[i].k = k
      /\ \A i \in DOMAIN B : IndexOf(b, B[i].k) = i
      /\ Cardinality(KeysOf(b)) = Len(B)
  BY ItemsAre
<1>3. /\ Stands(json, d, a) = <<"object", PA>>
      /\ Stands(json, d, b) = <<"object", PB>>
  BY DEF Stands, Type
<1>4. SameObject(eq, a, b) <=>
        /\ Len(A) = Len(B)
        /\ \A i \in DOMAIN A : A[i].k \in KeysOf(b) /\ eq[A[i].v][B[IndexOf(b, A[i].k)].v]
  BY DEF SameObject
<1>5. /\ \A p : p \in PA <=> \E i \in DOMAIN A : p = <<A[i].k, d[A[i].v]>>
      /\ \A p : p \in PB <=> \E i \in DOMAIN B : p = <<B[i].k, d[B[i].v]>>
  OBVIOUS
<1>6. Stands(json, d, a) = Stands(json, d, b) <=> PA = PB
  BY <1>3
<1> HIDE DEF A, B, PA, PB
<1>7. ASSUME SameObject(eq, a, b)
      PROVE  PA = PB
  <2>1. \A i \in DOMAIN A : \E j \in DOMAIN B : A[i].k = B[j].k /\ d[A[i].v] = d[B[j].v]
    BY <1>1, <1>2, <1>4, <1>7 
  <2>2. KeysOf(a) \subseteq KeysOf(b)
    BY <1>1, <1>4, <1>7
  <2>3. KeysOf(a) = KeysOf(b)
    BY <1>1, <1>2, <1>4, <1>7, <2>2, FS_Subset
  <2>4. \A j \in DOMAIN B : \E i \in DOMAIN A : A[i].k = B[j].k
    BY <1>1, <1>2, <2>3
  <2>5. \A j \in DOMAIN B : \E i \in DOMAIN A : A[i].k = B[j].k /\ d[A[i].v] = d[B[j].v]
    BY <1>2, <2>1, <2>4
  <2>6. ASSUME NEW p \in PA
        PROVE  p \in PB
    <3>1. PICK i \in DOMAIN A : p = <<A[i].k, d[A[i].v]>>
      BY <1>5
    <3>2. PICK j \in DOMAIN B : A[i].k = B[j].k /\ d[A[i].v] = d[B[j].v]
      BY <2>1
    <3>3. QED
      BY <1>5, <3>1, <3>2
  <2>7. ASSUME NEW p \in PB
        PROVE  p \in PA
    <3>1. PICK j \in DOMAIN B : p = <<B[j].k, d[B[j].v]>>
      BY <1>5
    <3>2. PICK i \in DOMAIN A : A[i].k = B[j].k /\ d[A[i].v] = d[B[j].v]
      BY <2>5
    <3>3. QED
      BY <1>5, <3>1, <3>2
  <2>8. QED
    BY <2>6, <2>7
<1>8. ASSUME PA = PB
      PROVE  SameObject(eq, a, b)
  <2>1. \A i \in DOMAIN A : \E j \in DOMAIN B : A[i].k = B[j].k /\ d[A[i].v] = d[B[j].v]
    <3> TAKE i \in DOMAIN A
    <3>1. <<A[i].k, d[A[i].v]>> \in PB
      BY <1>5, <1>8
    <3>2. QED
      BY <1>5, <3>1
  <2>2. \A j \in DOMAIN B : \E i \in DOMAIN A : A[i].k = B[j].k
    <3> TAKE j \in DOMAIN B
    <3>1. <<B[j].k, d[B[j].v]>> \in PA
      BY <1>5, <1>8
    <3>2. QED
      BY <1>5, <3>1
  <2>3. KeysOf(a) = KeysOf(b)
    <3>1. \A k \in KeysOf(a) : k \in KeysOf(b)
      BY <1>1, <1>2, <2>1
    <3>2. \A k \in KeysOf(b) : k \in KeysOf(a)
      BY <1>1, <1>2, <2>2
    <3>3. QED
      BY <3>1, <3>2
  <2>4. Len(A) = Len(B)
    BY <1>1, <1>2, <2>3
  <2>5. \A i \in DOMAIN A : A[i].k \in KeysOf(b) /\ eq[A[i].v][B[IndexOf(b, A[i].k)].v]
    <3> TAKE i \in DOMAIN A
    <3>1. PICK j \in DOMAIN B : A[i].k = B[j].k /\ d[A[i].v] = d[B[j].v]
      BY <2>1
    <3>2. IndexOf(b, A[i].k) = j /\ B[j].v \in Live /\ A[i].k \in KeysOf(b)
      BY <1>2, <3>1
    <3>3. QED
      BY <1>1, <3>1, <3>2
  <2>6. QED
    BY <1>4, <2>4, <2>5
<1>9. QED
  BY <1>6, <1>7, <1>8

LEMMA ListsAlike ==
  ASSUME IInv, NEW d, NEW eq, NEW a \in Live, NEW b \in Live,
         \A c \in Children(json, a) : \A y \in Live : eq[c][y] <=> d[c] = d[y],
         Type(a) = "list", Type(b) = "list"
  PROVE  SameList(eq, a, b) <=> Stands(json, d, a) = Stands(json, d, b)
<1> DEFINE A == json[a].items
           B == json[b].items
           SA == [i \in DOMAIN A |-> d[A[i].v]]
           SB == [i \in DOMAIN B |-> d[B[i].v]]
<1>1. /\ DOMAIN A = 1 .. Len(A) /\ Len(A) \in Nat
      /\ \A i \in DOMAIN A : A[i].v \in Children(json, a)
  BY ItemsAre
<1>2. /\ DOMAIN B = 1 .. Len(B) /\ Len(B) \in Nat
      /\ \A i \in DOMAIN B : B[i].v \in Live
  BY ItemsAre
<1>3. /\ Stands(json, d, a) = <<"list", SA>>
      /\ Stands(json, d, b) = <<"list", SB>>
  BY DEF Stands, Type
<1>4. SameList(eq, a, b) <=>
        Len(A) = Len(B) /\ \A i \in DOMAIN A : eq[A[i].v][B[i].v]
  BY DEF SameList
<1>5. Stands(json, d, a) = Stands(json, d, b) <=> SA = SB
  BY <1>3
<1>6. SA = SB <=> DOMAIN A = DOMAIN B /\ \A i \in DOMAIN A : d[A[i].v] = d[B[i].v]
  <2>1. ASSUME SA = SB
        PROVE  DOMAIN A = DOMAIN B /\ \A i \in DOMAIN A : d[A[i].v] = d[B[i].v]
    <3>1. DOMAIN SA = DOMAIN A /\ DOMAIN SB = DOMAIN B
      OBVIOUS
    <3>2. \A i \in DOMAIN A : SA[i] = d[A[i].v]
      OBVIOUS
    <3>3. \A i \in DOMAIN B : SB[i] = d[B[i].v]
      OBVIOUS
    <3> HIDE DEF SA, SB
    <3>4. QED
      BY <2>1, <3>1, <3>2, <3>3
  <2>2. ASSUME DOMAIN A = DOMAIN B, \A i \in DOMAIN A : d[A[i].v] = d[B[i].v]
        PROVE  SA = SB
    BY <2>2
  <2>3. QED
    BY <2>1, <2>2
<1> HIDE DEF A, B, SA, SB
<1>7. DOMAIN A = DOMAIN B <=> Len(A) = Len(B)
  <2>1. \A x, y \in Nat : 1 .. x = 1 .. y => x = y
    OBVIOUS
  <2>2. QED
    BY <1>1, <1>2, <2>1
<1>8. QED
  BY <1>1, <1>2, <1>4, <1>5, <1>6, <1>7

(* One level of comparing is right when it is right about the children.    *)
LEMMA AlikeIs ==
  ASSUME IInv, NEW d, Documents(json, d, Live), NEW eq, NEW a \in Live, NEW b \in Live,
         \A c \in Children(json, a) : \A y \in Live : eq[c][y] <=> d[c] = d[y]
  PROVE  Alike(eq, a, b) <=> d[a] = d[b]
<1>1. \A n \in Live : d[n] = Stands(json, d, n)
  <2>1. d = [n \in Live |-> Stands(json, d, n)]
    BY DEF Documents
  <2>2. QED
    BY ONLY <2>1
<1>2. ASSUME Type(a) # Type(b)
      PROVE  ~ Alike(eq, a, b) /\ d[a] # d[b]
  <2>1. d[a][1] = Type(a) /\ d[b][1] = Type(b)
    BY <1>1, StandsAs DEF Type
  <2>2. QED
    BY <1>2, <2>1 DEF Alike
<1>3. CASE Type(a) = "object" /\ Type(b) = "object"
  <2>1. Alike(eq, a, b) <=> SameObject(eq, a, b)
    BY <1>3 DEF Alike
  <2>2. QED
    BY <1>1, <1>3, <2>1, ObjectsAlike
<1>4. CASE Type(a) = "list" /\ Type(b) = "list"
  <2>1. Alike(eq, a, b) <=> SameList(eq, a, b)
    BY <1>4 DEF Alike
  <2>2. QED
    BY <1>1, <1>4, <2>1, ListsAlike
<1>5. CASE Type(a) = "error" /\ Type(b) = "error"
  <2>1. Alike(eq, a, b) <=> a = b
    BY <1>5 DEF Alike
  <2>2. Stands(json, d, a) = <<"error", a>> /\ Stands(json, d, b) = <<"error", b>>
    BY <1>5 DEF Stands, Type
  <2>3. QED
    BY <1>1, <2>1, <2>2
<1>6. CASE Type(a) = Type(b) /\ Type(a) \notin {"object", "list", "error"}
  <2>1. Alike(eq, a, b) <=> json[a].val = json[b].val
    BY <1>6 DEF Alike
  <2>2. /\ Stands(json, d, a) = <<json[a].type, json[a].val>>
        /\ Stands(json, d, b) = <<json[b].type, json[b].val>>
    BY <1>6 DEF Stands, Type
  <2>3. QED
    BY <1>1, <1>6, <2>1, <2>2 DEF Type
<1>7. QED
  BY <1>2, <1>3, <1>4, <1>5, <1>6

(* So that the comparison of documents solves the equation of              *)
(* cosmic_json_equals, ...                                                 *)
LEMMA EqualCompares ==
  ASSUME IInv
  PROVE  Compares(Equal)
<1> DEFINE d == Document
           same == [a \in Live |-> [b \in Live |-> d[a] = d[b]]]
<1>1. Documents(json, d, Live)
  BY InvDocumented DEF Documented
<1> HIDE DEF d
<1>2. \A a, b \in Live : same[a][b] <=> d[a] = d[b]
  OBVIOUS
<1>3. ASSUME NEW a \in Live, NEW b \in Live
      PROVE  Alike(same, a, b) = (d[a] = d[b])
  <2>1. \A c \in Children(json, a) : \A y \in Live : same[c][y] <=> d[c] = d[y]
    BY <1>2, ItemsAre
  <2> HIDE DEF same
  <2>2. Alike(same, a, b) <=> d[a] = d[b]
    BY <1>1, <2>1, AlikeIs
  <2>3. Alike(same, a, b) \in BOOLEAN
    BY Zenon DEF Alike
  <2>4. QED
    BY <2>2, <2>3
<1>4. Compares(same)
  <2> DEFINE of == [a \in Live |-> [b \in Live |-> Alike(same, a, b)]]
  <2>1. \A a \in Live : [b \in Live |-> d[a] = d[b]] = [b \in Live |-> Alike(same, a, b)]
    <3> HIDE DEF same
    <3>1. QED
      BY <1>3
  <2>2. same = of
    BY <2>1
  <2>3. QED
    BY <2>2 DEF Compares
<1>5. Equal = CHOOSE eq : Compares(eq)
  BY DEF Equal, Compares, Alike
<1> HIDE DEF same
<1>6. QED
  BY <1>4, <1>5

(* ... and is its only solution.                                           *)
LEMMA InvEquals ==
  ASSUME IInv
  PROVE  EqualsDocuments
<1> DEFINE d == Document
           eq == Equal
           S == {a \in DOMAIN json : ~ \A b \in Live : eq[a][b] <=> d[a] = d[b]}
<1>1. Documents(json, d, Live) /\ Compares(eq)
  BY InvDocumented, EqualCompares DEF Documented
<1> HIDE DEF d, eq
<1>2. ASSUME S # {}
      PROVE  FALSE
  <2>1. PICK a \in S : Children(json, a) \cap S = {}
    <3>1. Down(json) /\ S \in SUBSET DOMAIN json
      BY Before DEF Forest
    <3> HIDE DEF S
    <3>2. QED
      BY <1>2, <3>1 DEF Down
  <2>2. a \in Live /\ Children(json, a) \subseteq Live
    BY ItemsAre DEF Live
  <2>3. \A c \in Children(json, a) : \A y \in Live : eq[c][y] <=> d[c] = d[y]
    BY <2>1, <2>2 DEF Live
  <2>4. ASSUME NEW b \in Live
        PROVE  eq[a][b] <=> d[a] = d[b]
    <3>1. eq[a] = [y \in Live |-> Alike(eq, a, y)]
      <4>1. eq = [x \in Live |-> [y \in Live |-> Alike(eq, x, y)]]
        BY <1>1 DEF Compares
      <4>2. QED
        BY ONLY <2>2, <4>1
    <3>2. eq[a][b] = Alike(eq, a, b)
      BY <3>1
    <3>3. Alike(eq, a, b) <=> d[a] = d[b]
      BY <1>1, <2>2, <2>3, AlikeIs
    <3>4. QED
      BY <3>2, <3>3
  <2>5. QED
    BY <2>1, <2>4
<1>3. QED
  BY <1>2 DEF EqualsDocuments, Live, d, eq

(* cosmic_json_equals says of two values whether they stand for the same   *)
(* document, whichever comes first and in whatever order their keys were   *)
(* added (:40-104).                                                        *)
THEOREM EqualIsByDocument == Spec => []EqualsDocuments
<1>1. IInv => EqualsDocuments
  BY InvEquals
<1>2. QED
  BY <1>1, AlwaysInv, PTL

-----------------------------------------------------------------------------
(* What a copy stands for.                                                 *)

LEMMA CopyStands ==
  ASSUME NEW t, NEW h, Forest(t, h), NEW n \in DOMAIN t, t[n].type # "error",
         NEW ns, ns = Reach(t, n), NEW u, NEW f, Copied(t, u, ns, f),
         NEW d, Documents(u, d, DOMAIN u)
  PROVE  \A a \in ns : d[a] = d[f[a]]
<1>1. /\ n \in ns /\ ns \subseteq DOMAIN t
      /\ \A a \in ns : f[a] \in DOMAIN u
      /\ \A a \in ns : \A i \in DOMAIN t[a].items : t[a].items[i].v \in ns
      /\ \A a \in ns : Children(t, a) \subseteq ns \ {n}
      /\ \A a \in ns : /\ u[f[a]].type = t[a].type /\ u[f[a]].val = t[a].val
                       /\ DOMAIN u[f[a]].items = DOMAIN t[a].items
                       /\ \A i \in DOMAIN t[a].items :
                            /\ u[f[a]].items[i].k = t[a].items[i].k
                            /\ u[f[a]].items[i].v = f[t[a].items[i].v]
  BY CopiedNodes
<1>2. DOMAIN t \subseteq DOMAIN u /\ \A a \in ns : u[a] = t[a]
  BY <1>1 DEF Copied
<1>3. \A m \in DOMAIN u : d[m] = Stands(u, d, m)
  <2>1. d = [m \in DOMAIN u |-> Stands(u, d, m)]
    BY DEF Documents
  <2>2. QED
    BY ONLY <2>1
<1>4. \A a \in ns : t[a].type # "error"
  <2> DEFINE C == {a \in DOMAIN t : t[a].type # "error"}
  <2>1. Closed(t, C)
    BY DEF Closed, Forest
  <2>2. ns \subseteq C
    <3>1. C \in SUBSET DOMAIN t /\ n \in C
      OBVIOUS
    <3> HIDE DEF C
    <3>2. QED
      BY <2>1, <3>1, ReachLeast
  <2>3. QED
    BY <2>2
<1> DEFINE S == {a \in ns : d[a] # d[f[a]]}
<1>5. ASSUME S # {}
      PROVE  FALSE
  <2>1. PICK a \in S : Children(t, a) \cap S = {}
    <3>1. Down(t) /\ S \in SUBSET DOMAIN t
      BY <1>1 DEF Forest
    <3> HIDE DEF S
    <3>2. QED
      BY <1>5, <3>1 DEF Down
  <2>2. a \in ns /\ a \in DOMAIN u /\ f[a] \in DOMAIN u /\ u[a] = t[a] /\ t[a].type # "error"
    BY <1>1, <1>2, <1>4
  <2>3. \A i \in DOMAIN t[a].items : d[t[a].items[i].v] = d[f[t[a].items[i].v]]
    <3> TAKE i \in DOMAIN t[a].items
    <3>1. t[a].items[i].v \in Children(t, a) /\ t[a].items[i].v \in ns
      BY <1>1, <2>2 DEF Children
    <3>2. QED
      BY <2>1, <3>1
  <2> DEFINE A == u[a].items
             B == u[f[a]].items
  <2>4. /\ u[a].type = u[f[a]].type /\ u[a].val = u[f[a]].val /\ u[f[a]].type # "error"
        /\ DOMAIN A = DOMAIN B
        /\ \A i \in DOMAIN A : A[i].k = B[i].k /\ d[A[i].v] = d[B[i].v]
    BY <1>1, <2>2, <2>3
  <2>5. /\ {<<A[i].k, d[A[i].v]>> : i \in DOMAIN A} = {<<B[i].k, d[B[i].v]>> : i \in DOMAIN B}
        /\ [i \in DOMAIN A |-> d[A[i].v]] = [i \in DOMAIN B |-> d[B[i].v]]
    <3> HIDE DEF A, B
    <3>1. QED
      BY ONLY <2>4
  <2>6. Stands(u, d, a) = Stands(u, d, f[a])
    BY <2>4, <2>5 DEF Stands
  <2>7. QED
    BY <1>3, <2>1, <2>2, <2>6
<1>6. QED
  BY <1>5

(* The copy and its original share nothing.                                *)
LEMMA CopyShares ==
  ASSUME NEW t, NEW h, Forest(t, h), NEW n \in DOMAIN t,
         NEW ns, ns = Reach(t, n), NEW u, NEW f, Copied(t, u, ns, f)
  PROVE  Reach(u, n) \cap Reach(u, f[n]) = {}
<1> DEFINE C == {m \in DOMAIN u : m \notin DOMAIN t}
<1>1. /\ n \in ns /\ \A a \in ns : f[a] \notin DOMAIN t /\ f[a] \in DOMAIN u
      /\ \A m \in DOMAIN t : Children(u, m) = Children(t, m)
      /\ \A a \in ns : Children(t, a) \subseteq ns \ {n}
  BY CopiedNodes
<1>2. DOMAIN u = DOMAIN t \cup {f[a] : a \in ns}
  BY DEF Copied
<1>3. Closed(u, DOMAIN t)
  BY <1>1 DEF Closed, Forest
<1>4. Reach(u, n) \subseteq DOMAIN t
  BY <1>2, <1>3, ReachLeast
<1>5. Closed(u, C)
  <2>1. \A a \in ns : \A x : x \in Children(u, f[a]) <=> \E c \in Children(t, a) : x = f[c]
    BY CopiedChildren
  <2>2. ASSUME NEW m \in C, NEW x \in Children(u, m)
        PROVE  x \in C
    <3>1. PICK a \in ns : m = f[a]
      BY <1>2, <2>2
    <3>2. PICK c \in Children(t, a) : x = f[c]
      BY <2>1, <2>2, <3>1
    <3>3. QED
      BY <1>1, <3>2
  <2>3. QED
    BY <2>2 DEF Closed
<1>6. Reach(u, f[n]) \subseteq C
  <2>1. C \in SUBSET DOMAIN u /\ f[n] \in C
    BY <1>1
  <2> HIDE DEF C
  <2>2. QED
    BY <1>5, <2>1, ReachLeast
<1>7. QED
  BY <1>4, <1>6

LEMMA CopyCalls ==
  ASSUME Next, ret'.call[1] = "copy", ret'.out # NONE
  PROVE  \E n \in Node : Copy(n) /\ Type(n) # "error"
<1>1. \A j, r \in Node, k \in Key, keep \in BOOLEAN : ~ ReplaceKey(j, k, r, keep)
  BY DEF ReplaceKey, Swap, Fail, Done, Answer
<1>2. PICK n \in Node : Copy(n)
  BY <1>1, OtherCalls
<1>3. Type(n) # "error"
  <2>1. ASSUME Type(n) = "error"
        PROVE  ret'.out = NONE
    BY <1>2, <2>1 DEF Copy, Fail, Answer
  <2>2. QED
    BY <2>1
<1>4. QED
  BY <1>2, <1>3

(* A copy is equal to its original, shares nothing with it, and leaves     *)
(* every other value as it is (:252-311).                                  *)
THEOREM CopiesAreEqual == Spec => CopyIsEqual
<1>1. IInv => EqualsDocuments /\ Documented
  BY InvEquals, InvDocumented
<1>2. ASSUME IInv, IInv', EqualsDocuments', Documented', Next, ret'.call[1] = "copy", ret'.out # NONE
      PROVE  CopyApart
  <2>1. PICK n \in Node : Copy(n) /\ Type(n) # "error"
    BY <1>2, CopyCalls
  <2> DEFINE ns == Reach(json, n)
  <2>2. PICK f : /\ n \in DOMAIN json /\ Copied(json, json', ns, f)
                 /\ ret' = Answer(<<"copy", n>>, TRUE, f[n])
    BY <1>2, <2>1, CopyIs
  <2>3. Forest(json, held) /\ json[n].type # "error" /\ Forest(json', held')
    BY <1>2, <2>1, Before DEF Type, IInv
  <2>4. n \in ns /\ f[n] \in DOMAIN json' /\ n \in DOMAIN json'
    <3>1. n \in ns /\ \A a \in ns : f[a] \in DOMAIN json'
      BY <2>2, <2>3, CopiedNodes
    <3>2. DOMAIN json \subseteq DOMAIN json'
      BY <2>2 DEF Copied
    <3>3. QED
      BY <2>2, <3>1, <3>2
  <2>5. Documents(json', Document', DOMAIN json')
    BY <1>2 DEF Documented, Live
  <2>6. Document'[n] = Document'[f[n]]
    BY <2>2, <2>3, <2>4, <2>5, CopyStands
  <2>7. Equal'[n][f[n]]
    BY <1>2, <2>4, <2>6 DEF EqualsDocuments, Live
  <2>8. Below(json', n) \cap Below(json', f[n]) = {}
    <3>1. Reach(json', n) \cap Reach(json', f[n]) = {}
      BY <2>2, <2>3, CopyShares
    <3>2. \A m \in DOMAIN json' : Below(json', m) = Reach(json', m)
      BY <2>3, ForestFacts
    <3>3. QED
      BY <2>4, <3>1, <3>2
  <2>9. \A m \in Live : m \in DOMAIN json' /\ json'[m] = json[m]
    BY <2>2 DEF Copied, Live
  <2>10. ret'.call[2] = n /\ ret'.out = f[n]
    BY <2>2 DEF Answer
  <2>11. QED
    BY <2>7, <2>8, <2>9, <2>10 DEF CopyApart
<1>3. ASSUME IInv, IInv', EqualsDocuments', Documented', [Next]_vars
      PROVE  [CopyApart]_vars
  <2>1. ASSUME Next
        PROVE  CopyApart
    BY <1>2, <1>3, <2>1 DEF CopyApart
  <2>2. QED
    BY <1>3, <2>1
<1>4. QED
  BY <1>1, <1>3, AlwaysInv, PTL DEF Spec, CopyIsEqual
=============================================================================

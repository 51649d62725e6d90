-------------------------- MODULE JsonWriteProofs ---------------------------
(***************************************************************************)
(* The writer writes the text of every value, for every indent, memory of  *)
(* every size and every answer of the stream.                              *)
(*                                                                         *)
(* The text and the writes are both recursive over the value, so that the  *)
(* first half of this module is an induction over the values that are      *)
(* inside each other.  It shows that both recursions have a value, and     *)
(* that they agree: the texts of the writes, one behind the other, are the *)
(* text, although the writes put the comma and the line break behind an    *)
(* item and the text puts them before the next one; a write that is never  *)
(* made is among them exactly if the value cannot be written; and the last *)
(* write is one byte, whose failure is a failure of the whole.             *)
(*                                                                         *)
(* The second half is the machine that makes the writes.  Its invariant    *)
(* says of every state what is already out and what is still to come.      *)
(***************************************************************************)
EXTENDS JsonWrite, FiniteSetTheorems, SequenceTheorems, TLAPS

(* Every set of numbers has a least one, by the well-founded order of the  *)
(* finite sets.                                                            *)
LEMMA LeastNatural ==
  ASSUME NEW T \in SUBSET Nat, T # {}
  PROVE  \E x \in T : \A y \in T : x <= y
<1> DEFINE R == StrictSubsetOrdering(Nat)
           D == {0 .. x : x \in T}
<1>1. \A x \in Nat : 0 .. x \in FiniteSubsetsOf(Nat)
  BY FS_Interval DEF FiniteSubsetsOf
<1>2. PICK x \in T : \A y \in T : ~ (<<0 .. y, 0 .. x>> \in R)
  <2>1. D # {} /\ D \subseteq FiniteSubsetsOf(Nat)
    BY <1>1
  <2>2. \E X \in D : \A Y \in D : ~ (<<Y, X>> \in R)
    <3> HIDE DEF R, D
    <3> QED
      BY <2>1, FS_StrictSubsetOrderingWellFounded, WFMin DEF R
  <2>3. QED
    BY <2>2
<1>3. ASSUME NEW y \in T, y < x
      PROVE  FALSE
  <2>1. 0 .. y \subseteq 0 .. x /\ x \in 0 .. x /\ x \notin 0 .. y
    BY <1>3
  <2>2. <<0 .. y, 0 .. x>> \in R
    BY <2>1 DEF StrictSubsetOrdering
  <2>3. QED
    BY <2>2, <1>2
<1>4. QED
  BY <1>3

(* An array, as the byte buffers of the code, is a sequence.               *)
LEMMA ArrayIsSeq ==
  ASSUME NEW S, NEW k \in Nat, NEW f \in [1 .. k -> S]
  PROVE  f \in Seq(S) /\ Len(f) = k
OBVIOUS

-----------------------------------------------------------------------------
(* Sequences of sequences, by what they are made of. *)
Rows(X) == Seq(Seq(X))

(* What such a sequence is made of. *)
LEMMA RowFacts ==
  ASSUME NEW X, NEW s \in Rows(X)
  PROVE  /\ Len(s) \in Nat /\ DOMAIN s = 1 .. Len(s) /\ (Len(s) = 0 => s = <<>>)
         /\ \A m \in 1 .. Len(s) : s[m] \in Seq(X)
BY LenProperties, ElementOfSeq, EmptySeq DEF Rows

(* An array of sequences is one. *)
LEMMA ArrayOfRows ==
  ASSUME NEW X, NEW k \in Nat, NEW f \in [1 .. k -> Seq(X)]
  PROVE  f \in Rows(X) /\ Len(f) = k
BY ArrayIsSeq DEF Rows

(* The elements of a concatenation. *)
LEMMA RowsConcat ==
  ASSUME NEW X, NEW a \in Rows(X), NEW b \in Rows(X)
  PROVE  /\ a \o b \in Rows(X) /\ Len(a \o b) = Len(a) + Len(b)
         /\ \A n \in 1 .. Len(a) + Len(b) : (a \o b)[n] =
              IF n <= Len(a) THEN a[n] ELSE b[n - Len(a)]
BY ConcatProperties DEF Rows

(* Two that agree everywhere are equal. *)
LEMMA RowsEqual ==
  ASSUME NEW X, NEW a \in Rows(X), NEW b \in Rows(X), Len(a) = Len(b),
         \A n \in 1 .. Len(a) : a[n] = b[n]
  PROVE  a = b
BY SeqEqual DEF Rows

(* FlattenSeq by its partial results: f[m] is what the first m of s make.  *)
Sums(X, s, f) ==
  /\ f \in [0 .. Len(s) -> Seq(X)] /\ f[0] = <<>>
  /\ \A m \in 1 .. Len(s) : f[m] = f[m - 1] \o s[m]

(* There are partial results for every sequence. *)
LEMMA SumsExist ==
  ASSUME NEW X, NEW s \in Rows(X)
  PROVE  \E f : Sums(X, s, f)
<1> DEFINE P(n, f) == /\ f \in [0 .. n -> Seq(X)] /\ f[0] = <<>>
                      /\ \A m \in 1 .. n : f[m] = f[m - 1] \o s[m]
           T == {n \in 0 .. Len(s) : ~ \E f : P(n, f)}
<1>1. Len(s) \in Nat /\ \A m \in 1 .. Len(s) : s[m] \in Seq(X)
  BY RowFacts
<1>2. ASSUME T # {}
      PROVE  FALSE
  <2>1. PICK n \in T : \A y \in T : n <= y
    <3>1. T \subseteq 0 .. Len(s)
      <4> HIDE DEF P
      <4>1. QED
        OBVIOUS
    <3>2. 0 .. Len(s) \subseteq Nat
      BY <1>1
    <3> HIDE DEF T
    <3>3. QED
      BY <1>2, <3>1, <3>2, LeastNatural
  <2>2. n # 0
    <3>1. P(0, [m \in 0 .. 0 |-> <<>>])
      <4>1. <<>> \in Seq(X)
        BY EmptySeq
      <4>2. QED
        BY <4>1
    <3>2. QED
      BY <2>1, <3>1
  <2>3. n - 1 \in 0 .. Len(s) /\ n \in 1 .. Len(s) /\ ~ (n <= n - 1)
    BY <1>1, <2>1, <2>2
  <2>4. PICK f : P(n - 1, f)
    BY <2>1, <2>3
  <2> DEFINE g == [m \in 0 .. n |-> IF m = n THEN f[n - 1] \o s[n] ELSE f[m]]
  <2>5. f[n - 1] \o s[n] \in Seq(X)
    <3>1. f[n - 1] \in Seq(X)
      BY <1>1, <2>3, <2>4
    <3>2. QED
      BY <1>1, <2>3, <3>1, ConcatProperties
  <2>6. g \in [0 .. n -> Seq(X)]
    BY <1>1, <2>3, <2>4, <2>5
  <2>7. g[0] = <<>> /\ \A m \in 1 .. n : g[m] = g[m - 1] \o s[m]
    <3>1. g[0] = <<>>
      BY <2>2, <2>3, <2>4
    <3>2. ASSUME NEW m \in 1 .. n
          PROVE  g[m] = g[m - 1] \o s[m]
      <4>1. g[m - 1] = f[m - 1]
        BY <1>1, <2>3
      <4>2. CASE m = n
        <5>1. g[n] = f[n - 1] \o s[n]
          <6>1. n \in 0 .. n
            BY <1>1, <2>3
          <6>2. QED
            BY ONLY <6>1
        <5> HIDE DEF g
        <5>2. QED
          BY <4>1, <4>2, <5>1
      <4>3. CASE m # n
        <5>1. m \in 1 .. n - 1 /\ m \in 0 .. n
          BY <1>1, <2>3, <4>3
        <5>2. g[m] = f[m]
          BY <4>3, <5>1
        <5> HIDE DEF g
        <5>3. QED
          BY <2>4, <4>1, <5>1, <5>2
      <4>4. QED
        BY <4>2, <4>3
    <3>3. QED
      BY <3>1, <3>2
  <2>8. P(n, g)
    <3> HIDE DEF g
    <3>1. QED
      BY <2>6, <2>7
  <2>9. QED
    BY <2>1, <2>8
<1>3. \E f : P(Len(s), f)
  <2>1. Len(s) \in 0 .. Len(s)
    BY <1>1
  <2> HIDE DEF P
  <2>2. QED
    BY <1>2, <2>1
<1>4. QED
  BY <1>3 DEF Sums

(* The last partial result is FlattenSeq: the definition of the community  *)
(* modules and this one are the same recursion.                            *)
LEMMA FlattenIs ==
  ASSUME NEW X, NEW s \in Rows(X), NEW f, Sums(X, s, f)
  PROVE  FlattenSeq(s) = f[Len(s)] /\ FlattenSeq(s) \in Seq(X)
<1>1. Len(s) \in Nat /\ \A m \in 1 .. Len(s) : s[m] \in Seq(X)
  BY RowFacts
<1>2. /\ f \in [0 .. Len(s) -> Seq(X)] /\ f[0] = <<>>
      /\ \A m \in 1 .. Len(s) : f[m] = f[m - 1] \o s[m]
  BY DEF Sums
<1>3. f[Len(s)] \in Seq(X)
  BY <1>1, <1>2
<1>4. CASE Len(s) = 0
  <2>1. s = <<>>
    BY <1>4, RowFacts
  <2>2. QED
    BY <1>2, <1>3, <1>4, <2>1 DEF FlattenSeq
<1>5. CASE Len(s) # 0
  <2> DEFINE Is(g) == g = [z \in 1 .. Len(s) |-> IF z = 1 THEN s[z] ELSE g[z - 1] \o s[z]]
             g == CHOOSE g : Is(g)
             h == [z \in 1 .. Len(s) |-> f[z]]
  <2>1. \A z \in 1 .. Len(s) : f[z] = IF z = 1 THEN s[z] ELSE f[z - 1] \o s[z]
    <3> TAKE z \in 1 .. Len(s)
    <3>1. CASE z = 1
      <4>1. f[1] = <<>> \o s[1] /\ s[1] \in Seq(X)
        <5>1. 1 - 1 = 0 /\ 1 \in 1 .. Len(s)
          BY <3>1
        <5>2. f[1] = f[1 - 1] \o s[1] /\ s[1] \in Seq(X)
          BY <1>1, <1>2, <5>1
        <5>3. QED
          BY <1>2, <5>1, <5>2
      <4>2. QED
        BY <3>1, <4>1, ConcatEmptySeq
    <3>2. CASE z # 1
      BY <1>2, <3>2
    <3>3. QED
      BY <3>1, <3>2
  <2>2. Is(h)
    <3>1. \A z \in 1 .. Len(s) : h[z] = IF z = 1 THEN s[z] ELSE h[z - 1] \o s[z]
      <4> TAKE z \in 1 .. Len(s)
      <4>1. z # 1 => z - 1 \in 1 .. Len(s)
        BY <1>1
      <4>2. QED
        BY <2>1, <4>1
    <3>2. h = [z \in 1 .. Len(s) |-> h[z]]
      OBVIOUS
    <3> HIDE DEF h
    <3>3. QED
      BY <3>1, <3>2
  <2>3. Is(g)
    <3> HIDE DEF Is
    <3>1. QED
      BY <2>2
  <2>4. \A z \in 1 .. Len(s) : g[z] = IF z = 1 THEN s[z] ELSE g[z - 1] \o s[z]
    <3> HIDE DEF g
    <3>1. QED
      BY <2>3
  <2>5. FlattenSeq(s) = g[Len(s)]
    BY <1>5 DEF FlattenSeq
  <2> HIDE DEF g
  <2> DEFINE T == {z \in 1 .. Len(s) : g[z] # f[z]}
  <2>6. ASSUME T # {}
        PROVE  FALSE
    <3>1. PICK z \in T : \A y \in T : z <= y
      <4>1. T \in SUBSET Nat
        BY <1>1
      <4> HIDE DEF T
      <4>2. QED
        BY <2>6, <4>1, LeastNatural
    <3>2. z # 1
      BY <2>1, <2>4, <3>1
    <3>3. z - 1 \in 1 .. Len(s) /\ ~ (z <= z - 1) /\ z \in 1 .. Len(s)
      BY <1>1, <3>1, <3>2
    <3>4. g[z - 1] = f[z - 1]
      BY <3>1, <3>3
    <3>5. QED
      BY <2>1, <2>4, <3>1, <3>2, <3>3, <3>4
  <2>7. Len(s) \in 1 .. Len(s)
    BY <1>1, <1>5
  <2>8. QED
    BY <1>3, <2>5, <2>6, <2>7
<1>6. QED
  BY <1>4, <1>5

(* The two together. *)
LEMMA FlattenSum ==
  ASSUME NEW X, NEW s \in Rows(X)
  PROVE  \E f : Sums(X, s, f) /\ FlattenSeq(s) = f[Len(s)] /\ FlattenSeq(s) \in Seq(X)
<1>1. PICK f : Sums(X, s, f)
  BY SumsExist
<1>2. QED
  BY <1>1, FlattenIs

(* FlattenSeq of nothing and of one sequence. *)
LEMMA FlattenFew ==
  ASSUME NEW X, NEW a \in Seq(X)
  PROVE  FlattenSeq(<<>>) = <<>> /\ FlattenSeq(<<a>>) = a
<1>1. FlattenSeq(<<>>) = <<>>
  BY DEF FlattenSeq
<1> DEFINE s == <<a>>
<1>2. s \in Rows(X) /\ Len(s) = 1 /\ s[1] = a /\ 1 \in 1 .. 1 /\ 1 - 1 = 0
  BY DEF Rows
<1> HIDE DEF s
<1>3. PICK f : Sums(X, s, f) /\ FlattenSeq(s) = f[Len(s)]
  BY <1>2, FlattenSum
<1>4. f[0] = <<>> /\ \A m \in 1 .. 1 : f[m] = f[m - 1] \o s[m]
  BY <1>2, <1>3 DEF Sums
<1>5. f[1] = <<>> \o a
  BY ONLY <1>2, <1>4
<1>6. <<>> \o a = a
  BY ConcatEmptySeq
<1>7. FlattenSeq(s) = a
  BY <1>2, <1>3, <1>5, <1>6
<1>8. QED
  BY <1>1, <1>7 DEF s

(* FlattenSeq of a concatenation is the concatenation of what FlattenSeq   *)
(* makes of the parts.                                                     *)
LEMMA FlattenConcat ==
  ASSUME NEW X, NEW a \in Rows(X), NEW b \in Rows(X)
  PROVE  FlattenSeq(a \o b) = FlattenSeq(a) \o FlattenSeq(b)
<1>1. PICK f : Sums(X, a, f) /\ FlattenSeq(a) = f[Len(a)]
  BY FlattenSum
<1>2. PICK g : Sums(X, b, g) /\ FlattenSeq(b) = g[Len(b)]
  BY FlattenSum
<1> DEFINE la == Len(a)
           lb == Len(b)
           s == a \o b
           h == [m \in 0 .. la + lb |-> IF m <= la THEN f[m] ELSE f[la] \o g[m - la]]
<1>3. la \in Nat /\ lb \in Nat
  BY RowFacts
<1>4. /\ s \in Rows(X) /\ Len(s) = la + lb
      /\ \A n \in 1 .. la + lb : s[n] = IF n <= la THEN a[n] ELSE b[n - la]
  BY RowsConcat
<1>5. /\ f \in [0 .. la -> Seq(X)] /\ f[0] = <<>>
      /\ \A m \in 1 .. la : f[m] = f[m - 1] \o a[m]
  BY <1>1 DEF Sums
<1>6. /\ g \in [0 .. lb -> Seq(X)] /\ g[0] = <<>>
      /\ \A m \in 1 .. lb : g[m] = g[m - 1] \o b[m]
  BY <1>2 DEF Sums
<1>7. \A m \in 1 .. lb : b[m] \in Seq(X)
  BY RowFacts
<1> HIDE DEF la, lb, s
<1>8. f[la] \in Seq(X) /\ \A m \in 0 .. lb : f[la] \o g[m] \in Seq(X)
  <2>1. f[la] \in Seq(X) /\ \A m \in 0 .. lb : g[m] \in Seq(X)
    BY <1>3, <1>5, <1>6
  <2>2. QED
    BY <2>1, ConcatProperties
<1>9. /\ \A m \in 0 .. la : h[m] = f[m]
      /\ \A m \in 0 .. lb : h[la + m] = f[la] \o g[m]
  <2>1. \A m \in 0 .. la : h[m] = f[m]
    BY <1>3
  <2>2. ASSUME NEW m \in 0 .. lb
        PROVE  h[la + m] = f[la] \o g[m]
    <3>1. CASE m = 0
      <4>1. f[la] \o <<>> = f[la]
        BY <1>8, ConcatEmptySeq
      <4>2. la + m = la /\ la \in 0 .. la
        BY <1>3, <3>1
      <4>3. QED
        BY <1>6, <2>1, <3>1, <4>1, <4>2
    <3>2. CASE m # 0
      <4>1. la + m \in 0 .. la + lb /\ ~ (la + m <= la) /\ (la + m) - la = m
        BY <1>3, <3>2
      <4>2. QED
        BY <4>1
    <3>3. QED
      BY <3>1, <3>2
  <2>3. QED
    BY <2>1, <2>2
<1>10. h \in [0 .. la + lb -> Seq(X)]
  <2>1. ASSUME NEW m \in 0 .. la + lb
        PROVE  (IF m <= la THEN f[m] ELSE f[la] \o g[m - la]) \in Seq(X)
    <3>1. CASE m <= la
      <4>1. m \in 0 .. la
        BY <1>3, <3>1
      <4>2. QED
        BY <1>5, <3>1, <4>1
    <3>2. CASE ~ (m <= la)
      <4>1. m - la \in 0 .. lb
        BY <1>3, <3>2
      <4>2. QED
        BY <1>8, <3>2, <4>1
    <3>3. QED
      BY <3>1, <3>2
  <2>2. QED
    BY <2>1
<1> HIDE DEF h
<1>11. h[0] = <<>>
  <2>1. 0 \in 0 .. la
    BY <1>3
  <2>2. QED
    BY <1>5, <1>9, <2>1
<1>12. \A m \in 1 .. la + lb : h[m] = h[m - 1] \o s[m]
  <2> TAKE m \in 1 .. la + lb
  <2>1. CASE m <= la
    <3>1. m \in 0 .. la /\ m - 1 \in 0 .. la /\ m \in 1 .. la
      BY <1>3, <2>1
    <3>2. QED
      BY <1>4, <1>5, <1>9, <2>1, <3>1
  <2>2. CASE ~ (m <= la)
    <3>1. PICK k \in 1 .. lb : k = m - la
      BY <1>3, <2>2
    <3>2. /\ m = la + k /\ m - 1 = la + (k - 1) /\ k - 1 \in 0 .. lb /\ k \in 0 .. lb
          /\ k \in 1 .. lb
      BY <1>3, <3>1
    <3>3. s[m] = b[k] /\ b[k] \in Seq(X)
      BY <1>4, <1>7, <2>2, <3>1
    <3>4. h[m] = f[la] \o g[k] /\ h[m - 1] = f[la] \o g[k - 1]
      BY <1>9, <3>2
    <3>5. g[k] = g[k - 1] \o b[k] /\ g[k - 1] \in Seq(X)
      BY <1>6, <3>2
    <3>6. (f[la] \o g[k - 1]) \o b[k] = f[la] \o (g[k - 1] \o b[k])
      <4>1. f[la] \in Seq(X) /\ g[k - 1] \in Seq(X) /\ b[k] \in Seq(X)
        BY <1>8, <3>3, <3>5
      <4>2. \A p, q, r \in Seq(X) : (p \o q) \o r = p \o (q \o r)
        BY ConcatAssociative
      <4>3. QED
        BY ONLY <4>1, <4>2
    <3>7. QED
      BY <3>3, <3>4, <3>5, <3>6
  <2>3. QED
    BY <2>1, <2>2
<1>13. Sums(X, s, h)
  BY <1>4, <1>10, <1>11, <1>12 DEF Sums
<1>14. FlattenSeq(s) = h[la + lb]
  BY <1>4, <1>13, FlattenIs
<1>15. h[la + lb] = f[la] \o g[lb]
  <2>1. lb \in 0 .. lb
    BY <1>3
  <2>2. QED
    BY <1>9, <2>1
<1>16. QED
  BY <1>1, <1>2, <1>14, <1>15 DEF s, la, lb

-----------------------------------------------------------------------------
(* What the members of s stand for, one behind the other. *)
Maps(g, A, X) == g \in [A -> Seq(X)]
Parts(g, s) == [k \in DOMAIN s |-> g[s[k]]]
Spread(g, s) == FlattenSeq(Parts(g, s))

(* The parts of s under g, and what they make together. *)
LEMMA SpreadParts ==
  ASSUME NEW A, NEW X, NEW g, Maps(g, A, X), NEW s \in Seq(A)
  PROVE  /\ Parts(g, s) \in Rows(X) /\ Len(Parts(g, s)) = Len(s)
         /\ \A k \in 1 .. Len(s) : Parts(g, s)[k] = g[s[k]]
         /\ Spread(g, s) \in Seq(X)
<1> DEFINE t == Parts(g, s)
<1>1. Len(s) \in Nat /\ DOMAIN s = 1 .. Len(s) /\ \A k \in 1 .. Len(s) : s[k] \in A
  BY LenProperties, ElementOfSeq
<1>2. t \in [1 .. Len(s) -> Seq(X)] /\ \A k \in 1 .. Len(s) : t[k] = g[s[k]]
  BY <1>1 DEF Parts, Maps
<1> HIDE DEF t
<1>3. t \in Rows(X) /\ Len(t) = Len(s)
  BY <1>1, <1>2, ArrayOfRows
<1>4. FlattenSeq(t) \in Seq(X)
  BY <1>3, FlattenSum
<1>5. QED
  BY <1>2, <1>3, <1>4 DEF t, Spread

(* Nothing is made of nothing. *)
LEMMA SpreadNone == \A g : Spread(g, <<>>) = <<>>
<1>1. \A g : Parts(g, <<>>) = <<>>
  BY DEF Parts
<1>2. QED
  BY <1>1 DEF Spread, FlattenSeq

(* One element makes its own part. *)
LEMMA SpreadFew ==
  ASSUME NEW A, NEW X, NEW g, Maps(g, A, X), NEW e \in A
  PROVE  Spread(g, <<>>) = <<>> /\ Spread(g, <<e>>) = g[e]
<1>1. Parts(g, <<>>) = <<>>
  BY DEF Parts
<1>2. Parts(g, <<e>>) = <<g[e]>>
  BY DEF Parts
<1>3. g[e] \in Seq(X)
  BY DEF Maps
<1>4. QED
  BY <1>1, <1>2, <1>3, FlattenFew DEF Spread

(* Spread of a concatenation. *)
LEMMA SpreadConcat ==
  ASSUME NEW A, NEW X, NEW g, Maps(g, A, X), NEW a \in Seq(A), NEW b \in Seq(A)
  PROVE  Spread(g, a \o b) = Spread(g, a) \o Spread(g, b)
<1> DEFINE s == a \o b
           ta == Parts(g, a)
           tb == Parts(g, b)
           t == Parts(g, s)
<1>1. /\ s \in Seq(A) /\ Len(s) = Len(a) + Len(b)
      /\ \A z \in 1 .. Len(a) + Len(b) : s[z] = IF z <= Len(a) THEN a[z] ELSE b[z - Len(a)]
  BY ConcatProperties
<1> HIDE DEF s
<1>2. /\ ta \in Rows(X) /\ Len(ta) = Len(a) /\ tb \in Rows(X) /\ Len(tb) = Len(b)
      /\ t \in Rows(X) /\ Len(t) = Len(s)
  <2>1. ta \in Rows(X) /\ Len(ta) = Len(a)
    BY SpreadParts
  <2>2. tb \in Rows(X) /\ Len(tb) = Len(b)
    BY SpreadParts
  <2>3. t \in Rows(X) /\ Len(t) = Len(s)
    BY <1>1, SpreadParts
  <2>4. QED
    BY ONLY <2>1, <2>2, <2>3
<1>3. Len(a) \in Nat /\ Len(b) \in Nat
  BY LenProperties
<1>4. /\ \A k \in 1 .. Len(a) : ta[k] = g[a[k]]
      /\ \A k \in 1 .. Len(b) : tb[k] = g[b[k]]
      /\ \A k \in 1 .. Len(a) + Len(b) : t[k] = g[s[k]]
  BY <1>1, SpreadParts
<1> HIDE DEF ta, tb, t
<1>5. /\ ta \o tb \in Rows(X) /\ Len(ta \o tb) = Len(a) + Len(b)
      /\ \A z \in 1 .. Len(a) + Len(b) :
           (ta \o tb)[z] = IF z <= Len(a) THEN ta[z] ELSE tb[z - Len(a)]
  <2>1. /\ ta \o tb \in Rows(X) /\ Len(ta \o tb) = Len(ta) + Len(tb)
        /\ \A z \in 1 .. Len(ta) + Len(tb) :
             (ta \o tb)[z] = IF z <= Len(ta) THEN ta[z] ELSE tb[z - Len(ta)]
    BY ONLY <1>2, RowsConcat
  <2>2. QED
    BY ONLY <1>2, <2>1
<1>6. \A z \in 1 .. Len(t) : t[z] = (ta \o tb)[z]
  <2> SUFFICES ASSUME NEW k \in 1 .. Len(a) + Len(b)
               PROVE  t[k] = (ta \o tb)[k]
    BY <1>1, <1>2
  <2>1. CASE k <= Len(a)
    <3>1. k \in 1 .. Len(a)
      BY <1>3, <2>1
    <3>2. t[k] = g[s[k]] /\ s[k] = a[k] /\ ta[k] = g[a[k]] /\ (ta \o tb)[k] = ta[k]
      BY <1>1, <1>4, <1>5, <2>1, <3>1
    <3>3. QED
      BY <3>2
  <2>2. CASE ~ (k <= Len(a))
    <3>1. k - Len(a) \in 1 .. Len(b)
      BY <1>3, <2>2
    <3>2. /\ t[k] = g[s[k]] /\ s[k] = b[k - Len(a)] /\ tb[k - Len(a)] = g[b[k - Len(a)]]
          /\ (ta \o tb)[k] = tb[k - Len(a)]
      BY <1>1, <1>4, <1>5, <2>2, <3>1
    <3>3. QED
      BY <3>2
  <2>3. QED
    BY <2>1, <2>2
<1>7. t = ta \o tb
  BY <1>1, <1>2, <1>5, <1>6, RowsEqual
<1>8. FlattenSeq(t) = FlattenSeq(ta) \o FlattenSeq(tb)
  BY <1>2, <1>7, FlattenConcat
<1>9. QED
  BY <1>8 DEF Spread, s, t, ta, tb

(* Spread of a sequence of sequences, one by one. *)
LEMMA SpreadFlatten ==
  ASSUME NEW A, NEW X, NEW g, Maps(g, A, X), NEW s \in Rows(A)
  PROVE  Spread(g, FlattenSeq(s)) = FlattenSeq([k \in DOMAIN s |-> Spread(g, s[k])])
<1> DEFINE t == [k \in DOMAIN s |-> Spread(g, s[k])]
<1>1. PICK f : Sums(A, s, f) /\ FlattenSeq(s) = f[Len(s)]
  BY FlattenSum
<1>2. /\ Len(s) \in Nat /\ DOMAIN s = 1 .. Len(s) /\ Len(s) \in 0 .. Len(s)
      /\ \A k \in 1 .. Len(s) : s[k] \in Seq(A)
  BY RowFacts
<1>3. /\ f \in [0 .. Len(s) -> Seq(A)] /\ f[0] = <<>>
      /\ \A m \in 1 .. Len(s) : f[m] = f[m - 1] \o s[m]
  BY <1>1 DEF Sums
<1>4. \A k \in 1 .. Len(s) : Spread(g, s[k]) \in Seq(X)
  BY <1>2, SpreadParts
<1>5. t \in [1 .. Len(s) -> Seq(X)] /\ \A k \in 1 .. Len(s) : t[k] = Spread(g, s[k])
  BY <1>2, <1>4
<1> HIDE DEF t
<1>6. t \in Rows(X) /\ Len(t) = Len(s)
  BY <1>2, <1>5, ArrayOfRows
<1> DEFINE h == [m \in 0 .. Len(s) |-> Spread(g, f[m])]
<1>7. h \in [0 .. Len(s) -> Seq(X)] /\ \A m \in 0 .. Len(s) : h[m] = Spread(g, f[m])
  <2>1. \A m \in 0 .. Len(s) : Spread(g, f[m]) \in Seq(X)
    BY <1>3, SpreadParts
  <2>2. QED
    BY <2>1
<1> HIDE DEF h
<1>8. h[0] = <<>>
  <2>1. Spread(g, <<>>) = <<>>
    BY SpreadNone
  <2>2. QED
    BY <1>2, <1>3, <1>7, <2>1
<1>9. \A m \in 1 .. Len(t) : h[m] = h[m - 1] \o t[m]
  <2> TAKE m \in 1 .. Len(t)
  <2>1. m \in 1 .. Len(s) /\ m \in 0 .. Len(s) /\ m - 1 \in 0 .. Len(s)
    BY <1>2, <1>6
  <2>2. Spread(g, f[m - 1] \o s[m]) = Spread(g, f[m - 1]) \o Spread(g, s[m])
    <3>1. f[m - 1] \in Seq(A) /\ s[m] \in Seq(A)
      BY <1>2, <1>3, <2>1
    <3>2. \A p, q \in Seq(A) : Spread(g, p \o q) = Spread(g, p) \o Spread(g, q)
      BY SpreadConcat
    <3>3. QED
      BY ONLY <3>1, <3>2
  <2>3. QED
    BY <1>3, <1>5, <1>7, <2>1, <2>2
<1>10. Sums(X, t, h)
  BY <1>6, <1>7, <1>8, <1>9 DEF Sums
<1>11. FlattenSeq(t) = h[Len(s)]
  BY <1>6, <1>10, FlattenIs
<1>12. QED
  BY <1>1, <1>2, <1>7, <1>11 DEF t

-----------------------------------------------------------------------------
(* The values inside a value. *)
Inside(d) == {d.items[k].value : k \in DOMAIN d.items}

(* What is inside a value is one of the values of Doc. *)
LEMMA InsideIsDoc == \A d \in Doc : Inside(d) \subseteq Doc
<1> SUFFICES ASSUME NEW d \in Doc, NEW k \in DOMAIN d.items
             PROVE  d.items[k].value \in Doc
  BY DEF Inside
<1>1. d.items \in Seq([key : Seq(Char), value : Doc])
  BY JsonWriteAssumption DEF Value
<1>2. d.items[k] \in [key : Seq(Char), value : Doc]
  BY <1>1, LenProperties, ElementOfSeq
<1>3. QED
  BY <1>2

(* Among any values there is one with none of them in it: the induction    *)
(* over values, from the assumption on Doc.                                *)
LEMMA Innermost ==
  ASSUME NEW S \in SUBSET Doc, S # {}
  PROVE  \E d \in S : Inside(d) \cap S = {}
<1>1. PICK d \in S : \A k \in DOMAIN d.items : d.items[k].value \notin S
  BY JsonWriteAssumption
<1>2. Inside(d) \cap S = {}
  BY <1>1 DEF Inside
<1>3. QED
  BY <1>2

Closed(C) == \A m \in C : Inside(m) \subseteq C
Reach(n) == {m \in Doc : \A C \in SUBSET Doc : n \in C /\ Closed(C) => m \in C}

(* Reach is the least set with n that is closed. *)
LEMMA ReachLeast ==
  ASSUME NEW n, NEW C \in SUBSET Doc, n \in C, Closed(C)
  PROVE  Reach(n) \subseteq C
BY DEF Reach

(* And it is such a set. *)
LEMMA ReachHolds ==
  ASSUME NEW n \in Doc
  PROVE  n \in Reach(n) /\ Closed(Reach(n)) /\ Reach(n) \in SUBSET Doc
<1>1. n \in Reach(n) /\ Reach(n) \subseteq Doc
  BY DEF Reach
<1>2. ASSUME NEW m \in Reach(n), NEW c \in Inside(m)
      PROVE  c \in Reach(n)
  <2>1. c \in Doc
    BY <1>1, <1>2, InsideIsDoc
  <2>2. ASSUME NEW C \in SUBSET Doc, n \in C, Closed(C)
        PROVE  c \in C
    <3>1. m \in C
      BY <1>2, <2>2, ReachLeast
    <3>2. QED
      BY <1>2, <2>2, <3>1 DEF Closed
  <2>3. QED
    BY <2>1, <2>2 DEF Reach
<1>3. QED
  BY <1>1, <1>2 DEF Closed

(* A value reaches itself and what its items reach. *)
LEMMA ReachStep ==
  ASSUME NEW n \in Doc
  PROVE  Reach(n) = {n} \cup UNION {Reach(c) : c \in Inside(n)}
<1> DEFINE C == {n} \cup UNION {Reach(c) : c \in Inside(n)}
<1>1. /\ n \in Reach(n) /\ Closed(Reach(n)) /\ Reach(n) \subseteq Doc
      /\ Inside(n) \subseteq Doc
  BY ReachHolds, InsideIsDoc
<1>2. \A c \in Inside(n) : /\ c \in Reach(c) /\ Closed(Reach(c)) /\ Reach(c) \subseteq Doc
                           /\ Reach(c) \subseteq Reach(n)
  <2> TAKE c \in Inside(n)
  <2>1. c \in Reach(n) /\ c \in Doc
    BY <1>1 DEF Closed
  <2>2. c \in Reach(c) /\ Closed(Reach(c)) /\ Reach(c) \subseteq Doc
    BY <2>1, ReachHolds
  <2>3. Reach(c) \subseteq Reach(n)
    BY <1>1, <2>1, ReachLeast
  <2>4. QED
    BY <2>2, <2>3
<1>3. C \subseteq Reach(n)
  BY <1>1, <1>2
<1>4. Closed(C)
  <2> SUFFICES ASSUME NEW m \in C, NEW x \in Inside(m)
               PROVE  x \in C
    BY DEF Closed
  <2>1. CASE m = n
    BY <1>2, <2>1
  <2>2. CASE m # n
    <3>1. PICK c \in Inside(n) : m \in Reach(c)
      BY <2>2
    <3>2. x \in Reach(c)
      BY <1>2, <3>1 DEF Closed
    <3>3. QED
      BY <3>2
  <2>3. QED
    BY <2>1, <2>2
<1>5. Reach(n) \subseteq C
  <2>1. C \in SUBSET Doc /\ n \in C
    BY <1>1, <1>3
  <2> HIDE DEF C
  <2>2. QED
    BY <1>4, <2>1, ReachLeast
<1>6. QED
  BY <1>3, <1>5

(* No value is reached from its own items. *)
LEMMA NotInItself ==
  ASSUME NEW j \in Doc, NEW v \in Inside(j)
  PROVE  j \notin Reach(v)
<1> SUFFICES ASSUME j \in Reach(v)
             PROVE  FALSE
  OBVIOUS
<1> DEFINE S == {m \in Doc : j \in Reach(m)}
<1>1. v \in S
  BY InsideIsDoc
<1>2. PICK m \in S : Inside(m) \cap S = {}
  <2>1. S \in SUBSET Doc /\ S # {}
    BY <1>1
  <2> HIDE DEF S
  <2> QED
    BY <2>1, Innermost
<1>3. CASE m = j
  BY <1>1, <1>2, <1>3
<1>4. CASE m # j
  <2>1. PICK c \in Inside(m) : j \in Reach(c)
    BY <1>2, <1>4, ReachStep
  <2>2. c \in S
    BY <1>2, <2>1, InsideIsDoc
  <2>3. QED
    BY <1>2, <2>1, <2>2
<1>5. QED
  BY <1>3, <1>4

-----------------------------------------------------------------------------
(* The three recursions over a value: what each gives a value, from what f *)
(* gives those inside.                                                     *)
At(f, d, n) == [k \in DOMAIN d.items |-> f[d.items[k].value][n]]

Written(ind, j, idepth, values) ==
  CASE j.type = "null"   -> WriteNull
    [] j.type = "number" -> WriteNumber(j)
    [] j.type = "string" -> WriteString(j.text)
    [] j.type = "bool"   -> WriteBool(j)
    [] j.type = "object" -> WriteObject(j, ind, idepth, values)
    [] j.type = "list"   -> WriteList(j, ind, idepth, values)
    [] OTHER             -> Refusal

Items(ind, f, d, n) ==
  [k \in DOMAIN d.items |-> Name(ind, d, k) \o f[d.items[k].value][n]]

Said(ind, d, n, items) ==
  LET inside == IF items = <<>> THEN <<>>
                ELSE Line(ind, n + 1) \o Joined(items, <<",">> \o Line(ind, n + 1))
                     \o Line(ind, n)
  IN  CASE d.type = "object" -> <<"{">> \o inside \o <<"}">>
        [] d.type = "list"   -> <<"[">> \o inside \o <<"]">>
        [] d.type = "string" -> Quoted(d.text)
        [] d.type = "number" -> d.text
        [] d.type = "null"   -> Spelled("n")
        [] d.type = "bool"   -> Spelled(d.text[1])
        [] d.type = "error"  -> <<>>

Broken(d, has) == \/ d.type = "error"
                  \/ d.type = "number" /\ Len(d.text) >= NumberLen
                  \/ \E k \in DOMAIN d.items : has[d.items[k].value]

Step(what, ind, f, d) ==
  IF what = "write" THEN [n \in Nat |-> Written(ind, d, n, At(f, d, n + 1))]
  ELSE IF what = "text" THEN [n \in Nat |-> Said(ind, d, n, Items(ind, f, d, n + 1))]
  ELSE Broken(d, f)

Solves(what, ind, f, C) == f = [d \in C |-> Step(what, ind, f, d)]

(* A step of a recursion asks only for what is inside the value. *)
LEMMA StepSame ==
  ASSUME NEW what, NEW ind, NEW f, NEW g, NEW d, \A c \in Inside(d) : f[c] = g[c]
  PROVE  Step(what, ind, f, d) = Step(what, ind, g, d)
<1>1. \A k \in DOMAIN d.items : f[d.items[k].value] = g[d.items[k].value]
  BY DEF Inside
<1>2. \A n : At(f, d, n) = At(g, d, n) /\ Items(ind, f, d, n) = Items(ind, g, d, n)
  BY <1>1 DEF At, Items
<1>3. Broken(d, f) = Broken(d, g)
  BY <1>1 DEF Broken
<1>4. QED
  BY <1>2, <1>3 DEF Step

(* A solution at a value is a step of itself. *)
LEMMA SolvesIs ==
  ASSUME NEW what, NEW ind, NEW f, NEW C, Solves(what, ind, f, C)
  PROVE  \A d \in C : f[d] = Step(what, ind, f, d)
<1>1. f = [d \in C |-> Step(what, ind, f, d)]
  BY DEF Solves
<1>2. QED
  BY ONLY <1>1

(* Two solutions agree where both are defined. *)
LEMMA OneSolution ==
  ASSUME NEW what, NEW ind,
         NEW C \in SUBSET Doc, Closed(C), NEW f, Solves(what, ind, f, C),
         NEW B \in SUBSET Doc, Closed(B), NEW g, Solves(what, ind, g, B),
         NEW n \in C \cap B
  PROVE  f[n] = g[n]
<1> DEFINE S == {m \in C \cap B : f[m] # g[m]}
<1>1. \A m \in C \cap B : f[m] = Step(what, ind, f, m) /\ g[m] = Step(what, ind, g, m)
  BY SolvesIs
<1>2. ASSUME S # {}
      PROVE  FALSE
  <2>1. PICK m \in S : Inside(m) \cap S = {}
    <3>1. S \in SUBSET Doc
      OBVIOUS
    <3> HIDE DEF S
    <3>2. QED
      BY <1>2, <3>1, Innermost
  <2>2. \A c \in Inside(m) : f[c] = g[c]
    BY <2>1 DEF Closed
  <2>3. Step(what, ind, f, m) = Step(what, ind, g, m)
    BY <2>2, StepSame
  <2>4. QED
    BY <1>1, <2>1, <2>3
<1>3. QED
  BY <1>2

(* There is a solution on what a value reaches: for an innermost value     *)
(* without one, those of its items would make one.                         *)
LEMMA SolutionBelow ==
  ASSUME NEW what, NEW ind, NEW x \in Doc
  PROVE  \E f : Solves(what, ind, f, Reach(x))
<1> DEFINE S == {n \in Doc : ~ \E f : Solves(what, ind, f, Reach(n))}
<1>1. ASSUME S # {}
      PROVE  FALSE
  <2>1. PICK n \in S : Inside(n) \cap S = {}
    <3>1. S \in SUBSET Doc
      OBVIOUS
    <3> HIDE DEF S
    <3>2. QED
      BY <1>1, <3>1, Innermost
  <2> DEFINE Of(m, f) == \E c \in Inside(n) : m \in Reach(c) /\ Solves(what, ind, f, Reach(c))
             g == [m \in Reach(n) |-> (CHOOSE f : Of(m, f))[m]]
             e == [m \in Reach(n) |-> IF m = n THEN Step(what, ind, g, n) ELSE g[m]]
  <2>2. \A c \in Inside(n) :
          /\ c \in Doc /\ c \in Reach(c) /\ Closed(Reach(c))
          /\ Reach(c) \in SUBSET Doc /\ n \notin Reach(c)
          /\ \E f : Solves(what, ind, f, Reach(c))
    <3> TAKE c \in Inside(n)
    <3>1. c \in Doc /\ c \notin S
      BY <2>1, InsideIsDoc
    <3>2. \E f : Solves(what, ind, f, Reach(c))
      BY <3>1
    <3>3. n \notin Reach(c)
      BY <2>1, NotInItself
    <3>4. QED
      BY <3>1, <3>2, <3>3, ReachHolds
  <2>3. Reach(n) = {n} \cup UNION {Reach(c) : c \in Inside(n)}
    BY <2>1, ReachStep
  <2>4. ASSUME NEW c \in Inside(n), NEW m \in Reach(c), NEW f, Solves(what, ind, f, Reach(c))
        PROVE  m \in Reach(n) /\ m # n /\ g[m] = f[m] /\ e[m] = f[m]
    <3>1. m \in Reach(n) /\ m # n
      BY <2>2, <2>3
    <3>2. Of(m, f)
      BY <2>4
    <3>3. PICK b : b = CHOOSE y : Of(m, y)
      OBVIOUS
    <3>4. Of(m, b)
      <4> HIDE DEF Of
      <4>1. QED
        BY <3>2, <3>3
    <3>5. PICK c2 \in Inside(n) : m \in Reach(c2) /\ Solves(what, ind, b, Reach(c2))
      BY <3>4
    <3>6. b[m] = f[m]
      BY <2>2, <2>4, <3>5, OneSolution
    <3>7. g[m] = f[m]
      <4> HIDE DEF Of
      <4>1. QED
        BY <3>1, <3>3, <3>6
    <3> HIDE DEF g
    <3>8. QED
      BY <3>1, <3>7
  <2> HIDE DEF g
  <2>5. e[n] = Step(what, ind, e, n)
    <3>1. \A c \in Inside(n) : g[c] = e[c]
      BY <2>2, <2>4
    <3>2. Step(what, ind, g, n) = Step(what, ind, e, n)
      <4> HIDE DEF e
      <4>1. QED
        BY <3>1, StepSame
    <3>3. e[n] = Step(what, ind, g, n)
      BY <2>3
    <3>4. QED
      BY <3>2, <3>3
  <2> HIDE DEF e
  <2>6. ASSUME NEW m \in Reach(n), m # n
        PROVE  e[m] = Step(what, ind, e, m)
    <3>1. PICK c \in Inside(n) : m \in Reach(c)
      BY <2>3, <2>6
    <3>2. PICK f : Solves(what, ind, f, Reach(c))
      BY <2>2
    <3>3. f[m] = Step(what, ind, f, m)
      BY <3>1, <3>2, SolvesIs
    <3>4. \A y \in Reach(c) : e[y] = f[y]
      BY <2>4, <3>2
    <3>5. \A y \in Inside(m) : e[y] = f[y]
      BY <2>2, <3>1, <3>4 DEF Closed
    <3>6. Step(what, ind, e, m) = Step(what, ind, f, m)
      BY <3>5, StepSame
    <3>7. QED
      BY <3>1, <3>3, <3>4, <3>6
  <2>7. Solves(what, ind, e, Reach(n))
    <3>1. e = [m \in Reach(n) |-> e[m]]
      BY DEF e
    <3>2. \A m \in Reach(n) : e[m] = Step(what, ind, e, m)
      BY <2>5, <2>6
    <3>3. QED
      BY <3>1, <3>2 DEF Solves
  <2>8. QED
    BY <2>1, <2>7
<1>2. QED
  BY <1>1

(* There is a solution on all values, put together from those. *)
LEMMA SolutionExists ==
  ASSUME NEW what, NEW ind
  PROVE  \E f : Solves(what, ind, f, Doc)
<1> DEFINE own(n) == CHOOSE f : Solves(what, ind, f, Reach(n))
           g == [n \in Doc |-> own(n)[n]]
<1>1. \A n \in Doc : Solves(what, ind, own(n), Reach(n))
  BY SolutionBelow
<1> HIDE DEF own
<1>2. ASSUME NEW n \in Doc
      PROVE  g[n] = Step(what, ind, g, n)
  <2>1. n \in Reach(n) /\ Closed(Reach(n)) /\ Reach(n) \in SUBSET Doc
    BY ReachHolds
  <2>2. \A c \in Inside(n) : g[c] = own(n)[c]
    <3> TAKE c \in Inside(n)
    <3>1. c \in Doc /\ c \in Reach(n)
      BY <2>1, InsideIsDoc DEF Closed
    <3>2. c \in Reach(c) /\ Closed(Reach(c)) /\ Reach(c) \in SUBSET Doc
      BY <3>1, ReachHolds
    <3>3. own(c)[c] = own(n)[c]
      BY <1>1, <2>1, <3>1, <3>2, OneSolution
    <3>4. QED
      BY <3>1, <3>3
  <2>3. own(n)[n] = Step(what, ind, own(n), n)
    BY <1>1, <2>1, SolvesIs
  <2>4. Step(what, ind, g, n) = Step(what, ind, own(n), n)
    <3> HIDE DEF g
    <3>1. QED
      BY <2>2, StepSame
  <2>5. g[n] = own(n)[n]
    OBVIOUS
  <2>6. QED
    BY <2>3, <2>4, <2>5
<1>3. g = [n \in Doc |-> g[n]]
  OBVIOUS
<1> HIDE DEF g
<1>4. QED
  BY <1>2, <1>3 DEF Solves

(* The functions of the model are the solutions.                           *)
Solution(what, ind) == CHOOSE f : Solves(what, ind, f, Doc)

(* So that the one chosen has the equation of the recursion. *)
LEMMA SolutionSolves ==
  ASSUME NEW what, NEW ind, NEW d \in Doc
  PROVE  Solution(what, ind)[d] = Step(what, ind, Solution(what, ind), d)
<1>1. Solves(what, ind, Solution(what, ind), Doc)
  BY SolutionExists DEF Solution
<1>2. QED
  BY <1>1, SolvesIs

(* WriteValue, Text and Unwritable are such recursions. *)
LEMMA WriteValueIs == \A j, ind : WriteValue(j, ind) = Solution("write", ind)[j][0]
BY DEF WriteValue, Solution, Solves, Step, Written, At

(* The text of the value of this state. *)
LEMMA TextIs == Text = Solution("text", indent)[json][0]
BY DEF Text, Solution, Solves, Step, Said, Items

(* Whether it cannot be written. *)
LEMMA UnwritableIs == Unwritable <=> Solution("has", indent)[json]
BY DEF Unwritable, Solution, Solves, Step, Broken

-----------------------------------------------------------------------------
(* The writes that a document can come to. *)
Entry(ind) ==
  {w \in [text : Seq(Char), test : {"must", "may", "whole", "refuse"}] :
     /\ w.test = "must" => w.text # <<>>
     /\ w.test = "may" => w.text \in {<<",">>, <<"nl">>}
     /\ w.test = "whole" => w.text = ind}

Texts(ind) == [w \in Entry(ind) |-> w.text]
Say(ind, ws) == Spread(Texts(ind), ws)
Refuses(ws) == \E k \in 1 .. Len(ws) : ws[k].test = "refuse"

(* ws writes text, and is broken off on purpose if has. *)
Fits(ind, ws, text, has) ==
  /\ ws \in Seq(Entry(ind)) /\ text \in Seq(Char)
  /\ Say(ind, ws) = text /\ (Refuses(ws) <=> has)

(* The text of an entry is a text. *)
LEMMA TextsMap == \A ind : Maps(Texts(ind), Entry(ind), Char)
BY DEF Maps, Texts, Entry

(* No write writes nothing. *)
LEMMA FitsNone == \A ind : Fits(ind, <<>>, <<>>, FALSE)
<1> TAKE ind
<1>1. Say(ind, <<>>) = <<>>
  BY SpreadNone DEF Say
<1>2. ~ Refuses(<<>>)
  BY DEF Refuses
<1>3. <<>> \in Seq(Entry(ind)) /\ <<>> \in Seq(Char)
  BY EmptySeq
<1>4. QED
  BY <1>1, <1>2, <1>3 DEF Fits

(* One write writes its text. *)
LEMMA FitsOne ==
  ASSUME NEW ind, NEW e \in Entry(ind)
  PROVE  Fits(ind, <<e>>, e.text, e.test = "refuse")
<1>1. Say(ind, <<e>>) = e.text
  <2>1. Spread(Texts(ind), <<e>>) = Texts(ind)[e]
    BY TextsMap, SpreadFew
  <2>2. QED
    BY <2>1 DEF Say, Texts
<1>2. Refuses(<<e>>) <=> e.test = "refuse"
  <2>1. Len(<<e>>) = 1 /\ <<e>>[1] = e
    OBVIOUS
  <2>2. QED
    BY <2>1 DEF Refuses
<1>3. <<e>> \in Seq(Entry(ind)) /\ e.text \in Seq(Char)
  <2>1. <<e>> \in Seq(Entry(ind))
    OBVIOUS
  <2>2. e.text \in Seq(Char)
    BY DEF Entry
  <2>3. QED
    BY <2>1, <2>2
<1>4. QED
  BY <1>1, <1>2, <1>3 DEF Fits

(* Writes behind each other write their texts behind each other. *)
LEMMA FitsConcat ==
  ASSUME NEW ind, NEW a, NEW t, NEW g, Fits(ind, a, t, g),
         NEW b, NEW u, NEW h, Fits(ind, b, u, h), NEW c, c <=> (g \/ h)
  PROVE  Fits(ind, a \o b, t \o u, c)
<1>1. /\ a \in Seq(Entry(ind)) /\ t \in Seq(Char)
      /\ b \in Seq(Entry(ind)) /\ u \in Seq(Char)
      /\ Say(ind, a) = t /\ Say(ind, b) = u /\ (Refuses(a) <=> g) /\ (Refuses(b) <=> h)
  BY DEF Fits
<1>2. a \o b \in Seq(Entry(ind)) /\ t \o u \in Seq(Char)
  BY <1>1, ConcatProperties
<1>3. Say(ind, a \o b) = t \o u
  <2>1. Spread(Texts(ind), a \o b) = Spread(Texts(ind), a) \o Spread(Texts(ind), b)
    BY <1>1, TextsMap, SpreadConcat
  <2>2. QED
    BY <1>1, <2>1 DEF Say
<1>4. Refuses(a \o b) <=> c
  <2>1. /\ Len(a) \in Nat /\ Len(b) \in Nat /\ Len(a \o b) = Len(a) + Len(b)
        /\ \A k \in 1 .. Len(a) + Len(b) :
             (a \o b)[k] = IF k <= Len(a) THEN a[k] ELSE b[k - Len(a)]
    BY <1>1, LenProperties, ConcatProperties
  <2>2. ASSUME Refuses(a)
        PROVE  Refuses(a \o b)
    BY <2>1, <2>2 DEF Refuses
  <2>3. ASSUME Refuses(b)
        PROVE  Refuses(a \o b)
    <3>1. PICK k \in 1 .. Len(b) : b[k].test = "refuse"
      BY <2>3 DEF Refuses
    <3>2. /\ Len(a) + k \in 1 .. Len(a) + Len(b) /\ ~ (Len(a) + k <= Len(a))
          /\ (Len(a) + k) - Len(a) = k
      BY <2>1
    <3>3. (a \o b)[Len(a) + k] = b[k]
      BY <2>1, <3>2
    <3>4. QED
      BY <2>1, <3>1, <3>2, <3>3 DEF Refuses
  <2>4. ASSUME Refuses(a \o b)
        PROVE  Refuses(a) \/ Refuses(b)
    <3>1. PICK k \in 1 .. Len(a) + Len(b) : (a \o b)[k].test = "refuse"
      BY <2>1, <2>4 DEF Refuses
    <3>2. CASE k <= Len(a)
      BY <2>1, <3>1, <3>2 DEF Refuses
    <3>3. CASE ~ (k <= Len(a))
      <4>1. k - Len(a) \in 1 .. Len(b) /\ b[k - Len(a)].test = "refuse"
        BY <2>1, <3>1, <3>3
      <4>2. QED
        BY <4>1 DEF Refuses
    <3>4. QED
      BY <3>2, <3>3
  <2>5. QED
    BY <1>1, <2>2, <2>3, <2>4
<1>5. QED
  BY <1>2, <1>3, <1>4 DEF Fits

(* Concatenation, for the solver a name with these two facts alone.       *)
Cat(p, q) == p \o q
CharSeq == Seq(Char)

(* Concatenation of texts is a text, and associative. *)
LEMMA CatFacts ==
  /\ \A p, q \in CharSeq : Cat(p, q) \in CharSeq
  /\ \A p, q, r \in CharSeq : Cat(Cat(p, q), r) = Cat(p, Cat(q, r))
BY ConcatProperties, ConcatAssociative DEF Cat, CharSeq

(* The first of them for two texts, *)
LEMMA CatBytes == ASSUME NEW p \in CharSeq, NEW q \in CharSeq PROVE Cat(p, q) \in CharSeq
BY CatFacts

(* the second for three. *)
LEMMA CatGroup ==
  ASSUME NEW p \in CharSeq, NEW q \in CharSeq, NEW r \in CharSeq
  PROVE  Cat(Cat(p, q), r) = Cat(p, Cat(q, r))
BY CatFacts

(* FitsConcat, with Cat. *)
LEMMA FitsCat ==
  ASSUME NEW ind, NEW a, NEW t, NEW g, Fits(ind, a, t, g),
         NEW b, NEW u, NEW h, Fits(ind, b, u, h), NEW c, c <=> (g \/ h)
  PROVE  Fits(ind, Cat(a, b), Cat(t, u), c)
<1>1. Fits(ind, a \o b, t \o u, c)
  BY FitsConcat
<1>2. QED
  BY <1>1, Zenon DEF Cat

(* The same where the first writes are all made, *)
LEMMA FitsBehind ==
  ASSUME NEW ind, NEW a, NEW t, Fits(ind, a, t, FALSE),
         NEW b, NEW u, NEW h, Fits(ind, b, u, h)
  PROVE  Fits(ind, Cat(a, b), Cat(t, u), h)
<1>1. PICK g : g <=> FALSE
  OBVIOUS
<1>2. Fits(ind, a, t, g) /\ (h <=> (g \/ h))
  BY <1>1 DEF Fits
<1>3. QED
  BY <1>2, FitsCat

(* and where the second are. *)
LEMMA FitsAhead ==
  ASSUME NEW ind, NEW a, NEW t, NEW h, Fits(ind, a, t, h),
         NEW b, NEW u, Fits(ind, b, u, FALSE)
  PROVE  Fits(ind, Cat(a, b), Cat(t, u), h)
<1>1. PICK g : g <=> FALSE
  OBVIOUS
<1>2. Fits(ind, b, u, g) /\ (h <=> (h \/ g))
  BY <1>1 DEF Fits
<1>3. QED
  BY <1>2, FitsCat

(* The same for as many as one likes. *)
AllFit(ind, s, t, h) ==
  /\ s \in Rows(Entry(ind)) /\ t \in Rows(Char) /\ Len(t) = Len(s)
  /\ \A k \in 1 .. Len(s) : Fits(ind, s[k], t[k], h[k])

(* As many sequences of writes as there are write their texts one behind   *)
(* the other.                                                              *)
LEMMA FitsFlatten ==
  ASSUME NEW ind, NEW s, NEW t, NEW h, AllFit(ind, s, t, h),
         NEW c, c <=> \E k \in 1 .. Len(s) : h[k]
  PROVE  Fits(ind, FlattenSeq(s), FlattenSeq(t), c)
<1> USE DEF AllFit
<1>1. PICK f : Sums(Entry(ind), s, f) /\ FlattenSeq(s) = f[Len(s)]
  BY FlattenSum
<1>2. PICK g : Sums(Char, t, g) /\ FlattenSeq(t) = g[Len(t)]
  BY FlattenSum
<1>3. Len(s) \in Nat
  BY RowFacts
<1>4. /\ f[0] = <<>> /\ \A m \in 1 .. Len(s) : f[m] = f[m - 1] \o s[m]
      /\ g[0] = <<>> /\ \A m \in 1 .. Len(s) : g[m] = g[m - 1] \o t[m]
  BY <1>1, <1>2 DEF Sums
<1> DEFINE b == [m \in 0 .. Len(s) |-> \E k \in 1 .. m : h[k]]
<1>8. /\ ~ b[0] /\ (c <=> b[Len(s)])
      /\ \A m \in 1 .. Len(s) : b[m] <=> (b[m - 1] \/ h[m])
  <2>1. ~ b[0]
    BY <1>3
  <2>2. c <=> b[Len(s)]
    BY <1>3
  <2>3. ASSUME NEW m \in 1 .. Len(s)
        PROVE  b[m] <=> (b[m - 1] \/ h[m])
    <3>1. \A k : k \in 1 .. m <=> (k \in 1 .. m - 1 \/ k = m)
      BY <1>3, <2>3
    <3>2. (b[m] <=> \E k \in 1 .. m : h[k]) /\ (b[m - 1] <=> \E k \in 1 .. m - 1 : h[k])
      BY <1>3, <2>3
    <3> HIDE DEF b
    <3>3. QED
      BY ONLY <3>1, <3>2
  <2>4. QED
    BY <2>1, <2>2, <2>3
<1> HIDE DEF b
<1> DEFINE P(m) == Fits(ind, f[m], g[m], b[m])
           T == {m \in 0 .. Len(s) : ~ P(m)}
<1>5. ASSUME T # {}
      PROVE  FALSE
  <2>1. PICK m \in T : \A y \in T : m <= y
    <3>1. T \in SUBSET Nat
      <4> HIDE DEF P
      <4>1. QED
        BY <1>3
    <3> HIDE DEF T
    <3>2. QED
      BY <1>5, <3>1, LeastNatural
  <2>2. m # 0
    <3>1. P(0)
      BY <1>4, <1>8, FitsNone DEF Fits
    <3>2. QED
      BY <2>1, <3>1
  <2>3. m - 1 \in 0 .. Len(s) /\ m \in 1 .. Len(s) /\ ~ (m <= m - 1)
    BY <1>3, <2>1, <2>2
  <2>4. P(m - 1)
    BY <2>1, <2>3
  <2>5. Fits(ind, s[m], t[m], h[m])
    BY <2>3
  <2>8. P(m)
    <3>1. Fits(ind, f[m - 1] \o s[m], g[m - 1] \o t[m], b[m])
      BY <1>8, <2>3, <2>4, <2>5, FitsConcat
    <3>2. QED
      BY <1>4, <2>3, <3>1
  <2>9. QED
    BY <2>1, <2>8
<1>6. P(Len(s))
  <2>1. Len(s) \in 0 .. Len(s)
    BY <1>3
  <2> HIDE DEF P
  <2>2. QED
    BY <1>5, <2>1
<1>7. QED
  BY <1>1, <1>2, <1>6, <1>8 DEF Fits

-----------------------------------------------------------------------------
(* The writes of every kind, each with its text. *)
NewLine(ind) == IF ind = NONE THEN <<>> ELSE <<"nl">>
Tab(ind, n) == IF ind = NONE THEN <<>> ELSE FlattenSeq([m \in 1 .. n |-> ind])
Comma(items, k) == IF k < Len(items) THEN <<",">> ELSE <<>>
Colon(ind) == IF ind = NONE THEN <<":">> ELSE <<":", "ws">>

(* One write with each of the tests. *)
LEMMA FitsWrite ==
  ASSUME NEW ind, NEW t \in Seq(Char)
  PROVE  /\ t # <<>> => Fits(ind, Must(t), t, FALSE)
         /\ t \in {<<",">>, <<"nl">>} => Fits(ind, Write(t, "may"), t, FALSE)
         /\ Fits(ind, Write(t, "refuse"), t, TRUE)
<1>1. \A test \in {"must", "may", "refuse"} :
        [text |-> t, test |-> test] \in Entry(ind) =>
          Fits(ind, Write(t, test), t, test = "refuse")
  <2> TAKE test \in {"must", "may", "refuse"}
  <2> HAVE [text |-> t, test |-> test] \in Entry(ind)
  <2> DEFINE e == [text |-> t, test |-> test]
  <2>1. e.text = t /\ e.test = test /\ e \in Entry(ind)
    OBVIOUS
  <2>2. Write(t, test) = <<e>>
    BY DEF Write
  <2> HIDE DEF e
  <2>3. Fits(ind, <<e>>, e.text, e.test = "refuse")
    BY <2>1, FitsOne
  <2>4. QED
    BY <2>1, <2>2, <2>3 DEF Fits
<1>2. /\ t # <<>> => [text |-> t, test |-> "must"] \in Entry(ind)
      /\ t \in {<<",">>, <<"nl">>} => [text |-> t, test |-> "may"] \in Entry(ind)
      /\ [text |-> t, test |-> "refuse"] \in Entry(ind)
  BY DEF Entry
<1>3. QED
  BY <1>1, <1>2 DEF Must, Fits

(* Short texts are texts. *)
LEMMA Bytes ==
  /\ <<>> \in Seq(Char)
  /\ \A c \in Char : <<c>> \in Seq(Char) /\ <<c>> # <<>> /\ Len(<<c>>) = 1
  /\ \A c, d \in Char : <<c, d>> \in Seq(Char) /\ <<c, d>> # <<>>
  /\ \A c, d \in Char : <<c>> \o <<d>> = <<c, d>>
<1>1. <<>> \in Seq(Char)
  BY EmptySeq
<1>2. \A c \in Char : <<c>> \in Seq(Char) /\ <<c>> # <<>> /\ Len(<<c>>) = 1
  OBVIOUS
<1>3. \A c, d \in Char : <<c, d>> \in Seq(Char) /\ <<c, d>> # <<>>
  OBVIOUS
<1>4. \A c, d \in Char : <<c>> \o <<d>> = <<c, d>>
  <2> TAKE c, d \in Char
  <2> DEFINE a == <<c>>
             b == <<d>>
             t == <<c, d>>
  <2>1. a \in Seq(Char) /\ Len(a) = 1 /\ a[1] = c /\ b \in Seq(Char) /\ Len(b) = 1 /\ b[1] = d
    OBVIOUS
  <2>2. t \in Seq(Char) /\ Len(t) = 2 /\ t[1] = c /\ t[2] = d
    OBVIOUS
  <2> HIDE DEF a, b, t
  <2>3. /\ a \o b \in Seq(Char) /\ Len(a \o b) = Len(a) + Len(b)
        /\ \A k \in 1 .. Len(a) + Len(b) :
             (a \o b)[k] = IF k <= Len(a) THEN a[k] ELSE b[k - Len(a)]
    BY <2>1, ConcatProperties
  <2>4. \A k \in 1 .. 2 : (a \o b)[k] = t[k]
    BY <2>1, <2>2, <2>3
  <2>5. a \o b = t
    BY <2>1, <2>2, <2>3, <2>4, SeqEqual
  <2>6. QED
    BY <2>5 DEF a, b, t
<1>5. QED
  BY <1>1, <1>2, <1>3, <1>4

(* null, true and false are texts of some bytes. *)
LEMMA SpelledBytes == \A c \in Char : Spelled(c) \in Seq(Char) /\ Spelled(c) # <<>>
<1> TAKE c \in Char
<1>1. "other" \in Char
  BY DEF Char
<1> HIDE DEF Char
<1>2. <<c, "other", "other", "other">> \in Seq(Char) /\ Len(<<c, "other", "other", "other">>) = 4
  BY <1>1
<1> DEFINE a == <<c, "other", "other", "other">>
           b == IF c = "f" THEN <<"other">> ELSE <<>>
<1>3. b \in Seq(Char)
  BY <1>1, Bytes
<1> HIDE DEF a
<1>4. a \in Seq(Char) /\ Len(a) = 4
  BY <1>2 DEF a
<1> HIDE DEF b
<1>5. a \o b \in Seq(Char) /\ Len(a \o b) = 4 + Len(b) /\ Len(b) \in Nat
  <2>1. Len(b) \in Nat
    BY <1>3, LenProperties
  <2>2. a \o b \in Seq(Char) /\ Len(a \o b) = Len(a) + Len(b)
    BY ONLY <1>3, <1>4, ConcatProperties
  <2>3. QED
    BY <1>4, <2>1, <2>2
<1>6. a \o b # <<>>
  BY <1>5, EmptySeq
<1>7. Spelled(c) = a \o b
  BY DEF Spelled, a, b
<1>8. QED
  BY <1>5, <1>6, <1>7

(* What is written at once: the literals, a number, the separators, and    *)
(* the error.                                                              *)
LEMMA FitsSimple ==
  ASSUME NEW ind, NEW d \in Doc
  PROVE  /\ Fits(ind, WriteNull, Spelled("n"), FALSE)
         /\ Fits(ind, Refusal, <<>>, TRUE)
         /\ Fits(ind, WriteColon(ind), Colon(ind), FALSE)
         /\ Fits(ind, WriteNewline(ind), NewLine(ind), FALSE)
         /\ \A items, k : Fits(ind, WriteComma(items, k), Comma(items, k), FALSE)
         /\ d.type = "number" => Fits(ind, WriteNumber(d), d.text, Len(d.text) >= NumberLen)
         /\ d.type = "bool" => Fits(ind, WriteBool(d), Spelled(d.text[1]), FALSE)
<1>1. "n" \in Char /\ ":" \in Char /\ "ws" \in Char /\ "nl" \in Char /\ "," \in Char
  BY DEF Char
<1>2. Fits(ind, WriteNull, Spelled("n"), FALSE)
  BY <1>1, SpelledBytes, FitsWrite DEF WriteNull
<1>3. Fits(ind, Refusal, <<>>, TRUE)
  BY Bytes, FitsWrite DEF Refusal
<1>4. Fits(ind, WriteColon(ind), Colon(ind), FALSE)
  BY <1>1, Bytes, FitsWrite DEF WriteColon, Colon
<1>5. Fits(ind, WriteNewline(ind), NewLine(ind), FALSE)
  BY <1>1, Bytes, FitsWrite, FitsNone DEF WriteNewline, NewLine
<1>6. \A items, k : Fits(ind, WriteComma(items, k), Comma(items, k), FALSE)
  BY <1>1, Bytes, FitsWrite, FitsNone DEF WriteComma, Comma
<1>7. d.text \in Seq(Char) /\ (d.type \in {"number", "bool"} => d.text # <<>>)
  BY JsonWriteAssumption DEF Value
<1>8. ASSUME d.type = "number"
      PROVE  Fits(ind, WriteNumber(d), d.text, Len(d.text) >= NumberLen)
  BY <1>7, <1>8, FitsWrite DEF WriteNumber, Fits
<1>9. ASSUME d.type = "bool"
      PROVE  Fits(ind, WriteBool(d), Spelled(d.text[1]), FALSE)
  <2>1. d.text[1] \in Char
    <3>1. 1 \in 1 .. Len(d.text)
      BY <1>7, <1>9, EmptySeq
    <3>2. QED
      BY <1>7, <3>1, ElementOfSeq
  <2>2. QED
    BY <2>1, SpelledBytes, FitsWrite DEF WriteBool
<1>10. QED
  BY <1>2, <1>3, <1>4, <1>5, <1>6, <1>8, <1>9

(* The indents of a line. *)
LEMMA FitsIndent ==
  ASSUME NEW ind \in Indents, NEW n \in Nat
  PROVE  Fits(ind, WriteIndent(ind, n), Tab(ind, n), FALSE)
<1>1. CASE ind = NONE
  BY <1>1, FitsNone DEF WriteIndent, Tab
<1>2. CASE ind # NONE
  <2> DEFINE e == [text |-> ind, test |-> "whole"]
             w == [k \in 1 .. n |-> e]
  <2>1. ind \in Seq(Char)
    BY <1>2, JsonWriteAssumption
  <2>2. e \in Entry(ind)
    BY <2>1 DEF Entry
  <2>3. e.text = ind /\ e.test = "whole"
    OBVIOUS
  <2> HIDE DEF e
  <2>4. w \in Seq(Entry(ind)) /\ Len(w) = n /\ \A k \in 1 .. n : w[k] = e
    <3>1. w \in [1 .. n -> Entry(ind)] /\ \A k \in 1 .. n : w[k] = e
      BY <2>2
    <3> HIDE DEF w
    <3>2. QED
      BY <3>1, ArrayIsSeq
  <2>5. DOMAIN w = 1 .. n
    OBVIOUS
  <2> HIDE DEF w
  <2>6. Parts(Texts(ind), w) = [k \in 1 .. n |-> ind]
    <3>1. \A k \in 1 .. n : Texts(ind)[w[k]] = ind
      BY <2>2, <2>3, <2>4 DEF Texts
    <3>2. QED
      BY <2>5, <3>1 DEF Parts
  <2>7. Say(ind, w) = Tab(ind, n)
    BY <1>2, <2>6 DEF Say, Spread, Tab
  <2>8. Say(ind, w) \in Seq(Char)
    BY <2>4, TextsMap, SpreadParts DEF Say
  <2>9. ~ Refuses(w)
    BY <2>3, <2>4 DEF Refuses
  <2>10. WriteIndent(ind, n) = w
    BY <1>2 DEF WriteIndent, w, e
  <2>11. QED
    BY <2>4, <2>7, <2>8, <2>9, <2>10 DEF Fits
<1>3. QED
  BY <1>1, <1>2

EscapedText(c) == CASE c = "nl" -> <<"bslash", "n">>
                    [] c \in {"quote", "bslash"} -> <<"bslash", c>>
                    [] OTHER -> <<c>>

(* Quoted, with the text of a byte by its name. *)
LEMMA QuotedIs == \A s : Quoted(s) =
  <<"quote">> \o FlattenSeq([k \in DOMAIN s |-> EscapedText(s[k])]) \o <<"quote">>
BY DEF Quoted, EscapedText

(* A byte of a string is escaped as its text is                            *)
(* (cosmic_json_write_string).                                             *)
LEMMA FitsEscaped ==
  ASSUME NEW ind, NEW c \in Char
  PROVE  Fits(ind, Escaped(c), EscapedText(c), FALSE)
<1>1. "bslash" \in Char /\ "n" \in Char
  BY DEF Char
<1>2. CASE c = "nl"
  <2>1. Escaped(c) = Must(<<"bslash", "n">>) /\ EscapedText(c) = <<"bslash", "n">>
    BY <1>2 DEF Escaped, EscapedText
  <2>2. QED
    BY <1>1, <2>1, Bytes, FitsWrite
<1>3. CASE c \in {"quote", "bslash"}
  <2>1. Escaped(c) = Must(<<"bslash">>) \o Must(<<c>>) /\ EscapedText(c) = <<"bslash", c>>
    BY <1>3 DEF Escaped, EscapedText
  <2>2. Fits(ind, Must(<<"bslash">>), <<"bslash">>, FALSE) /\ Fits(ind, Must(<<c>>), <<c>>, FALSE)
    BY <1>1, Bytes, FitsWrite
  <2>3. Fits(ind, Must(<<"bslash">>) \o Must(<<c>>), <<"bslash">> \o <<c>>, FALSE)
    BY <2>2, FitsConcat
  <2>4. QED
    BY <1>1, <2>1, <2>3, Bytes
<1>4. CASE c # "nl" /\ c \notin {"quote", "bslash"}
  <2>1. Escaped(c) = Must(<<c>>) /\ EscapedText(c) = <<c>>
    BY <1>4 DEF Escaped, EscapedText
  <2>2. QED
    BY <2>1, Bytes, FitsWrite
<1>5. QED
  BY <1>2, <1>3, <1>4

(* A string writes its quoted text, and ends with the quote. *)
LEMMA FitsString ==
  ASSUME NEW ind, NEW cp \in Seq(Char)
  PROVE  /\ Fits(ind, WriteString(cp), Quoted(cp), FALSE)
         /\ \E a \in Seq(Entry(ind)) : WriteString(cp) = a \o Must(<<"quote">>)
<1> DEFINE s == [n \in DOMAIN cp |-> Escaped(cp[n])]
           t == [n \in DOMAIN cp |-> EscapedText(cp[n])]
           q == <<"quote">>
<1>1. Len(cp) \in Nat /\ DOMAIN cp = 1 .. Len(cp) /\ \A n \in 1 .. Len(cp) : cp[n] \in Char
  BY LenProperties, ElementOfSeq
<1>2. \A n \in 1 .. Len(cp) : Fits(ind, Escaped(cp[n]), EscapedText(cp[n]), FALSE)
  BY <1>1, FitsEscaped
<1>3. /\ s \in [1 .. Len(cp) -> Seq(Entry(ind))] /\ t \in [1 .. Len(cp) -> Seq(Char)]
      /\ \A n \in 1 .. Len(cp) : s[n] = Escaped(cp[n]) /\ t[n] = EscapedText(cp[n])
  BY <1>1, <1>2 DEF Fits
<1> HIDE DEF s, t
<1>4. /\ s \in Rows(Entry(ind)) /\ Len(s) = Len(cp) /\ t \in Rows(Char) /\ Len(t) = Len(cp)
  BY <1>1, <1>3, ArrayOfRows
<1> DEFINE h == [n \in 1 .. Len(cp) |-> FALSE]
<1>5. \A n \in 1 .. Len(cp) : h[n] = FALSE
  OBVIOUS
<1> HIDE DEF h
<1>6. AllFit(ind, s, t, h)
  BY <1>2, <1>3, <1>4, <1>5 DEF AllFit
<1>7. Fits(ind, FlattenSeq(s), FlattenSeq(t), FALSE)
  BY <1>4, <1>5, <1>6, FitsFlatten
<1>8. Fits(ind, Must(q), q, FALSE)
  <2>1. "quote" \in Char
    BY DEF Char
  <2>2. QED
    BY <2>1, Bytes, FitsWrite
<1> HIDE DEF q
<1>9. Fits(ind, Must(q) \o FlattenSeq(s), q \o FlattenSeq(t), FALSE)
  BY <1>7, <1>8, FitsConcat
<1>10. Fits(ind, (Must(q) \o FlattenSeq(s)) \o Must(q), (q \o FlattenSeq(t)) \o q, FALSE)
  BY <1>8, <1>9, FitsConcat
<1>11. WriteString(cp) = (Must(q) \o FlattenSeq(s)) \o Must(q)
  BY DEF WriteString, s, q
<1>12. Quoted(cp) = (q \o FlattenSeq(t)) \o q
  BY QuotedIs DEF t, q
<1>13. Fits(ind, WriteString(cp), Quoted(cp), FALSE)
  BY <1>10, <1>11, <1>12
<1>14. Must(q) \o FlattenSeq(s) \in Seq(Entry(ind))
  BY <1>9 DEF Fits
<1>15. QED
  BY <1>11, <1>13, <1>14 DEF q

-----------------------------------------------------------------------------
(* The items of a container, as they are written one after the other and   *)
(* as the text has them joined.                                            *)
LEMMA Regroup ==
  ASSUME NEW x \in CharSeq, NEW y \in CharSeq, NEW g \in CharSeq,
         NEW c \in CharSeq, NEW t \in CharSeq, NEW d \in CharSeq
  PROVE  /\ Cat(x, Cat(Cat(Cat(y, t), d), x)) = Cat(Cat(Cat(Cat(x, y), t), d), x)
         /\ Cat(Cat(Cat(Cat(Cat(x, y), g), c), x), Cat(Cat(Cat(y, t), d), x))
              = Cat(Cat(Cat(Cat(x, y), Cat(g, Cat(Cat(c, Cat(x, y)), t))), d), x)
<1>1. PICK xy \in CharSeq : xy = Cat(x, y)
  BY CatBytes
<1>2. PICK yt \in CharSeq : yt = Cat(y, t)
  BY CatBytes
<1>3. PICK ytd \in CharSeq : ytd = Cat(yt, d)
  BY CatBytes
<1>4. PICK l \in CharSeq : l = Cat(xy, g)
  BY CatBytes
<1>5. PICK lc \in CharSeq : lc = Cat(l, c)
  BY CatBytes
<1>6. PICK lcx \in CharSeq : lcx = Cat(lc, x)
  BY CatBytes
<1>7. PICK z \in CharSeq : z = Cat(c, xy)
  BY CatBytes
<1>8. PICK zt \in CharSeq : zt = Cat(z, t)
  BY CatBytes
<1>9. Cat(x, Cat(ytd, x)) = Cat(Cat(Cat(xy, t), d), x)
  <2>1. Cat(Cat(x, ytd), x) = Cat(x, Cat(ytd, x))
    BY CatGroup
  <2>2. Cat(Cat(x, yt), d) = Cat(x, Cat(yt, d))
    BY CatGroup
  <2>3. Cat(Cat(x, y), t) = Cat(x, Cat(y, t))
    BY CatGroup
  <2>4. QED
    BY ONLY <1>1, <1>2, <1>3, <2>1, <2>2, <2>3
<1>10. Cat(xy, Cat(g, zt)) = Cat(lcx, yt)
  <2>1. Cat(Cat(xy, g), zt) = Cat(xy, Cat(g, zt))
    BY CatGroup
  <2>2. Cat(Cat(l, z), t) = Cat(l, Cat(z, t))
    BY CatGroup
  <2>3. Cat(Cat(l, c), xy) = Cat(l, Cat(c, xy))
    BY CatGroup
  <2>4. Cat(Cat(lc, x), y) = Cat(lc, Cat(x, y))
    BY CatGroup
  <2>5. Cat(Cat(lcx, y), t) = Cat(lcx, Cat(y, t))
    BY CatGroup
  <2>6. QED
    BY ONLY <1>1, <1>2, <1>4, <1>5, <1>6, <1>7, <1>8, <2>1, <2>2, <2>3, <2>4, <2>5
<1>11. Cat(lcx, Cat(ytd, x)) = Cat(Cat(Cat(lcx, yt), d), x)
  <2>1. Cat(Cat(lcx, ytd), x) = Cat(lcx, Cat(ytd, x))
    BY CatGroup
  <2>2. Cat(Cat(lcx, yt), d) = Cat(lcx, Cat(yt, d))
    BY CatGroup
  <2>3. QED
    BY ONLY <1>3, <2>1, <2>2
<1>12. QED
  BY ONLY <1>1, <1>2, <1>3, <1>4, <1>5, <1>6, <1>7, <1>8, <1>9, <1>10, <1>11

(* f, as many lines as there are parts in g, the last of them ended by e.  *)
Grown(x, y, f, g, e) == Cat(x, f) = Cat(Cat(Cat(Cat(x, y), g), e), x)

(* The first item, *)
LEMMA GrownFirst ==
  ASSUME NEW x \in CharSeq, NEW y \in CharSeq, NEW t \in CharSeq, NEW d \in CharSeq
  PROVE  Grown(x, y, Cat(Cat(Cat(y, t), d), x), t, d)
BY Regroup DEF Grown

OneMore(x, y, g, c, t, d) ==
  Cat(Cat(Cat(Cat(Cat(x, y), g), c), x), Cat(Cat(Cat(y, t), d), x))
    = Cat(Cat(Cat(Cat(x, y), Cat(g, Cat(Cat(c, Cat(x, y)), t))), d), x)

(* one more line, *)
LEMMA OneMoreIs ==
  ASSUME NEW x \in CharSeq, NEW y \in CharSeq, NEW g \in CharSeq,
         NEW c \in CharSeq, NEW t \in CharSeq, NEW d \in CharSeq
  PROVE  OneMore(x, y, g, c, t, d)
BY Regroup DEF OneMore

(* and one more item. *)
LEMMA GrownNext ==
  ASSUME NEW x \in CharSeq, NEW y \in CharSeq, NEW c \in CharSeq,
         NEW f \in CharSeq, NEW g \in CharSeq, Grown(x, y, f, g, c),
         NEW t \in CharSeq, NEW d \in CharSeq
  PROVE  Grown(x, y, Cat(f, Cat(Cat(Cat(y, t), d), x)), Cat(g, Cat(Cat(c, Cat(x, y)), t)), d)
<1>1. PICK l \in CharSeq : l = Cat(Cat(Cat(y, t), d), x)
  BY CatBytes
<1>2. Cat(Cat(x, f), l) = Cat(x, Cat(f, l))
  BY CatGroup
<1>3. OneMore(x, y, g, c, t, d)
  BY OneMoreIs
<1>4. QED
  BY <1>1, <1>2, <1>3 DEF Grown, OneMore

Framed(o, x, f, l, c, w) ==
  Cat(Cat(Cat(Cat(o, x), f), l), c) = Cat(Cat(o, Cat(w, Cat(x, l))), c)

(* The brackets around the items. *)
LEMMA RegroupEnds ==
  ASSUME NEW o \in CharSeq, NEW x \in CharSeq, NEW f \in CharSeq,
         NEW l \in CharSeq, NEW c \in CharSeq, NEW w \in CharSeq,
         Cat(x, f) = Cat(w, x)
  PROVE  Framed(o, x, f, l, c, w)
<1>1. PICK wx \in CharSeq : wx = Cat(w, x)
  BY CatBytes
<1>2. Cat(Cat(o, x), f) = Cat(o, Cat(x, f))
  BY CatGroup
<1>3. Cat(Cat(o, wx), l) = Cat(o, Cat(wx, l))
  BY CatGroup
<1>4. Cat(Cat(w, x), l) = Cat(w, Cat(x, l))
  BY CatGroup
<1>5. QED
  BY <1>1, <1>2, <1>3, <1>4 DEF Framed

(* The line of the k-th item. *)
ItemLine(x, y, t, k) == Cat(Cat(Cat(y, t[k]), Comma(t, k)), x)
JoinedPart(z, t, k) == IF k = 1 THEN t[k] ELSE Cat(z, t[k])

(* Partial results of FlattenSeq, in the same words. *)
LEMMA CharSums ==
  ASSUME NEW s \in Rows(Char)
  PROVE  \E f : /\ FlattenSeq(s) = f[Len(s)] /\ f[0] = <<>>
                /\ \A m \in 0 .. Len(s) : f[m] \in CharSeq
                /\ \A m \in 1 .. Len(s) : s[m] \in CharSeq /\ f[m] = Cat(f[m - 1], s[m])
<1>1. PICK f : Sums(Char, s, f) /\ FlattenSeq(s) = f[Len(s)]
  BY FlattenSum
<1>2. \A m \in 0 .. Len(s) : f[m] \in CharSeq
  BY <1>1 DEF Sums, CharSeq
<1>3. \A m \in 1 .. Len(s) : s[m] \in CharSeq
  BY RowFacts DEF CharSeq
<1>4. f[0] = <<>> /\ \A m \in 1 .. Len(s) : f[m] = Cat(f[m - 1], s[m])
  BY <1>1, Zenon DEF Sums, Cat
<1>5. QED
  BY <1>1, <1>2, <1>3, <1>4

(* Concatenation with nothing. *)
LEMMA CatNone == \A p \in CharSeq : Cat(<<>>, p) = p /\ Cat(p, <<>>) = p
<1> SUFFICES ASSUME NEW p \in Seq(Char) PROVE Cat(<<>>, p) = p /\ Cat(p, <<>>) = p
  BY DEF CharSeq
<1>1. QED
  BY ConcatEmptySeq DEF Cat

Lines(x, y, t, r) ==
  /\ r \in Rows(Char) /\ Len(r) = Len(t)
  /\ \A k \in 1 .. Len(t) : r[k] = ItemLine(x, y, t, k)

JoinedParts(x, y, t, q) ==
  /\ q \in Rows(Char) /\ Len(q) = Len(t)
  /\ \A k \in 1 .. Len(t) : q[k] = JoinedPart(Cat(<<",">>, Cat(x, y)), t, k)

SameText(x, y, r, q) == Cat(x, FlattenSeq(r)) = Cat(Cat(Cat(x, y), FlattenSeq(q)), x)

(* Lines that end with a comma, but for the last, and a line break are,    *)
(* behind a line break, the items joined by a comma and a line break.      *)
LEMMA LinesJoined ==
  ASSUME NEW t \in Rows(Char), Len(t) # 0, NEW x \in CharSeq, NEW y \in CharSeq,
         NEW r, Lines(x, y, t, r), NEW q, JoinedParts(x, y, t, q)
  PROVE  SameText(x, y, r, q)
<1> DEFINE c == <<",">>
           z == Cat(c, Cat(x, y))
           n == Len(t)
<1>1. PICK f : /\ FlattenSeq(r) = f[Len(r)] /\ f[0] = <<>>
               /\ \A m \in 0 .. Len(r) : f[m] \in CharSeq
               /\ \A m \in 1 .. Len(r) : r[m] \in CharSeq /\ f[m] = Cat(f[m - 1], r[m])
  BY CharSums DEF Lines
<1>2. PICK g : /\ FlattenSeq(q) = g[Len(q)] /\ g[0] = <<>>
               /\ \A m \in 0 .. Len(q) : g[m] \in CharSeq
               /\ \A m \in 1 .. Len(q) : q[m] \in CharSeq /\ g[m] = Cat(g[m - 1], q[m])
  BY CharSums DEF JoinedParts
<1>3. n \in Nat /\ n # 0
  BY RowFacts
<1>4. \A m \in 1 .. n : t[m] \in CharSeq
  BY RowFacts DEF CharSeq
<1>5. c \in CharSeq /\ <<>> \in CharSeq
  <2>1. "," \in Char
    BY DEF Char
  <2>2. QED
    BY <2>1, Bytes DEF CharSeq
<1> DEFINE d(m) == IF m < n THEN c ELSE <<>>
<1>6. \A m \in 1 .. n : r[m] = Cat(Cat(Cat(y, t[m]), d(m)), x)
  BY DEF Lines, ItemLine, Comma
<1>7. \A m \in 1 .. n : q[m] = IF m = 1 THEN t[m] ELSE Cat(z, t[m])
  BY DEF JoinedParts, JoinedPart
<1>8. Len(r) = n /\ Len(q) = n
  BY DEF Lines, JoinedParts
<1> HIDE DEF n, c
<1>9. \A m : d(m) \in CharSeq
  BY <1>5
<1>10. \A m \in 0 .. n : f[m] \in CharSeq /\ g[m] \in CharSeq
  BY <1>1, <1>2, <1>8
<1>11. \A m \in 1 .. n : f[m] = Cat(f[m - 1], r[m]) /\ g[m] = Cat(g[m - 1], q[m])
  BY <1>1, <1>2, <1>8
<1> DEFINE P(m) == Grown(x, y, f[m], g[m], d(m))
           T == {m \in 1 .. n : ~ P(m)}
<1>12. ASSUME T # {}
       PROVE  FALSE
  <2>1. PICK m \in T : \A k \in T : m <= k
    <3>1. T \in SUBSET Nat
      <4> HIDE DEF P
      <4>1. QED
        BY ONLY <1>3
    <3> HIDE DEF T
    <3>2. QED
      BY <1>12, <3>1, LeastNatural
  <2> HIDE DEF P
  <2>2. m \in 1 .. n /\ ~ P(m) /\ m \in Nat
    BY ONLY <1>3, <2>1
  <2>3. \A k \in 1 .. n : k < m => P(k)
    <3>1. \A k \in 1 .. n : ~ P(k) => k \in T
      OBVIOUS
    <3> HIDE DEF T
    <3>2. \A k \in T : m <= k
      BY <2>1
    <3>3. QED
      BY ONLY <1>3, <2>2, <3>1, <3>2
  <2> USE DEF P
  <2>4. CASE m = 1
    <3>1. 1 \in 1 .. n /\ 1 - 1 = 0
      BY ONLY <2>2, <2>4
    <3>2. r[1] \in CharSeq /\ t[1] \in CharSeq /\ d(1) \in CharSeq
      BY <1>1, <1>4, <1>8, <1>9, <3>1
    <3>3. f[1] = Cat(f[0], r[1]) /\ g[1] = Cat(g[0], q[1]) /\ q[1] = t[1]
      BY <1>7, <1>11, <3>1
    <3>4. f[1] = r[1] /\ g[1] = t[1]
      BY <1>1, <1>2, <3>2, <3>3, CatNone
    <3>5. r[1] = Cat(Cat(Cat(y, t[1]), d(1)), x)
      BY <1>6, <3>1
    <3>6. Grown(x, y, Cat(Cat(Cat(y, t[1]), d(1)), x), t[1], d(1))
      BY <3>2, GrownFirst
    <3>7. P(1)
      BY <3>4, <3>5, <3>6
    <3>8. QED
      BY <2>2, <2>4, <3>7
  <2>5. CASE m # 1
    <3>1. m - 1 \in 1 .. n /\ m - 1 < m /\ m - 1 < n /\ m - 1 \in 0 .. n
      BY ONLY <1>3, <2>2, <2>5
    <3>2. P(m - 1) /\ d(m - 1) = c
      BY <2>3, <3>1
    <3> DEFINE ff == f[m - 1]
               gg == g[m - 1]
               tm == t[m]
               e == d(m)
    <3>3. Grown(x, y, ff, gg, c)
      BY <3>2
    <3>4. ff \in CharSeq /\ gg \in CharSeq /\ tm \in CharSeq /\ e \in CharSeq
      BY <1>4, <1>9, <1>10, <2>2, <3>1
    <3>5. f[m] = Cat(ff, r[m]) /\ r[m] = Cat(Cat(Cat(y, tm), e), x)
      BY <1>6, <1>11, <2>2
    <3>6. g[m] = Cat(gg, Cat(z, tm))
      BY <1>7, <1>11, <2>2, <2>5
    <3> HIDE DEF ff, gg, tm, e
    <3>7. Grown(x, y, Cat(ff, Cat(Cat(Cat(y, tm), e), x)), Cat(gg, Cat(z, tm)), e)
      BY <1>5, <3>3, <3>4, GrownNext
    <3>8. P(m)
      BY <3>5, <3>6, <3>7 DEF e
    <3>9. QED
      BY <2>2, <3>8
  <2>6. QED
    BY <2>4, <2>5
<1>13. P(n)
  <2>1. n \in 1 .. n
    BY ONLY <1>3
  <2> HIDE DEF P
  <2>2. QED
    BY <1>12, <2>1
<1>14. d(n) = <<>>
  <2>1. ~ (n < n)
    BY ONLY <1>3
  <2>2. QED
    BY <2>1
<1>15. Cat(Cat(Cat(x, y), g[n]), <<>>) = Cat(Cat(x, y), g[n])
  <2>1. g[n] \in CharSeq
    BY ONLY <1>3, <1>10
  <2>2. Cat(Cat(x, y), g[n]) \in CharSeq
    BY <2>1, CatBytes
  <2>3. QED
    BY <2>2, CatNone
<1>16. Cat(x, f[n]) = Cat(Cat(Cat(x, y), g[n]), x)
  BY <1>13, <1>14, <1>15 DEF Grown
<1>17. QED
  BY <1>1, <1>2, <1>8, <1>16 DEF SameText

-----------------------------------------------------------------------------
(* A container with items. *)
Open(d) == IF d.type = "object" THEN <<"{">> ELSE <<"[">>
Close(d) == IF d.type = "object" THEN <<"}">> ELSE <<"]">>

Before(ind, d, k) ==
  IF d.type = "object" THEN WriteString(d.items[k].key) \o WriteColon(ind) ELSE <<>>

ItemWrites(ind, d, n, v) ==
  [k \in DOMAIN d.items |-> WriteItem(d.items, k, ind, n + 1, Before(ind, d, k), v[k])]

(* Objects and lists that are not empty are written in the same way. *)
LEMMA WrittenIs ==
  ASSUME NEW ind, NEW d, d.type \in {"object", "list"}, d.items # <<>>, NEW n \in Nat, NEW v
  PROVE  Written(ind, d, n, v) =
           Cat(Cat(Cat(Cat(Must(Open(d)), WriteNewline(ind)), FlattenSeq(ItemWrites(ind, d, n, v))),
                   WriteIndent(ind, n)), Must(Close(d)))
<1> DEFINE all == Must(Open(d)) \o WriteNewline(ind) \o FlattenSeq(ItemWrites(ind, d, n, v))
                    \o WriteIndent(ind, n) \o Must(Close(d))
<1>0. SUFFICES Written(ind, d, n, v) = all
  BY Zenon DEF Cat
<1>1. CASE d.type = "object"
  <2>1. ItemWrites(ind, d, n, v) =
          [k \in DOMAIN d.items |->
             WriteItem(d.items, k, ind, n + 1,
                       WriteString(d.items[k].key) \o WriteColon(ind), v[k])]
    BY <1>1, Zenon DEF ItemWrites, Before
  <2>2. Written(ind, d, n, v) = WriteObject(d, ind, n, v)
    BY <1>1 DEF Written
  <2>3. Open(d) = <<"{">> /\ Close(d) = <<"}">>
    BY <1>1 DEF Open, Close
  <2>4. QED
    BY <2>1, <2>2, <2>3, Zenon DEF WriteObject
<1>2. CASE d.type = "list"
  <2>1. d.type # "object"
    BY <1>2
  <2>2. ItemWrites(ind, d, n, v) =
          [k \in DOMAIN d.items |-> WriteItem(d.items, k, ind, n + 1, <<>>, v[k])]
    BY <2>1, Zenon DEF ItemWrites, Before
  <2>3. Written(ind, d, n, v) = WriteList(d, ind, n, v)
    BY <1>2 DEF Written
  <2>4. Open(d) = <<"[">> /\ Close(d) = <<"]">>
    BY <2>1, Zenon DEF Open, Close
  <2>5. QED
    BY <2>2, <2>3, <2>4, Zenon DEF WriteList
<1>3. QED
  BY <1>1, <1>2

NotEmpty(t) == t # <<>>
Container(d) == d.type \in {"object", "list"}

(* And so is their text. *)
LEMMA SaidIs ==
  ASSUME NEW ind, NEW d, Container(d), NEW n, NEW t, NotEmpty(t)
  PROVE  Said(ind, d, n, t) =
           Cat(Cat(Open(d), Cat(Cat(Line(ind, n + 1), Joined(t, Cat(<<",">>, Line(ind, n + 1)))),
                                Line(ind, n))), Close(d))
<1> DEFINE inside == IF t = <<>> THEN <<>>
                     ELSE Line(ind, n + 1) \o Joined(t, <<",">> \o Line(ind, n + 1)) \o Line(ind, n)
<1>4. inside = Cat(Cat(Line(ind, n + 1), Joined(t, Cat(<<",">>, Line(ind, n + 1)))), Line(ind, n))
  BY Zenon DEF Cat, NotEmpty
<1> HIDE DEF inside
<1>1. CASE d.type = "object"
  <2>1. Open(d) = <<"{">> /\ Close(d) = <<"}">>
    BY <1>1 DEF Open, Close
  <2>2. Said(ind, d, n, t) = <<"{">> \o inside \o <<"}">>
    BY <1>1, Zenon DEF Said, inside
  <2>3. Said(ind, d, n, t) = Cat(Cat(<<"{">>, inside), <<"}">>)
    BY <2>2, Zenon DEF Cat
  <2>4. QED
    BY <1>4, <2>1, <2>3
<1>2. CASE d.type = "list"
  <2>1. d.type # "object"
    BY <1>2
  <2>2. Open(d) = <<"[">> /\ Close(d) = <<"]">>
    BY <2>1, Zenon DEF Open, Close
  <2>3. Said(ind, d, n, t) = <<"[">> \o inside \o <<"]">>
    BY <1>2, <2>1 DEF Said, inside
  <2>4. Said(ind, d, n, t) = Cat(Cat(<<"[">>, inside), <<"]">>)
    BY <2>3, Zenon DEF Cat
  <2>5. QED
    BY <1>4, <2>2, <2>4
<1>3. QED
  BY <1>1, <1>2 DEF Container

(* What comes before the value of an item. *)
LEMMA FitsBefore ==
  ASSUME NEW ind, NEW d \in Doc, NEW k \in DOMAIN d.items
  PROVE  Fits(ind, Before(ind, d, k), Name(ind, d, k), FALSE)
<1>1. CASE d.type = "object"
  <2>1. d.items[k].key \in Seq(Char)
    <3>1. d.items \in Seq([key : Seq(Char), value : Doc])
      BY JsonWriteAssumption DEF Value
    <3>2. d.items[k] \in [key : Seq(Char), value : Doc]
      BY <3>1, LenProperties, ElementOfSeq
    <3>3. QED
      BY <3>2
  <2> DEFINE s == d.items[k].key
  <2>2. Fits(ind, WriteString(s), Quoted(s), FALSE)
    BY <2>1, FitsString
  <2>3. Fits(ind, WriteColon(ind), Colon(ind), FALSE)
    BY FitsSimple
  <2>4. Fits(ind, WriteString(s) \o WriteColon(ind), Quoted(s) \o Colon(ind), FALSE)
    BY <2>2, <2>3, FitsConcat
  <2>5. Name(ind, d, k) = Quoted(s) \o Colon(ind)
    BY <1>1, Zenon DEF Name, Colon
  <2>6. Before(ind, d, k) = WriteString(s) \o WriteColon(ind)
    BY <1>1 DEF Before
  <2>7. QED
    BY <2>4, <2>5, <2>6
<1>2. CASE d.type # "object"
  <2>1. Before(ind, d, k) = <<>> /\ Name(ind, d, k) = <<>>
    BY <1>2 DEF Before, Name
  <2>2. QED
    BY <2>1, FitsNone
<1>3. QED
  BY <1>1, <1>2

(* The beginning of a line is a line break and the indents. *)
LEMMA LineIs ==
  ASSUME NEW ind \in Indents, NEW n \in Nat
  PROVE  Line(ind, n) = Cat(NewLine(ind), Tab(ind, n)) /\ NewLine(ind) \in CharSeq /\ Tab(ind, n) \in CharSeq
<1>1. Tab(ind, n) \in Seq(Char)
  BY FitsIndent DEF Fits
<1>2. NewLine(ind) \in Seq(Char)
  <2>1. "nl" \in Char
    BY DEF Char
  <2>2. QED
    BY <2>1, Bytes DEF NewLine
<1>3. CASE ind = NONE
  <2>1. Line(ind, n) = <<>> /\ NewLine(ind) = <<>> /\ Tab(ind, n) = <<>>
    BY <1>3 DEF Line, NewLine, Tab
  <2>2. <<>> \o <<>> = <<>>
    BY <1>1, <2>1, ConcatEmptySeq
  <2>3. QED
    BY <1>1, <1>2, <2>1, <2>2 DEF Cat, CharSeq
<1>4. CASE ind # NONE
  <2>1. Line(ind, n) = NewLine(ind) \o Tab(ind, n)
    BY <1>4, Zenon DEF Line, NewLine, Tab
  <2>2. QED
    BY <1>1, <1>2, <2>1, Zenon DEF Cat, CharSeq
<1>5. QED
  BY <1>3, <1>4

(* The writes of an item, with their texts.                                *)
ItemsOf(ind, d, u, t) == t = [k \in DOMAIN d.items |-> Cat(Name(ind, d, k), u[k])]
AllWritten(ind, d, v, u, h) == \A k \in DOMAIN d.items : Fits(ind, v[k], u[k], h[k])

(* An item whose value writes its text. *)
LEMMA FitsItem ==
  ASSUME NEW ind \in Indents, NEW d \in Doc, NEW k \in DOMAIN d.items, NEW n \in Nat,
         NEW w, NEW u, NEW h, Fits(ind, w, u, h)
  PROVE  Fits(ind, WriteItem(d.items, k, ind, n + 1, Before(ind, d, k), w),
              Cat(Cat(Cat(Tab(ind, n + 1), Cat(Name(ind, d, k), u)), Comma(d.items, k)), NewLine(ind)), h)
<1> DEFINE a == Tab(ind, n + 1)
           b == Name(ind, d, k)
           c == Comma(d.items, k)
           e == NewLine(ind)
           wa == WriteIndent(ind, n + 1)
           wb == Before(ind, d, k)
           wc == WriteComma(d.items, k)
           we == WriteNewline(ind)
<1>1. Fits(ind, wa, a, FALSE)
  <2>1. n + 1 \in Nat
    OBVIOUS
  <2>2. QED
    BY <2>1, FitsIndent
<1>2. Fits(ind, wb, b, FALSE)
  BY FitsBefore
<1>3. Fits(ind, wc, c, FALSE)
  BY FitsSimple
<1>4. Fits(ind, we, e, FALSE)
  BY FitsSimple
<1>5. WriteItem(d.items, k, ind, n + 1, Before(ind, d, k), w) = Cat(Cat(Cat(Cat(wa, wb), w), wc), we)
  BY Zenon DEF WriteItem, Cat
<1> HIDE DEF a, b, c, e, wa, wb, wc, we
<1>6. Fits(ind, Cat(wa, wb), Cat(a, b), FALSE)
  BY <1>1, <1>2, FitsBehind
<1>7. Fits(ind, Cat(Cat(wa, wb), w), Cat(Cat(a, b), u), h)
  BY <1>6, FitsBehind
<1>8. Fits(ind, Cat(Cat(Cat(wa, wb), w), wc), Cat(Cat(Cat(a, b), u), c), h)
  BY <1>3, <1>7, FitsAhead
<1>9. Fits(ind, Cat(Cat(Cat(Cat(wa, wb), w), wc), we), Cat(Cat(Cat(Cat(a, b), u), c), e), h)
  BY <1>4, <1>8, FitsAhead
<1>10. Cat(Cat(a, b), u) = Cat(a, Cat(b, u))
  <2>1. a \in CharSeq /\ b \in CharSeq /\ u \in CharSeq
    BY <1>1, <1>2 DEF Fits, CharSeq
  <2>2. QED
    BY <2>1, CatGroup
<1>11. QED
  BY <1>5, <1>9, <1>10 DEF a, b, c, e

(* A container writes its text if its values do. *)
LEMMA FitsContainer ==
  ASSUME NEW ind \in Indents, NEW d \in Doc, d.type \in {"object", "list"}, d.items # <<>>,
         NEW n \in Nat, NEW v, NEW u, NEW h, NEW t,
         AllWritten(ind, d, v, u, h), ItemsOf(ind, d, u, t),
         NEW has, has <=> \E k \in DOMAIN d.items : h[k]
  PROVE  /\ Fits(ind, Written(ind, d, n, v), Said(ind, d, n, t), has)
         /\ \E a \in Seq(Entry(ind)) : Written(ind, d, n, v) = Cat(a, Must(Close(d)))
<1> DEFINE K == Len(d.items)
           s == ItemWrites(ind, d, n, v)
           x == NewLine(ind)
           y == Tab(ind, n + 1)
           l == Tab(ind, n)
           z == Cat(<<",">>, Cat(x, y))
           r == [k \in 1 .. K |-> ItemLine(x, y, t, k)]
           q == [k \in 1 .. K |-> JoinedPart(z, t, k)]
<1>1. K \in Nat /\ K # 0 /\ DOMAIN d.items = 1 .. K
  <2>1. d.items \in Seq([key : Seq(Char), value : Doc])
    BY JsonWriteAssumption DEF Value
  <2>2. QED
    BY <2>1, LenProperties, EmptySeq
<1>2. x \in CharSeq /\ y \in CharSeq /\ l \in CharSeq /\ "," \in Char /\ <<",">> \in CharSeq
  <2>1. x \in CharSeq /\ y \in CharSeq /\ l \in CharSeq
    BY LineIs
  <2>2. "," \in Char
    BY DEF Char
  <2>3. QED
    BY <2>1, <2>2, Bytes DEF CharSeq
<1>3. Line(ind, n + 1) = Cat(x, y) /\ Line(ind, n) = Cat(x, l) /\ z \in CharSeq
  <2>1. n + 1 \in Nat
    OBVIOUS
  <2>2. Line(ind, n + 1) = Cat(x, y) /\ Line(ind, n) = Cat(x, l)
    BY <2>1, LineIs
  <2>3. Cat(x, y) \in CharSeq
    BY <1>2, CatBytes
  <2>4. z \in CharSeq
    BY <1>2, <2>3, CatBytes
  <2>5. QED
    BY <2>2, <2>4
<1>4. \A k \in 1 .. K : /\ Fits(ind, v[k], u[k], h[k]) /\ k \in DOMAIN d.items
                        /\ t[k] = Cat(Name(ind, d, k), u[k]) /\ t[k] \in CharSeq
  <2> TAKE k \in 1 .. K
  <2>1. k \in DOMAIN d.items
    BY <1>1
  <2>2. Fits(ind, v[k], u[k], h[k])
    BY <2>1 DEF AllWritten
  <2>3. t[k] = Cat(Name(ind, d, k), u[k])
    BY <2>1 DEF ItemsOf
  <2>4. Name(ind, d, k) \in CharSeq /\ u[k] \in CharSeq
    BY <2>1, <2>2, FitsBefore DEF Fits, CharSeq
  <2>5. QED
    BY <2>1, <2>2, <2>3, <2>4, CatBytes
<1>5. t \in Rows(Char) /\ Len(t) = K /\ DOMAIN t = 1 .. K /\ t # <<>>
  <2>1. t \in [1 .. K -> Seq(Char)] /\ DOMAIN t = 1 .. K
    <3>1. DOMAIN t = 1 .. K /\ t = [k \in 1 .. K |-> t[k]]
      BY <1>1 DEF ItemsOf
    <3>2. \A k \in 1 .. K : t[k] \in Seq(Char)
      BY <1>4 DEF CharSeq
    <3>3. QED
      BY ONLY <3>1, <3>2
  <2>2. t \in Rows(Char) /\ Len(t) = K
    BY <1>1, <2>1, ArrayOfRows
  <2>3. t # <<>>
    BY ONLY <1>1, <2>2, EmptySeq
  <2>4. QED
    BY <2>1, <2>2, <2>3
<1>6. \A k \in 1 .. K : Fits(ind, WriteItem(d.items, k, ind, n + 1, Before(ind, d, k), v[k]),
                             ItemLine(x, y, t, k), h[k])
  <2> TAKE k \in 1 .. K
  <2>1. Comma(t, k) = Comma(d.items, k)
    BY <1>5, Zenon DEF Comma
  <2>2. Fits(ind, WriteItem(d.items, k, ind, n + 1, Before(ind, d, k), v[k]),
             Cat(Cat(Cat(Tab(ind, n + 1), Cat(Name(ind, d, k), u[k])), Comma(d.items, k)), NewLine(ind)),
             h[k])
    BY <1>4, FitsItem
  <2>3. QED
    BY <1>4, <2>1, <2>2 DEF ItemLine
<1>7. /\ s \in Rows(Entry(ind)) /\ Len(s) = K
      /\ \A k \in 1 .. K : s[k] = WriteItem(d.items, k, ind, n + 1, Before(ind, d, k), v[k])
  <2>1. \A k \in 1 .. K : s[k] = WriteItem(d.items, k, ind, n + 1, Before(ind, d, k), v[k])
    BY <1>1 DEF ItemWrites
  <2>2. s \in [1 .. K -> Seq(Entry(ind))]
    <3>1. \A k \in 1 .. K : s[k] \in Seq(Entry(ind))
      BY <1>6, <2>1 DEF Fits
    <3>2. s = [k \in 1 .. K |-> s[k]]
      BY <1>1 DEF ItemWrites
    <3> HIDE DEF s
    <3>3. QED
      BY ONLY <3>1, <3>2
  <2> HIDE DEF s
  <2>3. s \in Rows(Entry(ind)) /\ Len(s) = K
    BY <1>1, <2>2, ArrayOfRows
  <2>4. QED
    BY <2>1, <2>3
<1>8. r \in Rows(Char) /\ Len(r) = K /\ \A k \in 1 .. K : r[k] = ItemLine(x, y, t, k)
  <2>1. \A k \in 1 .. K : ItemLine(x, y, t, k) \in Seq(Char)
    BY <1>6 DEF Fits
  <2>2. r \in [1 .. K -> Seq(Char)] /\ \A k \in 1 .. K : r[k] = ItemLine(x, y, t, k)
    BY <2>1
  <2> HIDE DEF r
  <2>3. QED
    BY <1>1, <2>2, ArrayOfRows
<1>9. q \in Rows(Char) /\ Len(q) = K /\ \A k \in 1 .. K : q[k] = JoinedPart(z, t, k)
  <2>1. \A k \in 1 .. K : JoinedPart(z, t, k) \in Seq(Char)
    BY <1>3, <1>4, CatBytes DEF JoinedPart, CharSeq
  <2>2. q \in [1 .. K -> Seq(Char)] /\ \A k \in 1 .. K : q[k] = JoinedPart(z, t, k)
    BY <2>1
  <2> HIDE DEF q
  <2>3. QED
    BY <1>1, <2>2, ArrayOfRows
<1>10. Joined(t, Cat(<<",">>, Line(ind, n + 1))) = FlattenSeq(q)
  <2>1. Cat(<<",">>, Line(ind, n + 1)) = z
    BY <1>3
  <2>2. [k \in DOMAIN t |-> IF k = 1 THEN t[k] ELSE z \o t[k]] = q
    BY <1>5, Zenon DEF JoinedPart, Cat
  <2> HIDE DEF z, q
  <2>3. QED
    BY <2>1, <2>2, Zenon DEF Joined
<1> HIDE DEF s, r, q, x, y, l, K
<1>11. Cat(x, FlattenSeq(r)) = Cat(Cat(Cat(x, y), FlattenSeq(q)), x)
  <2>1. Len(t) # 0 /\ Len(r) = Len(t) /\ Len(q) = Len(t)
    BY <1>1, <1>5, <1>8, <1>9
  <2>2. Lines(x, y, t, r)
    BY <1>5, <1>8 DEF Lines
  <2>3. JoinedParts(x, y, t, q)
    BY <1>5, <1>9 DEF JoinedParts
  <2> HIDE DEF z
  <2>4. SameText(x, y, r, q)
    BY <1>2, <1>5, <2>1, <2>2, <2>3, LinesJoined
  <2>5. QED
    BY <2>4 DEF SameText
<1>12. Fits(ind, FlattenSeq(s), FlattenSeq(r), has)
  <2>1. AllFit(ind, s, r, h)
    BY <1>6, <1>7, <1>8 DEF AllFit
  <2>2. has <=> \E k \in 1 .. Len(s) : h[k]
    BY <1>1, <1>7
  <2>3. QED
    BY <2>1, <2>2, FitsFlatten
<1> DEFINE o == Open(d)
           c == Close(d)
<1>13. Fits(ind, Must(o), o, FALSE) /\ Fits(ind, Must(c), c, FALSE)
  <2>1. "{" \in Char /\ "[" \in Char /\ "}" \in Char /\ "]" \in Char
    BY DEF Char
  <2>2. o \in Seq(Char) /\ o # <<>> /\ c \in Seq(Char) /\ c # <<>>
    BY <2>1, Bytes DEF Open, Close
  <2>3. QED
    BY <2>2, FitsWrite
<1> HIDE DEF o, c
<1>14. Fits(ind, WriteNewline(ind), x, FALSE) /\ Fits(ind, WriteIndent(ind, n), l, FALSE)
  BY FitsSimple, FitsIndent DEF x, l
<1> DEFINE w1 == Cat(Must(o), WriteNewline(ind))
           w2 == Cat(w1, FlattenSeq(s))
           w3 == Cat(w2, WriteIndent(ind, n))
           w4 == Cat(w3, Must(c))
<1>15. Fits(ind, w1, Cat(o, x), FALSE)
  BY <1>13, <1>14, FitsBehind
<1> HIDE DEF w1
<1>16. Fits(ind, w2, Cat(Cat(o, x), FlattenSeq(r)), has)
  BY <1>12, <1>15, FitsBehind
<1> HIDE DEF w2
<1>17. Fits(ind, w3, Cat(Cat(Cat(o, x), FlattenSeq(r)), l), has)
  BY <1>14, <1>16, FitsAhead
<1> HIDE DEF w3
<1>18. Fits(ind, w4, Cat(Cat(Cat(Cat(o, x), FlattenSeq(r)), l), c), has)
  BY <1>13, <1>17, FitsAhead
<1>19. Written(ind, d, n, v) = w4
  BY WrittenIs DEF w3, w2, w1, s, o, c
<1> DEFINE w == Cat(Cat(x, y), FlattenSeq(q))
<1>20. Cat(Cat(Cat(Cat(o, x), FlattenSeq(r)), l), c) = Cat(Cat(o, Cat(w, Cat(x, l))), c)
  <2>1. o \in CharSeq /\ c \in CharSeq /\ FlattenSeq(r) \in CharSeq
    BY <1>12, <1>13 DEF Fits, CharSeq
  <2>2. w \in CharSeq
    <3>1. FlattenSeq(q) \in CharSeq
      BY <1>9, FlattenSum DEF CharSeq
    <3>2. QED
      BY <1>2, <3>1, CatBytes
  <2>3. Cat(x, FlattenSeq(r)) = Cat(w, x)
    BY <1>11
  <2> HIDE DEF w
  <2>4. Framed(o, x, FlattenSeq(r), l, c, w)
    BY <1>2, <2>1, <2>2, <2>3, RegroupEnds
  <2>5. QED
    BY <2>4 DEF Framed
<1>21. Said(ind, d, n, t) = Cat(Cat(o, Cat(w, Cat(x, l))), c)
  <2>1. Said(ind, d, n, t) =
           Cat(Cat(o, Cat(Cat(Line(ind, n + 1), Joined(t, Cat(<<",">>, Line(ind, n + 1)))),
                          Line(ind, n))), c)
    <3>1. NotEmpty(t) /\ Container(d)
      BY <1>5 DEF NotEmpty, Container
    <3>2. Said(ind, d, n, t) =
           Cat(Cat(Open(d), Cat(Cat(Line(ind, n + 1), Joined(t, Cat(<<",">>, Line(ind, n + 1)))),
                                Line(ind, n))), Close(d))
      BY <3>1, SaidIs
    <3>3. QED
      BY <3>2 DEF o, c
  <2>2. QED
    BY <1>3, <1>10, <2>1
<1>22. Fits(ind, Written(ind, d, n, v), Said(ind, d, n, t), has)
  BY <1>18, <1>19, <1>20, <1>21
<1>23. w3 \in Seq(Entry(ind)) /\ Written(ind, d, n, v) = Cat(w3, Must(Close(d)))
  BY <1>17, <1>19 DEF Fits, c
<1>24. QED
  BY <1>22, <1>23

-----------------------------------------------------------------------------
(* What holds of the writes of every value: they write its text, one of    *)
(* them is never made exactly if the value cannot be written, and the last *)
(* one must bring something: one byte, unless it is the only one.          *)
Ends(d, ws) ==
  /\ ws # <<>> /\ ws[Len(ws)].test \in {"must", "refuse"}
  /\ Bare(d) => Len(ws) = 1
  /\ ~ Bare(d) /\ ws[Len(ws)].test = "must" => Len(ws[Len(ws)].text) = 1

WritesOf(ind, d, n) == Solution("write", ind)[d][n]
TextOf(ind, d, n) == Solution("text", ind)[d][n]
CannotBe(ind, d) == Solution("has", ind)[d]

Good(ind, d, n) ==
  Fits(ind, WritesOf(ind, d, n), TextOf(ind, d, n), CannotBe(ind, d)) /\ Ends(d, WritesOf(ind, d, n))

(* The three recursions at a value, one step unfolded. *)
LEMMA Unfolded ==
  ASSUME NEW ind, NEW d \in Doc, NEW n \in Nat
  PROVE  /\ WritesOf(ind, d, n) = Written(ind, d, n, At(Solution("write", ind), d, n + 1))
         /\ TextOf(ind, d, n) = Said(ind, d, n, Items(ind, Solution("text", ind), d, n + 1))
         /\ CannotBe(ind, d) = Broken(d, Solution("has", ind))
<1>1. Solution("write", ind)[d] = Step("write", ind, Solution("write", ind), d)
  BY SolutionSolves
<1>2. Solution("text", ind)[d] = Step("text", ind, Solution("text", ind), d)
  BY SolutionSolves
<1>3. Solution("has", ind)[d] = Step("has", ind, Solution("has", ind), d)
  BY SolutionSolves
<1>4. \A f : Step("write", ind, f, d)[n] = Written(ind, d, n, At(f, d, n + 1))
  BY DEF Step
<1>5. \A f : Step("text", ind, f, d)[n] = Said(ind, d, n, Items(ind, f, d, n + 1))
  BY DEF Step
<1>6. \A f : Step("has", ind, f, d) = Broken(d, f)
  BY DEF Step
<1>7. WritesOf(ind, d, n) = Written(ind, d, n, At(Solution("write", ind), d, n + 1))
  BY <1>1, <1>4, Zenon DEF WritesOf
<1>8. TextOf(ind, d, n) = Said(ind, d, n, Items(ind, Solution("text", ind), d, n + 1))
  BY <1>2, <1>5, Zenon DEF TextOf
<1>9. CannotBe(ind, d) = Broken(d, Solution("has", ind))
  BY <1>3, <1>6, Zenon DEF CannotBe
<1>10. QED
  BY <1>7, <1>8, <1>9

(* The end of one write, and of writes that end with one that must be      *)
(* made.                                                                   *)
LEMMA EndsWrite ==
  ASSUME NEW ind, NEW d, NEW t, NEW test \in {"must", "refuse"}
  PROVE  /\ Bare(d) \/ test = "refuse" => Ends(d, Write(t, test))
         /\ \A a \in Seq(Entry(ind)) : ~ Bare(d) /\ [text |-> t, test |-> "must"] \in Entry(ind) /\ Len(t) = 1
              => Ends(d, a \o Must(t))
<1>1. ASSUME Bare(d) \/ test = "refuse"
      PROVE  Ends(d, Write(t, test))
  <2> DEFINE e == [text |-> t, test |-> test]
             w == <<e>>
  <2>1. e.text = t /\ e.test = test
    OBVIOUS
  <2>2. Write(t, test) = w
    BY DEF Write
  <2> HIDE DEF e
  <2>3. Len(w) = 1 /\ w[1] = e /\ w # <<>>
    OBVIOUS
  <2> HIDE DEF w
  <2>4. QED
    BY <1>1, <2>1, <2>2, <2>3 DEF Ends
<1>2. ASSUME NEW a \in Seq(Entry(ind)), ~ Bare(d), [text |-> t, test |-> "must"] \in Entry(ind), Len(t) = 1
      PROVE  Ends(d, a \o Must(t))
  <2> DEFINE e == [text |-> t, test |-> "must"]
             w == <<e>>
             s == a \o w
  <2>1. e.text = t /\ e.test = "must" /\ e \in Entry(ind)
    BY <1>2
  <2>2. Must(t) = w
    BY DEF Must, Write
  <2> HIDE DEF e
  <2>3. Len(w) = 1 /\ w[1] = e /\ w \in Seq(Entry(ind))
    BY <2>1
  <2> HIDE DEF w
  <2>4. /\ s \in Seq(Entry(ind)) /\ Len(s) = Len(a) + Len(w)
        /\ \A k \in 1 .. Len(a) + Len(w) : s[k] = IF k <= Len(a) THEN a[k] ELSE w[k - Len(a)]
    BY <1>2, <2>3, ConcatProperties
  <2>5. Len(a) \in Nat
    BY <1>2, LenProperties
  <2> HIDE DEF s
  <2>6. Len(s) = Len(a) + 1 /\ s[Len(a) + 1] = e
    BY <2>3, <2>4, <2>5
  <2>7. s # <<>>
    BY <2>5, <2>6, EmptySeq
  <2>8. Ends(d, s)
    BY <1>2, <2>1, <2>6, <2>7 DEF Ends
  <2>9. QED
    BY <2>2, <2>8 DEF s
<1>3. QED
  BY <1>1, <1>2

(* A value with no items is written as it should be, *)
LEMMA LeafGood ==
  ASSUME NEW ind, NEW d \in Doc, ~ Container(d) \/ d.items = <<>>, NEW n \in Nat
  PROVE  Good(ind, d, n)
<1> DEFINE w == WritesOf(ind, d, n)
           t == TextOf(ind, d, n)
           f == Solution("write", ind)
           g == Solution("text", ind)
           h == Solution("has", ind)
           v == At(f, d, n + 1)
           s == Items(ind, g, d, n + 1)
<1>1. w = Written(ind, d, n, v) /\ t = Said(ind, d, n, s) /\ CannotBe(ind, d) = Broken(d, h)
  BY Unfolded
<1>2. /\ d.type \in {"null", "number", "string", "bool", "object", "list", "error"}
      /\ d.items = <<>> /\ d.text \in Seq(Char)
      /\ d.type \in {"number", "bool"} => d.text # <<>>
  BY JsonWriteAssumption DEF Value, Container
<1>3. CannotBe(ind, d) <=> (d.type = "error" \/ (d.type = "number" /\ Len(d.text) >= NumberLen))
  BY <1>1, <1>2 DEF Broken
<1>4. s = <<>>
  BY <1>2 DEF Items
<1> HIDE DEF w, t, v, s, f, g, h
<1>5. SUFFICES Fits(ind, w, t, CannotBe(ind, d)) /\ Ends(d, w)
  BY DEF Good, w, t
<1>6. CASE d.type = "null"
  <2>1. w = WriteNull /\ t = Spelled("n") /\ Bare(d) /\ ~ CannotBe(ind, d)
    BY <1>1, <1>3, <1>6 DEF Written, Said, Bare
  <2>2. Fits(ind, w, t, CannotBe(ind, d))
    BY <2>1, FitsSimple DEF Fits
  <2>3. Ends(d, w)
    BY <2>1, EndsWrite DEF WriteNull, Must
  <2>4. QED
    BY <2>2, <2>3
<1>7. CASE d.type = "number"
  <2>1. w = WriteNumber(d) /\ t = d.text /\ Bare(d) /\ (CannotBe(ind, d) <=> Len(d.text) >= NumberLen)
    BY <1>1, <1>3, <1>7 DEF Written, Said, Bare
  <2>2. Fits(ind, w, t, CannotBe(ind, d))
    BY <1>7, <2>1, FitsSimple DEF Fits
  <2>3. Ends(d, w)
    BY <2>1, EndsWrite DEF WriteNumber, Must
  <2>4. QED
    BY <2>2, <2>3
<1>8. CASE d.type = "bool"
  <2>1. w = WriteBool(d) /\ t = Spelled(d.text[1]) /\ Bare(d) /\ ~ CannotBe(ind, d)
    BY <1>1, <1>3, <1>8 DEF Written, Said, Bare
  <2>2. Fits(ind, w, t, CannotBe(ind, d))
    BY <1>8, <2>1, FitsSimple DEF Fits
  <2>3. Ends(d, w)
    BY <2>1, EndsWrite DEF WriteBool, Must
  <2>4. QED
    BY <2>2, <2>3
<1>9. CASE d.type = "error"
  <2>1. w = Refusal /\ t = <<>> /\ CannotBe(ind, d)
    BY <1>1, <1>3, <1>9 DEF Written, Said
  <2>2. Fits(ind, w, t, CannotBe(ind, d))
    BY <2>1, FitsSimple DEF Fits
  <2>3. Ends(d, w)
    BY <2>1, EndsWrite DEF Refusal
  <2>4. QED
    BY <2>2, <2>3
<1>10. CASE d.type = "string"
  <2>1. w = WriteString(d.text) /\ t = Quoted(d.text) /\ ~ Bare(d) /\ ~ CannotBe(ind, d)
    BY <1>1, <1>3, <1>10 DEF Written, Said, Bare
  <2>2. /\ Fits(ind, WriteString(d.text), Quoted(d.text), FALSE)
        /\ \E a \in Seq(Entry(ind)) : WriteString(d.text) = a \o Must(<<"quote">>)
    BY <1>2, FitsString
  <2>3. Fits(ind, w, t, CannotBe(ind, d))
    BY <2>1, <2>2 DEF Fits
  <2>4. PICK a \in Seq(Entry(ind)) : w = a \o Must(<<"quote">>)
    BY <2>1, <2>2, Zenon
  <2>5. [text |-> <<"quote">>, test |-> "must"] \in Entry(ind) /\ Len(<<"quote">>) = 1
    <3>1. "quote" \in Char
      BY DEF Char
    <3>2. QED
      BY <3>1, Bytes DEF Entry
  <2>6. Ends(d, w)
    BY <2>1, <2>4, <2>5, EndsWrite, Zenon
  <2>7. QED
    BY <2>3, <2>6
<1>11. CASE d.type \in {"object", "list"}
  <2> DEFINE o == IF d.type = "object" THEN <<"{", "}">> ELSE <<"[", "]">>
  <2>1. w = Must(o)
    BY <1>1, <1>2, <1>11 DEF Written, WriteObject, WriteList
  <2>2. t = o
    <3>1. d.type = "object" => t = <<"{">> \o <<>> \o <<"}">>
      BY <1>1, <1>4, Zenon DEF Said
    <3>2. d.type = "list" => t = <<"[">> \o <<>> \o <<"]">>
      BY <1>1, <1>4 DEF Said
    <3>3. "{" \in Char /\ "}" \in Char /\ "[" \in Char /\ "]" \in Char
      BY DEF Char
    <3>4. /\ <<"{">> \o <<>> = <<"{">> /\ <<"[">> \o <<>> = <<"[">>
          /\ <<"{">> \o <<"}">> = <<"{", "}">> /\ <<"[">> \o <<"]">> = <<"[", "]">>
      BY <3>3, Bytes, ConcatEmptySeq
    <3>5. QED
      BY <1>11, <3>1, <3>2, <3>4
  <2>3. Bare(d) /\ ~ CannotBe(ind, d)
    BY <1>2, <1>3, <1>11 DEF Bare
  <2>4. Fits(ind, Must(o), o, FALSE)
    <3>1. "{" \in Char /\ "}" \in Char /\ "[" \in Char /\ "]" \in Char
      BY DEF Char
    <3>2. o \in Seq(Char) /\ o # <<>>
      BY <3>1, Bytes
    <3> HIDE DEF o
    <3>3. QED
      BY <3>2, FitsWrite
  <2> HIDE DEF o
  <2>5. Fits(ind, w, t, CannotBe(ind, d))
    BY <2>1, <2>2, <2>3, <2>4 DEF Fits
  <2>6. Ends(d, w)
    BY <2>1, <2>3, EndsWrite DEF Must
  <2>7. QED
    BY <2>5, <2>6
<1>12. QED
  BY <1>2, <1>6, <1>7, <1>8, <1>9, <1>10, <1>11

(* a container is if its values are, *)
LEMMA ContainerGood ==
  ASSUME NEW ind \in Indents, NEW d \in Doc, Container(d), d.items # <<>>, NEW n \in Nat,
         \A e \in Inside(d) : \A m \in Nat : Good(ind, e, m)
  PROVE  Good(ind, d, n)
<1> DEFINE w == WritesOf(ind, d, n)
           t == TextOf(ind, d, n)
           f == Solution("write", ind)
           g == Solution("text", ind)
           has == Solution("has", ind)
           v == At(f, d, n + 1)
           s == Items(ind, g, d, n + 1)
           u == [k \in DOMAIN d.items |-> g[d.items[k].value][n + 1]]
           h == [k \in DOMAIN d.items |-> has[d.items[k].value]]
           c == CannotBe(ind, d)
<1>1. w = Written(ind, d, n, v) /\ t = Said(ind, d, n, s) /\ c = Broken(d, has)
  BY Unfolded
<1>2. AllWritten(ind, d, v, u, h)
  <2> SUFFICES ASSUME NEW k \in DOMAIN d.items
               PROVE  Fits(ind, v[k], u[k], h[k])
    BY DEF AllWritten
  <2> DEFINE e == d.items[k].value
  <2>1. e \in Inside(d)
    BY DEF Inside
  <2>2. n + 1 \in Nat
    OBVIOUS
  <2>3. Good(ind, e, n + 1)
    BY <2>1, <2>2
  <2>4. Fits(ind, f[e][n + 1], g[e][n + 1], has[e])
    BY <2>3, Zenon DEF Good, WritesOf, TextOf, CannotBe
  <2>5. v[k] = f[e][n + 1]
    BY Zenon DEF At
  <2>6. u[k] = g[e][n + 1] /\ h[k] = has[e]
    BY Zenon
  <2> HIDE DEF u, h, v, e, f, g, has
  <2>7. QED
    BY <2>4, <2>5, <2>6
<1>3. ItemsOf(ind, d, u, s)
  <2>1. s = [k \in DOMAIN d.items |-> Name(ind, d, k) \o g[d.items[k].value][n + 1]]
    BY Zenon DEF Items
  <2>2. \A k \in DOMAIN d.items : g[d.items[k].value][n + 1] = u[k]
    BY Zenon
  <2> HIDE DEF u, g, s
  <2>3. s = [k \in DOMAIN d.items |-> Name(ind, d, k) \o u[k]]
    BY <2>1, <2>2, Zenon
  <2>4. QED
    BY <2>3, Zenon DEF ItemsOf, Cat
<1>4. c <=> \E k \in DOMAIN d.items : h[k]
  <2>1. ~ (d.type = "error") /\ ~ (d.type = "number")
    BY DEF Container
  <2>2. c <=> \E k \in DOMAIN d.items : has[d.items[k].value]
    BY <1>1, <2>1 DEF Broken
  <2> HIDE DEF c, has
  <2>3. QED
    BY <2>2
<1> HIDE DEF w, t, f, g, has, v, s, u, h, c
<1>5. d.type \in {"object", "list"}
  BY DEF Container
<1>6. /\ Fits(ind, Written(ind, d, n, v), Said(ind, d, n, s), c)
      /\ \E a \in Seq(Entry(ind)) : Written(ind, d, n, v) = Cat(a, Must(Close(d)))
  BY <1>2, <1>3, <1>4, <1>5, FitsContainer
<1>7. Fits(ind, w, t, c)
  BY <1>1, <1>6
<1>8. PICK a \in Seq(Entry(ind)) : w = a \o Must(Close(d))
  BY <1>1, <1>6, Zenon DEF Cat
<1>9. ~ Bare(d)
  BY <1>5 DEF Bare
<1>10. [text |-> Close(d), test |-> "must"] \in Entry(ind) /\ Len(Close(d)) = 1
  <2>1. "}" \in Char /\ "]" \in Char
    BY DEF Char
  <2>2. Close(d) \in Seq(Char) /\ Close(d) # <<>> /\ Len(Close(d)) = 1
    BY <2>1, Bytes DEF Close
  <2>3. QED
    BY <2>2 DEF Entry
<1>11. Ends(d, w)
  BY <1>8, <1>9, <1>10, EndsWrite, Zenon
<1>12. QED
  BY <1>7, <1>11 DEF Good, w, t, c

(* and so are all: an innermost one that is not would be. *)
LEMMA AllGood ==
  ASSUME NEW ind \in Indents
  PROVE  \A d \in Doc : \A n \in Nat : Good(ind, d, n)
<1> DEFINE S == {d \in Doc : ~ \A n \in Nat : Good(ind, d, n)}
<1>1. ASSUME S # {}
      PROVE  FALSE
  <2>1. PICK d \in S : Inside(d) \cap S = {}
    <3>1. S \in SUBSET Doc
      OBVIOUS
    <3> HIDE DEF S
    <3>2. QED
      BY <1>1, <3>1, Innermost
  <2>2. d \in Doc /\ Inside(d) \subseteq Doc
    BY <2>1, InsideIsDoc
  <2>3. \A e \in Inside(d) : \A n \in Nat : Good(ind, e, n)
    BY <2>1, <2>2
  <2>4. ASSUME NEW n \in Nat
        PROVE  Good(ind, d, n)
    <3>1. CASE ~ Container(d) \/ d.items = <<>>
      BY <2>2, <3>1, LeafGood
    <3>2. CASE Container(d) /\ d.items # <<>>
      BY <2>2, <2>3, <3>2, ContainerGood
    <3>3. QED
      BY <3>1, <3>2
  <2>5. QED
    BY <2>1, <2>4
<1>2. QED
  BY <1>1

(* For the value, the indent and the variables of a state.                 *)
LEMMA ValueGood ==
  ASSUME NEW d \in Doc, NEW ind \in Indents
  PROVE  /\ Fits(ind, WriteValue(d, ind), TextOf(ind, d, 0), CannotBe(ind, d))
         /\ Ends(d, WriteValue(d, ind))
<1>1. Good(ind, d, 0)
  BY AllGood
<1>2. WriteValue(d, ind) = WritesOf(ind, d, 0)
  BY WriteValueIs DEF WritesOf
<1>3. QED
  BY <1>1, <1>2 DEF Good

-----------------------------------------------------------------------------
(* Concatenation of sequences of any elements. *)
LEMMA JoinProperties ==
  ASSUME NEW S, NEW a \in Seq(S), NEW b \in Seq(S)
  PROVE  /\ a \o b \in Seq(S) /\ Len(a \o b) = Len(a) + Len(b)
         /\ \A k \in 1 .. Len(a) + Len(b) : (a \o b)[k] = IF k <= Len(a) THEN a[k] ELSE b[k - Len(a)]
BY ConcatProperties

(* What is left when the first of the writes is made.                      *)
LEMMA FirstWrite ==
  ASSUME NEW ind, NEW ws \in Seq(Entry(ind)), ws # <<>>
  PROVE  /\ Head(ws) \in Entry(ind) /\ Tail(ws) \in Seq(Entry(ind))
         /\ Len(ws) \in Nat \ {0} /\ Len(Tail(ws)) = Len(ws) - 1
         /\ Say(ind, ws) = Cat(Head(ws).text, Say(ind, Tail(ws)))
         /\ Refuses(ws) <=> (Head(ws).test = "refuse" \/ Refuses(Tail(ws)))
         /\ Len(ws) # 1 => Tail(ws) # <<>> /\ Tail(ws)[Len(Tail(ws))] = ws[Len(ws)]
         /\ Len(ws) = 1 => Tail(ws) = <<>> /\ ws[1] = Head(ws)
<1> DEFINE e == Head(ws)
           r == Tail(ws)
<1>1. /\ e \in Entry(ind) /\ r \in Seq(Entry(ind)) /\ Len(r) = Len(ws) - 1
      /\ \A k \in 1 .. Len(r) : r[k] = ws[k + 1]
  BY HeadTailProperties
<1>2. Len(ws) \in Nat \ {0} /\ Len(r) \in Nat /\ e = ws[1]
  BY <1>1, EmptySeq, LenProperties
<1> HIDE DEF e, r
<1>3. <<e>> \in Seq(Entry(ind)) /\ Len(<<e>>) = 1 /\ <<e>>[1] = e
  BY <1>1
<1> DEFINE h == <<e>>
<1> HIDE DEF h
<1>4. h \in Seq(Entry(ind)) /\ Len(h) = 1 /\ h[1] = e
  BY <1>3 DEF h
<1>5. /\ h \o r \in Seq(Entry(ind)) /\ Len(h \o r) = Len(h) + Len(r)
      /\ \A k \in 1 .. Len(h) + Len(r) : (h \o r)[k] = IF k <= Len(h) THEN h[k] ELSE r[k - Len(h)]
  <2>1. h \in Seq(Entry(ind)) /\ r \in Seq(Entry(ind))
    BY <1>1, <1>4
  <2> QED
    BY <2>1, JoinProperties, Zenon
<1>6. ws = h \o r
  <2> DEFINE b == h \o r
  <2>1. b \in Seq(Entry(ind)) /\ Len(b) = Len(ws)
    BY <1>1, <1>2, <1>4, <1>5
  <2>2. \A k \in 1 .. Len(ws) : b[k] = ws[k]
    <3> TAKE k \in 1 .. Len(ws)
    <3>1. k \in 1 .. Len(h) + Len(r)
      BY <1>1, <1>2, <1>4
    <3>2. CASE k = 1
      BY <1>2, <1>4, <1>5, <3>1, <3>2
    <3>3. CASE k # 1
      <4>1. k - 1 \in 1 .. Len(r) /\ ~ (k <= 1) /\ (k - 1) + 1 = k
        BY <1>1, <1>2, <3>3
      <4>2. b[k] = r[k - 1]
        BY <1>4, <1>5, <3>1, <4>1
      <4>3. r[k - 1] = ws[k]
        BY <1>1, <4>1
      <4>4. QED
        BY <4>2, <4>3
    <3>4. QED
      BY <3>2, <3>3
  <2> HIDE DEF b
  <2>3. b = ws
    BY <2>1, <2>2, SeqEqual
  <2>4. QED
    BY <2>3 DEF b
<1>7. Fits(ind, h, e.text, e.test = "refuse")
  BY <1>1, FitsOne DEF h
<1>8. Say(ind, ws) = Cat(e.text, Say(ind, r))
  <2>1. Spread(Texts(ind), h \o r) = Spread(Texts(ind), h) \o Spread(Texts(ind), r)
    BY <1>1, <1>4, TextsMap, SpreadConcat
  <2>2. Say(ind, ws) = Cat(Say(ind, h), Say(ind, r))
    BY <1>6, <2>1, Zenon DEF Say, Cat
  <2>3. QED
    BY <1>7, <2>2 DEF Fits
<1>9. Refuses(ws) <=> (e.test = "refuse" \/ Refuses(r))
  <2>1. \A k \in 1 .. Len(ws) : k = 1 \/ (k - 1 \in 1 .. Len(r) /\ (k - 1) + 1 = k)
    BY <1>1, <1>2
  <2>2. \A k \in 1 .. Len(r) : k + 1 \in 1 .. Len(ws)
    BY <1>1, <1>2
  <2>3. ASSUME Refuses(ws)
        PROVE  e.test = "refuse" \/ Refuses(r)
    <3>1. PICK k \in 1 .. Len(ws) : ws[k].test = "refuse"
      BY <2>3 DEF Refuses
    <3>2. CASE k = 1
      BY <1>2, <3>1, <3>2
    <3>3. CASE k # 1
      <4>1. k - 1 \in 1 .. Len(r) /\ r[k - 1] = ws[k]
        BY <1>1, <2>1, <3>3
      <4>2. QED
        BY <3>1, <4>1 DEF Refuses
    <3>4. QED
      BY <3>2, <3>3
  <2>4. ASSUME e.test = "refuse"
        PROVE  Refuses(ws)
    <3>1. 1 \in 1 .. Len(ws)
      BY <1>2
    <3>2. QED
      BY <1>2, <2>4, <3>1 DEF Refuses
  <2>5. ASSUME Refuses(r)
        PROVE  Refuses(ws)
    BY <1>1, <2>2, <2>5 DEF Refuses
  <2>6. QED
    BY <2>3, <2>4, <2>5
<1>10. Len(ws) # 1 => r # <<>> /\ r[Len(r)] = ws[Len(ws)]
  <2> HAVE Len(ws) # 1
  <2>1. Len(r) \in 1 .. Len(r) /\ Len(r) + 1 = Len(ws)
    BY <1>1, <1>2
  <2>2. r[Len(r)] = ws[Len(r) + 1]
    BY <1>1, <2>1
  <2>3. r # <<>>
    BY <1>2, <2>1, EmptySeq
  <2>4. QED
    BY <2>1, <2>2, <2>3
<1>11. Len(ws) = 1 => r = <<>> /\ ws[1] = e
  <2> HAVE Len(ws) = 1
  <2>1. Len(r) = 0
    BY <1>1
  <2>2. r = <<>>
    BY <1>1, <2>1, EmptySeq
  <2>3. QED
    BY <1>2, <2>2
<1>12. QED
  BY <1>1, <1>2, <1>8, <1>9, <1>10, <1>11 DEF e, r

(* What a stream can take of a write, and what it answers. *)
LEMMA AnswerFacts ==
  ASSUME stream \in {"mem", "socket", "file"}, room \in Nat,
         NEW n \in Nat, NEW answer \in Answers(n)
  PROVE  /\ answer.took \in 0 .. n /\ answer.j \in Int
         /\ -1 <= answer.j /\ answer.j <= n
         /\ answer.j > 0 => answer.took = answer.j
         /\ n = 1 /\ answer.j <= 0 => answer.took = 0
         /\ stream = "socket" /\ answer.j > 0 => answer.j = n
         /\ stream = "mem" => /\ answer.took <= room
                              /\ room = 0 => answer.j = -1
                              /\ answer.j < n => room - answer.took = 0
<1>1. CASE stream = "mem"
  BY <1>1 DEF Answers
<1>2. CASE stream = "socket"
  <2>1. PICK a \in {[took |-> n, j |-> n]} \cup [took : 0 .. n - 1, j : {0, -1}] : a = answer
    BY <1>2 DEF Answers
  <2>2. CASE a = [took |-> n, j |-> n]
    BY <1>2, <2>1, <2>2
  <2>3. CASE a \in [took : 0 .. n - 1, j : {0, -1}]
    BY <1>2, <2>1, <2>3
  <2>4. QED
    BY <2>1, <2>2, <2>3
<1>3. CASE stream = "file"
  BY <1>3 DEF Answers
<1>4. QED
  BY <1>1, <1>2, <1>3

(* The beginning of a text that a stream takes. *)
LEMMA TakenPart ==
  ASSUME NEW t \in Seq(Char), NEW k \in 0 .. Len(t)
  PROVE  /\ SubSeq(t, 1, k) \in CharSeq /\ Len(SubSeq(t, 1, k)) = k
         /\ k = Len(t) => SubSeq(t, 1, k) = t
         /\ k = 0 => SubSeq(t, 1, k) = <<>>
         /\ \E r \in CharSeq : t = Cat(SubSeq(t, 1, k), r)
<1>1. Len(t) \in Nat /\ \A m \in 1 .. Len(t) : t[m] \in Char
  BY LenProperties, ElementOfSeq
<1>2. SubSeq(t, 1, k) \in Seq(Char) /\ Len(SubSeq(t, 1, k)) = k
  BY <1>1, SubSeqProperties
<1>3. k = Len(t) => SubSeq(t, 1, k) = t
  BY SubSeqFull
<1>4. k = 0 => SubSeq(t, 1, k) = <<>>
  BY SubSeqEmpty
<1>5. \E r \in CharSeq : t = Cat(SubSeq(t, 1, k), r)
  <2> DEFINE r == SubSeq(t, k + 1, Len(t))
  <2>1. r \in Seq(Char)
    BY <1>1, SubSeqProperties
  <2>2. SubSeq(t, 1, k) \o r = SubSeq(t, 1, Len(t))
    <3>1. 1 \in 1 .. Len(t) + 1 /\ k \in 1 - 1 .. Len(t) /\ Len(t) \in k .. Len(t)
      BY <1>1
    <3>2. QED
      BY <3>1, ConcatAdjacentSubSeq, Zenon
  <2>3. SubSeq(t, 1, Len(t)) = t
    BY SubSeqFull
  <2>4. QED
    BY <2>1, <2>2, <2>3, Zenon DEF Cat, CharSeq
<1>6. QED
  BY <1>2, <1>3, <1>4, <1>5 DEF CharSeq

(* A text without its separators. *)
Keeps == [c \in Char |-> IF c \in {",", "nl"} THEN <<>> ELSE <<c>>]
Keep(s) == Spread(Keeps, s)

(* Keep is what SocketLosesSeparators compares, it goes through a          *)
(* concatenation, and of a separator it leaves nothing.                    *)
LEMMA KeepFacts ==
  /\ \A s \in CharSeq : FlattenSeq([k \in DOMAIN s |-> IF s[k] \in {",", "nl"} THEN <<>> ELSE <<s[k]>>]) = Keep(s)
  /\ \A s, t \in CharSeq : Keep(Cat(s, t)) = Cat(Keep(s), Keep(t)) /\ Keep(s) \in CharSeq
  /\ Keep(<<",">>) = <<>> /\ Keep(<<"nl">>) = <<>>
<1>1. Maps(Keeps, Char, Char)
  <2>1. \A c \in Char : (IF c \in {",", "nl"} THEN <<>> ELSE <<c>>) \in Seq(Char)
    BY Bytes
  <2>2. QED
    BY <2>1 DEF Maps, Keeps
<1>2. ASSUME NEW s \in CharSeq
      PROVE  FlattenSeq([k \in DOMAIN s |-> IF s[k] \in {",", "nl"} THEN <<>> ELSE <<s[k]>>]) = Keep(s)
  <2>1. \A k \in DOMAIN s : s[k] \in Char
    <3>1. s \in Seq(Char)
      BY DEF CharSeq
    <3>2. QED
      BY <3>1, LenProperties, ElementOfSeq
  <2>2. \A k \in DOMAIN s : Keeps[s[k]] = IF s[k] \in {",", "nl"} THEN <<>> ELSE <<s[k]>>
    BY <2>1 DEF Keeps
  <2>3. Parts(Keeps, s) = [k \in DOMAIN s |-> IF s[k] \in {",", "nl"} THEN <<>> ELSE <<s[k]>>]
    BY <2>2, Zenon DEF Parts
  <2>4. QED
    BY <2>3, Zenon DEF Keep, Spread
<1>3. ASSUME NEW s \in CharSeq, NEW t \in CharSeq
      PROVE  Keep(Cat(s, t)) = Cat(Keep(s), Keep(t)) /\ Keep(s) \in CharSeq
  <2>1. s \in Seq(Char) /\ t \in Seq(Char)
    BY DEF CharSeq
  <2>2. Spread(Keeps, s \o t) = Spread(Keeps, s) \o Spread(Keeps, t)
    BY <1>1, <2>1, SpreadConcat
  <2>3. Spread(Keeps, s) \in Seq(Char)
    BY <1>1, <2>1, SpreadParts
  <2>4. QED
    BY <2>2, <2>3, Zenon DEF Keep, Cat, CharSeq
<1>4. Keep(<<",">>) = <<>> /\ Keep(<<"nl">>) = <<>>
  <2>1. "," \in Char /\ "nl" \in Char
    BY DEF Char
  <2>2. Spread(Keeps, <<",">>) = Keeps[","] /\ Spread(Keeps, <<"nl">>) = Keeps["nl"]
    BY <1>1, <2>1, SpreadFew
  <2>3. Keeps[","] = <<>> /\ Keeps["nl"] = <<>>
    BY <2>1 DEF Keeps
  <2>4. QED
    BY <2>2, <2>3 DEF Keep
<1>5. QED
  BY <1>2, <1>3, <1>4


-----------------------------------------------------------------------------
(* The inductive invariant of the machine.  What is out and what is still  *)
(* to be written make the whole text, as long as no byte was lost unseen;  *)
(* without the separators they make it on a socket in any case.  On memory *)
(* a byte is lost only when the room is used up, and the last write needs  *)
(* one byte more.                                                          *)
TheText == TextOf(indent, json, 0)
Cannot == CannotBe(indent, json)
Left == Say(indent, writes)
Succeeded == ret # NONE /\ ret > 0

TypesInv == TypeOK /\ out \in CharSeq /\ writes \in Seq(Entry(indent))

EndsInv ==
  ret = NONE => Ends(json, writes) /\ (Bare(json) => i = 0) /\ (Refuses(writes) <=> Cannot)

WholeInv ==
  lost = {} => /\ ret = NONE => Cat(out, Left) = TheText
               /\ \E rest \in CharSeq : Cat(out, rest) = TheText
               /\ Succeeded => out = TheText /\ ~ Cannot

MemoryInv ==
  stream = "mem" => /\ ret = NONE => lost = {} \/ room = 0
                    /\ Succeeded => lost = {} \/ Bare(json)

SocketInv ==
  stream = "socket" => /\ ret = NONE => Cat(Keep(out), Keep(Left)) = Keep(TheText)
                       /\ Succeeded => Keep(out) = Keep(TheText)

CountsInv ==
  "indent" \notin lost => /\ ret = NONE => i = Len(out)
                          /\ Succeeded => ret = Len(out)

ReasonInv == ret = -1 => refused \/ Cannot \/ (indent = <<>> /\ ~ Bare(json))

IInv ==
  TypesInv /\ EndsInv /\ WholeInv /\ MemoryInv /\ SocketInv /\ CountsInv /\ ReasonInv

(* The text of a value is a text, *)
LEMMA TextFacts ==
  ASSUME NEW d \in Doc, NEW ind \in Indents
  PROVE  TextOf(ind, d, 0) \in CharSeq
BY ValueGood DEF Fits, CharSeq

(* and so is what writes say. *)
LEMMA SayFacts ==
  ASSUME NEW ind, NEW ws \in Seq(Entry(ind))
  PROVE  Say(ind, ws) \in CharSeq
BY TextsMap, SpreadParts DEF Say, CharSeq

(* The length of a concatenation. *)
LEMMA CatLen ==
  ASSUME NEW p \in CharSeq, NEW q \in CharSeq
  PROVE  Len(Cat(p, q)) = Len(p) + Len(q) /\ Len(p) \in Nat /\ Len(q) \in Nat
BY ConcatProperties, LenProperties DEF Cat, CharSeq

(* The invariant holds when cosmic_json_write_stream_s is called, *)
LEMMA InitInv == Init => IInv
<1> SUFFICES ASSUME Init PROVE IInv
  OBVIOUS
<1> USE DEF Init
<1>1. json \in Doc /\ indent \in Indents /\ writes = WriteValue(json, indent)
  OBVIOUS
<1>2. Fits(indent, writes, TheText, Cannot) /\ Ends(json, writes)
  BY <1>1, ValueGood DEF TheText, Cannot
<1>3. /\ writes \in Seq(Entry(indent)) /\ TheText \in CharSeq
      /\ Left = TheText /\ (Refuses(writes) <=> Cannot)
  BY <1>2 DEF Fits, CharSeq, Left
<1>4. out = <<>> /\ out \in CharSeq /\ Len(out) = 0
  BY Bytes DEF CharSeq
<1>5. Cat(out, Left) = TheText
  BY <1>3, <1>4, CatNone
<1>6. writes # <<>>
  BY <1>2 DEF Ends
<1>7. ret = NONE /\ ~ Succeeded /\ ret # -1
  BY JsonWriteAssumption DEF Succeeded
<1>8. TypesInv
  <2>1. stream \in {"mem", "socket", "file"} /\ room \in 0 .. MaxRoom
    BY JsonWriteAssumption
  <2>2. lost \subseteq {"separator", "indent", "part"} /\ refused \in BOOLEAN /\ i \in Nat
    OBVIOUS
  <2>3. TypeOK
    BY <1>1, <1>6, <1>7, <2>1, <2>2 DEF TypeOK
  <2>4. QED
    BY <1>3, <1>4, <2>3 DEF TypesInv
<1>9. EndsInv
  BY <1>2, <1>3 DEF EndsInv
<1>10. WholeInv
  BY <1>3, <1>5, <1>7 DEF WholeInv
<1>11. MemoryInv
  BY <1>7 DEF MemoryInv
<1>12. SocketInv
  <2>1. Keep(Cat(out, Left)) = Cat(Keep(out), Keep(Left))
    BY <1>3, <1>4, KeepFacts
  <2>2. QED
    BY <1>5, <1>7, <2>1 DEF SocketInv
<1>13. CountsInv
  BY <1>4, <1>7 DEF CountsInv
<1>14. ReasonInv
  BY <1>7 DEF ReasonInv
<1>15. QED
  BY <1>8, <1>9, <1>10, <1>11, <1>12, <1>13, <1>14 DEF IInv

(* after a write that is refused, *)
LEMMA RefuseInv == IInv /\ Refuse => IInv'
<1> SUFFICES ASSUME IInv, Refuse PROVE IInv'
  OBVIOUS
<1>1. /\ ret = NONE /\ ret' = -1 /\ Head(writes).test = "refuse"
      /\ UNCHANGED <<json, indent, stream, room, writes, i, out, lost, refused>>
  BY DEF Refuse
<1>2. -1 # NONE /\ ret' # NONE /\ ~ Succeeded'
  BY <1>1, JsonWriteAssumption DEF Succeeded
<1>3. TheText' = TheText /\ Left' = Left /\ (Cannot' <=> Cannot)
  BY <1>1 DEF TheText, Left, Cannot
<1>4. TypesInv'
  BY <1>1, <1>2 DEF IInv, TypesInv, TypeOK
<1>5. Cannot
  <2>1. writes \in Seq(Entry(indent)) /\ writes # <<>>
    BY <1>1 DEF IInv, TypesInv, TypeOK
  <2>2. Refuses(writes)
    BY <1>1, <2>1, FirstWrite
  <2>3. QED
    BY <1>1, <2>2 DEF IInv, EndsInv
<1>6. EndsInv' /\ WholeInv' /\ MemoryInv' /\ SocketInv' /\ CountsInv'
  BY <1>1, <1>2, <1>3 DEF IInv, EndsInv, WholeInv, MemoryInv, SocketInv, CountsInv
<1>7. ReasonInv'
  BY <1>3, <1>5 DEF ReasonInv
<1>8. QED
  BY <1>4, <1>6, <1>7 DEF IInv

(* A write of which the stream takes a part, before the invariant. *)
Moved(text, test, n, took, sub, rest) ==
  /\ json \in Doc /\ indent \in Indents /\ TheText \in CharSeq
  /\ out \in CharSeq /\ text \in CharSeq /\ sub \in CharSeq
  /\ rest \in CharSeq /\ Left = Cat(text, rest)
  /\ Tail(writes) \in Seq(Entry(indent))
  /\ n \in Nat /\ (n = 0 => text = <<>>) /\ test \in {"must", "may", "whole"}
  /\ test = "must" => text # <<>>
  /\ test = "may" => text \in {<<",">>, <<"nl">>} /\ n = 1 /\ text # <<>>
  /\ test = "whole" => text = indent
  /\ Refuses(writes) <=> Refuses(Tail(writes))
  /\ took \in 0 .. n /\ Len(sub) = took
  /\ took = n => sub = text
  /\ took = 0 => sub = <<>>
  /\ \E r \in CharSeq : text = Cat(sub, r)

(* What the invariant says of a write before it is made. *)
LEMMA WriteFacts ==
  ASSUME IInv, ret = NONE, Head(writes).test # "refuse",
         NEW answer \in Answers(Len(Head(writes).text))
  PROVE  Moved(Head(writes).text, Head(writes).test, Len(Head(writes).text), answer.took,
               SubSeq(Head(writes).text, 1, answer.took), Say(indent, Tail(writes)))
<1>a. PICK text : text = Head(writes).text
  OBVIOUS
<1>b. PICK test : test = Head(writes).test
  OBVIOUS
<1>c. PICK n : n = Len(text)
  OBVIOUS
<1>d. PICK sub : sub = SubSeq(text, 1, answer.took)
  OBVIOUS
<1> DEFINE w == Head(writes)
           ws == writes
<1>1. /\ json \in Doc /\ indent \in Indents /\ writes # <<>> /\ writes \in Seq(Entry(indent))
      /\ out \in CharSeq /\ stream \in {"mem", "socket", "file"} /\ room \in Nat
  BY JsonWriteAssumption DEF IInv, TypesInv, TypeOK
<1>2. /\ w \in Entry(indent) /\ Tail(ws) \in Seq(Entry(indent))
      /\ Say(indent, ws) = Cat(w.text, Say(indent, Tail(ws)))
      /\ Refuses(ws) <=> (w.test = "refuse" \/ Refuses(Tail(ws)))
  BY <1>1, FirstWrite
<1> HIDE DEF w, ws
<1>3. TheText \in CharSeq /\ Say(indent, Tail(ws)) \in CharSeq
  BY <1>1, <1>2, TextFacts, SayFacts DEF TheText
<1>4. text = w.text /\ test = w.test
  BY <1>a, <1>b DEF w
<1>5. /\ text \in Seq(Char) /\ test \in {"must", "may", "whole"}
      /\ test = "must" => text # <<>>
      /\ test = "may" => text \in {<<",">>, <<"nl">>}
      /\ test = "whole" => text = indent
  <2>1. w.test # "refuse"
    BY DEF w
  <2>2. QED
    BY <1>2, <1>4, <2>1 DEF Entry
<1>6. text \in {<<",">>, <<"nl">>} => n = 1 /\ text # <<>>
  <2>1. "," \in Char /\ "nl" \in Char
    BY DEF Char
  <2>2. \A c \in Char : text = <<c>> => n = 1 /\ text # <<>>
    BY <1>c, Bytes, Zenon
  <2>3. QED
    BY <2>1, <2>2
<1>7. n \in Nat /\ (n = 0 => text = <<>>) /\ text \in CharSeq
  BY <1>5, <1>c, LenProperties, EmptySeq DEF CharSeq
<1>8. answer.took \in 0 .. n
  <2>1. answer \in Answers(n)
    BY <1>a, <1>c
  <2>2. QED
    BY <1>1, <1>7, <2>1, AnswerFacts
<1>9. /\ sub \in CharSeq /\ Len(sub) = answer.took
      /\ answer.took = n => sub = text
      /\ answer.took = 0 => sub = <<>>
      /\ \E r \in CharSeq : text = Cat(sub, r)
  <2>1. answer.took \in 0 .. Len(text)
    BY <1>8, <1>c
  <2>2. QED
    BY <1>5, <1>c, <1>d, <2>1, TakenPart
<1>10. /\ Left = Cat(text, Say(indent, Tail(writes))) /\ (Refuses(writes) <=> Refuses(Tail(writes)))
       /\ Tail(writes) \in Seq(Entry(indent)) /\ Say(indent, Tail(writes)) \in CharSeq
  BY <1>2, <1>3, <1>4 DEF w, ws, Left
<1>11. Moved(text, test, n, answer.took, sub, Say(indent, Tail(writes)))
  BY <1>1, <1>3, <1>5, <1>6, <1>7, <1>8, <1>9, <1>10 DEF Moved
<1>12. QED
  BY <1>11, <1>a, <1>b, <1>c, <1>d

(* The end of the writes, when the first of them is made. *)
LEMMA EndFacts ==
  ASSUME NEW d, NEW ind, NEW ws \in Seq(Entry(ind)), Ends(d, ws), Head(ws).test # "refuse"
  PROVE  /\ Len(ws) = 1 => /\ Tail(ws) = <<>> /\ Head(ws).test = "must"
                           /\ Bare(d) \/ Len(Head(ws).text) = 1
         /\ Len(ws) # 1 => ~ Bare(d) /\ Ends(d, Tail(ws))
<1>1. ws # <<>>
  BY DEF Ends
<1>2. /\ Len(ws) \in Nat \ {0} /\ Len(Tail(ws)) = Len(ws) - 1
      /\ Len(ws) # 1 => Tail(ws) # <<>> /\ Tail(ws)[Len(Tail(ws))] = ws[Len(ws)]
      /\ Len(ws) = 1 => Tail(ws) = <<>> /\ ws[1] = Head(ws)
  BY <1>1, FirstWrite
<1> DEFINE h == Head(ws)
           r == Tail(ws)
<1> HIDE DEF h, r
<1>3. Len(ws) = 1 => r = <<>> /\ h.test = "must" /\ (Bare(d) \/ Len(h.text) = 1)
  <2> HAVE Len(ws) = 1
  <2>1. r = <<>> /\ ws[Len(ws)] = h /\ h.test # "refuse"
    BY <1>2 DEF h, r
  <2>2. QED
    BY <2>1 DEF Ends
<1>4. Len(ws) # 1 => ~ Bare(d) /\ Ends(d, r)
  <2> HAVE Len(ws) # 1
  <2>1. r # <<>> /\ r[Len(r)] = ws[Len(ws)]
    BY <1>2 DEF r
  <2>2. ~ Bare(d)
    BY DEF Ends
  <2>3. QED
    BY <2>1, <2>2 DEF Ends
<1>5. QED
  BY <1>3, <1>4 DEF h, r

(* after every answer of cosmic_io_write, *)
LEMMA IoWriteInv == IInv /\ IoWrite => IInv'
<1> SUFFICES ASSUME IInv, IoWrite PROVE IInv'
  OBVIOUS
<1>1. PICK answer \in Answers(Len(Head(writes).text)) :
        LET write == Head(writes)
            j == answer.j
            sum == i + Counted(write, j)
            last == Len(writes) = 1
            gone == ~Bare(json) /\ Fails(write.test, j)
        IN  /\ out' = out \o SubSeq(write.text, 1, answer.took)
            /\ room' = IF stream = "mem" THEN room - answer.took ELSE room
            /\ writes' = Tail(writes)
            /\ i' = IF gone \/ last THEN i ELSE sum
            /\ lost' = IF gone \/ (last /\ j <= 0) THEN lost ELSE lost \cup Losses(write, j)
            /\ refused' = (j <= 0 /\ write.text # <<>>)
            /\ ret' = IF gone THEN -1 ELSE IF last THEN sum ELSE NONE
  BY DEF IoWrite
<1>2. PICK text : text = Head(writes).text
  OBVIOUS
<1>3. PICK test : test = Head(writes).test
  OBVIOUS
<1>4. PICK n : n = Len(text)
  OBVIOUS
<1>5. PICK j : j = answer.j
  OBVIOUS
<1>6. PICK took : took = answer.took
  OBVIOUS
<1>7. PICK sub : sub = SubSeq(text, 1, took)
  OBVIOUS
<1>8. PICK rest : rest = Say(indent, Tail(writes))
  OBVIOUS
<1>9. PICK write : write = Head(writes)
  OBVIOUS
<1> DEFINE last == Len(writes) = 1
           gone == ~ Bare(json) /\ Fails(test, j)
           counted == IF test = "whole" THEN n ELSE j
           losses == IF j = n THEN {} ELSE IF j = 0 THEN {"separator"}
                     ELSE IF test = "whole" THEN {"indent"} ELSE {"part"}
<1>10. /\ ret = NONE /\ test # "refuse" /\ json' = json /\ indent' = indent /\ stream' = stream
       /\ out' = Cat(out, sub)
       /\ room' = IF stream = "mem" THEN room - took ELSE room
       /\ writes' = Tail(writes)
       /\ i' = IF gone \/ last THEN i ELSE i + counted
       /\ lost' = IF gone \/ (last /\ j <= 0) THEN lost ELSE lost \cup losses
       /\ refused' = (j <= 0 /\ text # <<>>)
       /\ ret' = IF gone THEN -1 ELSE IF last THEN i + counted ELSE NONE
  <2>1. /\ ret = NONE /\ test # "refuse" /\ json' = json /\ indent' = indent /\ stream' = stream
    BY <1>3 DEF IoWrite
  <2>2. Counted(Head(writes), answer.j) = counted /\ Losses(Head(writes), answer.j) = losses
    BY <1>2, <1>3, <1>4, <1>5 DEF Counted, Losses
  <2>3. out' = Cat(out, sub)
    BY <1>1, <1>2, <1>6, <1>7, Zenon DEF Cat
  <2>4. QED
    BY <1>1, <1>2, <1>3, <1>5, <1>6, <2>1, <2>2, <2>3
<1> HIDE DEF last, gone, counted, losses
<1>11. Moved(text, test, n, took, sub, rest)
  BY <1>2, <1>3, <1>4, <1>6, <1>7, <1>8, <1>10, WriteFacts
<1>12. /\ j \in Int /\ -1 <= j /\ j <= n
       /\ j > 0 => took = j
       /\ n = 1 /\ j <= 0 => took = 0
       /\ stream = "socket" /\ j > 0 => j = n
       /\ stream = "mem" => /\ took <= room
                            /\ room = 0 => j = -1
                            /\ j < n => room - took = 0
  <2>1. answer \in Answers(n)
    BY <1>2, <1>4
  <2>2. n \in Nat /\ stream \in {"mem", "socket", "file"} /\ room \in Nat
    <3>1. n \in Nat
      BY <1>11 DEF Moved
    <3>2. stream \in {"mem", "socket", "file"} /\ room \in Nat
      BY JsonWriteAssumption DEF IInv, TypesInv, TypeOK
    <3>3. QED
      BY <3>1, <3>2
  <2>3. /\ answer.j \in Int
        /\ -1 <= answer.j /\ answer.j <= n
        /\ answer.j > 0 => answer.took = answer.j
        /\ n = 1 /\ answer.j <= 0 => answer.took = 0
        /\ stream = "socket" /\ answer.j > 0 => answer.j = n
        /\ stream = "mem" => /\ answer.took <= room
                             /\ room = 0 => answer.j = -1
                             /\ answer.j < n => room - answer.took = 0
    BY <2>1, <2>2, AnswerFacts
  <2>4. QED
    BY <2>3, <1>5, <1>6
<1>13. /\ last => Tail(writes) = <<>> /\ test = "must" /\ (Bare(json) \/ n = 1)
       /\ ~ last => ~ Bare(json) /\ Ends(json, Tail(writes))
  <2>1. writes \in Seq(Entry(indent)) /\ Ends(json, writes) /\ Head(writes).test # "refuse"
    BY <1>3, <1>10 DEF IInv, TypesInv, EndsInv
  <2>2. QED
    BY <2>1, <1>2, <1>3, <1>4, EndFacts DEF last
<1>14. /\ i \in Nat /\ (Bare(json) => i = 0) /\ (Refuses(writes) <=> Cannot)
       /\ room \in 0 .. MaxRoom /\ MaxRoom \in Nat /\ stream \in {"mem", "socket", "file"}
       /\ lost \subseteq {"separator", "indent", "part"}
       /\ lost = {} => Cat(out, Left) = TheText
       /\ stream = "mem" => lost = {} \/ room = 0
       /\ stream = "socket" => Cat(Keep(out), Keep(Left)) = Keep(TheText)
       /\ "indent" \notin lost => i = Len(out)
  BY <1>10, JsonWriteAssumption
  DEF IInv, TypesInv, TypeOK, EndsInv, WholeInv, MemoryInv, SocketInv, CountsInv
<1>15. TheText' = TheText /\ (Cannot' <=> Cannot) /\ Left' = rest
  BY <1>8, <1>10 DEF TheText, Cannot, Left
<1>16. out' \in CharSeq /\ Len(out') = Len(out) + took /\ Len(out) \in Nat
  BY <1>10, <1>11, CatBytes, CatLen DEF Moved
<1>17. gone => ~ Bare(json) /\ j <= 0 /\ (test = "may" => j < 0)
  BY <1>12 DEF gone, Fails
<1>18. ~ gone => Bare(json) \/ j > 0 \/ (test = "may" /\ j >= 0)
  BY <1>12 DEF gone, Fails
<1>19. /\ counted \in Int /\ (test # "whole" => counted = j)
       /\ losses \subseteq {"separator", "indent", "part"}
       /\ losses = {} => j = n
       /\ j = n => losses = {}
       /\ test = "whole" => counted = n /\ (j > 0 /\ j # n => "indent" \in losses)
  <2>1. n \in Nat
    BY <1>11 DEF Moved
  <2>2. counted \in Int /\ (test # "whole" => counted = j) /\ (test = "whole" => counted = n)
    BY <1>12, <2>1 DEF counted
  <2>3. losses \subseteq {"separator", "indent", "part"}
    BY DEF losses
  <2>4. (losses = {} => j = n) /\ (j = n => losses = {})
    BY <1>12, <2>1 DEF losses
  <2>5. test = "whole" /\ j > 0 /\ j # n => "indent" \in losses
    BY <1>12, <2>1 DEF losses
  <2>6. QED
    BY <2>2, <2>3, <2>4, <2>5
(* Which of the calls return, and which go on. *)
<1>20. ret' = NONE => /\ ~ gone /\ ~ last /\ i' = i + counted /\ lost' = lost \cup losses
                      /\ j >= 0 /\ (j = 0 => test = "may" /\ n = 1 /\ took = 0 /\ losses # {})
  <2> HAVE ret' = NONE
  <2>1. ~ gone /\ ~ last
    BY <1>10, <1>14, <1>19, JsonWriteAssumption
  <2>2. i' = i + counted /\ lost' = lost \cup losses
    BY <1>10, <2>1
  <2>3. j > 0 \/ (test = "may" /\ j >= 0)
    BY <1>13, <1>18, <2>1
  <2>4. test = "may" => n = 1
    BY <1>11 DEF Moved
  <2>5. j = 0 => test = "may" /\ n = 1 /\ took = 0 /\ losses # {}
    BY <1>12, <1>19, <2>3, <2>4
  <2>6. QED
    BY <1>12, <2>1, <2>2, <2>3, <2>5
<1>21. Succeeded' => /\ ~ gone /\ last /\ j > 0 /\ ret' = i + j /\ lost' = lost \cup losses
                     /\ took = j /\ rest = <<>> /\ Refuses(Tail(writes)) = FALSE
  <2> HAVE Succeeded'
  <2>1. ret' # NONE /\ ret' > 0
    BY DEF Succeeded
  <2>2. ~ gone /\ last
    BY <1>10, <2>1
  <2>3. ret' = i + j /\ test = "must" /\ Tail(writes) = <<>>
    BY <1>10, <1>13, <1>19, <2>2
  <2>4. j > 0
    BY <1>12, <1>14, <1>18, <2>1, <2>2, <2>3
  <2>5. rest = <<>> /\ ~ Refuses(Tail(writes))
    BY <1>8, <2>3, FitsNone DEF Fits
  <2>6. QED
    BY <1>10, <1>12, <2>2, <2>3, <2>4, <2>5
<1>22. (took = n /\ sub = text) \/ losses # {} \/ ~ (j > 0)
  BY <1>11, <1>12, <1>19 DEF Moved
<1>23. TypesInv'
  <2>1. json' \in Doc /\ indent' \in Indents /\ stream' \in {"mem", "socket", "file"}
    BY <1>10, <1>11, <1>14 DEF Moved
  <2>2. room' \in 0 .. MaxRoom
    <3>1. n \in Nat /\ took \in 0 .. n
      BY <1>11 DEF Moved
    <3>2. QED
      BY <1>10, <1>12, <1>14, <3>1
  <2>3. i' \in Nat
    <3>1. CASE gone \/ last
      BY <1>10, <1>14, <3>1
    <3>2. CASE ~ gone /\ ~ last
      <4>1. n \in Nat /\ test \in {"must", "may", "whole"}
        BY <1>11 DEF Moved
      <4>2. counted \in Nat
        BY <1>12, <1>13, <1>18, <1>19, <3>2, <4>1
      <4>3. QED
        BY <1>10, <1>14, <3>2, <4>2
    <3>3. QED
      BY <3>1, <3>2
  <2>4. ret' = NONE \/ ret' \in Int
    BY <1>10, <1>14, <1>19
  <2>5. lost' \subseteq {"separator", "indent", "part"} /\ refused' \in BOOLEAN
    BY <1>10, <1>14, <1>19
  <2>6. ret' = NONE => writes' # <<>>
    BY <1>10, <1>13, <1>20 DEF Ends
  <2>7. TypeOK'
    BY <2>1, <2>2, <2>3, <2>4, <2>5, <2>6 DEF TypeOK
  <2>8. writes' \in Seq(Entry(indent'))
    BY <1>10, <1>11 DEF Moved
  <2>9. QED
    BY <1>16, <2>7, <2>8 DEF TypesInv
<1>24. EndsInv'
  BY <1>10, <1>11, <1>13, <1>14, <1>15, <1>20 DEF EndsInv, Moved
<1>25. WholeInv'
  <2> SUFFICES ASSUME lost' = {}
               PROVE  /\ ret' = NONE => Cat(out', Left') = TheText'
                      /\ \E r \in CharSeq : Cat(out', r) = TheText'
                      /\ Succeeded' => out' = TheText' /\ ~ Cannot'
    BY DEF WholeInv
  <2>1. lost = {}
    BY <1>10
  <2>2. Cat(out, Cat(text, rest)) = TheText /\ Cat(Cat(out, text), rest) = TheText
    BY <1>11, <1>14, <2>1, CatGroup DEF Moved
  <2>3. ASSUME sub = text
        PROVE  Cat(out', Left') = TheText'
    BY <1>10, <1>15, <2>2, <2>3
  <2>4. ret' = NONE => Cat(out', Left') = TheText'
    BY <1>12, <1>20, <1>22, <2>3
  <2>5. \E r \in CharSeq : Cat(out', r) = TheText'
    <3>1. PICK r \in CharSeq : text = Cat(sub, r)
      BY <1>11 DEF Moved
    <3>2. out \in CharSeq /\ sub \in CharSeq /\ rest \in CharSeq
      BY <1>11 DEF Moved
    <3>3. Cat(r, rest) \in CharSeq /\ Cat(Cat(sub, r), rest) = Cat(sub, Cat(r, rest))
      BY <3>1, <3>2, CatGroup, CatBytes
    <3>4. Cat(Cat(out, sub), Cat(r, rest)) = Cat(out, Cat(sub, Cat(r, rest)))
      BY <3>2, <3>3, CatGroup
    <3>5. QED
      BY <1>10, <1>15, <2>2, <3>1, <3>3, <3>4
  <2>6. ASSUME Succeeded'
        PROVE  out' = TheText' /\ ~ Cannot'
    <3>1. losses = {} /\ j > 0 /\ rest = <<>> /\ ~ Refuses(Tail(writes))
      BY <1>21, <2>6
    <3>2. sub = text
      BY <1>22, <3>1
    <3>3. Cat(out', <<>>) = TheText'
      BY <1>15, <2>3, <3>1, <3>2
    <3>4. out' = TheText'
      BY <1>16, <3>3, CatNone
    <3>5. ~ Cannot'
      BY <1>11, <1>14, <1>15, <3>1 DEF Moved
    <3>6. QED
      BY <3>4, <3>5
  <2>7. QED
    BY <2>4, <2>5, <2>6
<1>26. MemoryInv'
  <2> SUFFICES ASSUME stream = "mem"
               PROVE  /\ ret' = NONE => lost' = {} \/ room' = 0
                      /\ Succeeded' => lost' = {} \/ Bare(json')
    BY <1>10 DEF MemoryInv
  <2>1. ASSUME j >= 0, lost' = lost \cup losses
        PROVE  lost' = {} \/ room' = 0
    <3>1. lost = {}
      BY <1>12, <1>14, <2>1
    <3>2. j < n \/ losses = {}
      <4>1. n \in Nat
        BY <1>11 DEF Moved
      <4>2. QED
        BY <1>12, <1>19, <4>1
    <3>3. QED
      BY <1>10, <1>12, <2>1, <3>1, <3>2
  <2>2. ASSUME Succeeded'
        PROVE  lost' = {} \/ Bare(json')
    <3>1. j > 0 /\ last /\ lost' = lost \cup losses
      BY <1>21, <2>2
    <3>2. lost = {}
      BY <1>12, <1>14, <3>1
    <3>3. Bare(json) \/ j = n
      BY <1>12, <1>13, <3>1
    <3>4. QED
      BY <1>10, <1>19, <3>1, <3>2, <3>3
  <2>3. QED
    BY <1>20, <2>1, <2>2
<1>27. SocketInv'
  <2> SUFFICES ASSUME stream = "socket"
               PROVE  /\ ret' = NONE => Cat(Keep(out'), Keep(Left')) = Keep(TheText')
                      /\ Succeeded' => Keep(out') = Keep(TheText')
    BY <1>10 DEF SocketInv
  <2>1. /\ out \in CharSeq /\ text \in CharSeq /\ sub \in CharSeq /\ rest \in CharSeq
        /\ Left = Cat(text, rest)
    BY <1>11 DEF Moved
  <2>2. /\ Keep(Left) = Cat(Keep(text), Keep(rest)) /\ Keep(out') = Cat(Keep(out), Keep(sub))
        /\ Keep(out) \in CharSeq /\ Keep(text) \in CharSeq /\ Keep(rest) \in CharSeq
        /\ Keep(out') \in CharSeq
    BY <1>10, <1>16, <2>1, KeepFacts
  <2>3. Keep(<<>>) = <<>>
    BY SpreadNone DEF Keep
  <2>4. ASSUME Keep(sub) = Keep(text)
        PROVE  Cat(Keep(out'), Keep(Left')) = Keep(TheText')
    <3>1. Cat(Cat(Keep(out), Keep(text)), Keep(rest)) = Cat(Keep(out), Cat(Keep(text), Keep(rest)))
      BY <2>2, CatGroup
    <3>2. QED
      BY <1>14, <1>15, <2>2, <2>4, <3>1
  <2>5. j > 0 => sub = text
    BY <1>12, <1>19, <1>22
  <2>6. ret' = NONE => Keep(sub) = Keep(text)
    <3>1. j = 0 /\ test = "may" => Keep(sub) = Keep(text) \/ took # 0
      BY <1>11, <2>3, KeepFacts DEF Moved
    <3>2. QED
      BY <1>12, <1>20, <2>5, <3>1
  <2>7. Succeeded' => Keep(out') = Keep(TheText')
    <3> HAVE Succeeded'
    <3>1. Cat(Keep(out'), Keep(<<>>)) = Keep(TheText')
      BY <1>15, <1>21, <2>4, <2>5
    <3>2. QED
      BY <2>2, <2>3, <3>1, CatNone
  <2>8. QED
    BY <2>4, <2>6, <2>7
<1>28. CountsInv'
  <2> SUFFICES ASSUME "indent" \notin lost'
               PROVE  /\ ret' = NONE => i' = Len(out')
                      /\ Succeeded' => ret' = Len(out')
    BY DEF CountsInv
  <2>1. i = Len(out)
    BY <1>10, <1>14
  <2>2. ASSUME ret' = NONE
        PROVE  i' = Len(out')
    <3>1. "indent" \notin losses
      BY <1>20, <2>2
    <3>2. counted = took
      <4>1. CASE j = 0
        BY <1>19, <1>20, <2>2, <4>1
      <4>2. CASE j > 0 /\ test = "whole"
        BY <1>12, <1>19, <3>1, <4>2
      <4>3. CASE j > 0 /\ test # "whole"
        BY <1>12, <1>19, <4>3
      <4>4. QED
        BY <1>12, <1>20, <2>2, <4>1, <4>2, <4>3
    <3>3. QED
      BY <1>16, <1>20, <2>1, <2>2, <3>2
  <2>3. Succeeded' => ret' = Len(out')
    BY <1>16, <1>21, <2>1
  <2>4. QED
    BY <2>2, <2>3
<1>29. ReasonInv'
  <2> SUFFICES ASSUME ret' = -1
               PROVE  refused' \/ Cannot' \/ (indent' = <<>> /\ ~ Bare(json'))
    BY DEF ReasonInv
  <2>1. j <= 0 /\ (test = "whole" => ~ Bare(json))
    <3>1. CASE gone
      BY <1>17, <3>1
    <3>2. CASE ~ gone /\ last
      BY <1>10, <1>12, <1>13, <1>14, <1>19, <3>2
    <3>3. CASE ~ gone /\ ~ last
      BY <1>10, <3>3, JsonWriteAssumption
    <3>4. QED
      BY <3>1, <3>2, <3>3
  <2>2. test # "whole" => text # <<>>
    BY <1>11 DEF Moved
  <2>3. test = "whole" => text = indent
    BY <1>11 DEF Moved
  <2>4. QED
    BY <1>10, <2>1, <2>2, <2>3
<1>30. QED
  BY <1>23, <1>24, <1>25, <1>26, <1>27, <1>28, <1>29 DEF IInv

(* and so after every step. *)
LEMMA NextInv == IInv /\ [Next]_vars => IInv'
<1>1. IInv /\ UNCHANGED vars => IInv'
  BY DEF vars, IInv, TypesInv, TypeOK, EndsInv, WholeInv, MemoryInv, SocketInv, CountsInv,
         ReasonInv, TheText, Cannot, Left, Succeeded
<1>2. QED
  BY <1>1, RefuseInv, IoWriteInv DEF Next, Returned

(* The invariant says what the runs check. *)
LEMMA TheTextIs == Text = TheText /\ (Unwritable <=> Cannot)
BY TextIs, UnwritableIs DEF TheText, TextOf, Cannot, CannotBe

(* The first part of a concatenation is a prefix of it. *)
LEMMA PrefixOfCat ==
  ASSUME NEW p \in CharSeq, NEW q \in CharSeq
  PROVE  IsPrefix(p, Cat(p, q))
<1>1. p \in Seq(Char) /\ q \in Seq(Char) /\ Len(p) \in Nat /\ Len(q) \in Nat
  BY LenProperties DEF CharSeq
<1>2. PICK t : t = Cat(p, q)
  OBVIOUS
<1>3. /\ t \in Seq(Char) /\ Len(t) = Len(p) + Len(q)
      /\ \A k \in 1 .. Len(p) + Len(q) : t[k] = IF k <= Len(p) THEN p[k] ELSE q[k - Len(p)]
  BY <1>1, <1>2, ConcatProperties, Zenon DEF Cat
<1>4. \A k \in 1 .. Len(p) : t[k] = p[k] /\ p[k] \in Char
  BY <1>1, <1>3, ElementOfSeq
<1>5. SubSeq(p, 1, Len(p)) = p
  BY <1>1, SubSeqFull
<1>6. /\ SubSeq(t, 1, Len(p)) \in Seq(Char) /\ Len(SubSeq(t, 1, Len(p))) = Len(p)
      /\ \A k \in 1 .. Len(p) : SubSeq(t, 1, Len(p))[k] = t[k]
  <2>1. \A k \in 1 .. Len(p) : t[k] \in Char
    BY <1>4
  <2>2. /\ SubSeq(t, 1, Len(p)) \in Seq(Char)
        /\ Len(SubSeq(t, 1, Len(p))) = IF 1 <= Len(p) THEN Len(p) - 1 + 1 ELSE 0
        /\ \A k \in 1 .. Len(p) - 1 + 1 : SubSeq(t, 1, Len(p))[k] = t[1 + k - 1]
    BY <1>1, <2>1, SubSeqProperties
  <2>3. QED
    BY <1>1, <2>2
<1>7. SubSeq(t, 1, Len(p)) = p
  BY <1>1, <1>4, <1>6, SeqEqual
<1>8. QED
  BY <1>1, <1>2, <1>3, <1>5, <1>7 DEF IsPrefix

(* The invariant implies each of the five properties. *)
LEMMA InvWhole == IInv => Whole
<1> SUFFICES ASSUME IInv, lost = {}
             PROVE  IsPrefix(out, Text) /\ (ret # NONE /\ ret > 0 => out = Text /\ ~ Unwritable)
  BY DEF Whole
<1>1. out \in CharSeq
  BY DEF IInv, TypesInv
<1>2. PICK rest \in CharSeq : Cat(out, rest) = TheText
  BY DEF IInv, WholeInv
<1>3. IsPrefix(out, Text)
  BY <1>1, <1>2, PrefixOfCat, TheTextIs
<1>4. ret # NONE /\ ret > 0 => out = Text /\ ~ Unwritable
  BY TheTextIs DEF IInv, WholeInv, Succeeded
<1>5. QED
  BY <1>3, <1>4

(* MemoryWhole: what is lost on memory leaves no room for the last byte. *)
LEMMA InvMemory == IInv => MemoryWhole
BY TheTextIs DEF IInv, WholeInv, MemoryInv, Succeeded, MemoryWhole

(* SocketLosesSeparators, over the texts that Keep leaves. *)
LEMMA InvSocket == IInv => SocketLosesSeparators
<1> SUFFICES ASSUME IInv PROVE SocketLosesSeparators
  OBVIOUS
<1>1. json \in Doc /\ indent \in Indents /\ out \in CharSeq
  BY DEF IInv, TypesInv, TypeOK
<1>2. Text \in CharSeq
  BY <1>1, TextFacts, TheTextIs DEF TheText
<1>3. /\ FlattenSeq([k \in DOMAIN out |-> IF out[k] \in {",", "nl"} THEN <<>> ELSE <<out[k]>>]) = Keep(out)
      /\ FlattenSeq([k \in DOMAIN Text |-> IF Text[k] \in {",", "nl"} THEN <<>> ELSE <<Text[k]>>]) = Keep(Text)
  BY <1>1, <1>2, KeepFacts
<1>4. stream = "socket" /\ ret # NONE /\ ret > 0 => Keep(out) = Keep(Text)
  BY TheTextIs DEF IInv, SocketInv, Succeeded
<1>5. QED
  BY <1>3, <1>4, Zenon DEF SocketLosesSeparators

(* Counts. *)
LEMMA InvCounts == IInv => Counts
BY DEF IInv, TypesInv, CountsInv, Succeeded, Counts

(* FailsWithReason. *)
LEMMA InvReason == IInv => FailsWithReason
BY TheTextIs DEF IInv, ReasonInv, FailsWithReason

(* The invariant holds always. *)
LEMMA Invariant == Spec => []IInv
BY InitInv, NextInv, PTL DEF Spec

(* As long as no byte was lost unseen, what is out is the beginning of the *)
(* text, and a positive answer means all of it                             *)
(* (cosmic_json_write_value).                                              *)
THEOREM WritesItsText == Spec => []Whole
BY Invariant, InvWhole, PTL

(* On memory of any size a positive answer means the whole text, but for a *)
(* bare value at the top (cosmic_io_mem_write under                        *)
(* cosmic_json_write_stream_s).                                            *)
THEOREM MemoryTakesItWhole == Spec => []MemoryWhole
BY Invariant, InvMemory, PTL

(* On a socket a positive answer means all of the text but commas and line *)
(* breaks, whose answer 0 is taken for success (:190, :197, :265, :272).   *)
THEOREM SocketKeepsTheRest == Spec => []SocketLosesSeparators
BY Invariant, InvSocket, PTL

(* Types, and the answer counts the bytes taken, unless an indent was cut  *)
(* short (:45).                                                            *)
THEOREM AnswersItsCount == Spec => []Counts
BY Invariant, InvCounts, PTL

(* A failure has one of three reasons: the stream took nothing of a write, *)
(* the value cannot be written, or the indent is the empty text (:40).     *)
THEOREM GivesUpForCause == Spec => []FailsWithReason
BY Invariant, InvReason, PTL
=============================================================================

--------------------------- MODULE JsonReadProofs ---------------------------
(***************************************************************************)
(* What the reader promises for every text, every nesting, buffer and      *)
(* number limit: a failed read leaves no value behind, the index of an     *)
(* error is where the text went wrong, the nesting stays below max_depth,  *)
(* and a stream that runs dry is always an error.                          *)
(*                                                                         *)
(* The values form trees in which a value is younger than the one that     *)
(* owns it, and while the reader runs the roots are the containers of the  *)
(* calls on the stack, outermost first.  That, and what the calls have     *)
(* counted so far, is the invariant.                                       *)
(***************************************************************************)
EXTENDS JsonRead, FiniteSetTheorems, SequenceTheorems, TLAPS

FrameRec == [kind : {"object", "list"}, node : Nat \ {0}, key : Key \cup {NONE}, i : Nat]
Stages == {"key", "colon", "value", "end"}

-----------------------------------------------------------------------------
(* A set of naturals that has an element has a least one: the library says *)
(* so of a predicate that is an operator, which the provers cannot use.    *)
LEMMA LeastNatural ==
  ASSUME NEW T \in SUBSET Nat, T # {}
  PROVE  \E x \in T : \A y \in T : x <= y
<1> DEFINE R == StrictSubsetOrdering(Nat)
           D == {0 .. x : x \in T}
<1>1. \A x \in Nat : 0 .. x \in FiniteSubsetsOf(Nat)
  BY FS_Interval DEF FiniteSubsetsOf
<1>2. PICK x \in T : \A y \in T : ~ (<<0 .. y, 0 .. x>> \in R)
  <2>1. D # {} /\ D \subseteq FiniteSubsetsOf(Nat)
    BY <1>1
  <2>2. \E X \in D : \A Y \in D : ~ (<<Y, X>> \in R)
    <3> HIDE DEF R, D
    <3> QED
      BY <2>1, FS_StrictSubsetOrderingWellFounded, WFMin DEF R
  <2>3. QED
    BY <2>2
<1>3. ASSUME NEW y \in T, y < x
      PROVE  FALSE
  <2>1. 0 .. y \subseteq 0 .. x /\ x \in 0 .. x /\ x \notin 0 .. y
    BY <1>3
  <2>2. <<0 .. y, 0 .. x>> \in R
    BY <2>1 DEF StrictSubsetOrdering
  <2>3. QED
    BY <2>2, <1>2
<1>4. QED
  BY <1>3

(* The first k elements of a sequence, and those behind them.              *)
LEMMA SplitAt ==
  ASSUME NEW S, NEW s \in Seq(S), NEW k \in 0 .. Len(s)
  PROVE  /\ SubSeq(s, 1, k) \in Seq(S) /\ Len(SubSeq(s, 1, k)) = k
         /\ \A i \in 1 .. k : SubSeq(s, 1, k)[i] = s[i]
         /\ SubSeq(s, k + 1, Len(s)) \in Seq(S)
         /\ Len(SubSeq(s, k + 1, Len(s))) = Len(s) - k
         /\ \A i \in 1 .. Len(s) - k : SubSeq(s, k + 1, Len(s))[i] = s[k + i]
OBVIOUS

-----------------------------------------------------------------------------
(* What the calls on the stack have counted.                               *)

(* Running totals of any length exist. *)
LEMMA TotalsExist ==
  ASSUME NEW fr, NEW N \in Nat
  PROVE  \E g : g = [a \in 0 .. N |-> IF a = 0 THEN 0 ELSE g[a - 1] + fr[a].i]
<1> DEFINE Is(g, m) == g = [a \in 0 .. m |-> IF a = 0 THEN 0 ELSE g[a - 1] + fr[a].i]
           T == {m \in Nat : ~ \E g : Is(g, m)}
<1>1. ASSUME T # {}
      PROVE  FALSE
  <2>1. PICK m \in T : \A k \in T : m <= k
    <3> HIDE DEF T
    <3>1. T \in SUBSET Nat
      BY DEF T
    <3>2. QED
      BY <1>1, <3>1, LeastNatural
  <2>2. CASE m = 0
    <3> DEFINE h == [a \in 0 .. 0 |-> 0]
    <3>1. Is(h, 0)
      OBVIOUS
    <3>2. QED
      BY <2>2, <3>1
  <2>3. CASE m # 0
    <3>1. m \in Nat
      BY <2>1
    <3>2. m - 1 \in Nat /\ ~ (m <= m - 1)
      <4> HIDE DEF T
      <4> QED
        BY <2>3, <3>1
    <3>3. m - 1 \notin T
      <4> HIDE DEF T
      <4> QED
        BY <2>1, <3>2
    <3>4. PICK g : Is(g, m - 1)
      BY <3>2, <3>3
    <3> DEFINE h == [a \in 0 .. m |-> IF a = 0 THEN 0 ELSE g[a - 1] + fr[a].i]
    <3>5. \A a \in 0 .. m - 1 : h[a] = g[a]
      BY <3>1, <3>2, <3>4
    <3>6. ASSUME NEW a \in 0 .. m, a # 0
          PROVE  h[a - 1] = g[a - 1]
      <4>1. a - 1 \in 0 .. m - 1
        BY <3>1, <3>6
      <4>2. QED
        BY <3>5, <4>1
    <3>7. Is(h, m)
      BY <3>6
    <3>8. QED
      BY <2>1, <3>7
  <2>4. QED
    BY <2>2, <2>3
<1>2. QED
  BY <1>1

LEMMA SumIs ==
  ASSUME NEW fr, Len(fr) \in Nat
  PROVE  \E s : /\ s = [a \in 0 .. Len(fr) |-> IF a = 0 THEN 0 ELSE s[a - 1] + fr[a].i]
                /\ Sum(fr) = s[Len(fr)]
<1> DEFINE s == CHOOSE g : g = [a \in 0 .. Len(fr) |-> IF a = 0 THEN 0 ELSE g[a - 1] + fr[a].i]
<1>1. \E g : g = [a \in 0 .. Len(fr) |-> IF a = 0 THEN 0 ELSE g[a - 1] + fr[a].i]
  BY TotalsExist
<1>2. s = [a \in 0 .. Len(fr) |-> IF a = 0 THEN 0 ELSE s[a - 1] + fr[a].i]
  BY <1>1
<1>3. Sum(fr) = s[Len(fr)]
  BY DEF Sum
<1>4. QED
  BY <1>2, <1>3

LEMMA SumType ==
  ASSUME NEW fr \in Seq(FrameRec)
  PROVE  Sum(fr) \in Nat /\ (fr = <<>> => Sum(fr) = 0)
<1>1. Len(fr) \in Nat /\ \A a \in 1 .. Len(fr) : fr[a].i \in Nat
  <2>1. Len(fr) \in Nat
    BY LenProperties
  <2>2. \A a \in 1 .. Len(fr) : fr[a] \in FrameRec
    BY ElementOfSeq
  <2>3. \A f \in FrameRec : f.i \in Nat
    BY DEF FrameRec
  <2>4. QED
    BY <2>1, <2>2, <2>3
<1>2. PICK s : /\ s = [a \in 0 .. Len(fr) |-> IF a = 0 THEN 0 ELSE s[a - 1] + fr[a].i]
               /\ Sum(fr) = s[Len(fr)]
  BY <1>1, SumIs
<1>3. s[0] = 0 /\ \A a \in 1 .. Len(fr) : s[a] = s[a - 1] + fr[a].i
  BY <1>1, <1>2
<1> DEFINE T == {a \in 0 .. Len(fr) : s[a] \notin Nat}
<1>4. ASSUME T # {}
      PROVE  FALSE
  <2>1. T \in SUBSET Nat /\ \A a \in 0 .. Len(fr) : a \notin T => s[a] \in Nat
    OBVIOUS
  <2>2. PICK a \in T : \A b \in T : a <= b
    <3> HIDE DEF T
    <3> QED
      BY <1>4, <2>1, LeastNatural
  <2>3. a \in 0 .. Len(fr) /\ s[a] \notin Nat
    OBVIOUS
  <2> HIDE DEF T
  <2>4. a \in 1 .. Len(fr) /\ a - 1 \in 0 .. Len(fr) /\ ~ (a <= a - 1)
    BY <1>1, <1>3, <2>3
  <2>5. s[a - 1] \in Nat
    BY <2>1, <2>2, <2>4
  <2>6. s[a] = s[a - 1] + fr[a].i /\ fr[a].i \in Nat
    BY <1>1, <1>3, <2>4
  <2>7. QED
    BY <2>3, <2>5, <2>6
<1>5. Sum(fr) \in Nat
  <2>1. Len(fr) \in 0 .. Len(fr)
    BY <1>1
  <2>2. s[Len(fr)] \in Nat
    BY <1>4, <2>1
  <2>3. QED
    BY <1>2, <2>2
<1>6. fr = <<>> => Len(fr) = 0
  BY EmptySeq
<1>7. QED
  BY <1>2, <1>3, <1>5, <1>6

(* One call more adds its count.                                           *)
LEMMA SumLast ==
  ASSUME NEW fr \in Seq(FrameRec), NEW gr \in Seq(FrameRec), Len(gr) = Len(fr) + 1,
         \A a \in 1 .. Len(fr) : gr[a].i = fr[a].i
  PROVE  Sum(gr) = Sum(fr) + gr[Len(gr)].i
<1>1. Len(fr) \in Nat /\ Len(gr) \in Nat
  BY LenProperties
<1>2. PICK s : /\ s = [a \in 0 .. Len(fr) |-> IF a = 0 THEN 0 ELSE s[a - 1] + fr[a].i]
               /\ Sum(fr) = s[Len(fr)]
  BY <1>1, SumIs
<1>3. PICK t : /\ t = [a \in 0 .. Len(gr) |-> IF a = 0 THEN 0 ELSE t[a - 1] + gr[a].i]
               /\ Sum(gr) = t[Len(gr)]
  BY <1>1, SumIs
<1>4. s[0] = 0 /\ \A a \in 1 .. Len(fr) : s[a] = s[a - 1] + fr[a].i
  BY <1>1, <1>2
<1>5. t[0] = 0 /\ \A a \in 1 .. Len(gr) : t[a] = t[a - 1] + gr[a].i
  BY <1>1, <1>3
<1> DEFINE T == {a \in 0 .. Len(fr) : t[a] # s[a]}
<1>6. ASSUME T # {}
      PROVE  FALSE
  <2>1. T \in SUBSET Nat /\ \A a \in 0 .. Len(fr) : a \notin T => t[a] = s[a]
    OBVIOUS
  <2>2. PICK a \in T : \A b \in T : a <= b
    <3> HIDE DEF T
    <3> QED
      BY <1>6, <2>1, LeastNatural
  <2>3. a \in 0 .. Len(fr) /\ t[a] # s[a]
    OBVIOUS
  <2> HIDE DEF T
  <2>4. a \in 1 .. Len(fr) /\ a \in 1 .. Len(gr) /\ a - 1 \in 0 .. Len(fr) /\ ~ (a <= a - 1)
    BY <1>1, <1>4, <1>5, <2>3
  <2>5. t[a - 1] = s[a - 1]
    BY <2>1, <2>2, <2>4
  <2>6. s[a] = s[a - 1] + fr[a].i /\ t[a] = t[a - 1] + gr[a].i /\ gr[a].i = fr[a].i
    BY <1>4, <1>5, <2>4
  <2>7. QED
    BY <2>3, <2>5, <2>6
<1>7. t[Len(fr)] = s[Len(fr)]
  BY <1>1, <1>6
<1>8. Len(gr) \in 1 .. Len(gr) /\ Len(gr) - 1 = Len(fr)
  BY <1>1
<1>9. t[Len(gr)] = t[Len(fr)] + gr[Len(gr)].i
  BY <1>5, <1>8
<1>10. QED
  BY <1>2, <1>3, <1>7, <1>9

(* The stack without its innermost call.                                   *)
LEMMA FrontIs ==
  ASSUME NEW fr \in Seq(FrameRec), fr # <<>>
  PROVE  /\ Len(fr) \in Nat \ {0} /\ Len(fr) \in 1 .. Len(fr)
         /\ Front(fr) \in Seq(FrameRec) /\ Len(Front(fr)) = Len(fr) - 1
         /\ \A a \in 1 .. Len(fr) - 1 : Front(fr)[a] = fr[a]
         /\ Last(fr) = fr[Len(fr)] /\ Last(fr) \in FrameRec
         /\ Sum(fr) = Sum(Front(fr)) + Last(fr).i
<1>1. Len(fr) \in Nat \ {0}
  BY EmptySeq
<1>2. Len(fr) \in 1 .. Len(fr) /\ Len(fr) - 1 \in 0 .. Len(fr)
  BY <1>1
<1>3. /\ Front(fr) \in Seq(FrameRec) /\ Len(Front(fr)) = Len(fr) - 1
      /\ \A a \in 1 .. Len(fr) - 1 : Front(fr)[a] = fr[a]
  BY <1>2, SplitAt DEF Front
<1>4. Last(fr) = fr[Len(fr)] /\ Last(fr) \in FrameRec
  BY <1>2, ElementOfSeq DEF Last
<1>5. Len(fr) = Len(Front(fr)) + 1 /\ \A a \in 1 .. Len(Front(fr)) : fr[a].i = Front(fr)[a].i
  BY <1>1, <1>3
<1>6. Sum(fr) = Sum(Front(fr)) + fr[Len(fr)].i
  BY <1>3, <1>5, SumLast
<1>7. QED
  BY <1>1, <1>2, <1>3, <1>4, <1>6

(* Two stacks of the same calls, whatever they have counted.               *)
Same(fr, gr) ==
  /\ gr \in Seq(FrameRec) /\ Len(gr) = Len(fr)
  /\ \A a \in 1 .. Len(fr) : /\ gr[a].kind = fr[a].kind
                             /\ gr[a].node = fr[a].node
                             /\ gr[a].key = fr[a].key

LEMMA CountIs ==
  ASSUME NEW fr \in Seq(FrameRec), NEW j \in Nat, fr # <<>>
  PROVE  /\ Count(fr, j) \in Seq(FrameRec) /\ Count(fr, j) # <<>>
         /\ Same(fr, Count(fr, j))
         /\ Front(Count(fr, j)) = Front(fr)
         /\ Sum(Count(fr, j)) = Sum(fr) + j
<1> DEFINE g == Count(fr, j)
           e == [fr[Len(fr)] EXCEPT !.i = @ + j]
<1>1. /\ Len(fr) \in Nat \ {0} /\ Len(fr) \in 1 .. Len(fr)
      /\ Front(fr) \in Seq(FrameRec) /\ Len(Front(fr)) = Len(fr) - 1
      /\ \A a \in 1 .. Len(fr) - 1 : Front(fr)[a] = fr[a]
      /\ fr[Len(fr)] \in FrameRec
      /\ Sum(fr) = Sum(Front(fr)) + fr[Len(fr)].i
  BY FrontIs
<1>2. /\ e \in FrameRec /\ e.i = fr[Len(fr)].i + j
      /\ e.kind = fr[Len(fr)].kind /\ e.node = fr[Len(fr)].node /\ e.key = fr[Len(fr)].key
  <2>1. ASSUME NEW f \in FrameRec
        PROVE  /\ [f EXCEPT !.i = @ + j] \in FrameRec
               /\ [f EXCEPT !.i = @ + j].i = f.i + j
               /\ [f EXCEPT !.i = @ + j].kind = f.kind
               /\ [f EXCEPT !.i = @ + j].node = f.node
               /\ [f EXCEPT !.i = @ + j].key = f.key
    <3>1. f.i + j \in Nat
      BY DEF FrameRec
    <3>2. f = [kind |-> f.kind, node |-> f.node, key |-> f.key, i |-> f.i]
      BY DEF FrameRec
    <3>3. [f EXCEPT !.i = @ + j] = [kind |-> f.kind, node |-> f.node, key |-> f.key, i |-> f.i + j]
      BY <3>2
    <3>4. f.kind \in {"object", "list"} /\ f.node \in Nat \ {0} /\ f.key \in Key \cup {NONE}
      BY DEF FrameRec
    <3>5. QED
      BY <3>1, <3>3, <3>4 DEF FrameRec
  <2>2. QED
    BY <1>1, <2>1
<1>3. g = [fr EXCEPT ![Len(fr)] = e]
  BY DEF Count
<1> HIDE DEF g, e
<1>4. /\ g \in Seq(FrameRec) /\ Len(g) = Len(fr)
      /\ \A a \in 1 .. Len(fr) : g[a] = IF a = Len(fr) THEN e ELSE fr[a]
  BY <1>1, <1>2, <1>3, ExceptSeq
<1>5. g # <<>>
  BY <1>1, <1>4, EmptySeq
<1>6. Same(fr, g)
  BY <1>2, <1>4 DEF Same
<1>7. /\ Front(g) \in Seq(FrameRec) /\ Len(Front(g)) = Len(fr) - 1
      /\ \A a \in 1 .. Len(fr) - 1 : Front(g)[a] = g[a]
      /\ Sum(g) = Sum(Front(g)) + g[Len(g)].i
  BY <1>4, <1>5, FrontIs
<1>8. Front(g) = Front(fr)
  <2>1. \A a \in 1 .. Len(fr) - 1 : Front(g)[a] = Front(fr)[a]
    BY <1>1, <1>4, <1>7
  <2>2. QED
    BY <1>1, <1>7, <2>1, SeqEqual
<1>9. Sum(g) = Sum(fr) + j
  <2>1. g[Len(g)].i = fr[Len(fr)].i + j
    BY <1>1, <1>2, <1>4
  <2>2. Sum(Front(fr)) \in Nat /\ fr[Len(fr)].i \in Nat
    BY <1>1, SumType DEF FrameRec
  <2>3. QED
    BY <1>1, <1>7, <1>8, <2>1, <2>2
<1>10. QED
  BY <1>4, <1>5, <1>6, <1>8, <1>9 DEF g

(* A call more on the stack. *)
LEMMA PushIs ==
  ASSUME NEW fr \in Seq(FrameRec), NEW f \in FrameRec
  PROVE  /\ Append(fr, f) \in Seq(FrameRec) /\ Len(Append(fr, f)) = Len(fr) + 1
         /\ Append(fr, f) # <<>> /\ Len(fr) \in Nat
         /\ \A a \in 1 .. Len(fr) : Append(fr, f)[a] = fr[a]
         /\ Append(fr, f)[Len(fr) + 1] = f
         /\ Sum(Append(fr, f)) = Sum(fr) + f.i
<1>1. /\ Append(fr, f) \in Seq(FrameRec) /\ Len(Append(fr, f)) = Len(fr) + 1
      /\ Append(fr, f) # <<>>
      /\ \A a \in 1 .. Len(fr) : Append(fr, f)[a] = fr[a]
      /\ Append(fr, f)[Len(fr) + 1] = f
  BY AppendProperties
<1>2. Len(fr) \in Nat
  BY LenProperties
<1>3. Sum(Append(fr, f)) = Sum(fr) + f.i
  BY <1>1, SumLast
<1>4. QED
  BY <1>1, <1>2, <1>3

-----------------------------------------------------------------------------
(* Who owns whom.                                                          *)

(* A value is owned by an older one, or is one of the roots.               *)
Tree(own, roots) ==
  /\ DOMAIN own \subseteq Nat \ {0}
  /\ \A n \in DOMAIN own : \/ own[n] = 0 /\ n \in roots
                           \/ own[n] \in DOMAIN own /\ own[n] < n

(* What a value owns contains itself and what its members own.             *)
LEMMA OwnedIs ==
  ASSUME NEW own, NEW m \in DOMAIN own
  PROVE  /\ m \in Owned(own, m) /\ Owned(own, m) \subseteq DOMAIN own
         /\ \A n \in DOMAIN own : own[n] \in Owned(own, m) => n \in Owned(own, m)
BY DEF Owned

(* The roots own everything (cosmic_json_free follows the same pointers).  *)
LEMMA RootsOwnAll ==
  ASSUME NEW own, NEW roots, Tree(own, roots)
  PROVE  \A n \in DOMAIN own : \E m \in roots \cap DOMAIN own : n \in Owned(own, m)
<1> DEFINE Is(n) == \E m \in roots \cap DOMAIN own : n \in Owned(own, m)
           T == {n \in DOMAIN own : ~ Is(n)}
<1>1. ASSUME T # {}
      PROVE  FALSE
  <2>1. T \in SUBSET Nat /\ \A n \in DOMAIN own : n \notin T => Is(n)
    BY DEF Tree
  <2>2. PICK n \in T : \A k \in T : n <= k
    <3> HIDE DEF T
    <3> QED
      BY <1>1, <2>1, LeastNatural
  <2>3. n \in DOMAIN own /\ ~ Is(n) /\ n \in Nat
    BY <2>1
  <2> HIDE DEF T
  <2>4. CASE own[n] = 0 /\ n \in roots
    BY <2>3, <2>4, OwnedIs
  <2>5. CASE own[n] \in DOMAIN own /\ own[n] < n
    <3>1. own[n] \in Nat /\ ~ (n <= own[n])
      BY <2>3, <2>5 DEF Tree
    <3>2. Is(own[n])
      <4> HIDE DEF Is
      <4> QED
        BY <2>1, <2>2, <2>5, <3>1
    <3>3. PICK m \in roots \cap DOMAIN own : own[n] \in Owned(own, m)
      BY <3>2
    <3>4. n \in Owned(own, m)
      BY <2>3, <3>3, OwnedIs
    <3>5. QED
      BY <2>3, <3>4
  <2>6. QED
    BY <2>3, <2>4, <2>5 DEF Tree
<1>2. QED
  BY <1>1

(* Freeing the roots frees everything (:345, :373, :444).                  *)
LEMMA FreeAll ==
  ASSUME NEW own, NEW roots, Tree(own, roots)
  PROVE  DOMAIN Without(own, roots) = {}
<1>1. DOMAIN own \ UNION {Owned(own, m) : m \in roots} = {}
  BY RootsOwnAll
<1>2. QED
  BY <1>1 DEF Without

(* Freeing one of the roots leaves the trees of the others.                *)
LEMMA FreeOne ==
  ASSUME NEW own, NEW roots, NEW v \in DOMAIN own, Tree(own, roots \cup {v})
  PROVE  Tree(Without(own, {v}), roots)
<1> DEFINE r == Without(own, {v})
<1>1. /\ DOMAIN r = DOMAIN own \ Owned(own, v)
      /\ \A n \in DOMAIN r : r[n] = own[n]
  BY DEF Without
<1>2. /\ v \in Owned(own, v)
      /\ \A n \in DOMAIN own : own[n] \in Owned(own, v) => n \in Owned(own, v)
  BY OwnedIs
<1> HIDE DEF r
<1>3. DOMAIN r \subseteq Nat \ {0}
  BY <1>1 DEF Tree
<1>4. ASSUME NEW n \in DOMAIN r
      PROVE  \/ r[n] = 0 /\ n \in roots
             \/ r[n] \in DOMAIN r /\ r[n] < n
  <2>1. n \in DOMAIN own /\ n # v /\ r[n] = own[n] /\ n \notin Owned(own, v)
    BY <1>1, <1>2
  <2>2. CASE own[n] = 0 /\ n \in roots \cup {v}
    BY <2>1, <2>2
  <2>3. CASE own[n] \in DOMAIN own /\ own[n] < n
    BY <1>1, <1>2, <2>1, <2>3
  <2>4. QED
    BY <2>1, <2>2, <2>3 DEF Tree
<1>5. QED
  BY <1>3, <1>4 DEF Tree, r

-----------------------------------------------------------------------------
(* The calls that have not returned.                                       *)

(* Their containers, each younger than the one before, are roots. *)
Stack(fr, own) ==
  /\ fr \in Seq(FrameRec)
  /\ \A a, b \in 1 .. Len(fr) : a < b => fr[a].node < fr[b].node
  /\ \A a \in 1 .. Len(fr) : fr[a].node \in DOMAIN own /\ own[fr[a].node] = 0

(* The first k calls that read an object have read a key. *)
Keyed(fr, k) == \A a \in 1 .. k : fr[a].kind = "object" => fr[a].key \in Key

Noting(ents, own) == \A n \in DOMAIN ents : n \in DOMAIN own /\ ents[n] \subseteq Key

Numbered(own) == \E N \in Nat : DOMAIN own = 1 .. N

(* The calls fr look for st. *)
Reads(fr, own, ents, st) ==
  /\ Stack(fr, own)
  /\ Tree(own, Containers(fr))
  /\ Numbered(own)
  /\ Noting(ents, own) /\ Containers(fr) \subseteq DOMAIN ents
  /\ Keyed(fr, Len(fr) - 1)
  /\ st # "key" => Keyed(fr, Len(fr))
  /\ st \in Stages
  /\ fr = <<>> => st = "value"
  /\ st \in {"key", "colon"} => Last(fr).kind = "object"

(* A value v is about to be given to the innermost of the calls fr. *)
Held(fr, own, ents, v) ==
  /\ Stack(fr, own)
  /\ \A a \in 1 .. Len(fr) : fr[a].node < v
  /\ Tree(own, Containers(fr) \cup {v})
  /\ v \in DOMAIN own /\ own[v] = 0
  /\ Numbered(own)
  /\ Noting(ents, own) /\ Containers(fr) \subseteq DOMAIN ents
  /\ Keyed(fr, Len(fr))

LEMMA ContainersIs ==
  ASSUME NEW fr \in Seq(FrameRec)
  PROVE  Containers(fr) = {fr[a].node : a \in 1 .. Len(fr)}
BY LenProperties DEF Containers

LEMMA SameContainers ==
  ASSUME NEW fr \in Seq(FrameRec), NEW gr, Same(fr, gr)
  PROVE  Containers(gr) = Containers(fr)
<1>1. gr \in Seq(FrameRec) /\ Len(gr) = Len(fr)
  BY DEF Same
<1>2. /\ Containers(fr) = {fr[a].node : a \in 1 .. Len(fr)}
      /\ Containers(gr) = {gr[a].node : a \in 1 .. Len(fr)}
  BY <1>1, ContainersIs
<1>3. QED
  BY <1>2 DEF Same

LEMMA SameStack ==
  ASSUME NEW fr, NEW gr, NEW own, Stack(fr, own), Same(fr, gr)
  PROVE  Stack(gr, own)
BY DEF Stack, Same

LEMMA SameKeyed ==
  ASSUME NEW fr \in Seq(FrameRec), NEW gr, Same(fr, gr)
  PROVE  /\ Keyed(fr, Len(fr)) => Keyed(gr, Len(gr))
         /\ Keyed(fr, Len(fr) - 1) => Keyed(gr, Len(gr) - 1)
<1>1. Len(fr) \in Nat /\ Len(gr) = Len(fr)
  BY LenProperties DEF Same
<1>2. QED
  BY <1>1 DEF Keyed, Same

LEMMA SameHeld ==
  ASSUME NEW fr, NEW gr, NEW own, NEW ents, NEW v, Held(fr, own, ents, v), Same(fr, gr)
  PROVE  Held(gr, own, ents, v)
<1>1. fr \in Seq(FrameRec) /\ Stack(fr, own)
  BY DEF Held, Stack
<1>2. Containers(gr) = Containers(fr) /\ Stack(gr, own) /\ Keyed(gr, Len(gr))
  BY <1>1, SameContainers, SameStack, SameKeyed DEF Held
<1>3. \A a \in 1 .. Len(gr) : gr[a].node < v
  BY DEF Held, Same
<1>4. QED
  BY <1>2, <1>3 DEF Held

LEMMA SameReads ==
  ASSUME NEW fr, NEW gr, NEW own, NEW ents, NEW st, Reads(fr, own, ents, st), Same(fr, gr)
  PROVE  Reads(gr, own, ents, st)
<1>1. fr \in Seq(FrameRec) /\ Stack(fr, own) /\ gr \in Seq(FrameRec) /\ Len(gr) = Len(fr)
  BY DEF Reads, Stack, Same
<1>2. Containers(gr) = Containers(fr) /\ Stack(gr, own) /\ Keyed(gr, Len(gr) - 1)
  BY <1>1, SameContainers, SameStack, SameKeyed DEF Reads
<1>3. st # "key" => Keyed(gr, Len(gr))
  BY <1>1, SameKeyed DEF Reads
<1>4. gr = <<>> <=> fr = <<>>
  BY <1>1, EmptySeq
<1>5. st \in {"key", "colon"} => Last(gr).kind = "object"
  <2>1. fr # <<>> => Last(gr).kind = Last(fr).kind
    <3>1. fr # <<>> => Len(fr) \in 1 .. Len(fr)
      BY <1>1, FrontIs
    <3>2. QED
      BY <1>1, <3>1 DEF Same, Last
  <2>2. st \in {"key", "colon"} => fr # <<>>
    BY DEF Reads
  <2>3. QED
    BY <2>1, <2>2 DEF Reads
<1>6. QED
  BY <1>2, <1>3, <1>4, <1>5 DEF Reads

(* The value is added to the innermost container (:342, :370, :441).       *)
LEMMA AttachReads ==
  ASSUME NEW fr, NEW own, NEW ents, NEW v, Held(fr, own, ents, v), fr # <<>>,
         NEW st \in {"end", First(Last(fr).kind)}
  PROVE  Reads(fr, Attached(fr, own, v), Noted(fr, ents), st)
<1> DEFINE o == Attached(fr, own, v)
           e == Noted(fr, ents)
           m == Last(fr).node
<1>1. /\ fr \in Seq(FrameRec) /\ Len(fr) \in Nat \ {0} /\ Len(fr) \in 1 .. Len(fr)
      /\ Last(fr) = fr[Len(fr)] /\ Last(fr) \in FrameRec
  BY FrontIs DEF Held, Stack
<1>2. m \in DOMAIN own /\ m < v /\ m # 0 /\ m \in Nat
  BY <1>1 DEF Held, Stack, FrameRec
<1>3. /\ DOMAIN o = DOMAIN own
      /\ o[v] = m /\ \A n \in DOMAIN own : n # v => o[n] = own[n]
  BY DEF Held, Attached
<1>4. /\ DOMAIN e = DOMAIN ents
      /\ \A n \in DOMAIN ents : e[n] = ents[n] \/ e[n] = ents[n] \cup {Last(fr).key}
      /\ Last(fr).kind # "object" => e = ents
  BY DEF Noted
<1> HIDE DEF o, e, m
<1>5. Stack(fr, o)
  <2>1. ASSUME NEW a \in 1 .. Len(fr)
        PROVE  fr[a].node \in DOMAIN o /\ o[fr[a].node] = 0
    <3>1. fr[a].node \in DOMAIN own /\ own[fr[a].node] = 0 /\ fr[a].node < v
      BY DEF Held, Stack
    <3>2. v \in Nat /\ fr[a].node \in Nat
      BY <3>1 DEF Held, Tree
    <3>3. fr[a].node # v
      BY <3>1, <3>2
    <3>4. QED
      BY <1>3, <3>1, <3>3
  <2>2. QED
    BY <2>1 DEF Held, Stack
<1>6. Tree(o, Containers(fr))
  <2>1. ASSUME NEW n \in DOMAIN o
        PROVE  \/ o[n] = 0 /\ n \in Containers(fr)
               \/ o[n] \in DOMAIN o /\ o[n] < n
    <3>1. CASE n = v
      BY <1>2, <1>3, <3>1
    <3>2. CASE n # v
      <4>1. o[n] = own[n] /\ n \in DOMAIN own
        BY <1>3, <3>2
      <4>2. \/ own[n] = 0 /\ n \in Containers(fr) \cup {v}
            \/ own[n] \in DOMAIN own /\ own[n] < n
        BY <4>1 DEF Held, Tree
      <4>3. QED
        BY <1>3, <3>2, <4>1, <4>2
    <3>3. QED
      BY <3>1, <3>2
  <2>2. QED
    BY <1>3, <2>1 DEF Held, Tree
<1>7. Numbered(o)
  BY <1>3 DEF Held, Numbered
<1>8. Noting(e, o)
  <2>1. Last(fr).kind = "object" => Last(fr).key \in Key
    BY <1>1 DEF Held, Keyed
  <2>2. ASSUME NEW n \in DOMAIN e
        PROVE  n \in DOMAIN o /\ e[n] \subseteq Key
    <3>1. n \in DOMAIN own /\ ents[n] \subseteq Key
      BY <1>4 DEF Held, Noting
    <3>2. QED
      BY <1>3, <1>4, <2>1, <3>1
  <2>3. QED
    BY <2>2 DEF Noting
<1>9. Keyed(fr, Len(fr)) /\ Keyed(fr, Len(fr) - 1)
  BY <1>1 DEF Held, Keyed
<1>10. st \in Stages /\ (st \in {"key", "colon"} => Last(fr).kind = "object")
  BY DEF First, Stages
<1>11. Containers(fr) \subseteq DOMAIN e
  BY <1>4 DEF Held
<1>12. QED
  BY <1>5, <1>6, <1>7, <1>8, <1>9, <1>10, <1>11 DEF Reads, o, e

(* A container ends: its call returns it to the one below.                 *)
LEMMA CloseHeld ==
  ASSUME NEW fr, NEW own, NEW ents, NEW st, Reads(fr, own, ents, st), fr # <<>>
  PROVE  Held(Front(fr), own, ents, Last(fr).node)
<1> DEFINE F == Front(fr)
           v == Last(fr).node
           l == Len(fr)
<1>1. /\ fr \in Seq(FrameRec) /\ l \in Nat \ {0} /\ l \in 1 .. l
      /\ F \in Seq(FrameRec) /\ Len(F) = l - 1
      /\ \A a \in 1 .. l - 1 : F[a] = fr[a]
      /\ v = fr[l].node
  BY FrontIs DEF Reads, Stack
<1>2. Stack(fr, own) /\ Keyed(fr, l - 1) /\ Tree(own, Containers(fr))
  BY DEF Reads
<1> HIDE DEF F, v, l
<1>3. \A a \in 1 .. l - 1 : a \in 1 .. l /\ a < l
  BY <1>1
<1>4. Stack(F, own)
  <2>1. \A a, b \in 1 .. Len(F) : a < b => F[a].node < F[b].node
    BY <1>1, <1>2, <1>3 DEF Stack, l
  <2>2. \A a \in 1 .. Len(F) : F[a].node \in DOMAIN own /\ own[F[a].node] = 0
    BY <1>1, <1>2, <1>3 DEF Stack, l
  <2>3. QED
    BY <1>1, <2>1, <2>2 DEF Stack
<1>5. \A a \in 1 .. Len(F) : F[a].node < v
  BY <1>1, <1>2, <1>3 DEF Stack, l
<1>6. v \in DOMAIN own /\ own[v] = 0
  BY <1>1, <1>2 DEF Stack, l
<1>7. Containers(fr) = Containers(F) \cup {v}
  <2>1. /\ Containers(fr) = {fr[a].node : a \in 1 .. l}
        /\ Containers(F) = {F[a].node : a \in 1 .. l - 1}
    BY <1>1, ContainersIs DEF l
  <2>2. \A a \in 1 .. l : a = l \/ a \in 1 .. l - 1
    BY <1>1
  <2>3. \A n : n \in Containers(fr) <=> n \in Containers(F) \/ n = v
    BY <1>1, <1>3, <2>1, <2>2
  <2>4. QED
    BY <2>3
<1>8. Keyed(F, Len(F))
  BY <1>1, <1>2 DEF Keyed
<1>9. QED
  BY <1>2, <1>4, <1>5, <1>6, <1>7, <1>8 DEF Reads, Held, F, v

(* A value is created: it is the youngest and nobody owns it yet.          *)
LEMMA FreshIs ==
  ASSUME Numbered(parent)
  PROVE  /\ Fresh \in Nat \ {0} /\ Fresh \notin DOMAIN parent
         /\ \A n \in DOMAIN parent : n < Fresh
         /\ DOMAIN With(Fresh) = DOMAIN parent \cup {Fresh} /\ Numbered(With(Fresh))
         /\ With(Fresh)[Fresh] = 0
         /\ \A n \in DOMAIN parent : With(Fresh)[n] = parent[n]
<1>1. PICK N \in Nat : DOMAIN parent = 1 .. N
  BY DEF Numbered
<1>2. Fresh = N + 1
  <2>1. Cardinality(1 .. N) = N
    BY FS_Interval
  <2>2. QED
    BY <1>1, <2>1 DEF Fresh
<1>3. /\ DOMAIN With(Fresh) = DOMAIN parent \cup {Fresh}
      /\ \A n \in DOMAIN parent \cup {Fresh} :
           With(Fresh)[n] = IF n = Fresh THEN 0 ELSE parent[n]
  BY DEF With
<1> HIDE DEF Fresh
<1>4. Fresh \in Nat \ {0} /\ Fresh \notin DOMAIN parent /\ \A n \in DOMAIN parent : n < Fresh
  BY <1>1, <1>2
<1>5. DOMAIN With(Fresh) = 1 .. N + 1 /\ N + 1 \in Nat
  <2>1. (1 .. N) \cup {N + 1} = 1 .. N + 1 /\ N + 1 \in Nat
    OBVIOUS
  <2>2. QED
    BY <1>1, <1>2, <1>3, <2>1
<1>6. Numbered(With(Fresh))
  BY <1>5 DEF Numbered
<1>7. QED
  BY <1>3, <1>4, <1>6

LEMMA FreshStack ==
  ASSUME NEW fr, Stack(fr, parent), Numbered(parent), Tree(parent, Containers(fr))
  PROVE  /\ Stack(fr, With(Fresh))
         /\ \A a \in 1 .. Len(fr) : fr[a].node < Fresh
         /\ Tree(With(Fresh), Containers(fr) \cup {Fresh})
<1>1. /\ Fresh \in Nat \ {0} /\ Fresh \notin DOMAIN parent
      /\ \A n \in DOMAIN parent : n < Fresh
      /\ DOMAIN With(Fresh) = DOMAIN parent \cup {Fresh}
      /\ With(Fresh)[Fresh] = 0
      /\ \A n \in DOMAIN parent : With(Fresh)[n] = parent[n]
  BY FreshIs
<1> HIDE DEF Fresh
<1>2. Stack(fr, With(Fresh)) /\ \A a \in 1 .. Len(fr) : fr[a].node < Fresh
  BY <1>1 DEF Stack
<1>3. Tree(With(Fresh), Containers(fr) \cup {Fresh})
  <2>1. DOMAIN With(Fresh) \subseteq Nat \ {0}
    BY <1>1 DEF Tree
  <2>2. ASSUME NEW n \in DOMAIN With(Fresh)
        PROVE  \/ With(Fresh)[n] = 0 /\ n \in Containers(fr) \cup {Fresh}
               \/ With(Fresh)[n] \in DOMAIN With(Fresh) /\ With(Fresh)[n] < n
    BY <1>1 DEF Tree
  <2>3. QED
    BY <2>1, <2>2 DEF Tree
<1>4. QED
  BY <1>2, <1>3

LEMMA FreshHeld ==
  ASSUME NEW fr, NEW ents, NEW st \in {"value", "end"}, Reads(fr, parent, ents, st)
  PROVE  Held(fr, With(Fresh), ents, Fresh)
<1>1. /\ Stack(fr, parent) /\ Numbered(parent) /\ Tree(parent, Containers(fr))
      /\ Noting(ents, parent) /\ Containers(fr) \subseteq DOMAIN ents /\ Keyed(fr, Len(fr))
  BY DEF Reads
<1>2. /\ Stack(fr, With(Fresh)) /\ Tree(With(Fresh), Containers(fr) \cup {Fresh})
      /\ \A a \in 1 .. Len(fr) : fr[a].node < Fresh
  BY <1>1, FreshStack
<1>3. /\ DOMAIN With(Fresh) = DOMAIN parent \cup {Fresh} /\ Numbered(With(Fresh))
      /\ With(Fresh)[Fresh] = 0
  BY <1>1, FreshIs
<1> HIDE DEF Fresh
<1>4. Noting(ents, With(Fresh))
  BY <1>1, <1>3 DEF Noting
<1>5. QED
  BY <1>1, <1>2, <1>3, <1>4 DEF Held

(* A container is created and its call is put on the stack.                *)
LEMMA PushReads ==
  ASSUME NEW fr, Reads(fr, parent, entries, "value"), NEW kind \in {"object", "list"}
  PROVE  Reads(Append(fr, Frame(kind, Fresh)), With(Fresh),
               [n \in DOMAIN entries \cup {Fresh} |-> IF n = Fresh THEN {} ELSE entries[n]],
               First(kind))
<1> DEFINE f == Frame(kind, Fresh)
           g == Append(fr, f)
           e == [n \in DOMAIN entries \cup {Fresh} |-> IF n = Fresh THEN {} ELSE entries[n]]
           l == Len(fr)
<1>1. /\ Stack(fr, parent) /\ Numbered(parent) /\ Tree(parent, Containers(fr))
      /\ Noting(entries, parent) /\ Keyed(fr, l) /\ fr \in Seq(FrameRec)
  BY DEF Reads, Stack
<1>2. /\ Fresh \in Nat \ {0}
      /\ DOMAIN With(Fresh) = DOMAIN parent \cup {Fresh} /\ Numbered(With(Fresh))
      /\ With(Fresh)[Fresh] = 0
  BY <1>1, FreshIs
<1>3. /\ Stack(fr, With(Fresh)) /\ Tree(With(Fresh), Containers(fr) \cup {Fresh})
      /\ \A a \in 1 .. l : fr[a].node < Fresh
  BY <1>1, FreshStack
<1>4. f \in FrameRec /\ f.node = Fresh /\ f.kind = kind
  BY <1>2 DEF Frame, FrameRec
<1> HIDE DEF f
<1>5. /\ g \in Seq(FrameRec) /\ Len(g) = l + 1 /\ g # <<>> /\ l \in Nat
      /\ \A a \in 1 .. l : g[a] = fr[a]
      /\ g[l + 1] = f
  BY <1>1, <1>4, PushIs
<1>6. e \in [DOMAIN entries \cup {Fresh} -> SUBSET Key]
  BY <1>1 DEF Noting
<1>7. Noting(e, With(Fresh))
  <2>1. DOMAIN e = DOMAIN entries \cup {Fresh} /\ \A n \in DOMAIN e : e[n] \subseteq Key
    BY <1>6
  <2> HIDE DEF e
  <2>2. QED
    BY <1>1, <1>2, <2>1 DEF Noting
<1> HIDE DEF g, e, l
<1>8. \A a \in 1 .. l + 1 : a \in 1 .. l \/ a = l + 1
  BY <1>5
<1>9. Stack(g, With(Fresh))
  <2>1. ASSUME NEW a \in 1 .. l + 1, NEW b \in 1 .. l + 1, a < b
        PROVE  g[a].node < g[b].node
    <3>1. a \in 1 .. l /\ (b \in 1 .. l \/ b = l + 1)
      BY <1>5, <2>1
    <3>2. CASE b \in 1 .. l
      BY <1>3, <1>5, <2>1, <3>1, <3>2 DEF Stack, l
    <3>3. CASE b = l + 1
      BY <1>3, <1>4, <1>5, <3>1, <3>3
    <3>4. QED
      BY <3>1, <3>2, <3>3
  <2>2. ASSUME NEW a \in 1 .. l + 1
        PROVE  g[a].node \in DOMAIN With(Fresh) /\ With(Fresh)[g[a].node] = 0
    <3>1. CASE a \in 1 .. l
      BY <1>3, <1>5, <3>1 DEF Stack, l
    <3>2. CASE a = l + 1
      BY <1>2, <1>4, <1>5, <3>2
    <3>3. QED
      BY <1>8, <3>1, <3>2
  <2>3. QED
    BY <1>5, <2>1, <2>2 DEF Stack
<1>10. Containers(g) = Containers(fr) \cup {Fresh}
  <2>1. /\ Containers(fr) = {fr[a].node : a \in 1 .. l}
        /\ Containers(g) = {g[a].node : a \in 1 .. l + 1}
    BY <1>1, <1>5, ContainersIs DEF l
  <2>2. l + 1 \in 1 .. l + 1 /\ \A a \in 1 .. l : a \in 1 .. l + 1
    BY <1>5
  <2>3. \A n : n \in Containers(g) <=> n \in Containers(fr) \/ n = Fresh
    BY <1>4, <1>5, <1>8, <2>1, <2>2
  <2>4. QED
    BY <2>3
<1>11. Keyed(g, Len(g) - 1) /\ (First(kind) # "key" => Keyed(g, Len(g)))
  <2>1. Len(g) - 1 = l /\ Keyed(g, l)
    BY <1>1, <1>5 DEF Keyed
  <2>2. First(kind) # "key" => f.kind # "object"
    BY <1>4 DEF First
  <2>3. QED
    BY <1>5, <1>8, <2>1, <2>2 DEF Keyed
<1>12. /\ First(kind) \in Stages /\ First(kind) # "end" /\ First(kind) # "colon"
       /\ First(kind) = "key" => Last(g).kind = "object"
  BY <1>4, <1>5 DEF First, Stages, Last
<1>13. QED
  BY <1>2, <1>3, <1>5, <1>7, <1>9, <1>10, <1>11, <1>12 DEF Reads, g, e, f

-----------------------------------------------------------------------------
(* Two ways to add the same four numbers. *)
LEMMA Adding == \A a, b, c, d \in Nat : c = b + d => a + 1 + b + d = a + 1 + c
OBVIOUS

LEMMA OneMore ==
  \A a, b, c, d \in Nat : d = a + 1 + b + c + 1 => /\ d = a + 1 + b + (c + 1)
                                                   /\ (c + 1) + b = d - 1 - a
OBVIOUS

USE JsonReadAssumption

Codes == {"none", "io", "unexpected", "max_depth"}
Funcs == {"none", "seek_until", "read_string", "read_and_compare", "read_number",
          "object", "list"}
ErrRec == [code : Codes, index : Int, func : Funcs]
ScanRec == [j : Nat, n : Nat, esc : BOOLEAN, dec : BOOLEAN, dig : BOOLEAN, tail : 0 .. 4]

Typed ==
  /\ mode \in {"seek", "string", "compare", "number", "done"}
  /\ scan \in ScanRec
  /\ error \in ErrRec
  /\ stage \in Stages
  /\ consumed \in 0 .. MaxInput
  /\ lead \in 0 .. consumed
  /\ cut \in BOOLEAN
  /\ depth \in 0 .. MaxDepth + 1

(* How far the reader is in the text, by what it has counted.  The first   *)
(* character of a number is counted twice, until it is given.              *)
Counted ==
  /\ mode = "seek" /\ frames = <<>> => consumed = lead /\ scan.j = lead
  /\ mode = "seek" /\ frames # <<>> => consumed = lead + 1 + Sum(frames) + scan.j
  /\ mode \in {"string", "compare"} => consumed = lead + 1 + Sum(frames) + scan.j
  /\ mode = "number" => consumed = lead + Sum(frames) + scan.n

(* What the scanning functions rely on. *)
Scanning ==
  /\ mode = "string" => stage \in {"key", "value"}
  /\ mode = "compare" => stage = "value" /\ scan.tail \in 1 .. 4
  /\ mode = "number" =>
       /\ stage = "value"
       /\ scan.n \in 1 .. NumberLen - 1
       /\ ~scan.dig => scan.n = IF scan.dec THEN 2 ELSE 1

Running ==
  /\ Reads(frames, parent, entries, stage)
  /\ Len(frames) <= depth /\ depth <= MaxDepth
  /\ result = 0
  /\ error.code = "none"
  /\ Counted
  /\ Scanning

(* Where an error is: the index is that of the character read last, but    *)
(* for the exceptions that ErrorIndex lists.                               *)
Located(code, func, index, all, blanks) ==
  code \in {"unexpected", "max_depth"} =>
    LET last == all - 1 - blanks
    IN  \/ index = last
        \/ func = "seek_until" /\ last = 0 /\ index = all
        \/ func = "read_number" /\ index \in {last - 1, last - 2}
        \/ func \in {"object", "list"} /\ index \in {last + 1, last + 2}

Settled ==
  /\ frames = <<>>
  /\ result \in Nat
  /\ result = 0 => DOMAIN parent = {}
  /\ result # 0 => /\ result \in DOMAIN parent /\ Tree(parent, {result})
                   /\ error.code = "none"
  /\ Noting(entries, parent)
  /\ error.code = "max_depth" <=> depth = MaxDepth + 1
  /\ Located(error.code, error.func, error.index, consumed, lead)

IInv ==
  /\ Typed
  /\ mode # "done" => Running
  /\ mode = "done" => Settled

(* What a step does besides: it reads, and may count a call. *)
Moved ==
  /\ consumed' \in 0 .. MaxInput
  /\ lead' \in 0 .. consumed'
  /\ cut' \in BOOLEAN
  /\ depth' \in 0 .. MaxDepth + 1

LEMMA ScanIs ==
  /\ Scan \in ScanRec
  /\ Scan.j = 0 /\ Scan.n = 0 /\ Scan.dec = FALSE /\ Scan.dig = FALSE /\ Scan.tail = 0
BY DEF Scan, ScanRec

(* A number begins with a sign or a digit. *)
LEMMA FirstOfNumber ==
  ASSUME NEW d \in BOOLEAN
  PROVE  LET s == [Scan EXCEPT !.n = 1, !.dig = d]
         IN  s \in ScanRec /\ s.n = 1 /\ s.dec = FALSE
<1>1. 0 \in 0 .. 4
  OBVIOUS
<1>2. QED
  BY <1>1 DEF Scan, ScanRec

(* What the scanning functions do to their locals. *)
LEMMA ScanSteps ==
  ASSUME NEW s \in ScanRec, NEW j \in Nat
  PROVE  /\ [s EXCEPT !.j = j, !.esc = TRUE] \in ScanRec
         /\ [s EXCEPT !.j = j, !.esc = TRUE].j = j
         /\ [s EXCEPT !.j = j, !.n = @ + 1, !.esc = FALSE] \in ScanRec
         /\ [s EXCEPT !.j = j, !.n = @ + 1, !.esc = FALSE].j = j
         /\ s.tail \in 2 .. 4 => /\ [s EXCEPT !.j = j, !.tail = @ - 1] \in ScanRec
                                 /\ [s EXCEPT !.j = j, !.tail = @ - 1].j = j
                                 /\ [s EXCEPT !.j = j, !.tail = @ - 1].tail \in 1 .. 4
<1>1. s.n + 1 \in Nat /\ (s.tail \in 2 .. 4 => s.tail - 1 \in 1 .. 4 /\ s.tail - 1 \in 0 .. 4)
  BY DEF ScanRec
<1>2. /\ s = [j |-> s.j, n |-> s.n, esc |-> s.esc, dec |-> s.dec, dig |-> s.dig, tail |-> s.tail]
      /\ s.n \in Nat /\ s.esc \in BOOLEAN /\ s.dec \in BOOLEAN /\ s.dig \in BOOLEAN
      /\ s.tail \in 0 .. 4
  BY DEF ScanRec
<1>3. /\ [s EXCEPT !.j = j, !.esc = TRUE] \in ScanRec
      /\ [s EXCEPT !.j = j, !.esc = TRUE].j = j
  BY <1>2 DEF ScanRec
<1>4. /\ [s EXCEPT !.j = j, !.n = s.n + 1, !.esc = FALSE] \in ScanRec
      /\ [s EXCEPT !.j = j, !.n = s.n + 1, !.esc = FALSE].j = j
  BY <1>1, <1>2 DEF ScanRec
<1>5. ASSUME s.tail \in 2 .. 4
      PROVE  /\ [s EXCEPT !.j = j, !.tail = s.tail - 1] \in ScanRec
             /\ [s EXCEPT !.j = j, !.tail = s.tail - 1].j = j
             /\ [s EXCEPT !.j = j, !.tail = s.tail - 1].tail \in 1 .. 4
  BY <1>1, <1>2, <1>5 DEF ScanRec
<1>6. QED
  BY <1>3, <1>4, <1>5

LEMMA NumberStep ==
  ASSUME NEW s \in ScanRec, NEW c \in {"digit", "."}
  PROVE  LET t == [s EXCEPT !.n = @ + 1, !.dec = @ \/ c = ".", !.dig = @ \/ c = "digit"]
         IN  /\ t \in ScanRec /\ t.n = s.n + 1
             /\ t.dec <=> s.dec \/ c = "."
             /\ t.dig <=> s.dig \/ c = "digit"
<1> DEFINE p == s.dec \/ c = "."
           g == s.dig \/ c = "digit"
           t == [s EXCEPT !.n = s.n + 1, !.dec = p, !.dig = g]
<1>1. p \in BOOLEAN /\ g \in BOOLEAN /\ s.n + 1 \in Nat
  BY DEF ScanRec
<1>2. ASSUME NEW a \in BOOLEAN, NEW b \in BOOLEAN
      PROVE  LET r == [s EXCEPT !.n = s.n + 1, !.dec = a, !.dig = b]
             IN  r \in ScanRec /\ r.n = s.n + 1 /\ r.dec = a /\ r.dig = b
  BY <1>1 DEF ScanRec
<1>3. t \in ScanRec /\ t.n = s.n + 1 /\ t.dec = p /\ t.dig = g
  <2> HIDE DEF p, g
  <2>1. QED
    BY <1>1, <1>2
<1>4. QED
  BY <1>3

(* The innermost loop goes on. *)
LEMMA ContinueInv ==
  ASSUME Typed, Running, Moved, NEW fr, NEW own, NEW ents, NEW st,
         Continue(fr, own, ents, st), Reads(fr, own, ents, st), fr # <<>>,
         Len(fr) <= depth', depth' <= MaxDepth,
         consumed' = lead' + 1 + Sum(fr)
  PROVE  IInv'
<1>1. /\ mode' = "seek" /\ frames' = fr /\ stage' = st /\ scan' = Scan /\ parent' = own
      /\ entries' = ents /\ error' = error /\ result' = result
  BY DEF Continue
<1>2. Typed'
  BY <1>1, ScanIs DEF Typed, Moved, Reads
<1>3. fr \in Seq(FrameRec)
  BY DEF Reads, Stack
<1>4. Sum(fr) \in Nat /\ lead' \in Nat
  BY <1>3, SumType DEF Moved
<1>5. Counted'
  BY <1>1, <1>4, ScanIs DEF Counted
<1>6. Scanning'
  BY <1>1 DEF Scanning
<1>7. QED
  BY <1>1, <1>2, <1>5, <1>6 DEF IInv, Running

(* A scanning function starts or goes on. *)
LEMMA StartInv ==
  ASSUME Typed, Running, Moved, NEW fr, NEW m \in {"string", "compare", "number"},
         NEW s \in ScanRec,
         Start(fr, m, s), Reads(fr, parent, entries, stage),
         Len(fr) <= depth', depth' <= MaxDepth,
         m = "number" => consumed' = lead' + Sum(fr) + s.n,
         m # "number" => consumed' = lead' + 1 + Sum(fr) + s.j,
         m = "string" => stage \in {"key", "value"},
         m = "compare" => stage = "value" /\ s.tail \in 1 .. 4,
         m = "number" => /\ stage = "value" /\ s.n \in 1 .. NumberLen - 1
                         /\ ~s.dig => s.n = IF s.dec THEN 2 ELSE 1
  PROVE  IInv'
<1>1. /\ mode' = m /\ frames' = fr /\ scan' = s /\ stage' = stage /\ parent' = parent
      /\ entries' = entries /\ error' = error /\ result' = result
  BY DEF Start
<1>2. Typed'
  BY <1>1 DEF Typed, Moved
<1>3. Counted'
  BY <1>1 DEF Counted
<1>4. Scanning'
  BY <1>1 DEF Scanning
<1>5. QED
  BY <1>1, <1>2, <1>3, <1>4 DEF IInv, Running

(* Every call frees its container and returns. *)
LEMMA AbortInv ==
  ASSUME Typed, Running, Moved, NEW fr \in Seq(FrameRec), NEW own, NEW ents, NEW e \in ErrRec,
         Abort(fr, own, ents, e), Tree(own, Containers(fr)),
         e.code = "max_depth" <=> depth' = MaxDepth + 1,
         Located(e.code, e.func, e.index + Sum(fr), consumed', lead')
  PROVE  IInv'
<1>1. /\ mode' = "done" /\ frames' = <<>> /\ scan' = Scan
      /\ parent' = Without(own, Containers(fr))
      /\ entries' = [n \in DOMAIN ents \cap DOMAIN parent' |-> ents[n]]
      /\ error' = [e EXCEPT !.index = e.index + Sum(fr)]
      /\ stage' = stage /\ result' = 0
  BY DEF Abort, Running
<1>2. DOMAIN parent' = {}
  BY <1>1, FreeAll
<1>3. Sum(fr) \in Nat
  BY SumType
<1>4. /\ error' \in ErrRec /\ error'.code = e.code /\ error'.func = e.func
      /\ error'.index = e.index + Sum(fr)
  BY <1>1, <1>3 DEF ErrRec
<1>5. Typed'
  BY <1>1, <1>4, ScanIs DEF Typed, Moved
<1>6. Noting(entries', parent')
  BY <1>1, <1>2 DEF Noting
<1>7. QED
  BY <1>1, <1>2, <1>4, <1>5, <1>6 DEF IInv, Settled

LEMMA FinishInv ==
  ASSUME Typed, Running, Moved, NEW own, NEW ents, NEW v \in DOMAIN own,
         Finish(own, ents, v), Tree(own, {v}), Noting(ents, own), depth' <= MaxDepth
  PROVE  IInv'
<1>1. /\ mode' = "done" /\ frames' = <<>> /\ result' = v /\ parent' = own
      /\ entries' = ents /\ scan' = Scan /\ stage' = stage /\ error' = error
  BY DEF Finish
<1>2. v \in Nat \ {0}
  BY DEF Tree
<1>3. Typed'
  BY <1>1, ScanIs DEF Typed, Moved
<1>4. ~ (depth' = MaxDepth + 1)
  BY DEF Moved
<1>5. Settled'
  BY <1>1, <1>2, <1>4 DEF Settled, Running, Located
<1>6. QED
  BY <1>1, <1>3, <1>5 DEF IInv

(* A value is given to the innermost call, or returned.                    *)
LEMMA GiveInv ==
  ASSUME Typed, Running, Moved, NEW fr, NEW own, NEW ents, NEW v, NEW j \in Nat,
         Give(fr, own, ents, v, j), Held(fr, own, ents, v),
         Len(fr) <= depth', depth' <= MaxDepth,
         fr # <<>> /\ ~Refused(Count(fr, j), ents) => consumed' = lead' + 1 + Sum(fr) + j
  PROVE  IInv'
<1>1. fr \in Seq(FrameRec) /\ v \in DOMAIN own /\ Noting(ents, own)
  BY DEF Held, Stack
<1>2. CASE fr = <<>>
  <2>1. Finish(own, ents, v)
    BY <1>2 DEF Give
  <2>2. Containers(fr) = {}
    BY <1>2 DEF Containers
  <2>3. Tree(own, {v})
    BY <2>2 DEF Held
  <2>4. QED
    BY <1>1, <2>1, <2>3, FinishInv
<1>3. CASE fr # <<>>
  <2> DEFINE g == Count(fr, j)
  <2>1. g \in Seq(FrameRec) /\ g # <<>> /\ Same(fr, g) /\ Sum(g) = Sum(fr) + j
    BY <1>1, <1>3, CountIs
  <2>2. Held(g, own, ents, v)
    BY <2>1, SameHeld
  <2>3. Len(g) = Len(fr) /\ Sum(fr) \in Nat
    BY <1>1, <2>1, SumType DEF Same
  <2> HIDE DEF g
  <2>4. CASE Refused(g, ents)
    <3> DEFINE o == Without(own, {v})
    <3>1. Abort(g, o, ents, error)
      BY <1>3, <2>4 DEF Give, g
    <3>2. Tree(o, Containers(g))
      BY <1>1, <2>2, FreeOne DEF Held
    <3>3. error \in ErrRec /\ error.code = "none" /\ ~ (depth' = MaxDepth + 1)
      BY DEF Typed, Running, Moved
    <3>4. Located(error.code, error.func, error.index + Sum(g), consumed', lead')
      BY <3>3 DEF Located
    <3> HIDE DEF o
    <3> DEFINE e == error
    <3>5. Abort(g, o, ents, e) /\ e \in ErrRec /\ (e.code = "max_depth" <=> depth' = MaxDepth + 1)
          /\ Located(e.code, e.func, e.index + Sum(g), consumed', lead')
      BY <3>1, <3>3, <3>4
    <3> HIDE DEF e
    <3>6. QED
      BY <2>1, <3>2, <3>5, AbortInv
  <2>5. CASE ~Refused(g, ents)
    <3> DEFINE o == Attached(g, own, v)
               e == Noted(g, ents)
    <3>1. Continue(g, o, e, "end")
      BY <1>3, <2>5 DEF Give, g
    <3>2. Reads(g, o, e, "end")
      BY <2>1, <2>2, AttachReads
    <3>3. consumed' = lead' + 1 + Sum(g)
      <4>1. consumed' = lead' + 1 + Sum(fr) + j /\ lead' \in Nat
        BY <1>3, <2>5 DEF g, Moved
      <4>2. QED
        BY <2>1, <2>3, <4>1
    <3> HIDE DEF o, e
    <3>4. QED
      BY <2>1, <2>3, <3>1, <3>2, <3>3, ContinueInv
  <2>6. QED
    BY <2>4, <2>5
<1>4. QED
  BY <1>2, <1>3

(* A number, and the character o behind it. *)
LEMMA GiveNumberInv ==
  ASSUME Typed, Running, Moved, NEW fr, NEW own, NEW v, NEW j \in Nat,
         NEW o \in Char,
         GiveNumber(fr, own, v, j, o), Held(fr, own, entries, v),
         Len(fr) <= depth', depth' <= MaxDepth,
         o \notin {"digit", "."} => consumed' = lead' + 1 + Sum(fr) + j,
         o \in {"digit", "."} => consumed' = lead' + Sum(fr) + j
  PROVE  IInv'
<1> DEFINE g == Count(fr, j)
           f == Last(g)
           own2 == Attached(g, own, v)
           ents2 == Noted(g, entries)
           ents == entries
<1>1. fr \in Seq(FrameRec)
  BY DEF Held, Stack
<1>2. CASE fr = <<>> \/ o \in {"ws", "nul"} \/ Refused(g, entries)
  <2>1. Give(fr, own, ents, v, j) /\ Held(fr, own, ents, v)
    BY <1>2 DEF GiveNumber
  <2>2. fr # <<>> /\ ~Refused(Count(fr, j), ents) => consumed' = lead' + 1 + Sum(fr) + j
    BY <1>2
  <2> HIDE DEF ents
  <2>3. QED
    BY <2>1, <2>2, GiveInv
<1>3. CASE fr # <<>> /\ o \notin {"ws", "nul"} /\ ~Refused(g, entries)
  <2>1. g \in Seq(FrameRec) /\ g # <<>> /\ Same(fr, g) /\ Sum(g) = Sum(fr) + j
    BY <1>1, <1>3, CountIs
  <2>2. Held(g, own, entries, v)
    BY <2>1, SameHeld
  <2>3. Len(g) = Len(fr) /\ Sum(fr) \in Nat /\ lead' \in Nat
    BY <1>1, <2>1, SumType DEF Same, Moved
  <2>4. /\ f \in FrameRec /\ f.i \in Nat /\ Sum(g) = Sum(Front(g)) + f.i
        /\ Front(g) \in Seq(FrameRec) /\ Len(Front(g)) = Len(g) - 1 /\ Len(g) \in Nat
        /\ f.kind \in {"object", "list"}
    <3>1. /\ f \in FrameRec /\ Sum(g) = Sum(Front(g)) + f.i
          /\ Front(g) \in Seq(FrameRec) /\ Len(Front(g)) = Len(g) - 1 /\ Len(g) \in Nat
      BY <2>1, FrontIs
    <3>2. QED
      BY <3>1 DEF FrameRec
  <2>5. Reads(g, own2, ents2, "end") /\ Reads(g, own2, ents2, First(f.kind))
    BY <2>1, <2>2, AttachReads
  <2>6. \/ o = Closer(f.kind) /\ Give(Front(g), own2, ents2, f.node, f.i)
        \/ o = "," /\ Continue(g, own2, ents2, First(f.kind))
        \/ Abort(g, own2, ents2, Err("unexpected", 1, f.kind))
    BY <1>3 DEF GiveNumber
  <2>7. Held(Front(g), own2, ents2, f.node)
    BY <2>1, <2>5, CloseHeld
  <2>8. Sum(Front(g)) \in Nat
    BY <2>4, SumType
  <2> HIDE DEF g, own2, ents2, f
  <2>9. CASE o = Closer(f.kind) /\ Give(Front(g), own2, ents2, f.node, f.i)
    <3>1. consumed' = lead' + 1 + Sum(fr) + j
      BY <2>9 DEF Closer
    <3>2. consumed' = lead' + 1 + Sum(Front(g)) + f.i
      <4>1. Sum(g) \in Nat
        BY <2>1, SumType
      <4>2. lead' + 1 + Sum(fr) + j = lead' + 1 + Sum(g)
        BY <2>1, <2>3, <4>1, Adding
      <4>3. lead' + 1 + Sum(Front(g)) + f.i = lead' + 1 + Sum(g)
        <5> DEFINE a == lead'
                   b == Sum(Front(g))
                   c == Sum(g)
                   d == f.i
        <5>1. a \in Nat /\ b \in Nat /\ c \in Nat /\ d \in Nat /\ c = b + d
          BY <2>3, <2>4, <2>8, <4>1
        <5> HIDE DEF a, b, c, d
        <5>2. a + 1 + b + d = a + 1 + c
          BY <5>1, Adding
        <5>3. QED
          BY <5>2 DEF a, b, c, d
      <4>4. QED
        BY <3>1, <4>2, <4>3
    <3>3. Len(Front(g)) <= depth'
      BY <2>3, <2>4 DEF Moved
    <3> DEFINE h == Front(g)
               m == f.node
               k == f.i
    <3>4. /\ Give(h, own2, ents2, m, k) /\ Held(h, own2, ents2, m) /\ k \in Nat
          /\ consumed' = lead' + 1 + Sum(h) + k /\ Len(h) <= depth'
      BY <2>4, <2>7, <2>9, <3>2, <3>3
    <3> HIDE DEF h, m, k
    <3>5. QED
      BY <3>4, GiveInv
  <2>10. CASE o = "," /\ Continue(g, own2, ents2, First(f.kind))
    <3>1. consumed' = lead' + 1 + Sum(g)
      <4>1. Sum(g) \in Nat
        BY <2>1, SumType
      <4>2. lead' + 1 + Sum(fr) + j = lead' + 1 + Sum(g)
        BY <2>1, <2>3, <4>1, Adding
      <4>3. QED
        BY <2>10, <4>2
    <3> DEFINE st == First(f.kind)
    <3>2. Continue(g, own2, ents2, st) /\ Reads(g, own2, ents2, st)
      BY <2>5, <2>10
    <3> HIDE DEF st
    <3>3. QED
      BY <2>1, <2>3, <3>1, <3>2, ContinueInv
  <2>11. CASE Abort(g, own2, ents2, Err("unexpected", 1, f.kind))
    <3> DEFINE e == Err("unexpected", 1, f.kind)
    <3>1. /\ e \in ErrRec /\ e.code = "unexpected" /\ e.index = 1 /\ e.func \in {"object", "list"}
          /\ Abort(g, own2, ents2, e)
      BY <2>4, <2>11 DEF Err, ErrRec, Codes, Funcs
    <3> HIDE DEF e
    <3>2. e.index + Sum(g) \in {(consumed' - 1 - lead') + 1, (consumed' - 1 - lead') + 2}
      BY <2>1, <2>3, <3>1
    <3>3. Located(e.code, e.func, e.index + Sum(g), consumed', lead')
      BY <3>1, <3>2 DEF Located
    <3>4. ~ (depth' = MaxDepth + 1) /\ e.code # "max_depth"
      BY <3>1 DEF Moved
    <3>5. Tree(own2, Containers(g))
      BY <2>5 DEF Reads
    <3>6. QED
      BY <2>1, <3>1, <3>3, <3>4, <3>5, AbortInv
  <2>12. QED
    BY <2>6, <2>9, <2>10, <2>11
<1>4. QED
  BY <1>2, <1>3

(* A call fails with an error of its own. *)
LEMMA FailInv ==
  ASSUME Typed, Running, Moved, NEW fr, NEW code \in Codes, NEW index \in Int, NEW func \in Funcs,
         Fail(fr, code, index, func), Reads(fr, parent, entries, stage),
         code = "max_depth" <=> depth' = MaxDepth + 1,
         Located(code, func, index + Sum(fr), consumed', lead')
  PROVE  IInv'
<1> DEFINE e == Err(code, index, func)
           own == parent
           ents == entries
<1>1. /\ e \in ErrRec /\ e.code = code /\ e.index = index /\ e.func = func
      /\ Abort(fr, own, ents, e)
  BY DEF Err, ErrRec, Fail
<1>2. fr \in Seq(FrameRec) /\ Tree(own, Containers(fr))
  BY DEF Reads, Stack
<1> HIDE DEF e, own, ents
<1>3. QED
  BY <1>1, <1>2, AbortInv

-----------------------------------------------------------------------------
(* One step after the other.                                               *)
LEMMA ReadMoves ==
  ASSUME Typed, NEW c \in Char \cup {End}, Read(c), lead' = lead, cut' \in BOOLEAN,
         depth' \in 0 .. MaxDepth + 1
  PROVE  /\ Moved /\ consumed' \in Nat /\ lead' \in Nat
         /\ consumed' = IF c = End THEN consumed ELSE consumed + 1
BY DEF Typed, Read, Moved

(* seek_until passes a blank (:36, :41). *)
LEMMA SeekBlankInv ==
  ASSUME Typed, Running, SeekBlank
  PROVE  IInv'
<1>1. /\ mode = "seek" /\ consumed' = consumed + 1 /\ consumed < MaxInput
      /\ scan' = [scan EXCEPT !.j = scan.j + 1]
      /\ lead' = IF frames = <<>> THEN lead + 1 ELSE lead
      /\ UNCHANGED <<mode, frames, stage, depth, error, parent, entries, result, cut>>
  BY DEF SeekBlank, Read, End
<1>2. scan \in ScanRec /\ consumed \in Nat /\ lead \in 0 .. consumed
  BY DEF Typed
<1>3. scan' \in ScanRec /\ scan'.j = scan.j + 1 /\ scan.j \in Nat
  BY <1>1, <1>2 DEF ScanRec
<1>4. consumed' \in 0 .. MaxInput /\ lead' \in 0 .. consumed'
  BY <1>1, <1>2
<1>5. Typed'
  BY <1>1, <1>3, <1>4 DEF Typed
<1>6. Counted'
  <2>1. frames \in Seq(FrameRec)
    BY DEF Running, Reads, Stack
  <2>2. Sum(frames) \in Nat
    BY <2>1, SumType
  <2>3. CASE frames = <<>>
    BY <1>1, <1>2, <1>3, <2>3 DEF Running, Counted
  <2>4. CASE frames # <<>>
    BY <1>1, <1>2, <1>3, <2>2, <2>4 DEF Running, Counted
  <2>5. QED
    BY <2>3, <2>4
<1>7. Running'
  BY <1>1, <1>6 DEF Running, Scanning
<1>8. QED
  BY <1>1, <1>5, <1>7 DEF IInv

(* The calls have counted what seek_until has passed, and what it found.   *)
LEMMA FoundIs ==
  ASSUME Typed, Running, mode = "seek", consumed' = consumed + 1, lead' = lead
  PROVE  LET fr == Count(frames, scan.j + 1)
         IN  /\ Reads(fr, parent, entries, stage) /\ fr \in Seq(FrameRec)
             /\ Len(fr) = Len(frames) /\ Len(fr) <= depth
             /\ Sum(fr) \in Nat /\ consumed' = lead' + 1 + Sum(fr)
             /\ fr = <<>> <=> frames = <<>>
             /\ frames # <<>> => Last(fr).kind = Last(frames).kind
             /\ Front(fr) = Front(frames)
<1> DEFINE j == scan.j + 1
           fr == Count(frames, j)
<1>1. /\ frames \in Seq(FrameRec) /\ Reads(frames, parent, entries, stage) /\ Len(frames) <= depth
      /\ Counted /\ j \in Nat /\ consumed \in Nat /\ lead \in Nat /\ scan.j \in Nat
  BY DEF Running, Typed, Reads, Stack, ScanRec
<1>2. Sum(frames) \in Nat
  BY <1>1, SumType
<1>3. CASE frames = <<>>
  <2>1. fr = frames
    BY <1>3 DEF Count
  <2>2. Sum(frames) = 0
    BY <1>1, <1>3, SumType
  <2>3. consumed' = lead' + 1 + Sum(frames)
    BY <1>1, <1>3, <2>2 DEF Counted
  <2> HIDE DEF fr
  <2>4. QED
    BY <1>1, <1>2, <1>3, <2>1, <2>3 DEF fr
<1>4. CASE frames # <<>>
  <2> HIDE DEF j
  <2>1. /\ fr \in Seq(FrameRec) /\ fr # <<>> /\ Same(frames, fr)
        /\ Front(fr) = Front(frames) /\ Sum(fr) = Sum(frames) + j
    BY <1>1, <1>4, CountIs
  <2> HIDE DEF fr
  <2>2. Reads(fr, parent, entries, stage)
    BY <1>1, <2>1, SameReads
  <2>3. Len(fr) = Len(frames) /\ Sum(fr) \in Nat
    BY <2>1, SumType DEF Same
  <2>4. Last(fr).kind = Last(frames).kind
    BY <1>1, <1>4, <2>1, FrontIs DEF Same
  <2>5. consumed = lead + 1 + Sum(frames) + scan.j
    BY <1>1, <1>4 DEF Counted
  <2>6. consumed' = lead' + 1 + Sum(fr)
    <3>1. \A a, b, c \in Nat : (a + 1 + b + c) + 1 = a + 1 + (b + (c + 1))
      OBVIOUS
    <3>2. consumed' = (lead + 1 + Sum(frames) + scan.j) + 1
      BY <2>5
    <3>3. (lead + 1 + Sum(frames) + scan.j) + 1 = lead + 1 + (Sum(frames) + (scan.j + 1))
      BY <1>1, <1>2, <3>1
    <3>4. QED
      BY <2>1, <3>2, <3>3, Zenon DEF j
  <2>7. QED
    BY <1>1, <1>4, <2>1, <2>2, <2>3, <2>4, <2>6 DEF fr, j
<1>5. QED
  BY <1>3, <1>4

(* read_string starts, or has no room (:63). *)
LEMMA StartStringInv ==
  ASSUME Typed, Running, Moved, NEW fr, StartString(fr), Reads(fr, parent, entries, stage),
         stage \in {"key", "value"}, Len(fr) <= depth', depth' <= MaxDepth,
         consumed' = lead' + 1 + Sum(fr)
  PROVE  IInv'
<1>1. CASE SBufLen = 0
  <2> DEFINE code == "io"
             index == 0
             func == "read_string"
  <2>1. /\ Fail(fr, code, index, func) /\ code \in Codes /\ index \in Int /\ func \in Funcs
        /\ code \notin {"unexpected", "max_depth"}
    BY <1>1 DEF StartString, Codes, Funcs
  <2> HIDE DEF code, index, func
  <2>2. Located(code, func, index + Sum(fr), consumed', lead') /\ ~ (depth' = MaxDepth + 1)
    BY <2>1 DEF Located, Moved
  <2>3. QED
    BY <2>1, <2>2, FailInv
<1>2. CASE SBufLen # 0
  <2> DEFINE m == "string"
             s == Scan
  <2>1. /\ Start(fr, m, s) /\ s \in ScanRec /\ s.j = 0 /\ m = "string"
        /\ m \in {"string", "compare", "number"}
    BY <1>2, ScanIs DEF StartString
  <2>2. fr \in Seq(FrameRec)
    BY DEF Reads, Stack
  <2>3. Sum(fr) \in Nat /\ lead' \in Nat
    BY <2>2, SumType DEF Moved
  <2> HIDE DEF m, s
  <2>4. consumed' = lead' + 1 + Sum(fr) + s.j
    BY <2>1, <2>3
  <2>5. QED
    BY <2>1, <2>4, StartInv
<1>3. QED
  BY <1>1, <1>2

(* read_object and read_list begin (:288, :390). *)
LEMMA EnterInv ==
  ASSUME Typed, Running, NEW fr, NEW kind \in {"object", "list"}, Enter(fr, kind),
         consumed' \in 0 .. MaxInput, lead' \in 0 .. consumed', cut' \in BOOLEAN,
         Reads(fr, parent, entries, "value"), stage = "value", Len(fr) <= depth,
         consumed' = lead' + 1 + Sum(fr)
  PROVE  IInv'
<1>1. /\ depth' = depth + 1 /\ depth \in Nat /\ depth <= MaxDepth /\ lead' \in Nat
      /\ fr \in Seq(FrameRec)
  BY DEF Enter, Typed, Running, Reads, Stack
<1>2. Moved
  BY <1>1 DEF Moved
<1>3. Sum(fr) \in Nat
  BY <1>1, SumType
<1>4. CASE depth + 1 > MaxDepth
  <2> DEFINE code == "max_depth"
             index == 0
  <2>1. /\ Fail(fr, code, index, kind) /\ code \in Codes /\ index \in Int /\ kind \in Funcs
        /\ code = "max_depth" /\ index = 0
    BY <1>4 DEF Enter, Codes, Funcs
  <2>2. depth' = MaxDepth + 1
    BY <1>1, <1>4
  <2> HIDE DEF code, index
  <2>3. index + Sum(fr) = consumed' - 1 - lead'
    BY <1>1, <1>3, <2>1
  <2>4. Located(code, kind, index + Sum(fr), consumed', lead')
    BY <2>3 DEF Located
  <2>5. Reads(fr, parent, entries, stage)
    OBVIOUS
  <2>6. QED
    BY <1>2, <2>1, <2>2, <2>4, <2>5, FailInv
<1>5. CASE ~ (depth + 1 > MaxDepth)
  <2> DEFINE f == Frame(kind, Fresh)
             g == Append(fr, f)
             own == With(Fresh)
             ents == [n \in DOMAIN entries \cup {Fresh} |-> IF n = Fresh THEN {} ELSE entries[n]]
             st == First(kind)
  <2>1. Continue(g, own, ents, st)
    BY <1>5 DEF Enter
  <2>2. Reads(g, own, ents, st)
    BY PushReads
  <2>3. f \in FrameRec /\ f.i = 0
    <3>1. Fresh \in Nat \ {0}
      BY FreshIs DEF Reads
    <3>2. QED
      BY <3>1 DEF Frame, FrameRec
  <2> HIDE DEF f
  <2>4. Len(g) = Len(fr) + 1 /\ g # <<>> /\ Len(fr) \in Nat /\ Sum(g) = Sum(fr) + f.i
    BY <1>1, <2>3, PushIs
  <2> HIDE DEF g, own, ents, st
  <2>5. Len(g) <= depth' /\ depth' <= MaxDepth
    BY <1>1, <1>5, <2>4
  <2>6. consumed' = lead' + 1 + Sum(g)
    BY <1>1, <1>3, <2>3, <2>4
  <2>7. QED
    BY <1>2, <2>1, <2>2, <2>4, <2>5, <2>6, ContinueInv
<1>6. QED
  BY <1>4, <1>5

(* read_value, by the first character (:453-475). *)
LEMMA ValueInv ==
  ASSUME Typed, Running, NEW fr, NEW c, Value(fr, c), stage = "value",
         consumed' \in 0 .. MaxInput, lead' \in 0 .. consumed', cut' \in BOOLEAN,
         Reads(fr, parent, entries, stage), Len(fr) <= depth,
         consumed' = lead' + 1 + Sum(fr)
  PROVE  IInv'
<1>1. fr \in Seq(FrameRec) /\ Reads(fr, parent, entries, "value")
  BY DEF Reads, Stack
<1>2. Sum(fr) \in Nat /\ lead' \in Nat
  BY <1>1, SumType
<1>3. CASE Enter(fr, "object") \/ Enter(fr, "list")
  <2>1. PICK kind \in {"object", "list"} : Enter(fr, kind)
    BY <1>3
  <2>2. QED
    BY <1>1, <2>1, EnterInv
<1>4. CASE UNCHANGED depth
  <2>1. Moved /\ Len(fr) <= depth' /\ depth' <= MaxDepth
    BY <1>4 DEF Moved, Running, Typed
  <2>2. CASE StartString(fr)
    BY <2>1, <2>2, StartStringInv
  <2>3. CASE c \in DOMAIN Letters /\ Start(fr, "compare", [Scan EXCEPT !.tail = Letters[c]])
    <3> DEFINE m == "compare"
               s == [Scan EXCEPT !.tail = Letters[c]]
    <3>1. Letters[c] \in 1 .. 4 /\ Letters[c] \in 0 .. 4
      BY <2>3 DEF Letters
    <3>2. s \in ScanRec /\ s.j = 0 /\ s.tail = Letters[c] /\ Start(fr, m, s)
      BY <2>3, <3>1 DEF Scan, ScanRec
    <3>3. m \in {"string", "compare", "number"} /\ m = "compare"
      OBVIOUS
    <3> HIDE DEF m, s
    <3>4. consumed' = lead' + 1 + Sum(fr) + s.j
      BY <1>2, <3>2
    <3>5. QED
      BY <2>1, <3>1, <3>2, <3>3, <3>4, StartInv
  <2>4. CASE Start(fr, "number", [Scan EXCEPT !.n = 1, !.dig = (c = "digit")])
    <3> DEFINE m == "number"
               d == c = "digit"
               s == [Scan EXCEPT !.n = 1, !.dig = d]
    <3>1. d \in BOOLEAN /\ Start(fr, m, s)
      BY <2>4
    <3> HIDE DEF d
    <3>2. s \in ScanRec /\ s.n = 1 /\ s.dec = FALSE
      BY <3>1, FirstOfNumber
    <3>3. s \in ScanRec /\ s.n = 1 /\ s.dec = FALSE /\ Start(fr, m, s)
      BY <3>1, <3>2
    <3>4. m \in {"string", "compare", "number"} /\ m = "number"
      OBVIOUS
    <3> HIDE DEF m, s
    <3>5. consumed' = lead' + Sum(fr) + s.n
      BY <1>2, <3>3
    <3>6. s.n \in 1 .. NumberLen - 1 /\ (~s.dig => s.n = IF s.dec THEN 2 ELSE 1)
      BY <3>3
    <3>7. QED
      BY <2>1, <3>3, <3>4, <3>5, <3>6, StartInv
  <2>5. CASE Fail(fr, "io", 0, "read_number")
    <3> DEFINE code == "io"
               index == 0
               func == "read_number"
    <3>1. /\ Fail(fr, code, index, func) /\ code \in Codes /\ index \in Int /\ func \in Funcs
          /\ code \notin {"unexpected", "max_depth"}
      BY <2>5 DEF Codes, Funcs
    <3> HIDE DEF code, index, func
    <3>2. Located(code, func, index + Sum(fr), consumed', lead') /\ ~ (depth' = MaxDepth + 1)
      BY <2>1, <3>1 DEF Located, Moved
    <3>3. QED
      BY <2>1, <3>1, <3>2, FailInv
  <2>6. StartString(fr) \/ (c \in DOMAIN Letters /\ Start(fr, "compare", [Scan EXCEPT !.tail = Letters[c]]))
        \/ Start(fr, "number", [Scan EXCEPT !.n = 1, !.dig = (c = "digit")])
        \/ Fail(fr, "io", 0, "read_number") \/ Enter(fr, "object") \/ Enter(fr, "list")
    BY DEF Value
  <2>7. QED
    BY <1>3, <2>2, <2>3, <2>4, <2>5, <2>6
<1>5. QED
  BY <1>3, <1>4 DEF Value

(* seek_until finds what it looks for. *)
LEMMA SeekFoundInv ==
  ASSUME Typed, Running, NEW c \in Char \cup {End}, SeekFound(c)
  PROVE  IInv'
<1> DEFINE fr == Count(frames, scan.j + 1)
<1>1. c # End /\ c \in Char
  BY DEF SeekFound, Expect, End, Closer, Char
<1>2. /\ mode = "seek" /\ Read(c) /\ lead' = lead /\ cut' = cut
  BY DEF SeekFound
<1>3. consumed' = consumed + 1 /\ consumed' \in 0 .. MaxInput /\ lead' \in 0 .. consumed'
      /\ cut' \in BOOLEAN /\ lead' \in Nat
  BY <1>1, <1>2 DEF Read, Typed
<1>4. /\ Reads(fr, parent, entries, stage) /\ fr \in Seq(FrameRec)
      /\ Len(fr) = Len(frames) /\ Len(fr) <= depth
      /\ Sum(fr) \in Nat /\ consumed' = lead' + 1 + Sum(fr)
      /\ fr = <<>> <=> frames = <<>>
      /\ frames # <<>> => Last(fr).kind = Last(frames).kind
  BY <1>2, <1>3, FoundIs
<1>5. CASE stage = "value" /\ c # "]"
  <2>1. Value(fr, c)
    BY <1>5 DEF SeekFound
  <2> HIDE DEF fr
  <2>2. QED
    BY <1>3, <1>4, <1>5, <2>1, ValueInv
<1>6. CASE ~ (stage = "value" /\ c # "]")
  <2>1. /\ UNCHANGED depth
        /\ \/ frames # <<>> /\ c = Closer(Kind) /\ Close(fr)
           \/ stage = "key" /\ c # "}" /\ StartString(fr)
           \/ stage = "colon" /\ Continue(fr, parent, entries, "value")
           \/ /\ stage = "end" /\ c # Closer(Kind)
              /\ Continue(fr, parent, entries, First(Kind))
    BY <1>6 DEF SeekFound
  <2>2. /\ Moved /\ Len(fr) <= depth' /\ depth' <= MaxDepth /\ Len(fr) \in Nat
        /\ depth' \in Nat
    <3> HIDE DEF fr
    <3>1. Len(fr) \in Nat
      BY <1>4, LenProperties
    <3>2. depth \in 0 .. MaxDepth + 1 /\ depth \in Nat /\ depth <= MaxDepth /\ depth' = depth
      <4>1. depth \in 0 .. MaxDepth + 1 /\ depth <= MaxDepth
        BY DEF Running, Typed
      <4>2. depth' = depth
        BY <2>1
      <4>3. QED
        BY <4>1, <4>2
    <3>3. Moved
      BY <1>3, <3>2 DEF Moved
    <3>4. QED
      BY <1>4, <3>1, <3>2, <3>3
  <2> HIDE DEF fr
  <2>3. CASE frames # <<>> /\ Close(fr)
    <3> DEFINE h == Front(fr)
               own == parent
               ents == entries
               v == Last(fr).node
               k == Last(fr).i
    <3>1. /\ h \in Seq(FrameRec) /\ Len(h) = Len(fr) - 1 /\ Last(fr) \in FrameRec
          /\ Sum(fr) = Sum(h) + k
      BY <1>4, <2>3, FrontIs
    <3>2. k \in Nat /\ Sum(h) \in Nat
      BY <3>1, SumType DEF FrameRec
    <3>3. Give(h, own, ents, v, k)
      BY <2>3 DEF Close
    <3>4. Held(h, own, ents, v)
      BY <1>4, <2>3, CloseHeld
    <3>5. Len(h) <= depth'
      <4> HIDE DEF h
      <4>1. Len(h) = Len(fr) - 1
        BY <3>1
      <4>2. QED
        BY <2>2, <4>1
    <3> HIDE DEF h, own, ents, v, k
    <3>6. lead' + 1 + Sum(h) + k = lead' + 1 + Sum(fr)
      BY <1>3, <1>4, <3>1, <3>2, Adding
    <3>7. consumed' = lead' + 1 + Sum(h) + k
      BY <1>4, <3>6
    <3>8. QED
      BY <2>2, <3>2, <3>3, <3>4, <3>5, <3>7, GiveInv
  <2>4. CASE stage = "key" /\ StartString(fr)
    BY <1>4, <2>2, <2>4, StartStringInv
  <2>5. CASE stage = "colon" /\ Continue(fr, parent, entries, "value")
    <3> DEFINE own == parent
               ents == entries
               st == "value"
    <3>1. Continue(fr, own, ents, st)
      BY <2>5
    <3>2. Reads(fr, own, ents, st) /\ fr # <<>>
      BY <1>4, <2>5 DEF Reads, Stages
    <3> HIDE DEF own, ents, st
    <3>3. QED
      BY <1>4, <2>2, <3>1, <3>2, ContinueInv
  <2>6. CASE stage = "end" /\ Continue(fr, parent, entries, First(Kind))
    <3> DEFINE own == parent
               ents == entries
               st == First(Kind)
    <3>1. Continue(fr, own, ents, st) /\ fr # <<>> /\ frames # <<>>
      BY <1>4, <2>6 DEF Reads
    <3>2. st \in {"key", "value"} /\ (st = "key" => Last(fr).kind = "object")
      BY <1>4, <3>1 DEF First, Kind
    <3>3. Reads(fr, own, ents, st)
      <4> HIDE DEF st
      <4> QED
        BY <1>4, <2>6, <3>1, <3>2 DEF Reads, Stages
    <3> HIDE DEF own, ents, st
    <3>4. QED
      BY <1>4, <2>2, <3>1, <3>3, ContinueInv
  <2>7. QED
    BY <2>1, <2>3, <2>4, <2>5, <2>6
<1>7. QED
  BY <1>5, <1>6

(* It finds something else, or nothing (:37, :44). *)
LEMMA SeekFailInv ==
  ASSUME Typed, Running, NEW c \in Char \cup {End}, SeekFail(c)
  PROVE  IInv'
<1>1. /\ mode = "seek" /\ Read(c) /\ lead' = lead /\ cut' \in BOOLEAN /\ depth' = depth
      /\ depth' \in 0 .. MaxDepth + 1 /\ ~ (depth' = MaxDepth + 1)
  BY DEF SeekFail, Typed, Running
<1>2. /\ Moved /\ consumed' \in Nat /\ lead' \in Nat
      /\ consumed' = IF c = End THEN consumed ELSE consumed + 1
  BY <1>1, ReadMoves
<1>3. /\ Reads(frames, parent, entries, stage) /\ frames \in Seq(FrameRec) /\ Counted
      /\ scan.j \in Nat /\ consumed \in Nat /\ lead \in Nat
  BY DEF Running, Reads, Stack, Typed, ScanRec
<1>4. Sum(frames) \in Nat /\ (frames = <<>> => Sum(frames) = 0)
  BY <1>3, SumType
<1> DEFINE fr == frames
           code == IF c = End THEN "io" ELSE "unexpected"
           index == IF c = End THEN scan.j ELSE scan.j + 1
           func == "seek_until"
<1>5. Fail(fr, code, index, func)
  BY DEF SeekFail
<1>6. code \in Codes /\ index \in Int /\ func \in Funcs /\ code # "max_depth"
  BY <1>3 DEF Codes, Funcs
<1>7. Located(code, func, index + Sum(fr), consumed', lead')
  <2>1. CASE c = End
    BY <2>1 DEF Located
  <2>2. CASE c # End /\ frames = <<>>
    <3>1. consumed' = lead + 1 /\ index = lead + 1 /\ lead' = lead
      BY <1>1, <1>2, <1>3, <2>2 DEF Counted
    <3>2. index + Sum(fr) = consumed' /\ consumed' - 1 - lead' = 0
      BY <1>3, <1>4, <2>2, <3>1
    <3>3. QED
      BY <3>2 DEF Located
  <2>3. CASE c # End /\ frames # <<>>
    <3>1. consumed' = lead + 1 + Sum(fr) + scan.j + 1 /\ index = scan.j + 1 /\ lead' = lead
      BY <1>1, <1>2, <1>3, <2>3 DEF Counted
    <3>2. index + Sum(fr) = consumed' - 1 - lead'
      BY <1>3, <1>4, <3>1
    <3>3. QED
      BY <3>2 DEF Located
  <2>4. QED
    BY <2>1, <2>2, <2>3
<1>8. Reads(fr, parent, entries, stage)
  BY <1>3
<1> HIDE DEF fr, code, index, func
<1>9. QED
  BY <1>1, <1>2, <1>5, <1>6, <1>7, <1>8, FailInv

(* The key of the innermost call is read. *)
LEMMA KeyReads ==
  ASSUME NEW fr, NEW own, NEW ents, NEW k \in Key, Reads(fr, own, ents, "key")
  PROVE  LET g == [fr EXCEPT ![Len(fr)].key = k]
         IN  /\ Reads(g, own, ents, "colon") /\ g # <<>> /\ Len(g) = Len(fr)
             /\ Sum(g) = Sum(fr)
<1> DEFINE e == [fr[Len(fr)] EXCEPT !.key = k]
           g == [fr EXCEPT ![Len(fr)] = e]
<1>1. /\ Stack(fr, own) /\ fr \in Seq(FrameRec) /\ fr # <<>> /\ Keyed(fr, Len(fr) - 1)
      /\ Last(fr).kind = "object"
  BY DEF Reads, Stack
<1>2. /\ Len(fr) \in Nat \ {0} /\ Len(fr) \in 1 .. Len(fr)
      /\ fr[Len(fr)] \in FrameRec /\ Last(fr) = fr[Len(fr)]
      /\ Front(fr) \in Seq(FrameRec) /\ Len(fr) = Len(Front(fr)) + 1
      /\ \A a \in 1 .. Len(fr) - 1 : Front(fr)[a] = fr[a]
      /\ Sum(fr) = Sum(Front(fr)) + fr[Len(fr)].i
  <2>1. /\ Len(fr) \in Nat \ {0} /\ Len(fr) \in 1 .. Len(fr)
        /\ Front(fr) \in Seq(FrameRec) /\ Len(Front(fr)) = Len(fr) - 1
        /\ \A a \in 1 .. Len(fr) - 1 : Front(fr)[a] = fr[a]
        /\ Last(fr) = fr[Len(fr)] /\ Last(fr) \in FrameRec
        /\ Sum(fr) = Sum(Front(fr)) + Last(fr).i
    BY <1>1, FrontIs
  <2>2. QED
    BY <2>1
<1>3. /\ e \in FrameRec /\ e.key = k /\ e.kind = fr[Len(fr)].kind
      /\ e.node = fr[Len(fr)].node /\ e.i = fr[Len(fr)].i
  BY <1>2 DEF FrameRec
<1> DEFINE l == Len(fr)
<1>0. g = [fr EXCEPT ![l] = e]
  OBVIOUS
<1> HIDE DEF e, g
<1>4. /\ g \in Seq(FrameRec) /\ Len(g) = Len(fr)
      /\ \A a \in 1 .. Len(fr) : g[a] = IF a = Len(fr) THEN e ELSE fr[a]
  <2>1. fr \in Seq(FrameRec) /\ l \in 1 .. Len(fr) /\ e \in FrameRec /\ l = Len(fr)
    BY <1>1, <1>2, <1>3
  <2> HIDE DEF l
  <2>2. /\ [fr EXCEPT ![l] = e] \in Seq(FrameRec) /\ Len([fr EXCEPT ![l] = e]) = Len(fr)
        /\ \A a \in 1 .. Len(fr) : [fr EXCEPT ![l] = e][a] = IF a = l THEN e ELSE fr[a]
    BY <2>1, ExceptSeq
  <2>3. QED
    BY <1>0, <2>1, <2>2
<1>5. g # <<>>
  BY <1>2, <1>4, EmptySeq
<1>6. \A a \in 1 .. Len(fr) : g[a].kind = fr[a].kind /\ g[a].node = fr[a].node
  BY <1>3, <1>4
<1>7. Stack(g, own)
  BY <1>1, <1>4, <1>6 DEF Stack
<1>8. Containers(g) = Containers(fr)
  <2>1. /\ Containers(fr) = {fr[a].node : a \in 1 .. Len(fr)}
        /\ Containers(g) = {g[a].node : a \in 1 .. Len(fr)}
    BY <1>1, <1>4, ContainersIs
  <2>2. QED
    BY <1>6, <2>1
<1>9. \A a \in 1 .. Len(fr) : a # Len(fr) => a \in 1 .. Len(fr) - 1
  BY <1>2
<1>10. Keyed(g, Len(g)) /\ Keyed(g, Len(g) - 1)
  <2>1. \A a \in 1 .. Len(fr) : g[a].kind = "object" => g[a].key \in Key
    BY <1>1, <1>3, <1>4, <1>9 DEF Keyed
  <2>2. \A a \in 1 .. Len(fr) - 1 : a \in 1 .. Len(fr)
    BY <1>2
  <2>3. QED
    BY <1>4, <2>1, <2>2 DEF Keyed
<1>11. Last(g).kind = "object"
  BY <1>1, <1>2, <1>4, <1>6 DEF Last
<1>12. Sum(g) = Sum(fr)
  <2>1. Len(g) = Len(Front(fr)) + 1 /\ \A a \in 1 .. Len(Front(fr)) : g[a].i = Front(fr)[a].i
    BY <1>2, <1>4
  <2>2. Sum(g) = Sum(Front(fr)) + g[Len(g)].i
    BY <1>2, <1>4, <2>1, SumLast
  <2>3. g[Len(g)].i = fr[Len(fr)].i
    BY <1>2, <1>3, <1>4
  <2>4. QED
    BY <1>2, <2>2, <2>3
<1>13. Reads(g, own, ents, "colon")
  BY <1>5, <1>7, <1>8, <1>10, <1>11 DEF Reads, Stages
<1>14. QED
  BY <1>4, <1>5, <1>12, <1>13 DEF g, e

(* A string ends: it is the key of the innermost call, or a value.         *)
LEMMA StringDoneInv ==
  ASSUME Typed, Running, Moved, mode = "string", NEW j \in Nat, NEW full, StringDone(j, full),
         depth' = depth, consumed' = lead' + 1 + Sum(frames) + j
  PROVE  IInv'
<1>1. /\ frames \in Seq(FrameRec) /\ Reads(frames, parent, entries, stage)
      /\ stage \in {"key", "value"} /\ Len(frames) <= depth' /\ depth' <= MaxDepth
  BY DEF Running, Reads, Stack, Scanning
<1>2. Sum(frames) \in Nat /\ lead' \in Nat
  BY <1>1, SumType DEF Moved
<1>3. CASE stage = "key"
  <2> DEFINE fr == Count(frames, j)
  <2>1. PICK k \in Key : Continue([fr EXCEPT ![Len(frames)].key = k], parent, entries, "colon")
    BY <1>3 DEF StringDone
  <2>2. frames # <<>>
    BY <1>1, <1>3 DEF Reads
  <2>3. fr \in Seq(FrameRec) /\ Same(frames, fr) /\ Sum(fr) = Sum(frames) + j
    BY <1>1, <2>2, CountIs
  <2> HIDE DEF fr
  <2>4. Reads(fr, parent, entries, "key") /\ Len(fr) = Len(frames)
    BY <1>1, <1>3, <2>3, SameReads DEF Same
  <2> DEFINE g == [fr EXCEPT ![Len(fr)].key = k]
             own == parent
             ents == entries
             st == "colon"
  <2>5. Reads(g, own, ents, st) /\ g # <<>> /\ Len(g) = Len(fr) /\ Sum(g) = Sum(fr)
    BY <2>4, KeyReads
  <2>6. Continue(g, own, ents, st)
    BY <2>1, <2>4
  <2> HIDE DEF g, own, ents, st
  <2>7. lead' + 1 + Sum(frames) + j = lead' + 1 + Sum(g)
    <3>1. Sum(g) \in Nat
      BY <1>2, <2>3, <2>5
    <3>2. Sum(g) = Sum(frames) + j
      BY <2>3, <2>5
    <3>3. QED
      BY <1>2, <3>1, <3>2, Adding
  <2>8. Len(g) <= depth' /\ consumed' = lead' + 1 + Sum(g)
    BY <1>1, <2>4, <2>5, <2>7
  <2>9. QED
    BY <1>1, <2>5, <2>6, <2>8, ContinueInv
<1>4. CASE stage = "value"
  <2> DEFINE fr == frames
             own == With(Fresh)
             ents == entries
             v == Fresh
  <2>1. Give(fr, own, ents, v, j)
    BY <1>4 DEF StringDone
  <2>2. Held(fr, own, ents, v)
    BY <1>1, <1>4, FreshHeld
  <2>3. Len(fr) <= depth' /\ consumed' = lead' + 1 + Sum(fr) + j
    BY <1>1
  <2> HIDE DEF fr, own, ents, v
  <2>4. QED
    BY <1>1, <2>1, <2>2, <2>3, GiveInv
<1>5. QED
  BY <1>1, <1>3, <1>4

(* What the scanning functions have in common: they fail, or go on.        *)
LEMMA ScanFails ==
  ASSUME Typed, Running, Moved, depth' = depth, NEW code \in {"io", "unexpected"},
         NEW index \in Int, NEW func \in Funcs,
         Fail(frames, code, index, func),
         code = "unexpected" => \/ index + Sum(frames) = consumed' - 1 - lead'
                                \/ /\ func = "read_number"
                                   /\ index + Sum(frames) \in {consumed' - 2 - lead', consumed' - 3 - lead'}
  PROVE  IInv'
<1> DEFINE fr == frames
<1>1. Fail(fr, code, index, func) /\ Reads(fr, parent, entries, stage)
  BY DEF Running
<1>2. code \in Codes /\ code # "max_depth" /\ ~ (depth' = MaxDepth + 1)
  <2>1. depth' <= MaxDepth /\ depth' \in Nat
    BY DEF Running, Moved
  <2>2. QED
    BY <2>1 DEF Codes
<1>3. consumed' \in Nat /\ lead' \in Nat
  BY DEF Moved
<1>4. Located(code, func, index + Sum(fr), consumed', lead')
  <2>1. consumed' - 2 - lead' = (consumed' - 1 - lead') - 1 /\ consumed' - 3 - lead' = (consumed' - 1 - lead') - 2
    BY <1>3
  <2>2. QED
    BY <2>1 DEF Located
<1> HIDE DEF fr
<1>5. QED
  BY <1>1, <1>2, <1>4, FailInv

(* read_string reads a character (:63-113).                                *)
LEMMA StringInv ==
  ASSUME Typed, Running, NEW c \in Char \cup {End}, String(c)
  PROVE  IInv'
<1> DEFINE j == scan.j + 1
           fr == frames
           m == "string"
           func == "read_string"
<1>1. /\ mode = "string" /\ Read(c) /\ depth' = depth /\ lead' = lead
      /\ \/ c = End /\ Fail(frames, "io", scan.j, "read_string") /\ UNCHANGED cut
         \/ /\ Start(frames, "string", [scan EXCEPT !.j = j, !.esc = TRUE])
            /\ c # End /\ UNCHANGED cut
         \/ c # End /\ StringDone(j, FALSE)
         \/ c # End /\ Fail(frames, "unexpected", j, "read_string") /\ UNCHANGED cut
         \/ c # End /\ StringDone(j, TRUE)
         \/ /\ c # End /\ UNCHANGED cut
            /\ Start(frames, "string", [scan EXCEPT !.j = j, !.n = @ + 1, !.esc = FALSE])
  BY DEF String, End
<1>2. /\ cut' \in BOOLEAN /\ depth' \in 0 .. MaxDepth + 1 /\ depth' = depth
  BY <1>1 DEF Typed, StringDone
<1>3. /\ Moved /\ consumed' \in Nat /\ lead' \in Nat
      /\ consumed' = IF c = End THEN consumed ELSE consumed + 1
  BY <1>1, <1>2, ReadMoves
<1>4. /\ Reads(fr, parent, entries, stage) /\ fr \in Seq(FrameRec)
      /\ Len(fr) <= depth' /\ depth' <= MaxDepth
      /\ stage \in {"key", "value"}
      /\ scan \in ScanRec /\ scan.j \in Nat /\ j \in Nat /\ lead \in Nat
      /\ consumed = lead + 1 + Sum(frames) + scan.j
  <2>1. scan \in ScanRec /\ scan.j \in Nat /\ j \in Nat /\ lead \in Nat
    BY DEF Typed, ScanRec
  <2>2. Counted /\ Scanning /\ Reads(fr, parent, entries, stage) /\ Len(fr) <= depth'
        /\ depth' <= MaxDepth
    BY <1>2 DEF Running
  <2>3. stage \in {"key", "value"} /\ consumed = lead + 1 + Sum(frames) + scan.j
    BY <1>1, <2>2 DEF Counted, Scanning
  <2>4. fr \in Seq(FrameRec)
    BY <2>2 DEF Reads, Stack
  <2>5. QED
    BY <2>1, <2>2, <2>3, <2>4
<1>5. Sum(fr) \in Nat
  BY <1>4, SumType
<1>6. c # End => /\ consumed' = lead' + 1 + Sum(fr) + j
                 /\ j + Sum(fr) = consumed' - 1 - lead'
  <2>1. lead' = lead /\ (c # End => consumed' = consumed + 1)
    BY <1>1, <1>3
  <2>2. c # End => consumed' = lead' + 1 + Sum(fr) + scan.j + 1
    BY <1>4, <2>1
  <2> DEFINE a == lead'
             b == Sum(fr)
             k == scan.j
             d == consumed'
  <2>3. a \in Nat /\ b \in Nat /\ k \in Nat /\ d \in Nat
    BY <1>3, <1>4, <1>5
  <2>4. c # End => d = a + 1 + b + k + 1
    BY <2>2
  <2> HIDE DEF a, b, k, d
  <2>5. c # End => d = a + 1 + b + (k + 1) /\ (k + 1) + b = d - 1 - a
    BY <2>3, <2>4, OneMore
  <2>6. QED
    BY <2>5 DEF a, b, k, d
<1>7. CASE c = End /\ Fail(frames, "io", scan.j, "read_string")
  <2> DEFINE code == "io"
             index == scan.j
  <2>1. /\ Fail(frames, code, index, func) /\ code \in {"io", "unexpected"}
        /\ index \in Int /\ func \in Funcs /\ code # "unexpected"
    BY <1>4, <1>7 DEF Funcs
  <2> HIDE DEF code, index, func
  <2>2. QED
    BY <1>2, <1>3, <2>1, ScanFails
<1>8. CASE c # End /\ Start(frames, "string", [scan EXCEPT !.j = j, !.esc = TRUE])
  <2> DEFINE t == [scan EXCEPT !.j = j, !.esc = TRUE]
  <2>1. Start(fr, m, t) /\ m = "string" /\ m \in {"string", "compare", "number"}
    BY <1>8
  <2> HIDE DEF j, fr, m
  <2>2. t \in ScanRec /\ t.j = j
    BY <1>4, ScanSteps
  <2> HIDE DEF t
  <2>3. consumed' = lead' + 1 + Sum(fr) + t.j
    BY <1>6, <1>8, <2>2
  <2>4. QED
    BY <1>3, <1>4, <2>1, <2>2, <2>3, StartInv
<1>9. CASE c # End /\ Fail(frames, "unexpected", j, "read_string")
  <2> DEFINE code == "unexpected"
  <2>1. /\ Fail(frames, code, j, func) /\ code \in {"io", "unexpected"}
        /\ j \in Int /\ func \in Funcs /\ j + Sum(frames) = consumed' - 1 - lead'
    BY <1>4, <1>6, <1>9 DEF Funcs
  <2> HIDE DEF code, j, func
  <2>2. QED
    BY <1>2, <1>3, <2>1, ScanFails
<1>10. ASSUME NEW full \in BOOLEAN, c # End, StringDone(j, full)
       PROVE  IInv'
  <2>1. consumed' = lead' + 1 + Sum(frames) + j
    BY <1>6, <1>10
  <2> HIDE DEF j
  <2>2. QED
    BY <1>1, <1>2, <1>3, <1>4, <1>10, <2>1, StringDoneInv
<1>11. CASE c # End /\ Start(frames, "string", [scan EXCEPT !.j = j, !.n = @ + 1, !.esc = FALSE])
  <2> DEFINE t == [scan EXCEPT !.j = j, !.n = @ + 1, !.esc = FALSE]
  <2>1. Start(fr, m, t) /\ m = "string" /\ m \in {"string", "compare", "number"}
    BY <1>11
  <2> HIDE DEF j, fr, m
  <2>2. t \in ScanRec /\ t.j = j
    BY <1>4, ScanSteps
  <2> HIDE DEF t
  <2>3. consumed' = lead' + 1 + Sum(fr) + t.j
    BY <1>6, <1>11, <2>2
  <2>4. QED
    BY <1>3, <1>4, <2>1, <2>2, <2>3, StartInv
<1>12. QED
  BY <1>1, <1>7, <1>8, <1>9, <1>10, <1>11

(* read_and_compare reads a letter (:130-143).                             *)
LEMMA CompareInv ==
  ASSUME Typed, Running, Compare
  PROVE  IInv'
<1> DEFINE j == scan.j + 1
           fr == frames
           m == "compare"
           func == "read_and_compare"
<1>1. /\ mode = "compare" /\ depth' = depth /\ lead' = lead /\ cut' = cut
      /\ \/ Read(End) /\ Fail(frames, "io", scan.j, "read_and_compare")
         \/ Read("other") /\ Fail(frames, "unexpected", j, "read_and_compare")
         \/ Read("other") /\ scan.tail = 1 /\ Give(frames, With(Fresh), entries, Fresh, j)
         \/ /\ Read("other") /\ scan.tail # 1
            /\ Start(frames, "compare", [scan EXCEPT !.j = j, !.tail = @ - 1])
  BY DEF Compare
<1>2. /\ cut' \in BOOLEAN /\ depth' \in 0 .. MaxDepth + 1 /\ depth' = depth
  BY <1>1 DEF Typed
<1>3. /\ Moved /\ consumed' \in Nat /\ lead' \in Nat
      /\ Read("other") => consumed' = consumed + 1
  <2>1. "other" \in Char \cup {End} /\ End \in Char \cup {End} /\ "other" # End
    BY DEF Char, End
  <2>2. Read("other") \/ Read(End)
    BY <1>1
  <2> DEFINE o == "other"
             e == End
  <2>3. o \in Char \cup {End} /\ e \in Char \cup {End} /\ o # End /\ (Read(o) \/ Read(e))
    BY <2>1, <2>2
  <2>4. Read("other") <=> Read(o)
    OBVIOUS
  <2> HIDE DEF o, e
  <2>5. QED
    BY <1>1, <1>2, <2>3, <2>4, ReadMoves
<1>4. /\ Reads(fr, parent, entries, stage) /\ fr \in Seq(FrameRec)
      /\ Len(fr) <= depth' /\ depth' <= MaxDepth
      /\ stage = "value" /\ scan.tail \in 1 .. 4
      /\ scan \in ScanRec /\ scan.j \in Nat /\ j \in Nat /\ lead \in Nat
      /\ consumed = lead + 1 + Sum(frames) + scan.j
  <2>1. scan \in ScanRec /\ scan.j \in Nat /\ j \in Nat /\ lead \in Nat
    BY DEF Typed, ScanRec
  <2>2. Counted /\ Scanning /\ Reads(fr, parent, entries, stage) /\ Len(fr) <= depth'
        /\ depth' <= MaxDepth
    BY <1>2 DEF Running
  <2>3. stage = "value" /\ scan.tail \in 1 .. 4 /\ consumed = lead + 1 + Sum(frames) + scan.j
    BY <1>1, <2>2 DEF Counted, Scanning
  <2>4. fr \in Seq(FrameRec)
    BY <2>2 DEF Reads, Stack
  <2>5. QED
    BY <2>1, <2>2, <2>3, <2>4
<1>5. Sum(fr) \in Nat
  BY <1>4, SumType
<1>6. Read("other") => /\ consumed' = lead' + 1 + Sum(fr) + j
                       /\ j + Sum(fr) = consumed' - 1 - lead'
  <2>1. CASE Read("other")
    <3>1. consumed' = consumed + 1 /\ lead' = lead
      BY <1>1, <1>3, <2>1
    <3>2. consumed' = lead' + 1 + Sum(fr) + scan.j + 1
      BY <1>4, <3>1
    <3> DEFINE a == lead'
               b == Sum(fr)
               k == scan.j
               d == consumed'
    <3>3. a \in Nat /\ b \in Nat /\ k \in Nat /\ d \in Nat
      BY <1>3, <1>4, <1>5
    <3>4. d = a + 1 + b + k + 1
      BY <3>2
    <3> HIDE DEF a, b, k, d
    <3>5. d = a + 1 + b + (k + 1) /\ (k + 1) + b = d - 1 - a
      BY <3>3, <3>4, OneMore
    <3>6. QED
      BY <3>5 DEF a, b, k, d
  <2>2. QED
    BY <2>1
<1>7. CASE Fail(frames, "io", scan.j, "read_and_compare")
  <2> DEFINE code == "io"
             index == scan.j
  <2>1. /\ Fail(frames, code, index, func) /\ code \in {"io", "unexpected"}
        /\ index \in Int /\ func \in Funcs /\ code # "unexpected"
    BY <1>4, <1>7 DEF Funcs
  <2> HIDE DEF code, index, func
  <2>2. QED
    BY <1>2, <1>3, <2>1, ScanFails
<1>8. CASE Read("other") /\ Fail(frames, "unexpected", j, "read_and_compare")
  <2> DEFINE code == "unexpected"
  <2>1. /\ Fail(frames, code, j, func) /\ code \in {"io", "unexpected"}
        /\ j \in Int /\ func \in Funcs /\ j + Sum(frames) = consumed' - 1 - lead'
    BY <1>4, <1>6, <1>8 DEF Funcs
  <2> HIDE DEF code, j, func
  <2>2. QED
    BY <1>2, <1>3, <2>1, ScanFails
<1>9. CASE Read("other") /\ Give(frames, With(Fresh), entries, Fresh, j)
  <2> DEFINE own == With(Fresh)
             ents == entries
             v == Fresh
             st == "value"
  <2>1. Give(fr, own, ents, v, j)
    BY <1>9
  <2>2. Reads(fr, parent, ents, st) /\ st \in {"value", "end"}
    BY <1>4
  <2>3. Held(fr, own, ents, v)
    <3> HIDE DEF fr, ents, st
    <3> QED
      BY <2>2, FreshHeld
  <2>4. consumed' = lead' + 1 + Sum(fr) + j
    BY <1>6, <1>9
  <2> HIDE DEF fr, own, ents, v, j
  <2>5. QED
    BY <1>3, <1>4, <2>1, <2>3, <2>4, GiveInv
<1>10. CASE /\ Read("other") /\ scan.tail # 1
            /\ Start(frames, "compare", [scan EXCEPT !.j = j, !.tail = @ - 1])
  <2> DEFINE t == [scan EXCEPT !.j = j, !.tail = @ - 1]
  <2>1. Start(fr, m, t) /\ m = "compare" /\ m \in {"string", "compare", "number"}
    BY <1>10
  <2>2. scan.tail \in 2 .. 4
    BY <1>4, <1>10
  <2> HIDE DEF j, fr, m
  <2>3. t \in ScanRec /\ t.j = j /\ t.tail \in 1 .. 4
    BY <1>4, <2>2, ScanSteps
  <2> HIDE DEF t
  <2>4. consumed' = lead' + 1 + Sum(fr) + t.j
    BY <1>6, <1>10, <2>3
  <2>5. QED
    BY <1>3, <1>4, <2>1, <2>3, <2>4, StartInv
<1>11. QED
  BY <1>1, <1>7, <1>8, <1>9, <1>10

(* A number ends: it is given, or has no digits (:222-232).                *)
LEMMA NumberDoneInv ==
  ASSUME Typed, Running, Moved, depth' = depth, stage = "value",
         NEW n \in Nat, NEW dig \in BOOLEAN, NEW o \in Char, NumberDone(n, dig, o),
         o \notin {"digit", "."} => consumed' = lead' + 1 + Sum(frames) + n,
         o \in {"digit", "."} => consumed' = lead' + Sum(frames) + n,
         ~dig => Sum(frames) \in {consumed' - 2 - lead', consumed' - 3 - lead'}
  PROVE  IInv'
<1>1. /\ Reads(frames, parent, entries, stage) /\ frames \in Seq(FrameRec)
      /\ Len(frames) <= depth' /\ depth' <= MaxDepth
  BY DEF Running, Reads, Stack
<1>2. Sum(frames) \in Nat
  BY <1>1, SumType
<1>3. CASE dig
  <2> DEFINE fr == frames
             own == With(Fresh)
             ents == entries
             v == Fresh
             st == "value"
  <2>1. GiveNumber(fr, own, v, n, o)
    BY <1>3 DEF NumberDone
  <2>2. Reads(fr, parent, ents, st) /\ st \in {"value", "end"}
    BY <1>1
  <2>3. Held(fr, own, entries, v)
    <3>1. Held(fr, own, ents, v)
      <4> HIDE DEF fr, ents, st
      <4> QED
        BY <2>2, FreshHeld
    <3>2. QED
      BY <3>1
  <2>4. /\ Len(fr) <= depth'
        /\ o \notin {"digit", "."} => consumed' = lead' + 1 + Sum(fr) + n
        /\ o \in {"digit", "."} => consumed' = lead' + Sum(fr) + n
    BY <1>1
  <2> HIDE DEF fr, own, v
  <2>5. QED
    BY <1>1, <2>1, <2>3, <2>4, GiveNumberInv
<1>4. CASE ~dig
  <2> DEFINE code == "unexpected"
             index == 0
             func == "read_number"
  <2>1. /\ Fail(frames, code, index, func) /\ code \in {"io", "unexpected"} /\ func = "read_number"
        /\ index = 0 /\ func \in Funcs
    BY <1>4 DEF NumberDone, Funcs
  <2> HIDE DEF code, index, func
  <2>2. index \in Int /\ index + Sum(frames) = Sum(frames)
    BY <1>2, <2>1
  <2>3. index + Sum(frames) \in {consumed' - 2 - lead', consumed' - 3 - lead'}
    BY <1>4, <2>2
  <2>4. QED
    BY <2>1, <2>2, <2>3, ScanFails
<1>5. QED
  BY <1>3, <1>4

(* The positions that the cases of read_number arrive at.                  *)
LEMMA NumberPlaces ==
  ASSUME NEW a \in Nat, NEW b \in Nat, NEW k \in Nat, NEW d \in Nat, d = a + b + k + 1
  PROVE  /\ d = a + 1 + b + k /\ d = a + b + (k + 1)
         /\ k + b = d - 1 - a
         /\ k = 1 => b = d - 2 - a
         /\ k = 2 => b = d - 3 - a
OBVIOUS

(* read_number reads the next character of a number (:190-219).            *)
LEMMA NumberInv ==
  ASSUME Typed, Running, NEW c \in Char \cup {End}, Number(c)
  PROVE  IInv'
<1> DEFINE t == [scan EXCEPT !.n = @ + 1, !.dec = @ \/ c = ".", !.dig = @ \/ c = "digit"]
           fr == frames
           func == "read_number"
<1>1. /\ mode = "number" /\ Read(c) /\ depth' = depth /\ lead' = lead /\ cut' = cut
      /\ \/ c = End /\ Fail(frames, "io", scan.n, "read_number")
         \/ c # End /\ Fail(frames, "unexpected", scan.n, "read_number")
         \/ /\ c = "digit" \/ (c = "." /\ ~scan.dec)
            /\ IF t.n = NumberLen THEN NumberDone(t.n, t.dig, c)
               ELSE Start(frames, "number", t)
         \/ c \notin {End, "-", ".", "digit"} /\ NumberDone(scan.n, scan.dig, c)
  BY DEF Number, End
<1>2. /\ cut' \in BOOLEAN /\ depth' \in 0 .. MaxDepth + 1 /\ depth' = depth
  BY <1>1 DEF Typed
<1>3. /\ Moved /\ consumed' \in Nat /\ lead' \in Nat
      /\ consumed' = IF c = End THEN consumed ELSE consumed + 1
  BY <1>1, <1>2, ReadMoves
<1>4. /\ Reads(fr, parent, entries, stage) /\ fr \in Seq(FrameRec)
      /\ Len(fr) <= depth' /\ depth' <= MaxDepth
      /\ stage = "value" /\ scan.n \in 1 .. NumberLen - 1
      /\ ~scan.dig => scan.n = IF scan.dec THEN 2 ELSE 1
      /\ scan \in ScanRec /\ scan.n \in Nat /\ scan.dig \in BOOLEAN /\ lead \in Nat
      /\ consumed = lead + Sum(frames) + scan.n
  <2>1. scan \in ScanRec /\ scan.n \in Nat /\ scan.dig \in BOOLEAN /\ lead \in Nat
    BY DEF Typed, ScanRec
  <2>2. Counted /\ Scanning /\ Reads(fr, parent, entries, stage) /\ Len(fr) <= depth'
        /\ depth' <= MaxDepth
    BY <1>2 DEF Running
  <2>3. /\ stage = "value" /\ scan.n \in 1 .. NumberLen - 1
        /\ ~scan.dig => scan.n = IF scan.dec THEN 2 ELSE 1
        /\ consumed = lead + Sum(frames) + scan.n
    BY <1>1, <2>2 DEF Counted, Scanning
  <2>4. fr \in Seq(FrameRec)
    BY <2>2 DEF Reads, Stack
  <2>5. QED
    BY <2>1, <2>2, <2>3, <2>4
<1>5. Sum(fr) \in Nat
  BY <1>4, SumType
<1>6. c # End => /\ consumed' = lead' + 1 + Sum(fr) + scan.n
                 /\ consumed' = lead' + Sum(fr) + (scan.n + 1)
                 /\ scan.n + Sum(fr) = consumed' - 1 - lead'
                 /\ scan.n = 1 => Sum(fr) = consumed' - 2 - lead'
                 /\ scan.n = 2 => Sum(fr) = consumed' - 3 - lead'
  <2> DEFINE a == lead'
             b == Sum(fr)
             k == scan.n
             d == consumed'
  <2>1. a \in Nat /\ b \in Nat /\ k \in Nat /\ d \in Nat
    BY <1>3, <1>4, <1>5
  <2>2. lead' = lead /\ (c # End => consumed' = consumed + 1)
    BY <1>1, <1>3
  <2>3. c # End => d = a + b + k + 1
    BY <1>4, <2>2
  <2> HIDE DEF a, b, k, d
  <2>4. c # End => /\ d = a + 1 + b + k /\ d = a + b + (k + 1)
                   /\ k + b = d - 1 - a
                   /\ k = 1 => b = d - 2 - a
                   /\ k = 2 => b = d - 3 - a
    BY <2>1, <2>3, NumberPlaces
  <2>5. QED
    BY <2>4 DEF a, b, k, d
<1>7. ~scan.dig => scan.n \in {1, 2} /\ (~scan.dec => scan.n = 1)
  BY <1>4
<1>8. CASE c = End /\ Fail(frames, "io", scan.n, "read_number")
  <2> DEFINE code == "io"
             index == scan.n
  <2>1. /\ Fail(frames, code, index, func) /\ code \in {"io", "unexpected"}
        /\ index \in Int /\ func \in Funcs /\ code # "unexpected"
    BY <1>4, <1>8 DEF Funcs
  <2> HIDE DEF code, index, func
  <2>2. QED
    BY <1>2, <1>3, <2>1, ScanFails
<1>9. CASE c # End /\ Fail(frames, "unexpected", scan.n, "read_number")
  <2> DEFINE code == "unexpected"
             index == scan.n
  <2>1. /\ Fail(frames, code, index, func) /\ code \in {"io", "unexpected"}
        /\ index \in Int /\ func \in Funcs /\ index + Sum(frames) = consumed' - 1 - lead'
    BY <1>4, <1>6, <1>9 DEF Funcs
  <2> HIDE DEF code, index, func
  <2>2. QED
    BY <1>2, <1>3, <2>1, ScanFails
<1>10. CASE /\ c = "digit" \/ (c = "." /\ ~scan.dec)
            /\ IF t.n = NumberLen THEN NumberDone(t.n, t.dig, c)
               ELSE Start(frames, "number", t)
  <2>1. /\ t \in ScanRec /\ t.n = scan.n + 1
        /\ t.dec <=> scan.dec \/ c = "."
        /\ t.dig <=> scan.dig \/ c = "digit"
    <3>1. scan \in ScanRec /\ c \in {"digit", "."}
      BY <1>4, <1>10
    <3>2. QED
      BY <3>1, NumberStep, Zenon
  <2>2. c \in Char /\ c # End /\ c \in {"digit", "."}
    BY <1>10 DEF Char, End
  <2>3. t.n \in Nat /\ t.dig \in BOOLEAN
    BY <2>1 DEF ScanRec
  <2>4. ~t.dig => t.dec /\ scan.n = 1
    BY <1>7, <1>10, <2>1
  <2> HIDE DEF t
  <2>5. CASE t.n = NumberLen /\ NumberDone(t.n, t.dig, c)
    <3> DEFINE n == t.n
               dig == t.dig
    <3>1. /\ NumberDone(n, dig, c) /\ n \in Nat /\ dig \in BOOLEAN
          /\ consumed' = lead' + Sum(frames) + n
          /\ ~dig => Sum(frames) = consumed' - 2 - lead'
      BY <1>6, <2>1, <2>2, <2>3, <2>4, <2>5
    <3> HIDE DEF n, dig
    <3>2. QED
      BY <1>2, <1>3, <1>4, <2>2, <3>1, NumberDoneInv
  <2>6. CASE t.n # NumberLen /\ Start(frames, "number", t)
    <3> DEFINE m == "number"
    <3>1. /\ Start(fr, m, t) /\ m = "number" /\ m \in {"string", "compare", "number"}
      BY <2>6
    <3>2. t.n \in 1 .. NumberLen - 1
      BY <1>4, <2>1, <2>6
    <3>3. ~t.dig => t.n = IF t.dec THEN 2 ELSE 1
      BY <2>1, <2>4
    <3>4. consumed' = lead' + Sum(fr) + t.n
      BY <1>6, <2>1, <2>2
    <3> HIDE DEF fr, m
    <3>5. QED
      BY <1>3, <1>4, <2>1, <3>1, <3>2, <3>3, <3>4, StartInv
  <2>7. QED
    BY <1>10, <2>5, <2>6
<1>11. CASE c \notin {End, "-", ".", "digit"} /\ NumberDone(scan.n, scan.dig, c)
  <2> DEFINE n == scan.n
             dig == scan.dig
  <2>1. c \in Char /\ c # End /\ c \notin {"digit", "."}
    BY <1>11
  <2>2. /\ NumberDone(n, dig, c) /\ n \in Nat /\ dig \in BOOLEAN
        /\ consumed' = lead' + 1 + Sum(frames) + n
        /\ ~dig => Sum(frames) \in {consumed' - 2 - lead', consumed' - 3 - lead'}
    BY <1>4, <1>6, <1>7, <1>11, <2>1
  <2> HIDE DEF n, dig
  <2>3. QED
    BY <1>2, <1>3, <1>4, <2>1, <2>2, NumberDoneInv
<1>12. QED
  BY <1>1, <1>8, <1>9, <1>10, <1>11

LEMMA InitInv == Init => IInv
<1> SUFFICES ASSUME Init PROVE IInv
  OBVIOUS
<1>1. /\ mode = "seek" /\ frames = <<>> /\ stage = "value" /\ scan = Scan /\ depth = 0
      /\ error = Err("none", -1, "none") /\ DOMAIN parent = {} /\ DOMAIN entries = {}
      /\ result = 0 /\ consumed = 0 /\ lead = 0 /\ cut = FALSE
  BY DEF Init
<1>2. error \in ErrRec /\ error.code = "none"
  BY <1>1 DEF Err, ErrRec, Codes, Funcs
<1>3. Typed
  <2>1. mode \in {"seek", "string", "compare", "number", "done"} /\ stage \in Stages
    BY <1>1 DEF Stages
  <2>2. /\ scan \in ScanRec /\ consumed \in 0 .. MaxInput /\ lead \in 0 .. consumed
        /\ depth \in 0 .. MaxDepth + 1
    BY <1>1, ScanIs
  <2>3. cut \in BOOLEAN
    BY <1>1
  <2>4. QED
    BY <1>2, <2>1, <2>2, <2>3 DEF Typed
<1>4. frames \in Seq(FrameRec) /\ Len(frames) = 0
  BY <1>1, EmptySeq
<1>5. Stack(frames, parent) /\ Keyed(frames, Len(frames)) /\ Keyed(frames, Len(frames) - 1)
  BY <1>4 DEF Stack, Keyed
<1>6. /\ Tree(parent, Containers(frames)) /\ Noting(entries, parent)
      /\ Containers(frames) \subseteq DOMAIN entries
  BY <1>1 DEF Tree, Noting, Containers
<1>7. Numbered(parent)
  <2>1. 1 .. 0 = {} /\ 0 \in Nat
    OBVIOUS
  <2>2. QED
    BY <1>1, <2>1 DEF Numbered
<1>8. Reads(frames, parent, entries, stage)
  BY <1>1, <1>5, <1>6, <1>7 DEF Reads, Stages
<1>9. Counted /\ Scanning
  BY <1>1, ScanIs DEF Counted, Scanning
<1>10. QED
  BY <1>1, <1>2, <1>3, <1>4, <1>8, <1>9 DEF IInv, Running

LEMMA NextInv == IInv /\ [Next]_vars => IInv'
<1> SUFFICES ASSUME IInv, [Next]_vars PROVE IInv'
  OBVIOUS
<1>1. CASE UNCHANGED vars
  BY <1>1 DEF IInv, Typed, Running, Settled, Counted, Scanning, vars
<1>2. CASE Next /\ mode = "done"
  <2>1. UNCHANGED vars
    BY <1>2 DEF Next, SeekBlank, Compare, Done, SeekFound, SeekFail, String, Number
  <2>2. QED
    BY <1>1, <2>1
<1>3. CASE Next /\ mode # "done"
  <2>1. Typed /\ Running
    BY <1>3 DEF IInv
  <2>2. CASE SeekBlank
    BY <2>1, <2>2, SeekBlankInv
  <2>3. CASE Compare
    BY <2>1, <2>3, CompareInv
  <2>4. ASSUME NEW c \in Char \cup {End}, SeekFound(c) \/ SeekFail(c) \/ String(c) \/ Number(c)
        PROVE  IInv'
    <3>1. CASE SeekFound(c)
      BY <2>1, <3>1, SeekFoundInv
    <3>2. CASE SeekFail(c)
      BY <2>1, <3>2, SeekFailInv
    <3>3. CASE String(c)
      BY <2>1, <3>3, StringInv
    <3>4. CASE Number(c)
      BY <2>1, <3>4, NumberInv
    <3>5. QED
      BY <2>4, <3>1, <3>2, <3>3, <3>4
  <2>5. QED
    BY <1>3, <2>2, <2>3, <2>4 DEF Next, Done
<1>4. QED
  BY <1>1, <1>2, <1>3

(* The invariant holds of every reader.                                    *)
LEMMA Invariant == Spec => []IInv
BY InitInv, NextInv, PTL DEF Spec

-----------------------------------------------------------------------------
(* As many containers as calls are on the stack.                           *)
LEMMA ContainersCount ==
  ASSUME NEW fr, NEW own, Stack(fr, own)
  PROVE  Cardinality(Containers(fr)) = Len(fr)
<1> DEFINE l == Len(fr)
           C == Containers(fr)
           f == [a \in 1 .. l |-> fr[a].node]
<1>1. /\ fr \in Seq(FrameRec) /\ l \in Nat
      /\ \A a, b \in 1 .. l : a < b => fr[a].node < fr[b].node
      /\ \A a \in 1 .. l : fr[a].node \in Nat
  <2>1. fr \in Seq(FrameRec) /\ \A a, b \in 1 .. l : a < b => fr[a].node < fr[b].node
    BY DEF Stack
  <2>2. \A a \in 1 .. l : fr[a] \in FrameRec
    BY <2>1, ElementOfSeq
  <2>3. QED
    BY <2>1, <2>2, LenProperties DEF FrameRec
<1>2. C = {fr[a].node : a \in 1 .. l}
  BY <1>1, ContainersIs
<1> HIDE DEF l, C
<1>3. f \in [1 .. l -> C] /\ (\A n \in C : \E a \in 1 .. l : f[a] = n)
  BY <1>2
<1>4. \A a, b \in 1 .. l : f[a] = f[b] => a = b
  <2>1. ASSUME NEW a \in 1 .. l, NEW b \in 1 .. l, fr[a].node = fr[b].node, a # b
        PROVE  FALSE
    <3>1. a < b \/ b < a
      BY <1>1, <2>1
    <3>2. ~ (fr[a].node < fr[b].node) /\ ~ (fr[b].node < fr[a].node)
      BY <1>1, <2>1
    <3>3. QED
      BY <1>1, <3>1, <3>2
  <2>2. QED
    BY <2>1
<1> HIDE DEF f
<1>5. ExistsBijection(1 .. l, C)
  BY <1>3, <1>4
     DEF ExistsBijection, Bijection, Injection, Surjection, IsInjective
<1>6. QED
  BY <1>1, <1>5, FS_CountingElements DEF l, C

(* A failed read leaves no value behind, a successful one only what it     *)
(* returns, and while the reader runs every value hangs in a container     *)
(* whose call has it in hand (:345, :373, :444).                           *)
THEOREM NoLeakAlways == Spec => []NoLeak
<1>1. IInv => NoLeak
  <2> SUFFICES ASSUME IInv PROVE NoLeak
    OBVIOUS
  <2>1. CASE mode # "done"
    <3>1. /\ result = 0 /\ Stack(frames, parent) /\ Tree(parent, Containers(frames))
          /\ frames \in Seq(FrameRec)
      BY <2>1 DEF IInv, Running, Reads, Stack
    <3>2. Containers(frames) = {frames[a].node : a \in 1 .. Len(frames)}
      BY <3>1, ContainersIs
    <3>3. \A m \in Containers(frames) : m \in DOMAIN parent /\ parent[m] = 0
      BY <3>1, <3>2 DEF Stack
    <3>4. \A n \in DOMAIN parent : \E m \in Containers(frames) : n \in Owned(parent, m)
      BY <3>1, RootsOwnAll
    <3>5. \A m \in Containers(frames) : Owned(parent, m) \subseteq DOMAIN parent
      BY DEF Owned
    <3>6. DOMAIN parent = UNION {Owned(parent, m) : m \in Containers(frames)}
      BY <3>4, <3>5
    <3>7. Cardinality(Containers(frames)) = Len(frames)
      BY <3>1, ContainersCount
    <3>8. QED
      BY <3>1, <3>3, <3>6, <3>7 DEF NoLeak
  <2>2. CASE mode = "done"
    <3>1. frames = <<>> /\ Settled
      BY <2>2 DEF IInv, Settled
    <3>2. Containers(frames) = {} /\ Cardinality(Containers(frames)) = Len(frames)
      <4>1. Containers(frames) = {}
        BY <3>1 DEF Containers
      <4>2. Cardinality({}) = 0 /\ Len(<<>>) = 0
        BY FS_EmptySet
      <4>3. QED
        BY <3>1, <4>1, <4>2
    <3>3. DOMAIN parent = IF result = 0 THEN {} ELSE Owned(parent, result)
      <4>1. CASE result = 0
        BY <3>1, <4>1 DEF Settled
      <4>2. CASE result # 0
        <5>1. Tree(parent, {result})
          BY <3>1, <4>2 DEF Settled
        <5>2. \A n \in DOMAIN parent : n \in Owned(parent, result)
          BY <5>1, RootsOwnAll
        <5>3. Owned(parent, result) \subseteq DOMAIN parent
          BY DEF Owned
        <5>4. QED
          BY <4>2, <5>2, <5>3
      <4>3. QED
        BY <4>1, <4>2
    <3>4. \A m \in Containers(frames) : parent[m] = 0
      BY <3>2
    <3>5. UNION {Owned(parent, m) : m \in Containers(frames)} = {}
      BY <3>2
    <3>6. DOMAIN parent = (UNION {Owned(parent, m) : m \in Containers(frames)})
                          \cup (IF result = 0 THEN {} ELSE Owned(parent, result))
      <4> DEFINE U == UNION {Owned(parent, m) : m \in Containers(frames)}
                 R == IF result = 0 THEN {} ELSE Owned(parent, result)
      <4>1. U = {} /\ DOMAIN parent = R
        BY <3>3, <3>5
      <4> HIDE DEF U, R
      <4>2. DOMAIN parent = U \cup R
        BY <4>1
      <4>3. QED
        BY <4>2 DEF U, R
    <3>7. QED
      BY <3>2, <3>4, <3>6, Zenon DEF NoLeak
  <2>3. QED
    BY <2>1, <2>2
<1>2. QED
  BY <1>1, Invariant, PTL

(* The index of an error is where the text went wrong: the calls have      *)
(* counted every character read, once, but for the exceptions that the     *)
(* property lists (:37, :226, :359, :432).                                 *)
THEOREM ErrorIndexAlways == Spec => []ErrorIndex
<1>1. IInv => ErrorIndex
  <2> SUFFICES ASSUME IInv PROVE ErrorIndex
    OBVIOUS
  <2>1. CASE mode # "done"
    <3>1. Counted /\ error.code = "none"
      BY <2>1 DEF IInv, Running
    <3>2. QED
      BY <3>1 DEF Counted, ErrorIndex
  <2>2. CASE mode = "done"
    <3>1. Located(error.code, error.func, error.index, consumed, lead)
      BY <2>2 DEF IInv, Settled
    <3>2. QED
      BY <2>2, <3>1 DEF Located, ErrorIndex
  <2>3. QED
    BY <2>1, <2>2
<1>2. QED
  BY <1>1, Invariant, PTL

(* The calls on the stack are never more than max_depth, they are at most  *)
(* as many as rw->depth says, and only the one too many is refused         *)
(* (:13-15, :288, :390).  Every variable has its type.                     *)
THEOREM NestingBoundedAlways == Spec => []NestingBounded
<1>1. IInv => NestingBounded
  <2> SUFFICES ASSUME IInv PROVE NestingBounded
    OBVIOUS
  <2>1. Typed
    BY DEF IInv
  <2>2. /\ frames \in Seq(FrameRec) /\ result \in Nat
        /\ \A n \in DOMAIN parent : parent[n] \in DOMAIN parent \cup {0}
        /\ Noting(entries, parent)
        /\ Len(frames) <= MaxDepth /\ Len(frames) <= depth
        /\ error.code = "max_depth" <=> depth = MaxDepth + 1
    <3>1. CASE mode # "done"
      <4>1. /\ frames \in Seq(FrameRec) /\ result = 0 /\ Tree(parent, Containers(frames))
            /\ Noting(entries, parent) /\ Len(frames) <= depth /\ depth <= MaxDepth
            /\ error.code = "none"
        BY <3>1 DEF IInv, Running, Reads, Stack
      <4>2. Len(frames) \in Nat /\ depth \in Nat
        BY <2>1, <4>1, LenProperties DEF Typed
      <4>3. Len(frames) <= MaxDepth /\ ~ (depth = MaxDepth + 1)
        BY <4>1, <4>2
      <4>4. \A n \in DOMAIN parent : parent[n] \in DOMAIN parent \cup {0}
        BY <4>1 DEF Tree
      <4>5. QED
        BY <4>1, <4>3, <4>4
    <3>2. CASE mode = "done"
      <4>1. Settled
        BY <3>2 DEF IInv
      <4>2. frames \in Seq(FrameRec) /\ Len(frames) = 0 /\ depth \in Nat
        BY <2>1, <4>1, EmptySeq DEF Settled, Typed
      <4>3. Len(frames) <= MaxDepth /\ Len(frames) <= depth
        BY <4>2
      <4>4. \A n \in DOMAIN parent : parent[n] \in DOMAIN parent \cup {0}
        BY <4>1 DEF Settled, Tree
      <4>5. QED
        BY <4>1, <4>2, <4>3, <4>4 DEF Settled
    <3>3. QED
      BY <3>1, <3>2
  <2>3. TypeOK
    <3>1. error.code \in {"none", "io", "unexpected", "max_depth"} /\ error.index \in Int
      BY <2>1 DEF Typed, ErrRec, Codes
    <3>2. \A n \in DOMAIN entries : n \in DOMAIN parent /\ entries[n] \subseteq Key
      BY <2>2 DEF Noting
    <3>3. /\ frames \in Seq([kind : {"object", "list"}, node : Nat \ {0},
                             key : Key \cup {NONE}, i : Nat])
          /\ scan \in [j : Nat, n : Nat, esc : BOOLEAN, dec : BOOLEAN, dig : BOOLEAN, tail : 0 .. 4]
          /\ stage \in {"key", "colon", "value", "end"}
      BY <2>1, <2>2 DEF Typed, FrameRec, ScanRec, Stages
    <3>4. /\ mode \in {"seek", "string", "compare", "number", "done"}
          /\ depth \in 0 .. MaxDepth + 1 /\ consumed \in 0 .. MaxInput /\ lead \in 0 .. consumed
          /\ cut \in BOOLEAN
      BY <2>1 DEF Typed
    <3>5. QED
      BY <2>2, <3>1, <3>2, <3>3, <3>4, Zenon DEF TypeOK
  <2>4. QED
    BY <2>2, <2>3 DEF NestingBounded
<1>2. QED
  BY <1>1, Invariant, PTL

-----------------------------------------------------------------------------
(* A call that fails ends the reader with the error it names.              *)
LEMMA FailIs ==
  ASSUME NEW fr, NEW code, NEW index, NEW func, Fail(fr, code, index, func)
  PROVE  mode' = "done" /\ result' = result /\ error'.code = code
<1>1. /\ mode' = "done" /\ result' = result
      /\ error' = [Err(code, index, func) EXCEPT !.index = @ + Sum(fr)]
  BY DEF Fail, Abort
<1>2. error'.code = code
  <2> DEFINE k == index + Sum(fr)
  <2>1. error' = [Err(code, index, func) EXCEPT !.index = k]
    BY <1>1 DEF Err
  <2> HIDE DEF k
  <2>2. QED
    BY <2>1 DEF Err
<1>3. QED
  BY <1>1, <1>2

(* A read that brings nothing ends the reader with an io error, whatever   *)
(* has been read before (:44, :110, :140, :216).                           *)
THEOREM EndIsAlwaysAnError == Spec => EndIsAnError
<1>1. ASSUME IInv, [Next]_vars
      PROVE  [mode # "done" /\ consumed' = consumed =>
                mode' = "done" /\ result' = 0 /\ error'.code = "io"]_vars
  <2> SUFFICES ASSUME Next, mode # "done", consumed' = consumed
               PROVE  mode' = "done" /\ result' = 0 /\ error'.code = "io"
    BY <1>1
  <2>1. result = 0 /\ consumed \in Nat
    BY <1>1 DEF IInv, Typed, Running
  <2>2. ASSUME NEW c, Read(c)
        PROVE  c = End
    BY <2>1, <2>2 DEF Read
  <2>3. PICK fr, index, func : Fail(fr, "io", index, func)
    <3>1. CASE SeekBlank
      <4>1. Read("ws") /\ "ws" # End
        BY <3>1 DEF SeekBlank, End
      <4>2. QED
        BY <2>2, <4>1
    <3>2. CASE Compare
      <4>1. ~Read("other")
        <5>1. "other" # End
          BY DEF End
        <5>2. QED
          BY <2>2, <5>1
      <4>2. Fail(frames, "io", scan.j, "read_and_compare")
        BY <3>2, <4>1 DEF Compare
      <4>3. QED
        BY <4>2
    <3>3. ASSUME NEW c \in Char \cup {End}, SeekFound(c)
          PROVE  FALSE
      <4>1. c = End /\ c \in Expect
        BY <2>2, <3>3 DEF SeekFound
      <4>2. End \notin Expect
        <5>1. stage \in Stages
          BY <1>1 DEF IInv, Typed
        <5>2. QED
          BY <5>1 DEF Expect, End, Closer, Stages
      <4>3. QED
        BY <4>1, <4>2
    <3>4. ASSUME NEW c \in Char \cup {End}, SeekFail(c)
          PROVE  Fail(frames, "io", scan.j, "seek_until")
      <4>1. c = End
        BY <2>2, <3>4 DEF SeekFail
      <4>2. QED
        BY <3>4, <4>1 DEF SeekFail
    <3>5. ASSUME NEW c \in Char \cup {End}, String(c)
          PROVE  Fail(frames, "io", scan.j, "read_string")
      <4>1. c = End
        BY <2>2, <3>5 DEF String
      <4>2. QED
        BY <3>5, <4>1 DEF String, End
    <3>6. ASSUME NEW c \in Char \cup {End}, Number(c)
          PROVE  Fail(frames, "io", scan.n, "read_number")
      <4>1. c = End
        BY <2>2, <3>6 DEF Number
      <4>2. QED
        BY <3>6, <4>1 DEF Number, End
    <3>7. QED
      BY <3>1, <3>2, <3>3, <3>4, <3>5, <3>6 DEF Next, Done
  <2>4. mode' = "done" /\ result' = result /\ error'.code = "io"
    <3> DEFINE code == "io"
    <3>1. Fail(fr, code, index, func)
      BY <2>3
    <3> HIDE DEF code
    <3>2. mode' = "done" /\ result' = result /\ error'.code = code
      BY <3>1, FailIs
    <3>3. QED
      BY <3>2 DEF code
  <2>5. QED
    BY <2>1, <2>4
<1>2. QED
  BY <1>1, Invariant, PTL DEF Spec, EndIsAnError

(* A value is given in vain: its object has the key.                       *)
LEMMA GiveSilent ==
  ASSUME NEW fr \in Seq(FrameRec), NEW own, NEW ents, NEW v, NEW j \in Nat,
         Give(fr, own, ents, v, j), mode' = "done", v # 0, result' = 0
  PROVE  fr # <<>> /\ Refused(fr, ents)
<1>1. fr # <<>>
  BY DEF Give, Finish
<1> DEFINE g == Count(fr, j)
<1>2. g \in Seq(FrameRec) /\ g # <<>> /\ Same(fr, g)
  BY <1>1, CountIs
<1>3. Refused(g, ents)
  BY <1>1 DEF Give, Continue
<1> HIDE DEF g
<1>4. Last(g).kind = Last(fr).kind /\ Last(g).key = Last(fr).key /\ Last(g).node = Last(fr).node
  <2>1. Len(fr) \in 1 .. Len(fr) /\ Len(g) = Len(fr)
    BY <1>1, <1>2, FrontIs DEF Same
  <2>2. QED
    BY <1>2, <2>1 DEF Same, Last
<1>5. QED
  BY <1>1, <1>3, <1>4 DEF Refused

(* With a number, the container that ends behind it may be given in vain.  *)
LEMMA GiveNumberSilent ==
  ASSUME NEW fr \in Seq(FrameRec), NEW own, NEW v, NEW j \in Nat, NEW o,
         Stack(fr, parent), Containers(fr) \subseteq DOMAIN entries,
         GiveNumber(fr, own, v, j, o), mode' = "done", v # 0, result' = 0,
         error'.code = "none"
  PROVE  \/ fr # <<>> /\ Refused(fr, entries)
         \/ Front(fr) # <<>> /\ Refused(Front(fr), entries)
<1> DEFINE g == Count(fr, j)
           f == Last(g)
           own2 == Attached(g, own, v)
           ents2 == Noted(g, entries)
           h == Front(g)
           m == f.node
           k == f.i
<1>1. CASE Give(fr, own, entries, v, j)
  <2> DEFINE ents == entries
  <2>1. Give(fr, own, ents, v, j)
    BY <1>1
  <2> HIDE DEF ents
  <2>2. fr # <<>> /\ Refused(fr, ents)
    BY <2>1, GiveSilent
  <2>3. QED
    BY <2>2 DEF ents
<1>2. CASE ~Give(fr, own, entries, v, j)
  <2>1. fr # <<>>
    BY <1>2 DEF GiveNumber
  <2>2. /\ g \in Seq(FrameRec) /\ g # <<>> /\ Same(fr, g) /\ h = Front(fr)
    BY <2>1, CountIs
  <2>3. Give(h, own2, ents2, m, k)
    <3>1. \/ Give(h, own2, ents2, m, k)
          \/ Continue(g, own2, ents2, First(f.kind))
          \/ Abort(g, own2, ents2, Err("unexpected", 1, f.kind))
      BY <1>2 DEF GiveNumber
    <3>2. ~Continue(g, own2, ents2, First(f.kind))
      BY DEF Continue
    <3>3. ~Abort(g, own2, ents2, Err("unexpected", 1, f.kind))
      <4> DEFINE kind == f.kind
                 sum == 1 + Sum(g)
      <4>1. ASSUME Abort(g, own2, ents2, Err("unexpected", 1, kind))
            PROVE  error' = [Err("unexpected", 1, kind) EXCEPT !.index = sum]
        BY <4>1 DEF Abort, Err
      <4> HIDE DEF kind, sum
      <4>2. [Err("unexpected", 1, kind) EXCEPT !.index = sum].code = "unexpected"
        BY DEF Err
      <4>3. QED
        BY <4>1, <4>2 DEF kind
    <3>4. QED
      BY <3>1, <3>2, <3>3
  <2>4. /\ h \in Seq(FrameRec) /\ f \in FrameRec /\ Len(g) \in Nat \ {0} /\ Len(g) \in 1 .. Len(g)
        /\ Len(h) = Len(g) - 1 /\ Len(g) = Len(fr)
        /\ f = g[Len(g)]
    BY <2>2, FrontIs DEF Same
  <2>5. m # 0 /\ k \in Nat
    BY <2>4 DEF FrameRec
  <2>6. h # <<>> /\ Refused(h, ents2)
    <3> HIDE DEF h, own2, ents2, m, k
    <3>1. QED
      BY <2>3, <2>4, <2>5, GiveSilent
  <2>7. /\ Len(h) \in 1 .. Len(h) /\ Last(h) = fr[Len(h)] /\ Len(h) \in 1 .. Len(fr)
        /\ Len(h) < Len(fr) /\ Len(fr) \in 1 .. Len(fr)
    <3>1. h # <<>> /\ h \in Seq(FrameRec)
      BY <2>4, <2>6
    <3> HIDE DEF h
    <3>2. Len(h) \in Nat \ {0} /\ Len(h) \in 1 .. Len(h) /\ Last(h) = h[Len(h)]
      BY <3>1, FrontIs
    <3>3. \A a \in 1 .. Len(fr) - 1 : h[a] = fr[a]
      BY <2>1, <2>2, FrontIs
    <3>4. Len(h) \in 1 .. Len(fr) - 1 /\ Len(h) \in 1 .. Len(fr) /\ Len(h) < Len(fr)
          /\ Len(fr) \in 1 .. Len(fr)
      BY <2>4, <3>2
    <3>5. QED
      BY <3>2, <3>3, <3>4
  <2>8. m = fr[Len(fr)].node
    BY <2>2, <2>4, <2>7 DEF Same
  <2>9. Last(h).node # m /\ Last(h).node \in DOMAIN entries
    <3>1. Last(h).node < m
      BY <2>7, <2>8 DEF Stack
    <3>2. Last(h).node \in Containers(fr)
      BY <2>7, ContainersIs
    <3>3. m \in Nat /\ Last(h).node \in Nat
      <4>1. fr[Len(fr)] \in FrameRec /\ fr[Len(h)] \in FrameRec
        BY <2>7, ElementOfSeq
      <4>2. QED
        BY <2>7, <2>8, <4>1 DEF FrameRec
    <3>4. QED
      BY <3>1, <3>2, <3>3
  <2>10. ents2[Last(h).node] = entries[Last(h).node]
    BY <2>9 DEF Noted
  <2>11. Refused(h, entries)
    <3> HIDE DEF h, ents2
    <3> QED
      BY <2>6, <2>10 DEF Refused
  <2>12. QED
    BY <2>2, <2>6, <2>11
<1>3. QED
  BY <1>1, <1>2

(* A read that fails and says that it did not has met a key twice          *)
(* (:342-347).                                                             *)
THEOREM OnlyAKeyIsSilent == Spec => SilentOnlyByKey
<1> DEFINE Twice == LET holders == {Front(frames)} \cup IF mode = "seek" THEN {} ELSE {frames}
                    IN  \E fr \in holders \ {<<>>} : Refused(fr, entries)
<1>1. ASSUME IInv, [Next]_vars
      PROVE  [mode # "done" /\ mode' = "done" /\ result' = 0 /\ error'.code = "none" => Twice]_vars
  <2> SUFFICES ASSUME Next, mode # "done", mode' = "done", result' = 0, error'.code = "none"
               PROVE  Twice
    BY <1>1
  <2>1. /\ Running /\ Reads(frames, parent, entries, stage) /\ frames \in Seq(FrameRec)
        /\ Stack(frames, parent) /\ Containers(frames) \subseteq DOMAIN entries
        /\ scan.j \in Nat /\ scan.n \in Nat /\ consumed \in Nat
        /\ Typed /\ scan \in ScanRec
    BY <1>1 DEF IInv, Running, Reads, Stack, Typed, ScanRec
  <2>2. ASSUME NEW fr, NEW code \in {"io", "unexpected", "max_depth"}, NEW index, NEW func,
               Fail(fr, code, index, func)
        PROVE  FALSE
    BY <2>2, FailIs
  <2>3. ASSUME NEW fr, NEW own, NEW ents, NEW st, Continue(fr, own, ents, st)
        PROVE  FALSE
    BY <2>3 DEF Continue
  <2>4. ASSUME NEW fr, NEW m \in {"string", "compare", "number"}, NEW s, Start(fr, m, s)
        PROVE  FALSE
    BY <2>4 DEF Start
  <2>5. Fresh # 0
    BY <2>1, FreshIs DEF Reads
  <2>6. ASSUME mode # "seek", NEW j \in Nat, Give(frames, With(Fresh), entries, Fresh, j)
        PROVE  Twice
    <3> DEFINE fr == frames
               own == With(Fresh)
               ents == entries
               v == Fresh
    <3>1. Give(fr, own, ents, v, j) /\ fr \in Seq(FrameRec) /\ v # 0
      BY <2>1, <2>5, <2>6
    <3> HIDE DEF fr, own, ents, v
    <3>2. fr # <<>> /\ Refused(fr, ents)
      BY <3>1, GiveSilent
    <3>3. frames \in ({Front(frames)} \cup IF mode = "seek" THEN {} ELSE {frames}) \ {<<>>}
      BY <2>6, <3>2 DEF fr
    <3>4. QED
      BY <3>2, <3>3 DEF fr, ents
  <2>7. CASE SeekBlank
    BY <2>7 DEF SeekBlank
  <2>8. CASE Compare
    <3> DEFINE io == "io"
               un == "unexpected"
               m == "compare"
    <3>1. io \in {"io", "unexpected", "max_depth"} /\ un \in {"io", "unexpected", "max_depth"}
          /\ m \in {"string", "compare", "number"}
      OBVIOUS
    <3>2. /\ mode = "compare"
          /\ \/ Fail(frames, io, scan.j, "read_and_compare")
             \/ Fail(frames, un, scan.j + 1, "read_and_compare")
             \/ Give(frames, With(Fresh), entries, Fresh, scan.j + 1)
             \/ Start(frames, m, [scan EXCEPT !.j = scan.j + 1, !.tail = @ - 1])
      BY <2>8 DEF Compare
    <3> HIDE DEF io, un, m
    <3>3. mode # "seek" /\ Give(frames, With(Fresh), entries, Fresh, scan.j + 1)
      BY <2>2, <2>4, <3>1, <3>2
    <3>4. scan.j + 1 \in Nat
      BY <2>1
    <3> QED
      BY <2>6, <3>3, <3>4
  <2>9. ASSUME NEW c \in Char \cup {End}, SeekFound(c)
        PROVE  Twice
    <3> DEFINE fr == Count(frames, scan.j + 1)
    <3>1. c # End
      <4>1. stage \in Stages
        BY <2>1 DEF Typed
      <4>2. QED
        BY <2>9, <4>1 DEF SeekFound, Expect, End, Closer, Stages
    <3>2. consumed' = consumed + 1 /\ lead' = lead /\ mode = "seek"
      BY <2>9, <3>1 DEF SeekFound, Read
    <3>3. /\ fr \in Seq(FrameRec) /\ Front(fr) = Front(frames) /\ (fr = <<>> <=> frames = <<>>)
          /\ Reads(fr, parent, entries, stage)
      BY <2>1, <3>2, FoundIs
    <3>4. frames # <<>> /\ Close(fr)
      <4>1. ~Value(fr, c)
        <5>1. ASSUME NEW kind, Enter(fr, kind)
              PROVE  FALSE
          BY <2>2, <2>3, <5>1 DEF Enter
        <5>2. ~StartString(fr)
          BY <2>2, <2>4 DEF StartString
        <5>3. ~Start(fr, "compare", [Scan EXCEPT !.tail = Letters[c]])
          BY <2>4
        <5>4. ~Start(fr, "number", [Scan EXCEPT !.n = 1, !.dig = (c = "digit")])
          BY DEF Start
        <5>5. ~Fail(fr, "io", 0, "read_number")
          BY <2>2
        <5>6. QED
          BY <5>1, <5>2, <5>3, <5>4, <5>5 DEF Value
      <4>2. ~StartString(fr)
        BY <2>2, <2>4 DEF StartString
      <4>3. QED
        BY <2>3, <2>9, <4>1, <4>2 DEF SeekFound
    <3> HIDE DEF fr
    <3>5. fr # <<>>
      BY <3>3, <3>4
    <3> DEFINE h == Front(fr)
               own == parent
               ents == entries
               v == Last(fr).node
               k == Last(fr).i
    <3>6. h \in Seq(FrameRec) /\ v # 0 /\ k \in Nat
      BY <3>3, <3>5, FrontIs DEF FrameRec
    <3>7. Give(h, own, ents, v, k)
      BY <3>4 DEF Close
    <3> HIDE DEF h, own, ents, v, k
    <3>8. h # <<>> /\ Refused(h, ents)
      BY <3>6, <3>7, GiveSilent
    <3>9. h = Front(frames)
      BY <3>3 DEF h
    <3>10. QED
      BY <3>8, <3>9 DEF ents
  <2>10. ASSUME NEW c \in Char \cup {End}, SeekFail(c)
         PROVE  Twice
    <3>1. Fail(frames, "io", scan.j, "seek_until") \/ Fail(frames, "unexpected", scan.j + 1, "seek_until")
      BY <2>10 DEF SeekFail
    <3>2. QED
      BY <2>2, <3>1
  <2>11. ASSUME NEW c \in Char \cup {End}, String(c)
         PROVE  Twice
    <3>1. /\ mode = "string"
          /\ \/ Fail(frames, "io", scan.j, "read_string")
             \/ Start(frames, "string", [scan EXCEPT !.j = scan.j + 1, !.esc = TRUE])
             \/ StringDone(scan.j + 1, FALSE)
             \/ Fail(frames, "unexpected", scan.j + 1, "read_string")
             \/ StringDone(scan.j + 1, TRUE)
             \/ Start(frames, "string", [scan EXCEPT !.j = scan.j + 1, !.n = @ + 1, !.esc = FALSE])
      BY <2>11 DEF String
    <3>2. \E full : StringDone(scan.j + 1, full)
      BY <2>2, <2>4, <3>1
    <3>3. Give(frames, With(Fresh), entries, Fresh, scan.j + 1)
      BY <2>3, <3>2 DEF StringDone
    <3>4. scan.j + 1 \in Nat /\ mode # "seek"
      BY <2>1, <3>1
    <3>5. QED
      BY <2>6, <3>3, <3>4
  <2>12. ASSUME NEW c \in Char \cup {End}, Number(c)
         PROVE  Twice
    <3> DEFINE t == [scan EXCEPT !.n = @ + 1, !.dec = @ \/ c = ".", !.dig = @ \/ c = "digit"]
    <3>1. /\ mode = "number"
          /\ \/ Fail(frames, "io", scan.n, "read_number")
             \/ Fail(frames, "unexpected", scan.n, "read_number")
             \/ c \in {"digit", "."} /\ NumberDone(t.n, t.dig, c)
             \/ Start(frames, "number", t)
             \/ NumberDone(scan.n, scan.dig, c)
      BY <2>12 DEF Number
    <3>2. \/ c \in {"digit", "."} /\ NumberDone(t.n, t.dig, c)
          \/ NumberDone(scan.n, scan.dig, c)
      <4>1. ~Start(frames, "number", t)
        BY DEF Start
      <4>2. QED
        BY <2>2, <3>1, <4>1
    <3>3. c \in {"digit", "."} => t.n \in Nat
      <4>1. c \in {"digit", "."} => t \in ScanRec
        BY <2>1, NumberStep
      <4>2. QED
        BY <4>1 DEF ScanRec
    <3> HIDE DEF t
    <3>4. PICK n \in Nat : \E dig : NumberDone(n, dig, c)
      BY <2>1, <3>2, <3>3
    <3>5. GiveNumber(frames, With(Fresh), Fresh, n, c)
      BY <2>2, <3>4 DEF NumberDone
    <3> DEFINE fr == frames
               own == With(Fresh)
               v == Fresh
    <3>6. /\ GiveNumber(fr, own, v, n, c) /\ fr \in Seq(FrameRec) /\ v # 0 /\ Stack(fr, parent)
          /\ Containers(fr) \subseteq DOMAIN entries
      BY <2>1, <2>5, <3>5
    <3> HIDE DEF fr, own, v
    <3>7. \/ fr # <<>> /\ Refused(fr, entries)
          \/ Front(fr) # <<>> /\ Refused(Front(fr), entries)
      BY <3>6, GiveNumberSilent
    <3>8. mode # "seek"
      BY <3>1
    <3>9. {frames, Front(frames)} \subseteq {Front(frames)} \cup IF mode = "seek" THEN {} ELSE {frames}
      BY <3>8
    <3>10. QED
      BY <3>7, <3>9 DEF fr
  <2>13. QED
    BY <2>7, <2>8, <2>9, <2>10, <2>11, <2>12 DEF Next, Done
<1>2. QED
  BY <1>1, Invariant, PTL DEF Spec, SilentOnlyByKey

=============================================================================

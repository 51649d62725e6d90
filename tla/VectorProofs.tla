---------------------------- MODULE VectorProofs ----------------------------
(***************************************************************************)
(* The vector keeps room for its values with every alloc_size, and only an *)
(* insert into a vector that exactly fills its block writes outside it.    *)
(*                                                                         *)
(* Capacity alone is not inductive: a block of no slots also has a whole   *)
(* number of steps, and an empty vector would fit in it and be written to  *)
(* by the next add.  The invariant adds that a vector has a slot, and that *)
(* no values are left when there is no vector.                             *)
(*                                                                         *)
(* From it follows that the vector is the list that the interface          *)
(* promises, operation by operation, until an insert has overrun it.       *)
(***************************************************************************)
EXTENDS Vector, FiniteSetTheorems, SequenceTheorems, TLAPS

IInv ==
  /\ TypeOK
  /\ Capacity
  /\ OverrunOnlyByInsert
  /\ Cursors
  /\ alive => cap >= 1
  /\ ~alive => len = 0

(* The element at position k of a list lies in slot k - 1 of the block.    *)
LEMMA Below == \A n, c \in Nat : \A k \in 1 .. n : n <= c => k - 1 \in 0 .. c - 1
OBVIOUS

USE VectorAssumption

CursorRecord ==
  [state : {"closed", "live", "dangling"}, cur : 0 .. MaxLen, end : 0 .. MaxLen]

(* The iterators keep their place; their block may have moved.             *)
Kept ==
  /\ it' \in [Iter -> CursorRecord]
  /\ \A x \in Iter : /\ it'[x].cur = it[x].cur
                     /\ it'[x].end = it[x].end
                     /\ it'[x].state = "closed" <=> it[x].state = "closed"

-----------------------------------------------------------------------------
(* An array, as the byte buffers of the code, is a sequence.               *)
LEMMA ArrayIsSeq ==
  ASSUME NEW S, NEW k \in Nat, NEW f \in [1 .. k -> S]
  PROVE  f \in Seq(S) /\ Len(f) = k
OBVIOUS

-----------------------------------------------------------------------------
(* A whole number of steps and another step are a whole number of steps    *)
(* (:31, :49, :77).                                                        *)
LEMMA Multiple ==
  ASSUME NEW a \in Nat \ {0}, NEW n \in Nat, NEW q \in Nat, n = q * a
  PROVE  n % a = 0
OBVIOUS

LEMMA AnotherStep ==
  ASSUME NEW a \in Nat \ {0}, NEW n \in Nat, n % a = 0
  PROVE  (n + a) % a = 0
<1>1. n = (n \div a) * a /\ n \div a \in Nat
  OBVIOUS
<1>2. \A q \in Nat : (q + 1) * a = q * a + a
  OBVIOUS
<1>3. (n \div a) + 1 \in Nat /\ n + a = ((n \div a) + 1) * a
  BY <1>1, <1>2
<1>4. n + a \in Nat
  OBVIOUS
<1>5. QED
  BY <1>3, <1>4, Multiple

(* An offset below the capacity is a slot.                                 *)
LEMMA Slot == \A j, c \in Nat : j < c => j \in 0 .. c - 1
OBVIOUS

LEMMA OneStep == \A a \in Nat \ {0} : a % a = 0 /\ 0 % a = 0
OBVIOUS

(* realloc leaves the iterators in their places.                           *)
LEMMA ReallocKeeps ==
  ASSUME IInv, NEW c \in Nat, Realloc(c)
  PROVE  cap' = c /\ Kept
<1>1. it \in [Iter -> CursorRecord] /\ Open \subseteq Iter
  BY DEF IInv, TypeOK, CursorRecord, Open
<1>2. CASE it' = it
  BY <1>1, <1>2 DEF Realloc, Kept
<1>3. CASE it' = [x \in Iter |-> IF x \in Open THEN [it[x] EXCEPT !.state = "dangling"]
                                 ELSE it[x]]
  <2>1. ASSUME NEW x \in Iter
        PROVE  /\ it'[x] \in CursorRecord
               /\ it'[x].cur = it[x].cur
               /\ it'[x].end = it[x].end
               /\ it'[x].state = "closed" <=> it[x].state = "closed"
    <3>1. CASE x \in Open
      BY <1>1, <1>3, <3>1 DEF CursorRecord, Open
    <3>2. CASE x \notin Open
      BY <1>1, <1>3, <3>2 DEF CursorRecord, Open
    <3>3. QED
      BY <3>1, <3>2
  <2>2. it' \in [Iter -> CursorRecord]
    BY <1>3, <2>1
  <2>3. QED
    BY <2>1, <2>2 DEF Realloc, Kept
<1>4. QED
  BY <1>2, <1>3 DEF Realloc

(* What growing and shrinking do to the capacity.                          *)
LEMMA GrowIs ==
  ASSUME IInv, alive, ~overrun, NEW n \in Nat, Grow(n)
  PROVE  /\ cap' \in Nat /\ cap' >= 1 /\ cap' % alloc = 0
         /\ n % alloc = 0 => cap' = n + alloc
         /\ n % alloc # 0 => cap' = cap
         /\ Kept
<1>1. alloc \in Nat \ {0} /\ cap \in Nat /\ cap >= 1 /\ cap % alloc = 0
  BY DEF IInv, TypeOK, Capacity
<1>2. CASE n % alloc = 0
  <2>1. Realloc(n + alloc) /\ n + alloc \in Nat
    BY <1>1, <1>2 DEF Grow
  <2>2. cap' = n + alloc /\ Kept
    BY <2>1, ReallocKeeps
  <2>3. (n + alloc) % alloc = 0
    BY <1>1, <1>2, AnotherStep
  <2>4. n + alloc >= 1
    BY <1>1
  <2>5. QED
    BY <1>2, <2>1, <2>2, <2>3, <2>4
<1>3. CASE n % alloc # 0
  <2>1. cap' = cap /\ it' = it
    BY <1>3 DEF Grow, KeepBlock
  <2>2. Kept
    BY <2>1 DEF IInv, TypeOK, Kept, CursorRecord
  <2>3. QED
    BY <1>1, <1>3, <2>1, <2>2
<1>4. QED
  BY <1>2, <1>3

(* After a change, an iterator with values to come counts as changed.      *)
LEMMA CursorsKept ==
  ASSUME IInv, Kept, changed' = changed \cup {x \in Open : it[x].cur # it[x].end}
  PROVE  Cursors' /\ changed' \subseteq Iter
BY DEF IInv, TypeOK, Cursors, Kept, Open

(* The types, part by part.                                                *)
LEMMA TypesKept ==
  ASSUME alive' \in BOOLEAN, alloc' \in Alloc, len' \in 0 .. MaxLen, cap' \in Nat,
         block' \in [0 .. cap' - 1 -> Value \cup {Junk}], overrun' \in BOOLEAN,
         it' \in [Iter -> CursorRecord], changed' \subseteq Iter,
         ret'.code \in Int, ret'.out \in Value \cup {NoValue}
  PROVE  TypeOK'
BY Zenon DEF TypeOK, CursorRecord

(* A call that only answers.                                               *)
LEMMA ReadPreserves ==
  ASSUME IInv, ~overrun, UNCHANGED <<vecVars, it, changed>>,
         ret'.code \in Int, ret'.out \in Value \cup {NoValue}
  PROVE  IInv'
BY DEF IInv, TypeOK, Capacity, OverrunOnlyByInsert, Cursors, Open, vecVars

LEMMA FailPreserves ==
  ASSUME IInv, ~overrun, NEW call, Fail(call)
  PROVE  IInv'
BY ReadPreserves DEF Fail, Answer

-----------------------------------------------------------------------------
(* add grows a full block first, so it never overruns it (:31-36).         *)
LEMMA AddPreserves ==
  ASSUME IInv, ~overrun, NEW o \in Value, Add(o)
  PROVE  IInv'
<1>1. /\ alive /\ len \in Nat /\ len < MaxLen /\ cap \in Nat /\ len <= cap
      /\ cap >= 1 /\ cap % alloc = 0 /\ alloc \in Nat \ {0} /\ MaxLen \in Nat
      /\ \A j \in 0 .. len - 1 : block[j] # Junk
      /\ block \in [0 .. cap - 1 -> Value \cup {Junk}]
  BY DEF Add, IInv, TypeOK, Capacity
<1>2. /\ cap' \in Nat /\ cap' >= 1 /\ cap' % alloc = 0 /\ len < cap' /\ Kept
  <2>1. CASE len # 0
    <3>1. Grow(len)
      BY <2>1 DEF Add
    <3>2. /\ cap' \in Nat /\ cap' >= 1 /\ cap' % alloc = 0
          /\ len % alloc = 0 => cap' = len + alloc
          /\ len % alloc # 0 => cap' = cap
          /\ Kept
      BY <1>1, <3>1, GrowIs
    <3>3. len < cap'
      BY <1>1, <3>2
    <3>4. QED
      BY <3>2, <3>3
  <2>2. CASE len = 0
    <3>1. cap' = cap /\ it' = it
      BY <2>2 DEF Add, KeepBlock
    <3>2. Kept
      BY <3>1 DEF IInv, TypeOK, Kept, CursorRecord
    <3>3. QED
      BY <1>1, <2>2, <3>1, <3>2
  <2>3. QED
    BY <2>1, <2>2
<1>3. /\ alive' = alive /\ alloc' = alloc /\ len' = len + 1
      /\ changed' = changed \cup {x \in Open : it[x].cur # it[x].end}
      /\ ret' = Answer(<<"add">>, len + 1, NoValue)
      /\ block' = [j \in 0 .. cap' - 1 |-> IF j = len THEN o
                                           ELSE IF j < cap THEN block[j] ELSE Junk]
  BY DEF Add, Changed
<1>4. ~overrun'
  <2>1. overrun' <=> len >= cap'
    BY DEF Add
  <2>2. ~(len >= cap')
    BY <1>1, <1>2
  <2>3. QED
    BY <2>1, <2>2, Zenon
<1>5. Cursors' /\ changed' \subseteq Iter
  BY <1>2, <1>3, CursorsKept
<1>6. block' \in [0 .. cap' - 1 -> Value \cup {Junk}]
  <2>1. ASSUME NEW j \in 0 .. cap' - 1
        PROVE  block'[j] \in Value \cup {Junk}
    <3>1. j < cap => j \in 0 .. cap - 1
      BY <1>1, <1>2
    <3>2. QED
      BY <1>1, <1>3, <3>1
  <2>2. QED
    BY <1>3, <2>1
<1>7. ASSUME NEW j \in 0 .. len' - 1
      PROVE  block'[j] # Junk
  <2>1. len' = len + 1 /\ len \in Nat /\ cap' \in Nat /\ len < cap'
    BY <1>1, <1>2, <1>3
  <2>2. len' - 1 = len
    BY <2>1
  <2>3. j \in 0 .. len
    BY <2>2
  <2>4. j \in Nat /\ j < cap'
    BY <2>1, <2>3
  <2>5. j \in 0 .. cap' - 1 /\ j \in 0 .. len
    BY <2>1, <2>3, <2>4, Slot
  <2>6. CASE j = len
    BY <1>3, <2>5, <2>6
  <2>7. CASE j # len
    <3>1. j \in 0 .. len - 1 /\ j < cap
      BY <1>1, <2>5, <2>7
    <3>2. block'[j] = block[j]
      BY <1>3, <2>5, <2>7, <3>1
    <3>3. QED
      BY <1>1, <3>1, <3>2
  <2>8. QED
    BY <2>6, <2>7
<1>8. TypeOK'
  <2>1. alive' \in BOOLEAN /\ alloc' \in Alloc
    BY <1>3 DEF IInv, TypeOK
  <2>2. overrun' \in BOOLEAN
    BY DEF Add
  <2>3. len' \in 0 .. MaxLen /\ ret'.code \in Int /\ ret'.out \in Value \cup {NoValue}
    BY <1>1, <1>3 DEF Answer
  <2>4. QED
    BY <1>2, <1>5, <1>6, <2>1, <2>2, <2>3, TypesKept DEF Kept
<1>9. Capacity'
  <2>1. len' = len + 1 /\ len \in Nat /\ cap' \in Nat /\ len < cap'
    BY <1>1, <1>2, <1>3
  <2>2. len' <= cap'
    BY <2>1
  <2>3. cap' % alloc' = 0
    BY <1>2, <1>3
  <2>4. QED
    BY <1>7, <2>2, <2>3 DEF Capacity
<1>10. alive'
  BY <1>3 DEF Add
<1>11. QED
  BY <1>2, <1>4, <1>5, <1>8, <1>9, <1>10 DEF IInv, OverrunOnlyByInsert

(* insert overruns the block only when it was exactly full and one more    *)
(* value is not a whole number of steps (:46-58).                          *)
LEMMA InsertPreserves ==
  ASSUME IInv, ~overrun, NEW i \in Nat, NEW o \in Value, Insert(i, o)
  PROVE  IInv'
<1>1. CASE i > len
  BY <1>1, FailPreserves DEF Insert
<1>2. CASE ~ (i > len)
  <2>1. alive /\ len < MaxLen
    BY <1>2 DEF Insert
  <2>2. /\ len \in Nat /\ len < MaxLen /\ cap \in Nat /\ len <= cap
        /\ cap >= 1 /\ cap % alloc = 0 /\ alloc \in Nat \ {0} /\ MaxLen \in Nat
        /\ \A j \in 0 .. len - 1 : block[j] # Junk
        /\ block \in [0 .. cap - 1 -> Value \cup {Junk}]
    BY <2>1 DEF IInv, TypeOK, Capacity
  <2>3. i <= len
    BY <1>2, <2>2
  <2>4. Grow(len + 1) /\ len + 1 \in Nat
    BY <1>2, <2>2 DEF Insert
  <2>5. /\ cap' \in Nat /\ cap' >= 1 /\ cap' % alloc = 0
        /\ (len + 1) % alloc = 0 => cap' = (len + 1) + alloc
        /\ (len + 1) % alloc # 0 => cap' = cap
        /\ Kept
    BY <2>1, <2>2, <2>4, GrowIs
  <2>6. /\ alive' = alive /\ alloc' = alloc /\ len' = len + 1
        /\ overrun' <=> len >= cap'
        /\ changed' = changed \cup {x \in Open : it[x].cur # it[x].end}
        /\ ret' = Answer(<<"insert", i>>, 0, NoValue)
        /\ block' = [j \in 0 .. cap' - 1 |->
                       IF j = i THEN o
                       ELSE IF i < j /\ j <= len THEN block[j - 1]
                       ELSE IF j < cap THEN block[j] ELSE Junk]
    BY <1>2 DEF Insert, Changed
  <2>7. Cursors' /\ changed' \subseteq Iter
    BY <2>5, <2>6, CursorsKept
  <2>8. block' \in [0 .. cap' - 1 -> Value \cup {Junk}]
    <3>1. ASSUME NEW j \in 0 .. cap' - 1
          PROVE  block'[j] \in Value \cup {Junk}
      <4>1. i < j /\ j <= len => j - 1 \in 0 .. cap - 1
        BY <2>2, <2>5
      <4>2. j < cap => j \in 0 .. cap - 1
        BY <2>2, <2>5
      <4>3. QED
        BY <2>2, <2>6, <4>1, <4>2
    <3>2. QED
      BY <2>6, <3>1
  <2>9. ASSUME ~overrun'
        PROVE  \A j \in 0 .. len' - 1 : block'[j] # Junk
    <3>1. ~(len >= cap')
      BY <2>6, <2>9, Zenon
    <3>2. len < cap'
      BY <2>2, <2>5, <3>1
    <3>3. ASSUME NEW j \in 0 .. len
          PROVE  block'[j] # Junk
      <4>1. len \in Nat /\ cap \in Nat /\ cap' \in Nat /\ len < cap' /\ len <= cap
        BY <2>2, <2>5, <3>2
      <4>2. j \in Nat /\ j < cap'
        BY <4>1
      <4>3. j \in 0 .. cap' - 1
        BY <4>1, <4>2, Slot
      <4>4. CASE j = i
        BY <2>6, <4>3, <4>4
      <4>5. CASE i < j
        <5>1. j - 1 \in 0 .. len - 1
          BY <2>3, <2>2, <4>5
        <5>2. block'[j] = block[j - 1]
          BY <2>2, <2>6, <4>3, <4>5
        <5>3. QED
          BY <2>2, <5>1, <5>2
      <4>6. CASE j < i
        <5>1. j \in 0 .. len - 1 /\ j < cap
          BY <2>3, <4>1, <4>6
        <5>2. block'[j] = block[j]
          BY <2>2, <2>6, <4>3, <4>6, <5>1
        <5>3. QED
          BY <2>2, <5>1, <5>2
      <4>7. QED
        BY <4>4, <4>5, <4>6
    <3>4. QED
      BY <2>2, <2>6, <3>3
  <2>10. TypeOK'
    <3>1. alive' \in BOOLEAN /\ alloc' \in Alloc
      BY <2>6 DEF IInv, TypeOK
    <3>2. overrun' \in BOOLEAN
      BY <1>2 DEF Insert
    <3>3. len' \in 0 .. MaxLen /\ ret'.code \in Int /\ ret'.out \in Value \cup {NoValue}
      BY <2>2, <2>6 DEF Answer
    <3>4. QED
      BY <2>5, <2>7, <2>8, <3>1, <3>2, <3>3, TypesKept DEF Kept
  <2>11. Capacity'
    <3>1. cap' % alloc' = 0
      BY <2>5, <2>6
    <3>2. ASSUME ~overrun'
          PROVE  len' <= cap'
      <4>1. ~(len >= cap')
        BY <2>6, <3>2, Zenon
      <4>2. QED
        BY <2>2, <2>5, <2>6, <4>1
    <3>3. QED
      BY <2>9, <3>1, <3>2, Zenon DEF Capacity
  <2>12. OverrunOnlyByInsert'
    <3>1. ASSUME overrun'
          PROVE  cap' = cap /\ len = cap /\ alloc > 1
      <4>1. len >= cap'
        BY <2>6, <3>1, Zenon
      <4>2. (len + 1) % alloc # 0
        BY <2>2, <2>5, <4>1
      <4>3. alloc # 1
        <5>1. (len + 1) % 1 = 0
          BY <2>4
        <5>2. QED
          BY <4>2, <5>1
      <4>4. cap' = cap
        BY <2>5, <4>2
      <4>5. QED
        BY <2>2, <4>1, <4>3, <4>4
    <3>2. ret'.call[1] = "insert"
      BY <2>6 DEF Answer
    <3>3. ASSUME overrun'
          PROVE  alloc' > 1 /\ len' = cap' + 1 /\ cap' % alloc' = 0
      BY <2>2, <2>5, <2>6, <3>1, <3>3
    <3>4. QED
      BY <3>2, <3>3, Zenon DEF OverrunOnlyByInsert
  <2>13. alive'
    BY <2>1, <2>6
  <2>14. QED
    BY <2>5, <2>7, <2>10, <2>11, <2>12, <2>13 DEF IInv
<1>3. QED
  BY <1>1, <1>2

(* remove and pop shrink the block, never below what the rest needs.       *)
LEMMA RemovePreserves ==
  ASSUME IInv, ~overrun, NEW i \in Nat, NEW call, RemoveAt(call, i)
  PROVE  IInv'
<1>1. CASE i >= len
  BY <1>1, FailPreserves DEF RemoveAt
<1>2. CASE ~ (i >= len)
  <2>1. alive
    BY DEF RemoveAt
  <2>2. /\ len \in Nat /\ cap \in Nat /\ len <= cap /\ len <= MaxLen
        /\ cap >= 1 /\ cap % alloc = 0 /\ alloc \in Nat \ {0} /\ MaxLen \in Nat
        /\ \A j \in 0 .. len - 1 : block[j] # Junk
        /\ block \in [0 .. cap - 1 -> Value \cup {Junk}]
        /\ i < len
    BY <1>2, <2>1 DEF IInv, TypeOK, Capacity
  <2>3. Grow(len - 1) /\ len - 1 \in Nat
    BY <1>2, <2>2 DEF RemoveAt
  <2>4. /\ cap' \in Nat /\ cap' >= 1 /\ cap' % alloc = 0
        /\ (len - 1) % alloc = 0 => cap' = (len - 1) + alloc
        /\ (len - 1) % alloc # 0 => cap' = cap
        /\ Kept
    BY <2>1, <2>2, <2>3, GrowIs
  <2>5. /\ alive' = alive /\ alloc' = alloc /\ len' = len - 1 /\ overrun' = overrun
        /\ changed' = changed \cup {x \in Open : it[x].cur # it[x].end}
        /\ ret' = Answer(call, 0, block[i])
        /\ block' = [j \in 0 .. cap' - 1 |->
                       IF j >= cap THEN Junk
                       ELSE IF i <= j /\ j + 1 < len THEN block[j + 1] ELSE block[j]]
    BY <1>2 DEF RemoveAt, Changed
  <2>6. Cursors' /\ changed' \subseteq Iter
    BY <2>4, <2>5, CursorsKept
  <2>7. block' \in [0 .. cap' - 1 -> Value \cup {Junk}]
    <3>1. ASSUME NEW j \in 0 .. cap' - 1
          PROVE  block'[j] \in Value \cup {Junk}
      <4>1. ~ (j >= cap) => j \in 0 .. cap - 1
        BY <2>2, <2>4
      <4>2. j + 1 < len => j + 1 \in 0 .. cap - 1
        BY <2>2, <2>4
      <4>3. QED
        BY <2>2, <2>5, <4>1, <4>2
    <3>2. QED
      BY <2>5, <3>1
  <2>8. len' <= cap'
    BY <2>2, <2>4, <2>5
  <2>9. ASSUME NEW j \in 0 .. len' - 1
        PROVE  block'[j] # Junk
    <3>1. j \in 0 .. len - 2
      BY <2>2, <2>5
    <3>2. /\ len \in Nat /\ cap \in Nat /\ cap' \in Nat /\ len <= cap
          /\ len - 1 <= cap'
      BY <2>2, <2>4, <2>5, <2>8
    <3>3. /\ j \in Nat /\ j < cap' /\ ~ (j >= cap)
          /\ j \in 0 .. len - 1 /\ j + 1 \in 0 .. len - 1
      BY <3>2, <3>1
    <3>4. j \in 0 .. cap' - 1
      BY <3>2, <3>3, Slot
    <3>5. block'[j] \in {block[j], block[j + 1]}
      BY <2>5, <3>4, <3>3
    <3>6. QED
      BY <2>2, <3>3, <3>5
  <2>10. block[i] \in Value
    <3>1. i \in 0 .. len - 1 /\ i \in 0 .. cap - 1
      BY <2>2
    <3>2. QED
      BY <2>2, <3>1
  <2>11. TypeOK'
    <3>1. alive' \in BOOLEAN /\ alloc' \in Alloc /\ overrun' \in BOOLEAN
      BY <2>5 DEF IInv, TypeOK
    <3>2. len' \in 0 .. MaxLen /\ ret'.code \in Int /\ ret'.out \in Value \cup {NoValue}
      BY <2>2, <2>5, <2>10 DEF Answer
    <3>3. QED
      BY <2>4, <2>6, <2>7, <3>1, <3>2, TypesKept DEF Kept
  <2>12. Capacity' /\ OverrunOnlyByInsert'
    <3>1. cap' % alloc' = 0 /\ ~overrun'
      BY <2>4, <2>5
    <3>2. QED
      BY <2>8, <2>9, <3>1 DEF Capacity, OverrunOnlyByInsert
  <2>13. alive'
    BY <2>1, <2>5
  <2>14. QED
    BY <2>4, <2>6, <2>11, <2>12, <2>13 DEF IInv
<1>3. QED
  BY <1>1, <1>2

-----------------------------------------------------------------------------
LEMMA InitInv == Init => IInv
<1> SUFFICES ASSUME Init
             PROVE  IInv
  OBVIOUS
<1>1. alloc \in Nat \ {0} /\ alloc % alloc = 0
  BY OneStep DEF Init
<1>2. TypeOK
  <2>1. it \in [Iter -> CursorRecord]
    BY DEF Init, CursorRecord, Closed, Cursor
  <2>2. block \in [0 .. cap - 1 -> Value \cup {Junk}]
    BY <1>1 DEF Init
  <2>3. ret.code \in Int /\ ret.out \in Value \cup {NoValue}
    BY DEF Init, Answer
  <2>4. alive \in BOOLEAN /\ overrun \in BOOLEAN /\ changed \subseteq Iter /\ alloc \in Alloc
    BY DEF Init
  <2>5. len \in 0 .. MaxLen /\ cap \in Nat
    BY <1>1 DEF Init
  <2>6. QED
    BY <2>1, <2>2, <2>3, <2>4, <2>5, Zenon DEF TypeOK, CursorRecord
<1>3. Capacity /\ OverrunOnlyByInsert /\ Cursors
  BY <1>1 DEF Init, Capacity, OverrunOnlyByInsert, Cursors, Open, Closed, Cursor
<1>4. QED
  BY <1>1, <1>2, <1>3 DEF Init, IInv

LEMMA FreePreserves ==
  ASSUME IInv, ~overrun, Free
  PROVE  IInv'
<1>1. Realloc(0)
  BY DEF Free, Realloc
<1>2. cap' = 0 /\ Kept
  BY <1>1, ReallocKeeps
<1>3. /\ alive' = FALSE /\ len' = 0 /\ block' = [j \in {} |-> Junk]
      /\ changed' = changed \cup {x \in Open : it[x].cur # it[x].end}
      /\ ret' = Answer(<<"free">>, 0, NoValue)
      /\ alloc' = alloc /\ overrun' = overrun
  BY DEF Free
<1>4. Cursors' /\ changed' \subseteq Iter
  BY <1>2, <1>3, CursorsKept
<1>5. block' \in [0 .. cap' - 1 -> Value \cup {Junk}]
  BY <1>2, <1>3
<1>6. TypeOK'
  <2>1. alive' \in BOOLEAN /\ alloc' \in Alloc /\ overrun' \in BOOLEAN
    BY <1>3 DEF IInv, TypeOK
  <2>2. len' \in 0 .. MaxLen /\ cap' \in Nat
    BY <1>2, <1>3
  <2>3. ret'.code \in Int /\ ret'.out \in Value \cup {NoValue}
    BY <1>3 DEF Answer
  <2>4. QED
    BY <1>2, <1>4, <1>5, <2>1, <2>2, <2>3, TypesKept DEF Kept
<1>7. QED
  BY <1>2, <1>3, <1>4, <1>6 DEF IInv, Capacity, OverrunOnlyByInsert

LEMMA NewPreserves ==
  ASSUME IInv, ~overrun, New
  PROVE  IInv'
<1>1. alloc' \in Nat \ {0} /\ alloc' % alloc' = 0
  BY OneStep DEF New
<1>2. TypeOK'
  <2>1. /\ alive' \in BOOLEAN /\ overrun' \in BOOLEAN /\ alloc' \in Alloc
        /\ changed' \subseteq Iter
    BY DEF New, IInv, TypeOK
  <2>2. len' \in 0 .. MaxLen /\ cap' \in Nat
    BY <1>1 DEF New
  <2>3. block' \in [0 .. cap' - 1 -> Value \cup {Junk}]
    BY <1>1 DEF New
  <2>4. it' \in [Iter -> CursorRecord]
    BY DEF New, IInv, TypeOK, CursorRecord
  <2>5. ret'.code \in Int /\ ret'.out \in Value \cup {NoValue}
    BY DEF New, Answer
  <2>6. QED
    BY <2>1, <2>2, <2>3, <2>4, <2>5, TypesKept
<1>3. Cursors'
  BY DEF New, IInv, TypeOK, Cursors, Open
<1>4. alive' /\ ~overrun' /\ len' = 0 /\ cap' = alloc'
  BY DEF New
<1>5. \A j \in 0 .. len' - 1 : FALSE
  <2>1. 0 .. 0 - 1 = {}
    OBVIOUS
  <2>2. QED
    BY <1>4, <2>1
<1>6. cap' >= 1 /\ len' <= cap'
  BY <1>1, <1>4
<1>7. cap' % alloc' = 0
  BY <1>1, <1>4
<1>8. QED
  BY <1>2, <1>3, <1>4, <1>5, <1>6, <1>7 DEF IInv, Capacity, OverrunOnlyByInsert

(* The calls on iterators leave the vector alone.                          *)
LEMMA IterPreserves ==
  ASSUME IInv, ~overrun, UNCHANGED vecVars, TypeOK', Cursors'
  PROVE  IInv'
BY DEF IInv, Capacity, OverrunOnlyByInsert, vecVars

(* Every call keeps the invariant.                                         *)
LEMMA NextInv == IInv /\ [Next]_vars => IInv'
<1> SUFFICES ASSUME IInv, [Next]_vars
             PROVE  IInv'
  OBVIOUS
<1>1. CASE UNCHANGED vars
  BY <1>1 DEF vars, IInv, TypeOK, Capacity, OverrunOnlyByInsert, Cursors, Open
<1> SUFFICES ASSUME Next
             PROVE  IInv'
  BY <1>1
<1>2. ~overrun
  BY DEF Next
<1>3. CASE Size
  BY <1>2, <1>3, ReadPreserves DEF Size, Answer, IInv, TypeOK
<1>4. CASE Pop
  BY <1>2, <1>4, RemovePreserves DEF Pop
<1>5. CASE Free
  BY <1>2, <1>5, FreePreserves
<1>6. CASE New
  BY <1>2, <1>6, NewPreserves
<1>7. ASSUME NEW o \in Value, Add(o)
      PROVE  IInv'
  BY <1>2, <1>7, AddPreserves
<1>8. ASSUME NEW i \in Index, Get(i)
      PROVE  IInv'
  <2>1. CASE i >= len
    BY <1>2, <1>8, <2>1, FailPreserves DEF Get
  <2>2. CASE ~ (i >= len)
    <3>1. i \in 0 .. len - 1 /\ i \in 0 .. cap - 1 /\ block[i] # Junk
      BY <1>2, <1>8, <2>2 DEF Get, Index, IInv, TypeOK, Capacity
    <3>2. block[i] \in Value
      BY <3>1 DEF IInv, TypeOK
    <3>3. QED
      BY <1>2, <1>8, <2>2, <3>2, ReadPreserves DEF Get, Answer
  <2>3. QED
    BY <2>1, <2>2
<1>9. ASSUME NEW i \in Index, Remove(i)
      PROVE  IInv'
  BY <1>2, <1>9, RemovePreserves DEF Remove, Index
<1>10. ASSUME NEW i \in Index, NEW o \in Value, Insert(i, o)
      PROVE  IInv'
  BY <1>2, <1>10, InsertPreserves DEF Index
<1>11. ASSUME NEW x \in Iter, IterOpen(x)
       PROVE  IInv'
  <2>1. /\ it' = [it EXCEPT ![x] = [state |-> "live", cur |-> 0, end |-> len]]
        /\ UNCHANGED <<vecVars, changed>> /\ ret' = Answer(<<"iterator", x>>, 0, NoValue)
    BY <1>11 DEF IterOpen, Cursor
  <2>2. TypeOK'
    BY <2>1 DEF IInv, TypeOK, vecVars, Answer
  <2>3. Cursors'
    BY <1>11, <2>1 DEF IterOpen, IInv, TypeOK, Cursors, Open, vecVars
  <2>4. QED
    BY <1>2, <2>1, <2>2, <2>3, IterPreserves
<1>12. ASSUME NEW x \in Iter, IterNext(x)
       PROVE  IInv'
  <2>1. CASE it[x].cur = it[x].end
    BY <1>2, <1>12, <2>1, FailPreserves DEF IterNext
  <2>2. CASE it[x].cur # it[x].end
    <3>1. PICK o \in Value : ret' = Answer(<<"next", x>>, 0, o)
      BY <1>12, <2>2 DEF IterNext
    <3>2. /\ it' = [it EXCEPT ![x].cur = it[x].cur + 1]
          /\ UNCHANGED <<vecVars, changed>>
      BY <1>12, <2>2 DEF IterNext
    <3>3. it[x].cur + 1 \in 0 .. MaxLen /\ it[x].cur + 1 <= it[x].end
      BY <2>2 DEF IInv, TypeOK, Cursors
    <3>4. TypeOK'
      <4>1. it[x] \in CursorRecord /\ it \in [Iter -> CursorRecord]
        BY DEF IInv, TypeOK, CursorRecord
      <4>2. it' \in [Iter -> CursorRecord]
        BY <3>2, <3>3, <4>1 DEF CursorRecord
      <4>3. ret'.code \in Int /\ ret'.out \in Value \cup {NoValue}
        BY <3>1 DEF Answer
      <4>4. QED
        BY <3>2, <4>2, <4>3, TypesKept DEF IInv, TypeOK, vecVars
    <3>5. Cursors'
      BY <2>2, <3>2, <3>3 DEF IInv, TypeOK, Cursors, Open, vecVars
    <3>6. QED
      BY <1>2, <3>2, <3>4, <3>5, IterPreserves
  <2>3. QED
    BY <2>1, <2>2
<1>13. ASSUME NEW x \in Iter, IterNextPair(x)
       PROVE  IInv'
  BY <1>2, <1>13, FailPreserves DEF IterNextPair
<1>14. ASSUME NEW x \in Iter, IterHasNext(x)
       PROVE  IInv'
  BY <1>2, <1>14, ReadPreserves DEF IterHasNext, Answer
<1>15. ASSUME NEW x \in Iter, IterClose(x)
       PROVE  IInv'
  <2>1. /\ it' = [it EXCEPT ![x] = [state |-> "closed", cur |-> 0, end |-> 0]]
        /\ UNCHANGED vecVars /\ changed' = changed \ {x}
        /\ ret' = Answer(<<"close", x>>, 0, NoValue)
    BY <1>15 DEF IterClose, Closed, Cursor
  <2>2. TypeOK'
    BY <2>1 DEF IInv, TypeOK, vecVars, Answer
  <2>3. Cursors'
    BY <2>1 DEF IInv, TypeOK, Cursors, Open, vecVars
  <2>4. QED
    BY <1>2, <2>1, <2>2, <2>3, IterPreserves
<1>16. QED
  BY <1>3, <1>4, <1>5, <1>6, <1>7, <1>8, <1>9, <1>10, <1>11, <1>12, <1>13, <1>14,
     <1>15 DEF Next

(* Whatever calls are made, the block has a whole number of steps and room *)
(* for every value until an insert has overrun it.                         *)
THEOREM AlwaysRoom == Spec => [](TypeOK /\ Capacity)
<1>1. IInv => TypeOK /\ Capacity
  BY DEF IInv
<1>2. QED
  BY <1>1, InitInv, NextInv, PTL DEF Spec

(* Only an insert into an exactly full block writes outside it, with every *)
(* alloc_size above one; with an alloc_size of one no call does.           *)
THEOREM OnlyInsertOverruns == Spec => []OverrunOnlyByInsert
<1>1. IInv => OverrunOnlyByInsert
  BY DEF IInv
<1>2. QED
  BY <1>1, InitInv, NextInv, PTL DEF Spec

(* An iterator never passes the end it was opened with.                    *)
THEOREM CursorsInBounds == Spec => []Cursors
<1>1. IInv => Cursors
  BY DEF IInv
<1>2. QED
  BY <1>1, InitInv, NextInv, PTL DEF Spec

-----------------------------------------------------------------------------
(* The vector as its caller sees it.  The values in the block are the list *)
(* and the offsets of the iterators are positions in it.                   *)
Elem == Value \cup {Junk}

LEMMA BarIs ==
  ASSUME NEW S, NEW n \in Nat, NEW c \in Nat, n <= c, NEW b \in [0 .. c - 1 -> S]
  PROVE  /\ [k \in 1 .. n |-> b[k - 1]] \in Seq(S) /\ Len([k \in 1 .. n |-> b[k - 1]]) = n
         /\ \A k \in 1 .. n : [j \in 1 .. n |-> b[j - 1]][k] = b[k - 1]
<1> DEFINE f == [k \in 1 .. n |-> b[k - 1]]
<1>1. \A k \in 1 .. n : k - 1 \in 0 .. c - 1
  OBVIOUS
<1>2. f \in [1 .. n -> S] /\ \A k \in 1 .. n : f[k] = b[k - 1]
  BY <1>1
<1> HIDE DEF f
<1>3. f \in Seq(S) /\ Len(f) = n
  BY <1>2, ArrayIsSeq
<1>4. QED
  BY <1>2, <1>3 DEF f

LEMMA ListIs ==
  ASSUME IInv, ~overrun
  PROVE  /\ listBar \in Seq(Elem) /\ Len(listBar) = len /\ len \in Nat
         /\ \A k \in 1 .. len : listBar[k] = block[k - 1]
<1>1. /\ len \in Nat /\ cap \in Nat /\ len <= cap
      /\ block \in [0 .. cap - 1 -> Elem]
  BY DEF IInv, TypeOK, Capacity, Elem
<1>2. QED
  BY <1>1, BarIs DEF listBar

LEMMA ListIsNext ==
  ASSUME IInv', ~overrun'
  PROVE  /\ listBar' \in Seq(Elem) /\ Len(listBar') = len' /\ len' \in Nat
         /\ \A k \in 1 .. len' : listBar'[k] = block'[k - 1]
<1>1. TypeOK' /\ Capacity' /\ (~alive' => len' = 0)
  BY DEF IInv
<1>2. len' \in Nat /\ cap' \in Nat /\ block' \in [0 .. cap' - 1 -> Elem]
  <2>1. len' \in 0 .. MaxLen /\ cap' \in Nat
    BY <1>1 DEF TypeOK
  <2>2. block' \in [0 .. cap' - 1 -> Elem]
    BY <1>1 DEF TypeOK, Elem
  <2>3. len' \in Nat
    BY <2>1
  <2>4. QED
    BY <2>1, <2>2, <2>3
<1>3. len' <= cap'
  <2>1. CASE alive'
    BY <1>1, <2>1 DEF Capacity
  <2>2. CASE ~alive'
    BY <1>1, <1>2, <2>2
  <2>3. QED
    BY <2>1, <2>2
<1>4. listBar' = [k \in 1 .. len' |-> block'[k - 1]]
  BY DEF listBar
<1> DEFINE n == len'
           c == cap'
           b == block'
<1>5. n \in Nat /\ c \in Nat /\ n <= c /\ b \in [0 .. c - 1 -> Elem]
  BY <1>2, <1>3
<1> HIDE DEF n, c, b
<1>6. /\ [k \in 1 .. n |-> b[k - 1]] \in Seq(Elem) /\ Len([k \in 1 .. n |-> b[k - 1]]) = n
      /\ \A k \in 1 .. n : [j \in 1 .. n |-> b[j - 1]][k] = b[k - 1]
  BY <1>5, BarIs
<1>7. QED
  BY <1>4, <1>5, <1>6 DEF n, c, b

(* A change strikes the iterators that had values to come. *)
LEMMA Struck ==
  ASSUME IInv, Kept, changed' = changed \cup {x \in Open : it[x].cur # it[x].end}
  PROVE  posBar' = L!Disturbed
<1>1. ASSUME NEW x \in Iter
      PROVE  posBar'[x] = L!Disturbed[x]
  <2>1. /\ it'[x].cur = it[x].cur /\ it'[x].end = it[x].end
        /\ (x \in Open' <=> x \in Open) /\ it[x].cur \in Nat
    BY DEF Kept, Open, IInv, TypeOK
  <2>2. x \in changed' <=> x \in changed \/ (x \in Open /\ it[x].cur # it[x].end)
    OBVIOUS
  <2>3. QED
    BY <2>1, <2>2 DEF posBar, L!Disturbed, L!Invalid
<1>2. QED
  BY <1>1 DEF posBar, L!Disturbed

LEMMA PosStays ==
  ASSUME UNCHANGED <<it, changed>>
  PROVE  posBar' = posBar
BY DEF posBar, Open

LEMMA BarsStay ==
  ASSUME UNCHANGED <<vecVars, it, changed>>
  PROVE  UNCHANGED <<alive, listBar, posBar>>
BY PosStays DEF listBar, vecVars

LEMMA FailIsFail ==
  ASSUME NEW call, Fail(call)
  PROVE  L!Fail(call)
<1>1. UNCHANGED <<alive, listBar, posBar>>
  BY BarsStay DEF Fail
<1>2. QED
  BY <1>1 DEF Fail, L!Fail, Answer, L!Answer

(* add (:29-38). *)
LEMMA AddIsAdd ==
  ASSUME IInv, IInv', ~overrun, ~overrun', NEW o \in Value, Add(o)
  PROVE  L!Add(o)
<1>1. /\ listBar \in Seq(Elem) /\ Len(listBar) = len /\ len \in Nat
      /\ \A k \in 1 .. len : listBar[k] = block[k - 1]
  BY ListIs
<1>2. /\ listBar' \in Seq(Elem) /\ Len(listBar') = len'
      /\ \A k \in 1 .. len' : listBar'[k] = block'[k - 1]
  BY ListIsNext
<1>3. /\ alive /\ alive' = alive /\ len' = len + 1 /\ cap' \in Nat /\ len' <= cap'
      /\ cap \in Nat /\ len <= cap
      /\ changed' = changed \cup {x \in Open : it[x].cur # it[x].end}
      /\ block' = [j \in 0 .. cap' - 1 |-> IF j = len THEN o
                                           ELSE IF j < cap THEN block[j] ELSE Junk]
      /\ ret' = Answer(<<"add">>, len + 1, NoValue)
  BY DEF Add, Changed, IInv, TypeOK, Capacity
<1>4. Kept
  <2>1. CASE len # 0
    BY <1>1, <1>3, <2>1, GrowIs DEF Add
  <2>2. CASE len = 0
    <3>1. it' = it
      BY <2>2 DEF Add, KeepBlock
    <3>2. QED
      BY <3>1 DEF IInv, TypeOK, Kept, CursorRecord
  <2>3. QED
    BY <2>1, <2>2
<1>5. posBar' = L!Disturbed
  BY <1>3, <1>4, Struck
<1>6. o \in Elem
  BY DEF Elem
<1> HIDE DEF listBar
<1>7. listBar' = Append(listBar, o)
  <2>1. /\ Append(listBar, o) \in Seq(Elem) /\ Len(Append(listBar, o)) = len + 1
        /\ \A k \in 1 .. len : Append(listBar, o)[k] = listBar[k]
        /\ Append(listBar, o)[len + 1] = o
    BY <1>1, <1>6, AppendProperties
  <2>2. ASSUME NEW k \in 1 .. len + 1
        PROVE  listBar'[k] = Append(listBar, o)[k]
    <3>0. k \in 1 .. len'
      BY <1>3
    <3>a. listBar'[k] = block'[k - 1]
      BY <1>2, <3>0
    <3>b. k - 1 \in 0 .. cap' - 1
      <4>1. len + 1 \in Nat /\ cap' \in Nat /\ len + 1 <= cap' /\ k \in 1 .. len + 1
        BY <1>1, <1>3
      <4>2. QED
        BY <4>1, Below
    <3>1. listBar'[k] = block'[k - 1] /\ k - 1 \in 0 .. cap' - 1
      BY <3>a, <3>b
    <3>2. CASE k = len + 1
      <4>1. k - 1 = len
        BY <1>1, <3>2
      <4>2. QED
        BY <1>3, <2>1, <3>1, <3>2, <4>1
    <3>3. CASE k # len + 1
      <4>1. k \in 1 .. len /\ k - 1 # len /\ k - 1 < cap
        BY <1>1, <1>3, <3>3
      <4>2. block'[k - 1] = block[k - 1]
        BY <1>3, <3>1, <4>1
      <4>3. QED
        BY <1>1, <2>1, <3>1, <4>1, <4>2
    <3>4. QED
      BY <3>2, <3>3
  <2>3. QED
    BY <1>2, <1>3, <2>1, <2>2, SeqEqual
<1>8. QED
  BY <1>1, <1>3, <1>5, <1>7 DEF L!Add, L!Answer, Answer

(* insert (:40-62), when it has not overrun the block. *)
LEMMA InsertIsInsert ==
  ASSUME IInv, IInv', ~overrun, ~overrun', NEW i \in Nat, NEW o \in Value, Insert(i, o)
  PROVE  L!Insert(i, o)
<1>1. /\ listBar \in Seq(Elem) /\ Len(listBar) = len /\ len \in Nat
      /\ \A k \in 1 .. len : listBar[k] = block[k - 1]
  BY ListIs
<1>2. CASE i > len
  <2>1. alive /\ L!Fail(<<"insert", i>>)
    BY <1>2, FailIsFail DEF Insert
  <2>2. ~ (i <= Len(listBar))
    BY <1>1, <1>2
  <2>3. QED
    BY <2>1, <2>2 DEF L!Insert
<1>3. CASE ~ (i > len)
  <2>1. /\ alive /\ alive' = alive /\ len' = len + 1
        /\ overrun' <=> len >= cap'
        /\ changed' = changed \cup {x \in Open : it[x].cur # it[x].end}
        /\ ret' = Answer(<<"insert", i>>, 0, NoValue)
        /\ block' = [j \in 0 .. cap' - 1 |->
                       IF j = i THEN o
                       ELSE IF i < j /\ j <= len THEN block[j - 1]
                       ELSE IF j < cap THEN block[j] ELSE Junk]
        /\ Grow(len + 1)
    BY <1>3 DEF Insert, Changed
  <2>2. cap' \in Nat /\ cap \in Nat /\ len <= cap /\ i <= len
    BY <1>1, <1>3, <2>1 DEF IInv, TypeOK, Capacity
  <2>3. len + 1 <= cap'
    <3>1. ~ (len >= cap')
      BY <2>1, Zenon
    <3>2. QED
      BY <1>1, <2>2, <3>1
  <2>4. Kept
    BY <1>1, <2>1, GrowIs
  <2>5. posBar' = L!Disturbed
    BY <2>1, <2>4, Struck
  <2>6. ASSUME NEW k \in 1 .. len + 1
        PROVE  block'[k - 1] = IF k <= i THEN listBar[k]
                               ELSE IF k = i + 1 THEN o ELSE listBar[k - 1]
    <3>1. len + 1 \in Nat
      BY <1>1
    <3>2. k - 1 \in 0 .. cap' - 1
      BY <2>2, <2>3, <3>1, Below
    <3>3. k \in Nat /\ len \in Nat /\ i \in Nat /\ cap \in Nat
      BY <1>1, <2>2
    <3>4. CASE k <= i
      <4>1. k \in 1 .. len /\ k - 1 # i /\ ~ (i < k - 1) /\ k - 1 < cap
        BY <2>2, <3>3, <3>4
      <4>2. block'[k - 1] = block[k - 1]
        BY <2>1, <3>2, <4>1
      <4>3. QED
        BY <1>1, <3>4, <4>1, <4>2
    <3>5. CASE k = i + 1
      <4>1. k - 1 = i /\ ~ (k <= i)
        BY <3>3, <3>5
      <4>2. QED
        BY <2>1, <3>2, <3>5, <4>1
    <3>6. CASE ~ (k <= i) /\ k # i + 1
      <4>1. k - 1 # i /\ i < k - 1 /\ k - 1 <= len /\ k - 1 \in 1 .. len
        BY <2>2, <3>3, <3>6
      <4>2. block'[k - 1] = block[(k - 1) - 1]
        BY <2>1, <3>2, <4>1
      <4>3. QED
        BY <1>1, <3>6, <4>1, <4>2
    <3>7. QED
      BY <3>4, <3>5, <3>6
  <2>7. listBar' = [k \in 1 .. len + 1 |-> block'[k - 1]]
    BY <2>1 DEF listBar
  <2>8. listBar' = L!InsertedAt(listBar, i, o)
    <3> HIDE DEF listBar
    <3>1. L!InsertedAt(listBar, i, o) =
            [k \in 1 .. len + 1 |-> IF k <= i THEN listBar[k]
                                    ELSE IF k = i + 1 THEN o ELSE listBar[k - 1]]
      BY <1>1 DEF L!InsertedAt
    <3>2. QED
      BY <2>6, <2>7, <3>1, Zenon
  <2>9. \E c \in {0, Len(listBar) + 1} : ret' = L!Answer(<<"insert", i>>, c, NoValue)
    BY <2>1 DEF Answer, L!Answer
  <2>10. i <= Len(listBar)
    BY <1>1, <2>2
  <2>11. QED
    BY <2>1, <2>5, <2>8, <2>9, <2>10 DEF L!Insert
<1>4. QED
  BY <1>2, <1>3

(* remove and pop (:64-87). *)
LEMMA TakeIsTake ==
  ASSUME IInv, IInv', ~overrun, NEW i \in Nat, NEW call, RemoveAt(call, i)
  PROVE  L!Take(call, i)
<1>1. /\ listBar \in Seq(Elem) /\ Len(listBar) = len /\ len \in Nat
      /\ \A k \in 1 .. len : listBar[k] = block[k - 1]
  BY ListIs
<1>2. CASE i >= len
  <2>1. L!Fail(call)
    BY <1>2, FailIsFail DEF RemoveAt
  <2>2. ~ (i < Len(listBar))
    BY <1>1, <1>2
  <2>3. QED
    BY <2>1, <2>2 DEF L!Take
<1>3. CASE ~ (i >= len)
  <2>1. /\ alive /\ alive' = alive /\ len' = len - 1 /\ ~overrun'
        /\ changed' = changed \cup {x \in Open : it[x].cur # it[x].end}
        /\ ret' = Answer(call, 0, block[i])
        /\ block' = [j \in 0 .. cap' - 1 |->
                       IF j >= cap THEN Junk
                       ELSE IF i <= j /\ j + 1 < len THEN block[j + 1] ELSE block[j]]
        /\ Grow(len - 1)
    BY <1>3 DEF RemoveAt, Changed
  <2>2. cap \in Nat /\ len <= cap /\ i < len
    BY <1>1, <1>3, <2>1 DEF IInv, TypeOK, Capacity
  <2>3. cap' \in Nat /\ len - 1 \in Nat /\ len - 1 <= cap'
    <3>1. Capacity' /\ TypeOK' /\ alive'
      BY <2>1 DEF IInv
    <3>2. len' <= cap' /\ cap' \in Nat
      BY <2>1, <3>1 DEF Capacity, TypeOK
    <3>3. QED
      BY <1>1, <2>1, <2>2, <3>2
  <2>4. Kept
    BY <2>1, <2>3, GrowIs
  <2>5. posBar' = L!Disturbed
    BY <2>1, <2>4, Struck
  <2>6. ASSUME NEW k \in 1 .. len - 1
        PROVE  block'[k - 1] = IF k <= i THEN listBar[k] ELSE listBar[k + 1]
    <3>1. k - 1 \in 0 .. cap' - 1
      BY <2>3, Below
    <3>2. k \in Nat /\ len \in Nat /\ i \in Nat /\ cap \in Nat
      BY <1>1, <2>2
    <3>3. ~ (k - 1 >= cap) /\ k \in 1 .. len /\ k + 1 \in 1 .. len
      BY <2>2, <3>2
    <3>4. CASE k <= i
      <4>1. ~ (i <= k - 1)
        BY <3>2, <3>4
      <4>2. block'[k - 1] = block[k - 1]
        BY <2>1, <3>1, <3>3, <4>1
      <4>3. QED
        BY <1>1, <3>3, <3>4, <4>2
    <3>5. CASE ~ (k <= i)
      <4>1. i <= k - 1 /\ (k - 1) + 1 < len /\ (k - 1) + 1 = (k + 1) - 1
        BY <3>2, <3>5
      <4>2. block'[k - 1] = block[(k - 1) + 1]
        BY <2>1, <3>1, <3>3, <4>1
      <4>3. block'[k - 1] = block[(k + 1) - 1]
        BY <4>1, <4>2
      <4>4. QED
        BY <1>1, <3>3, <3>5, <4>3
    <3>6. QED
      BY <3>4, <3>5
  <2>7. listBar' = [k \in 1 .. len - 1 |-> block'[k - 1]]
    BY <2>1 DEF listBar
  <2>8. listBar' = L!RemovedAt(listBar, i)
    <3> HIDE DEF listBar
    <3>1. L!RemovedAt(listBar, i) =
            [k \in 1 .. len - 1 |-> IF k <= i THEN listBar[k] ELSE listBar[k + 1]]
      BY <1>1 DEF L!RemovedAt
    <3>2. QED
      BY <2>6, <2>7, <3>1, Zenon
  <2>9. ret' = L!Answer(call, 0, listBar[i + 1])
    <3>1. i + 1 \in 1 .. len /\ (i + 1) - 1 = i
      BY <1>1, <2>2
    <3>2. listBar[i + 1] = block[i]
      BY <1>1, <3>1
    <3>3. QED
      BY <2>1, <3>2 DEF Answer, L!Answer
  <2>10. i < Len(listBar)
    BY <1>1, <2>2
  <2>11. QED
    BY <2>1, <2>5, <2>8, <2>9, <2>10 DEF L!Take
<1>4. QED
  BY <1>2, <1>3

(* free (:131-140) and a new vector (:122-129). *)
LEMMA FreeIsFree ==
  ASSUME IInv, ~overrun, Free
  PROVE  L!Free
<1>1. Realloc(0)
  BY DEF Free, Realloc
<1>2. Kept
  BY <1>1, ReallocKeeps
<1>3. posBar' = L!Disturbed
  BY <1>2, Struck DEF Free
<1>4. listBar' = <<>>
  BY DEF Free, listBar
<1>5. QED
  BY <1>3, <1>4 DEF Free, L!Free, Answer, L!Answer

LEMMA NewIsNew ==
  ASSUME IInv, New
  PROVE  L!New
<1>1. len = 0 /\ len' = 0
  BY DEF New, IInv
<1>2. listBar = <<>> /\ listBar' = <<>>
  BY <1>1 DEF listBar
<1>3. posBar' = posBar
  BY PosStays DEF New
<1>4. QED
  BY <1>2, <1>3 DEF New, L!New, Answer, L!Answer

LEMMA GetIsGet ==
  ASSUME IInv, ~overrun, NEW i \in Nat, Get(i)
  PROVE  L!Get(i)
<1>1. /\ Len(listBar) = len /\ len \in Nat
      /\ \A k \in 1 .. len : listBar[k] = block[k - 1]
  BY ListIs
<1>2. CASE i >= len
  <2>1. alive /\ L!Fail(<<"get", i>>)
    BY <1>2, FailIsFail DEF Get
  <2>2. ~ (i < Len(listBar))
    BY <1>1, <1>2
  <2>3. QED
    BY <2>1, <2>2 DEF L!Get
<1>3. CASE ~ (i >= len)
  <2>1. alive /\ ret' = Answer(<<"get", i>>, 0, block[i]) /\ UNCHANGED <<vecVars, it, changed>>
    BY <1>3 DEF Get
  <2>2. UNCHANGED <<alive, listBar, posBar>>
    BY <2>1, BarsStay
  <2>3. i + 1 \in 1 .. len /\ (i + 1) - 1 = i
    BY <1>1, <1>3
  <2>4. listBar[i + 1] = block[i] /\ i < Len(listBar)
    BY <1>1, <1>3, <2>3
  <2>5. QED
    BY <2>1, <2>2, <2>4 DEF L!Get, Answer, L!Answer
<1>4. QED
  BY <1>2, <1>3

LEMMA SizeIsSize ==
  ASSUME IInv, ~overrun, Size
  PROVE  L!Size
<1>1. Len(listBar) = len
  BY ListIs
<1>2. UNCHANGED <<alive, listBar, posBar>>
  BY BarsStay DEF Size
<1>3. QED
  BY <1>1, <1>2 DEF Size, L!Size, Answer, L!Answer

(* The calls on iterators (:89-115). *)
LEMMA IterOpenIsOpen ==
  ASSUME IInv, ~overrun, NEW x \in Iter, IterOpen(x)
  PROVE  L!IterOpen(x)
<1>1. listBar \in Seq(Elem) /\ Len(listBar) = len /\ len \in Nat
  BY ListIs
<1>2. /\ alive /\ x \notin Open /\ it \in [Iter -> CursorRecord]
      /\ it' = [it EXCEPT ![x] = Cursor("live", 0, len)]
      /\ changed' = changed /\ UNCHANGED vecVars
      /\ ret' = Answer(<<"iterator", x>>, 0, NoValue)
  BY DEF IterOpen, IInv, TypeOK, CursorRecord
<1>3. posBar \in [Iter -> Int] /\ posBar[x] = L!Closed
  BY <1>2 DEF posBar, L!Closed, IInv, TypeOK
<1>4. changed \subseteq Open
  BY DEF IInv, Cursors
<1>5. listBar = <<>> <=> len = 0
  BY <1>1, EmptySeq
<1>6. posBar' = [posBar EXCEPT ![x] = IF listBar = <<>> THEN L!Exhausted ELSE 0]
  <2>1. it'[x].state = "live" /\ it'[x].cur = 0 /\ it'[x].end = len
    BY <1>2 DEF Cursor
  <2>2. \A y \in Iter : y # x => it'[y] = it[y]
    BY <1>2
  <2>3. Open' = Open \cup {x}
    BY <2>1, <2>2 DEF Open
  <2>4. posBar'[x] = IF listBar = <<>> THEN L!Exhausted ELSE 0
    BY <1>2, <1>4, <1>5, <2>1, <2>3 DEF posBar, L!Exhausted
  <2>5. \A y \in Iter : y # x => posBar'[y] = posBar[y]
    BY <1>2, <2>2, <2>3 DEF posBar
  <2>6. QED
    BY <1>3, <2>4, <2>5 DEF posBar
<1>7. UNCHANGED <<alive, listBar>>
  BY <1>2 DEF vecVars, listBar
<1>8. QED
  BY <1>2, <1>3, <1>6, <1>7 DEF L!IterOpen, Answer, L!Answer

LEMMA IterNextIsNext ==
  ASSUME IInv, ~overrun, NEW x \in Iter, IterNext(x)
  PROVE  L!IterNext(x)
<1>1. /\ listBar \in Seq(Elem) /\ Len(listBar) = len /\ len \in Nat
      /\ \A k \in 1 .. len : listBar[k] = block[k - 1]
  BY ListIs
<1>2. /\ x \in Open /\ it \in [Iter -> CursorRecord]
      /\ it[x].cur \in Nat /\ it[x].end \in Nat /\ it[x].cur <= it[x].end
      /\ changed \subseteq Open
  BY DEF IterNext, IInv, TypeOK, Cursors, CursorRecord
<1>3. CASE it[x].cur = it[x].end
  <2>1. L!Fail(<<"next", x>>)
    BY <1>3, FailIsFail DEF IterNext
  <2>2. posBar[x] = L!Exhausted \/ posBar[x] = L!Invalid
    BY <1>2, <1>3 DEF posBar, L!Exhausted, L!Invalid
  <2>3. QED
    BY <2>1, <2>2 DEF L!IterNext
<1>4. CASE it[x].cur # it[x].end
  <2>1. PICK o \in Value : /\ Readable(x) => o = block[it[x].cur]
                           /\ ret' = Answer(<<"next", x>>, 0, o)
    BY <1>4 DEF IterNext
  <2>2. /\ it' = [it EXCEPT ![x].cur = it[x].cur + 1]
        /\ UNCHANGED <<vecVars, changed>>
    BY <1>4 DEF IterNext
  <2>3. /\ it'[x].state = it[x].state /\ it'[x].cur = it[x].cur + 1
        /\ it'[x].end = it[x].end
        /\ \A y \in Iter : y # x => it'[y] = it[y]
    BY <1>2, <2>2 DEF CursorRecord
  <2>4. Open' = Open
    BY <2>3 DEF Open
  <2>5. UNCHANGED <<alive, listBar>>
    BY <2>2 DEF vecVars, listBar
  <2>6. \A y \in Iter : y # x => posBar'[y] = posBar[y]
    BY <2>2, <2>3, <2>4 DEF posBar
  <2>7. CASE x \in changed
    <3>1. posBar[x] = L!Invalid /\ posBar'[x] = posBar[x]
      BY <1>2, <2>2, <2>4, <2>7 DEF posBar, L!Invalid
    <3>2. posBar' = posBar
      BY <2>6, <3>1 DEF posBar
    <3>3. QED
      BY <2>1, <2>5, <3>1, <3>2 DEF L!IterNext, Answer, L!Answer
  <2>8. CASE x \notin changed
    <3>1. it[x].state = "live" /\ it[x].end = len /\ alive
      <4>1. it[x].state = "live" /\ it[x].end = len
        BY <1>2, <1>4, <2>8 DEF IInv, Cursors
      <4>2. len # 0
        BY <1>2, <1>4, <4>1
      <4>3. QED
        BY <4>1, <4>2 DEF IInv
    <3>2. it[x].cur \in 0 .. len - 1 /\ it[x].cur < len
      BY <1>1, <1>2, <1>4, <3>1
    <3>3. Readable(x)
      <4>1. len <= cap /\ cap \in Nat /\ \A j \in 0 .. len - 1 : block[j] # Junk
        BY <3>1 DEF IInv, TypeOK, Capacity
      <4>2. it[x].cur < cap
        BY <1>1, <1>2, <3>2, <4>1
      <4>3. QED
        BY <3>1, <3>2, <4>1, <4>2 DEF Readable
    <3>4. posBar[x] = it[x].cur /\ posBar[x] >= 0
      BY <1>2, <1>4, <2>8 DEF posBar
    <3>5. ret' = L!Answer(<<"next", x>>, 0, listBar[posBar[x] + 1])
      <4>1. it[x].cur + 1 \in 1 .. len /\ (it[x].cur + 1) - 1 = it[x].cur
        BY <1>1, <3>2
      <4>2. listBar[it[x].cur + 1] = block[it[x].cur]
        BY <1>1, <4>1
      <4>3. QED
        BY <2>1, <3>3, <3>4, <4>2 DEF Answer, L!Answer
    <3>6. posBar'[x] = IF posBar[x] + 1 = Len(listBar) THEN L!Exhausted ELSE posBar[x] + 1
      BY <1>1, <1>2, <2>2, <2>3, <2>4, <2>8, <3>1, <3>4 DEF posBar, L!Exhausted
    <3>7. posBar' = [posBar EXCEPT ![x] = IF posBar[x] + 1 = Len(listBar) THEN L!Exhausted
                                          ELSE posBar[x] + 1]
      BY <2>6, <3>6 DEF posBar
    <3>8. QED
      BY <2>5, <3>4, <3>5, <3>7 DEF L!IterNext
  <2>9. QED
    BY <2>7, <2>8
<1>5. QED
  BY <1>3, <1>4

LEMMA IterHasNextIsHasNext ==
  ASSUME IInv, NEW x \in Iter, IterHasNext(x)
  PROVE  L!IterHasNext(x)
<1>1. /\ x \in Open /\ it[x].cur \in Nat /\ it[x].end \in Nat
      /\ ret' = Answer(<<"has_next", x>>, IF it[x].cur = it[x].end THEN 0 ELSE 1, NoValue)
      /\ UNCHANGED <<vecVars, it, changed>>
  BY DEF IterHasNext, IInv, TypeOK
<1>2. UNCHANGED <<alive, listBar, posBar>>
  BY <1>1, BarsStay
<1> DEFINE c == IF it[x].cur = it[x].end THEN 0 ELSE 1
<1>3. /\ posBar[x] # L!Closed /\ c \in {0, 1}
      /\ posBar[x] # L!Invalid => c = (IF posBar[x] = L!Exhausted THEN 0 ELSE 1)
  BY <1>1 DEF posBar, L!Closed, L!Invalid, L!Exhausted
<1>4. ret' = L!Answer(<<"has_next", x>>, c, NoValue)
  BY <1>1 DEF Answer, L!Answer
<1> HIDE DEF c
<1>5. QED
  BY <1>2, <1>3, <1>4 DEF L!IterHasNext

LEMMA IterNextPairIsNextPair ==
  ASSUME IInv, NEW x \in Iter, IterNextPair(x)
  PROVE  L!IterNextPair(x)
<1>1. posBar[x] # L!Closed
  BY DEF IterNextPair, posBar, L!Closed, IInv, TypeOK
<1>2. L!Fail(<<"next_pair", x>>)
  BY FailIsFail DEF IterNextPair
<1>3. QED
  BY <1>1, <1>2 DEF L!IterNextPair

LEMMA IterCloseIsClose ==
  ASSUME IInv, NEW x \in Iter, IterClose(x)
  PROVE  L!IterClose(x)
<1>1. /\ x \in Open /\ it \in [Iter -> CursorRecord]
      /\ it' = [it EXCEPT ![x] = Closed] /\ changed' = changed \ {x}
      /\ ret' = Answer(<<"close", x>>, 0, NoValue) /\ UNCHANGED vecVars
  BY DEF IterClose, IInv, TypeOK, CursorRecord
<1>2. posBar[x] # L!Closed
  BY <1>1 DEF posBar, L!Closed, IInv, TypeOK
<1>3. it'[x].state = "closed" /\ \A y \in Iter : y # x => it'[y] = it[y]
  BY <1>1 DEF Closed, Cursor
<1>4. Open' = Open \ {x}
  BY <1>3 DEF Open
<1>5. posBar'[x] = L!Closed /\ \A y \in Iter : y # x => posBar'[y] = posBar[y]
  BY <1>1, <1>3, <1>4 DEF posBar, L!Closed
<1>6. posBar' = [posBar EXCEPT ![x] = L!Closed]
  BY <1>5 DEF posBar
<1>7. UNCHANGED <<alive, listBar>>
  BY <1>1 DEF vecVars, listBar
<1>8. QED
  BY <1>1, <1>2, <1>6, <1>7 DEF L!IterClose, Answer, L!Answer

LEMMA InitIsInit == Init => L!Init
<1> SUFFICES ASSUME Init
             PROVE  L!Init
  OBVIOUS
<1>1. listBar = <<>>
  BY DEF Init, listBar
<1>2. \A x \in Iter : x \notin Open
  BY DEF Init, Open, Closed, Cursor
<1>3. posBar = [x \in Iter |-> L!Closed]
  BY <1>2 DEF posBar, L!Closed
<1>4. QED
  BY <1>1, <1>3 DEF Init, L!Init, Answer, L!Answer

(* Every call that does not overrun the block is a call on the list.       *)
LEMMA NextIsNext ==
  ASSUME IInv, IInv', [Next]_vars
  PROVE  [overrun' \/ L!Next]_(L!vars)
<1>1. CASE UNCHANGED vars
  BY <1>1, BarsStay DEF vars, vecVars, L!vars
<1>2. CASE overrun'
  BY <1>2
<1> SUFFICES ASSUME Next, ~overrun'
             PROVE  L!Next
  BY <1>1, <1>2
<1>3. ~overrun
  BY DEF Next
<1>4. Index = L!Index /\ Index \subseteq Nat /\ 0 \in Nat
  BY DEF Index, L!Index
<1>5. CASE Size
  BY <1>3, <1>5, SizeIsSize DEF L!Next
<1>6. CASE Pop
  <2>1. L!Take(<<"pop">>, 0) /\ alive
    BY <1>3, <1>4, <1>6, TakeIsTake DEF Pop, RemoveAt
  <2>2. QED
    BY <2>1 DEF L!Pop, L!Next
<1>7. CASE Free
  BY <1>3, <1>7, FreeIsFree DEF L!Next
<1>8. CASE New
  BY <1>8, NewIsNew DEF L!Next
<1>9. ASSUME NEW o \in Value, Add(o)
      PROVE  L!Next
  BY <1>3, <1>9, AddIsAdd DEF L!Next
<1>10. ASSUME NEW i \in Index, Get(i)
       PROVE  L!Next
  BY <1>3, <1>4, <1>10, GetIsGet DEF L!Next
<1>11. ASSUME NEW i \in Index, Remove(i)
       PROVE  L!Next
  <2>1. L!Take(<<"remove", i>>, i) /\ alive
    BY <1>3, <1>4, <1>11, TakeIsTake DEF Remove, RemoveAt
  <2>2. QED
    BY <1>4, <2>1 DEF L!Remove, L!Next
<1>12. ASSUME NEW i \in Index, NEW o \in Value, Insert(i, o)
       PROVE  L!Next
  BY <1>3, <1>4, <1>12, InsertIsInsert DEF L!Next
<1>13. ASSUME NEW x \in Iter,
              \/ IterOpen(x) \/ IterNext(x) \/ IterNextPair(x)
              \/ IterHasNext(x) \/ IterClose(x)
       PROVE  L!Next
  BY <1>3, <1>13, IterOpenIsOpen, IterNextIsNext, IterNextPairIsNextPair,
     IterHasNextIsHasNext, IterCloseIsClose DEF L!Next
<1>14. QED
  BY <1>5, <1>6, <1>7, <1>8, <1>9, <1>10, <1>11, <1>12, <1>13 DEF Next

(* Until an insert overruns its block, the vector answers every call as    *)
(* the abstract list does, with every alloc_size, and its iterators give   *)
(* the values of a list that has not changed under them.                   *)
THEOREM VectorIsList == Spec => ListUntilOverrun
<1>1. Init => L!Init
  BY InitIsInit
<1>2. IInv /\ IInv' /\ [Next]_vars => [overrun' \/ L!Next]_(L!vars)
  BY NextIsNext
<1>3. QED
  BY <1>1, <1>2, InitInv, NextInv, PTL DEF Spec, ListUntilOverrun
=============================================================================

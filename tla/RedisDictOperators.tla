-------------------------- MODULE RedisDictOperators -------------------------
(***************************************************************************)
(* What the functions of dict.c do to the tables, for every word size:     *)
(* adding, finding, deleting and rehashing keep a dictionary well formed   *)
(* and its keys where they hash to.  The last facts about numbers are what *)
(* the cursor of dictScan() rests on: in the order of the reversed words   *)
(* the hashes of one bucket are neighbours, whatever the size of the       *)
(* table.                                                                  *)
(*                                                                         *)
(* The loops of the code are recursive functions, so these facts are       *)
(* proved by induction, on the number of turns or of bits.  The library's  *)
(* induction rule takes an operator and cannot be used; NatSetInduction is *)
(* the same rule for a set.                                                *)
(***************************************************************************)
EXTENDS RedisDict, WellFoundedInduction, TLAPS

-----------------------------------------------------------------------------
(* Induction.  The library's rule takes an operator, which the provers     *)
(* cannot instantiate; these are the same rule for a set.                  *)

Less == OpToRel(<, Nat)

\* The natural numbers are well-founded.
LEMMA LessIsWellFounded == IsWellFoundedOn(Less, Nat)
BY NatLessThanWellFounded, Zenon DEF Less

\* Less relates a number to every larger one.
LEMMA LessDef == \A x, y \in Nat : x < y => <<x, y>> \in Less
BY DEF Less, OpToRel

\* A non-empty set of natural numbers has a smallest element, which Smallest
\* chooses.
LEMMA SmallestIs ==
  ASSUME NEW S \in SUBSET Nat, S # {}
  PROVE  Smallest(S) \in S /\ \A y \in S : Smallest(S) <= y
<1>1. PICK x \in S : \A y \in S : ~(<<y, x>> \in Less)
  BY LessIsWellFounded, WFMin, Zenon
<1>2. ASSUME NEW y \in S PROVE x <= y
  <2>1. x \in Nat /\ y \in Nat
    OBVIOUS
  <2>2. ~(y < x)
    BY <1>1, <2>1, LessDef, Zenon
  <2> QED
    BY <2>1, <2>2
<1> QED
  BY <1>2, Zenon DEF Smallest

\* A set that has 0, and with each number the next one, has all of them.
LEMMA NatSetInduction ==
  ASSUME NEW S, 0 \in S, \A n \in Nat : n \in S => n + 1 \in S
  PROVE  Nat \subseteq S
<1> DEFINE T == Nat \ S
<1> SUFFICES ASSUME T # {} PROVE FALSE
  OBVIOUS
<1> DEFINE x == Smallest(T)
<1>1. x \in T /\ \A y \in T : x <= y
  BY SmallestIs, Zenon
<1> HIDE DEF x
<1>2. x \in Nat /\ x # 0
  BY <1>1
<1>3. x - 1 \in Nat /\ (x - 1) + 1 = x
  BY <1>2
<1>4. x - 1 \notin T
  BY <1>1, <1>2, <1>3
<1> QED
  BY <1>1, <1>3, <1>4

\* The same up to n.
LEMMA UpTo ==
  ASSUME NEW n \in Nat, NEW S, 0 \in S, \A i \in 1..n : i - 1 \in S => i \in S
  PROVE  0..n \subseteq S
<1> DEFINE T == {i \in Nat : i <= n => i \in S}
<1>1. 0 \in T
  OBVIOUS
<1>2. ASSUME NEW i \in Nat, i \in T PROVE i + 1 \in T
  <2>1. CASE i + 1 <= n
    <3>1. i + 1 \in 1..n /\ (i + 1) - 1 = i /\ i \in S
      BY <1>2, <2>1
    <3> QED
      BY <3>1
  <2> QED
    BY <2>1
<1> HIDE DEF T
<1>3. Nat \subseteq T
  BY <1>1, <1>2, NatSetInduction
<1> QED
  BY <1>3 DEF T

\* A function that counts the elements of the subsets of S.
Counts(h, S) ==
  /\ h \in [SUBSET S -> Nat] /\ h[{}] = 0
  /\ \A T \in SUBSET S : \A x \in T : h[T] = 1 + h[T \ {x}]

\* The numbers below n can be counted: a set that has n - 1 counts for one more
\* than the rest of it.
LEMMA CountsExist == \A n \in Nat : \E h : Counts(h, 0..(n - 1))
<1> DEFINE P == {n \in Nat : \E h : Counts(h, 0..(n - 1))}
<1>1. 0 \in P
  <2> DEFINE h == [T \in {{}} |-> 0]
  <2>1. SUBSET (0..(0 - 1)) = {{}}
    <3>1. 0..(0 - 1) = {}
      OBVIOUS
    <3> QED
      BY <3>1
  <2>2. Counts(h, 0..(0 - 1))
    BY <2>1 DEF Counts
  <2> QED
    BY <2>2
<1>2. ASSUME NEW n \in Nat, n \in P PROVE n + 1 \in P
  <2> DEFINE A == 0..(n - 1)
             B == 0..((n + 1) - 1)
  <2>1. PICK h : Counts(h, A)
    BY <1>2
  <2>2. B = A \union {n} /\ n \notin A
    OBVIOUS
  <2> HIDE DEF A, B
  <2> DEFINE g == [T \in SUBSET B |-> IF n \in T THEN 1 + h[T \ {n}] ELSE h[T]]
  <2>3. \A T \in SUBSET B : (n \notin T => T \in SUBSET A) /\ T \ {n} \in SUBSET A
    BY <2>2
  <2>4. \A T \in SUBSET A : h[T] \in Nat
    BY <2>1 DEF Counts
  <2>5. g \in [SUBSET B -> Nat]
    BY <2>3, <2>4
  <2>6. g[{}] = 0
    BY <2>1 DEF Counts
  <2>7. ASSUME NEW T \in SUBSET B, NEW x \in T PROVE g[T] = 1 + g[T \ {x}]
    <3>1. T \ {x} \in SUBSET B
      OBVIOUS
    <3>2. CASE x = n
      <4>1. n \in T /\ n \notin T \ {x} /\ T \ {n} = T \ {x}
        BY <3>2
      <4> QED
        BY <3>1, <4>1
    <3>3. CASE x # n /\ n \in T
      <4>1. x \in T \ {n} /\ (T \ {n}) \ {x} = (T \ {x}) \ {n} /\ n \in T \ {x}
        BY <3>3
      <4>2. h[T \ {n}] = 1 + h[(T \ {n}) \ {x}]
        BY <2>1, <2>3, <4>1, Zenon DEF Counts
      <4> QED
        BY <3>1, <3>3, <4>1, <4>2
    <3>4. CASE n \notin T
      <4>1. n \notin T \ {x} /\ h[T] = 1 + h[T \ {x}]
        BY <2>1, <2>3, <3>4 DEF Counts
      <4> QED
        BY <3>1, <3>4, <4>1
    <3> QED
      BY <3>2, <3>3, <3>4
  <2> HIDE DEF g
  <2>8. Counts(g, B)
    BY <2>5, <2>6, <2>7 DEF Counts
  <2> QED
    BY <2>8 DEF B
<1> HIDE DEF P
<1>3. Nat \subseteq P
  BY <1>1, <1>2, NatSetInduction
<1> QED
  BY <1>3 DEF P

\* Cardinality, from its definition, counts a set of numbers below n.
LEMMA CardinalityBelow ==
  ASSUME NEW n \in Nat, NEW S \in SUBSET (0..(n - 1))
  PROVE  Cardinality(S) \in Nat /\ (Cardinality(S) = 0 <=> S = {})
<1> DEFINE IsCount(f) == f = [T \in SUBSET S |->
                                IF T = {} THEN 0 ELSE 1 + f[T \ {CHOOSE y : y \in T}]]
           CS == CHOOSE f : IsCount(f)
<1>1. PICK h : Counts(h, 0..(n - 1))
  BY CountsExist
<1> DEFINE g == [T \in SUBSET S |-> h[T]]
<1>2. \A T \in SUBSET S : T = {} \/ (CHOOSE y : y \in T) \in T
  OBVIOUS
<1>3. \A T \in SUBSET S : T \in SUBSET (0..(n - 1))
  OBVIOUS
<1>4. IsCount(g)
  <2>1. ASSUME NEW T \in SUBSET S
        PROVE  h[T] = IF T = {} THEN 0 ELSE 1 + g[T \ {CHOOSE y : y \in T}]
    BY <1>1, <1>2, <1>3, Zenon DEF Counts
  <2> QED
    BY <2>1, Zenon
<1>5. IsCount(CS)
  <2> HIDE DEF IsCount
  <2> QED
    BY <1>4
<1>6. Cardinality(S) = CS[S]
  BY Zenon DEF Cardinality
<1> HIDE DEF CS
<1> DEFINE P == {m \in Nat : \A T \in SUBSET S : h[T] = m => CS[T] = m}
<1>7. ASSUME NEW T \in SUBSET S PROVE h[T] \in Nat /\ (h[T] = 0 <=> T = {})
  <2>1. h[T] \in Nat /\ h[{}] = 0
    BY <1>1, <1>3 DEF Counts
  <2>2. ASSUME NEW x \in T PROVE h[T] # 0
    <3>1. h[T] = 1 + h[T \ {x}]
      BY <1>1, <1>3, Zenon DEF Counts
    <3>2. h[T \ {x}] \in Nat
      BY <1>1, <1>3 DEF Counts
    <3> QED
      BY <3>1, <3>2
  <2> QED
    BY <2>1, <2>2, Zenon
<1>8. \A T \in SUBSET S : CS[T] = IF T = {} THEN 0 ELSE 1 + CS[T \ {CHOOSE y : y \in T}]
  BY <1>5
<1>9. 0 \in P
  BY <1>7, <1>8, Zenon
<1>10. ASSUME NEW m \in Nat, m \in P PROVE m + 1 \in P
  <2> SUFFICES ASSUME NEW T \in SUBSET S, h[T] = m + 1 PROVE CS[T] = m + 1
    OBVIOUS
  <2> DEFINE U == T \ {CHOOSE y : y \in T}
  <2>1. T # {} /\ U \in SUBSET S
    BY <1>7
  <2>2. h[T] = 1 + h[U]
    BY <1>1, <1>2, <1>3, <2>1, Zenon DEF Counts
  <2>3. CS[T] = 1 + CS[U]
    BY <1>8, <2>1, Zenon
  <2> HIDE DEF U
  <2>4. h[U] = m
    BY <1>7, <2>1, <2>2
  <2> QED
    BY <1>10, <2>1, <2>3, <2>4
<1> HIDE DEF P
<1>11. Nat \subseteq P
  BY <1>9, <1>10, NatSetInduction
<1>12. CS[S] = h[S]
  BY <1>7, <1>11 DEF P
<1> QED
  BY <1>6, <1>7, <1>12

-----------------------------------------------------------------------------
(* Powers of two. *)

IsPow2(f, n) == f = [i \in 0..n |-> IF i = 0 THEN 1 ELSE 2 * f[i - 1]]

\* The recursion of Pow2 has a solution.
LEMMA Pow2Exists == \A n \in Nat : \E f : IsPow2(f, n)
<1> DEFINE S == {n \in Nat : \E f : IsPow2(f, n)}
<1>1. 0 \in S
  <2> DEFINE f == [i \in 0..0 |-> 1]
  <2>1. IsPow2(f, 0)
    BY DEF IsPow2
  <2> QED
    BY <2>1
<1>2. ASSUME NEW n \in Nat, n \in S PROVE n + 1 \in S
  <2>1. PICK f : IsPow2(f, n)
    BY <1>2
  <2> DEFINE g == [i \in 0..n + 1 |-> IF i = 0 THEN 1 ELSE 2 * f[i - 1]]
  <2>2. \A i \in 0..n : g[i] = f[i]
    BY <2>1 DEF IsPow2
  <2>3. IsPow2(g, n + 1)
    <3>1. ASSUME NEW i \in 0..n + 1, i # 0 PROVE f[i - 1] = g[i - 1]
      <4> HIDE DEF g
      <4>1. i - 1 \in 0..n
        BY <3>1
      <4> QED
        BY <2>2, <4>1
    <3> QED
      BY <3>1, Zenon DEF IsPow2
  <2> HIDE DEF g
  <2> QED
    BY <2>3
<1> HIDE DEF S
<1>3. Nat \subseteq S
  BY <1>1, <1>2, NatSetInduction
<1> QED
  BY <1>3 DEF S

\* Pow2 is that solution.
LEMMA Pow2Def ==
  /\ Pow2[0] = 1
  /\ \A n \in 1..CursorBits : Pow2[n] = 2 * Pow2[n - 1]
<1>1. CursorBits \in Nat
  BY DictAssumption
<1>2. Pow2 = CHOOSE f : IsPow2(f, CursorBits)
  BY DEF Pow2, IsPow2
<1>3. IsPow2(Pow2, CursorBits)
  BY <1>1, <1>2, Pow2Exists
<1> QED
  BY <1>1, <1>3 DEF IsPow2

\* A power of two is a positive number.
LEMMA Pow2Type == \A n \in 0..CursorBits : Pow2[n] \in Nat /\ Pow2[n] >= 1
<1> DEFINE S == {n \in Nat : Pow2[n] \in Nat /\ Pow2[n] >= 1}
<1>1. CursorBits \in Nat
  BY DictAssumption
<1>2. 0 \in S
  BY Pow2Def
<1>3. ASSUME NEW i \in 1..CursorBits, i - 1 \in S PROVE i \in S
  BY <1>1, <1>3, Pow2Def
<1> HIDE DEF S
<1>4. 0..CursorBits \subseteq S
  BY <1>1, <1>2, <1>3, UpTo
<1> QED
  BY <1>4 DEF S

\* Exponents add up.
LEMMA Pow2Sum ==
  ASSUME NEW a \in Nat, NEW b \in Nat, a + b <= CursorBits
  PROVE  Pow2[a + b] = Pow2[a] * Pow2[b]
<1> DEFINE S == {n \in Nat : a + n <= CursorBits => Pow2[a + n] = Pow2[a] * Pow2[n]}
<1>1. CursorBits \in Nat /\ b <= CursorBits /\ a \in 0..CursorBits
  BY DictAssumption
<1>2. 0 \in S
  BY <1>1, Pow2Def, Pow2Type
<1>3. ASSUME NEW i \in 1..b, i - 1 \in S PROVE i \in S
  <2>1. i \in Nat /\ i - 1 \in 0..CursorBits /\ i \in 1..CursorBits /\ a + i \in 1..CursorBits
        /\ (a + i) - 1 = a + (i - 1) /\ a + (i - 1) <= CursorBits
    BY <1>1
  <2>2. Pow2[a + i] = 2 * Pow2[a + (i - 1)]
    BY <2>1, Pow2Def
  <2>3. Pow2[a + (i - 1)] = Pow2[a] * Pow2[i - 1]
    BY <1>3, <2>1
  <2>4. Pow2[i] = 2 * Pow2[i - 1]
    BY <2>1, Pow2Def
  <2>5. Pow2[a] \in Nat /\ Pow2[i - 1] \in Nat
    BY <1>1, <2>1, Pow2Type
  <2>6. 2 * (Pow2[a] * Pow2[i - 1]) = Pow2[a] * (2 * Pow2[i - 1])
    BY <2>5
  <2> QED
    BY <2>1, <2>2, <2>3, <2>4, <2>6
<1> HIDE DEF S
<1>4. 0..b \subseteq S
  BY <1>2, <1>3, UpTo
<1> QED
  BY <1>4 DEF S

-----------------------------------------------------------------------------
(* Reversing the bits of a word: what the cursor of SCAN is built on. *)

IsReversed(f, n) ==
  f = [w \in 0..n |->
         IF w = 0 THEN [v \in {0} |-> 0]
         ELSE [v \in 0..(Pow2[w] - 1) |-> (v % 2) * Pow2[w - 1] + f[w - 1][v \div 2]]]

\* The recursion of Reversed has a solution.
LEMMA ReversedExists == \A n \in Nat : \E f : IsReversed(f, n)
<1> DEFINE S == {n \in Nat : \E f : IsReversed(f, n)}
           Next(w, h) == [v \in 0..(Pow2[w] - 1) |-> (v % 2) * Pow2[w - 1] + h[v \div 2]]
<1>1. 0 \in S
  <2> DEFINE f == [w \in 0..0 |-> [v \in {0} |-> 0]]
  <2>1. IsReversed(f, 0)
    BY DEF IsReversed
  <2> QED
    BY <2>1
<1>2. ASSUME NEW n \in Nat, n \in S PROVE n + 1 \in S
  <2>1. PICK f : IsReversed(f, n)
    BY <1>2
  <2>2. f = [w \in 0..n |-> IF w = 0 THEN [v \in {0} |-> 0] ELSE Next(w, f[w - 1])]
    BY <2>1, Zenon DEF IsReversed
  <2> HIDE DEF Next
  <2> DEFINE g == [w \in 0..n + 1 |-> IF w = 0 THEN [v \in {0} |-> 0] ELSE Next(w, f[w - 1])]
  <2>3. \A w \in 0..n : g[w] = f[w]
    BY <2>2
  <2>4. g = [w \in 0..n + 1 |-> IF w = 0 THEN [v \in {0} |-> 0] ELSE Next(w, g[w - 1])]
    <3>1. ASSUME NEW w \in 0..n + 1, w # 0 PROVE Next(w, f[w - 1]) = Next(w, g[w - 1])
      <4> HIDE DEF g
      <4>1. w - 1 \in 0..n
        BY <3>1
      <4> QED
        BY <2>3, <4>1
    <3> QED
      BY <3>1
  <2>5. IsReversed(g, n + 1)
    <3> HIDE DEF g
    <3> QED
      BY <2>4, Zenon DEF IsReversed, Next
  <2> HIDE DEF g
  <2> QED
    BY <2>5
<1> HIDE DEF S
<1>3. Nat \subseteq S
  BY <1>1, <1>2, NatSetInduction
<1> QED
  BY <1>3 DEF S

\* Reversed is that solution: the low bit goes to the top.
LEMMA ReversedDef ==
  /\ Reversed[0] = [v \in {0} |-> 0]
  /\ \A w \in 1..CursorBits :
       Reversed[w] = [v \in 0..(Pow2[w] - 1) |->
                        (v % 2) * Pow2[w - 1] + Reversed[w - 1][v \div 2]]
<1>1. CursorBits \in Nat
  BY DictAssumption
<1>2. Reversed = CHOOSE f : IsReversed(f, CursorBits)
  BY DEF Reversed, IsReversed
<1>3. IsReversed(Reversed, CursorBits)
  BY <1>1, <1>2, ReversedExists
<1> DEFINE Next(w, h) == [v \in 0..(Pow2[w] - 1) |-> (v % 2) * Pow2[w - 1] + h[v \div 2]]
<1>4. Reversed = [w \in 0..CursorBits |->
                    IF w = 0 THEN [v \in {0} |-> 0] ELSE Next(w, Reversed[w - 1])]
  BY <1>3, Zenon DEF IsReversed
<1> HIDE DEF Next
<1>5. \A w \in 1..CursorBits : Reversed[w] = Next(w, Reversed[w - 1])
  BY <1>1, <1>4
<1>6. Reversed[0] = [v \in {0} |-> 0]
  BY <1>1, <1>4
<1> QED
  BY <1>5, <1>6, Zenon DEF Next

\* A word of one more bit e, at its low end.
LEMMA ReversedOdd ==
  ASSUME NEW w \in 1..CursorBits, NEW u \in 0..(Pow2[w - 1] - 1), NEW e \in {0, 1}
  PROVE  /\ 2 * u + e \in 0..(Pow2[w] - 1)
         /\ Reversed[w][2 * u + e] = e * Pow2[w - 1] + Reversed[w - 1][u]
<1>1. CursorBits \in Nat /\ w - 1 \in 0..CursorBits
  BY DictAssumption
<1>2. Pow2[w] = 2 * Pow2[w - 1] /\ Pow2[w - 1] \in Nat
  BY <1>1, Pow2Def, Pow2Type
<1>3. (2 * u + e) % 2 = e /\ (2 * u + e) \div 2 = u /\ u \in Nat
  BY <1>2
<1>4. 2 * u + e \in 0..(Pow2[w] - 1)
  BY <1>2, <1>3
<1>5. Reversed[w] = [v \in 0..(Pow2[w] - 1) |->
                       (v % 2) * Pow2[w - 1] + Reversed[w - 1][v \div 2]]
  BY ReversedDef
<1>6. Reversed[w][2 * u + e] =
        ((2 * u + e) % 2) * Pow2[w - 1] + Reversed[w - 1][(2 * u + e) \div 2]
  BY <1>4, <1>5
<1> QED
  BY <1>3, <1>4, <1>6

\* A word is twice what is above its low bit, and that bit.
LEMMA LowBit ==
  ASSUME NEW w \in 1..CursorBits, NEW v \in 0..(Pow2[w] - 1)
  PROVE  \E u \in 0..(Pow2[w - 1] - 1), e \in {0, 1} : v = 2 * u + e
<1>1. CursorBits \in Nat /\ w - 1 \in 0..CursorBits
  BY DictAssumption
<1>2. Pow2[w] = 2 * Pow2[w - 1] /\ Pow2[w - 1] \in Nat /\ Pow2[w] \in Nat
  BY <1>1, Pow2Def, Pow2Type
<1> DEFINE u == v \div 2
           e == v % 2
<1>3. u \in 0..(Pow2[w - 1] - 1) /\ e \in {0, 1} /\ v = 2 * u + e
  BY <1>2
<1> HIDE DEF u, e
<1> QED
  BY <1>3

\* Reversing a word gives a word.
LEMMA ReversedType ==
  \A w \in 0..CursorBits : \A v \in 0..(Pow2[w] - 1) : Reversed[w][v] \in 0..(Pow2[w] - 1)
<1> DEFINE S == {w \in Nat : \A v \in 0..(Pow2[w] - 1) : Reversed[w][v] \in 0..(Pow2[w] - 1)}
<1>1. CursorBits \in Nat
  BY DictAssumption
<1>2. 0 \in S
  BY Pow2Def, ReversedDef
<1>3. ASSUME NEW w \in 1..CursorBits, w - 1 \in S PROVE w \in S
  <2> SUFFICES ASSUME NEW v \in 0..(Pow2[w] - 1)
               PROVE  Reversed[w][v] \in 0..(Pow2[w] - 1)
    BY <1>1
  <2>1. PICK u \in 0..(Pow2[w - 1] - 1), e \in {0, 1} : v = 2 * u + e
    BY LowBit
  <2>2. Reversed[w][v] = e * Pow2[w - 1] + Reversed[w - 1][u]
    BY <2>1, ReversedOdd
  <2>3. Reversed[w - 1][u] \in 0..(Pow2[w - 1] - 1)
    BY <1>3
  <2>4. w - 1 \in 0..CursorBits
    BY <1>1
  <2>5. Pow2[w] = 2 * Pow2[w - 1] /\ Pow2[w - 1] \in Nat
    BY <2>4, Pow2Def, Pow2Type
  <2>6. CASE e = 0
    BY <2>2, <2>3, <2>5, <2>6
  <2>7. CASE e = 1
    BY <2>2, <2>3, <2>5, <2>7
  <2> QED
    BY <2>6, <2>7
<1> HIDE DEF S
<1>4. 0..CursorBits \subseteq S
  BY <1>1, <1>2, <1>3, UpTo
<1> QED
  BY <1>4 DEF S

\* Multiplication distributes over a sum.
LEMMA Distributes ==
  ASSUME NEW e \in {0, 1}, NEW p \in Nat, NEW q \in Nat, NEW r \in Nat, NEW s \in Nat
  PROVE  e * (p * q) + (r * q + s) = (e * p + r) * q + s
<1>1. CASE e = 0
  BY <1>1
<1>2. CASE e = 1
  BY <1>2
<1> QED
  BY <1>1, <1>2

\* A word of b low bits l and c high bits h: their reverses change places.
LEMMA ReversedSplit ==
  ASSUME NEW b \in Nat, NEW c \in Nat, b + c <= CursorBits,
         NEW h \in 0..(Pow2[c] - 1), NEW l \in 0..(Pow2[b] - 1)
  PROVE  /\ h * Pow2[b] + l \in 0..(Pow2[b + c] - 1)
         /\ Reversed[b + c][h * Pow2[b] + l] = Reversed[b][l] * Pow2[c] + Reversed[c][h]
<1> DEFINE R(n, k) == /\ h * Pow2[n] + k \in 0..(Pow2[n + c] - 1)
                      /\ Reversed[n + c][h * Pow2[n] + k]
                           = Reversed[n][k] * Pow2[c] + Reversed[c][h]
           S == {n \in Nat : \A k \in 0..(Pow2[n] - 1) : R(n, k)}
<1>1. CursorBits \in Nat /\ c \in 0..CursorBits
  BY DictAssumption
<1>2. Pow2[c] \in Nat /\ Pow2[c] >= 1 /\ h \in Nat /\ Reversed[c][h] \in Nat
  BY <1>1, Pow2Type, ReversedType
<1>3. 0 \in S
  <2>1. ASSUME NEW k \in 0..(Pow2[0] - 1) PROVE R(0, k)
    <3>1. k = 0 /\ Pow2[0] = 1 /\ h * Pow2[0] + k = h /\ 0 + c = c
      BY <1>2, Pow2Def
    <3>2. Reversed[0][k] = 0
      BY <3>1, ReversedDef
    <3>3. Reversed[0][k] * Pow2[c] + Reversed[c][h] = Reversed[c][h]
      BY <1>2, <3>2
    <3> QED
      BY <3>1, <3>3
  <2> QED
    BY <2>1
<1>4. ASSUME NEW n \in 1..b, n - 1 \in S PROVE n \in S
  <2>1. /\ n \in Nat /\ n - 1 \in Nat /\ n - 1 \in 0..CursorBits /\ n \in 1..CursorBits
        /\ n + c \in 1..CursorBits /\ (n + c) - 1 = (n - 1) + c
    BY <1>1
  <2>2. /\ Pow2[n - 1] \in Nat /\ Pow2[n] = 2 * Pow2[n - 1]
        /\ Pow2[(n + c) - 1] = Pow2[n - 1] * Pow2[c]
    <3>1. (n - 1) + c <= CursorBits
      BY <1>1, <2>1
    <3>2. Pow2[(n - 1) + c] = Pow2[n - 1] * Pow2[c]
      BY <2>1, <3>1, Pow2Sum
    <3> QED
      BY <2>1, <3>2, Pow2Def, Pow2Type
  <2>3. ASSUME NEW k \in 0..(Pow2[n] - 1) PROVE R(n, k)
    <3>1. PICK u \in 0..(Pow2[n - 1] - 1), e \in {0, 1} : k = 2 * u + e
      BY <2>1, LowBit
    <3> DEFINE x == h * Pow2[n - 1] + u
    <3>2. R(n - 1, u)
      BY <1>4
    <3>3. /\ x \in 0..(Pow2[(n + c) - 1] - 1)
          /\ Reversed[(n + c) - 1][x] = Reversed[n - 1][u] * Pow2[c] + Reversed[c][h]
      BY <2>1, <3>2
    <3>4. h * Pow2[n] + k = 2 * x + e
      BY <1>2, <2>2, <3>1
    <3> HIDE DEF x
    <3>5. /\ 2 * x + e \in 0..(Pow2[n + c] - 1)
          /\ Reversed[n + c][2 * x + e] = e * Pow2[(n + c) - 1] + Reversed[(n + c) - 1][x]
      BY <2>1, <3>3, ReversedOdd, SMTT(30)
    <3>6. Reversed[n][k] = e * Pow2[n - 1] + Reversed[n - 1][u]
      BY <2>1, <3>1, ReversedOdd
    <3>7. Reversed[n - 1][u] \in Nat
      BY <2>1, ReversedType
    <3>8. e * (Pow2[n - 1] * Pow2[c]) + (Reversed[n - 1][u] * Pow2[c] + Reversed[c][h])
            = (e * Pow2[n - 1] + Reversed[n - 1][u]) * Pow2[c] + Reversed[c][h]
      BY <1>2, <2>2, <3>1, <3>7, Distributes
    <3>9. Reversed[n + c][h * Pow2[n] + k] = Reversed[n][k] * Pow2[c] + Reversed[c][h]
      BY <2>2, <3>3, <3>4, <3>5, <3>6, <3>8
    <3> QED
      BY <3>4, <3>5, <3>9
  <2> HIDE DEF R
  <2> QED
    BY <2>1, <2>3
<1> HIDE DEF S
<1>5. 0..b \subseteq S
  BY <1>3, <1>4, UpTo
<1>6. R(b, l)
  BY <1>5 DEF S
<1> QED
  BY <1>6

\* Reversing 0, and a word of ones.
LEMMA ReversedEnds ==
  \A w \in 0..CursorBits : Reversed[w][0] = 0 /\ Reversed[w][Pow2[w] - 1] = Pow2[w] - 1
<1> DEFINE S == {w \in Nat : Reversed[w][0] = 0 /\ Reversed[w][Pow2[w] - 1] = Pow2[w] - 1}
<1>1. CursorBits \in Nat
  BY DictAssumption
<1>2. 0 \in S
  BY Pow2Def, ReversedDef
<1>3. ASSUME NEW w \in 1..CursorBits, w - 1 \in S PROVE w \in S
  <2>1. w - 1 \in 0..CursorBits /\ w \in Nat
    BY <1>1
  <2>2. Pow2[w] = 2 * Pow2[w - 1] /\ Pow2[w - 1] \in Nat /\ Pow2[w - 1] >= 1
    BY <2>1, Pow2Def, Pow2Type
  <2>3. 0 \in 0..(Pow2[w - 1] - 1) /\ Pow2[w - 1] - 1 \in 0..(Pow2[w - 1] - 1)
    BY <2>2
  <2>4. Reversed[w][2 * 0 + 0] = 0 * Pow2[w - 1] + Reversed[w - 1][0]
    BY <2>3, ReversedOdd
  <2>5. Reversed[w][2 * (Pow2[w - 1] - 1) + 1]
          = 1 * Pow2[w - 1] + Reversed[w - 1][Pow2[w - 1] - 1]
    BY <2>3, ReversedOdd
  <2>6. 2 * (Pow2[w - 1] - 1) + 1 = Pow2[w] - 1
    BY <2>2
  <2> QED
    BY <1>3, <2>1, <2>2, <2>4, <2>5, <2>6
<1> HIDE DEF S
<1>4. 0..CursorBits \subseteq S
  BY <1>1, <1>2, <1>3, UpTo
<1> QED
  BY <1>4 DEF S

\* Reversing twice changes nothing.
LEMMA ReversedTwice ==
  \A w \in 0..CursorBits : \A v \in 0..(Pow2[w] - 1) : Reversed[w][Reversed[w][v]] = v
<1> DEFINE S == {w \in Nat : \A v \in 0..(Pow2[w] - 1) : Reversed[w][Reversed[w][v]] = v}
<1>1. CursorBits \in Nat
  BY DictAssumption
<1>2. 0 \in S
  BY Pow2Def, ReversedDef
<1>3. ASSUME NEW w \in 1..CursorBits, w - 1 \in S PROVE w \in S
  <2>1. w - 1 \in 0..CursorBits /\ w \in Nat /\ w - 1 \in Nat /\ (w - 1) + 1 = w /\ 1 \in 1..CursorBits
    BY <1>1
  <2>2. Pow2[0] = 1 /\ Pow2[1] = 2 /\ Pow2[w - 1] \in Nat
    BY <2>1, Pow2Def, Pow2Type
  <2>3. Reversed[1][0] = 0 /\ Reversed[1][1] = 1
    BY <2>1, <2>2, ReversedEnds
  <2> SUFFICES ASSUME NEW v \in 0..(Pow2[w] - 1) PROVE Reversed[w][Reversed[w][v]] = v
    BY <2>1
  <2>4. PICK u \in 0..(Pow2[w - 1] - 1), e \in {0, 1} : v = 2 * u + e
    BY LowBit
  <2> DEFINE r == Reversed[w - 1][u]
  <2>5. Reversed[w][v] = e * Pow2[w - 1] + r
    BY <2>4, ReversedOdd
  <2>6. r \in 0..(Pow2[w - 1] - 1) /\ Reversed[w - 1][r] = u
    BY <1>3, <2>1, ReversedType
  <2>7. e \in 0..(Pow2[1] - 1) /\ Reversed[1][e] = e
    BY <2>2, <2>3
  <2> HIDE DEF r
  <2>8. Reversed[(w - 1) + 1][e * Pow2[w - 1] + r] = Reversed[w - 1][r] * Pow2[1] + Reversed[1][e]
    BY <2>1, <2>6, <2>7, ReversedSplit
  <2> QED
    BY <2>1, <2>2, <2>4, <2>5, <2>6, <2>7, <2>8
<1> HIDE DEF S
<1>4. 0..CursorBits \subseteq S
  BY <1>1, <1>2, <1>3, UpTo
<1> QED
  BY <1>4 DEF S

-----------------------------------------------------------------------------
(* The cursor.  In the order of the reversed words, the hashes that fall   *)
(* into one bucket of a table are neighbours: a table of Pow2[b] buckets   *)
(* cuts the words into blocks of Span(b), and incrementing the cursor goes *)
(* to the first word of the next block.                                    *)

Word == 0..(W - 1)
Span(b) == Pow2[CursorBits - b]
Block(b, v) == rev[v] \div Span(b)

\* Division with a remainder.
LEMMA Divides ==
  ASSUME NEW s \in Nat, s >= 1, NEW q \in Int, NEW r \in 0..(s - 1)
  PROVE  (q * s + r) \div s = q /\ (q * s + r) % s = r
OBVIOUS

\* Quotient and remainder of a word.
LEMMA Quotient ==
  ASSUME NEW s \in Nat, s >= 1, NEW p \in Nat, NEW v \in 0..(p * s - 1)
  PROVE  /\ v \div s \in 0..(p - 1) /\ v % s \in 0..(s - 1)
         /\ v = (v \div s) * s + (v % s)
OBVIOUS

\* The buckets of a table and their spans make up all words.
LEMMA Spans ==
  ASSUME NEW b \in 0..CursorBits
  PROVE  /\ CursorBits \in Nat /\ b \in Nat /\ CursorBits - b \in 0..CursorBits
         /\ Pow2[b] \in Nat /\ Pow2[b] >= 1 /\ Span(b) \in Nat /\ Span(b) >= 1
         /\ W \in Nat /\ W >= 1 /\ W = Pow2[b] * Span(b) /\ W = Span(b) * Pow2[b]
<1>1. /\ CursorBits \in Nat /\ b \in Nat /\ CursorBits - b \in Nat /\ b + (CursorBits - b) = CursorBits
      /\ CursorBits - b \in 0..CursorBits /\ CursorBits \in 0..CursorBits
  BY DictAssumption
<1>2. /\ Pow2[b] \in Nat /\ Pow2[b] >= 1 /\ Span(b) \in Nat /\ Span(b) >= 1
      /\ W \in Nat /\ W >= 1
  BY <1>1, Pow2Type DEF Span, W
<1>3. b + (CursorBits - b) <= CursorBits
  BY <1>1
<1>4. Pow2[b + (CursorBits - b)] = Pow2[b] * Pow2[CursorBits - b]
  BY <1>1, <1>3, Pow2Sum
<1>5. W = Pow2[b] * Span(b)
  BY <1>1, <1>4 DEF W, Span
<1>6. Pow2[b] * Span(b) = Span(b) * Pow2[b]
  BY <1>2, SMTT(30)
<1> QED
  BY <1>1, <1>2, <1>5, <1>6

\* A word has its bucket in the low bits; reversed, it is in the block of
\* that bucket.
LEMMA WordSplit ==
  ASSUME NEW b \in 0..CursorBits, NEW v \in Word
  PROVE  /\ v % Pow2[b] \in 0..(Pow2[b] - 1)
         /\ \E h \in 0..(Span(b) - 1) :
              /\ v = h * Pow2[b] + (v % Pow2[b])
              /\ rev[v] = Reversed[b][v % Pow2[b]] * Span(b) + Reversed[CursorBits - b][h]
              /\ rev[v] % Span(b) = Reversed[CursorBits - b][h]
         /\ Block(b, v) = Reversed[b][v % Pow2[b]]
         /\ Block(b, v) \in 0..(Pow2[b] - 1)
<1> DEFINE l == v % Pow2[b]
           h == v \div Pow2[b]
<1>1. /\ CursorBits \in Nat /\ b \in Nat /\ CursorBits - b \in 0..CursorBits
      /\ Pow2[b] \in Nat /\ Pow2[b] >= 1 /\ Span(b) \in Nat /\ Span(b) >= 1
      /\ W \in Nat /\ W = Span(b) * Pow2[b]
  BY Spans
<1>2. h \in 0..(Span(b) - 1) /\ l \in 0..(Pow2[b] - 1) /\ v = h * Pow2[b] + l
  BY <1>1, Quotient, Zenon DEF Word
<1> HIDE DEF l, h
<1>3. CursorBits - b \in Nat /\ b + (CursorBits - b) = CursorBits /\ b + (CursorBits - b) <= CursorBits
  BY <1>1
<1>4. Reversed[b + (CursorBits - b)][h * Pow2[b] + l]
        = Reversed[b][l] * Pow2[CursorBits - b] + Reversed[CursorBits - b][h]
  BY <1>1, <1>2, <1>3, ReversedSplit, Zenon DEF Span
<1>5. rev[v] = Reversed[b][l] * Span(b) + Reversed[CursorBits - b][h]
  BY <1>2, <1>3, <1>4 DEF rev, Span
<1>6. Reversed[b][l] \in 0..(Pow2[b] - 1) /\ Reversed[CursorBits - b][h] \in 0..(Span(b) - 1)
  BY <1>1, <1>2, ReversedType DEF Span
<1>7. Block(b, v) = Reversed[b][l] /\ rev[v] % Span(b) = Reversed[CursorBits - b][h]
  <2> DEFINE q == Reversed[b][l]
             r == Reversed[CursorBits - b][h]
  <2>1. q \in Int /\ r \in 0..(Span(b) - 1)
    BY <1>1, <1>6
  <2> HIDE DEF q, r
  <2>2. (q * Span(b) + r) \div Span(b) = q /\ (q * Span(b) + r) % Span(b) = r
    BY <1>1, <2>1, Divides, Zenon
  <2>3. rev[v] = q * Span(b) + r
    BY <1>5 DEF q, r
  <2>4. Block(b, v) = q /\ rev[v] % Span(b) = r
    BY <2>2, <2>3 DEF Block
  <2> QED
    BY <2>4 DEF q, r
<1> QED
  BY <1>2, <1>5, <1>6, <1>7 DEF l

\* rev maps words to words and is its own inverse.
LEMMA RevWord ==
  ASSUME NEW v \in Word
  PROVE  rev[v] \in Word /\ rev[rev[v]] = v /\ rev[0] = 0 /\ 0 \in Word
<1>1. CursorBits \in 0..CursorBits
  BY DictAssumption
<1> QED
  BY <1>1, Pow2Type, ReversedType, ReversedTwice, ReversedEnds DEF Word, W, rev

\* Two words fall into the same bucket when they are in the same block.
LEMMA SameBucket ==
  ASSUME NEW b \in 0..CursorBits, NEW u \in Word, NEW v \in Word
  PROVE  u % Pow2[b] = v % Pow2[b] <=> Block(b, u) = Block(b, v)
<1>1. /\ Block(b, u) = Reversed[b][u % Pow2[b]] /\ u % Pow2[b] \in 0..(Pow2[b] - 1)
      /\ Block(b, v) = Reversed[b][v % Pow2[b]] /\ v % Pow2[b] \in 0..(Pow2[b] - 1)
  BY WordSplit
<1>2. Reversed[b][Block(b, u)] = u % Pow2[b] /\ Reversed[b][Block(b, v)] = v % Pow2[b]
  BY <1>1, ReversedTwice
<1> QED
  BY <1>1, <1>2

\* The words that are smaller than a table are the first ones of its blocks.
LEMMA LowWords ==
  ASSUME NEW b \in 0..CursorBits, NEW v \in Word
  PROVE  v < Pow2[b] <=> rev[v] % Span(b) = 0
<1>1. /\ CursorBits - b \in 0..CursorBits /\ Pow2[b] \in Nat /\ Pow2[b] >= 1 /\ Span(b) >= 1
      /\ Span(b) \in Nat
  BY Spans
<1>2. PICK h \in 0..(Span(b) - 1) :
        /\ v = h * Pow2[b] + (v % Pow2[b])
        /\ rev[v] % Span(b) = Reversed[CursorBits - b][h]
  BY WordSplit
<1>3. v % Pow2[b] \in 0..(Pow2[b] - 1)
  BY WordSplit
<1>4. v < Pow2[b] <=> h = 0
  <2>1. CASE h = 0
    BY <1>1, <1>2, <1>3, <2>1
  <2>2. CASE h >= 1
    <3>1. h * Pow2[b] >= Pow2[b]
      BY <1>1, <1>2, <2>2
    <3> QED
      BY <1>1, <1>2, <1>3, <2>2, <3>1
  <2> QED
    BY <1>1, <1>2, <2>1, <2>2
<1>5. Reversed[CursorBits - b][0] = 0
  BY <1>1, ReversedEnds
<1>6. Reversed[CursorBits - b][Reversed[CursorBits - b][h]] = h
  BY <1>1, <1>2, ReversedTwice DEF Span
<1> QED
  BY <1>2, <1>4, <1>5, <1>6

\* Incrementing the cursor goes to the first word of the next block.
LEMMA NextCursorIs ==
  ASSUME NEW b \in 0..CursorBits, NEW v \in Word
  PROVE  /\ NextCursor(v, Pow2[b]) \in Word
         /\ rev[NextCursor(v, Pow2[b])] = ((Block(b, v) + 1) * Span(b)) % W
<1> DEFINE l == v % Pow2[b]
           x == l + (W - Pow2[b])
<1>1. /\ CursorBits \in Nat /\ b \in Nat /\ CursorBits - b \in 0..CursorBits
      /\ Pow2[b] \in Nat /\ Pow2[b] >= 1 /\ Span(b) \in Nat /\ Span(b) >= 1
      /\ W \in Nat /\ W >= 1 /\ W = Span(b) * Pow2[b]
  BY Spans
<1>2. l \in 0..(Pow2[b] - 1) /\ Block(b, v) = Reversed[b][l] /\ Block(b, v) \in Nat
  BY WordSplit
<1> HIDE DEF l
<1>3. x = (Span(b) - 1) * Pow2[b] + l
  BY <1>1, <1>2
<1>4. CursorBits - b \in Nat /\ b + (CursorBits - b) = CursorBits /\ b + (CursorBits - b) <= CursorBits
      /\ Span(b) - 1 \in 0..(Pow2[CursorBits - b] - 1)
  BY <1>1 DEF Span
<1>5. Reversed[b + (CursorBits - b)][(Span(b) - 1) * Pow2[b] + l]
        = Reversed[b][l] * Pow2[CursorBits - b] + Reversed[CursorBits - b][Span(b) - 1]
  BY <1>1, <1>2, <1>4, ReversedSplit
<1>6. Reversed[CursorBits - b][Span(b) - 1] = Span(b) - 1
  BY <1>1, ReversedEnds DEF Span
<1>7. rev[x] = Block(b, v) * Span(b) + (Span(b) - 1)
  BY <1>2, <1>3, <1>4, <1>5, <1>6 DEF rev, Span
<1>8. rev[x] + 1 = (Block(b, v) + 1) * Span(b)
  BY <1>1, <1>2, <1>7
<1> DEFINE y == ((Block(b, v) + 1) * Span(b)) % W
<1>9. y \in Word
  <2>1. (Block(b, v) + 1) * Span(b) \in Nat
    BY <1>1, <1>2
  <2> QED
    BY <1>1, <2>1 DEF Word
<1>10. NextCursor(v, Pow2[b]) = rev[y]
  BY <1>8 DEF NextCursor, l
<1> HIDE DEF y
<1>11. rev[y] \in Word /\ rev[rev[y]] = y
  BY <1>9, RevWord
<1> QED
  BY <1>10, <1>11 DEF y

-----------------------------------------------------------------------------
(* Tables. *)

Chains == Seq(Hashes)
Injective(c) == \A p, q \in DOMAIN c : c[p] = c[q] => p = q

Table ==
  {t \in Seq(Chains) :
     /\ Size(t) \in {0} \union TableSizes
     /\ \A i \in DOMAIN t : Injective(t[i]) /\ \A k \in Keys(t[i]) : k % Size(t) = i - 1}

\* The sizes of tables.
LEMMA SizeType ==
  \A n \in TableSizes : n \in Nat /\ n >= 1 /\ \E b \in 0..CursorBits : n = Pow2[b]
<1> SUFFICES ASSUME NEW n \in TableSizes
             PROVE  n \in Nat /\ n >= 1 /\ \E b \in 0..CursorBits : n = Pow2[b]
  OBVIOUS
<1>1. PICK b \in 0..(CursorBits - 1) : n = Pow2[b]
  BY DEF TableSizes
<1>2. b \in 0..CursorBits
  BY <1>1, DictAssumption
<1> QED
  BY <1>1, <1>2, Pow2Type

\* Hashes are words.
LEMMA HashType == \A k \in Hashes : k \in Nat /\ k \in Word
<1>1. 0 \in 0..CursorBits
  BY DictAssumption
<1>2. W \in Nat
  BY <1>1, Spans
<1> QED
  BY <1>2, DictAssumption DEF Word

\* The number of keys in a table is 0 exactly if there is none.
LEMMA UsedZero ==
  ASSUME NEW t \in Table
  PROVE  Contents(t) \subseteq Hashes /\ Used(t) \in Nat /\ (Used(t) = 0 <=> Contents(t) = {})
<1>1. Contents(t) \subseteq Hashes
  BY DEF Contents, Keys, Table, Chains
<1>2. 0 \in 0..CursorBits
  BY DictAssumption
<1>3. W \in Nat
  BY <1>2, Spans
<1>4. Contents(t) \in SUBSET (0..(W - 1))
  BY <1>1, DictAssumption, Zenon
<1> QED
  BY <1>1, <1>3, <1>4, CardinalityBelow, Zenon DEF Used

\* A table has room for every key, and a key is in the chain of its hash or
\* not in the table.
LEMMA ChainOf ==
  ASSUME NEW t \in Table, t # <<>>, NEW k \in Hashes
  PROVE  /\ Size(t) \in TableSizes /\ Size(t) \in Nat /\ Size(t) >= 1
         /\ k % Size(t) \in 0..(Size(t) - 1)
         /\ (k % Size(t)) + 1 \in DOMAIN t
         /\ k \in Contents(t) <=> k \in Keys(Chain(t, k % Size(t)))
<1>1. t \in Seq(Chains) /\ Size(t) = Len(t) /\ Len(t) \in Nat /\ Len(t) # 0 /\ DOMAIN t = 1..Len(t)
  BY DEF Table, Size
<1>2. Size(t) \in TableSizes /\ Size(t) \in Nat /\ Size(t) >= 1
  BY <1>1, SizeType DEF Table
<1>3. k % Size(t) \in 0..(Size(t) - 1)
  BY <1>2, HashType
<1>4. (k % Size(t)) + 1 \in DOMAIN t
  BY <1>1, <1>2, <1>3
<1>5. ASSUME k \in Contents(t) PROVE k \in Keys(Chain(t, k % Size(t)))
  <2>1. PICK i \in DOMAIN t : k \in Keys(t[i])
    BY <1>5 DEF Contents
  <2>2. k % Size(t) = i - 1 /\ i \in Int
    BY <1>1, <2>1 DEF Table
  <2>3. (k % Size(t)) + 1 = i
    BY <2>2
  <2> QED
    BY <2>1, <2>3 DEF Chain
<1>6. ASSUME k \in Keys(Chain(t, k % Size(t))) PROVE k \in Contents(t)
  BY <1>4, <1>6 DEF Contents, Chain
<1> QED
  BY <1>2, <1>3, <1>4, <1>5, <1>6

Replaced(t, i, c) == [t EXCEPT ![i] = c]

\* Replacing a chain by one whose keys have the right hash gives a table.
LEMMA ReplaceChain ==
  ASSUME NEW t \in Table, NEW i \in DOMAIN t, NEW c \in Chains, Injective(c),
         \A k \in Keys(c) : k % Size(t) = i - 1
  PROVE  /\ Replaced(t, i, c) \in Table
         /\ Len(Replaced(t, i, c)) = Len(t)
         /\ Contents(Replaced(t, i, c)) = (Contents(t) \ Keys(t[i])) \union Keys(c)
<1> DEFINE u == [t EXCEPT ![i] = c]
<1>1. t \in Seq(Chains) /\ DOMAIN t = 1..Len(t)
  BY DEF Table
<1>2. u \in Seq(Chains) /\ Len(u) = Len(t) /\ DOMAIN u = DOMAIN t
  BY <1>1
<1>3. u[i] = c /\ \A j \in DOMAIN t : j # i => u[j] = t[j]
  BY <1>1
<1> HIDE DEF u
<1>4. u \in Table
  BY <1>2, <1>3 DEF Table, Size
<1>5. ASSUME NEW j \in DOMAIN t, j # i PROVE Keys(t[j]) \cap Keys(t[i]) = {}
  <2> SUFFICES ASSUME NEW k, k \in Keys(t[j]), k \in Keys(t[i]) PROVE FALSE
    OBVIOUS
  <2>1. k % Size(t) = i - 1 /\ k % Size(t) = j - 1
    BY DEF Table
  <2>2. i \in Int /\ j \in Int
    BY <1>1
  <2> QED
    BY <1>5, <2>1, <2>2
<1>6. Contents(u) = (Contents(t) \ Keys(t[i])) \union Keys(c)
  <2>1. ASSUME NEW k, k \in Contents(u) PROVE k \in (Contents(t) \ Keys(t[i])) \union Keys(c)
    <3>1. PICK j \in DOMAIN t : k \in Keys(u[j])
      BY <1>2, <2>1 DEF Contents
    <3>2. CASE j = i
      BY <1>3, <3>1, <3>2
    <3>3. CASE j # i
      BY <1>3, <1>5, <3>1, <3>3 DEF Contents
    <3> QED
      BY <3>2, <3>3
  <2>2. ASSUME NEW k, k \in Contents(t), k \notin Keys(t[i]) PROVE k \in Contents(u)
    <3>1. PICK j \in DOMAIN t : k \in Keys(t[j])
      BY <2>2 DEF Contents
    <3> QED
      BY <1>2, <1>3, <2>2, <3>1 DEF Contents
  <2>3. Keys(c) \subseteq Contents(u)
    BY <1>2, <1>3 DEF Contents
  <2> QED
    BY <2>1, <2>2, <2>3
<1> QED
  BY <1>2, <1>4, <1>6, Zenon DEF u, Replaced

\* A chain with a new key at its head.
LEMMA HeadOfChain ==
  ASSUME NEW c \in Chains, Injective(c), NEW k \in Hashes, k \notin Keys(c)
  PROVE  <<k>> \o c \in Chains /\ Injective(<<k>> \o c) /\ Keys(<<k>> \o c) = Keys(c) \union {k}
<1> DEFINE e == <<k>> \o c
<1>1. /\ e \in Seq(Hashes) /\ Len(e) = Len(c) + 1 /\ e[1] = k /\ Len(c) \in Nat
      /\ \A p \in 1..Len(c) : e[p + 1] = c[p]
  BY DEF Chains
<1>2. \A p \in 1..Len(e) : p # 1 => p - 1 \in 1..Len(c) /\ e[p] = c[p - 1] /\ p - 1 \in Int
  <2> SUFFICES ASSUME NEW p \in 1..Len(e), p # 1
               PROVE  p - 1 \in 1..Len(c) /\ e[p] = c[p - 1] /\ p - 1 \in Int
    OBVIOUS
  <2>1. p - 1 \in 1..Len(c) /\ (p - 1) + 1 = p
    BY <1>1
  <2> QED
    BY <1>1, <2>1
<1>3. DOMAIN e = 1..Len(e) /\ DOMAIN c = 1..Len(c)
  BY <1>1 DEF Chains
<1> HIDE DEF e
<1>4. Keys(e) = Keys(c) \union {k}
  <2>1. Keys(e) \subseteq Keys(c) \union {k}
    BY <1>1, <1>2, <1>3 DEF Keys
  <2>2. k \in Keys(e)
    BY <1>1, <1>3 DEF Keys
  <2>3. ASSUME NEW p \in 1..Len(c) PROVE c[p] \in Keys(e)
    <3>1. p + 1 \in 1..Len(e) /\ e[p + 1] = c[p]
      BY <1>1
    <3> QED
      BY <1>3, <3>1 DEF Keys
  <2> QED
    BY <1>3, <2>1, <2>2, <2>3 DEF Keys
<1>5. ASSUME NEW p \in DOMAIN e, NEW q \in DOMAIN e, e[p] = e[q] PROVE p = q
  <2>1. CASE p = 1 /\ q # 1
    <3>1. q - 1 \in DOMAIN c /\ e[q] = c[q - 1] /\ e[q] = k
      BY <1>1, <1>2, <1>3, <1>5, <2>1
    <3> QED
      BY <3>1, Zenon DEF Keys
  <2>2. CASE p # 1 /\ q = 1
    <3>1. p - 1 \in DOMAIN c /\ e[p] = c[p - 1] /\ e[p] = k
      BY <1>1, <1>2, <1>3, <1>5, <2>2
    <3> QED
      BY <3>1, Zenon DEF Keys
  <2>3. CASE p # 1 /\ q # 1
    <3>1. p - 1 = q - 1
      BY <1>2, <1>3, <1>5, <2>3 DEF Injective
    <3> QED
      BY <1>1, <1>3, <3>1
  <2> QED
    BY <2>1, <2>2, <2>3
<1> QED
  BY <1>1, <1>4, <1>5 DEF Chains, Injective, e

\* A new key is pushed into a table.
LEMMA PushFacts ==
  ASSUME NEW t \in Table, t # <<>>, NEW k \in Hashes, k \notin Contents(t)
  PROVE  /\ Push(t, k) \in Table /\ Len(Push(t, k)) = Len(t)
         /\ Contents(Push(t, k)) = Contents(t) \union {k}
<1> DEFINE i == (k % Size(t)) + 1
<1>1. i \in DOMAIN t /\ k % Size(t) = i - 1 /\ k \notin Keys(t[i])
  BY ChainOf DEF Chain
<1> HIDE DEF i
<1>2. t[i] \in Chains /\ Injective(t[i]) /\ \A x \in Keys(t[i]) : x % Size(t) = i - 1
  BY <1>1 DEF Table
<1>3. /\ <<k>> \o t[i] \in Chains /\ Injective(<<k>> \o t[i])
      /\ Keys(<<k>> \o t[i]) = Keys(t[i]) \union {k}
  BY <1>1, <1>2, HeadOfChain
<1>4. Push(t, k) = Replaced(t, i, <<k>> \o t[i])
  BY DEF Push, Replaced, i
<1>5. \A x \in Keys(<<k>> \o t[i]) : x % Size(t) = i - 1
  BY <1>1, <1>2, <1>3
<1>6. /\ Push(t, k) \in Table /\ Len(Push(t, k)) = Len(t)
      /\ Contents(Push(t, k)) = (Contents(t) \ Keys(t[i])) \union Keys(<<k>> \o t[i])
  BY <1>1, <1>3, <1>4, <1>5, ReplaceChain
<1>7. Keys(t[i]) \subseteq Contents(t)
  BY <1>1 DEF Contents
<1> QED
  BY <1>3, <1>6, <1>7

\* A bucket is emptied.
LEMMA ClearFacts ==
  ASSUME NEW t \in Table, NEW i \in DOMAIN t
  PROVE  /\ Replaced(t, i, <<>>) \in Table /\ Len(Replaced(t, i, <<>>)) = Len(t)
         /\ Contents(Replaced(t, i, <<>>)) = Contents(t) \ Keys(t[i])
<1>1. <<>> \in Chains /\ Keys(<<>>) = {} /\ Injective(<<>>)
  BY DEF Chains, Keys, Injective
<1> QED
  BY <1>1, ReplaceChain

\* The place of a key in its chain.
LEMMA PositionIs ==
  ASSUME NEW c \in Chains, NEW k \in Keys(c)
  PROVE  Position(c, k) \in DOMAIN c /\ c[Position(c, k)] = k
<1>1. \E i \in DOMAIN c : c[i] = k
  BY DEF Keys
<1> QED
  BY <1>1 DEF Position

\* Where the elements of a concatenation come from.
LEMMA Concat ==
  ASSUME NEW a \in Seq(Hashes), NEW b \in Seq(Hashes)
  PROVE  /\ a \o b \in Seq(Hashes) /\ Len(a \o b) = Len(a) + Len(b)
         /\ \A q \in 1..Len(a) : (a \o b)[q] = a[q]
         /\ \A q \in 1..Len(b) : (a \o b)[Len(a) + q] = b[q]
OBVIOUS

\* A chain without its p-th key.
Without(c, p) == SubSeq(c, 1, p - 1) \o SubSeq(c, p + 1, Len(c))

\* The keys after the p-th one move up by one place.
LEMMA WithoutIs ==
  ASSUME NEW c \in Chains, NEW p \in DOMAIN c
  PROVE  /\ Without(c, p) \in Chains /\ Len(Without(c, p)) = Len(c) - 1
         /\ \A q \in 1..(Len(c) - 1) : Without(c, p)[q] = IF q < p THEN c[q] ELSE c[q + 1]
<1> DEFINE a == SubSeq(c, 1, p - 1)
           b == SubSeq(c, p + 1, Len(c))
<1>1. c \in Seq(Hashes) /\ Len(c) \in Nat /\ p \in 1..Len(c) /\ DOMAIN c = 1..Len(c)
  BY DEF Chains
<1>2. a \in Seq(Hashes) /\ Len(a) = p - 1 /\ \A q \in 1..(p - 1) : a[q] = c[q]
  BY <1>1
<1>3. b \in Seq(Hashes) /\ Len(b) = Len(c) - p /\ \A q \in 1..(Len(c) - p) : b[q] = c[q + p]
  BY <1>1
<1> HIDE DEF a, b
<1>4. a \o b \in Seq(Hashes) /\ Len(a \o b) = Len(c) - 1
  <2>1. a \o b \in Seq(Hashes) /\ Len(a \o b) = Len(a) + Len(b)
    BY <1>2, <1>3, Concat
  <2> QED
    BY <1>1, <1>2, <1>3, <2>1
<1>5. ASSUME NEW q \in 1..(Len(c) - 1) PROVE (a \o b)[q] = IF q < p THEN c[q] ELSE c[q + 1]
  <2>1. CASE q < p
    <3>1. q \in 1..Len(a)
      BY <1>1, <1>2, <2>1
    <3>2. (a \o b)[q] = a[q]
      BY <1>2, <1>3, <3>1, Concat
    <3>3. a[q] = c[q]
      BY <1>2, <3>1
    <3> QED
      BY <2>1, <3>2, <3>3
  <2>2. CASE ~(q < p)
    <3> DEFINE r == q - (p - 1)
    <3>1. r \in 1..Len(b) /\ q = Len(a) + r /\ r + p = q + 1 /\ Len(b) = Len(c) - p
      BY <1>1, <1>2, <1>3, <2>2
    <3> HIDE DEF r
    <3>2. (a \o b)[q] = b[r]
      BY <1>2, <1>3, <3>1, Concat, Zenon
    <3>3. b[r] = c[q + 1]
      BY <1>3, <3>1
    <3> QED
      BY <2>2, <3>2, <3>3
  <2> QED
    BY <2>1, <2>2, Zenon
<1> QED
  BY <1>4, <1>5, Zenon DEF Without, a, b, Chains

\* Only that key leaves a chain.
LEMMA WithoutFacts ==
  ASSUME NEW c \in Chains, Injective(c), NEW p \in DOMAIN c
  PROVE  Injective(Without(c, p)) /\ Keys(Without(c, p)) = Keys(c) \ {c[p]}
<1> DEFINE e == Without(c, p)
<1>1. c \in Seq(Hashes) /\ Len(c) \in Nat /\ p \in 1..Len(c) /\ DOMAIN c = 1..Len(c)
  BY DEF Chains
<1>2. /\ e \in Chains /\ Len(e) = Len(c) - 1
      /\ \A q \in 1..(Len(c) - 1) : e[q] = IF q < p THEN c[q] ELSE c[q + 1]
  BY WithoutIs
<1>3. DOMAIN e = 1..(Len(c) - 1)
  BY <1>2 DEF Chains
<1> HIDE DEF e
<1>4. ASSUME NEW q \in DOMAIN e, NEW r \in DOMAIN e, e[q] = e[r] PROVE q = r
  <2> DEFINE f(x) == IF x < p THEN x ELSE x + 1
  <2>1. f(q) \in DOMAIN c /\ e[q] = c[f(q)] /\ f(r) \in DOMAIN c /\ e[r] = c[f(r)]
    BY <1>1, <1>2, <1>3
  <2>2. f(q) = f(r)
    BY <1>4, <2>1, Zenon DEF Injective
  <2> QED
    BY <1>1, <1>3, <2>2
<1>5. ASSUME NEW q \in DOMAIN e PROVE e[q] \in Keys(c) \ {c[p]}
  <2> DEFINE f == IF q < p THEN q ELSE q + 1
  <2>1. f \in DOMAIN c /\ e[q] = c[f] /\ f # p
    BY <1>1, <1>2, <1>3
  <2> HIDE DEF f
  <2> QED
    BY <2>1 DEF Keys, Injective
<1>6. ASSUME NEW r \in DOMAIN c, c[r] # c[p] PROVE c[r] \in Keys(e)
  <2>1. r # p
    BY <1>6
  <2>2. CASE r < p
    <3>1. r \in DOMAIN e /\ e[r] = c[r]
      BY <1>1, <1>2, <1>3, <2>2
    <3> QED
      BY <3>1 DEF Keys
  <2>3. CASE r > p
    <3>1. r - 1 \in DOMAIN e /\ ~(r - 1 < p) /\ (r - 1) + 1 = r /\ r - 1 \in 1..(Len(c) - 1)
      BY <1>1, <1>3, <2>3
    <3>2. e[r - 1] = c[r]
      BY <1>2, <3>1
    <3> QED
      BY <3>1, <3>2 DEF Keys
  <2> QED
    BY <1>1, <2>1, <2>2, <2>3
<1> QED
  BY <1>4, <1>5, <1>6 DEF Injective, Keys, e

\* A key is taken out of a table.
LEMMA UnlinkFacts ==
  ASSUME NEW t \in Table, t # <<>>, NEW k \in Hashes, k \in Contents(t)
  PROVE  /\ Unlink(t, k) \in Table /\ Len(Unlink(t, k)) = Len(t)
         /\ Contents(Unlink(t, k)) = Contents(t) \ {k}
<1> DEFINE i == (k % Size(t)) + 1
           c == t[i]
           p == Position(c, k)
<1>1. i \in DOMAIN t /\ k % Size(t) = i - 1 /\ k \in Keys(c)
  BY ChainOf DEF Chain
<1>2. c \in Chains /\ Injective(c) /\ \A x \in Keys(c) : x % Size(t) = i - 1
  BY <1>1 DEF Table
<1>3. p \in DOMAIN c /\ c[p] = k
  BY <1>1, <1>2, PositionIs
<1>4. Unlink(t, k) = Replaced(t, i, Without(c, p))
  BY DEF Unlink, Without, Chain, Replaced
<1> HIDE DEF i, p
<1>5. Without(c, p) \in Chains /\ Injective(Without(c, p)) /\ Keys(Without(c, p)) = Keys(c) \ {k}
  BY <1>2, <1>3, WithoutIs, WithoutFacts
<1>6. \A x \in Keys(Without(c, p)) : x % Size(t) = i - 1
  BY <1>2, <1>5
<1>7. /\ Unlink(t, k) \in Table /\ Len(Unlink(t, k)) = Len(t)
      /\ Contents(Unlink(t, k)) = (Contents(t) \ Keys(c)) \union Keys(Without(c, p))
  BY <1>1, <1>4, <1>5, <1>6, ReplaceChain
<1>8. Keys(c) \subseteq Contents(t)
  BY <1>1 DEF Contents
<1> QED
  BY <1>1, <1>5, <1>7, <1>8

IsMoving(f, t, chain, n) ==
  f = [i \in 0..n |-> IF i = 0 THEN t ELSE Push(f[i - 1], chain[i])]

\* The recursion of Moving has a solution.
LEMMA MovingExists ==
  ASSUME NEW t, NEW chain
  PROVE  \A n \in Nat : \E f : IsMoving(f, t, chain, n)
<1> DEFINE S == {n \in Nat : \E f : IsMoving(f, t, chain, n)}
<1>1. 0 \in S
  <2> DEFINE f == [i \in 0..0 |-> t]
  <2>1. IsMoving(f, t, chain, 0)
    BY DEF IsMoving
  <2> QED
    BY <2>1
<1>2. ASSUME NEW n \in Nat, n \in S PROVE n + 1 \in S
  <2>1. PICK f : IsMoving(f, t, chain, n)
    BY <1>2
  <2> DEFINE g == [i \in 0..n + 1 |-> IF i = 0 THEN t ELSE Push(f[i - 1], chain[i])]
  <2>2. \A i \in 0..n : g[i] = f[i]
    BY <2>1 DEF IsMoving
  <2>3. IsMoving(g, t, chain, n + 1)
    <3>1. ASSUME NEW i \in 0..n + 1, i # 0
          PROVE  Push(f[i - 1], chain[i]) = Push(g[i - 1], chain[i])
      <4> HIDE DEF g
      <4>1. i - 1 \in 0..n
        BY <3>1
      <4> QED
        BY <2>2, <4>1
    <3> QED
      BY <3>1 DEF IsMoving
  <2> HIDE DEF g
  <2> QED
    BY <2>3
<1> HIDE DEF S
<1>3. Nat \subseteq S
  BY <1>1, <1>2, NatSetInduction
<1> QED
  BY <1>3 DEF S

\* Moving is that solution: the keys of the chain are pushed one by one.
LEMMA MovingStep ==
  ASSUME NEW t, NEW chain \in Chains
  PROVE  /\ Moving(t, chain)[0] = t
         /\ \A i \in 1..Len(chain) : Moving(t, chain)[i] = Push(Moving(t, chain)[i - 1], chain[i])
<1>1. Len(chain) \in Nat
  BY DEF Chains
<1>2. Moving(t, chain) = CHOOSE f : IsMoving(f, t, chain, Len(chain))
  BY DEF Moving, IsMoving
<1>3. IsMoving(Moving(t, chain), t, chain, Len(chain))
  BY <1>1, <1>2, MovingExists
<1> QED
  BY <1>1, <1>3 DEF IsMoving

\* All keys of a chain are moved to a table that has none of them.
LEMMA MoveChainFacts ==
  ASSUME NEW t \in Table, t # <<>>, NEW chain \in Chains, Injective(chain),
         Keys(chain) \cap Contents(t) = {}
  PROVE  /\ MoveChain(t, chain) \in Table /\ Len(MoveChain(t, chain)) = Len(t)
         /\ Contents(MoveChain(t, chain)) = Contents(t) \union Keys(chain)
<1> DEFINE first(i) == {chain[j] : j \in 1..i}
           m(i) == Moving(t, chain)[i]
           S == {i \in Nat : /\ m(i) \in Table /\ Len(m(i)) = Len(t)
                             /\ Contents(m(i)) = Contents(t) \union first(i)}
<1>1. Len(chain) \in Nat /\ DOMAIN chain = 1..Len(chain) /\ chain \in Seq(Hashes)
  BY DEF Chains
<1>2. t \in Seq(Chains) /\ Len(t) \in Nat /\ Len(t) # 0
  BY DEF Table
<1>3. 0 \in S
  <2>1. first(0) = {}
    OBVIOUS
  <2>2. m(0) = t
    BY MovingStep
  <2> QED
    BY <2>1, <2>2
<1>4. ASSUME NEW i \in 1..Len(chain), i - 1 \in S PROVE i \in S
  <2>1. m(i) = Push(m(i - 1), chain[i])
    BY MovingStep
  <2>2. m(i - 1) \in Table /\ Len(m(i - 1)) = Len(t) /\ Contents(m(i - 1)) = Contents(t) \union first(i - 1)
    BY <1>4
  <2>3. m(i - 1) # <<>>
    BY <1>2, <2>2
  <2>4. chain[i] \in Hashes /\ chain[i] \in Keys(chain)
    BY <1>1 DEF Keys
  <2>5. chain[i] \notin first(i - 1)
    BY <1>1 DEF Injective
  <2>6. chain[i] \notin Contents(m(i - 1))
    BY <2>2, <2>4, <2>5
  <2>7. first(i) = first(i - 1) \union {chain[i]}
    <3>1. \A j \in 1..i : j \in 1..(i - 1) \/ j = i
      OBVIOUS
    <3>2. \A j \in 1..(i - 1) : j \in 1..i
      OBVIOUS
    <3> QED
      BY <3>1, <3>2
  <2> HIDE DEF m, first
  <2>8. /\ m(i) \in Table /\ Len(m(i)) = Len(m(i - 1))
        /\ Contents(m(i)) = Contents(m(i - 1)) \union {chain[i]}
    BY <2>1, <2>2, <2>3, <2>4, <2>6, PushFacts
  <2> QED
    BY <2>2, <2>7, <2>8
<1> HIDE DEF S
<1>5. 0..Len(chain) \subseteq S
  BY <1>1, <1>3, <1>4, UpTo, Zenon
<1>6. first(Len(chain)) = Keys(chain)
  BY <1>1 DEF Keys
<1> QED
  BY <1>1, <1>5, <1>6 DEF MoveChain, S

-----------------------------------------------------------------------------
(* Dictionaries. *)

DictType == [ht : Table \X Table, rehashidx : Int, iterators : Nat]

(* Good: tables with their keys in place, a second one exactly while       *)
(* rehashing, and nothing in the buckets of the first one that are done.   *)
Good(d) ==
  /\ d \in DictType
  /\ Contents(d.ht[1]) \cap Contents(d.ht[2]) = {}
  /\ d.rehashidx >= -1 /\ d.rehashidx <= Len(d.ht[1])
  /\ d.rehashidx # -1 <=> d.ht[2] # <<>>
  /\ d.rehashidx # -1 =>
       d.ht[1] # <<>> /\ \A i \in DOMAIN d.ht[1] : i <= d.rehashidx => d.ht[1][i] = <<>>

\* e has the keys of d.
Same(d, e) == Good(e) /\ Members(e) = Members(d) /\ e.iterators = d.iterators

\* The parts of a good dictionary.
LEMMA GoodParts ==
  ASSUME NEW d, Good(d)
  PROVE  /\ d.ht[1] \in Table /\ d.ht[2] \in Table /\ d.rehashidx \in Int /\ d.iterators \in Nat
         /\ d.ht = <<d.ht[1], d.ht[2]>>
BY DEF Good, DictType

\* A dictionary from its parts.
LEMMA NewDict ==
  ASSUME NEW t \in Table, NEW u \in Table, NEW x \in Int, NEW n \in Nat
  PROVE  [ht |-> <<t, u>>, rehashidx |-> x, iterators |-> n] \in DictType
BY DEF DictType

\* The table without buckets.
LEMMA NoTableFacts == <<>> \in Table /\ Contents(<<>>) = {}
BY DEF Table, Size, Contents

\* A non-empty chain has keys.
LEMMA KeysOfChain == \A c \in Chains : Keys(c) = {} <=> c = <<>>
<1> SUFFICES ASSUME NEW c \in Chains PROVE Keys(c) = {} <=> c = <<>>
  OBVIOUS
<1>1. CASE c = <<>>
  BY <1>1 DEF Keys
<1>2. CASE c # <<>>
  <2>1. 1 \in DOMAIN c
    BY <1>2 DEF Chains
  <2> QED
    BY <1>2, <2>1 DEF Keys
<1> QED
  BY <1>1, <1>2

\* While rehashing, with keys left in the first table, there is a bucket to
\* move: the assertion of dictRehash().
LEMMA BucketsLeft ==
  ASSUME NEW d, Good(d), dictIsRehashing(d), Contents(d.ht[1]) # {}
  PROVE  LET full == {i \in d.rehashidx..(Size(d.ht[1]) - 1) : Chain(d.ht[1], i) # <<>>}
         IN /\ full # {} /\ full \subseteq Nat
            /\ d.rehashidx \in Nat /\ d.rehashidx < Size(d.ht[1])
<1> DEFINE t == d.ht[1]
           full == {i \in d.rehashidx..(Size(t) - 1) : Chain(t, i) # <<>>}
<1>1. /\ t \in Table /\ t \in Seq(Chains) /\ Len(t) \in Nat /\ DOMAIN t = 1..Len(t)
      /\ d.rehashidx \in Nat
  BY GoodParts DEF Good, Table, dictIsRehashing
<1>2. PICK k \in Contents(t) : TRUE
  OBVIOUS
<1>3. PICK i \in DOMAIN t : k \in Keys(t[i])
  BY <1>2 DEF Contents
<1>4. t[i] # <<>>
  BY <1>3 DEF Keys
<1>5. ~(i <= d.rehashidx)
  BY <1>1, <1>3, <1>4 DEF Good, dictIsRehashing
<1>6. i - 1 \in d.rehashidx..(Size(t) - 1) /\ (i - 1) + 1 = i
  BY <1>1, <1>3, <1>5 DEF Size
<1>7. i - 1 \in full
  BY <1>4, <1>6 DEF Chain
<1>8. d.rehashidx < Size(t)
  BY <1>1, <1>6 DEF Size
<1>9. full \subseteq Nat
  BY <1>1
<1> QED
  BY <1>1, <1>7, <1>8, <1>9

\* A bucket is moved.
LEMMA MoveBucket ==
  ASSUME NEW d, Good(d), dictIsRehashing(d), NEW b \in Nat, b + 1 \in DOMAIN d.ht[1],
         d.rehashidx <= b,
         \A i \in d.rehashidx..(b - 1) : Chain(d.ht[1], i) = <<>>,
         NEW e, e = [d EXCEPT !.ht = <<[d.ht[1] EXCEPT ![b + 1] = <<>>],
                                       MoveChain(d.ht[2], Chain(d.ht[1], b))>>,
                              !.rehashidx = b + 1]
  PROVE  Same(d, e) /\ dictIsRehashing(e)
<1> DEFINE t == d.ht[1]
           u == d.ht[2]
           c == Chain(t, b)
           t1 == Replaced(t, b + 1, <<>>)
           u1 == MoveChain(u, c)
<1>1. /\ t \in Table /\ u \in Table /\ t \in Seq(Chains) /\ Len(t) \in Nat /\ DOMAIN t = 1..Len(t)
      /\ d.rehashidx \in Nat /\ d \in DictType /\ u # <<>> /\ t # <<>>
      /\ Contents(t) \cap Contents(u) = {}
  BY GoodParts DEF Good, Table, dictIsRehashing
<1>2. c = t[b + 1] /\ c \in Chains /\ Injective(c)
  BY <1>1 DEF Table, Chain
<1>3. Keys(c) \subseteq Contents(t)
  BY <1>1, <1>2 DEF Contents
<1>4. t1 \in Table /\ Len(t1) = Len(t) /\ Contents(t1) = Contents(t) \ Keys(c)
  BY <1>1, <1>2, ClearFacts
<1>5. u1 \in Table /\ Len(u1) = Len(u) /\ Contents(u1) = Contents(u) \union Keys(c)
  BY <1>1, <1>2, <1>3, MoveChainFacts
<1>6. e.ht = <<t1, u1>> /\ e.rehashidx = b + 1 /\ e.iterators = d.iterators
  BY <1>1 DEF DictType, Replaced
<1>7. e \in DictType
  <2>1. e = [ht |-> <<t1, u1>>, rehashidx |-> b + 1, iterators |-> d.iterators]
    BY <1>1, Zenon DEF DictType, Replaced
  <2>2. d.iterators \in Nat /\ b + 1 \in Int
    BY <1>1, GoodParts
  <2> HIDE DEF t1, u1
  <2>3. [ht |-> <<t1, u1>>, rehashidx |-> b + 1, iterators |-> d.iterators] \in DictType
    BY <1>4, <1>5, <2>2, NewDict, Zenon
  <2> QED
    BY <2>1, <2>3, Zenon
<1>8. u1 # <<>> /\ t1 # <<>>
  <2>1. Len(u) # 0
    BY <1>1 DEF Table
  <2> QED
    BY <1>1, <1>4, <1>5, <2>1
<1>9. ASSUME NEW i \in DOMAIN t1, i <= b + 1 PROVE t1[i] = <<>>
  <2>1. DOMAIN t1 = DOMAIN t
    BY DEF Replaced
  <2>2. CASE i = b + 1
    BY <1>1, <2>1, <2>2 DEF Replaced
  <2>3. CASE i # b + 1
    <3>1. t1[i] = t[i] /\ i \in 1..Len(t) /\ i - 1 < b /\ i - 1 \in Nat /\ (i - 1) + 1 = i
      BY <1>1, <1>9, <2>1, <2>3, SMTT(30) DEF Replaced
    <3>2. CASE i <= d.rehashidx
      BY <1>1, <3>1, <3>2 DEF Good
    <3>3. CASE i - 1 >= d.rehashidx
      <4>1. i - 1 \in d.rehashidx..(b - 1)
        BY <1>1, <3>1, <3>3
      <4>2. Chain(t, i - 1) = <<>>
        BY <4>1
      <4> QED
        BY <3>1, <4>2 DEF Chain
    <3> QED
      BY <1>1, <3>1, <3>2, <3>3
  <2> QED
    BY <2>2, <2>3
<1> HIDE DEF t, u, c, t1, u1
<1>10. Members(e) = Members(d)
  BY <1>3, <1>4, <1>5, <1>6, SMTT(30) DEF Members, t, u
<1>11. Contents(t1) \cap Contents(u1) = {}
  BY <1>1, <1>4, <1>5
<1>12. Good(e)
  BY <1>6, <1>7, <1>8, <1>9, <1>11, SMTT(30) DEF Good
<1> QED
  BY <1>6, <1>10, <1>12 DEF Same, dictIsRehashing

\* A turn of dictRehash() keeps the keys.
LEMMA RehashBucketFacts ==
  ASSUME NEW s, Good(s.d), dictIsRehashing(s.d), s.visits \in Nat
  PROVE  /\ Same(s.d, RehashBucket(s).d) /\ dictIsRehashing(RehashBucket(s).d)
         /\ RehashBucket(s).visits \in Nat
<1> DEFINE d == s.d
           t == d.ht[1]
           full == {i \in d.rehashidx..(Size(t) - 1) : Chain(t, i) # <<>>}
           b == Smallest(full)
<1>1. /\ t \in Table /\ t \in Seq(Chains) /\ Len(t) \in Nat /\ DOMAIN t = 1..Len(t)
      /\ d.rehashidx \in Nat /\ d \in DictType
  <2>1. t \in Table /\ d.rehashidx \in Int
    BY GoodParts, Zenon
  <2>2. d.rehashidx >= -1 /\ d.rehashidx # -1 /\ d \in DictType
    BY Zenon DEF Good, dictIsRehashing
  <2> HIDE DEF d
  <2> QED
    BY <2>1, <2>2 DEF Table
<1>2. CASE s.visits = 0 \/ Used(t) = 0
  <2>1. RehashBucket(s) = s
    BY <1>2 DEF RehashBucket
  <2> QED
    BY <2>1 DEF Same
<1>3. CASE ~(s.visits = 0 \/ Used(t) = 0)
  <2>1. Contents(t) # {}
    BY <1>1, <1>3, UsedZero
  <2>2. full # {} /\ full \in SUBSET Nat
    BY <2>1, BucketsLeft, Zenon
  <2> HIDE DEF full
  <2>3. b \in full /\ \A y \in full : b <= y
    BY <2>2, SmallestIs
  <2>4. b \in d.rehashidx..(Size(t) - 1) /\ Chain(t, b) # <<>> /\ b \in Nat
    BY <1>1, <2>3 DEF full
  <2>5. ASSUME NEW i \in d.rehashidx..(b - 1) PROVE Chain(t, i) = <<>>
    <3>1. i \in d.rehashidx..(Size(t) - 1) /\ ~(b <= i)
      BY <1>1, <2>4 DEF Size
    <3> QED
      BY <2>3, <3>1 DEF full
  <2>6. CASE b - d.rehashidx >= s.visits
    <3> DEFINE e == [d EXCEPT !.rehashidx = d.rehashidx + s.visits]
    <3>1. RehashBucket(s) = [d |-> e, visits |-> 0]
      BY <1>3, <2>6 DEF RehashBucket, b, full
    <3>2. /\ e \in DictType /\ e.ht = d.ht /\ e.rehashidx = d.rehashidx + s.visits
          /\ e.iterators = d.iterators
      BY <1>1 DEF DictType
    <3> HIDE DEF e
    <3>3. e.rehashidx # -1 /\ e.rehashidx >= -1 /\ e.rehashidx <= Len(t)
      BY <1>1, <2>4, <2>6, <3>2 DEF Size
    <3>4. ASSUME NEW i \in DOMAIN t, i <= e.rehashidx PROVE t[i] = <<>>
      <4>1. CASE i <= d.rehashidx
        BY <1>1, <4>1 DEF Good
      <4>2. CASE ~(i <= d.rehashidx)
        <5>1. i - 1 \in d.rehashidx..(b - 1) /\ (i - 1) + 1 = i
          BY <1>1, <2>4, <2>6, <3>2, <3>4, <4>2
        <5>2. Chain(t, i - 1) = <<>>
          BY <2>5, <5>1
        <5> QED
          BY <5>1, <5>2 DEF Chain
      <4> QED
        BY <4>1, <4>2
    <3>5. Good(e)
      BY <3>2, <3>3, <3>4 DEF Good, dictIsRehashing
    <3>6. Members(e) = Members(d)
      BY <3>2 DEF Members
    <3> QED
      BY <3>1, <3>2, <3>3, <3>5, <3>6 DEF Same, dictIsRehashing
  <2>7. CASE ~(b - d.rehashidx >= s.visits)
    <3> DEFINE e == [d EXCEPT !.ht = <<[d.ht[1] EXCEPT ![b + 1] = <<>>],
                                       MoveChain(d.ht[2], Chain(d.ht[1], b))>>,
                              !.rehashidx = b + 1]
    <3>1. RehashBucket(s) = [d |-> e, visits |-> s.visits - (b - d.rehashidx)]
      BY <1>3, <2>7 DEF RehashBucket, b, full
    <3>2. s.visits - (b - d.rehashidx) \in Nat
      BY <1>1, <2>4, <2>7, SMTT(30)
    <3>3. b + 1 \in DOMAIN d.ht[1] /\ d.rehashidx <= b
      BY <1>1, <2>4, SMTT(30) DEF Size
    <3> HIDE DEF b
    <3>4. Same(d, e) /\ dictIsRehashing(e)
      BY <2>4, <2>5, <3>3, MoveBucket, Zenon
    <3> HIDE DEF e
    <3> QED
      BY <3>1, <3>2, <3>4
  <2> QED
    BY <2>6, <2>7
<1> QED
  BY <1>2, <1>3

-----------------------------------------------------------------------------
(* Rehashing, and the calls that take a step of it. *)

IsRehash(f, d, n, m) ==
  f = [i \in 0..m |-> IF i = 0 THEN [d |-> d, visits |-> n * EmptyVisits] ELSE RehashBucket(f[i - 1])]

\* The recursion of RehashBuckets has a solution.
LEMMA RehashExists ==
  ASSUME NEW d, NEW n
  PROVE  \A m \in Nat : \E f : IsRehash(f, d, n, m)
<1> DEFINE x == [d |-> d, visits |-> n * EmptyVisits]
           S == {m \in Nat : \E f : IsRehash(f, d, n, m)}
<1>1. 0 \in S
  <2> DEFINE f == [i \in 0..0 |-> x]
  <2>1. IsRehash(f, d, n, 0)
    BY DEF IsRehash
  <2> QED
    BY <2>1
<1>2. ASSUME NEW m \in Nat, m \in S PROVE m + 1 \in S
  <2>1. PICK f : IsRehash(f, d, n, m)
    BY <1>2
  <2>2. f = [i \in 0..m |-> IF i = 0 THEN x ELSE RehashBucket(f[i - 1])]
    BY <2>1 DEF IsRehash
  <2> DEFINE g == [i \in 0..m + 1 |-> IF i = 0 THEN x ELSE RehashBucket(f[i - 1])]
  <2> HIDE DEF x
  <2>3. \A i \in 0..m : g[i] = f[i]
    BY <2>2
  <2>4. g = [i \in 0..m + 1 |-> IF i = 0 THEN x ELSE RehashBucket(g[i - 1])]
    <3>1. ASSUME NEW i \in 0..m + 1, i # 0 PROVE RehashBucket(f[i - 1]) = RehashBucket(g[i - 1])
      <4> HIDE DEF g
      <4>1. i - 1 \in 0..m
        BY <3>1
      <4> QED
        BY <2>3, <4>1
    <3> QED
      BY <3>1, Zenon
  <2> HIDE DEF g
  <2>5. IsRehash(g, d, n, m + 1)
    BY <2>4 DEF IsRehash, x
  <2> QED
    BY <2>5
<1> HIDE DEF S
<1>3. Nat \subseteq S
  BY <1>1, <1>2, NatSetInduction
<1> QED
  BY <1>3 DEF S

\* RehashBuckets is that solution: n turns of the loop.
LEMMA RehashTurns ==
  ASSUME NEW d, NEW n \in Nat
  PROVE  /\ RehashBuckets(d, n)[0] = [d |-> d, visits |-> n * EmptyVisits]
         /\ \A i \in 1..n : RehashBuckets(d, n)[i] = RehashBucket(RehashBuckets(d, n)[i - 1])
<1>1. RehashBuckets(d, n) = CHOOSE f : IsRehash(f, d, n, n)
  BY DEF RehashBuckets, IsRehash
<1>2. IsRehash(RehashBuckets(d, n), d, n, n)
  BY <1>1, RehashExists
<1> DEFINE x == [d |-> d, visits |-> n * EmptyVisits]
           f == RehashBuckets(d, n)
<1>3. f = [i \in 0..n |-> IF i = 0 THEN x ELSE RehashBucket(f[i - 1])]
  BY <1>2 DEF IsRehash
<1> HIDE DEF x, f
<1>4. f[0] = x /\ \A i \in 1..n : f[i] = RehashBucket(f[i - 1])
  BY <1>3
<1> QED
  BY <1>4 DEF x, f

\* dictRehash() keeps the keys.
LEMMA RehashFacts ==
  ASSUME NEW d, Good(d), NEW n \in Nat
  PROVE  Same(d, dictRehash(d, n))
<1>1. CASE ~dictIsRehashing(d)
  <2>1. dictRehash(d, n) = d
    BY <1>1 DEF dictRehash
  <2> QED
    BY <2>1 DEF Same
<1>2. CASE dictIsRehashing(d)
  <2> DEFINE f == RehashBuckets(d, n)
             S == {i \in Nat : Same(d, f[i].d) /\ dictIsRehashing(f[i].d) /\ f[i].visits \in Nat}
  <2>1. 0 \in S
    <3>1. f[0].d = d /\ f[0].visits = n * EmptyVisits
      <4>1. f[0] = [d |-> d, visits |-> n * EmptyVisits]
        BY RehashTurns, Zenon
      <4> HIDE DEF f
      <4> QED
        BY <4>1
    <3>2. n * EmptyVisits \in Nat
      BY DictAssumption
    <3> QED
      BY <1>2, <3>1, <3>2 DEF Same
  <2>2. ASSUME NEW i \in 1..n, i - 1 \in S PROVE i \in S
    <3> DEFINE s == f[i - 1]
    <3>1. f[i] = RehashBucket(s)
      BY RehashTurns, Zenon
    <3>2. Same(d, s.d) /\ dictIsRehashing(s.d) /\ s.visits \in Nat
      BY <2>2
    <3> HIDE DEF s, f
    <3>3. Same(s.d, f[i].d) /\ dictIsRehashing(f[i].d) /\ f[i].visits \in Nat
      BY <3>1, <3>2, RehashBucketFacts DEF Same
    <3> QED
      BY <3>2, <3>3 DEF Same
  <2> HIDE DEF S
  <2>3. n \in S
    BY <2>1, <2>2, UpTo
  <2> DEFINE e == f[n].d
  <2>4. Same(d, e) /\ dictIsRehashing(e)
    BY <2>3 DEF S
  <2>5. dictRehash(d, n) = IF Used(e.ht[1]) = 0
                           THEN [e EXCEPT !.ht = <<e.ht[2], <<>>>>, !.rehashidx = -1] ELSE e
    BY <1>2 DEF dictRehash, NoTable
  <2> HIDE DEF e
  <2>6. CASE Used(e.ht[1]) = 0
    <3> DEFINE g == [ht |-> <<e.ht[2], <<>>>>, rehashidx |-> -1, iterators |-> e.iterators]
    <3>1. e \in DictType /\ e.ht[1] \in Table /\ e.ht[2] \in Table /\ e.iterators \in Nat
      BY <2>4, GoodParts DEF Same, Good
    <3>2. dictRehash(d, n) = g
      BY <2>5, <2>6, <3>1, Zenon DEF DictType
    <3>3. g \in DictType
      <4>1. -1 \in Int
        OBVIOUS
      <4> QED
        BY <3>1, <4>1, NewDict, NoTableFacts, Zenon
    <3>4. g.ht[1] = e.ht[2] /\ g.ht[2] = <<>> /\ g.rehashidx = -1 /\ g.iterators = e.iterators
      OBVIOUS
    <3> HIDE DEF g
    <3>5. Good(g)
      BY <3>3, <3>4, NoTableFacts DEF Good
    <3>6. Contents(e.ht[1]) = {}
      BY <2>6, <3>1, UsedZero
    <3>7. Members(g) = Members(e)
      BY <3>4, <3>6, NoTableFacts DEF Members
    <3> QED
      BY <2>4, <3>2, <3>4, <3>5, <3>7, SMTT(30) DEF Same
  <2>7. CASE Used(e.ht[1]) # 0
    BY <2>4, <2>5, <2>7
  <2> QED
    BY <2>6, <2>7
<1> QED
  BY <1>1, <1>2

\* A step of rehashing keeps the keys, and with an iterator does nothing.
LEMMA RehashStepFacts ==
  ASSUME NEW d, Good(d)
  PROVE  /\ Same(d, _dictRehashStep(d))
         /\ d.iterators # 0 => _dictRehashStep(d) = d
<1>1. CASE d.iterators = 0
  BY <1>1, RehashFacts DEF _dictRehashStep
<1>2. CASE d.iterators # 0
  BY <1>2 DEF _dictRehashStep, Same
<1> QED
  BY <1>1, <1>2

\* The size of a new table is one.
LEMMA NextPower == \A size \in Nat : _dictNextPower(size) \in TableSizes
<1>1. CursorBits \in Nat /\ CursorBits \in 1..CursorBits /\ CursorBits - 1 \in 0..(CursorBits - 1)
      /\ CursorBits - 1 \in 0..CursorBits
  BY DictAssumption
<1> DEFINE h == Pow2[CursorBits - 1]
<1>2. W = 2 * h /\ h \in Nat /\ h \in TableSizes
  BY <1>1, Pow2Def, Pow2Type DEF W, TableSizes
<1> HIDE DEF h
<1>3. LONG_MAX + 1 = h
  BY <1>2 DEF LONG_MAX
<1>4. \A i \in TableSizes : i \in Nat /\ i <= h
  <2> SUFFICES ASSUME NEW i \in TableSizes PROVE i \in Nat /\ i <= h
    OBVIOUS
  <2>1. PICK b \in 0..(CursorBits - 1) : i = Pow2[b]
    BY DEF TableSizes
  <2> DEFINE a == (CursorBits - 1) - b
  <2>2. /\ a \in Nat /\ b \in Nat /\ b + a <= CursorBits /\ b + a = CursorBits - 1
        /\ b \in 0..CursorBits /\ a \in 0..CursorBits
    BY <1>1, <2>1
  <2> HIDE DEF a
  <2>3. h = Pow2[b] * Pow2[a]
    BY <2>2, Pow2Sum DEF h
  <2>4. Pow2[b] \in Nat /\ Pow2[a] \in Nat /\ Pow2[a] >= 1
    BY <2>2, Pow2Type
  <2>5. Pow2[b] * Pow2[a] >= Pow2[b]
    BY <2>4
  <2> QED
    BY <2>1, <2>3, <2>4, <2>5
<1> SUFFICES ASSUME NEW size \in Nat PROVE _dictNextPower(size) \in TableSizes
  OBVIOUS
<1>5. CASE size >= LONG_MAX
  BY <1>2, <1>3, <1>5 DEF _dictNextPower
<1>6. CASE ~(size >= LONG_MAX)
  <2> DEFINE S == {i \in TableSizes : i >= InitialSize /\ i >= size}
  <2>1. S \in SUBSET Nat
    BY <1>4
  <2>2. LONG_MAX \in Int
    BY <1>2, <1>3 DEF LONG_MAX
  <2>3. h \in S
    BY <1>2, <1>3, <1>4, <1>6, <2>2, DictAssumption
  <2> HIDE DEF S
  <2>4. Smallest(S) \in S
    BY <2>1, <2>3, SmallestIs
  <2> QED
    BY <1>6, <2>4 DEF _dictNextPower, S
<1> QED
  BY <1>5, <1>6

\* A new table has no keys.
LEMMA NewTable ==
  ASSUME NEW n \in TableSizes
  PROVE  /\ [i \in 1..n |-> <<>>] \in Table /\ Len([i \in 1..n |-> <<>>]) = n
         /\ Contents([i \in 1..n |-> <<>>]) = {} /\ [i \in 1..n |-> <<>>] # <<>>
<1> DEFINE t == [i \in 1..n |-> <<>>]
<1>1. n \in Nat /\ n >= 1
  BY SizeType
<1>2. <<>> \in Chains
  BY DEF Chains
<1>3. t \in Seq(Chains) /\ Len(t) = n /\ DOMAIN t = 1..n /\ \A i \in 1..n : t[i] = <<>>
  BY <1>1, <1>2
<1> HIDE DEF t
<1>4. Injective(<<>>) /\ Keys(<<>>) = {}
  BY DEF Injective, Keys
<1>5. t \in Table
  BY <1>3, <1>4 DEF Table, Size
<1>6. Contents(t) = {}
  BY <1>3, <1>4 DEF Contents
<1>7. t # <<>>
  BY <1>1, <1>3
<1> QED
  BY <1>3, <1>5, <1>6, <1>7, Zenon DEF t

\* dictExpand() keeps the keys: it does nothing, makes the first table, or
\* adds a second one.
LEMMA ExpandFacts ==
  ASSUME NEW d, Good(d), NEW size \in Nat, NEW e, e = dictExpand(d, size)
  PROVE  /\ Same(d, e)
         /\ d.ht[1] # <<>> => e.ht[1] = d.ht[1] /\ (e # d => ~dictIsRehashing(d) /\ Contents(e.ht[2]) = {})
         /\ e # d => e.ht[1] # <<>>
<1> DEFINE real == _dictNextPower(size)
           new == [i \in 1..real |-> <<>>]
<1>1. real \in TableSizes
  BY NextPower
<1>2. new \in Table /\ Contents(new) = {} /\ new # <<>>
  BY <1>1, NewTable
<1>3. /\ d \in DictType /\ d.ht[1] \in Table /\ d.ht[2] \in Table /\ d.rehashidx \in Int
      /\ d.iterators \in Nat
  BY GoodParts DEF Good
<1>4. CASE e = d
  BY <1>4 DEF Same
<1>5. CASE e # d
  <2>1. ~dictIsRehashing(d) /\ d.rehashidx = -1 /\ d.ht[2] = <<>>
    BY <1>5 DEF dictExpand, dictIsRehashing, Good
  <2>2. CASE d.ht[1] = <<>>
    <3>1. e = [d EXCEPT !.ht = <<new, d.ht[2]>>]
      BY <1>5, <2>2 DEF dictExpand, NoTable
    <3> HIDE DEF new
    <3>2. e = [ht |-> <<new, <<>>>>, rehashidx |-> -1, iterators |-> d.iterators]
      BY <1>3, <2>1, <3>1 DEF DictType
    <3>3. -1 \in Int
      OBVIOUS
    <3>4. [ht |-> <<new, <<>>>>, rehashidx |-> -1, iterators |-> d.iterators] \in DictType
      BY <1>2, <1>3, <3>3, NewDict, NoTableFacts, Zenon
    <3>5. e \in DictType
      BY <3>2, <3>4, Zenon
    <3>6. e.ht[1] = new /\ e.ht[2] = <<>> /\ e.rehashidx = -1 /\ e.iterators = d.iterators
      BY <3>2
    <3>7. Good(e)
      BY <3>5, <3>6, NoTableFacts DEF Good
    <3>8. Members(e) = Members(d)
      BY <1>2, <2>1, <2>2, <3>6, NoTableFacts, SMTT(30) DEF Members
    <3> QED
      BY <1>2, <2>2, <3>6, <3>7, <3>8 DEF Same
  <2>3. CASE d.ht[1] # <<>>
    <3>1. e = [d EXCEPT !.ht = <<d.ht[1], new>>, !.rehashidx = 0]
      BY <1>5, <2>3 DEF dictExpand, NoTable
    <3> HIDE DEF new
    <3>2. e = [ht |-> <<d.ht[1], new>>, rehashidx |-> 0, iterators |-> d.iterators]
      BY <1>3, <3>1, Zenon DEF DictType
    <3>3. 0 \in Int
      OBVIOUS
    <3>4. [ht |-> <<d.ht[1], new>>, rehashidx |-> 0, iterators |-> d.iterators] \in DictType
      BY <1>2, <1>3, <3>3, NewDict, Zenon
    <3>5. e \in DictType
      BY <3>2, <3>4, Zenon
    <3>6. e.ht[1] = d.ht[1] /\ e.ht[2] = new /\ e.rehashidx = 0 /\ e.iterators = d.iterators
      BY <3>2
    <3>7. \A i \in DOMAIN d.ht[1] : ~(i <= 0)
      BY <1>3 DEF Table
    <3>8. Good(e)
      BY <1>2, <2>3, <3>5, <3>6, <3>7 DEF Good
    <3>9. Members(e) = Members(d)
      BY <1>2, <2>1, <3>6, NoTableFacts, SMTT(30) DEF Members
    <3> QED
      BY <1>2, <2>1, <2>3, <3>6, <3>8, <3>9 DEF Same
  <2> QED
    BY <2>2, <2>3
<1> QED
  BY <1>4, <1>5

\* The same of _dictExpandIfNeeded(): unless it fails, there is a table.
LEMMA ExpandIfNeededFacts ==
  ASSUME NEW d, Good(d), NEW e, e = _dictExpandIfNeeded(d)
  PROVE  /\ Same(d, e)
         /\ d.ht[1] # <<>> => e.ht[1] = d.ht[1] /\ (e # d => ~dictIsRehashing(d) /\ Contents(e.ht[2]) = {})
         /\ ~(ExpandIsDue(d) /\ e = d) => e.ht[1] # <<>>
<1> DEFINE size == IF Size(d.ht[1]) = 0 THEN InitialSize ELSE Used(d.ht[1]) * 2
<1>1. size \in Nat
  <2>1. d.ht[1] \in Table
    BY GoodParts
  <2>2. Used(d.ht[1]) \in Nat /\ InitialSize \in Nat
    BY <2>1, UsedZero, SizeType, DictAssumption
  <2> QED
    BY <2>2
<1>2. CASE ~ExpandIsDue(d)
  <2>1. e = d
    BY <1>2 DEF _dictExpandIfNeeded
  <2>2. d.ht[1] # <<>>
    BY <1>2 DEF ExpandIsDue, Size, Good, dictIsRehashing
  <2> QED
    BY <2>1, <2>2 DEF Same
<1>3. CASE ExpandIsDue(d)
  <2>1. e = dictExpand(d, size)
    BY <1>3 DEF _dictExpandIfNeeded
  <2> HIDE DEF size
  <2>2. /\ Same(d, e)
        /\ d.ht[1] # <<>> => e.ht[1] = d.ht[1] /\ (e # d => ~dictIsRehashing(d) /\ Contents(e.ht[2]) = {})
        /\ e # d => e.ht[1] # <<>>
    BY <1>1, <2>1, ExpandFacts, ZenonT(40)
  <2> QED
    BY <1>3, <2>2, Zenon
<1> QED
  BY <1>2, <1>3

\* The search finds the keys of a table, and of the dictionary.
LEMMA FoundFacts ==
  ASSUME NEW d, Good(d), NEW k \in Hashes
  PROVE  /\ FoundIn(d, k, 1) <=> k \in Contents(d.ht[1])
         /\ FoundIn(d, k, 2) <=> k \in Contents(d.ht[2])
         /\ Found(d, k) <=> k \in Members(d)
<1>1. d.ht[1] \in Table /\ d.ht[2] \in Table
  BY GoodParts
<1>2. FoundIn(d, k, 1) <=> k \in Contents(d.ht[1])
  BY <1>1, ChainOf, NoTableFacts DEF FoundIn, NoTable
<1>3. FoundIn(d, k, 2) <=> k \in Contents(d.ht[2])
  BY <1>1, ChainOf, NoTableFacts DEF FoundIn, NoTable
<1>4. ~dictIsRehashing(d) => Contents(d.ht[2]) = {}
  BY NoTableFacts DEF Good, dictIsRehashing
<1> QED
  BY <1>2, <1>3, <1>4 DEF Found, Members

WithTables(d, t, u) == [d EXCEPT !.ht = <<t, u>>]

\* The dictionary with other tables of the same sizes.
LEMMA NewTables ==
  ASSUME NEW d, Good(d), NEW t \in Table, NEW u \in Table,
         Len(t) = Len(d.ht[1]), Len(u) = Len(d.ht[2]), Contents(t) \cap Contents(u) = {},
         dictIsRehashing(d) => \A i \in DOMAIN t : i <= d.rehashidx => t[i] = <<>>
  PROVE  /\ Good(WithTables(d, t, u))
         /\ WithTables(d, t, u).ht[1] = t /\ WithTables(d, t, u).ht[2] = u
         /\ WithTables(d, t, u).rehashidx = d.rehashidx
         /\ WithTables(d, t, u).iterators = d.iterators
         /\ Members(WithTables(d, t, u)) = Contents(t) \union Contents(u)
<1> DEFINE e == WithTables(d, t, u)
<1>1. /\ d \in DictType /\ d.ht[1] \in Table /\ d.ht[2] \in Table /\ d.rehashidx \in Int
      /\ d.iterators \in Nat
  BY GoodParts DEF Good
<1>2. e = [ht |-> <<t, u>>, rehashidx |-> d.rehashidx, iterators |-> d.iterators]
  BY <1>1, SMTT(30) DEF DictType, WithTables
<1>3. [ht |-> <<t, u>>, rehashidx |-> d.rehashidx, iterators |-> d.iterators] \in DictType
  BY <1>1, NewDict, Zenon
<1> HIDE DEF e
<1>4. e \in DictType
  BY <1>2, <1>3, Zenon
<1>5. e.ht[1] = t /\ e.ht[2] = u /\ e.rehashidx = d.rehashidx /\ e.iterators = d.iterators
  BY <1>2
<1>6. t # <<>> <=> d.ht[1] # <<>>
  BY <1>1 DEF Table
<1>7. u # <<>> <=> d.ht[2] # <<>>
  BY <1>1 DEF Table
<1>8. Good(e)
  BY <1>4, <1>5, <1>6, <1>7 DEF Good, dictIsRehashing
<1> QED
  BY <1>5, <1>8, SMTT(30) DEF Members, e

\* A key is pushed into the table for new keys.
LEMMA PushedFacts ==
  ASSUME NEW d, Good(d), d.ht[1] # <<>>, NEW k \in Hashes, k \notin Members(d), NEW e,
         e = [d EXCEPT !.ht = IF dictIsRehashing(d) THEN <<d.ht[1], Push(d.ht[2], k)>>
                              ELSE <<Push(d.ht[1], k), d.ht[2]>>]
  PROVE  /\ Good(e) /\ Members(e) = Members(d) \union {k} /\ e.iterators = d.iterators
         /\ e.rehashidx = d.rehashidx
<1>1. d.ht[1] \in Table /\ d.ht[2] \in Table /\ Contents(d.ht[1]) \cap Contents(d.ht[2]) = {}
  BY GoodParts DEF Good
<1>2. k \notin Contents(d.ht[1]) /\ k \notin Contents(d.ht[2])
  BY DEF Members
<1>3. CASE dictIsRehashing(d)
  <2> DEFINE u == Push(d.ht[2], k)
  <2>1. d.ht[2] # <<>>
    BY <1>3 DEF Good, dictIsRehashing
  <2>2. u \in Table /\ Len(u) = Len(d.ht[2]) /\ Contents(u) = Contents(d.ht[2]) \union {k}
    BY <1>1, <1>2, <2>1, PushFacts
  <2>3. e = WithTables(d, d.ht[1], u)
    BY <1>3 DEF WithTables
  <2> HIDE DEF u
  <2>4. Contents(d.ht[1]) \cap Contents(u) = {}
    BY <1>1, <1>2, <2>2
  <2>5. \A i \in DOMAIN d.ht[1] : i <= d.rehashidx => d.ht[1][i] = <<>>
    BY <1>3 DEF Good, dictIsRehashing
  <2> DEFINE x == WithTables(d, d.ht[1], u)
  <2>6. /\ Good(x) /\ Members(x) = Contents(d.ht[1]) \union Contents(u)
        /\ x.iterators = d.iterators /\ x.rehashidx = d.rehashidx
    BY <1>1, <2>2, <2>4, <2>5, NewTables, SMTT(30)
  <2> HIDE DEF x
  <2> QED
    BY <2>2, <2>3, <2>6, Zenon DEF Members, x
<1>4. CASE ~dictIsRehashing(d)
  <2> DEFINE t == Push(d.ht[1], k)
  <2>1. t \in Table /\ Len(t) = Len(d.ht[1]) /\ Contents(t) = Contents(d.ht[1]) \union {k}
    BY <1>1, <1>2, PushFacts
  <2>2. e = WithTables(d, t, d.ht[2])
    BY <1>4 DEF WithTables
  <2> HIDE DEF t
  <2>3. Contents(t) \cap Contents(d.ht[2]) = {}
    BY <1>1, <1>2, <2>1
  <2> DEFINE x == WithTables(d, t, d.ht[2])
  <2>4. /\ Good(x) /\ Members(x) = Contents(t) \union Contents(d.ht[2])
        /\ x.iterators = d.iterators /\ x.rehashidx = d.rehashidx
    BY <1>1, <1>4, <2>1, <2>3, NewTables, SMTT(30)
  <2> HIDE DEF x
  <2> QED
    BY <2>1, <2>2, <2>4, Zenon DEF Members, x
<1> QED
  BY <1>3, <1>4

\* dictAddRaw() adds the key or changes no key.
LEMMA AddFacts ==
  ASSUME NEW d, Good(d), NEW k \in Hashes
  PROVE  /\ Good(dictAddRaw(d, k)) /\ dictAddRaw(d, k).iterators = d.iterators
         /\ Members(dictAddRaw(d, k)) \in {Members(d), Members(d) \union {k}}
<1> DEFINE r == _dictRehashStep(d)
           e == _dictExpandIfNeeded(r)
           f == [e EXCEPT !.ht = IF dictIsRehashing(e) THEN <<e.ht[1], Push(e.ht[2], k)>>
                                 ELSE <<Push(e.ht[1], k), e.ht[2]>>]
<1>1. dictAddRaw(d, k) = IF (ExpandIsDue(r) /\ e = r) \/ Found(e, k) THEN e ELSE f
  BY DEF dictAddRaw
<1>2. Same(d, r)
  BY RehashStepFacts
<1>3. Same(r, e) /\ (~(ExpandIsDue(r) /\ e = r) => e.ht[1] # <<>>)
  BY <1>2, ExpandIfNeededFacts, Zenon DEF Same
<1> HIDE DEF r, e
<1>4. Same(d, e)
  BY <1>2, <1>3 DEF Same
<1>5. CASE (ExpandIsDue(r) /\ e = r) \/ Found(e, k)
  BY <1>1, <1>4, <1>5 DEF Same
<1>6. CASE ~((ExpandIsDue(r) /\ e = r) \/ Found(e, k))
  <2>1. Good(e) /\ e.ht[1] # <<>>
    BY <1>3, <1>4, <1>6, SMTT(30) DEF Same
  <2>2. k \notin Members(e)
    BY <1>6, <2>1, FoundFacts
  <2>3. Good(f) /\ Members(f) = Members(e) \union {k} /\ f.iterators = e.iterators
    BY <2>1, <2>2, PushedFacts, SMTT(30)
  <2> HIDE DEF f
  <2> QED
    BY <1>1, <1>4, <1>6, <2>3, SMTT(30) DEF Same
<1> QED
  BY <1>5, <1>6

\* dictSize() is 0 exactly if there are no keys.
LEMMA SizeZero ==
  ASSUME NEW d, Good(d)
  PROVE  dictSize(d) \in Nat /\ (dictSize(d) = 0 <=> Members(d) = {}) /\ Members(d) \subseteq Hashes
<1>1. d.ht[1] \in Table /\ d.ht[2] \in Table
  BY GoodParts
<1>2. /\ Contents(d.ht[1]) \subseteq Hashes /\ Used(d.ht[1]) \in Nat
      /\ (Used(d.ht[1]) = 0 <=> Contents(d.ht[1]) = {})
  BY <1>1, UsedZero
<1>3. /\ Contents(d.ht[2]) \subseteq Hashes /\ Used(d.ht[2]) \in Nat
      /\ (Used(d.ht[2]) = 0 <=> Contents(d.ht[2]) = {})
  BY <1>1, UsedZero
<1>4. Used(d.ht[1]) + Used(d.ht[2]) = 0 <=> Used(d.ht[1]) = 0 /\ Used(d.ht[2]) = 0
  BY <1>2, <1>3, SMTT(30)
<1> QED
  BY <1>2, <1>3, <1>4 DEF dictSize, Members

\* A key is taken out of the first table: the buckets that were empty still are.
LEMMA UnlinkFirst ==
  ASSUME NEW d, Good(d), NEW k \in Hashes, k \in Contents(d.ht[1]), NEW e,
         e = WithTables(d, Unlink(d.ht[1], k), d.ht[2])
  PROVE  /\ Good(e) /\ Members(e) = Members(d) \ {k} /\ e.iterators = d.iterators
         /\ e.rehashidx = d.rehashidx /\ e.ht[1] = Unlink(d.ht[1], k) /\ e.ht[2] = d.ht[2]
<1> DEFINE t == d.ht[1]
           u == Unlink(t, k)
<1>1. t \in Table /\ d.ht[2] \in Table /\ Contents(t) \cap Contents(d.ht[2]) = {}
  BY GoodParts DEF Good
<1>2. t # <<>>
  BY NoTableFacts
<1>3. u \in Table /\ Len(u) = Len(t) /\ Contents(u) = Contents(t) \ {k}
  BY <1>1, <1>2, UnlinkFacts
<1>4. ASSUME dictIsRehashing(d), NEW i \in DOMAIN u, i <= d.rehashidx PROVE u[i] = <<>>
  <2>1. DOMAIN u = DOMAIN t
    BY Zenon DEF Unlink
  <2>2. t[i] = <<>>
    BY <1>4, <2>1 DEF Good, dictIsRehashing
  <2>3. k \in Keys(t[(k % Size(t)) + 1])
    BY <1>1, <1>2, ChainOf, SMTT(30) DEF Chain
  <2>4. i # (k % Size(t)) + 1
    BY <2>2, <2>3, SMTT(30) DEF Keys
  <2>5. u[i] = t[i]
    BY <2>1, <2>4, Zenon DEF Unlink
  <2> QED
    BY <2>2, <2>5, SMTT(30)
<1>5. Contents(u) \cap Contents(d.ht[2]) = {}
  BY <1>1, <1>3, SMTT(30)
<1> HIDE DEF u
<1>6. /\ Good(WithTables(d, u, d.ht[2])) /\ WithTables(d, u, d.ht[2]).ht[1] = u
      /\ WithTables(d, u, d.ht[2]).ht[2] = d.ht[2]
      /\ WithTables(d, u, d.ht[2]).rehashidx = d.rehashidx
      /\ WithTables(d, u, d.ht[2]).iterators = d.iterators
      /\ Members(WithTables(d, u, d.ht[2])) = Contents(u) \union Contents(d.ht[2])
  BY <1>1, <1>3, <1>4, <1>5, NewTables, SMTT(30)
<1>7. e = WithTables(d, u, d.ht[2])
  BY DEF u
<1>8. Contents(u) \union Contents(d.ht[2]) = Members(d) \ {k}
  BY <1>1, <1>3, SMTT(30) DEF Members
<1> QED
  BY <1>6, <1>7, <1>8, SMTT(30) DEF u

\* A key is taken out of the second table.
LEMMA UnlinkSecond ==
  ASSUME NEW d, Good(d), NEW k \in Hashes, k \in Contents(d.ht[2]), NEW e,
         e = WithTables(d, d.ht[1], Unlink(d.ht[2], k))
  PROVE  /\ Good(e) /\ Members(e) = Members(d) \ {k} /\ e.iterators = d.iterators
         /\ e.rehashidx = d.rehashidx /\ e.ht[1] = d.ht[1] /\ e.ht[2] = Unlink(d.ht[2], k)
<1> DEFINE t == d.ht[1]
           u == Unlink(d.ht[2], k)
<1>1. t \in Table /\ d.ht[2] \in Table /\ Contents(t) \cap Contents(d.ht[2]) = {}
  BY GoodParts DEF Good
<1>2. d.ht[2] # <<>>
  BY NoTableFacts
<1>3. u \in Table /\ Len(u) = Len(d.ht[2]) /\ Contents(u) = Contents(d.ht[2]) \ {k}
  BY <1>1, <1>2, UnlinkFacts, SMTT(30)
<1>4. dictIsRehashing(d) => \A i \in DOMAIN t : i <= d.rehashidx => t[i] = <<>>
  BY DEF Good, dictIsRehashing
<1>5. Contents(t) \cap Contents(u) = {}
  BY <1>1, <1>3, SMTT(30)
<1> HIDE DEF u
<1>6. /\ Good(WithTables(d, t, u)) /\ WithTables(d, t, u).ht[1] = t
      /\ WithTables(d, t, u).ht[2] = u
      /\ WithTables(d, t, u).rehashidx = d.rehashidx
      /\ WithTables(d, t, u).iterators = d.iterators
      /\ Members(WithTables(d, t, u)) = Contents(t) \union Contents(u)
  BY <1>1, <1>3, <1>4, <1>5, NewTables, SMTT(30)
<1>7. e = WithTables(d, t, u)
  BY DEF u
<1>8. Contents(t) \union Contents(u) = Members(d) \ {k}
  BY <1>1, <1>3, SMTT(30) DEF Members
<1> QED
  BY <1>6, <1>7, <1>8, SMTT(30) DEF u

\* dictGenericDelete() takes the key out and changes no other.
LEMMA DeleteFacts ==
  ASSUME NEW d, Good(d), NEW k \in Hashes
  PROVE  /\ Good(dictGenericDelete(d, k)) /\ dictGenericDelete(d, k).iterators = d.iterators
         /\ Members(dictGenericDelete(d, k)) = Members(d) \ {k}
<1> DEFINE e == _dictRehashStep(d)
           a == WithTables(e, Unlink(e.ht[1], k), e.ht[2])
           b == WithTables(e, e.ht[1], Unlink(e.ht[2], k))
<1>1. dictGenericDelete(d, k) = IF dictSize(d) = 0 THEN d
                                ELSE IF FoundIn(e, k, 1) THEN a ELSE IF Found(e, k) THEN b ELSE e
  BY DEF dictGenericDelete, WithTables
<1>2. Same(d, e)
  BY RehashStepFacts
<1> HIDE DEF e
<1>3. Good(e) /\ Members(e) = Members(d) /\ e.iterators = d.iterators
  BY <1>2, SMTT(30) DEF Same
<1>4. CASE dictSize(d) = 0
  BY <1>1, <1>4, SizeZero, SMTT(30)
<1>5. CASE dictSize(d) # 0 /\ FoundIn(e, k, 1)
  <2>1. Good(a) /\ Members(a) = Members(e) \ {k} /\ a.iterators = e.iterators
    BY <1>3, <1>5, FoundFacts, UnlinkFirst
  <2> HIDE DEF a
  <2> QED
    BY <1>1, <1>3, <1>5, <2>1, SMTT(30)
<1>6. CASE dictSize(d) # 0 /\ ~FoundIn(e, k, 1) /\ Found(e, k)
  <2>1. k \in Contents(e.ht[2])
    BY <1>3, <1>6, FoundFacts, SMTT(30) DEF Members
  <2>2. Good(b) /\ Members(b) = Members(e) \ {k} /\ b.iterators = e.iterators
    BY <1>3, <2>1, UnlinkSecond
  <2> HIDE DEF b
  <2> QED
    BY <1>1, <1>3, <1>6, <2>2, SMTT(30)
<1>7. CASE dictSize(d) # 0 /\ ~FoundIn(e, k, 1) /\ ~Found(e, k)
  <2>1. dictGenericDelete(d, k) = e /\ k \notin Members(e)
    BY <1>1, <1>3, <1>7, FoundFacts
  <2> QED
    BY <1>3, <2>1
<1> QED
  BY <1>4, <1>5, <1>6, <1>7
=============================================================================

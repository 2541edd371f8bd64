-------------------------- MODULE RedisDictCursors --------------------------
(***************************************************************************)
(* What a call of dictScan() and a call of dictNext() return.  dictScan()  *)
(* emits every key between its cursor and the one it returns, in the order *)
(* of the reversed hashes; that order does not depend on the sizes of the  *)
(* tables, which is why SCAN survives a resize.  dictNext() returns the    *)
(* entry after the last one and passes no other, and what is added or      *)
(* deleted between two calls disturbs no other entry's place.              *)
(***************************************************************************)
EXTENDS RedisDictOperators

-----------------------------------------------------------------------------
(* What an iterator has passed. *)

\* x comes before y in a chain.
Precedes(c, x, y) == \E p, q \in DOMAIN c : p < q /\ c[p] = x /\ c[q] = y

\* The entry that an iterator returns next is where it will look for it.
Placed(d, i) ==
  /\ i.table \in 1..2 /\ i.index \in -1..(Size(d.ht[i.table]) - 1)
  /\ i.table = 2 => dictIsRehashing(d)
  /\ \/ i.next = NoEntry
     \/ i.index >= 0 /\ i.next \in Keys(Chain(d.ht[i.table], i.index))

\* The iterator has gone past the key k of table t.
PassedIn(t, i, k) ==
  LET b == k % Size(t)
  IN \/ b < i.index
     \/ b = i.index /\ (i.next = NoEntry \/ Precedes(Chain(t, b), k, i.next))

Passed(d, i, k) ==
  \/ i.table = 2 /\ k \in Contents(d.ht[1])
  \/ k \in Contents(d.ht[i.table]) /\ PassedIn(d.ht[i.table], i, k)

Idle == [on : {FALSE}, must : SUBSET Hashes, got : SUBSET Hashes, again : SUBSET Hashes]

Running == [on : {TRUE}, table : 1..2, index : Nat, entry : Hashes, next : Hashes \union {NoEntry},
            done : {FALSE}, must : SUBSET Hashes, got : SUBSET Hashes, again : SUBSET Hashes]

-----------------------------------------------------------------------------
(* dictNext(). *)

\* The entry after e in a chain: what comes before it is e and what comes
\* before e.
LEMMA AfterFacts ==
  ASSUME NEW c \in Chains, Injective(c), NEW e \in Keys(c), NEW n, n = After(c, e)
  PROVE  /\ n \in Keys(c) \union {NoEntry} /\ n # e
         /\ \A k \in Keys(c) : n = NoEntry \/ Precedes(c, k, n) <=> k = e \/ Precedes(c, k, e)
<1> DEFINE p == Position(c, e)
<1>1. p \in DOMAIN c /\ c[p] = e
  BY PositionIs
<1>2. n = IF p < Len(c) THEN c[p + 1] ELSE NoEntry
  BY DEF After
<1> HIDE DEF p
<1>3. /\ Len(c) \in Nat /\ DOMAIN c = 1..Len(c) /\ \A q \in DOMAIN c : c[q] \in Hashes
  BY DEF Chains
<1>4. \A q \in DOMAIN c : c[q] # NoEntry
  BY <1>3, HashType DEF NoEntry
<1>5. \A q, r \in DOMAIN c : c[q] = c[r] => q = r
  BY DEF Injective
<1>6. CASE p < Len(c)
  <2>1. p + 1 \in DOMAIN c /\ n = c[p + 1] /\ p # p + 1
    BY <1>1, <1>2, <1>3, <1>6
  <2>2. n \in Keys(c) /\ n # NoEntry /\ n # e
    BY <1>1, <1>4, <1>5, <2>1 DEF Keys
  <2>3. ASSUME NEW k \in Keys(c) PROVE Precedes(c, k, n) <=> k = e \/ Precedes(c, k, e)
    <3>1. PICK q \in DOMAIN c : k = c[q]
      BY DEF Keys
    <3>2. \A r \in DOMAIN c : Precedes(c, k, c[r]) <=> q < r
      BY <1>5, <3>1 DEF Precedes
    <3>3. k = e <=> q = p
      BY <1>1, <1>5, <3>1
    <3>4. q < p + 1 <=> q = p \/ q < p
      BY <1>1, <1>3, <3>1
    <3> QED
      BY <1>1, <2>1, <3>2, <3>3, <3>4
  <2> QED
    BY <2>2, <2>3
<1>7. CASE ~(p < Len(c))
  <2>1. n = NoEntry /\ p = Len(c)
    BY <1>1, <1>2, <1>3, <1>7
  <2>2. n # e
    BY <1>1, <1>4, <2>1
  <2>3. ASSUME NEW k \in Keys(c) PROVE k = e \/ Precedes(c, k, e)
    <3>1. PICK q \in DOMAIN c : k = c[q]
      BY DEF Keys
    <3>2. q = p \/ q < p
      BY <1>3, <2>1, <3>1
    <3> QED
      BY <1>1, <3>1, <3>2 DEF Precedes
  <2> QED
    BY <2>1, <2>2, <2>3
<1> QED
  BY <1>6, <1>7

\* Nothing comes before the head of a chain, nor before itself.
LEMMA HeadFacts ==
  ASSUME NEW c \in Chains, Injective(c)
  PROVE  /\ c # <<>> => Head(c) \in Keys(c) /\ \A k \in Keys(c) : ~Precedes(c, k, Head(c))
         /\ \A k : ~Precedes(c, k, k)
<1>1. /\ Len(c) \in Nat /\ DOMAIN c = 1..Len(c) /\ c \in Seq(Hashes)
  BY DEF Chains
<1>2. \A q, r \in DOMAIN c : c[q] = c[r] => q = r
  BY DEF Injective
<1>3. \A k : ~Precedes(c, k, k)
  BY <1>1, <1>2 DEF Precedes
<1>4. ASSUME c # <<>> PROVE Head(c) \in Keys(c) /\ \A k \in Keys(c) : ~Precedes(c, k, Head(c))
  <2>1. 1 \in DOMAIN c /\ Head(c) = c[1]
    BY <1>1, <1>4
  <2>2. \A p, q \in DOMAIN c : p < q => q # 1
    BY <1>1
  <2> QED
    BY <1>2, <2>1, <2>2 DEF Keys, Precedes
<1> QED
  BY <1>3, <1>4

\* An iterator at its start or between two calls of dictNext().
Iterators == [on : {TRUE}, table : 1..2, index : Int, entry : Hashes \union {NoEntry},
              next : Hashes \union {NoEntry}, done : {FALSE},
              must : SUBSET Hashes, got : SUBSET Hashes, again : SUBSET Hashes]

\* The iterator i goes on to entry e of bucket x of table t, as j.
GoesTo(d, i, t, x, e, j) ==
  /\ Good(d) /\ i \in Iterators /\ t \in 1..2 /\ (t = 2 => dictIsRehashing(d))
  /\ x \in Nat /\ x + 1 \in DOMAIN d.ht[t] /\ e \in Keys(Chain(d.ht[t], x)) /\ j = At(d, i, t, x, e)

\* It has then passed what comes before that entry, and the entry.
HasPassed(d, i, t, x, e, j) ==
  /\ j \in Running /\ Placed(d, j) /\ j.entry # j.next
  /\ j.table = t /\ j.entry = e /\ j.must = i.must /\ j.got = i.got /\ j.again = i.again
  /\ \A k \in Contents(d.ht[t]) :
        PassedIn(d.ht[t], j, k) <=>
          \/ k % Size(d.ht[t]) < x
          \/ k % Size(d.ht[t]) = x /\ (k = e \/ Precedes(Chain(d.ht[t], x), k, e))

\* An iterator that returns the entry e of bucket x of table t.
LEMMA AtFacts ==
  ASSUME NEW d, NEW i, NEW t, NEW x, NEW e, NEW j, GoesTo(d, i, t, x, e, j)
  PROVE  HasPassed(d, i, t, x, e, j)
<1> DEFINE u == d.ht[t]
           c == Chain(u, x)
           n == After(c, e)
<1>0. /\ Good(d) /\ i \in Iterators /\ t \in 1..2 /\ (t = 2 => dictIsRehashing(d))
      /\ u = d.ht[t] /\ x \in Nat /\ x + 1 \in DOMAIN u /\ e \in Keys(c) /\ j = At(d, i, t, x, e)
  BY Zenon DEF GoesTo
<1>1. u \in Table
  <2>1. t = 1 \/ t = 2
    BY <1>0
  <2> QED
    BY <1>0, <2>1, GoodParts
<1> HIDE DEF u
<1>2. c \in Chains /\ Injective(c)
  BY <1>0, <1>1 DEF Table, Chain
<1>3. e \in Hashes
  BY <1>0, <1>2 DEF Chains, Keys
<1>4. /\ n \in Keys(c) \union {NoEntry} /\ n # e
      /\ \A k \in Keys(c) : n = NoEntry \/ Precedes(c, k, n) <=> k = e \/ Precedes(c, k, e)
  BY <1>0, <1>2, AfterFacts
<1>5. n \in Hashes \union {NoEntry}
  BY <1>2, <1>4 DEF Chains, Keys
<1>6. j = [i EXCEPT !.table = t, !.index = x, !.entry = e, !.next = n]
  BY <1>0, Zenon DEF At
<1> HIDE DEF n
<1>7. /\ j \in Running /\ j.table = t /\ j.index = x /\ j.entry = e /\ j.next = n
      /\ j.must = i.must /\ j.got = i.got /\ j.again = i.again
  BY <1>0, <1>3, <1>5, <1>6, Zenon DEF Running, Iterators
<1> HIDE DEF c
<1>8. Placed(d, j)
  <2>1. x \in -1..(Size(u) - 1) /\ x >= 0
    BY <1>0, <1>1 DEF Table, Size
  <2> QED
    BY <1>0, <1>4, <1>7, <2>1 DEF Placed, c
<1>9. ASSUME NEW k \in Contents(u)
      PROVE  PassedIn(u, j, k) <=>
                \/ k % Size(u) < x
                \/ k % Size(u) = x /\ (k = e \/ Precedes(c, k, e))
  <2> DEFINE b == k % Size(u)
  <2>1. PassedIn(u, j, k) <=> (b < x \/ (b = x /\ (n = NoEntry \/ Precedes(Chain(u, b), k, n))))
    BY <1>7 DEF PassedIn
  <2>2. k \in Keys(Chain(u, b))
    <3>1. u # <<>> /\ k \in Hashes
      BY <1>1, UsedZero, NoTableFacts
    <3> QED
      BY <1>1, <3>1, ChainOf
  <2> HIDE DEF b
  <2>3. ASSUME b = x PROVE n = NoEntry \/ Precedes(Chain(u, b), k, n) <=> k = e \/ Precedes(c, k, e)
    <3>1. Chain(u, b) = c
      BY <2>3 DEF c
    <3> QED
      BY <1>4, <2>2, <3>1
  <2> QED
    BY <2>1, <2>3 DEF b
<1> QED
  BY <1>4, <1>7, <1>8, <1>9, Zenon DEF c, u, HasPassed

\* A key is in a bucket that dictNext() stops at.
LEMMA InFull ==
  ASSUME NEW d, Good(d), NEW t \in 1..2, NEW x \in Int, NEW k \in Contents(d.ht[t])
  PROVE  /\ k % Size(d.ht[t]) \in Nat /\ k \in Hashes
         /\ x <= k % Size(d.ht[t]) => k % Size(d.ht[t]) \in FullFrom(d, t, x)
<1> DEFINE u == d.ht[t]
           b == k % Size(u)
<1>1. u \in Table
  <2>1. t = 1 \/ t = 2
    OBVIOUS
  <2> QED
    BY <2>1, GoodParts
<1>2. u # <<>> /\ k \in Hashes
  BY <1>1, UsedZero, NoTableFacts
<1>3. b \in 0..(Size(u) - 1) /\ k \in Keys(Chain(u, b)) /\ Size(u) \in Nat
  BY <1>1, <1>2, ChainOf
<1>4. Keys(<<>>) = {}
  BY DEF Keys
<1>5. Chain(u, b) # <<>>
  BY <1>3, <1>4
<1>6. ASSUME x <= b PROVE b \in FullFrom(d, t, x)
  <2>1. FullFrom(d, t, x) = {y \in x..(Size(u) - 1) : Chain(u, y) # <<>>}
    BY DEF FullFrom
  <2> HIDE DEF b, u
  <2> QED
    BY <1>3, <1>5, <1>6, <2>1
<1> HIDE DEF b
<1>7. b \in Nat
  BY <1>3
<1> QED
  BY <1>2, <1>6, <1>7 DEF b

\* The first bucket with entries, and its head.
LEMMA FirstFull ==
  ASSUME NEW d, Good(d), NEW t \in 1..2, NEW x \in Nat, FullFrom(d, t, x) # {},
         NEW b, b = Smallest(FullFrom(d, t, x))
  PROVE  /\ b \in Nat /\ x <= b /\ b + 1 \in DOMAIN d.ht[t]
         /\ \A k \in Contents(d.ht[t]) : k % Size(d.ht[t]) < x \/ b <= k % Size(d.ht[t])
         /\ Head(Chain(d.ht[t], b)) \in Keys(Chain(d.ht[t], b))
         /\ \A k \in Keys(Chain(d.ht[t], b)) : ~Precedes(Chain(d.ht[t], b), k, Head(Chain(d.ht[t], b)))
<1> DEFINE u == d.ht[t]
           S == FullFrom(d, t, x)
<1>1. u \in Table
  <2>1. t = 1 \/ t = 2
    OBVIOUS
  <2> QED
    BY <2>1, GoodParts
<1>2. Size(u) \in Nat /\ DOMAIN u = 1..Size(u)
  BY <1>1 DEF Table, Size
<1>3. S = {y \in x..(Size(u) - 1) : Chain(u, y) # <<>>}
  BY DEF FullFrom
<1>4. S \subseteq Nat /\ S # {}
  BY <1>2, <1>3
<1> HIDE DEF S
<1>5. b \in S /\ \A y \in S : b <= y
  BY <1>4, SmallestIs DEF S
<1>6. b \in x..(Size(u) - 1) /\ Chain(u, b) # <<>>
  BY <1>3, <1>5
<1>7. b \in Nat /\ x <= b /\ b + 1 \in DOMAIN u
  BY <1>2, <1>6
<1>8. ASSUME NEW k \in Contents(u) PROVE k % Size(u) < x \/ b <= k % Size(u)
  <2>1. k % Size(u) \in Nat /\ (x <= k % Size(u) => k % Size(u) \in S)
    BY InFull DEF S
  <2> QED
    BY <1>5, <2>1
<1>9. Chain(u, b) \in Chains /\ Injective(Chain(u, b))
  BY <1>1, <1>7 DEF Table, Chain
<1>10. /\ Head(Chain(u, b)) \in Keys(Chain(u, b))
       /\ \A k \in Keys(Chain(u, b)) : ~Precedes(Chain(u, b), k, Head(Chain(u, b)))
  BY <1>6, <1>9, HeadFacts
<1> QED
  BY <1>7, <1>8, <1>10

\* The iterator i goes on, as j, to the first entry of the first bucket of
\* table t from m on that has one.
GoesOn(d, i, t, m, j) ==
  /\ Good(d) /\ i \in Iterators /\ t \in 1..2 /\ (t = 2 => dictIsRehashing(d))
  /\ m \in Nat /\ FullFrom(d, t, m) # {}
  /\ j = At(d, i, t, Smallest(FullFrom(d, t, m)), Head(Chain(d.ht[t], Smallest(FullFrom(d, t, m)))))

\* It has then passed the buckets before m, and that entry.
HasGone(d, i, t, m, j) ==
  /\ j \in Running /\ Placed(d, j) /\ j.entry # j.next
  /\ j.table = t /\ j.must = i.must /\ j.got = i.got /\ j.again = i.again
  /\ j.entry \in Contents(d.ht[t]) /\ m <= j.entry % Size(d.ht[t])
  /\ \A k \in Contents(d.ht[t]) :
        PassedIn(d.ht[t], j, k) <=> k % Size(d.ht[t]) < m \/ k = j.entry

\* That is what dictNext() does when a chain is at its end.
LEMMA FirstEntry ==
  ASSUME NEW d, NEW i, NEW t, NEW m, NEW j, GoesOn(d, i, t, m, j)
  PROVE  HasGone(d, i, t, m, j)
<1> DEFINE u == d.ht[t]
           b == Smallest(FullFrom(d, t, m))
           c == Chain(u, b)
           e == Head(c)
<1>1. u \in Table /\ m \in Nat
  <2>1. Good(d) /\ (t = 1 \/ t = 2) /\ m \in Nat
    BY DEF GoesOn
  <2> QED
    BY <2>1, GoodParts
<1>2. /\ b \in Nat /\ m <= b /\ b + 1 \in DOMAIN u
      /\ \A k \in Contents(u) : k % Size(u) < m \/ b <= k % Size(u)
      /\ e \in Keys(c)
      /\ \A k \in Keys(c) : ~Precedes(c, k, e)
  <2>1. Good(d) /\ t \in 1..2 /\ m \in Nat /\ FullFrom(d, t, m) # {}
    BY Zenon DEF GoesOn
  <2> QED
    BY <2>1, FirstFull, ZenonT(40)
<1>3. c = Chain(u, b) /\ c = u[b + 1]
  BY Zenon DEF Chain
<1>4. HasPassed(d, i, t, b, e, j)
  <2>1. GoesTo(d, i, t, b, e, j)
    BY <1>2, Zenon DEF GoesOn, GoesTo
  <2> HIDE DEF b, e
  <2> QED
    BY <2>1, AtFacts, Zenon
<1>5. /\ j \in Running /\ Placed(d, j) /\ j.entry # j.next
      /\ j.table = t /\ j.entry = e /\ j.must = i.must /\ j.got = i.got /\ j.again = i.again
      /\ \A k \in Contents(u) :
            PassedIn(u, j, k) <=>
              \/ k % Size(u) < b
              \/ k % Size(u) = b /\ (k = e \/ Precedes(c, k, e))
  BY <1>4, Zenon DEF HasPassed
<1> HIDE DEF u, b, c, e
<1>6. e \in Contents(u) /\ e % Size(u) = b
  BY <1>1, <1>2, <1>3 DEF Contents, Table
<1>7. ASSUME NEW k \in Contents(u) PROVE PassedIn(u, j, k) <=> k % Size(u) < m \/ k = e
  <2> DEFINE y == k % Size(u)
  <2>1. u # <<>> /\ k \in Hashes
    BY <1>1, NoTableFacts, UsedZero
  <2>2. y \in Nat /\ (y = b => k \in Keys(c))
    <3>1. y \in 0..(Size(u) - 1) /\ k \in Keys(Chain(u, y)) /\ Size(u) \in Nat
      BY <1>1, <2>1, ChainOf, Zenon
    <3> HIDE DEF y
    <3>2. \A n \in Nat : \A z \in 0..(n - 1) : z \in Nat
      OBVIOUS
    <3> QED
      BY <1>3, <3>1, <3>2, Zenon
  <2>3. PassedIn(u, j, k) <=> y < b \/ (y = b /\ (k = e \/ Precedes(c, k, e)))
    BY <1>5, Zenon
  <2>4. y < m \/ b <= y
    BY <1>2, Zenon
  <2>5. k = e => y = b
    BY <1>6, Zenon
  <2>6. y = b => ~Precedes(c, k, e)
    BY <1>2, <2>2, Zenon
  <2>7. y < b <=> y < m
    <3> HIDE DEF y
    <3> QED
      BY <1>1, <1>2, <2>2, <2>4
  <2> QED
    BY <2>3, <2>5, <2>6, <2>7, Zenon
<1>8. /\ j.entry \in Contents(u) /\ m <= j.entry % Size(u)
      /\ \A k \in Contents(u) : PassedIn(u, j, k) <=> k % Size(u) < m \/ k = j.entry
  BY <1>2, <1>5, <1>6, <1>7, Zenon
<1> QED
  BY <1>5, <1>8, Zenon DEF u, HasGone

\* dictNext() returns an entry that was not passed, and passes it and nothing
\* else; it ends when all have been passed.
LEMMA IterNextFacts ==
  ASSUME NEW d, Good(d), NEW i \in Iterators, Placed(d, i), NEW j, j = IterNext(d, i)
  PROVE  \/ /\ j = [i EXCEPT !.done = TRUE] /\ \A k \in Members(d) : Passed(d, i, k)
         \/ /\ j \in Running /\ Placed(d, j) /\ j.entry # j.next
            /\ j.must = i.must /\ j.got = i.got /\ j.again = i.again
            /\ j.entry \in Members(d) /\ ~Passed(d, i, j.entry)
            /\ \A k \in Members(d) : Passed(d, j, k) <=> Passed(d, i, k) \/ k = j.entry
<1> DEFINE t == i.table
           u == d.ht[t]
           x == i.index
           here == FullFrom(d, t, x + 1)
           there == IF t = 1 /\ dictIsRehashing(d) THEN FullFrom(d, 2, 0) ELSE {}
           first(s, S) == At(d, i, s, Smallest(S), Head(Chain(d.ht[s], Smallest(S))))
           C1 == Contents(d.ht[1])
           C2 == Contents(d.ht[2])
           Good2 == /\ j \in Running /\ Placed(d, j) /\ j.entry # j.next
                    /\ j.must = i.must /\ j.got = i.got /\ j.again = i.again
                    /\ j.entry \in Members(d) /\ ~Passed(d, i, j.entry)
                    /\ \A k \in Members(d) : Passed(d, j, k) <=> Passed(d, i, k) \/ k = j.entry
           Done == j = [i EXCEPT !.done = TRUE] /\ \A k \in Members(d) : Passed(d, i, k)
<1>1. /\ t \in 1..2 /\ (t = 1 \/ t = 2) /\ x \in Int /\ i.next \in Hashes \union {NoEntry}
  BY DEF Iterators
<1>2. /\ x \in -1..(Size(u) - 1) /\ (t = 2 => dictIsRehashing(d))
      /\ i.next = NoEntry \/ (x >= 0 /\ i.next \in Keys(Chain(u, x)))
  BY DEF Placed
<1>3. /\ j = IF i.next # NoEntry THEN At(d, i, t, x, i.next)
             ELSE IF here # {} THEN first(t, here)
             ELSE IF there # {} THEN first(2, there)
             ELSE [i EXCEPT !.done = TRUE]
  BY DEF IterNext
<1>4. u \in Table /\ Size(u) \in Nat /\ DOMAIN u = 1..Size(u) /\ x + 1 \in Nat
  <2>1. u \in Table
    BY <1>1, GoodParts
  <2> HIDE DEF u
  <2> QED
    BY <1>2, <2>1 DEF Table, Size
<1>5. /\ Members(d) = C1 \union C2 /\ C1 \cap C2 = {}
      /\ \A k : k \in C2 => dictIsRehashing(d)
  BY NoTableFacts DEF Members, Good, dictIsRehashing
<1>6. /\ \A k : Passed(d, i, k) <=> (t = 2 /\ k \in C1) \/ (k \in Contents(u) /\ PassedIn(u, i, k))
      /\ \A k : Passed(d, j, k) <=> \/ j.table = 2 /\ k \in C1
                                    \/ k \in Contents(d.ht[j.table]) /\ PassedIn(d.ht[j.table], j, k)
  BY DEF Passed
<1>7. t = 1 => Contents(u) = C1
  OBVIOUS
<1>8. t = 2 => Contents(u) = C2
  OBVIOUS
<1>9. \A k \in Contents(u) : k % Size(u) \in Nat /\ k \in Hashes /\ (x + 1 <= k % Size(u) => k % Size(u) \in here)
  <2>1. TAKE k \in Contents(u)
  <2>2. x + 1 \in Int /\ k \in Contents(d.ht[t]) /\ Size(d.ht[t]) = Size(u) /\ here = FullFrom(d, t, x + 1)
    BY <1>4
  <2> HIDE DEF t, x, u, here
  <2> QED
    BY <1>1, <2>2, InFull
<1>10. ASSUME i.next = NoEntry, NEW k \in Contents(u) PROVE PassedIn(u, i, k) <=> k % Size(u) <= x
  <2>1. PassedIn(u, i, k) <=> k % Size(u) < x \/ k % Size(u) = x
    BY <1>10 DEF PassedIn
  <2> QED
    BY <1>1, <1>9, <2>1
<1>11. ASSUME i.next # NoEntry PROVE Good2
  <2> DEFINE e == i.next
             c == Chain(u, x)
  <2>1. j = At(d, i, t, x, e)
    BY <1>3, <1>11
  <2>2. e \in Keys(c) /\ x \in Nat /\ x + 1 \in DOMAIN u
    BY <1>2, <1>4, <1>11
  <2>3. c \in Chains /\ Injective(c)
    BY <1>4, <2>2 DEF Table, Chain
  <2>4. e \in Contents(u) /\ e % Size(u) = x
    BY <1>4, <2>2 DEF Contents, Chain, Table
  <2>5. /\ j \in Running /\ Placed(d, j) /\ j.entry # j.next
        /\ j.table = t /\ j.entry = e /\ j.must = i.must /\ j.got = i.got /\ j.again = i.again
        /\ \A k \in Contents(u) :
              PassedIn(u, j, k) <=>
                \/ k % Size(u) < x
                \/ k % Size(u) = x /\ (k = e \/ Precedes(c, k, e))
    <3>2. GoesTo(d, i, t, x, e, j)
      BY <1>1, <1>2, <2>1, <2>2, Zenon DEF GoesTo
    <3>3. HasPassed(d, i, t, x, e, j)
      BY <3>2, AtFacts, Zenon
    <3> QED
      BY <3>3, Zenon DEF HasPassed
  <2>6. \A k \in Contents(u) : PassedIn(u, i, k) <=>
                \/ k % Size(u) < x
                \/ k % Size(u) = x /\ Precedes(c, k, e)
    BY <1>11 DEF PassedIn
  <2>7. ~Precedes(c, e, e)
    BY <2>3, HeadFacts
  <2>8. Passed(d, j, e) /\ ~Passed(d, i, e)
    <3>1. x \in Int /\ ~(x < x)
      BY <1>1
    <3>2. ~PassedIn(u, i, e)
      BY <2>4, <2>6, <2>7, <3>1
    <3>3. ~(t = 2 /\ e \in C1)
      BY <1>5, <1>8, <2>4
    <3> HIDE DEF u, t
    <3> QED
      BY <1>6, <2>4, <2>5, <3>2, <3>3 DEF u
  <2>9. \A k : Passed(d, j, k) <=> (t = 2 /\ k \in C1) \/ (k \in Contents(u) /\ PassedIn(u, j, k))
    BY <1>6, <2>5
  <2>10. e \in Members(d)
    BY <1>1, <1>5, <1>7, <1>8, <2>4
  <2> HIDE DEF u, t, e, c, C1, C2
  <2>11. ASSUME NEW k PROVE Passed(d, j, k) <=> Passed(d, i, k) \/ k = e
    BY <1>6, <2>4, <2>5, <2>6, <2>8, <2>9
  <2> QED
    BY <2>5, <2>8, <2>10, <2>11
<1>12. ASSUME i.next = NoEntry, here # {} PROVE Good2
  <2>1. j = first(t, here)
    BY <1>3, <1>12
  <2>2. /\ j \in Running /\ Placed(d, j) /\ j.entry # j.next
        /\ j.table = t /\ j.must = i.must /\ j.got = i.got /\ j.again = i.again
        /\ j.entry \in Contents(u) /\ x + 1 <= j.entry % Size(u)
        /\ \A k \in Contents(u) : PassedIn(u, j, k) <=> k % Size(u) < x + 1 \/ k = j.entry
    <3>1. GoesOn(d, i, t, x + 1, j)
      BY <1>1, <1>2, <1>4, <1>12, <2>1, Zenon DEF GoesOn
    <3>2. HasGone(d, i, t, x + 1, j)
      BY <3>1, FirstEntry, Zenon
    <3> QED
      BY <3>2, Zenon DEF HasGone
  <2>3. \A k : Passed(d, j, k) <=> (t = 2 /\ k \in C1) \/ (k \in Contents(u) /\ PassedIn(u, j, k))
    BY <1>6, <2>2, Zenon
  <2> HIDE DEF u, t, x, C1, C2, here
  <2>4. ASSUME NEW k \in Contents(u) PROVE PassedIn(u, j, k) <=> PassedIn(u, i, k) \/ k = j.entry
    <3>1. PassedIn(u, i, k) <=> k % Size(u) <= x
      BY <1>10, <1>12, Zenon
    <3>2. k % Size(u) \in Nat
      BY <1>9, Zenon
    <3>3. k % Size(u) < x + 1 <=> k % Size(u) <= x
      BY <1>1, <3>2
    <3> QED
      BY <2>2, <3>1, <3>3, Zenon
  <2>5. ~PassedIn(u, i, j.entry)
    <3>1. PassedIn(u, i, j.entry) <=> j.entry % Size(u) <= x
      BY <1>10, <1>12, <2>2, Zenon
    <3>2. j.entry % Size(u) \in Nat
      BY <1>9, <2>2, Zenon
    <3> QED
      BY <1>1, <2>2, <3>1, <3>2
  <2>6. ~(t = 2 /\ j.entry \in C1)
    BY <1>5, <1>8, <2>2
  <2>7. j.entry \in Members(d)
    BY <1>1, <1>5, <1>7, <1>8, <2>2
  <2>8. ASSUME NEW k PROVE Passed(d, j, k) <=> Passed(d, i, k) \/ k = j.entry
    BY <1>6, <2>2, <2>3, <2>4, Zenon
  <2> QED
    BY <1>6, <2>2, <2>5, <2>6, <2>7, <2>8, Zenon
<1>13. ASSUME i.next = NoEntry, here = {} PROVE \A k \in Contents(u) : PassedIn(u, i, k)
  <2>1. TAKE k \in Contents(u)
  <2>2. k % Size(u) \in Nat /\ ~(x + 1 <= k % Size(u))
    BY <1>9, <1>13
  <2>3. k % Size(u) <= x
    BY <1>1, <2>2
  <2> QED
    BY <1>10, <1>13, <2>3
<1>14. ASSUME i.next = NoEntry, here = {}, there # {} PROVE Good2
  <2> DEFINE w == d.ht[2]
  <2>1. t = 1 /\ dictIsRehashing(d) /\ there = FullFrom(d, 2, 0)
    BY <1>14
  <2>2. j = first(2, there)
    BY <1>3, <1>14
  <2>3. /\ j \in Running /\ Placed(d, j) /\ j.entry # j.next
        /\ j.table = 2 /\ j.must = i.must /\ j.got = i.got /\ j.again = i.again
        /\ j.entry \in Contents(w) /\ 0 <= j.entry % Size(w)
        /\ \A k \in Contents(w) : PassedIn(w, j, k) <=> k % Size(w) < 0 \/ k = j.entry
    <3>1. 2 \in 1..2 /\ 0 \in Nat
      OBVIOUS
    <3>2. GoesOn(d, i, 2, 0, j)
      BY <1>14, <2>1, <2>2, <3>1, Zenon DEF GoesOn
    <3>3. HasGone(d, i, 2, 0, j)
      BY <3>2, FirstEntry, Zenon
    <3> QED
      BY <3>3, Zenon DEF HasGone
  <2>4. \A k \in C2 : PassedIn(w, j, k) <=> k = j.entry
    <3>1. TAKE k \in C2
    <3>2. k % Size(w) \in Nat
      <4>1. 2 \in 1..2 /\ 0 \in Int
        OBVIOUS
      <4> QED
        BY <4>1, InFull, Zenon
    <3>3. ~(k % Size(w) < 0)
      <4> DEFINE y == k % Size(w)
      <4>1. y \in Nat
        BY <3>2, Zenon
      <4> HIDE DEF y
      <4>2. ~(y < 0)
        BY <4>1
      <4> QED
        BY <4>2, Zenon DEF y
    <3> QED
      BY <2>3, <3>3, Zenon
  <2>5. \A k : Passed(d, j, k) <=> k \in C1 \/ (k \in C2 /\ PassedIn(w, j, k))
    BY <1>6, <2>3, Zenon
  <2> HIDE DEF u, t, w, C1, C2, here, there
  <2>6. \A k \in C1 : Passed(d, i, k)
    BY <1>6, <1>7, <1>13, <1>14, <2>1, Zenon
  <2>7. \A k : Passed(d, i, k) => k \in C1
    <3>1. t # 2
      BY <2>1
    <3> QED
      BY <1>6, <1>7, <2>1, <3>1, Zenon
  <2>8. j.entry \in C2 /\ j.entry \notin C1
    BY <1>5, <2>3 DEF C2, w
  <2> QED
    BY <1>5, <2>3, <2>4, <2>5, <2>6, <2>7, <2>8, Zenon
<1>15. ASSUME i.next = NoEntry, here = {}, there = {} PROVE Done
  <2>1. j = [i EXCEPT !.done = TRUE]
    BY <1>3, <1>15
  <2>2. \A k \in Contents(u) : Passed(d, i, k)
    BY <1>6, <1>13, <1>15
  <2>3. CASE t = 2
    BY <1>5, <1>6, <1>8, <2>1, <2>2, <2>3
  <2>4. CASE t = 1
    <3>1. C2 = {}
      <4>1. SUFFICES ASSUME NEW k \in C2 PROVE FALSE
        OBVIOUS
      <4>2. there = FullFrom(d, 2, 0)
        BY <1>5, <2>4
      <4>3. 2 \in 1..2 /\ 0 \in Int
        OBVIOUS
      <4>4. /\ k % Size(d.ht[2]) \in Nat
            /\ 0 <= k % Size(d.ht[2]) => k % Size(d.ht[2]) \in FullFrom(d, 2, 0)
        BY <4>3, InFull
      <4>5. \A y \in Nat : 0 <= y
        OBVIOUS
      <4> QED
        BY <1>15, <4>2, <4>4, <4>5
    <3> QED
      BY <1>5, <1>7, <2>1, <2>2, <2>4, <3>1
  <2> QED
    BY <1>1, <2>3, <2>4
<1> HIDE DEF here, there
<1> QED
  BY <1>11, <1>12, <1>14, <1>15

-----------------------------------------------------------------------------
(* The order of a chain survives insertions and deletions. *)

\* A key put at the head leaves the others in their order.
LEMMA HeadOrder ==
  ASSUME NEW c \in Chains, NEW k \in Hashes, k \notin Keys(c), NEW x \in Keys(c), NEW y \in Keys(c)
  PROVE  Precedes(<<k>> \o c, x, y) <=> Precedes(c, x, y)
<1> DEFINE h == <<k>> \o c
<1>1. /\ <<k>> \in Seq(Hashes) /\ c \in Seq(Hashes) /\ Len(<<k>>) = 1 /\ <<k>>[1] = k
      /\ Len(c) \in Nat /\ DOMAIN c = 1..Len(c)
  BY DEF Chains
<1>2. /\ h \in Seq(Hashes) /\ Len(h) = 1 + Len(c) /\ h[1] = k
      /\ \A q \in 1..Len(c) : h[1 + q] = c[q]
  <2>1. 1 \in 1..1
    OBVIOUS
  <2> QED
    BY <1>1, <2>1, Concat
<1>3. DOMAIN h = 1..(1 + Len(c))
  BY <1>2
<1> HIDE DEF h
<1>4. ASSUME NEW p \in DOMAIN c, NEW q \in DOMAIN c, p < q, c[p] = x, c[q] = y
      PROVE  Precedes(h, x, y)
  <2>1. 1 + p \in DOMAIN h /\ 1 + q \in DOMAIN h /\ 1 + p < 1 + q
    BY <1>1, <1>3, <1>4
  <2>2. h[1 + p] = x /\ h[1 + q] = y
    BY <1>1, <1>2, <1>4
  <2> QED
    BY <2>1, <2>2 DEF Precedes
<1>5. ASSUME NEW p \in DOMAIN h, NEW q \in DOMAIN h, p < q, h[p] = x, h[q] = y
      PROVE  Precedes(c, x, y)
  <2>1. p # 1 /\ q # 1
    BY <1>2, <1>5
  <2>2. p - 1 \in 1..Len(c) /\ q - 1 \in 1..Len(c) /\ p - 1 < q - 1 /\ 1 + (p - 1) = p /\ 1 + (q - 1) = q
    BY <1>1, <1>3, <1>5, <2>1
  <2>3. c[p - 1] = x /\ c[q - 1] = y
    BY <1>2, <1>5, <2>2
  <2> QED
    BY <1>1, <2>2, <2>3 DEF Precedes
<1> QED
  BY <1>4, <1>5 DEF Precedes, h

\* A key unlinked leaves the others in their order.
LEMMA WithoutOrder ==
  ASSUME NEW c \in Chains, NEW p \in DOMAIN c, NEW x, NEW y, x # c[p], y # c[p]
  PROVE  Precedes(Without(c, p), x, y) <=> Precedes(c, x, y)
<1> DEFINE w == Without(c, p)
<1>1. /\ c \in Seq(Hashes) /\ Len(c) \in Nat /\ DOMAIN c = 1..Len(c)
      /\ w \in Seq(Hashes) /\ Len(w) = Len(c) - 1
      /\ \A q \in 1..(Len(c) - 1) : w[q] = IF q < p THEN c[q] ELSE c[q + 1]
  <2>1. /\ w \in Chains /\ Len(w) = Len(c) - 1
        /\ \A q \in 1..(Len(c) - 1) : w[q] = IF q < p THEN c[q] ELSE c[q + 1]
    BY WithoutIs
  <2> HIDE DEF w
  <2> QED
    BY <2>1 DEF Chains
<1> HIDE DEF w
<1>2. DOMAIN w = 1..(Len(c) - 1)
  BY <1>1
<1>3. ASSUME NEW u \in DOMAIN c, NEW v \in DOMAIN c, u < v, c[u] = x, c[v] = y
      PROVE  Precedes(w, x, y)
  <2> DEFINE a == IF u < p THEN u ELSE u - 1
             b == IF v < p THEN v ELSE v - 1
  <2>1. u # p /\ v # p
    BY <1>3
  <2>2. a \in DOMAIN w /\ b \in DOMAIN w /\ a < b
    BY <1>1, <1>2, <1>3, <2>1
  <2>3. w[a] = x
    <3>1. CASE u < p
      BY <1>1, <1>2, <1>3, <2>2, <3>1
    <3>2. CASE ~(u < p)
      <4>1. a = u - 1 /\ ~(a < p) /\ a + 1 = u
        BY <1>1, <2>1, <3>2
      <4> HIDE DEF a
      <4> QED
        BY <1>1, <1>2, <1>3, <2>2, <4>1
    <3> QED
      BY <3>1, <3>2
  <2>4. w[b] = y
    <3>1. CASE v < p
      BY <1>1, <1>2, <1>3, <2>2, <3>1
    <3>2. CASE ~(v < p)
      <4>1. b = v - 1 /\ ~(b < p) /\ b + 1 = v
        BY <1>1, <2>1, <3>2
      <4> HIDE DEF b
      <4> QED
        BY <1>1, <1>2, <1>3, <2>2, <4>1
    <3> QED
      BY <3>1, <3>2
  <2> HIDE DEF a, b
  <2> QED
    BY <2>2, <2>3, <2>4 DEF Precedes
<1>4. ASSUME NEW u \in DOMAIN w, NEW v \in DOMAIN w, u < v, w[u] = x, w[v] = y
      PROVE  Precedes(c, x, y)
  <2> DEFINE a == IF u < p THEN u ELSE u + 1
             b == IF v < p THEN v ELSE v + 1
  <2>1. a \in DOMAIN c /\ b \in DOMAIN c /\ a < b
    BY <1>1, <1>2, <1>4
  <2>2. c[a] = x /\ c[b] = y
    BY <1>1, <1>2, <1>4
  <2> HIDE DEF a, b
  <2> QED
    BY <2>1, <2>2 DEF Precedes
<1> QED
  BY <1>3, <1>4 DEF Precedes, w

\* A table keeps where the keys of K are, and their order.
TableKeeps(t, u, K) ==
  /\ Len(u) = Len(t) /\ DOMAIN u = DOMAIN t
  /\ \A i \in DOMAIN t : \A x \in K :
       /\ x \in Keys(t[i]) <=> x \in Keys(u[i])
       /\ x \in Keys(t[i]) => \A y \in K : y \in Keys(t[i]) =>
            (Precedes(t[i], x, y) <=> Precedes(u[i], x, y))

\* Replacing a chain by one with the same order keeps the table.
LEMMA ReplacedKeeps ==
  ASSUME NEW t \in Table, NEW j \in DOMAIN t, NEW c, NEW K,
         \A x \in K : x \in Keys(t[j]) <=> x \in Keys(c),
         \A x, y \in K : x \in Keys(t[j]) /\ y \in Keys(t[j]) =>
            (Precedes(t[j], x, y) <=> Precedes(c, x, y)),
         Len(Replaced(t, j, c)) = Len(t)
  PROVE  TableKeeps(t, Replaced(t, j, c), K)
<1> DEFINE u == Replaced(t, j, c)
<1>1. DOMAIN u = DOMAIN t /\ u[j] = c /\ \A i \in DOMAIN t : i # j => u[i] = t[i]
  BY DEF Replaced, Table
<1>2. Len(u) = Len(t)
  OBVIOUS
<1> HIDE DEF u
<1>3. ASSUME NEW i \in DOMAIN t, NEW x \in K
      PROVE  /\ x \in Keys(t[i]) <=> x \in Keys(u[i])
             /\ x \in Keys(t[i]) => \A y \in K : y \in Keys(t[i]) =>
                  (Precedes(t[i], x, y) <=> Precedes(u[i], x, y))
  BY <1>1
<1> QED
  BY <1>1, <1>2, <1>3 DEF TableKeeps, u

\* Inserting k keeps the other keys of a table.
LEMMA PushKeeps ==
  ASSUME NEW t \in Table, t # <<>>, NEW k \in Hashes, k \notin Contents(t)
  PROVE  TableKeeps(t, Push(t, k), Hashes \ {k})
<1> DEFINE j == (k % Size(t)) + 1
           c == <<k>> \o t[j]
<1>1. j \in DOMAIN t
  BY ChainOf
<1>2. t[j] \in Chains /\ Injective(t[j]) /\ k \notin Keys(t[j])
  BY <1>1 DEF Table, Contents
<1>3. Push(t, k) = Replaced(t, j, c)
  BY <1>1 DEF Push, Replaced, Table
<1>4. Len(Replaced(t, j, c)) = Len(t)
  BY <1>3, PushFacts
<1> HIDE DEF j
<1>5. Keys(c) = Keys(t[j]) \union {k}
  BY <1>2, HeadOfChain
<1>6. \A x, y \in Hashes \ {k} : x \in Keys(t[j]) /\ y \in Keys(t[j]) =>
            (Precedes(t[j], x, y) <=> Precedes(c, x, y))
  BY <1>2, HeadOrder
<1> HIDE DEF c
<1> QED
  BY <1>1, <1>3, <1>4, <1>5, <1>6, ReplacedKeeps, Zenon

\* Deleting k keeps the other keys of a table.
LEMMA UnlinkKeeps ==
  ASSUME NEW t \in Table, t # <<>>, NEW k \in Hashes, k \in Contents(t)
  PROVE  TableKeeps(t, Unlink(t, k), Hashes \ {k})
<1> DEFINE j == (k % Size(t)) + 1
           p == Position(t[j], k)
           c == Without(t[j], p)
<1>1. j \in DOMAIN t /\ k \in Keys(t[j])
  BY ChainOf DEF Chain
<1>2. t[j] \in Chains /\ Injective(t[j])
  BY <1>1 DEF Table
<1>3. p \in DOMAIN t[j] /\ t[j][p] = k
  BY <1>1, <1>2, PositionIs
<1>4. Unlink(t, k) = Replaced(t, j, c)
  BY DEF Unlink, Replaced, Chain, Without
<1>5. Len(Replaced(t, j, c)) = Len(t)
  BY <1>4, UnlinkFacts
<1> HIDE DEF j, p
<1>6. Keys(c) = Keys(t[j]) \ {k}
  BY <1>2, <1>3, WithoutFacts
<1>7. \A x, y \in Hashes \ {k} : x \in Keys(t[j]) /\ y \in Keys(t[j]) =>
            (Precedes(t[j], x, y) <=> Precedes(c, x, y))
  BY <1>2, <1>3, WithoutOrder
<1> HIDE DEF c
<1> QED
  BY <1>1, <1>4, <1>5, <1>6, <1>7, ReplacedKeeps

\* An iterator stands where it stood, and has passed the same keys, in a
\* dictionary that keeps the table it is in.
LEMMA PassedKept ==
  ASSUME NEW d, Good(d), NEW e, Good(e), NEW i \in Running, Placed(d, i), NEW K \in SUBSET Hashes,
         TableKeeps(d.ht[i.table], e.ht[i.table], K), i.next \in K \union {NoEntry},
         i.table = 2 => /\ dictIsRehashing(e)
                        /\ \A k \in K : k \in Contents(d.ht[1]) <=> k \in Contents(e.ht[1])
  PROVE  Placed(e, i) /\ \A k \in K : Passed(d, i, k) <=> Passed(e, i, k)
<1> DEFINE t == d.ht[i.table]
           u == e.ht[i.table]
           n == i.next
           x == i.index
<1>1. i.table \in 1..2 /\ x \in Nat
  BY DEF Running
<1>2. t \in Table /\ u \in Table
  <2>1. i.table = 1 \/ i.table = 2
    BY <1>1
  <2> QED
    BY <2>1, GoodParts
<1>3. /\ x \in -1..(Size(t) - 1) /\ (i.table = 2 => dictIsRehashing(d))
      /\ n = NoEntry \/ (x >= 0 /\ n \in Keys(Chain(t, x)))
  BY DEF Placed
<1>4. TableKeeps(t, u, K) /\ n \in K \union {NoEntry}
  OBVIOUS
<1>5. /\ Placed(e, i) <=> /\ i.table \in 1..2 /\ x \in -1..(Size(u) - 1)
                          /\ i.table = 2 => dictIsRehashing(e)
                          /\ n = NoEntry \/ (x >= 0 /\ n \in Keys(Chain(u, x)))
      /\ \A k : Passed(d, i, k) <=> \/ i.table = 2 /\ k \in Contents(d.ht[1])
                                    \/ k \in Contents(t) /\ PassedIn(t, i, k)
      /\ \A k : Passed(e, i, k) <=> \/ i.table = 2 /\ k \in Contents(e.ht[1])
                                    \/ k \in Contents(u) /\ PassedIn(u, i, k)
  BY DEF Placed, Passed
<1> HIDE DEF t, u, n, x
<1>6. Size(u) = Size(t) /\ DOMAIN u = DOMAIN t /\ Size(t) \in Nat /\ DOMAIN t = 1..Size(t)
  BY <1>2, <1>4 DEF TableKeeps, Size, Table
<1>7. x + 1 \in DOMAIN t
  BY <1>1, <1>3, <1>6
<1>8. n = NoEntry \/ (n \in K /\ n \in Keys(Chain(t, x)) /\ n \in Keys(Chain(u, x)))
  BY <1>3, <1>4, <1>7 DEF TableKeeps, Chain
<1>9. Placed(e, i)
  BY <1>1, <1>3, <1>5, <1>6, <1>8
<1>10. \A k \in K : k \in Contents(t) <=> k \in Contents(u)
  BY <1>4, <1>6 DEF TableKeeps, Contents
<1>11. ASSUME NEW k \in K, k \in Contents(t) PROVE PassedIn(t, i, k) <=> PassedIn(u, i, k)
  <2> DEFINE b == k % Size(t)
  <2>1. /\ PassedIn(t, i, k) <=> (b < x \/ (b = x /\ (n = NoEntry \/ Precedes(Chain(t, b), k, n))))
        /\ PassedIn(u, i, k) <=> (b < x \/ (b = x /\ (n = NoEntry \/ Precedes(Chain(u, b), k, n))))
    BY <1>6 DEF PassedIn, n, x
  <2>2. t # <<>>
    BY <1>11, NoTableFacts
  <2>3. k \in Keys(Chain(t, b)) /\ b + 1 \in DOMAIN t
    BY <1>2, <1>11, <2>2, ChainOf
  <2> HIDE DEF b
  <2>4. CASE b = x /\ n # NoEntry
    <3>1. n \in K /\ n \in Keys(Chain(t, b))
      BY <1>8, <2>4
    <3>2. Precedes(Chain(t, b), k, n) <=> Precedes(Chain(u, b), k, n)
      BY <1>4, <2>3, <3>1 DEF TableKeeps, Chain
    <3> QED
      BY <2>1, <2>4, <3>2
  <2>5. CASE ~(b = x /\ n # NoEntry)
    BY <2>1, <2>5
  <2> QED
    BY <2>4, <2>5
<1>12. ASSUME NEW k \in K PROVE Passed(d, i, k) <=> Passed(e, i, k)
  BY <1>5, <1>10, <1>11
<1> QED
  BY <1>9, <1>12

-----------------------------------------------------------------------------
(* SCAN. *)

IsExpanding(f, t, v, n) ==
  f = [i \in 0..n |-> IF i = 0 THEN [v |-> v, keys |-> {}] ELSE ScanBucket(t, f[i - 1])]

\* The recursion of Expanding has a solution.
LEMMA ExpandingExists ==
  ASSUME NEW t, NEW v
  PROVE  \A n \in Nat : \E f : IsExpanding(f, t, v, n)
<1> DEFINE x == [v |-> v, keys |-> {}]
           S == {n \in Nat : \E f : IsExpanding(f, t, v, n)}
<1>1. 0 \in S
  <2> DEFINE f == [i \in 0..0 |-> x]
  <2>1. IsExpanding(f, t, v, 0)
    BY DEF IsExpanding
  <2> QED
    BY <2>1
<1>2. ASSUME NEW n \in Nat, n \in S PROVE n + 1 \in S
  <2>1. PICK f : IsExpanding(f, t, v, n)
    BY <1>2
  <2>2. f = [i \in 0..n |-> IF i = 0 THEN x ELSE ScanBucket(t, f[i - 1])]
    BY <2>1, Zenon DEF IsExpanding
  <2> DEFINE g == [i \in 0..n + 1 |-> IF i = 0 THEN x ELSE ScanBucket(t, f[i - 1])]
  <2> HIDE DEF x
  <2>3. \A i \in 0..n : g[i] = f[i]
    BY <2>2
  <2>4. g = [i \in 0..n + 1 |-> IF i = 0 THEN x ELSE ScanBucket(t, g[i - 1])]
    <3>1. ASSUME NEW i \in 0..n + 1, i # 0 PROVE ScanBucket(t, f[i - 1]) = ScanBucket(t, g[i - 1])
      <4> HIDE DEF g
      <4>1. i - 1 \in 0..n
        BY <3>1
      <4> QED
        BY <2>3, <4>1
    <3> QED
      BY <3>1, Zenon
  <2> HIDE DEF g
  <2>5. IsExpanding(g, t, v, n + 1)
    BY <2>4, Zenon DEF IsExpanding, x
  <2> QED
    BY <2>5
<1> HIDE DEF S
<1>3. Nat \subseteq S
  BY <1>1, <1>2, NatSetInduction
<1> QED
  BY <1>3 DEF S

\* Expanding is that solution: one bucket after the other.
LEMMA ExpandingTurns ==
  ASSUME NEW t, NEW v, Size(t) \in Nat
  PROVE  /\ Expanding(t, v)[0] = [v |-> v, keys |-> {}]
         /\ \A i \in 1..Size(t) : Expanding(t, v)[i] = ScanBucket(t, Expanding(t, v)[i - 1])
<1>1. Expanding(t, v) = CHOOSE f : IsExpanding(f, t, v, Size(t))
  BY DEF Expanding, IsExpanding
<1>2. IsExpanding(Expanding(t, v), t, v, Size(t))
  BY <1>1, ExpandingExists
<1> DEFINE x == [v |-> v, keys |-> {}]
           f == Expanding(t, v)
<1>3. f = [i \in 0..Size(t) |-> IF i = 0 THEN x ELSE ScanBucket(t, f[i - 1])]
  BY <1>2, Zenon DEF IsExpanding
<1> HIDE DEF x, f
<1>4. f[0] = x /\ \A i \in 1..Size(t) : f[i] = ScanBucket(t, f[i - 1])
  BY <1>3
<1> QED
  BY <1>4 DEF x, f

\* Multiples and division.
LEMMA Multiples ==
  ASSUME NEW s \in Nat, s >= 1, NEW q \in Nat, NEW a \in Nat
  PROVE  /\ a < q * s <=> a \div s < q
         /\ q * s <= a <=> q <= a \div s
         /\ a \div s \in Nat
<1> DEFINE d == a \div s
           r == a % s
<1>1. d \in Nat /\ r \in 0..(s - 1) /\ a = d * s + r
  OBVIOUS
<1> HIDE DEF d, r
<1>2. CASE d < q
  <2>1. (d + 1) * s <= q * s
    BY <1>1, <1>2
  <2>2. (d + 1) * s = d * s + s
    BY <1>1
  <2> QED
    BY <1>1, <1>2, <2>1, <2>2 DEF d
<1>3. CASE q <= d
  <2>1. q * s <= d * s
    BY <1>1, <1>3
  <2> QED
    BY <1>1, <1>3, <2>1 DEF d
<1> QED
  BY <1>1, <1>2, <1>3 DEF d

\* The first word of block q, or 0 after the last block.
LEMMA BlockStart ==
  ASSUME NEW b \in 0..CursorBits, NEW q \in 0..Pow2[b]
  PROVE  /\ q * Span(b) \in 0..W
         /\ (q * Span(b)) % W = IF q = Pow2[b] THEN 0 ELSE q * Span(b)
         /\ q * Span(b) = W <=> q = Pow2[b]
<1>1. /\ Pow2[b] \in Nat /\ Pow2[b] >= 1 /\ Span(b) \in Nat /\ Span(b) >= 1
      /\ W \in Nat /\ W >= 1 /\ W = Pow2[b] * Span(b)
  BY Spans
<1>2. CASE q = Pow2[b]
  BY <1>1, <1>2
<1>3. CASE q # Pow2[b]
  <2>1. q \in Nat /\ q + 1 <= Pow2[b]
    BY <1>1, <1>3
  <2>2. (q + 1) * Span(b) <= Pow2[b] * Span(b)
    BY <1>1, <2>1
  <2>3. (q + 1) * Span(b) = q * Span(b) + Span(b)
    BY <1>1, <2>1
  <2>4. q * Span(b) \in Nat
    BY <1>1, <2>1
  <2>5. q * Span(b) < W
    BY <1>1, <2>2, <2>3, <2>4
  <2> QED
    BY <1>1, <1>3, <2>4, <2>5
<1> QED
  BY <1>2, <1>3

\* The keys between the cursor v and the cursor x at the start of the next
\* block are those of the block of v.
LEMMA BetweenCursors ==
  ASSUME NEW b \in 0..CursorBits, NEW v \in Word, NEW x \in Word, NEW k \in Word,
         rev[x] = ((Block(b, v) + 1) * Span(b)) % W,
         rev[v] <= rev[k], x = 0 \/ rev[k] < rev[x]
  PROVE  /\ Block(b, k) = Block(b, v)
         /\ rev[k] < (Block(b, v) + 1) * Span(b)
<1> DEFINE B == Block(b, v)
           q == B + 1
<1>1. /\ Pow2[b] \in Nat /\ Pow2[b] >= 1 /\ Span(b) \in Nat /\ Span(b) >= 1
      /\ W \in Nat /\ W >= 1
  BY Spans
<1>2. B \in 0..(Pow2[b] - 1) /\ Block(b, k) \in 0..(Pow2[b] - 1)
  BY WordSplit
<1>3. q \in 0..Pow2[b] /\ q \in Nat /\ q >= 1
  BY <1>1, <1>2
<1>4. rev[v] \in Word /\ rev[k] \in Word /\ rev[0] = 0
  BY RevWord
<1> HIDE DEF B, q
<1>5. /\ q * Span(b) \in 0..W
      /\ (q * Span(b)) % W = IF q = Pow2[b] THEN 0 ELSE q * Span(b)
      /\ q * Span(b) = W <=> q = Pow2[b]
  BY <1>3, BlockStart
<1>6. rev[k] < q * Span(b)
  <2>1. CASE q = Pow2[b]
    BY <1>1, <1>4, <1>5, <2>1 DEF Word
  <2>2. CASE q # Pow2[b]
    <3>1. rev[x] = q * Span(b)
      BY <1>5, <2>2 DEF q, B
    <3>2. q * Span(b) >= 1
      BY <1>1, <1>3, SMTT(30)
    <3>3. x # 0
      BY <1>4, <1>5, <3>1, <3>2, SMTT(30)
    <3> QED
      BY <3>1, <3>3
  <2> QED
    BY <2>1, <2>2
<1>7. rev[k] \in Nat /\ rev[v] \in Nat
  BY <1>1, <1>4 DEF Word
<1>8. Block(b, k) < q
  BY <1>1, <1>3, <1>6, <1>7, Multiples, SMTT(30) DEF Block
<1>9. B * Span(b) <= rev[v]
  BY <1>1, <1>2, <1>7, Multiples DEF Block, B
<1>10. B * Span(b) <= rev[k] /\ B \in Nat
  BY <1>1, <1>2, <1>7, <1>9
<1>11. B <= Block(b, k)
  BY <1>1, <1>7, <1>10, Multiples DEF Block
<1>12. Block(b, k) = B
  BY <1>2, <1>8, <1>10, <1>11, SMTT(30) DEF q
<1> QED
  BY <1>6, <1>12 DEF q, B

\* What ScanBucket emits: the keys whose block is that of the cursor.
LEMMA ScanBucketFacts ==
  ASSUME NEW t \in Table, NEW b \in 0..CursorBits, Size(t) = Pow2[b],
         NEW a, a.v \in Word, a.keys \subseteq Contents(t)
  PROVE  /\ ScanBucket(t, a).v \in Word
         /\ rev[ScanBucket(t, a).v] = ((Block(b, a.v) + 1) * Span(b)) % W
         /\ ScanBucket(t, a).keys \subseteq Contents(t)
         /\ a.keys \subseteq ScanBucket(t, a).keys
         /\ \A k \in Contents(t) : Block(b, k) = Block(b, a.v) => k \in ScanBucket(t, a).keys
<1> DEFINE u == a.v
           c == Chain(t, u % Size(t))
<1>1. /\ ScanBucket(t, a).v = NextCursor(u, Pow2[b])
      /\ ScanBucket(t, a).keys = a.keys \union Keys(c)
  BY DEF ScanBucket
<1>2. /\ NextCursor(u, Pow2[b]) \in Word
      /\ rev[NextCursor(u, Pow2[b])] = ((Block(b, u) + 1) * Span(b)) % W
  BY NextCursorIs
<1>3. t # <<>> /\ (u % Size(t)) + 1 \in DOMAIN t
  <2>1. Pow2[b] \in Nat /\ Pow2[b] >= 1
    BY Spans, SMTT(30)
  <2>2. u % Pow2[b] \in 0..(Pow2[b] - 1)
    BY WordSplit
  <2>3. t \in Seq(Chains)
    BY DEF Table
  <2> QED
    BY <2>1, <2>2, <2>3 DEF Size
<1>4. Keys(c) \subseteq Contents(t)
  BY <1>3 DEF Contents, Chain
<1>5. ASSUME NEW k \in Contents(t), Block(b, k) = Block(b, u) PROVE k \in Keys(c)
  <2>1. k \in Hashes
    BY UsedZero
  <2>2. k \in Word
    BY <2>1, HashType
  <2>3. k % Pow2[b] = u % Pow2[b]
    BY <1>5, <2>2, SameBucket, SMTT(30)
  <2>4. k \in Keys(Chain(t, k % Size(t)))
    BY <1>3, <2>1, ChainOf
  <2> QED
    BY <2>3, <2>4
<1> HIDE DEF u, c
<1>6. a.keys \subseteq a.keys \union Keys(c)
  OBVIOUS
<1> QED
  BY <1>1, <1>2, <1>4, <1>5, <1>6, SMTT(30) DEF u

\* The i-th turn over the larger table has emitted i blocks, and its cursor
\* is at the start of the next one.
LEMMA ExpandingFacts ==
  ASSUME NEW t \in Table, NEW b \in 0..CursorBits, Size(t) = Pow2[b], NEW v \in Word,
         NEW n \in Nat, Block(b, v) + n <= Pow2[b], NEW f, f = Expanding(t, v)
  PROVE  \A i \in 0..n :
           /\ f[i].v \in Word /\ f[i].keys \subseteq Contents(t)
           /\ i > 0 => rev[f[i].v] = ((Block(b, v) + i) * Span(b)) % W
           /\ \A k \in Contents(t) :
                Block(b, v) <= Block(b, k) /\ Block(b, k) < Block(b, v) + i => k \in f[i].keys
<1> DEFINE B == Block(b, v)
           L == Span(b)
           P(i) == /\ f[i].v \in Word /\ f[i].keys \subseteq Contents(t)
                   /\ i > 0 => rev[f[i].v] = ((B + i) * L) % W
                   /\ \A k \in Contents(t) :
                        B <= Block(b, k) /\ Block(b, k) < B + i => k \in f[i].keys
           S == {i \in 0..n : P(i)}
<1>1. /\ Pow2[b] \in Nat /\ Pow2[b] >= 1 /\ Span(b) \in Nat /\ Span(b) >= 1
      /\ W \in Nat /\ W >= 1
  BY Spans, SMTT(30)
<1>2. B \in 0..(Pow2[b] - 1) /\ B \in Nat
  BY WordSplit, SMTT(30)
<1>3. /\ f[0] = [v |-> v, keys |-> {}]
      /\ \A i \in 1..Size(t) : f[i] = ScanBucket(t, f[i - 1])
  BY <1>1, ExpandingTurns
<1>4. \A k \in Contents(t) : k \in Word
  BY UsedZero, HashType
<1>5. \A k \in Contents(t) : Block(b, k) \in Nat
  <2>1. TAKE k \in Contents(t)
  <2>2. Block(b, k) \in 0..(Pow2[b] - 1)
    BY <1>4, WordSplit, SMTT(30)
  <2> QED
    BY <1>1, <2>2
<1>6. 0 \in S
  <2>1. f[0].v = v /\ f[0].keys = {}
    BY <1>3
  <2>2. \A k \in Contents(t) : ~(B <= Block(b, k) /\ Block(b, k) < B + 0)
    <3> HIDE DEF B
    <3> QED
      BY <1>2, <1>5
  <2>3. 0 \in 0..n /\ ~(0 > 0)
    OBVIOUS
  <2> QED
    BY <2>1, <2>2, <2>3, SMTT(30)
<1>7. ASSUME NEW i \in 1..n, i - 1 \in S PROVE i \in S
  <2> DEFINE j == i - 1
             a == f[j]
  <2>1. P(j) /\ j \in Nat /\ j + 1 = i /\ i \in Nat /\ i > 0 /\ B + j < Pow2[b] /\ i \in 1..Size(t)
        /\ i \in 0..n
    BY <1>1, <1>2, <1>7, SMTT(30)
  <2>2. f[i] = ScanBucket(t, a)
    BY <1>3, <2>1, SMTT(30)
  <2>3. Block(b, a.v) = B + j
    <3>1. CASE j = 0
      <4>1. a.v = v
        BY <1>3, <3>1, SMTT(30)
      <4> QED
        BY <1>2, <3>1, <4>1, SMTT(30)
    <3>2. CASE j > 0
      <4>1. rev[a.v] = ((B + j) * L) % W
        BY <2>1, <3>2, SMTT(30)
      <4> HIDE DEF B, j, a
      <4>2. B + j \in 0..Pow2[b] /\ B + j # Pow2[b] /\ B + j \in Int
        BY <1>1, <1>2, <2>1, SMTT(30)
      <4>3. rev[a.v] = (B + j) * L
        BY <4>1, <4>2, BlockStart, SMTT(30)
      <4>4. ((B + j) * L + 0) \div L = B + j
        BY <1>1, <4>2, Divides
      <4>5. (B + j) * L + 0 = (B + j) * L
        BY <1>1, <4>2, SMTT(30)
      <4> QED
        BY <4>3, <4>4, <4>5, SMTT(30) DEF Block
    <3> QED
      BY <2>1, <3>1, <3>2, SMTT(30)
  <2>4. a.v \in Word /\ a.keys \subseteq Contents(t)
    BY <2>1, SMTT(30)
  <2> DEFINE r == ScanBucket(t, a)
  <2>5. /\ r.v \in Word
        /\ rev[r.v] = ((Block(b, a.v) + 1) * L) % W
        /\ r.keys \subseteq Contents(t) /\ a.keys \subseteq r.keys
        /\ \A k \in Contents(t) : Block(b, k) = Block(b, a.v) => k \in r.keys
    BY <2>4, ScanBucketFacts, SMTT(30)
  <2>6. \A k \in Contents(t) : B <= Block(b, k) /\ Block(b, k) < B + j => k \in a.keys
    BY <2>1, SMTT(30)
  <2> HIDE DEF B, a, r, j, L
  <2>7. (B + j) + 1 = B + i
    BY <1>2, <2>1, SMTT(30)
  <2>8. \A k \in Contents(t) : B <= Block(b, k) /\ Block(b, k) < B + i => k \in r.keys
    <3>1. TAKE k \in Contents(t)
    <3>2. HAVE B <= Block(b, k) /\ Block(b, k) < B + i
    <3>3. Block(b, k) \in Nat
      BY <1>5, SMTT(30)
    <3>4. Block(b, k) < B + j \/ Block(b, k) = B + j
      BY <1>2, <2>1, <2>7, <3>2, <3>3, SMTT(30)
    <3> QED
      BY <2>3, <2>5, <2>6, <3>2, <3>4, SMTT(30)
  <2>9. f[i] = r
    BY <2>2, SMTT(30) DEF r
  <2>10. rev[r.v] = ((B + i) * L) % W
    BY <2>3, <2>5, <2>7, SMTT(30)
  <2> QED
    BY <2>1, <2>5, <2>8, <2>9, <2>10, SMTT(30)
<1> HIDE DEF S
<1>8. 0..n \subseteq S
  BY <1>6, <1>7, UpTo, SMTT(30)
<1> QED
  BY <1>8 DEF S

\* Of two tables the larger one has a multiple of the buckets, and a bucket
\* of the smaller one spans that many of its buckets.
LEMMA Nested ==
  ASSUME NEW b \in 0..CursorBits, NEW c \in 0..CursorBits, Pow2[b] <= Pow2[c]
  PROVE  \E m \in Nat : m >= 1 /\ Pow2[c] = Pow2[b] * m /\ Span(b) = Span(c) * m
<1>1. b \in Nat /\ c \in Nat /\ CursorBits \in Nat /\ b <= CursorBits /\ c <= CursorBits
  BY DictAssumption
<1>2. b <= c
  <2>1. SUFFICES ASSUME c < b PROVE FALSE
    BY <1>1
  <2> DEFINE e == b - c
  <2>2. e \in Nat /\ e \in 1..CursorBits /\ c + e = b /\ e - 1 \in 0..CursorBits /\ c \in 0..CursorBits
    BY <1>1, <2>1
  <2>3. Pow2[b] = Pow2[c] * Pow2[e]
    <3> HIDE DEF e
    <3>1. c + e <= CursorBits
      BY <1>1, <2>2
    <3> QED
      BY <1>1, <2>2, <3>1, Pow2Sum
  <2> HIDE DEF e
  <2>4. Pow2[e] = 2 * Pow2[e - 1] /\ Pow2[e - 1] \in Nat /\ Pow2[e - 1] >= 1
        /\ Pow2[c] \in Nat /\ Pow2[c] >= 1
    BY <2>2, Pow2Def, Pow2Type, SMTT(30)
  <2> DEFINE p == Pow2[e - 1]
             q == Pow2[c]
  <2>5. Pow2[b] = q * (2 * p) /\ p \in Nat /\ p >= 1 /\ q \in Nat /\ q >= 1 /\ Pow2[b] <= q
    BY <2>3, <2>4
  <2> HIDE DEF p, q
  <2>6. q * (2 * p) >= q * 2
    BY <2>5
  <2> QED
    BY <2>5, <2>6
<1> DEFINE e == c - b
<1>3. e \in Nat /\ b + e = c /\ (CursorBits - c) \in Nat /\ (CursorBits - c) + e = CursorBits - b
      /\ e \in 0..CursorBits /\ CursorBits - b <= CursorBits
  BY <1>1, <1>2
<1> HIDE DEF e
<1>4. Pow2[c] = Pow2[b] * Pow2[e]
  BY <1>1, <1>3, Pow2Sum
<1>5. Pow2[CursorBits - b] = Pow2[CursorBits - c] * Pow2[e]
  <2> DEFINE g == CursorBits - c
  <2>1. g \in Nat /\ g + e = CursorBits - b /\ g + e <= CursorBits
    BY <1>3
  <2> HIDE DEF g
  <2>2. Pow2[g + e] = Pow2[g] * Pow2[e]
    BY <1>3, <2>1, Pow2Sum, SMTT(30)
  <2> QED
    BY <2>1, <2>2 DEF g
<1>6. Pow2[e] \in Nat /\ Pow2[e] >= 1
  BY <1>3, Pow2Type
<1> QED
  BY <1>4, <1>5, <1>6 DEF Span

\* A multiple of the larger span, or not.
LEMMA InsideSpan ==
  ASSUME NEW L \in Nat, L >= 1, NEW m \in Nat, NEW B \in Nat, NEW x \in Nat,
         B * m < x, x < (B + 1) * m
  PROVE  (x * L) % (L * m) # 0
<1> DEFINE y == x - B * m
<1>1. B * m \in Nat /\ (B + 1) * m = B * m + m
  OBVIOUS
<1>2. y \in Nat /\ y >= 1 /\ y < m /\ x = B * m + y /\ m >= 1
  BY <1>1
<1> HIDE DEF y
<1>3. x * L = B * (L * m) + y * L
  BY <1>2
<1>4. y * L \in Nat /\ y * L >= 1 /\ L * m \in Nat
  BY <1>2
<1>5. y * L < L * m
  BY <1>2
<1>6. y * L \in 0..(L * m - 1) /\ L * m >= 1
  BY <1>4, <1>5
<1> DEFINE z == y * L
           s == L * m
<1>7. z \in 0..(s - 1) /\ s \in Nat /\ s >= 1 /\ x * L = B * s + z /\ B \in Int /\ z >= 1
  BY <1>3, <1>4, <1>6
<1> HIDE DEF z, s
<1>8. (B * s + z) % s = z
  BY <1>7, Divides
<1> QED
  BY <1>7, <1>8 DEF s

\* The block of the smaller table that a cursor is in, in blocks of the
\* larger table.
LEMMA NestedBlocks ==
  ASSUME NEW L \in Nat, L >= 1, NEW m \in Nat, m >= 1, NEW p \in Nat, NEW r \in Nat,
         r < p * (L * m)
  PROVE  LET B0 == r \div (L * m)  B1 == r \div L
         IN /\ B0 \in Nat /\ B1 \in Nat /\ B0 * m <= B1 /\ B1 < (B0 + 1) * m
            /\ (B0 + 1) * m <= p * m
<1> DEFINE B0 == r \div (L * m)
           B1 == r \div L
           M == L * m
<1>1. M \in Nat /\ M >= 1
  OBVIOUS
<1> HIDE DEF M
<1>2. B0 \in Nat /\ B0 * M <= r /\ r < (B0 + 1) * M /\ B0 < p
  <2>1. B0 = r \div M /\ r < p * M
    BY DEF M
  <2> HIDE DEF B0
  <2>2. B0 \in Nat
    BY <1>1, <2>1, Multiples
  <2>3. B0 + 1 \in Nat /\ B0 <= B0 /\ B0 < B0 + 1
    BY <2>2
  <2>4. B0 * M <= r
    BY <1>1, <2>1, <2>2, <2>3, Multiples, SMTT(30)
  <2>5. r < (B0 + 1) * M
    BY <1>1, <2>1, <2>3, Multiples, SMTT(30)
  <2>6. B0 < p
    BY <1>1, <2>1, Multiples
  <2> QED
    BY <2>2, <2>4, <2>5, <2>6
<1>3. B1 \in Nat
  BY Multiples
<1> HIDE DEF B0, B1
<1>4. B0 * M = (B0 * m) * L /\ (B0 + 1) * M = ((B0 + 1) * m) * L /\ B0 * m \in Nat /\ (B0 + 1) * m \in Nat
  BY <1>2 DEF M
<1>5. B0 * m <= B1 /\ B1 < (B0 + 1) * m
  BY <1>2, <1>4, Multiples, Zenon DEF B1
<1>6. (B0 + 1) * m <= p * m
  BY <1>2
<1> QED
  BY <1>2, <1>3, <1>5, <1>6, SMTT(30) DEF B0, B1

\* The turn at which the loop over the larger table ends: the one that
\* reaches the end of the smaller table's block.
LEMMA LastTurn ==
  ASSUME NEW t0 \in Table, NEW t1 \in Table, NEW b \in 0..CursorBits, NEW c \in 0..CursorBits,
         Size(t0) = Pow2[b], Size(t1) = Pow2[c], Pow2[b] <= Pow2[c], NEW v \in Word,
         NEW r, r = Expansions(t0, t1, v)
  PROVE  /\ \E w, K : r = [v |-> w, keys |-> K]
         /\ r.v \in Word /\ r.keys \subseteq Contents(t1)
         /\ rev[r.v] = ((Block(b, v) + 1) * Span(b)) % W
         /\ \A k \in Contents(t1) :
              rev[v] <= rev[k] /\ rev[k] < (Block(b, v) + 1) * Span(b) => k \in r.keys
<1>1. PICK m \in Nat : m >= 1 /\ Pow2[c] = Pow2[b] * m /\ Span(b) = Span(c) * m
  BY Nested
<1> DEFINE B0 == Block(b, v)
           B1 == Block(c, v)
           L == Span(c)
           n == (B0 + 1) * m - B1
           f == Expanding(t1, v)
           exits == {i \in 1..Size(t1) : (f[i].v % Size(t1)) \div Size(t0) = 0}
<1>2. /\ Pow2[b] \in Nat /\ Pow2[b] >= 1 /\ Pow2[c] \in Nat /\ Pow2[c] >= 1
      /\ Span(b) \in Nat /\ Span(b) >= 1
      /\ L \in Nat /\ L >= 1 /\ W \in Nat /\ W >= 1 /\ W = Pow2[b] * Span(b)
  BY Spans
<1>3. rev[v] \in Nat /\ rev[v] < Pow2[b] * (L * m) /\ Span(b) = L * m
  <2>1. rev[v] \in Word
    BY RevWord
  <2>2. rev[v] \in Nat /\ rev[v] < W
    BY <1>2, <2>1, SMTT(30) DEF Word
  <2> QED
    BY <1>1, <1>2, <2>2, SMTT(30)
<1> HIDE DEF L
<1>4. /\ B0 \in Nat /\ B1 \in Nat /\ B0 * m <= B1 /\ B1 < (B0 + 1) * m
      /\ (B0 + 1) * m <= Pow2[c]
  <2>1. B0 = rev[v] \div (L * m) /\ B1 = rev[v] \div L
    BY <1>3 DEF Block, L
  <2>2. \A p \in Nat : rev[v] < p * (L * m) =>
          /\ rev[v] \div (L * m) \in Nat /\ rev[v] \div L \in Nat
          /\ (rev[v] \div (L * m)) * m <= rev[v] \div L
          /\ rev[v] \div L < (rev[v] \div (L * m) + 1) * m
          /\ (rev[v] \div (L * m) + 1) * m <= p * m
    BY <1>1, <1>2, <1>3, NestedBlocks, Zenon
  <2> HIDE DEF B0, B1
  <2> QED
    BY <1>1, <1>2, <1>3, <2>1, <2>2, SMTT(30)
<1> HIDE DEF B0, B1
<1>5. (B0 + 1) * m \in Nat /\ B0 * m \in Nat
  BY <1>4
<1>6. n \in Nat /\ n >= 1 /\ B1 + n = (B0 + 1) * m /\ B1 + n <= Pow2[c] /\ n <= Size(t1)
  BY <1>2, <1>4, <1>5, SMTT(30)
<1> HIDE DEF n, f
<1>7. \A i \in 0..n :
        /\ f[i].v \in Word /\ f[i].keys \subseteq Contents(t1)
        /\ i > 0 => rev[f[i].v] = ((B1 + i) * L) % W
        /\ \A k \in Contents(t1) :
             B1 <= Block(c, k) /\ Block(c, k) < B1 + i => k \in f[i].keys
  BY <1>6, ExpandingFacts, SMTT(30) DEF f, B1, L
<1>8. ASSUME NEW i \in 1..n
      PROVE  (f[i].v % Size(t1)) \div Size(t0) = 0 <=> i = n
  <2> DEFINE x == f[i].v
             q == B1 + i
  <2>1. /\ x \in Word /\ rev[x] = (q * L) % W /\ q \in Nat /\ q <= Pow2[c] /\ q \in 0..Pow2[c]
        /\ (q = Pow2[c] => i = n) /\ B0 * m < q /\ (i = n <=> q = (B0 + 1) * m)
        /\ (i # n => q < (B0 + 1) * m)
    BY <1>2, <1>4, <1>5, <1>6, <1>7, <1>8, SMTT(30)
  <2> HIDE DEF x, q
  <2>2. rev[x] = IF q = Pow2[c] THEN 0 ELSE q * L
    BY <2>1, BlockStart, SMTT(30) DEF L
  <2>3. rev[x] % L = 0
    <3>1. (q * L + 0) % L = 0 /\ (0 * L + 0) % L = 0
      <4>1. 0 \in 0..(L - 1) /\ q \in Int /\ 0 \in Int
        BY <1>2, <2>1
      <4> QED
        BY <1>2, <4>1, Divides, ZenonT(40)
    <3>2. q * L + 0 = q * L /\ 0 * L + 0 = 0
      BY <1>2, <2>1
    <3> QED
      BY <2>2, <3>1, <3>2, SMTT(30)
  <2>4. x < Pow2[c] /\ x \in Nat
    BY <1>2, <2>1, <2>3, LowWords, SMTT(30) DEF L, Word
  <2>5. x % Size(t1) = x
    BY <1>2, <2>4, SMTT(30)
  <2>6. x \div Size(t0) = 0 <=> x < Pow2[b]
    <3>1. x < 1 * Pow2[b] <=> x \div Pow2[b] < 1
      BY <1>2, <2>4, Multiples, SMTT(30)
    <3>2. x \div Pow2[b] \in Nat
      BY <1>2, <2>4, Multiples, SMTT(30)
    <3>3. 1 * Pow2[b] = Pow2[b]
      BY <1>2
    <3> QED
      BY <3>1, <3>2, <3>3, SMTT(30)
  <2>7. x < Pow2[b] <=> rev[x] % (L * m) = 0
    BY <1>3, <2>1, LowWords, SMTT(30)
  <2>8. rev[x] % (L * m) = 0 <=> i = n
    <3>1. CASE i = n
      <4>1. q * L = (B0 + 1) * (L * m)
        BY <1>2, <1>4, <2>1, <3>1, SMTT(30)
      <4> DEFINE s == L * m
      <4>2. s \in Nat /\ s >= 1
        BY <1>2, <1>3, SMTT(30)
      <4> HIDE DEF s
      <4>3. ((B0 + 1) * s + 0) % s = 0 /\ (0 * s + 0) % s = 0
        BY <1>4, <4>2, Divides, SMTT(30)
      <4>4. (B0 + 1) * s + 0 = (B0 + 1) * s /\ 0 * s + 0 = 0
        BY <1>4, <4>2, SMTT(30)
      <4> QED
        BY <2>2, <3>1, <4>1, <4>3, <4>4, SMTT(30) DEF s
    <3>2. CASE i # n
      <4>1. (q * L) % (L * m) # 0
        BY <1>2, <1>4, <2>1, <3>2, InsideSpan, ZenonT(40)
      <4> QED
        BY <2>1, <2>2, <3>2, <4>1, SMTT(30)
    <3> QED
      BY <3>1, <3>2
  <2> QED
    BY <2>5, <2>6, <2>7, <2>8, SMTT(30) DEF x
<1>9. n \in exits /\ exits \subseteq Nat /\ \A y \in exits : n <= y
  <2>1. n \in 1..n /\ n \in 1..Size(t1)
    BY <1>2, <1>6
  <2>2. ASSUME NEW y \in exits PROVE n <= y
    <3>1. SUFFICES ASSUME y < n PROVE FALSE
      BY <1>6
    <3>2. y \in 1..n /\ y # n
      BY <1>6, <3>1
    <3> QED
      BY <1>8, <3>2, SMTT(30)
  <2> QED
    BY <1>8, <2>1, <2>2
<1>10. Smallest(exits) = n
  <2>1. Smallest(exits) \in exits /\ \A y \in exits : Smallest(exits) <= y
    BY <1>9, SmallestIs, Zenon
  <2> HIDE DEF exits
  <2>2. Smallest(exits) \in Nat
    BY <1>9, <2>1, Zenon
  <2> QED
    BY <1>6, <1>9, <2>1, <2>2, SMTT(30)
<1>11. r = f[n]
  BY <1>10 DEF Expansions, f
<1>12. (B1 + n) * L = (B0 + 1) * (L * m)
  BY <1>2, <1>4, <1>6, SMTT(30)
<1>13. ASSUME NEW k \in Contents(t1), rev[v] <= rev[k], rev[k] < (B0 + 1) * Span(b)
       PROVE  B1 <= Block(c, k) /\ Block(c, k) < B1 + n
  <2>1. k \in Word
    BY UsedZero, HashType, SMTT(30)
  <2>2. rev[k] \in Nat
    BY <1>2, <2>1, RevWord, SMTT(30) DEF Word
  <2>3. rev[k] < (B1 + n) * L /\ B1 + n \in Nat
    BY <1>3, <1>4, <1>6, <1>12, <1>13, SMTT(30)
  <2>4. B1 * L <= rev[v]
    <3>1. B1 = rev[v] \div L /\ B1 <= B1
      BY <1>4 DEF Block, B1, L
    <3> QED
      BY <1>2, <1>3, <1>4, <3>1, Multiples, SMTT(30)
  <2>5. B1 * L <= rev[k]
    BY <1>2, <1>3, <1>4, <1>13, <2>2, <2>4, SMTT(30)
  <2> QED
    BY <1>2, <1>4, <2>2, <2>3, <2>5, Multiples, SMTT(30) DEF Block, L
<1>14. n \in 0..n /\ n > 0
  BY <1>6, SMTT(30)
<1>15. rev[r.v] = ((B0 + 1) * Span(b)) % W
  BY <1>3, <1>7, <1>11, <1>12, <1>14, SMTT(30)
<1>16. \E w, K : r = [v |-> w, keys |-> K]
  <2>1. n \in 1..Size(t1) /\ Size(t1) \in Nat
    BY <1>2, <1>6
  <2>2. f[n] = ScanBucket(t1, f[n - 1])
    BY <2>1, ExpandingTurns, ZenonT(40) DEF f
  <2> QED
    BY <1>11, <2>2, Zenon DEF ScanBucket
<1> QED
  BY <1>7, <1>11, <1>13, <1>14, <1>15, <1>16, Zenon DEF B0

\* The size of a table that is there.
LEMMA SizeOfTable ==
  ASSUME NEW t \in Table, t # <<>>
  PROVE  \E b \in 0..CursorBits : Size(t) = Pow2[b]
<1>1. Size(t) \in {0} \union TableSizes /\ t \in Seq(Chains)
  BY DEF Table
<1>2. Size(t) # 0
  BY <1>1 DEF Size
<1> QED
  BY <1>1, <1>2, SizeType

\* dictScan() returns the keys between the old cursor and the new one.
LEMMA ScanFacts ==
  ASSUME NEW d, Good(d), NEW v \in Word, NEW r, r = dictScan(d, v)
  PROVE  /\ r.v \in Word /\ r.keys \subseteq Members(d)
         /\ \A k \in Members(d) :
              rev[v] <= rev[k] /\ (r.v = 0 \/ rev[k] < rev[r.v]) => k \in r.keys
<1> DEFINE Covers(K) ==
      \A k \in K : rev[v] <= rev[k] /\ (r.v = 0 \/ rev[k] < rev[r.v]) => k \in r.keys
<1>1. /\ d.ht[1] \in Table /\ d.ht[2] \in Table
      /\ dictIsRehashing(d) <=> d.ht[2] # <<>>
      /\ dictIsRehashing(d) => d.ht[1] # <<>>
  BY GoodParts DEF Good, dictIsRehashing
<1>2. \A t \in Table : \A k \in Contents(t) : k \in Word
  BY UsedZero, HashType
<1>3. CASE dictSize(d) = 0
  <2>1. r = [v |-> 0, keys |-> {}]
    BY <1>3 DEF dictScan
  <2>2. Members(d) = {} /\ 0 \in Word
    BY <1>3, SizeZero, RevWord, SMTT(30)
  <2> QED
    BY <2>1, <2>2
<1>4. CASE dictSize(d) # 0 /\ ~dictIsRehashing(d)
  <2> DEFINE t == d.ht[1]
             a == [v |-> v, keys |-> {}]
  <2>1. r = ScanBucket(t, a)
    BY <1>4, SMTT(30) DEF dictScan
  <2>2. Contents(d.ht[2]) = {}
    BY <1>1, <1>4, NoTableFacts, SMTT(30)
  <2>3. Members(d) = Contents(t) /\ Members(d) # {}
    BY <1>4, <2>2, SizeZero, SMTT(30) DEF Members
  <2>4. t # <<>>
    BY <2>3, NoTableFacts, SMTT(30)
  <2>5. PICK b \in 0..CursorBits : Size(t) = Pow2[b]
    BY <1>1, <2>4, SizeOfTable
  <2>6. a.v = v /\ a.keys = {}
    OBVIOUS
  <2> HIDE DEF a, t
  <2>7. /\ r.v \in Word
        /\ rev[r.v] = ((Block(b, v) + 1) * Span(b)) % W
        /\ r.keys \subseteq Contents(t)
        /\ \A k \in Contents(t) : Block(b, k) = Block(b, v) => k \in r.keys
    <3>1. t \in Table /\ a.v \in Word /\ a.keys \subseteq Contents(t)
      BY <1>1, <2>6, SMTT(30) DEF t
    <3> QED
      BY <2>1, <2>5, <2>6, <3>1, ScanBucketFacts, SMTT(30)
  <2>8. Covers(Contents(t))
    <3>1. TAKE k \in Contents(t)
    <3>2. HAVE rev[v] <= rev[k] /\ (r.v = 0 \/ rev[k] < rev[r.v])
    <3>3. k \in Word
      BY <1>1, <1>2, SMTT(30) DEF t
    <3>4. Block(b, k) = Block(b, v)
      BY <2>7, <3>2, <3>3, BetweenCursors, SMTT(30)
    <3> QED
      BY <2>7, <3>4, SMTT(30)
  <2> QED
    BY <2>3, <2>7, <2>8
<1>5. CASE dictSize(d) # 0 /\ dictIsRehashing(d)
  <2> DEFINE swap == Size(d.ht[1]) > Size(d.ht[2])
             t0 == IF swap THEN d.ht[2] ELSE d.ht[1]
             t1 == IF swap THEN d.ht[1] ELSE d.ht[2]
             larger == Expansions(t0, t1, v)
             c == Chain(t0, v % Size(t0))
  <2>1. r = [larger EXCEPT !.keys = @ \union Keys(c)]
    BY <1>5, SMTT(30) DEF dictScan
  <2>2. t0 \in Table /\ t1 \in Table /\ t0 # <<>> /\ t1 # <<>>
        /\ Members(d) = Contents(t0) \union Contents(t1)
    BY <1>1, <1>5, SMTT(30) DEF Members
  <2>3. PICK b \in 0..CursorBits : Size(t0) = Pow2[b]
    <3> HIDE DEF t0, t1
    <3> QED
      BY <2>2, SizeOfTable
  <2>4. PICK e \in 0..CursorBits : Size(t1) = Pow2[e]
    <3> HIDE DEF t0, t1
    <3> QED
      BY <2>2, SizeOfTable, SMTT(30)
  <2>5. Pow2[b] <= Pow2[e]
    <3>1. Size(d.ht[1]) \in Nat /\ Size(d.ht[2]) \in Nat
      BY <1>1, SMTT(30) DEF Table, Size
    <3> QED
      BY <2>3, <2>4, <3>1, SMTT(30)
  <2> HIDE DEF t0, t1, swap
  <2>6. /\ larger.v \in Word /\ larger.keys \subseteq Contents(t1)
        /\ rev[larger.v] = ((Block(b, v) + 1) * Span(b)) % W
        /\ \A k \in Contents(t1) :
              rev[v] <= rev[k] /\ rev[k] < (Block(b, v) + 1) * Span(b) => k \in larger.keys
    BY <2>2, <2>3, <2>4, <2>5, LastTurn, SMTT(30)
  <2> DEFINE a == [v |-> v, keys |-> {}]
  <2>7. a.v = v /\ a.keys = {} /\ ScanBucket(t0, a).keys = Keys(c)
    BY SMTT(30) DEF ScanBucket
  <2> HIDE DEF a
  <2>8. /\ Keys(c) \subseteq Contents(t0)
        /\ \A k \in Contents(t0) : Block(b, k) = Block(b, v) => k \in Keys(c)
    <3>1. a.v \in Word /\ a.keys \subseteq Contents(t0)
      BY <2>7, Zenon
    <3> HIDE DEF c
    <3>2. /\ ScanBucket(t0, a).keys \subseteq Contents(t0)
          /\ \A k \in Contents(t0) : Block(b, k) = Block(b, a.v) => k \in ScanBucket(t0, a).keys
      BY <2>2, <2>3, <3>1, ScanBucketFacts, ZenonT(40)
    <3> QED
      BY <2>7, <3>2, ZenonT(40)
  <2>9. r.v = larger.v /\ r.keys = larger.keys \union Keys(c)
    <3>1. \E w, K : larger = [v |-> w, keys |-> K]
      BY <2>2, <2>3, <2>4, <2>5, LastTurn
    <3> HIDE DEF larger, c
    <3> QED
      BY <2>1, <3>1
  <2> HIDE DEF larger, c
  <2>10. Covers(Contents(t0))
    <3>1. TAKE k \in Contents(t0)
    <3>2. HAVE rev[v] <= rev[k] /\ (r.v = 0 \/ rev[k] < rev[r.v])
    <3>3. k \in Word
      BY <1>2, <2>2
    <3>4. Block(b, k) = Block(b, v)
      BY <2>6, <2>9, <3>2, <3>3, BetweenCursors
    <3> QED
      BY <2>8, <2>9, <3>4
  <2>11. Covers(Contents(t1))
    <3>1. TAKE k \in Contents(t1)
    <3>2. HAVE rev[v] <= rev[k] /\ (r.v = 0 \/ rev[k] < rev[r.v])
    <3>3. k \in Word
      BY <1>2, <2>2
    <3>4. rev[k] < (Block(b, v) + 1) * Span(b)
      BY <2>6, <2>9, <3>2, <3>3, BetweenCursors
    <3> QED
      BY <2>6, <2>9, <3>2, <3>4
  <2> QED
    BY <2>2, <2>6, <2>8, <2>9, <2>10, <2>11
<1> QED
  BY <1>3, <1>4, <1>5
=============================================================================

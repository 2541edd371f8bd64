--------------------------- MODULE RedisDictProofs ---------------------------
(***************************************************************************)
(* For every word size, set of hashes and load: the dictionary is the set  *)
(* of keys that RedisKeySet promises, a bucket that was rehashed stays     *)
(* empty, and a safe iterator returns each key that stays exactly once,    *)
(* whatever is added, deleted or found between two of its calls.           *)
(***************************************************************************)
EXTENDS RedisDictCursors

-----------------------------------------------------------------------------
(* The inductive invariant. *)

\* The dictionary is well formed, and counts its iterator.
DictInv == Good(dict) /\ dict.iterators = (IF iter.on THEN 1 ELSE 0)

Scans == [on : BOOLEAN, v : Word, present : SUBSET Hashes, returned : SUBSET Hashes]

\* A scan has returned the keys that its cursor has passed.
ScanInv ==
  /\ scan \in Scans
  /\ scan.on => /\ scan.present \subseteq Members(dict)
                /\ \A k \in scan.present : rev[k] < rev[scan.v] => k \in scan.returned

\* Of the keys it must return, an iterator has returned those it has passed,
\* none of them twice.
IterInv ==
  /\ iter.again = {}
  /\ \/ iter \in Idle /\ iter.got = iter.must
     \/ /\ iter \in Running /\ Placed(dict, iter) /\ iter.entry # iter.next
        /\ iter.must \subseteq Members(dict) /\ iter.got \subseteq iter.must
        /\ \A k \in iter.must : k \in iter.got <=> Passed(dict, iter, k)

DictInductive == DictInv /\ ScanInv /\ IterInv

-----------------------------------------------------------------------------
(* Calls between two steps of an iterator. *)

\* What an operation on the dictionary leaves to a running iterator.
Undisturbed(d) ==
  iter.on => /\ Placed(d, iter)
             /\ \A k \in iter.must \cap Members(d) : Passed(dict, iter, k) <=> Passed(d, iter, k)

\* A running iterator.
LEMMA RunningIs ==
  ASSUME DictInductive, iter.on
  PROVE  /\ iter \in Running /\ Placed(dict, iter) /\ iter.entry # iter.next
         /\ iter.must \subseteq Members(dict) /\ iter.got \subseteq iter.must
         /\ \A k \in iter.must : k \in iter.got <=> Passed(dict, iter, k)
         /\ dict.iterators = 1 /\ iter.next \in Hashes \union {NoEntry}
         /\ Good(dict) /\ dict.ht[1] # <<>>
<1>1. iter \notin Idle
  BY Zenon DEF Idle
<1>2. /\ iter \in Running /\ Placed(dict, iter) /\ iter.entry # iter.next
      /\ iter.must \subseteq Members(dict) /\ iter.got \subseteq iter.must
      /\ \A k \in iter.must : k \in iter.got <=> Passed(dict, iter, k)
      /\ Good(dict) /\ dict.iterators = 1
  BY <1>1 DEF DictInductive, IterInv, DictInv
<1>3. /\ iter.next \in Hashes \union {NoEntry} /\ iter.index \in Nat
      /\ iter.table = 1 \/ iter.table = 2
  BY <1>2 DEF Running
<1>4. dict.ht[1] # <<>>
  <2>1. CASE iter.table = 1
    BY <1>2, <1>3, <2>1 DEF Placed, Size
  <2>2. CASE iter.table = 2
    BY <1>2, <2>2 DEF Placed, Good, dictIsRehashing
  <2> QED
    BY <1>3, <2>1, <2>2
<1> QED
  BY <1>2, <1>3, <1>4

\* A table keeps itself.
LEMMA TableSame == \A t, K : TableKeeps(t, t, K)
BY DEF TableKeeps

\* The next entry is a key of the dictionary.
LEMMA NextIsMember ==
  ASSUME NEW d, Good(d), NEW i \in Running, Placed(d, i), i.next # NoEntry
  PROVE  i.next \in Members(d)
<1>1. i.table = 1 \/ i.table = 2
  BY DEF Running
<1> DEFINE t == d.ht[i.table]
<1>2. t \in Table /\ Contents(t) \subseteq Members(d)
  BY <1>1, GoodParts DEF Members
<1>3. i.index \in -1..(Size(t) - 1) /\ i.index >= 0 /\ i.next \in Keys(Chain(t, i.index))
  BY DEF Placed
<1> HIDE DEF t
<1>4. i.index + 1 \in DOMAIN t
  BY <1>2, <1>3 DEF Table, Size
<1>5. i.next \in Contents(t)
  BY <1>3, <1>4 DEF Contents, Chain
<1> QED
  BY <1>2, <1>5

\* Insertions do not disturb an iterator: rehashing waits, and a table that is
\* grown under it goes on as the first of two.
LEMMA AddUndisturbed ==
  ASSUME DictInductive, NEW k \in Hashes
  PROVE  Undisturbed(dictAddRaw(dict, k))
<1> SUFFICES ASSUME iter.on PROVE Undisturbed(dictAddRaw(dict, k))
  BY DEF Undisturbed
<1> DEFINE e == _dictExpandIfNeeded(dict)
           f == dictAddRaw(dict, k)
<1>1. /\ iter \in Running /\ Placed(dict, iter) /\ iter.must \subseteq Members(dict)
      /\ Good(dict) /\ dict.ht[1] # <<>> /\ dict.iterators = 1
      /\ iter.next \in Hashes \union {NoEntry}
  BY RunningIs
<1>2. _dictRehashStep(dict) = dict
  BY <1>1, RehashStepFacts
<1>3. f = IF (ExpandIsDue(dict) /\ e = dict) \/ Found(e, k) THEN e
          ELSE [e EXCEPT !.ht = IF dictIsRehashing(e) THEN <<e.ht[1], Push(e.ht[2], k)>>
                                ELSE <<Push(e.ht[1], k), e.ht[2]>>]
  BY <1>2 DEF dictAddRaw
<1>4. /\ Good(e) /\ Members(e) = Members(dict) /\ e.ht[1] = dict.ht[1]
      /\ e # dict => ~dictIsRehashing(dict)
  BY <1>1, ExpandIfNeededFacts DEF Same
<1> HIDE DEF e, f
<1>5. iter.table = 1 \/ iter.table = 2
  BY <1>1 DEF Running
<1>6. iter.table = 2 => e = dict /\ dictIsRehashing(dict)
  BY <1>1, <1>4 DEF Placed
<1>7. Placed(e, iter) /\ \A x \in Hashes : Passed(dict, iter, x) <=> Passed(e, iter, x)
  <2>1. dict.ht[iter.table] = e.ht[iter.table]
    BY <1>4, <1>5, <1>6
  <2>2. TableKeeps(dict.ht[iter.table], e.ht[iter.table], Hashes)
    BY <2>1, TableSame
  <2>3. Hashes \in SUBSET Hashes
    OBVIOUS
  <2>4. iter.table = 2 => /\ dictIsRehashing(e)
                          /\ \A x \in Hashes : x \in Contents(dict.ht[1]) <=> x \in Contents(e.ht[1])
    BY <1>6
  <2> QED
    BY <1>1, <1>4, <2>2, <2>3, <2>4, PassedKept, Zenon
<1>8. CASE (ExpandIsDue(dict) /\ e = dict) \/ Found(e, k)
  <2>1. f = e
    BY <1>3, <1>8
  <2>2. iter.must \subseteq Hashes
    BY <1>1 DEF Running
  <2> QED
    BY <1>7, <2>1, <2>2 DEF Undisturbed, f
<1>9. CASE ~((ExpandIsDue(dict) /\ e = dict) \/ Found(e, k))
  <2>1. f = [e EXCEPT !.ht = IF dictIsRehashing(e) THEN <<e.ht[1], Push(e.ht[2], k)>>
                             ELSE <<Push(e.ht[1], k), e.ht[2]>>]
    BY <1>3, <1>9
  <2>2. k \notin Members(e)
    BY <1>4, <1>9, FoundFacts
  <2>3. e.ht[1] # <<>>
    BY <1>1, <1>4
  <2>4. Good(f) /\ Members(f) = Members(e) \union {k} /\ f.rehashidx = e.rehashidx
    BY <1>4, <2>1, <2>2, <2>3, PushedFacts
  <2>5. f.ht = IF dictIsRehashing(e) THEN <<e.ht[1], Push(e.ht[2], k)>>
               ELSE <<Push(e.ht[1], k), e.ht[2]>>
    BY <1>4, <2>1 DEF Good, DictType
  <2> DEFINE K == Hashes \ {k}
  <2>6. k \notin Contents(e.ht[1]) /\ k \notin Contents(e.ht[2])
    BY <2>2 DEF Members
  <2>7. e.ht[1] \in Table /\ e.ht[2] \in Table /\ (dictIsRehashing(e) <=> e.ht[2] # <<>>)
    BY <1>4, GoodParts DEF Good, dictIsRehashing
  <2>8. TableKeeps(e.ht[iter.table], f.ht[iter.table], K)
    <3>1. CASE dictIsRehashing(e)
      <4>1. f.ht[1] = e.ht[1] /\ f.ht[2] = Push(e.ht[2], k)
        BY <2>5, <3>1
      <4>2. TableKeeps(e.ht[2], f.ht[2], K)
        BY <2>6, <2>7, <3>1, <4>1, PushKeeps
      <4>3. TableKeeps(e.ht[1], f.ht[1], K)
        BY <4>1, TableSame
      <4> QED
        BY <1>5, <4>2, <4>3
    <3>2. CASE ~dictIsRehashing(e)
      <4>1. iter.table = 1
        BY <1>5, <1>6, <3>2
      <4>2. f.ht[1] = Push(e.ht[1], k)
        BY <2>5, <3>2
      <4>3. TableKeeps(e.ht[1], f.ht[1], K)
        BY <2>3, <2>6, <2>7, <4>2, PushKeeps
      <4> QED
        BY <4>1, <4>3
    <3> QED
      BY <3>1, <3>2
  <2>9. iter.table = 2 => /\ dictIsRehashing(f)
                          /\ \A x \in K : x \in Contents(e.ht[1]) <=> x \in Contents(f.ht[1])
    <3>1. SUFFICES ASSUME iter.table = 2
                   PROVE  dictIsRehashing(f) /\ \A x \in K : x \in Contents(e.ht[1]) <=> x \in Contents(f.ht[1])
      OBVIOUS
    <3>2. dictIsRehashing(e)
      BY <1>6, <3>1
    <3>3. f.ht[1] = e.ht[1]
      BY <2>5, <3>2
    <3> QED
      BY <2>4, <3>2, <3>3 DEF dictIsRehashing
  <2>10. iter.next \in K \union {NoEntry}
    BY <1>1, <1>4, <1>7, <2>2, NextIsMember
  <2>11. K \in SUBSET Hashes
    OBVIOUS
  <2> HIDE DEF K
  <2>12. Placed(f, iter) /\ \A x \in K : Passed(e, iter, x) <=> Passed(f, iter, x)
    BY <1>1, <1>4, <1>7, <2>4, <2>8, <2>9, <2>10, <2>11, PassedKept, Zenon
  <2>13. iter.must \subseteq K
    <3>1. Members(dict) \subseteq Hashes /\ k \notin Members(dict)
      BY <1>1, <1>4, <2>2, SizeZero
    <3> QED
      BY <1>1, <3>1 DEF K
  <2> QED
    BY <1>7, <2>11, <2>12, <2>13 DEF Undisturbed, f
<1> QED
  BY <1>8, <1>9

\* Deleting the entry it was given does not disturb an iterator.
LEMMA DeleteUndisturbed ==
  ASSUME DictInductive, NEW k \in Hashes, iter.on => k = iter.entry
  PROVE  Undisturbed(dictGenericDelete(dict, k))
<1> SUFFICES ASSUME iter.on PROVE Undisturbed(dictGenericDelete(dict, k))
  BY DEF Undisturbed
<1> DEFINE f == dictGenericDelete(dict, k)
           K == Hashes \ {k}
<1>1. /\ iter \in Running /\ Placed(dict, iter) /\ iter.must \subseteq Members(dict)
      /\ Good(dict) /\ dict.ht[1] # <<>> /\ dict.iterators = 1
      /\ iter.next \in Hashes \union {NoEntry} /\ iter.next # k
  BY RunningIs
<1>2. _dictRehashStep(dict) = dict
  BY <1>1, RehashStepFacts
<1>3. /\ f = IF dictSize(dict) = 0 THEN dict
          ELSE IF FoundIn(dict, k, 1) THEN [dict EXCEPT !.ht = <<Unlink(dict.ht[1], k), dict.ht[2]>>]
          ELSE IF Found(dict, k) THEN [dict EXCEPT !.ht = <<dict.ht[1], Unlink(dict.ht[2], k)>>]
          ELSE dict
  BY <1>2 DEF dictGenericDelete
<1>4. Good(f) /\ Members(f) = Members(dict) \ {k}
  BY <1>1, DeleteFacts
<1> HIDE DEF f
<1>5. iter.table = 1 \/ iter.table = 2
  BY <1>1 DEF Running
<1>6. iter.table = 2 => dictIsRehashing(dict)
  BY <1>1 DEF Placed
<1>7. dict.ht[1] \in Table /\ dict.ht[2] \in Table /\ (dictIsRehashing(dict) <=> dict.ht[2] # <<>>)
  BY <1>1, GoodParts DEF Good, dictIsRehashing
<1>8. ASSUME TableKeeps(dict.ht[1], f.ht[1], K), TableKeeps(dict.ht[2], f.ht[2], K),
             \A x \in K : x \in Contents(dict.ht[1]) <=> x \in Contents(f.ht[1]),
             f.rehashidx = dict.rehashidx
      PROVE  Undisturbed(f)
  <2>1. TableKeeps(dict.ht[iter.table], f.ht[iter.table], K)
    BY <1>5, <1>8
  <2>2. iter.table = 2 => /\ dictIsRehashing(f)
                          /\ \A x \in K : x \in Contents(dict.ht[1]) <=> x \in Contents(f.ht[1])
    BY <1>6, <1>8 DEF dictIsRehashing
  <2>3. K \in SUBSET Hashes /\ iter.next \in K \union {NoEntry}
    BY <1>1
  <2>4. iter.must \cap Members(f) \subseteq K
    <3>1. Members(dict) \subseteq Hashes
      BY <1>1, SizeZero
    <3> QED
      BY <1>4, <3>1
  <2> HIDE DEF K
  <2>5. Placed(f, iter) /\ \A x \in K : Passed(dict, iter, x) <=> Passed(f, iter, x)
    BY <1>1, <1>4, <2>1, <2>2, <2>3, PassedKept, Zenon
  <2> QED
    BY <2>4, <2>5 DEF Undisturbed
<1>9. ASSUME f = dict PROVE Undisturbed(f)
  BY <1>8, <1>9, TableSame
<1>10. ASSUME FoundIn(dict, k, 1), dictSize(dict) # 0 PROVE Undisturbed(f)
  <2>1. f = WithTables(dict, Unlink(dict.ht[1], k), dict.ht[2])
    BY <1>3, <1>10 DEF WithTables
  <2>2. k \in Contents(dict.ht[1])
    BY <1>1, <1>10, FoundFacts
  <2>3. f.rehashidx = dict.rehashidx /\ f.ht[1] = Unlink(dict.ht[1], k) /\ f.ht[2] = dict.ht[2]
    BY <1>1, <2>1, <2>2, UnlinkFirst
  <2>4. TableKeeps(dict.ht[1], f.ht[1], K)
    BY <1>1, <1>7, <2>2, <2>3, UnlinkKeeps
  <2>5. Contents(f.ht[1]) = Contents(dict.ht[1]) \ {k}
    BY <1>1, <1>7, <2>2, <2>3, UnlinkFacts
  <2>6. TableKeeps(dict.ht[2], f.ht[2], K)
    BY <2>3, TableSame
  <2> QED
    BY <1>8, <2>3, <2>4, <2>5, <2>6
<1>11. ASSUME ~FoundIn(dict, k, 1), Found(dict, k), dictSize(dict) # 0 PROVE Undisturbed(f)
  <2>1. f = WithTables(dict, dict.ht[1], Unlink(dict.ht[2], k))
    BY <1>3, <1>11 DEF WithTables
  <2>2. k \in Contents(dict.ht[2])
    BY <1>1, <1>11, FoundFacts DEF Found
  <2>3. f.rehashidx = dict.rehashidx /\ f.ht[1] = dict.ht[1] /\ f.ht[2] = Unlink(dict.ht[2], k)
    BY <1>1, <2>1, <2>2, UnlinkSecond
  <2>4. dict.ht[2] # <<>>
    BY <2>2, NoTableFacts
  <2>5. TableKeeps(dict.ht[2], f.ht[2], K)
    BY <1>7, <2>2, <2>3, <2>4, UnlinkKeeps
  <2>6. TableKeeps(dict.ht[1], f.ht[1], K)
    BY <2>3, TableSame
  <2> QED
    BY <1>8, <2>3, <2>5, <2>6
<1>12. Undisturbed(f)
  BY <1>3, <1>9, <1>10, <1>11
<1> QED
  BY <1>12 DEF f

-----------------------------------------------------------------------------
(* Steps. *)

\* Only the position of an iterator, and the tables, tell what it has passed.
LEMMA SamePlace ==
  ASSUME NEW d, NEW e, NEW i, NEW j, d.ht = e.ht, d.rehashidx = e.rehashidx,
         i.table = j.table, i.index = j.index, i.next = j.next
  PROVE  /\ Placed(d, i) <=> Placed(e, j)
         /\ \A k : Passed(d, i, k) <=> Passed(e, j, k)
<1>1. Placed(d, i) <=> Placed(e, j)
  BY DEF Placed, dictIsRehashing
<1>2. \A t, k : PassedIn(t, i, k) <=> PassedIn(t, j, k)
  BY DEF PassedIn
<1>3. ASSUME NEW k PROVE Passed(d, i, k) <=> Passed(e, j, k)
  BY <1>2 DEF Passed
<1> QED
  BY <1>1, <1>3

\* An iterator with what it must return restricted to K.
LEMMA WatchedIs ==
  ASSUME NEW i \in Running, NEW K \in SUBSET Hashes, NEW j, j = Watched(i, K)
  PROVE  /\ j \in Running /\ j.on /\ j.table = i.table /\ j.index = i.index
         /\ j.entry = i.entry /\ j.next = i.next
         /\ j.must = K /\ j.got = i.got \cap K /\ j.again = i.again \cap K
BY Zenon DEF Watched, Running

\* What an iterator has returned after dictNext().
IterGood(d, i) ==
  /\ i.again = {}
  /\ \/ i \in Idle /\ i.got = i.must
     \/ /\ i \in Running /\ Placed(d, i) /\ i.entry # i.next
        /\ i.must \subseteq Members(d) /\ i.got \subseteq i.must
        /\ \A k \in i.must : k \in i.got <=> Passed(d, i, k)

\* dictNext() keeps the account of an iterator.
LEMMA ReturnedFacts ==
  ASSUME NEW d, Good(d), NEW i \in Iterators, Placed(d, i), i.must \subseteq Members(d),
         i.got \subseteq i.must, i.again = {},
         \A k \in i.must : k \in i.got <=> Passed(d, i, k),
         NEW r, r = Returned(IterNext(d, i))
  PROVE  IterGood(d, r) /\ r.on \in BOOLEAN
<1> DEFINE j == IterNext(d, i)
<1>1. CASE j = [i EXCEPT !.done = TRUE] /\ \A k \in Members(d) : Passed(d, i, k)
  <2>1. /\ j.done /\ j.must = i.must /\ j.got = i.got /\ j.again = i.again
        /\ i.must \in SUBSET Hashes /\ i.got \in SUBSET Hashes
    BY <1>1 DEF Iterators
  <2>2. i.got = i.must
    BY <1>1
  <2> HIDE DEF j
  <2>3. r = [NoIter EXCEPT !.must = j.must, !.got = j.got, !.again = j.again]
    BY <2>1 DEF Returned, j
  <2>4. r \in Idle /\ r.got = r.must /\ r.again = {} /\ r.on = FALSE
    BY <2>1, <2>2, <2>3, Zenon DEF NoIter, Idle
  <2> QED
    BY <2>4, Zenon DEF IterGood
<1>2. CASE /\ j \in Running /\ Placed(d, j) /\ j.entry # j.next
           /\ j.must = i.must /\ j.got = i.got /\ j.again = i.again
           /\ j.entry \in Members(d) /\ ~Passed(d, i, j.entry)
           /\ \A k \in Members(d) : Passed(d, j, k) <=> Passed(d, i, k) \/ k = j.entry
  <2> DEFINE g == j.got \union {j.entry}
             a == j.again \union (j.got \cap {j.entry})
             h == [j EXCEPT !.again = a, !.got = g]
  <2>1. r = Watched(h, j.must)
    BY <1>2, Zenon DEF Returned, Running
  <2>2. j.entry \notin j.got
    BY <1>2
  <2>3. a = {} /\ g \in SUBSET Hashes /\ j.must \in SUBSET Hashes
    BY <1>2, <2>2 DEF Running
  <2> HIDE DEF j, g, a
  <2>4. /\ h \in Running /\ h.table = j.table /\ h.index = j.index /\ h.next = j.next
        /\ h.entry = j.entry /\ h.got = g /\ h.again = a
    BY <1>2, <2>3, Zenon DEF Running
  <2> HIDE DEF h
  <2>5. /\ r \in Running /\ r.on /\ r.table = j.table /\ r.index = j.index
        /\ r.entry = j.entry /\ r.next = j.next
        /\ r.must = j.must /\ r.got = g \cap j.must /\ r.again = {}
    BY <2>1, <2>3, <2>4, WatchedIs
  <2>6. /\ Placed(d, r) <=> Placed(d, j)
        /\ \A k : Passed(d, r, k) <=> Passed(d, j, k)
    BY <2>5, SamePlace
  <2>7. \A k \in r.must : k \in r.got <=> Passed(d, r, k)
    BY <1>2, <2>5, <2>6 DEF g
  <2>8. r.on = TRUE
    BY <2>5 DEF Running
  <2> QED
    BY <1>2, <2>5, <2>6, <2>7, <2>8 DEF IterGood
<1> QED
  BY <1>1, <1>2, IterNextFacts

\* A running iterator is one between two calls.
LEMMA RunningIterates == Running \subseteq Iterators
<1>1. Nat \subseteq Int
  OBVIOUS
<1> QED
  BY <1>1, Zenon DEF Running, Iterators

\* iter.on and the records of iter.
LEMMA IterOn ==
  ASSUME NEW d, NEW i, IterGood(d, i)
  PROVE  /\ i.on \in BOOLEAN
         /\ i.on => i \in Running
         /\ ~i.on => i \in Idle
BY Zenon DEF IterGood, Idle, Running

\* A scan from its parts.
LEMMA NewScan ==
  \A w \in Word : \A p, q \in SUBSET Hashes :
    [on |-> FALSE, v |-> w, present |-> p, returned |-> q] \in Scans
BY DEF Scans

\* What a call on the dictionary does to a scan.
LEMMA KeptFacts ==
  ASSUME ScanInv, NEW d, Members(d) \subseteq Hashes, NEW s, s = Kept(d)
  PROVE  /\ s \in Scans
         /\ s.on = scan.on /\ s.present = (IF scan.on THEN scan.present \cap Members(d) ELSE {})
         /\ s.returned = IF scan.on THEN scan.returned ELSE {}
         /\ scan.on => s.v = scan.v
<1>1. scan \in Scans
  BY DEF ScanInv
<1>2. CASE scan.on
  <2>1. s = [scan EXCEPT !.present = @ \cap Members(d)]
    BY <1>2 DEF Kept
  <2> QED
    BY <1>1, <1>2, <2>1, Zenon DEF Scans
<1>3. CASE ~scan.on
  <2>1. s = [on |-> FALSE, v |-> 0, present |-> {}, returned |-> {}]
    BY <1>3 DEF Kept, NoScan
  <2>2. 0 \in Word
    BY <1>1, RevWord DEF Scans
  <2>3. scan.on = FALSE
    BY <1>1, <1>3 DEF Scans
  <2>4. s.on = FALSE /\ s.present = {} /\ s.returned = {}
    BY <2>1
  <2>5. s \in Scans
    BY <2>1, <2>2, NewScan, Zenon
  <2> QED
    BY <1>3, <2>3, <2>4, <2>5, Zenon
<1> QED
  BY <1>2, <1>3

\* Every call keeps the invariant that keeps the dictionary well formed and
\* leaves the iterator alone.
LEMMA DoesStep ==
  ASSUME DictInductive, NEW d, Good(d), d.iterators = dict.iterators, Undisturbed(d), Does(d)
  PROVE  DictInductive'
<1>1. /\ dict' = d /\ scan' = Kept(d)
      /\ iter' = IF iter.on THEN Watched(iter, iter.must \cap Members(d)) ELSE NoIter
  BY DEF Does
<1>2. Members(d) \subseteq Hashes
  BY SizeZero
<1>3. IterGood(dict, iter) /\ ScanInv /\ DictInv
  BY DEF DictInductive, IterInv, IterGood
<1>4. IterGood(d, iter') /\ (iter'.on <=> iter.on)
  <2>1. CASE iter.on
    <3> DEFINE K == iter.must \cap Members(d)
    <3>1. iter \in Running /\ iter.entry # iter.next /\ iter.again = {} /\ iter.got \subseteq iter.must
          /\ \A k \in iter.must : k \in iter.got <=> Passed(dict, iter, k)
      BY <1>3, <2>1, RunningIs DEF IterGood
    <3>2. K \in SUBSET Hashes
      BY <1>2
    <3>3. iter' = Watched(iter, K)
      BY <1>1, <2>1
    <3>4. Placed(d, iter) /\ \A k \in K : Passed(dict, iter, k) <=> Passed(d, iter, k)
      BY <2>1 DEF Undisturbed
    <3>5. K \subseteq Members(d) /\ K \subseteq iter.must
      OBVIOUS
    <3> HIDE DEF K
    <3> DEFINE j == iter'
    <3>6. /\ j \in Running /\ j.on /\ j.table = iter.table /\ j.index = iter.index
          /\ j.entry = iter.entry /\ j.next = iter.next
          /\ j.must = K /\ j.got = iter.got \cap K /\ j.again = iter.again \cap K
      BY <3>1, <3>2, <3>3, WatchedIs
    <3> HIDE DEF j
    <3>7. /\ Placed(d, iter) <=> Placed(d, j)
          /\ \A k : Passed(d, iter, k) <=> Passed(d, j, k)
      BY <3>6, SamePlace
    <3>8. IterGood(d, j)
      BY <3>1, <3>4, <3>5, <3>6, <3>7 DEF IterGood
    <3> QED
      BY <2>1, <3>6, <3>8 DEF j
  <2>2. CASE ~iter.on
    <3>1. iter' = NoIter
      BY <1>1, <2>2
    <3>2. NoIter \in Idle /\ NoIter.got = NoIter.must /\ NoIter.again = {} /\ NoIter.on = FALSE
      BY DEF NoIter, Idle
    <3> QED
      BY <2>2, <3>1, <3>2 DEF IterGood
  <2> QED
    BY <2>1, <2>2
<1>5. DictInv'
  BY <1>1, <1>3, <1>4 DEF DictInv
<1>6. ScanInv'
  <2> DEFINE s == Kept(d)
  <2>1. /\ s \in Scans
        /\ s.on = scan.on /\ s.present = (IF scan.on THEN scan.present \cap Members(d) ELSE {})
        /\ s.returned = (IF scan.on THEN scan.returned ELSE {})
        /\ scan.on => s.v = scan.v
    BY <1>2, <1>3, KeptFacts
  <2> HIDE DEF s
  <2>2. scan' = s /\ dict' = d
    BY <1>1 DEF s
  <2>3. s.on => /\ s.present \subseteq Members(d)
                /\ \A k \in s.present : rev[k] < rev[s.v] => k \in s.returned
    BY <1>3, <2>1 DEF ScanInv
  <2> QED
    BY <2>1, <2>2, <2>3 DEF ScanInv
<1>7. IterInv'
  BY <1>1, <1>4 DEF IterInv, IterGood
<1> QED
  BY <1>5, <1>6, <1>7 DEF DictInductive

\* How a call may change the keys.
Changed(S, T) ==
  \/ T = S
  \/ \E k \in Hashes : T = S \union {k}
  \/ \E k \in S : T = S \ {k}
  \/ T = {}

\* A call that an invariant step is made of.
Call(d) ==
  /\ Good(d) /\ d.iterators = dict.iterators /\ Undisturbed(d) /\ Does(d)
  /\ Changed(Members(dict), Members(d))

\* A dictionary that the calls leave as it is.
LEMMA SelfUndisturbed ==
  ASSUME DictInductive PROVE Undisturbed(dict)
BY RunningIs DEF Undisturbed

\* A step of rehashing, which waits for the iterator, is such a call.
LEMMA RehashCall ==
  ASSUME DictInductive, NEW d, d = _dictRehashStep(dict), Does(d)
  PROVE  Call(d)
<1>1. Good(dict)
  BY DEF DictInductive, DictInv
<1>2. Same(dict, d) /\ (dict.iterators # 0 => d = dict)
  BY <1>1, RehashStepFacts
<1>3. iter.on => dict.iterators # 0
  BY DEF DictInductive, DictInv
<1>4. Undisturbed(d)
  BY <1>2, <1>3, SelfUndisturbed DEF Undisturbed
<1> QED
  BY <1>2, <1>4 DEF Call, Same, Changed

\* A call that finds no iterator.
LEMMA AloneCall ==
  ASSUME DictInductive, ~iter.on, NEW d, Same(dict, d), Does(d)
  PROVE  Call(d)
BY DEF Call, Same, Changed, Undisturbed

\* What every call of the dictionary is.
LEMMA Calls ==
  ASSUME DictInductive, Add \/ Find \/ Delete \/ RandomKey \/ Flush \/ databasesCron
  PROVE  \E d : Call(d)
<1>1. Good(dict) /\ dict.iterators = (IF iter.on THEN 1 ELSE 0)
  BY DEF DictInductive, DictInv
<1>2. CASE Add
  <2>1. PICK k \in Hashes : Does(dictAddRaw(dict, k))
    BY <1>2 DEF Add
  <2> DEFINE d == dictAddRaw(dict, k)
  <2>2. /\ Good(d) /\ d.iterators = dict.iterators
        /\ Members(d) \in {Members(dict), Members(dict) \union {k}}
    BY <1>1, AddFacts
  <2>3. Undisturbed(d)
    BY AddUndisturbed
  <2> HIDE DEF d
  <2>4. Does(d)
    BY <2>1 DEF d
  <2> QED
    BY <2>2, <2>3, <2>4 DEF Call, Changed
<1>3. CASE Find
  <2>1. PICK k \in Hashes : Does(dictFind(dict, k))
    BY <1>3 DEF Find
  <2>2. CASE dictSize(dict) = 0
    <3>1. Does(dict)
      BY <2>1, <2>2 DEF dictFind
    <3> QED
      BY <1>1, <3>1, SelfUndisturbed DEF Call, Changed
  <2>3. CASE dictSize(dict) # 0
    <3>1. Does(_dictRehashStep(dict))
      BY <2>1, <2>3 DEF dictFind
    <3> QED
      BY <3>1, RehashCall
  <2> QED
    BY <2>2, <2>3
<1>4. CASE Delete
  <2>1. PICK k \in Hashes : (iter.on => k = iter.entry) /\ Does(dictGenericDelete(dict, k))
    BY <1>4 DEF Delete
  <2> DEFINE d == dictGenericDelete(dict, k)
  <2>2. Good(d) /\ d.iterators = dict.iterators /\ Members(d) = Members(dict) \ {k}
    BY <1>1, DeleteFacts
  <2>3. Undisturbed(d)
    BY <2>1, DeleteUndisturbed
  <2> HIDE DEF d
  <2>4. Does(d)
    BY <2>1 DEF d
  <2>5. Changed(Members(dict), Members(d))
    <3>1. CASE k \in Members(dict)
      BY <2>2, <3>1 DEF Changed
    <3>2. CASE k \notin Members(dict)
      <4>1. Members(d) = Members(dict)
        BY <2>2, <3>2
      <4> QED
        BY <4>1 DEF Changed
    <3> QED
      BY <3>1, <3>2
  <2> QED
    BY <2>2, <2>3, <2>4, <2>5 DEF Call
<1>5. CASE RandomKey
  BY <1>5, RehashCall DEF RandomKey
<1>6. CASE Flush
  <2>1. ~iter.on /\ Does(EmptyDict)
    BY <1>6 DEF Flush, dictEmpty
  <2>2. /\ EmptyDict.ht[1] = <<>> /\ EmptyDict.ht[2] = <<>> /\ EmptyDict.rehashidx = -1
        /\ EmptyDict.iterators = 0
    BY DEF EmptyDict, NoTable
  <2>3. EmptyDict \in DictType
    <3>1. -1 \in Int /\ 0 \in Nat
      OBVIOUS
    <3> QED
      BY <3>1, NewDict, NoTableFacts, Zenon DEF EmptyDict, NoTable
  <2>4. Good(EmptyDict) /\ Members(EmptyDict) = {}
    BY <2>2, <2>3, NoTableFacts DEF Good, Members
  <2> QED
    BY <1>1, <2>1, <2>2, <2>4 DEF Call, Changed, Undisturbed
<1>7. CASE databasesCron
  <2> DEFINE d == IF htNeedsResize(dict) THEN dictResize(dict) ELSE dict
  <2>1. ~iter.on /\ Does(dictRehash(d, 2))
    BY <1>7 DEF databasesCron
  <2>2. Same(dict, dict)
    BY <1>1 DEF Same
  <2>3. Same(dict, dictResize(dict))
    <3> DEFINE n == IF Used(dict.ht[1]) < InitialSize THEN InitialSize ELSE Used(dict.ht[1])
    <3>1. n \in Nat
      BY <1>1, DictAssumption, SizeType, GoodParts, UsedZero
    <3> HIDE DEF n
    <3>2. Same(dict, dictExpand(dict, n))
      BY <1>1, <3>1, ExpandFacts
    <3>3. dictResize(dict) = dict \/ dictResize(dict) = dictExpand(dict, n)
      BY DEF dictResize, n
    <3> QED
      BY <2>2, <3>2, <3>3
  <2>4. Same(dict, d)
    BY <2>2, <2>3
  <2> HIDE DEF d
  <2>5. Same(d, dictRehash(d, 2))
    BY <2>4, RehashFacts DEF Same
  <2>6. Same(dict, dictRehash(d, 2))
    BY <2>4, <2>5 DEF Same
  <2> QED
    BY <2>1, <2>6, AloneCall
<1> QED
  BY <1>2, <1>3, <1>4, <1>5, <1>6, <1>7

\* The initial state satisfies the invariant.
LEMMA DictInitHolds == DictInit => DictInductive
<1> SUFFICES ASSUME DictInit PROVE DictInductive
  OBVIOUS
<1>1. dict = EmptyDict /\ scan = NoScan /\ iter = NoIter
  BY DEF DictInit
<1>2. /\ EmptyDict.ht[1] = <<>> /\ EmptyDict.ht[2] = <<>> /\ EmptyDict.rehashidx = -1
      /\ EmptyDict.iterators = 0
  BY DEF EmptyDict, NoTable
<1>3. EmptyDict \in DictType
  <2>1. -1 \in Int /\ 0 \in Nat
    OBVIOUS
  <2> QED
    BY <2>1, NewDict, NoTableFacts, Zenon DEF EmptyDict, NoTable
<1>4. Good(EmptyDict)
  BY <1>2, <1>3, NoTableFacts DEF Good
<1>5. NoIter \in Idle /\ NoIter.got = NoIter.must /\ NoIter.again = {} /\ NoIter.on = FALSE
  BY DEF NoIter, Idle
<1>6. 0 \in Word
  <2>1. 0 \in 0..CursorBits
    BY DictAssumption
  <2>2. W \in Nat /\ W >= 1
    BY <2>1, Spans
  <2> QED
    BY <2>2 DEF Word
<1>7. NoScan \in Scans /\ NoScan.on = FALSE
  <2>1. NoScan \in Scans
    BY <1>6, NewScan, Zenon DEF NoScan
  <2>2. NoScan.on = FALSE
    BY DEF NoScan
  <2> QED
    BY <2>1, <2>2
<1> QED
  BY <1>1, <1>2, <1>4, <1>5, <1>7 DEF DictInductive, DictInv, ScanInv, IterInv

\* SCAN: the keys its cursor has passed are those it has returned.
LEMMA ScanStepHolds ==
  ASSUME DictInductive, ScanStep
  PROVE  /\ DictInductive' /\ scan'.on \in BOOLEAN
         /\ scan'.present = scan.present
         /\ scan.returned \subseteq scan'.returned
         /\ scan'.returned \subseteq scan.returned \union Members(dict)
         /\ scan'.on \/ scan.present \subseteq scan'.returned
         /\ scan.on
<1> DEFINE r == dictScan(dict, scan.v)
           s == [scan EXCEPT !.on = r.v # 0, !.v = r.v, !.returned = @ \union r.keys]
<1>1. scan' = s /\ dict' = dict /\ iter' = iter /\ ~iter.on /\ scan.on
  BY DEF ScanStep
<1>2. /\ Good(dict) /\ scan \in Scans /\ scan.present \subseteq Members(dict)
      /\ \A k \in scan.present : rev[k] < rev[scan.v] => k \in scan.returned
  BY <1>1 DEF DictInductive, DictInv, ScanInv
<1>3. scan.v \in Word
  BY <1>2 DEF Scans
<1>4. /\ r.v \in Word /\ r.keys \subseteq Members(dict)
      /\ \A k \in Members(dict) :
              rev[scan.v] <= rev[k] /\ (r.v = 0 \/ rev[k] < rev[r.v]) => k \in r.keys
  BY <1>2, <1>3, ScanFacts
<1> HIDE DEF r
<1>5. Members(dict) \subseteq Hashes
  BY <1>2, SizeZero
<1>6. /\ s \in Scans /\ s.on = (r.v # 0) /\ s.v = r.v /\ s.present = scan.present
      /\ s.returned = scan.returned \union r.keys
  <2>1. (r.v # 0) \in BOOLEAN
    OBVIOUS
  <2>2. r.keys \subseteq Hashes
    BY <1>4, <1>5
  <2> DEFINE o == r.v # 0
  <2> HIDE DEF o
  <2>3. o \in BOOLEAN
    BY <2>1 DEF o
  <2>4. s = [scan EXCEPT !.on = o, !.v = r.v, !.returned = @ \union r.keys]
    BY DEF o
  <2> HIDE DEF s
  <2>5. s \in Scans /\ s.on = o /\ s.v = r.v /\ s.present = scan.present
        /\ s.returned = scan.returned \union r.keys
    BY <1>2, <1>4, <2>2, <2>3, <2>4, Zenon DEF Scans
  <2> QED
    BY <2>5 DEF o
<1> HIDE DEF s
<1>7. ASSUME NEW k \in scan.present, r.v = 0 \/ rev[k] < rev[r.v] PROVE k \in s.returned
  <2>1. k \in Members(dict) /\ k \in Hashes
    BY <1>2, <1>5
  <2>2. k \in Word
    BY <2>1, HashType
  <2>3. rev[k] \in Int /\ rev[scan.v] \in Int
    <3>1. rev[k] \in Word /\ rev[scan.v] \in Word
      BY <1>3, <2>2, RevWord
    <3> QED
      BY <3>1 DEF Word
  <2>4. rev[k] < rev[scan.v] \/ rev[scan.v] <= rev[k]
    BY <2>3
  <2> QED
    BY <1>2, <1>4, <1>6, <1>7, <2>1, <2>4
<1>8. ScanInv'
  <2>1. scan' \in Scans /\ scan'.present = scan.present /\ scan'.v = r.v /\ scan'.returned = s.returned
    BY <1>1, <1>6
  <2>2. \A k \in scan'.present : rev[k] < rev[scan'.v] => k \in scan'.returned
    BY <1>7, <2>1
  <2>3. scan'.present \subseteq Members(dict')
    BY <1>1, <1>2, <2>1
  <2> QED
    BY <2>1, <2>2, <2>3 DEF ScanInv
<1>9. DictInv' /\ IterInv'
  BY <1>1 DEF DictInductive, DictInv, IterInv
<1>10. scan'.on \/ scan.present \subseteq scan'.returned
  BY <1>1, <1>6, <1>7, Zenon
<1> QED
  BY <1>1, <1>4, <1>6, <1>8, <1>9, <1>10 DEF DictInductive, Scans

\* Counting an iterator leaves the dictionary as it is.
LEMMA CountFacts ==
  ASSUME NEW d, Good(d), NEW n \in Nat, NEW e, e = [d EXCEPT !.iterators = n]
  PROVE  /\ Good(e) /\ e.iterators = n /\ e.ht = d.ht /\ e.rehashidx = d.rehashidx
         /\ Members(e) = Members(d)
<1>1. e \in DictType /\ e.iterators = n /\ e.ht = d.ht /\ e.rehashidx = d.rehashidx
  BY DEF Good, DictType
<1> QED
  BY <1>1 DEF Good, Members

\* A dictionary with the same tables has the same account of an iterator.
LEMMA SameAccount ==
  ASSUME NEW d, NEW e, d.ht = e.ht, d.rehashidx = e.rehashidx, NEW i, IterGood(d, i)
  PROVE  IterGood(e, i)
<1>1. Members(e) = Members(d)
  BY DEF Members
<1>2. (Placed(d, i) <=> Placed(e, i)) /\ \A k : Passed(d, i, k) <=> Passed(e, i, k)
  BY SamePlace
<1> QED
  BY <1>1, <1>2 DEF IterGood

\* An iterator that begins has passed nothing.
LEMMA BeginFacts ==
  ASSUME NEW d, Good(d),
         NEW i, i = [on |-> TRUE, table |-> 1, index |-> -1, entry |-> NoEntry,
                     next |-> NoEntry, done |-> FALSE,
                     must |-> Members(d), got |-> {}, again |-> {}]
  PROVE  /\ i \in Iterators /\ Placed(d, i) /\ i.must = Members(d) /\ i.got = {} /\ i.again = {}
         /\ \A k : ~Passed(d, i, k)
<1>1. Members(d) \in SUBSET Hashes
  BY SizeZero
<1>2. /\ i.table = 1 /\ i.index = -1 /\ i.next = NoEntry
      /\ i.must = Members(d) /\ i.got = {} /\ i.again = {}
  OBVIOUS
<1>3. i \in Iterators
  <2> DEFINE M == Members(d)
  <2> HIDE DEF M
  <2>1. M \in SUBSET Hashes
    BY <1>1 DEF M
  <2>2. i = [on |-> TRUE, table |-> 1, index |-> -1, entry |-> NoEntry, next |-> NoEntry,
             done |-> FALSE, must |-> M, got |-> {}, again |-> {}]
    BY DEF M
  <2> QED
    BY <2>1, <2>2 DEF Iterators
<1>4. Size(d.ht[1]) \in Nat
  BY GoodParts DEF Table, Size
<1>5. Placed(d, i)
  BY <1>2, <1>4 DEF Placed
<1>6. ASSUME NEW k, Passed(d, i, k) PROVE FALSE
  <2>1. k \in Contents(d.ht[1]) /\ PassedIn(d.ht[1], i, k)
    BY <1>2, <1>6 DEF Passed
  <2>2. 1 \in 1..2 /\ 0 \in Int
    OBVIOUS
  <2>3. k % Size(d.ht[1]) \in Nat
    BY <2>1, <2>2, InFull
  <2> DEFINE b == k % Size(d.ht[1])
  <2>4. b < -1 \/ b = -1
    BY <1>2, <2>1 DEF PassedIn
  <2> HIDE DEF b
  <2>5. b \in Nat
    BY <2>3, Zenon DEF b
  <2> QED
    BY <2>4, <2>5
<1> QED
  BY <1>2, <1>3, <1>5, <1>6, Zenon

\* A new state of the iterator and the count of it.
LEMMA IterHolds ==
  ASSUME DictInductive, NEW n \in Nat, IterGood(dict, iter'),
         dict' = [dict EXCEPT !.iterators = n], n = (IF iter'.on THEN 1 ELSE 0),
         scan' = scan \/ scan' = NoScan
  PROVE  DictInductive' /\ Members(dict)' = Members(dict)
<1>1. Good(dict) /\ ScanInv
  BY DEF DictInductive, DictInv
<1>2. /\ Good(dict') /\ dict'.iterators = n /\ dict'.ht = dict.ht /\ dict'.rehashidx = dict.rehashidx
      /\ Members(dict') = Members(dict)
  BY <1>1, CountFacts
<1>3. IterGood(dict', iter')
  BY <1>2, SameAccount, Zenon
<1>4. ScanInv'
  <2>1. CASE scan' = scan
    BY <1>1, <1>2, <2>1 DEF ScanInv
  <2>2. CASE scan' = NoScan
    <3>1. scan.v \in Word
      BY <1>1 DEF ScanInv, Scans
    <3>2. 0 \in Word
      BY <3>1, RevWord
    <3>3. NoScan \in Scans
      BY <3>2, NewScan, Zenon DEF NoScan
    <3>4. NoScan.on = FALSE
      BY DEF NoScan
    <3> QED
      BY <2>2, <3>3, <3>4 DEF ScanInv
  <2> QED
    BY <2>1, <2>2
<1>5. DictInv'
  BY <1>2 DEF DictInv
<1>6. IterInv'
  BY <1>3 DEF IterInv, IterGood
<1> QED
  BY <1>2, <1>4, <1>5, <1>6 DEF DictInductive

\* The first call of dictNext().
LEMMA IterStartHolds ==
  ASSUME DictInductive, IterStart
  PROVE  DictInductive' /\ Members(dict)' = Members(dict) /\ scan' = NoScan /\ ~scan.on
<1> DEFINE i == [on |-> TRUE, table |-> 1, index |-> -1, entry |-> NoEntry,
                 next |-> NoEntry, done |-> FALSE,
                 must |-> Members(dict), got |-> {}, again |-> {}]
           n == IF iter'.on THEN dict.iterators + 1 ELSE dict.iterators
<1>1. /\ ~iter.on /\ ~scan.on /\ scan' = NoScan
      /\ iter' = Returned(IterNext(dict, i)) /\ dict' = [dict EXCEPT !.iterators = n]
  BY DEF IterStart
<1>2. Good(dict) /\ dict.iterators = 0
  BY <1>1 DEF DictInductive, DictInv
<1>3. /\ i \in Iterators /\ Placed(dict, i) /\ i.must = Members(dict) /\ i.got = {} /\ i.again = {}
      /\ \A k : ~Passed(dict, i, k)
  BY <1>2, BeginFacts, Zenon
<1> HIDE DEF i
<1>4. i.must \subseteq Members(dict) /\ i.got \subseteq i.must
      /\ \A k \in i.must : k \in i.got <=> Passed(dict, i, k)
  BY <1>3
<1>5. IterGood(dict, iter')
  BY <1>1, <1>2, <1>3, <1>4, ReturnedFacts
<1>6. n \in Nat /\ n = (IF iter'.on THEN 1 ELSE 0)
  BY <1>2
<1> HIDE DEF n
<1> QED
  BY <1>1, <1>5, <1>6, IterHolds

\* The calls after it.
LEMMA IterStepHolds ==
  ASSUME DictInductive, IterStep
  PROVE  DictInductive' /\ Members(dict)' = Members(dict) /\ scan' = scan
<1> DEFINE n == IF iter'.on THEN dict.iterators ELSE dict.iterators - 1
<1>1. /\ iter.on /\ scan' = scan
      /\ iter' = Returned(IterNext(dict, iter)) /\ dict' = [dict EXCEPT !.iterators = n]
  BY DEF IterStep
<1>2. /\ iter \in Running /\ Placed(dict, iter)
      /\ iter.must \subseteq Members(dict) /\ iter.got \subseteq iter.must
      /\ \A k \in iter.must : k \in iter.got <=> Passed(dict, iter, k)
      /\ dict.iterators = 1 /\ Good(dict)
  BY <1>1, RunningIs
<1>3. iter \in Iterators /\ iter.again = {}
  BY <1>2, RunningIterates DEF DictInductive, IterInv
<1>4. IterGood(dict, iter')
  BY <1>1, <1>2, <1>3, ReturnedFacts
<1>5. n \in Nat /\ n = (IF iter'.on THEN 1 ELSE 0)
  BY <1>2
<1> HIDE DEF n
<1> QED
  BY <1>1, <1>4, <1>5, IterHolds

\* A scan begins.
LEMMA ScanStartHolds ==
  ASSUME DictInductive, ScanStart
  PROVE  DictInductive'
<1>1. /\ scan' = [on |-> TRUE, v |-> 0, present |-> Members(dict), returned |-> {}]
      /\ dict' = dict /\ iter' = iter
  BY DEF ScanStart
<1>2. Good(dict) /\ scan.v \in Word
  BY DEF DictInductive, DictInv, ScanInv, Scans
<1>3. Members(dict) \subseteq Hashes /\ 0 \in Word /\ rev[0] = 0
  BY <1>2, SizeZero, RevWord
<1>4. /\ scan' \in Scans /\ scan'.present = Members(dict) /\ scan'.v = 0
  BY <1>1, <1>3 DEF Scans
<1>5. ASSUME NEW k \in Members(dict) PROVE ~(rev[k] < 0)
  <2>1. k \in Word
    BY <1>3, HashType
  <2>2. rev[k] \in Word
    BY <2>1, RevWord
  <2> QED
    BY <2>2 DEF Word
<1>6. ScanInv'
  BY <1>1, <1>3, <1>4, <1>5 DEF ScanInv
<1>7. DictInv' /\ IterInv'
  BY <1>1 DEF DictInductive, DictInv, IterInv
<1> QED
  BY <1>6, <1>7 DEF DictInductive

\* Every step keeps the invariant.
LEMMA DictStepHolds == DictInductive /\ [DictNext]_dictVars => DictInductive'
<1> SUFFICES ASSUME DictInductive, [DictNext]_dictVars PROVE DictInductive'
  OBVIOUS
<1>1. CASE Add \/ Find \/ Delete \/ RandomKey \/ Flush \/ databasesCron
  BY <1>1, Calls, DoesStep DEF Call
<1>2. CASE updateDictResizePolicy
  BY <1>2 DEF updateDictResizePolicy, DictInductive, DictInv, ScanInv, IterInv
<1>3. CASE ScanStart
  BY <1>3, ScanStartHolds
<1>4. CASE ScanStep
  BY <1>4, ScanStepHolds
<1>5. CASE IterStart
  BY <1>5, IterStartHolds
<1>6. CASE IterStep
  BY <1>6, IterStepHolds
<1>7. CASE UNCHANGED dictVars
  BY <1>7 DEF dictVars, DictInductive, DictInv, ScanInv, IterInv
<1> QED
  BY <1>1, <1>2, <1>3, <1>4, <1>5, <1>6, <1>7 DEF DictNext

\* The invariant gives the type.
LEMMA DictTypeFollows == DictInductive => DictTypeOK
<1> SUFFICES ASSUME DictInductive PROVE DictTypeOK
  OBVIOUS
<1>1. Good(dict) /\ dict.iterators = (IF iter.on THEN 1 ELSE 0)
  BY DEF DictInductive, DictInv
<1>2. dict.ht[1] \in Table /\ dict.ht[2] \in Table
  BY <1>1, GoodParts
<1>3. ASSUME NEW t \in Table
      PROVE  /\ Size(t) \in {0} \union TableSizes
             /\ \A i \in DOMAIN t :
                  /\ \A p, q \in DOMAIN t[i] : t[i][p] = t[i][q] => p = q
                  /\ \A k \in Keys(t[i]) : k % Size(t) = i - 1
  BY DEF Table, Injective
<1>4. \A j \in 1..2 : dict.ht[j] \in Table
  <2>1. \A j \in 1..2 : j = 1 \/ j = 2
    OBVIOUS
  <2> QED
    BY <1>2, <2>1
<1>5. Contents(dict.ht[1]) \cap Contents(dict.ht[2]) = {} /\ (dictIsRehashing(dict) <=> dict.ht[2] # NoTable)
  BY <1>1 DEF Good, dictIsRehashing, NoTable
<1> QED
  BY <1>1, <1>3, <1>4, <1>5 DEF DictTypeOK

\* The invariant gives what dictGetRandomKey() relies on.
LEMMA RehashedFollows == DictInductive => RehashedAreEmpty
<1> SUFFICES ASSUME DictInductive PROVE RehashedAreEmpty
  OBVIOUS
<1>1. Good(dict)
  BY DEF DictInductive, DictInv
<1>2. /\ dict.ht[1] \in Table /\ dict.ht[2] \in Table /\ dict.rehashidx \in Int
      /\ dictIsRehashing(dict) <=> dict.ht[2] # <<>>
      /\ dict.rehashidx >= -1 /\ dict.rehashidx <= Len(dict.ht[1])
      /\ dictIsRehashing(dict) =>
           \A i \in DOMAIN dict.ht[1] : i <= dict.rehashidx => dict.ht[1][i] = <<>>
  BY <1>1, GoodParts DEF Good, dictIsRehashing
<1>3. Len(dict.ht[1]) \in Nat /\ DOMAIN dict.ht[1] = 1..Len(dict.ht[1])
  BY <1>2 DEF Table
<1>4. ASSUME dictIsRehashing(dict), NEW i \in 0..(dict.rehashidx - 1)
      PROVE  Chain(dict.ht[1], i) = <<>>
  <2>1. i + 1 \in DOMAIN dict.ht[1] /\ i + 1 <= dict.rehashidx
    BY <1>2, <1>3, <1>4
  <2> QED
    BY <1>2, <1>4, <2>1 DEF Chain
<1>5. ASSUME dictIsRehashing(dict), Used(dict.ht[1]) > 0
      PROVE  dict.rehashidx < Size(dict.ht[1])
  <2>1. Contents(dict.ht[1]) # {}
    BY <1>2, <1>5, UsedZero
  <2> QED
    BY <1>1, <1>5, <2>1, BucketsLeft
<1>6. ASSUME NEW t \in 1..2, NEW x \in Nat, NEW k \in Contents(dict.ht[t]),
             t = 2 \/ ~dictIsRehashing(dict) => x = 0,
             t = 1 /\ dictIsRehashing(dict) => x = dict.rehashidx
      PROVE  \E h \in x..(Size(dict.ht[t]) - 1) : Chain(dict.ht[t], h) # <<>>
  <2>1. CASE x = 0
    <3>1. k % Size(dict.ht[t]) \in Nat
          /\ (0 <= k % Size(dict.ht[t]) => k % Size(dict.ht[t]) \in FullFrom(dict, t, 0))
      <4>1. 0 \in Int
        OBVIOUS
      <4> QED
        BY <1>1, <4>1, InFull
    <3>2. k % Size(dict.ht[t]) \in FullFrom(dict, t, 0)
      <4> DEFINE b == k % Size(dict.ht[t])
      <4>1. b \in Nat => 0 <= b
        <5> HIDE DEF b
        <5> QED
          OBVIOUS
      <4> QED
        BY <3>1, <4>1
    <3> QED
      BY <2>1, <3>2 DEF FullFrom
  <2>2. CASE t = 1 /\ dictIsRehashing(dict)
    <3>1. Contents(dict.ht[1]) # {} /\ x = dict.rehashidx
      BY <1>6, <2>2
    <3>2. {i \in dict.rehashidx..(Size(dict.ht[1]) - 1) : Chain(dict.ht[1], i) # <<>>} # {}
      BY <1>1, <2>2, <3>1, BucketsLeft, Zenon
    <3> QED
      BY <2>2, <3>1, <3>2
  <2> QED
    BY <1>6, <2>1, <2>2
<1>7. ASSUME dictSize(dict) # 0 PROVE \E c \in RandomBuckets(dict) : c # <<>>
  <2>1. Members(dict) # {}
    BY <1>1, <1>7, SizeZero
  <2>2. CASE dictIsRehashing(dict)
    <3>1. RandomBuckets(dict) =
            {Chain(dict.ht[1], h) : h \in dict.rehashidx..(Size(dict.ht[1]) - 1)}
              \union {Chain(dict.ht[2], h) : h \in 0..(Size(dict.ht[2]) - 1)}
      BY <2>2 DEF RandomBuckets
    <3>2. dict.rehashidx \in Nat
      BY <1>2, <2>2 DEF dictIsRehashing
    <3>3. CASE Contents(dict.ht[1]) # {}
      <4>1. PICK k : k \in Contents(dict.ht[1])
        BY <3>3
      <4>2. 1 \in 1..2 /\ ~(1 = 2)
        OBVIOUS
      <4>3. \E h \in dict.rehashidx..(Size(dict.ht[1]) - 1) : Chain(dict.ht[1], h) # <<>>
        BY <1>6, <2>2, <3>2, <4>1, <4>2
      <4> QED
        BY <3>1, <4>3
    <3>4. CASE Contents(dict.ht[1]) = {}
      <4>1. PICK k : k \in Contents(dict.ht[2])
        BY <2>1, <3>4 DEF Members
      <4>2. 2 \in 1..2 /\ ~(2 = 1) /\ 0 \in Nat
        OBVIOUS
      <4>3. \E h \in 0..(Size(dict.ht[2]) - 1) : Chain(dict.ht[2], h) # <<>>
        BY <1>6, <2>2, <4>1, <4>2
      <4> QED
        BY <3>1, <4>3
    <3> QED
      BY <3>3, <3>4
  <2>3. CASE ~dictIsRehashing(dict)
    <3>1. RandomBuckets(dict) = {Chain(dict.ht[1], h) : h \in 0..(Size(dict.ht[1]) - 1)}
      BY <2>3 DEF RandomBuckets
    <3>2. Contents(dict.ht[2]) = {}
      BY <1>2, <2>3, NoTableFacts
    <3>3. PICK k : k \in Contents(dict.ht[1])
      BY <2>1, <3>2 DEF Members
    <3>4. 1 \in 1..2 /\ 0 \in Nat
      OBVIOUS
    <3>5. \E h \in 0..(Size(dict.ht[1]) - 1) : Chain(dict.ht[1], h) # <<>>
      BY <1>6, <2>3, <3>3, <3>4
    <3> QED
      BY <3>1, <3>5
  <2> QED
    BY <2>2, <2>3
<1> QED
  BY <1>4, <1>5, <1>7 DEF RehashedAreEmpty

\* The invariant gives the promise of a safe iterator.
LEMMA IteratesFollows == DictInductive => IteratesOnce
<1> SUFFICES ASSUME DictInductive PROVE IteratesOnce
  OBVIOUS
<1>1. iter.again = {} /\ (iter \in Running \/ iter.got = iter.must)
  BY DEF DictInductive, IterInv
<1>2. iter \in Running => iter.on
  BY Zenon DEF Running
<1> QED
  BY <1>1, <1>2 DEF IteratesOnce

-----------------------------------------------------------------------------
(* The set of keys. *)

keySetVars == <<Members(dict), scan.present, scan.returned, scan.on>>

\* The initial states correspond.
LEMMA KeySetInit == DictInit => KeySet!Init
<1> SUFFICES ASSUME DictInit PROVE KeySet!Init
  OBVIOUS
<1>1. dict = EmptyDict /\ scan = NoScan
  BY DEF DictInit
<1>2. Members(EmptyDict) = {}
  BY NoTableFacts DEF Members, EmptyDict, NoTable
<1> QED
  BY <1>1, <1>2 DEF KeySet!Init, NoScan

\* A call changes the set of keys as Becomes says.
LEMMA KeySetCall ==
  ASSUME DictInductive, NEW d, Call(d) PROVE KeySet!Next
<1>1. dict' = d /\ scan' = Kept(d) /\ Good(d) /\ Changed(Members(dict), Members(d)) /\ ScanInv
  BY DEF Call, Does, DictInductive
<1>2. Members(d) \subseteq Hashes
  BY <1>1, SizeZero
<1>3. /\ scan'.on = scan.on /\ scan'.present = (IF scan.on THEN scan.present \cap Members(d) ELSE {})
      /\ scan'.returned = (IF scan.on THEN scan.returned ELSE {})
  BY <1>1, <1>2, KeptFacts
<1>4. KeySet!Becomes(Members(d))
  BY <1>1, <1>3 DEF KeySet!Becomes
<1>5. CASE Members(d) = Members(dict)
  BY <1>4, <1>5 DEF KeySet!Other, KeySet!Next
<1>6. CASE \E k \in Hashes : Members(d) = Members(dict) \union {k}
  BY <1>4, <1>6, Zenon DEF KeySet!Add, KeySet!Next
<1>7. CASE \E k \in Members(dict) : Members(d) = Members(dict) \ {k}
  BY <1>4, <1>7, Zenon DEF KeySet!Delete, KeySet!Next
<1>8. CASE Members(d) = {}
  BY <1>4, <1>8 DEF KeySet!Empty, KeySet!Next
<1> QED
  BY <1>1, <1>5, <1>6, <1>7, <1>8 DEF Changed

\* Every step is a step of the set of keys, or changes nothing of it.
LEMMA KeySetStep ==
  ASSUME DictInductive, [DictNext]_dictVars
  PROVE  KeySet!Next \/ UNCHANGED keySetVars
<1>1. CASE Add \/ Find \/ Delete \/ RandomKey \/ Flush \/ databasesCron
  BY <1>1, Calls, KeySetCall
<1>2. CASE updateDictResizePolicy
  BY <1>2 DEF updateDictResizePolicy, keySetVars
<1>3. CASE ScanStart
  <2>1. /\ ~scan.on /\ scan'.on = TRUE /\ scan'.present = Members(dict) /\ scan'.returned = {}
        /\ dict' = dict
    BY <1>3 DEF ScanStart
  <2> QED
    BY <2>1 DEF KeySet!ScanBegins, KeySet!Next
<1>4. CASE ScanStep
  <2>1. dict' = dict
    BY <1>4 DEF ScanStep
  <2> QED
    BY <1>4, <2>1, ScanStepHolds DEF KeySet!ScanReturns, KeySet!Next
<1>5. CASE IterStart
  <2>1. Members(dict)' = Members(dict) /\ scan' = NoScan /\ ~scan.on
    BY <1>5, IterStartHolds
  <2>2. scan.on = FALSE
    BY <2>1 DEF DictInductive, ScanInv, Scans
  <2>3. scan'.on = FALSE /\ scan'.present = {} /\ scan'.returned = {}
    BY <2>1 DEF NoScan
  <2> QED
    BY <2>1, <2>2, <2>3, Zenon DEF KeySet!Becomes, KeySet!Other, KeySet!Next
<1>6. CASE IterStep
  BY <1>6, IterStepHolds DEF keySetVars
<1>7. CASE UNCHANGED dictVars
  BY <1>7 DEF dictVars, keySetVars
<1> QED
  BY <1>1, <1>2, <1>3, <1>4, <1>5, <1>6, <1>7 DEF DictNext

-----------------------------------------------------------------------------
(* Theorems. *)

\* The dictionary is always well formed, and the accounts of a scan and of an
\* iterator are right.
THEOREM DictInvariance == DictSpec => []DictInductive
BY DictInitHolds, DictStepHolds, PTL DEF DictSpec

\* The tables are well formed, hold a key in one place only, and there are two
\* of them exactly while rehashing.
THEOREM DictTypeCorrect == DictSpec => []DictTypeOK
BY DictInvariance, DictTypeFollows, PTL

\* The buckets below rehashidx are empty, rehashing does not run off the table,
\* and a random key is always found.
THEOREM RehashedStayEmpty == DictSpec => []RehashedAreEmpty
BY DictInvariance, RehashedFollows, PTL

\* A safe iterator returns every key that is there all the time exactly once.
THEOREM IteratesExactlyOnce == DictSpec => []IteratesOnce
BY DictInvariance, IteratesFollows, PTL

\* The dictionary implements a set of keys with complete scans.
THEOREM DictImplementsKeySet == DictSpec => ImplementsKeySet
<1>1. DictInductive /\ [DictNext]_dictVars => [KeySet!Next]_keySetVars
  BY KeySetStep
<1>2. DictSpec => KeySet!Init /\ [][KeySet!Next]_keySetVars
  BY <1>1, DictInvariance, KeySetInit, PTL DEF DictSpec
<1> QED
  BY <1>2 DEF ImplementsKeySet, KeySet!Spec, keySetVars
=============================================================================

----------------------------- MODULE RedisDict -----------------------------
(***************************************************************************)
(* The hash table of the vendored Redis server (dict.c) under the keyspace:*)
(* two tables while it is rehashed a bucket at a time, growing on insert,  *)
(* shrinking from serverCron(), the stateless cursor of SCAN, and safe     *)
(* iterators.  A key stands for itself and is its hash; a table is a       *)
(* sequence of chains, table[i + 1] being bucket i.                        *)
(***************************************************************************)
EXTENDS Integers, Sequences, FiniteSets

CONSTANTS
  Hashes,       \* the keys, by their hash
  InitialSize,  \* DICT_HT_INITIAL_SIZE (4)
  MinFill,      \* HASHTABLE_MIN_FILL (10), per cent
  ForceRatio,   \* dict_force_resize_ratio (5)
  EmptyVisits,  \* empty buckets a rehashing step may visit (10)
  CursorBits    \* width of an unsigned long (64)

Pow2[n \in 0..CursorBits] == IF n = 0 THEN 1 ELSE 2 * Pow2[n - 1]
W == Pow2[CursorBits]
LONG_MAX == W \div 2 - 1
TableSizes == {Pow2[b] : b \in 0..(CursorBits - 1)}

ASSUME DictAssumption ==
  /\ CursorBits \in Nat \ {0}
  /\ Hashes \subseteq 0..(W - 1)
  /\ InitialSize \in TableSizes
  /\ EmptyVisits \in Nat \ {0}

VARIABLES
  dict,     \* [ht: the two tables, rehashidx, iterators]
  canResize,\* dict_can_resize
  scan,     \* a SCAN: the cursor, and what it has returned; over with the next command
  iter      \* a safe iterator, or NoIter

dictVars == <<dict, canResize, scan, iter>>

NoTable == <<>>
NoIter == [on |-> FALSE, must |-> {}, got |-> {}, again |-> {}]
NoScan == [on |-> FALSE, v |-> 0, present |-> {}, returned |-> {}]

Size(t) == Len(t)
Chain(t, i) == t[i + 1]
Keys(chain) == {chain[i] : i \in DOMAIN chain}
Contents(t) == UNION {Keys(t[i]) : i \in DOMAIN t}
Used(t) == Cardinality(Contents(t))
dictSize(d) == Used(d.ht[1]) + Used(d.ht[2])
Members(d) == Contents(d.ht[1]) \union Contents(d.ht[2])
dictIsRehashing(d) == d.rehashidx # -1

Smallest(S) == CHOOSE x \in S : \A y \in S : x <= y
Position(chain, k) == CHOOSE i \in DOMAIN chain : chain[i] = k

EmptyDict == [ht |-> <<NoTable, NoTable>>, rehashidx |-> -1, iterators |-> 0]

-----------------------------------------------------------------------------
(* Resizing and rehashing. *)

(* InitialSize, doubled until it is large enough. *)
_dictNextPower(size) ==
  IF size >= LONG_MAX THEN LONG_MAX + 1
  ELSE Smallest({i \in TableSizes : i >= InitialSize /\ i >= size})

dictExpand(d, size) ==
  LET real == _dictNextPower(size)
      new == [i \in 1..real |-> <<>>]
  IN IF dictIsRehashing(d) \/ Used(d.ht[1]) > size \/ real = Size(d.ht[1]) THEN d
     ELSE IF d.ht[1] = NoTable THEN [d EXCEPT !.ht = <<new, @[2]>>]
     ELSE [d EXCEPT !.ht = <<@[1], new>>, !.rehashidx = 0]

(* _dictExpandIfNeeded() fails when the table is due and cannot grow. *)
ExpandIsDue(d) ==
  LET used == Used(d.ht[1])  size == Size(d.ht[1]) IN
  /\ ~dictIsRehashing(d)
  /\ size = 0 \/ (used >= size /\ (canResize \/ used \div size > ForceRatio))

_dictExpandIfNeeded(d) ==
  IF ~ExpandIsDue(d) THEN d
  ELSE dictExpand(d, IF Size(d.ht[1]) = 0 THEN InitialSize ELSE Used(d.ht[1]) * 2)

(* Put a key at the head of its chain in table t, and every key of a chain. *)
Push(t, k) == [t EXCEPT ![(k % Size(t)) + 1] = <<k>> \o @]

Moving(t, chain) ==
  LET moved[i \in 0..Len(chain)] == IF i = 0 THEN t ELSE Push(moved[i - 1], chain[i])
  IN moved

MoveChain(t, chain) == Moving(t, chain)[Len(chain)]

(* A turn of the loop of dictRehash(): skip empty buckets, move one that   *)
(* is not.  No visits are left once it has returned.                       *)
RehashBucket(s) ==
  LET d == s.d
      from == d.rehashidx
      b == Smallest({i \in from..(Size(d.ht[1]) - 1) : Chain(d.ht[1], i) # <<>>})
  IN IF s.visits = 0 \/ Used(d.ht[1]) = 0 THEN s
     ELSE IF b - from >= s.visits
          THEN [d |-> [d EXCEPT !.rehashidx = from + s.visits], visits |-> 0]
     ELSE [d |-> [d EXCEPT !.ht = <<[d.ht[1] EXCEPT ![b + 1] = <<>>],
                                    MoveChain(d.ht[2], Chain(d.ht[1], b))>>,
                           !.rehashidx = b + 1],
           visits |-> s.visits - (b - from)]

RehashBuckets(d, n) ==
  LET turn[i \in 0..n] ==
        IF i = 0 THEN [d |-> d, visits |-> n * EmptyVisits] ELSE RehashBucket(turn[i - 1])
  IN turn

dictRehash(d, n) ==
  LET e == RehashBuckets(d, n)[n].d
  IN IF ~dictIsRehashing(d) THEN d
     ELSE IF Used(e.ht[1]) = 0
          THEN [e EXCEPT !.ht = <<@[2], NoTable>>, !.rehashidx = -1]
     ELSE e

_dictRehashStep(d) == IF d.iterators = 0 THEN dictRehash(d, 1) ELSE d

-----------------------------------------------------------------------------
(* Lookup, insertion, deletion. *)

(* The search of dictFind(): the second table is read while rehashing only. *)
FoundIn(d, k, j) == d.ht[j] # NoTable /\ k \in Keys(Chain(d.ht[j], k % Size(d.ht[j])))
\* Mutant: the search stops after the first table.
Found_FirstTable(d, k) == FoundIn(d, k, 1)

Found(d, k) == FoundIn(d, k, 1) \/ (dictIsRehashing(d) /\ FoundIn(d, k, 2))

dictFind(d, k) == IF dictSize(d) = 0 THEN d ELSE _dictRehashStep(d)

\* Mutant: a new key goes to the first table while rehashing.
dictAddRaw_OldTable(d, k) ==
  LET r == _dictRehashStep(d)
      e == _dictExpandIfNeeded(r)
  IN IF (ExpandIsDue(r) /\ e = r) \/ Found(e, k) THEN e
     ELSE [e EXCEPT !.ht = <<Push(@[1], k), @[2]>>]

dictAddRaw(d, k) ==
  LET r == _dictRehashStep(d)
      e == _dictExpandIfNeeded(r)
  IN IF (ExpandIsDue(r) /\ e = r) \/ Found(e, k) THEN e
     ELSE [e EXCEPT !.ht = IF dictIsRehashing(e) THEN <<@[1], Push(@[2], k)>>
                           ELSE <<Push(@[1], k), @[2]>>]

Unlink(t, k) ==
  LET c == Chain(t, k % Size(t))
      p == Position(c, k)
  IN [t EXCEPT ![(k % Size(t)) + 1] = SubSeq(c, 1, p - 1) \o SubSeq(c, p + 1, Len(c))]

dictGenericDelete(d, k) ==
  LET e == _dictRehashStep(d)
  IN IF dictSize(d) = 0 THEN d
     ELSE IF FoundIn(e, k, 1) THEN [e EXCEPT !.ht = <<Unlink(@[1], k), @[2]>>]
     ELSE IF Found(e, k) THEN [e EXCEPT !.ht = <<@[1], Unlink(@[2], k)>>]
     ELSE e

dictEmpty(d) == EmptyDict

(* The buckets dictGetRandomKey() draws from until it hits one with keys.  *)
RandomBuckets(d) ==
  IF dictIsRehashing(d)
  THEN {Chain(d.ht[1], h) : h \in d.rehashidx..(Size(d.ht[1]) - 1)}
         \union {Chain(d.ht[2], h) : h \in 0..(Size(d.ht[2]) - 1)}
  ELSE {Chain(d.ht[1], h) : h \in 0..(Size(d.ht[1]) - 1)}

-----------------------------------------------------------------------------
(* dictScan(): the cursor counts in reversed bits. *)

Reversed[w \in 0..CursorBits] ==
  IF w = 0 THEN [v \in {0} |-> 0]
  ELSE [v \in 0..(Pow2[w] - 1) |-> (v % 2) * Pow2[w - 1] + Reversed[w - 1][v \div 2]]
rev == Reversed[CursorBits]

\* Mutant: the cursor is incremented as it is, not from its high bits.
NextCursor_Plain(v, size) == ((v % size) + 1) % size

(* v |= ~m; rev; v++; rev, with m = size - 1. *)
NextCursor(v, size) == rev[(rev[(v % size) + (W - size)] + 1) % W]

(* Emit the bucket at the cursor, and increment it. *)
ScanBucket(t, a) ==
  [v |-> NextCursor(a.v, Size(t)), keys |-> a.keys \union Keys(Chain(t, a.v % Size(t)))]

(* The larger table from the cursor on, as long as the bits of the cursor  *)
(* that only its mask covers are not zero.                                 *)
Expanding(t1, v) ==
  LET turn[i \in 0..Size(t1)] ==
        IF i = 0 THEN [v |-> v, keys |-> {}] ELSE ScanBucket(t1, turn[i - 1])
  IN turn

Expansions(t0, t1, v) ==
  LET turn == Expanding(t1, v)
  IN turn[Smallest({i \in 1..Size(t1) : (turn[i].v % Size(t1)) \div Size(t0) = 0})]

dictScan(d, v) ==
  LET swap == Size(d.ht[1]) > Size(d.ht[2])
      t0 == IF swap THEN d.ht[2] ELSE d.ht[1]
      t1 == IF swap THEN d.ht[1] ELSE d.ht[2]
      larger == Expansions(t0, t1, v)
  IN IF dictSize(d) = 0 THEN [v |-> 0, keys |-> {}]
     ELSE IF ~dictIsRehashing(d) THEN ScanBucket(d.ht[1], [v |-> v, keys |-> {}])
     ELSE [larger EXCEPT !.keys = @ \union Keys(Chain(t0, v % Size(t0)))]

-----------------------------------------------------------------------------
(* dictNext() of a safe iterator.  i is [table, index, entry, next].       *)

NoEntry == -1
After(chain, k) ==
  LET i == Position(chain, k) IN IF i < Len(chain) THEN chain[i + 1] ELSE NoEntry

At(d, i, t, x, e) ==
  [i EXCEPT !.table = t, !.index = x, !.entry = e, !.next = After(Chain(d.ht[t], x), e)]

(* Buckets with entries in table t, from index x on. *)
FullFrom(d, t, x) == {y \in x..(Size(d.ht[t]) - 1) : Chain(d.ht[t], y) # <<>>}

\* Mutant: the second table is not visited.
IterNext_OneTable(d, i) ==
  LET here == FullFrom(d, i.table, i.index + 1)
      first(t, S) == At(d, i, t, Smallest(S), Head(Chain(d.ht[t], Smallest(S))))
  IN IF i.next # NoEntry THEN At(d, i, i.table, i.index, i.next)
     ELSE IF here # {} THEN first(i.table, here)
     ELSE [i EXCEPT !.done = TRUE]

IterNext(d, i) ==
  LET here == FullFrom(d, i.table, i.index + 1)
      there == IF i.table = 1 /\ dictIsRehashing(d) THEN FullFrom(d, 2, 0) ELSE {}
      first(t, S) == At(d, i, t, Smallest(S), Head(Chain(d.ht[t], Smallest(S))))
  IN IF i.next # NoEntry THEN At(d, i, i.table, i.index, i.next)
     ELSE IF here # {} THEN first(i.table, here)
     ELSE IF there # {} THEN first(2, there)
     ELSE [i EXCEPT !.done = TRUE]

-----------------------------------------------------------------------------
(* Actions.  A safe iterator lives within one command or cron function, so *)
(* only its user works on the dictionary meanwhile.  SCAN and iterators    *)
(* are tried apart: they share nothing but the tables.                     *)

DictInit ==
  /\ dict = EmptyDict /\ canResize = TRUE /\ scan = NoScan /\ iter = NoIter

Kept(d) == IF scan.on THEN [scan EXCEPT !.present = @ \cap Members(d)] ELSE NoScan

(* must: the keys there since the iterator was created; got, again: those  *)
(* of them that it has returned, and returned twice.                       *)
Watched(i, K) == [i EXCEPT !.must = K, !.got = @ \cap K, !.again = @ \cap K]

Does(d) ==
  /\ dict' = d /\ scan' = Kept(d)
  /\ iter' = IF iter.on THEN Watched(iter, iter.must \cap Members(d)) ELSE NoIter
  /\ UNCHANGED canResize

Add == \E k \in Hashes : Does(dictAddRaw(dict, k))

Find == \E k \in Hashes : Does(dictFind(dict, k))

(* The user of an iterator deletes no entry but the one it was given.      *)
Delete ==
  \E k \in Hashes : /\ iter.on => k = iter.entry
                    /\ Does(dictGenericDelete(dict, k))

RandomKey == dictSize(dict) # 0 /\ Does(_dictRehashStep(dict))

Flush == ~iter.on /\ Does(dictEmpty(dict))

(* databasesCron() with no child process: resize, then rehash a little.    *)
htNeedsResize(d) ==
  LET size == Size(d.ht[1]) + Size(d.ht[2])
  IN size > InitialSize /\ (dictSize(d) * 100) \div size < MinFill

dictResize(d) ==
  IF ~canResize \/ dictIsRehashing(d) THEN d
  ELSE dictExpand(d, IF Used(d.ht[1]) < InitialSize THEN InitialSize ELSE Used(d.ht[1]))

databasesCron ==
  /\ ~iter.on /\ canResize
  /\ LET d == IF htNeedsResize(dict) THEN dictResize(dict) ELSE dict
     IN Does(dictRehash(d, 2))

(* A child process starts or ends: updateDictResizePolicy(). *)
updateDictResizePolicy ==
  /\ ~iter.on
  /\ canResize' = ~canResize
  /\ UNCHANGED <<dict, scan, iter>>

ScanStart ==
  /\ ~iter.on /\ ~scan.on
  /\ scan' = [on |-> TRUE, v |-> 0, present |-> Members(dict), returned |-> {}]
  /\ UNCHANGED <<dict, canResize, iter>>

ScanStep ==
  /\ ~iter.on /\ scan.on
  /\ LET r == dictScan(dict, scan.v)
     IN scan' = [scan EXCEPT !.on = r.v # 0, !.v = r.v, !.returned = @ \union r.keys]
  /\ UNCHANGED <<dict, canResize, iter>>

(* dictGetSafeIterator() and the first dictNext(). *)
Returned(i) ==
  IF i.done THEN [NoIter EXCEPT !.must = i.must, !.got = i.got, !.again = i.again]
  ELSE Watched([i EXCEPT !.again = @ \union (i.got \cap {i.entry}), !.got = @ \union {i.entry}],
               i.must)

IterStart ==
  /\ ~iter.on /\ ~scan.on
  /\ iter' = Returned(IterNext(dict, [on |-> TRUE, table |-> 1, index |-> -1, entry |-> NoEntry,
                              next |-> NoEntry, done |-> FALSE,
                              must |-> Members(dict), got |-> {}, again |-> {}]))
  /\ dict' = [dict EXCEPT !.iterators = IF iter'.on THEN @ + 1 ELSE @]
  /\ scan' = NoScan
  /\ UNCHANGED canResize

IterStep ==
  /\ iter.on
  /\ iter' = Returned(IterNext(dict, iter))
  /\ dict' = [dict EXCEPT !.iterators = IF iter'.on THEN @ ELSE @ - 1]
  /\ UNCHANGED <<canResize, scan>>

DictNext ==
  \/ Add \/ Find \/ Delete \/ RandomKey \/ Flush
  \/ databasesCron \/ updateDictResizePolicy
  \/ ScanStart \/ ScanStep \/ IterStart \/ IterStep

DictSpec == DictInit /\ [][DictNext]_dictVars

-----------------------------------------------------------------------------
(* Properties. *)

(* Tables have a power of two of buckets, every key is in the bucket of    *)
(* its hash and in one table only, and there is a second table exactly     *)
(* while rehashing.                                                        *)
DictTypeOK ==
  /\ \A j \in 1..2 : LET t == dict.ht[j] IN
       /\ Size(t) \in {0} \union TableSizes
       /\ \A i \in DOMAIN t :
            /\ \A p, q \in DOMAIN t[i] : t[i][p] = t[i][q] => p = q
            /\ \A k \in Keys(t[i]) : k % Size(t) = i - 1
  /\ Contents(dict.ht[1]) \cap Contents(dict.ht[2]) = {}
  /\ dictIsRehashing(dict) <=> dict.ht[2] # NoTable
  /\ dict.iterators = (IF iter.on THEN 1 ELSE 0)

(* "We are sure there are no elements in indexes from 0 to rehashidx-1"    *)
(* (dictGetRandomKey, and dictRehash's assertion): so rehashing never runs *)
(* off the table, and a random key is always found.                        *)
RehashedAreEmpty ==
  /\ dictIsRehashing(dict) =>
       /\ \A i \in 0..(dict.rehashidx - 1) : Chain(dict.ht[1], i) = <<>>
       /\ Used(dict.ht[1]) > 0 => dict.rehashidx < Size(dict.ht[1])
  /\ dictSize(dict) # 0 => \E c \in RandomBuckets(dict) : c # <<>>

(* A safe iterator returns a key that is there all the time exactly once,  *)
(* though its user adds, finds and deletes keys meanwhile.                 *)
IteratesOnce == iter.again = {} /\ (iter.on \/ iter.got = iter.must)

(* The dictionary implements a set of keys with complete scans, while it   *)
(* is grown, shrunk and rehashed between the calls of a scan.              *)
KeySet == INSTANCE RedisKeySet WITH
  Key <- Hashes, keys <- Members(dict), present <- scan.present,
  returned <- scan.returned, scanning <- scan.on

ImplementsKeySet == KeySet!Spec

=============================================================================

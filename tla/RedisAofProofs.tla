--------------------------- MODULE RedisAofProofs ---------------------------
(***************************************************************************)
(* For every number of databases, writes, rewrites and faults, and every   *)
(* fsync policy: the append only file rebuilds the dataset, always loads,  *)
(* and under appendfsync always holds what was answered.                   *)
(*                                                                         *)
(* The first part says what two operators of RedisAof do, for every file   *)
(* and every buffer. loadAppendOnlyFile(): loading goes token by token, a  *)
(* prefix of a file that loads loads too and rebuilds a prefix of the      *)
(* dataset, and cutting a file at valid_up_to loses nothing.               *)
(* flushAppendOnlyFile(): however write() ends, it only moves tokens from  *)
(* the buffer to the end of the file.                                      *)
(*                                                                         *)
(* The loader is a recursive function, so these facts are proved by        *)
(* induction on the number of tokens. The library's induction rule takes   *)
(* an operator and cannot be used; NatSetInduction is the same rule for a  *)
(* set, from the well-foundedness of < on the natural numbers.             *)
(***************************************************************************)
EXTENDS RedisAof, SequenceTheorems, WellFoundedInduction, TLAPS

Less == OpToRel(<, Nat)

\* The natural numbers are well-founded.
LEMMA LessIsWellFounded == IsWellFoundedOn(Less, Nat)
BY NatLessThanWellFounded, Zenon DEF Less

\* Less relates a number to every larger one.
LEMMA LessDef == \A x, y \in Nat : x < y => <<x, y>> \in Less
BY DEF Less, OpToRel

\* A set that has 0, and with each number the next one, has all of them.
LEMMA NatSetInduction ==
  ASSUME NEW S, 0 \in S, \A n \in Nat : n \in S => n + 1 \in S
  PROVE  Nat \subseteq S
<1> DEFINE T == Nat \ S
<1> SUFFICES ASSUME T # {} PROVE FALSE
  OBVIOUS
<1>1. PICK x \in T : \A y \in T : ~(<<y, x>> \in Less)
  BY LessIsWellFounded, WFMin, Zenon
<1>2. x \in Nat /\ x # 0
  BY <1>1
<1>3. x - 1 \in Nat /\ (x - 1) + 1 = x
  BY <1>2
<1>4. x - 1 \notin S
  BY <1>1, <1>3
<1>5. <<x - 1, x>> \in Less
  BY <1>2, <1>3, LessDef
<1> QED
  BY <1>1, <1>3, <1>4, <1>5

-----------------------------------------------------------------------------
(* Types. *)

Command == [id : 1..MaxWrites, db : DBs]

Token == {Sel(d) : d \in DBs} \cup {Half(i, h) : i \in 1..MaxWrites, h \in {1, 2}}
           \cup {Snap(l) : l \in Seq(Command)}

LoadState == [log : Seq(Command), db : DBs, half : 0..MaxWrites, good : Nat, bad : BOOLEAN]

\* The loader's states after the tokens of toks satisfy its recursion.
IsLoading(f, toks, n) ==
  f = [i \in 0..n |-> IF i = 0 THEN LoadStart ELSE LoadToken(f[i - 1], i, toks[i])]

\* The recursion has a solution, however long the file is.
LEMMA LoadingExists ==
  ASSUME NEW toks
  PROVE  \A n \in Nat : \E f : IsLoading(f, toks, n)
<1> DEFINE S == {n \in Nat : \E f : IsLoading(f, toks, n)}
<1>1. 0 \in S
  <2> DEFINE f == [i \in 0..0 |-> LoadStart]
  <2>1. IsLoading(f, toks, 0)
    BY DEF IsLoading
  <2> QED
    BY <2>1
<1>2. ASSUME NEW n \in Nat, n \in S PROVE n + 1 \in S
  <2>1. PICK f : IsLoading(f, toks, n)
    BY <1>2
  <2> DEFINE g == [i \in 0..n + 1 |-> IF i = 0 THEN LoadStart ELSE LoadToken(f[i - 1], i, toks[i])]
  <2>2. \A i \in 0..n : g[i] = f[i]
    BY <2>1 DEF IsLoading
  <2>3. IsLoading(g, toks, n + 1)
    <3>1. ASSUME NEW i \in 0..n + 1, i # 0
          PROVE  LoadToken(f[i - 1], i, toks[i]) = LoadToken(g[i - 1], i, toks[i])
      <4> HIDE DEF g
      <4>1. i - 1 \in 0..n
        BY <3>1
      <4> QED
        BY <2>2, <4>1
    <3> QED
      BY <3>1 DEF IsLoading
  <2> HIDE DEF g
  <2> QED
    BY <2>3
<1> HIDE DEF S
<1>3. Nat \subseteq S
  BY <1>1, <1>2, NatSetInduction
<1> QED
  BY <1>3 DEF S

\* Loading is that solution: it starts with LoadStart and goes token by token.
LEMMA LoadingStep ==
  ASSUME NEW T, NEW toks \in Seq(T)
  PROVE  /\ Loading(toks)[0] = LoadStart
         /\ \A i \in 1..Len(toks) :
              Loading(toks)[i] = LoadToken(Loading(toks)[i - 1], i, toks[i])
<1>1. Len(toks) \in Nat
  OBVIOUS
<1>2. Loading(toks) = CHOOSE f : IsLoading(f, toks, Len(toks))
  BY DEF Loading, IsLoading
<1>3. IsLoading(Loading(toks), toks, Len(toks))
  BY <1>1, <1>2, LoadingExists
<1> HIDE DEF Loading
<1> QED
  BY <1>1, <1>3 DEF IsLoading

\* The state of the loader has its type, and no more was good than was read.
LEMMA LoadTokenType ==
  ASSUME NEW a \in LoadState, NEW i \in Nat, NEW k \in Token, a.good <= i
  PROVE  LoadToken(a, i, k) \in LoadState /\ LoadToken(a, i, k).good <= i
<1> USE AofAssumption
<1>1. CASE a.bad
  BY <1>1 DEF LoadToken
<1>2. ASSUME ~a.bad, NEW d \in DBs, k = Sel(d)
      PROVE  LoadToken(a, i, k) \in LoadState /\ LoadToken(a, i, k).good <= i
  <2>1. LoadToken(a, i, k) = [a EXCEPT !.db = d, !.good = i, !.bad = a.half # 0]
    BY <1>2 DEF LoadToken, Sel
  <2>2. LoadToken(a, i, k) \in LoadState
    BY <2>1, Zenon DEF LoadState
  <2>3. LoadToken(a, i, k).good <= i
    BY <2>1 DEF LoadState
  <2> QED
    BY <2>2, <2>3
<1>3. ASSUME ~a.bad, NEW j \in 1..MaxWrites, k = Half(j, 1)
      PROVE  LoadToken(a, i, k) \in LoadState /\ LoadToken(a, i, k).good <= i
  <2>1. LoadToken(a, i, k) = [a EXCEPT !.half = j, !.bad = a.half # 0]
    BY <1>3 DEF LoadToken, Half
  <2>2. j \in 0..MaxWrites
    OBVIOUS
  <2>3. LoadToken(a, i, k) \in LoadState
    BY <2>1, <2>2, Zenon DEF LoadState
  <2>4. LoadToken(a, i, k).good <= i
    BY <2>1 DEF LoadState
  <2> QED
    BY <2>3, <2>4
<1>4. ASSUME ~a.bad, NEW j \in 1..MaxWrites, k = Half(j, 2)
      PROVE  LoadToken(a, i, k) \in LoadState /\ LoadToken(a, i, k).good <= i
  <2>1. LoadToken(a, i, k) = [a EXCEPT !.half = 0, !.bad = a.half # j, !.good = i,
                                       !.log = Append(@, [id |-> j, db |-> a.db])]
    BY <1>4 DEF LoadToken, Half
  <2>2. 0 \in 0..MaxWrites /\ [id |-> j, db |-> a.db] \in Command
    BY DEF LoadState, Command
  <2>3. Append(a.log, [id |-> j, db |-> a.db]) \in Seq(Command)
    BY <2>2 DEF LoadState
  <2>4. LoadToken(a, i, k) \in LoadState
    BY <2>1, <2>2, <2>3, Zenon DEF LoadState
  <2>5. LoadToken(a, i, k).good <= i
    BY <2>1 DEF LoadState
  <2> QED
    BY <2>4, <2>5
<1>5. ASSUME ~a.bad, NEW l \in Seq(Command), k = Snap(l)
      PROVE  LoadToken(a, i, k) \in LoadState /\ LoadToken(a, i, k).good <= i
  <2>1. LoadToken(a, i, k) = [a EXCEPT !.log = l, !.good = i, !.bad = i # 1]
    BY <1>5 DEF LoadToken, Snap
  <2>2. LoadToken(a, i, k) \in LoadState
    BY <2>1, Zenon DEF LoadState
  <2>3. LoadToken(a, i, k).good <= i
    BY <2>1 DEF LoadState
  <2> QED
    BY <2>2, <2>3
<1> QED
  BY <1>1, <1>2, <1>3, <1>4, <1>5 DEF Token

\* So has each state in between.
LEMMA LoadingType ==
  ASSUME NEW toks \in Seq(Token)
  PROVE  \A i \in 0..Len(toks) : Loading(toks)[i] \in LoadState /\ Loading(toks)[i].good <= i
<1> DEFINE S == {i \in Nat : i <= Len(toks) =>
                   Loading(toks)[i] \in LoadState /\ Loading(toks)[i].good <= i}
<1> HIDE DEF Loading
<1>1. 0 \in S
  <2>1. Loading(toks)[0] = LoadStart
    BY LoadingStep
  <2>2. LoadStart \in LoadState /\ LoadStart.good <= 0
    BY AofAssumption DEF LoadStart, LoadState
  <2> QED
    BY <2>1, <2>2
<1>2. ASSUME NEW i \in Nat, i \in S PROVE i + 1 \in S
  <2> SUFFICES ASSUME i + 1 <= Len(toks)
               PROVE  Loading(toks)[i + 1] \in LoadState /\ Loading(toks)[i + 1].good <= i + 1
    OBVIOUS
  <2>1. i + 1 \in 1..Len(toks) /\ toks[i + 1] \in Token
    OBVIOUS
  <2>2. Loading(toks)[i + 1] = LoadToken(Loading(toks)[i], i + 1, toks[i + 1])
    BY <2>1, LoadingStep
  <2>3. Loading(toks)[i] \in LoadState /\ Loading(toks)[i].good <= i
    BY <1>2, <2>1
  <2>4. Loading(toks)[i].good <= i + 1
    BY <2>3 DEF LoadState
  <2> QED
    BY <2>1, <2>2, <2>3, <2>4, LoadTokenType
<1> HIDE DEF S
<1>3. Nat \subseteq S
  BY <1>1, <1>2, NatSetInduction
<1> QED
  BY <1>3 DEF S

\* What was read so far does not depend on what follows.
LEMMA LoadingAgrees ==
  ASSUME NEW T, NEW u \in Seq(T), NEW v \in Seq(T), NEW n \in Nat, n <= Len(u), n <= Len(v),
         \A i \in 1..n : u[i] = v[i]
  PROVE  \A i \in 0..n : Loading(u)[i] = Loading(v)[i]
<1> DEFINE S == {i \in Nat : i <= n => Loading(u)[i] = Loading(v)[i]}
<1> HIDE DEF Loading
<1>1. 0 \in S
  BY LoadingStep
<1>2. ASSUME NEW i \in Nat, i \in S PROVE i + 1 \in S
  <2> SUFFICES ASSUME i + 1 <= n PROVE Loading(u)[i + 1] = Loading(v)[i + 1]
    OBVIOUS
  <2>1. i + 1 \in 1..Len(u) /\ i + 1 \in 1..Len(v) /\ u[i + 1] = v[i + 1] /\ (i + 1) - 1 = i
    OBVIOUS
  <2>2. Loading(u)[i] = Loading(v)[i]
    BY <1>2, <2>1
  <2>3. Loading(u)[i + 1] = LoadToken(Loading(u)[i], i + 1, u[i + 1])
    BY <2>1, LoadingStep
  <2>4. Loading(v)[i + 1] = LoadToken(Loading(v)[i], i + 1, v[i + 1])
    BY <2>1, LoadingStep
  <2> QED
    BY <2>1, <2>2, <2>3, <2>4
<1> HIDE DEF S
<1>3. Nat \subseteq S
  BY <1>1, <1>2, NatSetInduction
<1> QED
  BY <1>3 DEF S

-----------------------------------------------------------------------------
(* A file that loads, and its prefixes. *)

\* Continuing is transitive.
LEMMA ContinuesTransitive ==
  ASSUME NEW T, NEW r \in Seq(T), NEW s \in Seq(T), NEW t \in Seq(T),
         Continues(r, s), Continues(s, t)
  PROVE  Continues(r, t)
<1>1. Len(r) \in Nat /\ Len(s) \in Nat /\ Len(t) \in Nat
  OBVIOUS
<1>2. \A i \in 1..Len(r) : i \in 1..Len(s) /\ r[i] = s[i]
  BY <1>1 DEF Continues
<1> QED
  BY <1>1, <1>2 DEF Continues

\* What one token does to the loader when it is not a format error: the
\* dataset grows, and either valid_up_to moves behind the token or the
\* dataset is as before.
LEMMA LoadTokenGrows ==
  ASSUME NEW a \in LoadState, NEW i \in Nat, NEW k \in Token,
         i = 1 => a.log = <<>> /\ a.half = 0,
         ~LoadToken(a, i, k).bad
  PROVE  /\ ~a.bad
         /\ Continues(a.log, LoadToken(a, i, k).log)
         /\ \/ LoadToken(a, i, k).good = i /\ LoadToken(a, i, k).half = 0
            \/ LoadToken(a, i, k).good = a.good /\ LoadToken(a, i, k).log = a.log
<1> DEFINE b == LoadToken(a, i, k)
<1> DEFINE Goal == /\ Continues(a.log, b.log)
                   /\ \/ b.good = i /\ b.half = 0
                      \/ b.good = a.good /\ b.log = a.log
<1> USE AofAssumption
<1>1. ~a.bad
  BY DEF LoadToken
<1>2. a.log \in Seq(Command) /\ Continues(a.log, a.log)
  BY DEF LoadState, Continues
<1>3. ASSUME NEW d \in DBs, k = Sel(d) PROVE Goal
  <2>1. b = [a EXCEPT !.db = d, !.good = i, !.bad = a.half # 0]
    BY <1>1, <1>3 DEF LoadToken, Sel
  <2>2. b.log = a.log /\ b.good = i /\ b.half = a.half /\ b.bad = (a.half # 0)
    BY <2>1 DEF LoadState
  <2> HIDE DEF b
  <2> QED
    BY <1>2, <2>2, Zenon DEF b
<1>4. ASSUME NEW j \in 1..MaxWrites, k = Half(j, 1) PROVE Goal
  <2>1. b = [a EXCEPT !.half = j, !.bad = a.half # 0]
    BY <1>1, <1>4 DEF LoadToken, Half
  <2>2. b.log = a.log /\ b.good = a.good
    BY <2>1 DEF LoadState
  <2> HIDE DEF b
  <2> QED
    BY <1>2, <2>2
<1>5. ASSUME NEW j \in 1..MaxWrites, k = Half(j, 2) PROVE Goal
  <2> DEFINE c == [id |-> j, db |-> a.db]
  <2>1. b = [a EXCEPT !.half = 0, !.bad = a.half # j, !.good = i, !.log = Append(@, c)]
    BY <1>1, <1>5 DEF LoadToken, Half
  <2>2. b.log = Append(a.log, c) /\ b.good = i /\ b.half = 0
    BY <2>1 DEF LoadState
  <2>3. Continues(a.log, Append(a.log, c))
    BY <1>2 DEF Continues
  <2> HIDE DEF b, c
  <2> QED
    BY <2>2, <2>3
<1>6. ASSUME NEW l \in Seq(Command), k = Snap(l) PROVE Goal
  <2>1. b = [a EXCEPT !.log = l, !.good = i, !.bad = i # 1]
    BY <1>1, <1>6 DEF LoadToken, Snap
  <2>2. b.log = l /\ b.good = i /\ b.half = a.half /\ b.bad = (i # 1)
    BY <2>1 DEF LoadState
  <2>3. a.log = <<>> /\ a.half = 0
    BY <2>2, Zenon
  <2>4. Continues(<<>>, l)
    BY DEF Continues
  <2> HIDE DEF b
  <2> QED
    BY <2>2, <2>3, <2>4
<1> QED
  BY <1>1, <1>3, <1>4, <1>5, <1>6 DEF Token

\* The next state of the loader, and what it says of the one before.
LEMMA LoadingGrows ==
  ASSUME NEW toks \in Seq(Token), NEW i \in Nat, i + 1 <= Len(toks), ~Loading(toks)[i + 1].bad
  PROVE  /\ ~Loading(toks)[i].bad
         /\ Continues(Loading(toks)[i].log, Loading(toks)[i + 1].log)
         /\ \/ Loading(toks)[i + 1].good = i + 1 /\ Loading(toks)[i + 1].half = 0
            \/ /\ Loading(toks)[i + 1].good = Loading(toks)[i].good
               /\ Loading(toks)[i + 1].log = Loading(toks)[i].log
<1> HIDE DEF Loading
<1>1. i + 1 \in 1..Len(toks) /\ toks[i + 1] \in Token /\ (i + 1) - 1 = i /\ i \in 0..Len(toks)
  OBVIOUS
<1>2. Loading(toks)[i + 1] = LoadToken(Loading(toks)[i], i + 1, toks[i + 1])
  BY <1>1, LoadingStep
<1>3. Loading(toks)[i] \in LoadState
  BY <1>1, LoadingType
<1>4. i + 1 = 1 => Loading(toks)[i].log = <<>> /\ Loading(toks)[i].half = 0
  <2> SUFFICES ASSUME i = 0 PROVE Loading(toks)[i].log = <<>> /\ Loading(toks)[i].half = 0
    OBVIOUS
  <2> QED
    BY LoadingStep DEF LoadStart
<1> QED
  BY <1>1, <1>2, <1>3, <1>4, LoadTokenGrows

\* A prefix of a file that loads loads, and rebuilds a prefix of the dataset.
LEMMA LoadingPrefix ==
  ASSUME NEW toks \in Seq(Token), NEW n \in 0..Len(toks)
  PROVE  \A m \in n..Len(toks) :
           ~Loading(toks)[m].bad =>
             /\ ~Loading(toks)[n].bad
             /\ Continues(Loading(toks)[n].log, Loading(toks)[m].log)
<1> DEFINE P(m) == ~Loading(toks)[m].bad => /\ ~Loading(toks)[n].bad
                                            /\ Continues(Loading(toks)[n].log, Loading(toks)[m].log)
           S == {j \in Nat : n + j <= Len(toks) => P(n + j)}
<1> HIDE DEF Loading
<1>1. 0 \in S
  <2>1. Loading(toks)[n] \in LoadState
    BY LoadingType
  <2>2. Continues(Loading(toks)[n].log, Loading(toks)[n].log)
    BY <2>1 DEF LoadState, Continues
  <2> QED
    BY <2>2
<1>2. ASSUME NEW j \in Nat, j \in S PROVE j + 1 \in S
  <2> SUFFICES ASSUME (n + j) + 1 <= Len(toks), ~Loading(toks)[(n + j) + 1].bad
               PROVE  /\ ~Loading(toks)[n].bad
                      /\ Continues(Loading(toks)[n].log, Loading(toks)[(n + j) + 1].log)
    OBVIOUS
  <2>1. n + j \in Nat /\ n + j \in 0..Len(toks) /\ (n + j) + 1 \in 0..Len(toks)
    OBVIOUS
  <2>2. /\ ~Loading(toks)[n + j].bad
        /\ Continues(Loading(toks)[n + j].log, Loading(toks)[(n + j) + 1].log)
    BY <2>1, LoadingGrows
  <2>3. /\ ~Loading(toks)[n].bad
        /\ Continues(Loading(toks)[n].log, Loading(toks)[n + j].log)
    BY <1>2, <2>1, <2>2
  <2>4. /\ Loading(toks)[n].log \in Seq(Command) /\ Loading(toks)[n + j].log \in Seq(Command)
        /\ Loading(toks)[(n + j) + 1].log \in Seq(Command)
    BY <2>1, LoadingType DEF LoadState
  <2> QED
    BY <2>2, <2>3, <2>4, ContinuesTransitive
<1>3. Nat \subseteq S
  <2> HIDE DEF S
  <2> QED
    BY <1>1, <1>2, NatSetInduction
<1> SUFFICES ASSUME NEW m \in n..Len(toks) PROVE P(m)
  OBVIOUS
<1>4. m - n \in Nat /\ n + (m - n) = m
  OBVIOUS
<1>5. m - n \in S
  BY <1>3, <1>4, Zenon
<1> HIDE DEF P
<1> QED
  BY <1>4, <1>5

\* Nothing of a file that loads is lost by cutting it at valid_up_to, and what
\* is left ends with a complete command.
LEMMA LoadingGood ==
  ASSUME NEW toks \in Seq(Token)
  PROVE  \A i \in 0..Len(toks) :
           ~Loading(toks)[i].bad =>
             /\ Loading(toks)[Loading(toks)[i].good].log = Loading(toks)[i].log
             /\ Loading(toks)[Loading(toks)[i].good].half = 0
<1> DEFINE P(i) == ~Loading(toks)[i].bad =>
                     /\ Loading(toks)[Loading(toks)[i].good].log = Loading(toks)[i].log
                     /\ Loading(toks)[Loading(toks)[i].good].half = 0
           S == {i \in Nat : i <= Len(toks) => P(i)}
<1> HIDE DEF Loading
<1>1. 0 \in S
  BY LoadingStep DEF LoadStart
<1>2. ASSUME NEW i \in Nat, i \in S PROVE i + 1 \in S
  <2> SUFFICES ASSUME i + 1 <= Len(toks), ~Loading(toks)[i + 1].bad PROVE P(i + 1)
    OBVIOUS
  <2>1. i <= Len(toks) /\ ~Loading(toks)[i].bad
    BY LoadingGrows
  <2>2. P(i)
    BY <1>2, <2>1
  <2>3. \/ Loading(toks)[i + 1].good = i + 1 /\ Loading(toks)[i + 1].half = 0
        \/ /\ Loading(toks)[i + 1].good = Loading(toks)[i].good
           /\ Loading(toks)[i + 1].log = Loading(toks)[i].log
    BY LoadingGrows
  <2> QED
    BY <2>1, <2>2, <2>3
<1>3. Nat \subseteq S
  <2> HIDE DEF S
  <2> QED
    BY <1>1, <1>2, NatSetInduction
<1> QED
  BY <1>3


-----------------------------------------------------------------------------
(* The same of loadAppendOnlyFile(). *)

\* Loading the first n tokens is where loading all of them was after n.
LEMMA LoadFirst ==
  ASSUME NEW toks \in Seq(Token), NEW n \in 0..Len(toks)
  PROVE  loadAppendOnlyFile(SubSeq(toks, 1, n)) = Loading(toks)[n]
<1> DEFINE u == SubSeq(toks, 1, n)
<1>1. u \in Seq(Token) /\ Len(u) = n /\ \A i \in 1..n : u[i] = toks[i]
  BY SubSeqProperties
<1> HIDE DEF u, Loading
<1>2. n \in Nat /\ n <= Len(toks) /\ n <= Len(u) /\ n \in 0..n
  BY <1>1
<1>3. Loading(u)[n] = Loading(toks)[n]
  BY <1>1, <1>2, LoadingAgrees
<1>4. loadAppendOnlyFile(u) = Loading(u)[n]
  BY <1>1 DEF loadAppendOnlyFile
<1> QED
  BY <1>3, <1>4 DEF u

\* What is loaded is a dataset.
LEMMA LoadType ==
  ASSUME NEW toks \in Seq(Token)
  PROVE  loadAppendOnlyFile(toks) \in LoadState /\ loadAppendOnlyFile(toks).good \in 0..Len(toks)
<1> HIDE DEF Loading
<1>1. Len(toks) \in 0..Len(toks)
  OBVIOUS
<1>2. Loading(toks)[Len(toks)] \in LoadState /\ Loading(toks)[Len(toks)].good <= Len(toks)
  BY <1>1, LoadingType
<1> QED
  BY <1>2 DEF loadAppendOnlyFile, LoadState

\* An empty file is an empty dataset.
LEMMA LoadEmpty == loadAppendOnlyFile(<<>>) = LoadStart
<1>1. <<>> \in Seq(Token) /\ Len(<<>>) = 0
  OBVIOUS
<1> HIDE DEF Loading
<1> QED
  BY <1>1, LoadingStep, Zenon DEF loadAppendOnlyFile

\* Loading one more token.
LEMMA LoadAppend ==
  ASSUME NEW toks \in Seq(Token), NEW k \in Token
  PROVE  loadAppendOnlyFile(Append(toks, k)) = LoadToken(loadAppendOnlyFile(toks), Len(toks) + 1, k)
<1> DEFINE v == Append(toks, k)
           n == Len(toks)
<1>1. /\ v \in Seq(Token) /\ Len(v) = n + 1 /\ v[n + 1] = k
      /\ n \in Nat /\ \A i \in 1..n : toks[i] = v[i]
  BY AppendProperties
<1>2. n <= Len(toks) /\ n <= Len(v) /\ n \in 0..n /\ n + 1 \in 1..Len(v) /\ (n + 1) - 1 = n
  BY <1>1
<1> HIDE DEF v, n, Loading
<1>3. Loading(toks)[n] = Loading(v)[n]
  BY <1>1, <1>2, LoadingAgrees
<1>4. Loading(v)[n + 1] = LoadToken(Loading(v)[n], n + 1, v[n + 1])
  BY <1>1, <1>2, LoadingStep
<1>5. loadAppendOnlyFile(v) = Loading(v)[n + 1] /\ loadAppendOnlyFile(toks) = Loading(toks)[n]
  BY <1>1 DEF loadAppendOnlyFile, n
<1>6. loadAppendOnlyFile(v) = LoadToken(loadAppendOnlyFile(toks), n + 1, k)
  BY <1>1, <1>3, <1>4, <1>5
<1> QED
  BY <1>6 DEF v, n

\* The first n tokens of a file that loads load, and rebuild a prefix of its
\* dataset.
LEMMA LoadPrefix ==
  ASSUME NEW toks \in Seq(Token), NEW n \in 0..Len(toks), ~loadAppendOnlyFile(toks).bad
  PROVE  /\ ~loadAppendOnlyFile(SubSeq(toks, 1, n)).bad
         /\ Continues(loadAppendOnlyFile(SubSeq(toks, 1, n)).log, loadAppendOnlyFile(toks).log)
<1> HIDE DEF Loading
<1>1. Len(toks) \in n..Len(toks)
  OBVIOUS
<1>2. ~Loading(toks)[Len(toks)].bad
  BY DEF loadAppendOnlyFile
<1>3. /\ ~Loading(toks)[n].bad
      /\ Continues(Loading(toks)[n].log, Loading(toks)[Len(toks)].log)
  BY <1>1, <1>2, LoadingPrefix
<1>4. loadAppendOnlyFile(SubSeq(toks, 1, n)) = Loading(toks)[n]
  BY LoadFirst
<1>5. loadAppendOnlyFile(toks) = Loading(toks)[Len(toks)]
  BY DEF loadAppendOnlyFile
<1> HIDE DEF loadAppendOnlyFile
<1> QED
  BY <1>3, <1>4, <1>5

\* So does a file that was appended to.
LEMMA LoadConcat ==
  ASSUME NEW s \in Seq(Token), NEW t \in Seq(Token), ~loadAppendOnlyFile(s \o t).bad
  PROVE  /\ ~loadAppendOnlyFile(s).bad
         /\ Continues(loadAppendOnlyFile(s).log, loadAppendOnlyFile(s \o t).log)
<1>1. s \o t \in Seq(Token) /\ Len(s) \in 0..Len(s \o t)
  BY ConcatProperties
<1>2. SubSeq(s \o t, 1, Len(s)) = s
  OBVIOUS
<1> HIDE DEF loadAppendOnlyFile
<1> QED
  BY <1>1, <1>2, LoadPrefix, Zenon

\* A file cut at valid_up_to rebuilds the same dataset and ends with a complete
\* command.
LEMMA LoadTruncated ==
  ASSUME NEW toks \in Seq(Token), ~loadAppendOnlyFile(toks).bad
  PROVE  LET cut == loadAppendOnlyFile(SubSeq(toks, 1, loadAppendOnlyFile(toks).good))
         IN ~cut.bad /\ cut.half = 0 /\ cut.log = loadAppendOnlyFile(toks).log
<1> DEFINE r == loadAppendOnlyFile(toks)
<1> HIDE DEF Loading
<1>1. Len(toks) \in 0..Len(toks) /\ r = Loading(toks)[Len(toks)]
  BY DEF loadAppendOnlyFile
<1>2. r.good \in 0..Len(toks) /\ ~r.bad
  BY LoadType
<1> HIDE DEF r
<1>3. loadAppendOnlyFile(SubSeq(toks, 1, r.good)) = Loading(toks)[r.good]
  BY <1>2, LoadFirst
<1>4. Loading(toks)[r.good].log = r.log /\ Loading(toks)[r.good].half = 0
  BY <1>1, <1>2, LoadingGood
<1>5. ~loadAppendOnlyFile(SubSeq(toks, 1, r.good)).bad
  BY <1>2, LoadPrefix DEF r
<1> QED
  BY <1>3, <1>4, <1>5 DEF r

\* Command i as feedAppendOnlyFile() writes it, behind a complete command.
LEMMA LoadCommand ==
  ASSUME NEW s \in Seq(Token), NEW i \in 1..MaxWrites,
         ~loadAppendOnlyFile(s).bad, loadAppendOnlyFile(s).half = 0
  PROVE  LET r == loadAppendOnlyFile(s \o <<Half(i, 1), Half(i, 2)>>)
         IN /\ ~r.bad /\ r.half = 0 /\ r.db = loadAppendOnlyFile(s).db
            /\ r.log = Append(loadAppendOnlyFile(s).log, [id |-> i, db |-> loadAppendOnlyFile(s).db])
<1> DEFINE a == loadAppendOnlyFile(s)
           k == Half(i, 1)
           l == Half(i, 2)
<1>1. k \in Token /\ l \in Token
  BY DEF Token
<1>2. s \o <<k, l>> = Append(Append(s, k), l)
  BY <1>1
<1>3. a \in LoadState
  BY LoadType
<1>4. loadAppendOnlyFile(Append(s, k)) = LoadToken(a, Len(s) + 1, k)
  BY <1>1, LoadAppend
<1> DEFINE t == Append(s, k)
<1>5. t \in Seq(Token)
  BY <1>1
<1>6. loadAppendOnlyFile(Append(t, l)) = LoadToken(loadAppendOnlyFile(t), Len(t) + 1, l)
  BY <1>1, <1>5, LoadAppend, Zenon
<1> HIDE DEF loadAppendOnlyFile, a
<1> DEFINE b == LoadToken(a, Len(s) + 1, k)
<1>7. ~a.bad /\ a.half = 0
  BY DEF a
<1>8. b = [a EXCEPT !.half = i, !.bad = a.half # 0]
  BY <1>7 DEF LoadToken, Half
<1>9. b.half = i /\ b.log = a.log /\ b.db = a.db /\ ~b.bad
  BY <1>3, <1>7, <1>8, Zenon DEF LoadState
<1>10. b \in LoadState
  BY <1>1, <1>3, <1>4, <1>5, LoadType, Zenon DEF t
<1> HIDE DEF b
<1> DEFINE c == LoadToken(b, Len(t) + 1, l)
<1>11. c = [b EXCEPT !.half = 0, !.bad = b.half # i, !.good = Len(t) + 1,
                     !.log = Append(@, [id |-> i, db |-> b.db])]
  BY <1>9 DEF LoadToken, Half
<1>12. ~c.bad /\ c.half = 0 /\ c.db = b.db /\ c.log = Append(b.log, [id |-> i, db |-> b.db])
  BY <1>9, <1>10, <1>11, Zenon DEF LoadState
<1>13. loadAppendOnlyFile(s \o <<k, l>>) = c
  BY <1>2, <1>4, <1>6, Zenon DEF b
<1> HIDE DEF c, k, l
<1>14. LET r == loadAppendOnlyFile(s \o <<k, l>>)
       IN /\ ~r.bad /\ r.half = 0 /\ r.db = a.db
          /\ r.log = Append(a.log, [id |-> i, db |-> a.db])
  BY <1>9, <1>12, <1>13, Zenon
<1> QED
  BY <1>14, SMTT(30) DEF a, k, l

\* A SELECT behind a complete command.
LEMMA LoadSelect ==
  ASSUME NEW s \in Seq(Token), NEW d \in DBs,
         ~loadAppendOnlyFile(s).bad, loadAppendOnlyFile(s).half = 0
  PROVE  LET r == loadAppendOnlyFile(s \o <<Sel(d)>>)
         IN ~r.bad /\ r.half = 0 /\ r.db = d /\ r.log = loadAppendOnlyFile(s).log
<1> DEFINE a == loadAppendOnlyFile(s)
           k == Sel(d)
<1>1. k \in Token
  BY DEF Token
<1>2. s \o <<k>> = Append(s, k)
  BY <1>1
<1>3. a \in LoadState
  BY LoadType
<1>4. loadAppendOnlyFile(s \o <<k>>) = LoadToken(a, Len(s) + 1, k)
  BY <1>1, <1>2, LoadAppend, Zenon
<1> HIDE DEF loadAppendOnlyFile, a
<1> DEFINE b == LoadToken(a, Len(s) + 1, k)
<1>5. ~a.bad /\ a.half = 0
  BY DEF a
<1>6. b = [a EXCEPT !.db = d, !.good = Len(s) + 1, !.bad = a.half # 0]
  BY <1>5 DEF LoadToken, Sel
<1>7. b.half = 0 /\ b.log = a.log /\ b.db = d /\ ~b.bad
  BY <1>3, <1>5, <1>6, Zenon DEF LoadState
<1> HIDE DEF b, k
<1>8. LET r == loadAppendOnlyFile(s \o <<k>>)
      IN ~r.bad /\ r.half = 0 /\ r.db = d /\ r.log = a.log
  BY <1>4, <1>7 DEF b
<1> QED
  BY <1>8 DEF a, k

\* A rewritten base alone.
LEMMA LoadSnap ==
  ASSUME NEW l \in Seq(Command)
  PROVE  LET r == loadAppendOnlyFile(<<Snap(l)>>)
         IN ~r.bad /\ r.half = 0 /\ r.log = l
<1> DEFINE k == Snap(l)
<1>1. k \in Token /\ <<>> \in Seq(Token)
  BY DEF Token
<1>2. <<k>> = Append(<<>>, k) /\ Len(<<>>) + 1 = 1
  BY <1>1
<1>3. loadAppendOnlyFile(<<k>>) = LoadToken(LoadStart, 1, k)
  BY <1>1, <1>2, LoadAppend, LoadEmpty, Zenon
<1>4. LoadToken(LoadStart, 1, k) = [LoadStart EXCEPT !.log = l, !.good = 1, !.bad = 1 # 1]
  BY DEF LoadToken, LoadStart, Snap
<1> DEFINE b == LoadToken(LoadStart, 1, k)
<1>5. ~b.bad /\ b.half = 0 /\ b.log = l
  BY <1>4, Zenon DEF LoadStart
<1> HIDE DEF b, k, loadAppendOnlyFile
<1>6. LET r == loadAppendOnlyFile(<<k>>) IN ~r.bad /\ r.half = 0 /\ r.log = l
  BY <1>3, <1>5 DEF b
<1> QED
  BY <1>6 DEF k

-----------------------------------------------------------------------------
(* The types of the server's fields, of the file and of the rewrite.      *)

Mem ==
  [state : {"on", "off", "wait"}, buf : Seq(Token), sel : DBs \union {NoDb}, werr : BOOLEAN,
   aged : BOOLEAN, postponed : -1..2, size : Nat, offset : Nat, sched : BOOLEAN]

File == [toks : Seq(Token), synced : Nat]

Rewrite ==
  [child : {"none", "rdb", "saving", "asked", "ok", "failed"}, snap : Seq(Command),
   pipe : Seq(Token), diff : Seq(Token), buf : Seq(Token), tmp : Seq(Token),
   stop : BOOLEAN, ack : BOOLEAN]

\* Concatenation is associative.
LEMMA Associative == \A s, t, u \in Seq(Token) : (s \o t) \o u = s \o (t \o u)
BY ConcatAssociative

\* Moving the first n tokens of t to the end of s leaves s \o t as it is.
LEMMA MoveTokens ==
  ASSUME NEW s \in Seq(Token), NEW t \in Seq(Token), NEW n \in 0..Len(t)
  PROVE  /\ s \o SubSeq(t, 1, n) \in Seq(Token) /\ SubSeq(t, n + 1, Len(t)) \in Seq(Token)
         /\ Len(s \o SubSeq(t, 1, n)) = Len(s) + n
         /\ (s \o SubSeq(t, 1, n)) \o SubSeq(t, n + 1, Len(t)) = s \o t
         /\ n = Len(t) => SubSeq(t, n + 1, Len(t)) = <<>>
<1> DEFINE x == SubSeq(t, 1, n)
           y == SubSeq(t, n + 1, Len(t))
<1>1. Len(t) \in Nat /\ Len(s) \in Nat
  OBVIOUS
<1>2. x \in Seq(Token) /\ Len(x) = n
  BY <1>1, SubSeqProperties
<1>3. y \in Seq(Token)
  OBVIOUS
<1>4. x \o y = t
  <2>1. 1 \in 1..Len(t) + 1 /\ n \in (1 - 1)..Len(t) /\ Len(t) \in n..Len(t)
    BY <1>1
  <2>2. x \o y = SubSeq(t, 1, Len(t))
    BY <2>1, ConcatAdjacentSubSeq, Zenon
  <2> QED
    BY <2>2, SubSeqFull, Zenon
<1>5. n = Len(t) => y = <<>>
  BY <1>1
<1> HIDE DEF x, y
<1>6. s \o x \in Seq(Token) /\ Len(s \o x) = Len(s) + n
  BY <1>2, ConcatProperties, Zenon
<1>7. (s \o x) \o y = s \o (x \o y)
  BY <1>2, <1>3, Associative, ZenonT(40)
<1> QED
  BY <1>3, <1>4, <1>5, <1>6, <1>7, Zenon DEF x, y

-----------------------------------------------------------------------------
(* What flushAppendOnlyFile() may do to s, the fields, the file, the fsync *)
(* queue and whether the process runs.                                     *)

FlushState(B) == [mem : Mem, file : File, bio : B, up : BOOLEAN]

FlushTyped(s) == s.mem.offset <= s.mem.size /\ s.file.synced <= Len(s.file.toks)

\* The fsync that ends a flush changes no token.
Synced(s, m) ==
  /\ m.mem \in Mem /\ m.file \in File /\ m.up = s.up /\ FlushTyped(m)
  /\ m.mem.state = s.mem.state /\ m.mem.sel = s.mem.sel
  /\ m.mem.buf = s.mem.buf /\ m.mem.size = s.mem.size
  /\ m.file.toks = s.file.toks /\ s.file.synced <= m.file.synced
  /\ policy = "always" /\ ~NoFsyncOnRewrite => m.file.synced = Len(s.file.toks)

\* The fsync of a flush.
LEMMA TryFsyncFacts ==
  ASSUME NEW B, NEW s \in FlushState(B), NEW q, FlushTyped(s)
  PROVE  Synced(s, TryFsync(s, q))
<1> DEFINE m == TryFsync(s, q)
           a == s.mem
           f == s.file
<1> SUFFICES Synced(s, m)
  OBVIOUS
<1>0. a \in Mem /\ f \in File /\ a.offset <= a.size /\ f.synced <= Len(f.toks) /\ s.up \in BOOLEAN
  BY DEF FlushState, FlushTyped
<1>1. f.synced \in Nat /\ Len(f.toks) \in Nat /\ a.size \in Nat /\ a.offset \in Nat
  BY <1>0 DEF File, Mem
<1>2. CASE m = s /\ (policy = "always" => NoFsyncOnRewrite)
  BY <1>0, <1>1, <1>2 DEF Synced, FlushTyped
<1>3. CASE policy = "always" /\ m = [s EXCEPT !.file.synced = Len(s.file.toks),
                                              !.mem.offset = s.mem.size, !.mem.aged = FALSE]
  <2>1. m.mem = [a EXCEPT !.offset = a.size, !.aged = FALSE]
    BY <1>3 DEF FlushState
  <2>2. m.file = [f EXCEPT !.synced = Len(f.toks)] /\ m.up = s.up
    BY <1>3 DEF FlushState
  <2>3. m.mem \in Mem /\ m.file \in File
    BY <1>0, <1>1, <2>1, <2>2, Zenon DEF Mem, File
  <2> HIDE DEF m
  <2>4. m.mem.offset = a.size /\ m.mem.size = a.size
    BY <1>0, <2>1 DEF Mem
  <2>5. m.mem.state = a.state /\ m.mem.sel = a.sel /\ m.mem.buf = a.buf
    BY <1>0, <2>1 DEF Mem
  <2>6. m.file.toks = f.toks /\ m.file.synced = Len(f.toks)
    BY <1>0, <2>2 DEF File
  <2> QED
    BY <1>0, <1>1, <2>2, <2>3, <2>4, <2>5, <2>6 DEF Synced, FlushTyped
<1>4. CASE policy # "always" /\ m = [s EXCEPT !.mem.aged = FALSE,
                                              !.mem.offset = IF q THEN @ ELSE s.mem.size,
                                              !.bio = IF q THEN @ ELSE Append(@, s.mem.state # "off")]
  <2> DEFINE o == IF q THEN a.offset ELSE a.size
  <2>1. m.mem = [a EXCEPT !.aged = FALSE, !.offset = o]
    BY <1>4 DEF FlushState
  <2>2. m.file = f /\ m.up = s.up
    BY <1>4 DEF FlushState
  <2>3. o \in Nat /\ o <= a.size
    BY <1>0, <1>1
  <2> HIDE DEF o
  <2>4. m.mem \in Mem
    BY <1>0, <2>1, <2>3, Zenon DEF Mem
  <2> HIDE DEF m
  <2>5. m.mem.offset = o /\ m.mem.size = a.size
    BY <1>0, <2>1 DEF Mem
  <2>6. m.mem.state = a.state /\ m.mem.sel = a.sel /\ m.mem.buf = a.buf
    BY <1>0, <2>1 DEF Mem
  <2> QED
    BY <1>0, <1>1, <1>4, <2>2, <2>3, <2>4, <2>5, <2>6 DEF Synced, FlushTyped
<1>5. \/ m = s /\ (policy = "always" => NoFsyncOnRewrite)
      \/ policy = "always" /\ m = [s EXCEPT !.file.synced = Len(s.file.toks),
                                            !.mem.offset = s.mem.size, !.mem.aged = FALSE]
      \/ policy # "always" /\ m = [s EXCEPT !.mem.aged = FALSE,
                                            !.mem.offset = IF q THEN @ ELSE s.mem.size,
                                            !.bio = IF q THEN @ ELSE Append(@, s.mem.state # "off")]
  BY DEF TryFsync
<1> HIDE DEF m
<1> QED
  BY <1>2, <1>3, <1>4, <1>5

\* A flush moves tokens from the buffer to the end of the file, in order; under
\* appendfsync always it moves and syncs all of them or ends the process.
Flushed(s, m) ==
  /\ m.mem \in Mem /\ m.file \in File /\ m.up \in {s.up, FALSE} /\ FlushTyped(m)
  /\ m.mem.state = s.mem.state /\ m.mem.sel = s.mem.sel
  /\ m.file.toks \o m.mem.buf = s.file.toks \o s.mem.buf
  /\ \E n \in 0..Len(s.mem.buf) : m.file.toks = s.file.toks \o SubSeq(s.mem.buf, 1, n)
  /\ s.file.synced <= m.file.synced
  /\ s.mem.size = Len(s.file.toks) => m.mem.size = Len(m.file.toks)
  /\ policy = "always" /\ ~NoFsyncOnRewrite /\ m.up =>
       /\ m.mem.buf = <<>>
       /\ IF s.mem.buf = <<>> THEN m.file = s.file ELSE m.file.synced = Len(m.file.toks)

\* The write() of a flush.
Wrote(s, n, w) ==
  /\ FlushTyped(w) /\ w.up = s.up
  /\ w.mem.state = s.mem.state /\ w.mem.sel = s.mem.sel
  /\ w.file.toks \o w.mem.buf = s.file.toks \o s.mem.buf
  /\ w.file.toks = s.file.toks \o SubSeq(s.mem.buf, 1, n)
  /\ w.file.synced = s.file.synced
  /\ s.mem.size = Len(s.file.toks) => w.mem.size = Len(w.file.toks)
  /\ n = Len(s.mem.buf) => w.mem.buf = <<>>

\* It moves the first n tokens of the buffer, and nothing else.
LEMMA WrittenFacts ==
  ASSUME NEW B, NEW s \in FlushState(B), NEW n \in 0..Len(s.mem.buf), FlushTyped(s)
  PROVE  Written(s, n) \in FlushState(B) /\ Wrote(s, n, Written(s, n))
<1> DEFINE w == Written(s, n)
           a == s.mem
           f == s.file
           x == SubSeq(a.buf, 1, n)
           y == SubSeq(a.buf, n + 1, Len(a.buf))
<1>1. /\ a \in Mem /\ f \in File /\ a.offset <= a.size /\ f.synced <= Len(f.toks)
      /\ s.up \in BOOLEAN /\ s.bio \in B
  BY DEF FlushState, FlushTyped
<1>2. a.buf \in Seq(Token) /\ f.toks \in Seq(Token) /\ Len(a.buf) \in Nat /\ Len(f.toks) \in Nat
  BY <1>1 DEF Mem, File
<1>3. /\ f.toks \o x \in Seq(Token) /\ y \in Seq(Token)
      /\ Len(f.toks \o x) = Len(f.toks) + n
      /\ (f.toks \o x) \o y = f.toks \o a.buf
      /\ n = Len(a.buf) => y = <<>>
  BY <1>2, MoveTokens, Zenon
<1>4. w = [s EXCEPT !.file.toks = @ \o x, !.mem.size = @ + n, !.mem.buf = y,
                    !.mem.postponed = NotPostponed]
  BY DEF Written
<1> HIDE DEF x, y, w
<1>5. w.mem = [a EXCEPT !.size = a.size + n, !.buf = y, !.postponed = NotPostponed]
  BY <1>4 DEF FlushState
<1>6. w.file = [f EXCEPT !.toks = f.toks \o x] /\ w.up = s.up
  BY <1>4 DEF FlushState
<1>7. a.size + n \in Nat /\ NotPostponed \in -1..2 /\ a.size \in Nat /\ a.offset \in Nat /\ f.synced \in Nat
  BY <1>1 DEF Mem, File, NotPostponed
<1>8. w.mem \in Mem
  BY <1>1, <1>3, <1>5, <1>7, Zenon DEF Mem
<1>9. /\ w.mem.state = a.state /\ w.mem.sel = a.sel /\ w.mem.offset = a.offset
      /\ w.mem.buf = y /\ w.mem.size = a.size + n
  BY <1>1, <1>5 DEF Mem
<1>10. w.file \in File /\ w.file.toks = f.toks \o x /\ w.file.synced = f.synced
  BY <1>1, <1>3, <1>6, Zenon DEF File
<1>11. w \in FlushState(B)
  BY <1>1, <1>4, <1>5, <1>6, <1>8, <1>10, Zenon DEF FlushState
<1>12. FlushTyped(w)
  <2> DEFINE z == f.toks \o x
  <2>1. w.file.toks = z /\ Len(z) = Len(f.toks) + n
    BY <1>3, <1>10
  <2> HIDE DEF z
  <2> QED
    BY <1>1, <1>2, <1>7, <1>9, <1>10, <2>1, SMTT(30) DEF FlushTyped
<1>13. a.size = Len(f.toks) => w.mem.size = Len(w.file.toks)
  BY <1>3, <1>9, <1>10
<1>14. w.file.toks \o w.mem.buf = f.toks \o a.buf
  BY <1>3, <1>9, <1>10, Zenon
<1>15. Wrote(s, n, w)
  BY <1>3, <1>6, <1>9, <1>10, <1>12, <1>13, <1>14, Zenon DEF Wrote, x
<1> QED
  BY <1>11, <1>15 DEF w

\* Setting aof_last_write_status changes nothing of that.
LEMMA ErrorFacts ==
  ASSUME NEW B, NEW s, NEW n, NEW w \in FlushState(B), NEW e \in BOOLEAN, Wrote(s, n, w)
  PROVE  [w EXCEPT !.mem.werr = e] \in FlushState(B) /\ Wrote(s, n, [w EXCEPT !.mem.werr = e])
<1> DEFINE v == [w EXCEPT !.mem.werr = e]
<1>1. v.mem = [w.mem EXCEPT !.werr = e] /\ v.file = w.file /\ v.up = w.up /\ v.bio = w.bio
  BY DEF FlushState
<1>2. w.mem \in Mem
  BY DEF FlushState
<1>3. v.mem \in Mem
  BY <1>1, <1>2 DEF Mem
<1>4. v \in FlushState(B)
  BY <1>1, <1>3 DEF FlushState
<1> HIDE DEF v
<1>5. /\ v.mem.state = w.mem.state /\ v.mem.sel = w.mem.sel /\ v.mem.buf = w.mem.buf
      /\ v.mem.size = w.mem.size /\ v.mem.offset = w.mem.offset
  BY <1>1, <1>2 DEF Mem
<1>6. Wrote(s, n, v)
  BY <1>1, <1>5, Zenon DEF Wrote, FlushTyped
<1> QED
  BY <1>4, <1>6 DEF v

\* A flush that writes nothing.
LEMMA NoWrite ==
  ASSUME NEW B, NEW s \in FlushState(B), NEW m, Synced(s, m), policy # "always"
  PROVE  Flushed(s, m)
<1>1. s.mem.buf \in Seq(Token) /\ s.file.toks \in Seq(Token) /\ Len(s.mem.buf) \in Nat
  BY DEF FlushState, Mem, File
<1>2. 0 \in 0..Len(s.mem.buf) /\ s.file.toks = s.file.toks \o SubSeq(s.mem.buf, 1, 0)
  BY <1>1
<1> QED
  BY <1>2, Zenon DEF Flushed, Synced

\* A write() that fails, wholly or in part.
LEMMA ShortWrite ==
  ASSUME NEW B, NEW s \in FlushState(B), NEW n \in 0..Len(s.mem.buf), NEW w \in FlushState(B),
         Wrote(s, n, w), NEW v, v.mem = w.mem, v.file = w.file,
         v.up = FALSE \/ (v.up = w.up /\ policy # "always")
  PROVE  Flushed(s, v)
<1>1. w.mem \in Mem /\ w.file \in File /\ w.up \in BOOLEAN /\ w.file.synced <= w.file.synced
  BY DEF FlushState, File
<1>2. v.up \in {s.up, FALSE} /\ (policy = "always" => v.up = FALSE)
  BY Zenon DEF Wrote
<1> QED
  BY <1>1, <1>2, Zenon DEF Flushed, Wrote, FlushTyped

\* A write() that is complete.
LEMMA CompleteWrite ==
  ASSUME NEW B, NEW s \in FlushState(B), NEW w \in FlushState(B), NEW m, s.mem.buf # <<>>,
         Wrote(s, Len(s.mem.buf), w), Synced(w, m)
  PROVE  Flushed(s, m)
<1>1. s.mem.buf \in Seq(Token) /\ Len(s.mem.buf) \in 0..Len(s.mem.buf)
  BY DEF FlushState, Mem
<1>2. w.mem.buf = <<>> /\ m.mem.buf = <<>> /\ m.file.toks = w.file.toks
  BY Zenon DEF Wrote, Synced
<1>3. policy = "always" /\ ~NoFsyncOnRewrite => m.file.synced = Len(m.file.toks)
  BY DEF Synced
<1> QED
  BY <1>1, <1>2, <1>3, Zenon DEF Flushed, Wrote, Synced

\* Every flush, whatever write() does.
LEMMA FlushFacts ==
  ASSUME NEW B, NEW s \in FlushState(B), NEW force, NEW o \in 0..Len(s.mem.buf), FlushTyped(s)
  PROVE  Flushed(s, flushAppendOnlyFile(s, force, o))
<1> DEFINE m == flushAppendOnlyFile(s, force, o)
           q == policy = "everysec" /\ s.bio # <<>>
           w == Written(s, o)
           x == [w EXCEPT !.mem.werr = FALSE]
           y == [w EXCEPT !.mem.werr = TRUE]
           z == [w EXCEPT !.up = FALSE]
<1> SUFFICES Flushed(s, m)
  OBVIOUS
<1>0. s.mem \in Mem /\ s.file \in File /\ s.up \in BOOLEAN
  BY DEF FlushState
<1>1. w \in FlushState(B) /\ Wrote(s, o, w)
  BY WrittenFacts
<1>2. CASE m = s /\ s.mem.buf = <<>>
  <2>1. 0 \in 0..Len(s.mem.buf) /\ s.file.toks = s.file.toks \o SubSeq(s.mem.buf, 1, 0)
    BY <1>0 DEF Mem, File
  <2>2. s.file.synced <= s.file.synced
    BY <1>0 DEF File
  <2> HIDE DEF m
  <2> QED
    BY <1>0, <1>2, <2>1, <2>2, Zenon DEF Flushed
<1>3. CASE m = s /\ policy # "always"
  <2>1. s.file.synced <= s.file.synced
    BY <1>0 DEF File
  <2> HIDE DEF m
  <2>2. Synced(s, m)
    BY <1>0, <1>3, <2>1 DEF Synced
  <2> QED
    BY <1>3, <2>2, NoWrite
<1>4. CASE policy # "always" /\ m = TryFsync(s, FALSE)
  <2>1. Synced(s, m)
    BY <1>4, TryFsyncFacts, Zenon
  <2> QED
    BY <1>4, <2>1, NoWrite, Zenon
<1>5. CASE policy # "always" /\ m = [s EXCEPT !.mem.postponed = 0]
  <2>1. m.mem = [s.mem EXCEPT !.postponed = 0] /\ m.file = s.file /\ m.up = s.up
    BY <1>5 DEF FlushState
  <2>2. m.mem \in Mem
    BY <1>0, <2>1 DEF Mem
  <2> HIDE DEF m
  <2>3. /\ m.mem.offset = s.mem.offset /\ m.mem.size = s.mem.size /\ m.mem.state = s.mem.state
        /\ m.mem.sel = s.mem.sel /\ m.mem.buf = s.mem.buf
    BY <1>0, <2>1 DEF Mem
  <2>4. s.file.synced <= s.file.synced
    BY <1>0 DEF File
  <2>5. Synced(s, m)
    BY <1>0, <1>5, <2>1, <2>2, <2>3, <2>4 DEF Synced, FlushTyped
  <2> QED
    BY <1>5, <2>5, NoWrite
<1>6. CASE s.mem.buf # <<>> /\ o = Len(s.mem.buf) /\ m = TryFsync(x, q)
  <2>1. x \in FlushState(B) /\ Wrote(s, o, x)
    BY <1>1, ErrorFacts, Zenon
  <2> HIDE DEF x, q, m
  <2>2. FlushTyped(x)
    BY <2>1 DEF Wrote
  <2>3. Synced(x, m)
    BY <1>6, <2>1, <2>2, TryFsyncFacts
  <2> QED
    BY <1>6, <2>1, <2>3, CompleteWrite
<1>7. CASE m = z
  <2>1. m.mem = w.mem /\ m.file = w.file /\ m.up = FALSE
    BY <1>1, <1>7 DEF FlushState
  <2> HIDE DEF m, w, z
  <2> QED
    BY <1>1, <2>1, ShortWrite, Zenon
<1>8. CASE policy # "always" /\ m = y
  <2>1. y \in FlushState(B) /\ Wrote(s, o, y)
    BY <1>1, ErrorFacts, Zenon
  <2> HIDE DEF y, m
  <2> QED
    BY <1>8, <2>1, ShortWrite, Zenon
<1>9. \/ m = s /\ s.mem.buf = <<>>
      \/ m = s /\ policy # "always"
      \/ policy # "always" /\ m = TryFsync(s, FALSE)
      \/ policy # "always" /\ m = [s EXCEPT !.mem.postponed = 0]
      \/ s.mem.buf # <<>> /\ o = Len(s.mem.buf) /\ m = TryFsync(x, q)
      \/ m = z
      \/ policy # "always" /\ m = y
  <2>1. CASE s.mem.buf = <<>>
    BY <2>1, Zenon DEF flushAppendOnlyFile
  <2>2. CASE s.mem.buf # <<>> /\ q /\ ~force /\ s.mem.postponed = NotPostponed
    BY <2>2 DEF flushAppendOnlyFile, NotPostponed
  <2>3. CASE s.mem.buf # <<>> /\ q /\ ~force /\ s.mem.postponed \in {0, 1}
    BY <2>3 DEF flushAppendOnlyFile, NotPostponed
  <2>4. CASE /\ s.mem.buf # <<>>
             /\ ~(q /\ ~force /\ s.mem.postponed = NotPostponed)
             /\ ~(q /\ ~force /\ s.mem.postponed \in {0, 1})
    <3>1. m = IF o = Len(s.mem.buf) THEN TryFsync(x, q)
              ELSE IF policy = "always" THEN z ELSE y
      BY <2>4 DEF flushAppendOnlyFile
    <3> QED
      BY <2>4, <3>1, Zenon
  <2> QED
    BY <2>1, <2>2, <2>3, <2>4, Zenon
<1> HIDE DEF m, w, q, x, y, z
<1> QED
  BY <1>2, <1>3, <1>4, <1>5, <1>6, <1>7, <1>8, <1>9, Zenon

-----------------------------------------------------------------------------
(* The inductive invariant. *)

Types ==
  /\ policy \in Policies /\ up \in BOOLEAN /\ pc \in {"loop", "switching"}
  /\ log \in Seq(Command) /\ writes \in 0..MaxWrites
  /\ mem \in Mem /\ file \in File /\ rw \in Rewrite
  /\ mem.offset <= mem.size /\ file.synced <= Len(file.toks)
  /\ acked \in Nat /\ acked <= Len(log) /\ born \in Nat
  /\ Serving /\ mem.state = "on" => mem.size = Len(file.toks)
  /\ rw.ack => rw.stop
  /\ rw.child = "ok" => rw.stop

\* The tokens rebuild dataset l, end with a complete command, and leave the
\* loader on database sel if there is one.
Rebuilds(toks, sel, l) ==
  LET r == loadAppendOnlyFile(toks)
  IN ~r.bad /\ r.half = 0 /\ r.log = l /\ (sel # NoDb => r.db = sel)

\* The tokens load, and rebuild a prefix of l.
LoadsPrefix(toks, l) ==
  ~loadAppendOnlyFile(toks).bad /\ Continues(loadAppendOnlyFile(toks).log, l)

FileInv ==
  /\ Serving /\ mem.state = "on" => Rebuilds(file.toks \o mem.buf, mem.sel, log)
  /\ up /\ pc = "switching" /\ mem.state # "off" => Rebuilds(file.toks, NoDb, log)
  /\ ~up /\ mem.state = "on" => LoadsPrefix(file.toks, log)

\* What the file will be when the rewrite that runs is done.
NewFile ==
  IF rw.child = "ok" THEN rw.tmp \o rw.buf
  ELSE <<Snap(rw.snap)>> \o rw.diff \o rw.pipe \o rw.buf

RewriteInv ==
  Serving /\ AofChild /\ mem.state # "off" => Rebuilds(NewFile, mem.sel, log)

DurableInv ==
  policy = "always" /\ ~NoFsyncOnRewrite /\ mem.state = "on" /\ pc = "loop" =>
    /\ up /\ Len(log) > born /\ mem.buf = <<>> => file.synced = Len(file.toks)
    /\ acked > born => acked <= OnDisk

IInv == Types /\ FileInv /\ RewriteInv /\ DurableInv

\* More tokens of a file that loads on the disk are no fewer commands.
LEMMA MoreOnDisk ==
  ASSUME NEW toks \in Seq(Token), ~loadAppendOnlyFile(toks).bad,
         NEW i \in Nat, NEW j \in Nat, i <= j, j <= Len(toks)
  PROVE  Len(loadAppendOnlyFile(SubSeq(toks, 1, i)).log)
           <= Len(loadAppendOnlyFile(SubSeq(toks, 1, j)).log)
<1> DEFINE u == SubSeq(toks, 1, j)
<1>1. j \in 0..Len(toks) /\ u \in Seq(Token) /\ Len(u) = j
  BY SubSeqProperties
<1>2. ~loadAppendOnlyFile(u).bad
  BY <1>1, LoadPrefix
<1>3. SubSeq(u, 1, i) = SubSeq(toks, 1, i)
  BY <1>1
<1>4. i \in 0..Len(u)
  BY <1>1
<1> HIDE DEF u
<1>5. Continues(loadAppendOnlyFile(SubSeq(u, 1, i)).log, loadAppendOnlyFile(u).log)
  BY <1>1, <1>2, <1>4, LoadPrefix
<1> QED
  BY <1>3, <1>5, Zenon DEF Continues, u

\* A file with nothing behind it.
LEMMA WholeFile ==
  ASSUME NEW toks \in Seq(Token)
  PROVE  SubSeq(toks, 1, Len(toks)) = toks /\ toks \o <<>> = toks
BY SubSeqFull, ConcatEmptySeq

\* Tokens that rebuild the dataset load, and so does any prefix of them.
LEMMA RebuildsPrefix ==
  ASSUME NEW s \in Seq(Token), NEW t \in Seq(Token), NEW d, NEW l, Rebuilds(s \o t, d, l)
  PROVE  LoadsPrefix(s, l)
BY LoadConcat DEF Rebuilds, LoadsPrefix

-----------------------------------------------------------------------------
(* Steps that change no token of the file, of the buffer or of the new     *)
(* file.                                                                   *)

\* The fields after an assignment to those that no invariant is about.
SameTokens(m, n) ==
  /\ n \in Mem /\ n.state = m.state /\ n.buf = m.buf /\ n.sel = m.sel
  /\ n.size = m.size /\ n.offset = m.offset

QuietStep ==
  /\ UNCHANGED <<policy, up, pc, log, acked, born, writes>>
  /\ SameTokens(mem, mem')
  /\ file' \in File /\ file'.toks = file.toks /\ file'.synced \in {file.synced, Len(file.toks)}
  /\ rw' \in Rewrite /\ (rw'.ack => rw'.stop) /\ (rw'.child = "ok" => rw'.stop)
  /\ AofChild' => AofChild /\ NewFile' = NewFile

\* They preserve the invariant.
LEMMA QuietInv ==
  ASSUME IInv, QuietStep
  PROVE  IInv'
<1> USE DEF IInv
<1>0. /\ file.toks \in Seq(Token) /\ Len(file.toks) \in Nat /\ file.synced \in Nat
      /\ mem.buf \in Seq(Token)
  BY DEF Types, File, Mem
<1>1. Types'
  BY <1>0 DEF Types, QuietStep, SameTokens, Serving
<1>2. FileInv'
  BY DEF FileInv, QuietStep, SameTokens, Serving
<1>3. RewriteInv'
  BY DEF RewriteInv, QuietStep, SameTokens, Serving
<1>4. DurableInv'
  <2> SUFFICES ASSUME policy = "always", ~NoFsyncOnRewrite, mem.state = "on", pc = "loop"
               PROVE  /\ up /\ Len(log) > born /\ mem.buf = <<>> => file'.synced = Len(file.toks)
                      /\ acked > born => acked <= OnDisk'
    BY DEF DurableInv, QuietStep, SameTokens
  <2>1. up /\ Len(log) > born /\ mem.buf = <<>> => file'.synced = Len(file.toks)
    BY DEF DurableInv, QuietStep, SameTokens
  <2>2. ~loadAppendOnlyFile(file.toks).bad
    <3>1. CASE up
      BY <1>0, <3>1, RebuildsPrefix DEF FileInv, Serving, LoadsPrefix
    <3>2. CASE ~up
      BY <3>2 DEF FileInv, LoadsPrefix
    <3> QED
      BY <3>1, <3>2
  <2>3. OnDisk <= OnDisk'
    <3>1. /\ file'.synced \in Nat /\ file.synced <= file'.synced
          /\ file'.synced <= Len(file.toks) /\ file'.toks = file.toks
      BY <1>0 DEF Types, QuietStep, SameTokens
    <3> QED
      BY <1>0, <2>2, <3>1, MoreOnDisk DEF OnDisk
  <2>4. OnDisk \in Nat /\ OnDisk' \in Nat
    <3>1. SubSeq(file.toks, 1, file.synced) \in Seq(Token)
      BY <1>0 DEF Types
    <3>2. SubSeq(file'.toks, 1, file'.synced) \in Seq(Token)
      BY <1>0, <1>1 DEF Types, File
    <3> QED
      BY <3>1, <3>2, LoadType DEF OnDisk, LoadState
  <2>5. acked > born => acked <= OnDisk'
    BY <2>3, <2>4 DEF DurableInv, Types
  <2> QED
    BY <2>1, <2>5
<1> QED
  BY <1>1, <1>2, <1>3, <1>4

\* aof_last_fsync and aof_flush_postponed_start are such fields, ...
LEMMA QuietTime ==
  ASSUME NEW m \in Mem, NEW p \in -1..2
  PROVE  SameTokens(m, [m EXCEPT !.aged = TRUE, !.postponed = p])
<1> DEFINE n == [m EXCEPT !.aged = TRUE, !.postponed = p]
<1>1. n \in Mem
  BY Zenon DEF Mem
<1>2. n.state = m.state /\ n.buf = m.buf /\ n.sel = m.sel
  BY DEF Mem
<1>3. n.size = m.size /\ n.offset = m.offset
  BY DEF Mem
<1> QED
  BY <1>1, <1>2, <1>3 DEF SameTokens

\* ... and so is aof_rewrite_scheduled.
LEMMA QuietSchedule ==
  ASSUME NEW m \in Mem, NEW c \in BOOLEAN
  PROVE  SameTokens(m, [m EXCEPT !.sched = c])
<1> DEFINE n == [m EXCEPT !.sched = c]
<1>1. n \in Mem
  BY DEF Mem
<1>2. n.state = m.state /\ n.buf = m.buf /\ n.sel = m.sel
  BY DEF Mem
<1>3. n.size = m.size /\ n.offset = m.offset
  BY DEF Mem
<1> QED
  BY <1>1, <1>2, <1>3 DEF SameTokens

\* A step of the rewrite alone is quiet if what the new file will be stays.
LEMMA QuietRewrite ==
  ASSUME Types, UNCHANGED <<policy, up, pc, log, mem, file, acked, born, writes>>,
         rw' \in Rewrite, rw'.ack => rw'.stop, rw'.child = "ok" => rw'.stop,
         AofChild' => AofChild /\ NewFile' = NewFile
  PROVE  QuietStep
BY DEF Types, QuietStep, SameTokens

\* The timer, the bio thread, the child process and its pipes, BGSAVE and a
\* rewrite that fails take such steps.
LEMMA QuietSteps ==
  ASSUME Types,
         \/ SecondPasses \/ bioProcessBackgroundJobs \/ ScheduleRewrite \/ BgSave \/ BgSaveDone
         \/ aofChildWriteDiffData \/ aofReadDiffFromParent \/ ChildAsksToStop
         \/ aofChildPipeReadable \/ ChildFinishes \/ ChildFails \/ RewriteFailed
  PROVE  QuietStep
<1>0. /\ mem \in Mem /\ file \in File /\ rw \in Rewrite
      /\ (rw.ack => rw.stop) /\ (rw.child = "ok" => rw.stop)
  BY DEF Types
<1>1. /\ rw.snap \in Seq(Command) /\ rw.diff \in Seq(Token) /\ rw.pipe \in Seq(Token)
      /\ rw.buf \in Seq(Token) /\ rw.tmp \in Seq(Token)
  BY <1>0 DEF Rewrite
<1> DEFINE h == <<Snap(rw.snap)>>
<1>2. h \in Seq(Token) /\ h \o rw.diff \in Seq(Token) /\ h \o rw.diff \o rw.pipe \in Seq(Token)
  <2>1. Snap(rw.snap) \in Token
    BY <1>1 DEF Token
  <2>2. h \in Seq(Token)
    BY <2>1
  <2> HIDE DEF h
  <2> QED
    BY <1>1, <2>2, ConcatProperties
<1> HIDE DEF h
<1>3. NoRewrite \in Rewrite /\ ~NoRewrite.ack /\ NoRewrite.child = "none"
  <2>1. <<>> \in Seq(Command) /\ <<>> \in Seq(Token)
    OBVIOUS
  <2> QED
    BY <2>1 DEF NoRewrite, Rewrite
<1>4. RdbChild \in Rewrite /\ ~RdbChild.ack /\ RdbChild.child = "rdb"
  <2>1. <<>> \in Seq(Command) /\ <<>> \in Seq(Token)
    OBVIOUS
  <2> QED
    BY <2>1, Zenon DEF NoRewrite, RdbChild, Rewrite
<1>5. CASE SecondPasses
  <2> DEFINE p == IF mem.postponed \in {0, 1} THEN mem.postponed + 1 ELSE mem.postponed
  <2>1. p \in -1..2
    BY <1>0 DEF Mem
  <2>2. mem' = [mem EXCEPT !.aged = TRUE, !.postponed = p]
    BY <1>5 DEF SecondPasses
  <2> HIDE DEF p
  <2>3. SameTokens(mem, mem')
    BY <1>0, <2>1, <2>2, QuietTime, Zenon
  <2>4. UNCHANGED <<policy, up, pc, log, file, rw, acked, born, writes>>
    BY <1>5 DEF SecondPasses
  <2> QED
    BY <1>0, <2>3, <2>4 DEF QuietStep, AofChild, NewFile
<1>6. CASE bioProcessBackgroundJobs
  <2>1. UNCHANGED <<policy, up, pc, log, mem, rw, acked, born, writes>>
    BY <1>6, Zenon DEF bioProcessBackgroundJobs
  <2>2. file' = file \/ file' = [file EXCEPT !.synced = Len(file.toks)]
    BY <1>6, Zenon DEF bioProcessBackgroundJobs
  <2>3. /\ file' \in File /\ file'.toks = file.toks
        /\ file'.synced \in {file.synced, Len(file.toks)}
    BY <1>0, <2>2 DEF File
  <2> QED
    BY <1>0, <2>1, <2>3 DEF QuietStep, SameTokens, AofChild, NewFile
<1>7. CASE ScheduleRewrite
  <2>1. mem' = [mem EXCEPT !.sched = TRUE]
    BY <1>7 DEF ScheduleRewrite
  <2>2. SameTokens(mem, mem')
    BY <1>0, <2>1, QuietSchedule, Zenon
  <2>3. UNCHANGED <<policy, up, pc, log, file, rw, acked, born, writes>>
    BY <1>7 DEF ScheduleRewrite
  <2> QED
    BY <1>0, <2>2, <2>3 DEF QuietStep, AofChild, NewFile
<1>8. CASE BgSave
  BY <1>4, <1>8, QuietRewrite DEF BgSave, AofChild
<1>9. CASE BgSaveDone
  BY <1>3, <1>9, QuietRewrite, SMTT(30) DEF BgSaveDone, AofChild
<1>10. CASE aofChildWriteDiffData
  <2>1. PICK n \in 1..Len(rw.buf) :
          rw' = [rw EXCEPT !.pipe = @ \o SubSeq(rw.buf, 1, n), !.buf = SubSeq(@, n + 1, Len(@))]
    BY <1>10, Zenon DEF aofChildWriteDiffData
  <2> DEFINE z == rw.pipe \o SubSeq(rw.buf, 1, n)
             y == SubSeq(rw.buf, n + 1, Len(rw.buf))
             g == h \o rw.diff
  <2>2. n \in 0..Len(rw.buf) /\ g \in Seq(Token)
    BY <1>1, <1>2
  <2>3. rw' = [rw EXCEPT !.pipe = z, !.buf = y]
    BY <2>1
  <2>4. rw.pipe \in Seq(Token) /\ rw.buf \in Seq(Token)
    BY <1>1
  <2> HIDE DEF g
  <2>5. z \in Seq(Token) /\ y \in Seq(Token) /\ (g \o z) \o y = (g \o rw.pipe) \o rw.buf
    <3>1. z \in Seq(Token) /\ y \in Seq(Token) /\ z \o y = rw.pipe \o rw.buf
      BY <2>2, <2>4, MoveTokens, Zenon
    <3> HIDE DEF z, y
    <3>2. (g \o z) \o y = g \o (z \o y)
      BY <2>2, <3>1, Associative, Zenon
    <3>3. (g \o rw.pipe) \o rw.buf = g \o (rw.pipe \o rw.buf)
      BY <2>2, <2>4, Associative, Zenon
    <3> QED
      BY <3>1, <3>2, <3>3, Zenon
  <2> HIDE DEF z, y
  <2>6. rw' \in Rewrite
    BY <1>0, <2>3, <2>5, Zenon DEF Rewrite
  <2>7. /\ rw'.child = rw.child /\ rw'.snap = rw.snap /\ rw'.diff = rw.diff /\ rw'.pipe = z
        /\ rw'.buf = y /\ rw'.stop = rw.stop /\ rw'.ack = rw.ack
    BY <1>0, <2>3 DEF Rewrite
  <2>8. rw.child # "ok"
    BY <1>0, <1>10, Zenon DEF aofChildWriteDiffData
  <2>9. NewFile = (g \o rw.pipe) \o rw.buf /\ NewFile' = (g \o z) \o y
    BY <2>7, <2>8, Zenon DEF NewFile, g, h
  <2>10. NewFile' = NewFile /\ (AofChild' => AofChild)
    BY <2>5, <2>7, <2>9 DEF AofChild
  <2> QED
    BY <1>0, <1>10, <2>6, <2>7, <2>10, QuietRewrite, ZenonT(40) DEF aofChildWriteDiffData
<1>11. CASE aofReadDiffFromParent
  <2> DEFINE z == rw.diff \o rw.pipe
  <2>1. z \in Seq(Token) /\ <<>> \in Seq(Token)
    BY <1>1
  <2>2. rw' = [rw EXCEPT !.diff = z, !.pipe = <<>>]
    BY <1>11 DEF aofReadDiffFromParent
  <2>3. (h \o rw.diff) \o rw.pipe = h \o (rw.diff \o rw.pipe)
    <3>1. h \in Seq(Token) /\ rw.diff \in Seq(Token) /\ rw.pipe \in Seq(Token)
      BY <1>1, <1>2
    <3> QED
      BY <3>1, Associative, Zenon
  <2> HIDE DEF z
  <2>4. rw' \in Rewrite
    BY <1>0, <2>1, <2>2, Zenon DEF Rewrite
  <2>5. /\ rw'.child = rw.child /\ rw'.snap = rw.snap /\ rw'.diff = z /\ rw'.pipe = <<>>
        /\ rw'.buf = rw.buf /\ rw'.stop = rw.stop /\ rw'.ack = rw.ack
    BY <1>0, <2>2 DEF Rewrite
  <2>6. h \o z \in Seq(Token)
    BY <1>2, <2>1, ConcatProperties
  <2>7. (h \o z) \o <<>> = h \o z
    BY <2>6, ConcatEmptySeq
  <2>8. NewFile = ((h \o rw.diff) \o rw.pipe) \o rw.buf /\ NewFile' = ((h \o z) \o <<>>) \o rw.buf
    BY <1>11, <2>5, Zenon DEF NewFile, h, aofReadDiffFromParent
  <2>9. NewFile' = NewFile /\ (AofChild' => AofChild)
    BY <2>3, <2>5, <2>7, <2>8 DEF AofChild, z
  <2> QED
    BY <1>0, <1>11, <2>4, <2>5, <2>9, QuietRewrite DEF aofReadDiffFromParent
<1>12. CASE ChildAsksToStop
  <2>1. rw' = [rw EXCEPT !.child = "asked"] /\ rw.child = "saving"
    BY <1>12 DEF ChildAsksToStop
  <2>2. rw' \in Rewrite
    BY <1>0, <2>1, Zenon DEF Rewrite
  <2>3. /\ rw'.child = "asked" /\ rw'.snap = rw.snap /\ rw'.diff = rw.diff /\ rw'.pipe = rw.pipe
        /\ rw'.buf = rw.buf /\ rw'.stop = rw.stop /\ rw'.ack = rw.ack
    BY <1>0, <2>1 DEF Rewrite
  <2>4. AofChild /\ NewFile' = NewFile
    <3>1. rw.child # "ok" /\ rw'.child # "ok" /\ AofChild
      BY <2>1, <2>3 DEF AofChild
    <3>2. NewFile' = NewFile
      BY <2>3, <3>1, Zenon DEF NewFile
    <3> QED
      BY <3>1, <3>2
  <2> QED
    BY <1>0, <1>12, <2>2, <2>3, <2>4, QuietRewrite DEF ChildAsksToStop
<1>13. CASE aofChildPipeReadable
  <2>1. rw' = [rw EXCEPT !.stop = TRUE, !.ack = TRUE]
    BY <1>13 DEF aofChildPipeReadable
  <2>2. rw' \in Rewrite
    BY <1>0, <2>1, Zenon DEF Rewrite
  <2>3. /\ rw'.child = rw.child /\ rw'.snap = rw.snap /\ rw'.diff = rw.diff /\ rw'.pipe = rw.pipe
        /\ rw'.buf = rw.buf /\ rw'.tmp = rw.tmp /\ rw'.stop
    BY <1>0, <2>1 DEF Rewrite
  <2>4. NewFile' = NewFile /\ (AofChild' => AofChild)
    BY <2>3 DEF NewFile, AofChild
  <2> QED
    BY <1>13, <2>2, <2>3, <2>4, QuietRewrite DEF aofChildPipeReadable
<1>14. CASE ChildFinishes
  <2> DEFINE z == <<Snap(rw.snap)>> \o rw.diff \o rw.pipe
  <2>1. z \in Seq(Token) /\ <<>> \in Seq(Token)
    BY <1>2 DEF h
  <2>2. rw' = [rw EXCEPT !.child = "ok", !.pipe = <<>>, !.tmp = z] /\ rw.child = "asked" /\ rw.ack
    BY <1>14 DEF ChildFinishes
  <2>3. NewFile = z \o rw.buf
    BY <2>2 DEF NewFile
  <2> HIDE DEF z
  <2>4. rw' \in Rewrite
    BY <1>0, <2>1, <2>2, Zenon DEF Rewrite
  <2>5. /\ rw'.child = "ok" /\ rw'.tmp = z /\ rw'.buf = rw.buf
        /\ rw'.stop = rw.stop /\ rw'.ack = rw.ack
    BY <1>0, <2>2, Zenon DEF Rewrite
  <2>6. AofChild /\ NewFile' = NewFile
    BY <2>2, <2>3, <2>5, Zenon DEF NewFile, AofChild
  <2> QED
    BY <1>0, <1>14, <2>2, <2>4, <2>5, <2>6, QuietRewrite DEF ChildFinishes
<1>15. CASE ChildFails
  <2>1. rw' = [rw EXCEPT !.child = "failed"] /\ rw.child \in {"saving", "asked"}
    BY <1>15 DEF ChildFails
  <2>2. rw' \in Rewrite
    BY <1>0, <2>1, Zenon DEF Rewrite
  <2>3. /\ rw'.child = "failed" /\ rw'.snap = rw.snap /\ rw'.diff = rw.diff /\ rw'.pipe = rw.pipe
        /\ rw'.buf = rw.buf /\ rw'.stop = rw.stop /\ rw'.ack = rw.ack
    BY <1>0, <2>1 DEF Rewrite
  <2>4. AofChild /\ NewFile' = NewFile
    <3>1. rw.child # "ok" /\ rw'.child # "ok" /\ AofChild
      BY <2>1, <2>3 DEF AofChild
    <3>2. NewFile' = NewFile
      BY <2>3, <3>1, Zenon DEF NewFile
    <3> QED
      BY <3>1, <3>2
  <2> QED
    BY <1>0, <1>15, <2>2, <2>3, <2>4, QuietRewrite DEF ChildFails
<1>16. CASE RewriteFailed
  <2> DEFINE c == mem.sched \/ mem.state = "wait"
  <2>1. mem' = [mem EXCEPT !.sched = c]
    BY <1>16 DEF RewriteFailed
  <2>2. c \in BOOLEAN
    OBVIOUS
  <2> HIDE DEF c
  <2>3. SameTokens(mem, mem')
    BY <1>0, <2>1, <2>2, QuietSchedule, Zenon
  <2>4. UNCHANGED <<policy, up, pc, log, file, acked, born, writes>> /\ rw' = NoRewrite
    BY <1>16 DEF RewriteFailed
  <2> QED
    BY <1>0, <1>3, <2>3, <2>4 DEF QuietStep, AofChild
<1> QED
  BY <1>5, <1>6, <1>7, <1>8, <1>9, <1>10, <1>11, <1>12, <1>13, <1>14, <1>15, <1>16

\* The first tokens of a file are those of what is appended to, ...
LEMMA FirstOfConcat ==
  ASSUME NEW s \in Seq(Token), NEW t \in Seq(Token), NEW n \in Nat, n <= Len(s)
  PROVE  SubSeq(s \o t, 1, n) = SubSeq(s, 1, n)
OBVIOUS

\* ... and those of what is cut off behind them.
LEMMA FirstOfFirst ==
  ASSUME NEW s \in Seq(Token), NEW m \in Nat, NEW n \in Nat, n <= m, m <= Len(s)
  PROVE  SubSeq(SubSeq(s, 1, m), 1, n) = SubSeq(s, 1, n)
OBVIOUS

\* The file loads whenever AOF is on, and rebuilds a prefix of the dataset.
LEMMA FileLoads ==
  ASSUME Types, FileInv, mem.state = "on"
  PROVE  LoadsPrefix(file.toks, log)
<1>0. file.toks \in Seq(Token) /\ mem.buf \in Seq(Token) /\ <<>> \in Seq(Token)
  BY DEF Types, File, Mem
<1>1. CASE Serving
  BY <1>0, <1>1, RebuildsPrefix, Zenon DEF FileInv
<1>2. CASE up /\ ~Serving
  <2>1. Rebuilds(file.toks, NoDb, log)
    BY <1>2, Zenon DEF FileInv, Serving, Types
  <2>2. file.toks \o <<>> = file.toks
    BY <1>0, WholeFile, Zenon
  <2> QED
    BY <1>0, <2>1, <2>2, RebuildsPrefix, Zenon
<1>3. CASE ~up
  BY <1>3, Zenon DEF FileInv
<1> QED
  BY <1>1, <1>2, <1>3, Zenon

\* A command that feedAppendOnlyFile() adds, behind a SELECT when the database
\* changes, is the next command of the dataset.
LEMMA EntryRebuilds ==
  ASSUME NEW s \in Seq(Token), NEW i \in 1..MaxWrites, NEW d \in DBs,
         mem.sel \in DBs \union {NoDb}, Rebuilds(s, mem.sel, log)
  PROVE  Rebuilds(s \o Entry(i, d), d, Append(log, [id |-> i, db |-> d]))
<1> DEFINE a == loadAppendOnlyFile(s)
           e == <<Half(i, 1), Half(i, 2)>>
           q == <<Sel(d)>>
<1>1. e \in Seq(Token) /\ q \in Seq(Token)
  BY DEF Token
<1>2. ~a.bad /\ a.half = 0 /\ a.log = log /\ (mem.sel # NoDb => a.db = mem.sel)
  BY Zenon DEF Rebuilds
<1>3. CASE d = mem.sel
  <2>1. d # NoDb
    BY AofAssumption DEF NoDb
  <2>2. a.db = d
    BY <1>2, <1>3, <2>1, Zenon
  <2>3. Entry(i, d) = e
    <3>1. Entry(i, d) = <<>> \o e
      BY <1>3, Zenon DEF Entry
    <3> QED
      BY <1>1, <3>1, ConcatEmptySeq, Zenon
  <2>4. LET r == loadAppendOnlyFile(s \o e)
        IN ~r.bad /\ r.half = 0 /\ r.db = a.db /\ r.log = Append(a.log, [id |-> i, db |-> a.db])
    BY <1>2, LoadCommand, Zenon
  <2> HIDE DEF a, e
  <2> QED
    BY <1>2, <2>2, <2>3, <2>4, Zenon DEF Rebuilds
<1>4. CASE d # mem.sel
  <2> DEFINE t == s \o q
             b == loadAppendOnlyFile(t)
  <2>1. Entry(i, d) = q \o e
    BY <1>4, Zenon DEF Entry
  <2>2. s \o (q \o e) = t \o e
    <3> HIDE DEF q, e
    <3> QED
      BY <1>1, Associative, Zenon
  <2>3. t \in Seq(Token)
    BY <1>1, ConcatProperties, Zenon
  <2>4. ~b.bad /\ b.half = 0 /\ b.db = d /\ b.log = a.log
    BY <1>2, LoadSelect, Zenon
  <2> HIDE DEF t
  <2>5. LET r == loadAppendOnlyFile(t \o e)
        IN ~r.bad /\ r.half = 0 /\ r.db = b.db /\ r.log = Append(b.log, [id |-> i, db |-> b.db])
    BY <2>3, <2>4, LoadCommand, Zenon
  <2> HIDE DEF a, b, e, q
  <2> QED
    BY <1>2, <2>1, <2>2, <2>4, <2>5, Zenon DEF Rebuilds
<1> QED
  BY <1>3, <1>4, Zenon

\* A write command.
LEMMA WriteCommandInv ==
  ASSUME IInv, NEW d \in DBs, WriteCommand(d)
  PROVE  IInv'
<1> DEFINE i == writes + 1
           c == [id |-> i, db |-> d]
           e == Entry(i, d)
<1>0. /\ mem \in Mem /\ file \in File /\ rw \in Rewrite /\ log \in Seq(Command)
      /\ mem.buf \in Seq(Token) /\ file.toks \in Seq(Token) /\ mem.sel \in DBs \union {NoDb}
  BY DEF IInv, Types, Mem, File
<1>1. i \in 1..MaxWrites /\ c \in Command
  <2>1. writes \in 0..MaxWrites /\ writes < MaxWrites /\ MaxWrites \in Nat
    BY AofAssumption, Zenon DEF IInv, Types, WriteCommand
  <2>2. i \in 1..MaxWrites
    BY <2>1
  <2> QED
    BY <2>2 DEF Command
<1>2. e \in Seq(Token) /\ e # <<>>
  <2> DEFINE f == <<Half(i, 1), Half(i, 2)>>
             g == IF d # mem.sel THEN <<Sel(d)>> ELSE <<>>
  <2>1. f \in Seq(Token) /\ Len(f) = 2 /\ g \in Seq(Token)
    <3>1. Half(i, 1) \in Token /\ Half(i, 2) \in Token /\ Sel(d) \in Token
      BY <1>1 DEF Token
    <3> QED
      BY <3>1
  <2>2. e = g \o f
    BY Zenon DEF Entry
  <2> HIDE DEF f, g, e
  <2>3. e \in Seq(Token) /\ Len(e) = Len(g) + Len(f)
    BY <2>1, <2>2, ConcatProperties, Zenon
  <2> QED
    BY <2>1, <2>3
<1>3. /\ UNCHANGED <<policy, up, pc, file, acked, born>> /\ Serving /\ Serving'
      /\ writes' = i /\ log' = Append(log, c)
  BY DEF WriteCommand, Serving
<1>4. log' \in Seq(Command) /\ Len(log') = Len(log) + 1 /\ Len(log) \in Nat
  BY <1>0, <1>1, <1>3
<1>5. CASE mem.state = "off"
  <2>1. mem' = mem /\ rw' = rw
    BY <1>5 DEF WriteCommand
  <2>2. Types'
    BY <1>1, <1>3, <1>4, <1>5, <2>1 DEF IInv, Types
  <2> QED
    BY <1>3, <1>5, <2>1, <2>2 DEF IInv, FileInv, RewriteInv, DurableInv
<1>6. CASE mem.state # "off"
  <2> DEFINE b == IF mem.state = "on" THEN mem.buf \o e ELSE mem.buf
             z == IF AofChild THEN rw.buf \o e ELSE rw.buf
  <2>1. mem' = [mem EXCEPT !.sel = d, !.buf = b] /\ rw' = [rw EXCEPT !.buf = z]
    BY <1>3, <1>6, Zenon DEF WriteCommand
  <2>2. rw.buf \in Seq(Token) /\ mem.buf \o e \in Seq(Token) /\ rw.buf \o e \in Seq(Token)
    BY <1>0, <1>2, ConcatProperties DEF Rewrite
  <2>3. b \in Seq(Token) /\ z \in Seq(Token)
    BY <1>0, <2>2
  <2> HIDE DEF e, c, i
  <2>4. b # <<>> \/ mem.state # "on"
    BY <1>0, <1>2
  <2>5. (mem.state = "on" => b = mem.buf \o e) /\ (AofChild => z = rw.buf \o e)
    OBVIOUS
  <2> HIDE DEF b, z
  <2>6. /\ mem' \in Mem /\ mem'.state = mem.state /\ mem'.sel = d /\ mem'.buf = b
        /\ mem'.size = mem.size /\ mem'.offset = mem.offset
    BY <1>0, <2>1, <2>3, Zenon DEF Mem
  <2>7. /\ rw' \in Rewrite /\ rw'.child = rw.child /\ rw'.snap = rw.snap /\ rw'.pipe = rw.pipe
        /\ rw'.diff = rw.diff /\ rw'.tmp = rw.tmp /\ rw'.buf = z
        /\ rw'.stop = rw.stop /\ rw'.ack = rw.ack
    BY <1>0, <2>1, <2>3, Zenon DEF Rewrite
  <2>8. Types'
    BY <1>1, <1>3, <1>4, <2>6, <2>7 DEF IInv, Types
  <2>9. FileInv'
    <3>1. ASSUME mem.state = "on"
          PROVE  Rebuilds(file.toks \o b, d, Append(log, c))
      <4> DEFINE s == file.toks \o mem.buf
      <4>1. s \in Seq(Token)
        BY <1>0, ConcatProperties, Zenon
      <4>2. Rebuilds(s, mem.sel, log)
        BY <1>3, <3>1, Zenon DEF IInv, FileInv
      <4>3. file.toks \o b = s \o e
        <5>1. b = mem.buf \o e
          BY <2>5, <3>1, Zenon
        <5>2. s \o e = file.toks \o (mem.buf \o e)
          BY <1>0, <1>2, Associative, Zenon
        <5> QED
          BY <5>1, <5>2, Zenon
      <4> HIDE DEF s
      <4> QED
        BY <1>0, <1>1, <4>1, <4>2, <4>3, EntryRebuilds, Zenon DEF c, e
    <3> QED
      BY <1>3, <2>6, <3>1, Zenon DEF FileInv, Serving
  <2>10. RewriteInv'
    <3>1. ASSUME AofChild
          PROVE  Rebuilds(NewFile', d, Append(log, c))
      <4> DEFINE h == IF rw.child = "ok" THEN rw.tmp ELSE <<Snap(rw.snap)>> \o rw.diff \o rw.pipe
      <4>1. h \in Seq(Token)
        <5>1. /\ rw.tmp \in Seq(Token) /\ rw.diff \in Seq(Token) /\ rw.pipe \in Seq(Token)
              /\ rw.snap \in Seq(Command)
          BY <1>0 DEF Rewrite
        <5>2. Snap(rw.snap) \in Token
          BY <5>1 DEF Token
        <5> QED
          BY <5>1, <5>2
      <4>2. NewFile = h \o rw.buf /\ NewFile' = h \o (rw.buf \o e)
        BY <2>5, <2>7, <3>1, Zenon DEF NewFile
      <4> HIDE DEF h
      <4>3. NewFile' = NewFile \o e /\ NewFile \in Seq(Token)
        BY <1>2, <2>2, <4>1, <4>2, Associative, ConcatProperties, Zenon
      <4>4. Rebuilds(NewFile, mem.sel, log)
        BY <1>3, <1>6, <3>1, Zenon DEF IInv, RewriteInv
      <4> QED
        BY <1>0, <1>1, <4>3, <4>4, EntryRebuilds, Zenon DEF c, e
    <3> QED
      BY <1>3, <2>6, <2>7, <3>1, Zenon DEF RewriteInv, AofChild
  <2>11. DurableInv'
    BY <1>3, <2>4, <2>6, Zenon DEF IInv, DurableInv, OnDisk
  <2> QED
    BY <2>8, <2>9, <2>10, <2>11, Zenon DEF IInv
<1> QED
  BY <1>5, <1>6, Zenon

-----------------------------------------------------------------------------
(* The steps that flush. *)

\* Every outcome of a flush is one of flushAppendOnlyFile().
LEMMA FlushesFacts ==
  ASSUME Types, NEW force, NEW f \in Flushes(force)
  PROVE  Flushed(M, f.m)
<1>1. M \in FlushState({bio}) /\ FlushTyped(M) /\ M.mem = mem
  BY Zenon DEF M, FlushState, FlushTyped, Types
<1>2. mem.buf \in Seq(Token) /\ Len(mem.buf) \in Nat
  BY DEF Types, Mem
<1>3. PICK o \in 0..Len(mem.buf) : f.m = flushAppendOnlyFile(M, force, o)
  <2>1. CASE mem.state = "off"
    <3>1. f = [m |-> flushAppendOnlyFile(M, force, 0), fault |-> 0]
      BY <2>1, Zenon DEF Flushes
    <3>2. f.m = flushAppendOnlyFile(M, force, 0)
      BY <3>1, Zenon
    <3> QED
      BY <1>2, <3>2
  <2>2. CASE mem.state # "off" /\ f = [m |-> flushAppendOnlyFile(M, force, Len(mem.buf)), fault |-> 0]
    <3>1. f.m = flushAppendOnlyFile(M, force, Len(mem.buf))
      BY <2>2, Zenon
    <3> QED
      BY <1>2, <3>1
  <2>3. CASE \E n \in 0..(Len(mem.buf) - 1) : f = [m |-> flushAppendOnlyFile(M, force, n), fault |-> 1]
    <3>0. PICK n \in 0..(Len(mem.buf) - 1) : f = [m |-> flushAppendOnlyFile(M, force, n), fault |-> 1]
      BY <2>3, Zenon
    <3>1. f.m = flushAppendOnlyFile(M, force, n)
      BY <3>0, Zenon
    <3>2. n \in 0..Len(mem.buf)
      BY <1>2
    <3> QED
      BY <3>1, <3>2, Zenon
  <2> QED
    BY <2>1, <2>2, <2>3, Zenon DEF Flushes
<1> HIDE DEF M
<1> QED
  BY <1>1, <1>3, FlushFacts, Zenon

\* What a flush leaves: the same tokens in the file and the buffer, a file
\* that loads, and under appendfsync always everything answered on the disk.
Kept(m) ==
  /\ m.mem \in Mem /\ m.file \in File /\ FlushTyped(m) /\ m.up \in BOOLEAN
  /\ m.mem.state = mem.state /\ m.mem.sel = mem.sel
  /\ mem.state = "on" =>
       /\ m.mem.size = Len(m.file.toks)
       /\ Rebuilds(m.file.toks \o m.mem.buf, mem.sel, log)
       /\ LoadsPrefix(m.file.toks, log)
       /\ policy = "always" /\ ~NoFsyncOnRewrite =>
            /\ m.up => m.mem.buf = <<>>
            /\ m.up /\ Len(log) > born => m.file.synced = Len(m.file.toks)
            /\ acked > born => acked <= Len(loadAppendOnlyFile(SubSeq(m.file.toks, 1, m.file.synced)).log)

\* It leaves that.
LEMMA FlushKeeps ==
  ASSUME IInv, Serving, NEW force, NEW f \in Flushes(force)
  PROVE  Kept(f.m)
<1> DEFINE m == f.m
<1>1. Flushed(M, m)
  BY FlushesFacts, Zenon DEF IInv
<1>2. M.mem = mem /\ M.file = file /\ M.up = up
  BY Zenon DEF M
<1> HIDE DEF m
<1>0. /\ mem \in Mem /\ file \in File /\ mem.buf \in Seq(Token) /\ file.toks \in Seq(Token)
      /\ file.synced \in Nat /\ file.synced <= Len(file.toks) /\ up
  BY DEF IInv, Types, Mem, File, Serving
<1>3. /\ m.mem \in Mem /\ m.file \in File /\ m.up \in {up, FALSE} /\ FlushTyped(m)
      /\ m.mem.state = mem.state /\ m.mem.sel = mem.sel
      /\ m.file.toks \o m.mem.buf = file.toks \o mem.buf
      /\ \E n \in 0..Len(mem.buf) : m.file.toks = file.toks \o SubSeq(mem.buf, 1, n)
      /\ file.synced <= m.file.synced
      /\ mem.size = Len(file.toks) => m.mem.size = Len(m.file.toks)
      /\ policy = "always" /\ ~NoFsyncOnRewrite /\ m.up =>
           /\ m.mem.buf = <<>>
           /\ IF mem.buf = <<>> THEN m.file = file ELSE m.file.synced = Len(m.file.toks)
  BY <1>1, <1>2, Zenon DEF Flushed
<1>4. /\ m.mem.buf \in Seq(Token) /\ m.file.toks \in Seq(Token) /\ m.file.synced \in Nat
      /\ m.file.synced <= Len(m.file.toks) /\ m.up \in BOOLEAN
  BY <1>0, <1>3, Zenon DEF Mem, File, FlushTyped
<1>5. ASSUME mem.state = "on"
      PROVE  /\ m.mem.size = Len(m.file.toks)
             /\ Rebuilds(m.file.toks \o m.mem.buf, mem.sel, log)
             /\ LoadsPrefix(m.file.toks, log)
  <2>1. m.mem.size = Len(m.file.toks)
    BY <1>3, <1>5, Zenon DEF IInv, Types
  <2>2. Rebuilds(m.file.toks \o m.mem.buf, mem.sel, log)
    BY <1>3, <1>5, Zenon DEF IInv, FileInv
  <2> QED
    BY <1>4, <2>1, <2>2, RebuildsPrefix, Zenon
<1>6. ASSUME mem.state = "on", policy = "always", ~NoFsyncOnRewrite
      PROVE  /\ m.up => m.mem.buf = <<>>
             /\ m.up /\ Len(log) > born => m.file.synced = Len(m.file.toks)
  BY <1>0, <1>3, <1>6, Zenon DEF IInv, DurableInv, Serving
<1>7. ASSUME mem.state = "on", policy = "always", ~NoFsyncOnRewrite, acked > born
      PROVE  acked <= Len(loadAppendOnlyFile(SubSeq(m.file.toks, 1, m.file.synced)).log)
  <2> DEFINE u == SubSeq(m.file.toks, 1, file.synced)
             v == SubSeq(m.file.toks, 1, m.file.synced)
  <2>1. acked <= OnDisk
    BY <1>7, Zenon DEF IInv, DurableInv, Serving
  <2>2. u = SubSeq(file.toks, 1, file.synced)
    <3>1. PICK n \in 0..Len(mem.buf) : m.file.toks = file.toks \o SubSeq(mem.buf, 1, n)
      BY <1>3, Zenon
    <3>2. SubSeq(mem.buf, 1, n) \in Seq(Token)
      BY <1>0
    <3> QED
      BY <1>0, <3>1, <3>2, FirstOfConcat, ZenonT(40)
  <2>3. ~loadAppendOnlyFile(m.file.toks).bad
    BY <1>5, <1>7, Zenon DEF LoadsPrefix
  <2>4. Len(loadAppendOnlyFile(u).log) <= Len(loadAppendOnlyFile(v).log)
    BY <1>0, <1>3, <1>4, <2>3, MoreOnDisk, Zenon
  <2>5. u \in Seq(Token) /\ v \in Seq(Token)
    <3>1. file.synced <= m.file.synced
      BY <1>3, Zenon
    <3>2. Len(m.file.toks) \in Nat
      BY <1>4
    <3>3. file.synced <= Len(m.file.toks)
      BY <1>0, <1>4, <3>1, <3>2
    <3> QED
      BY <1>0, <1>4, <3>3
  <2>6. Len(loadAppendOnlyFile(u).log) \in Nat /\ Len(loadAppendOnlyFile(v).log) \in Nat
    BY <2>5, LoadType DEF LoadState
  <2>7. OnDisk = Len(loadAppendOnlyFile(u).log)
    BY <2>2, Zenon DEF OnDisk
  <2>8. acked \in Nat
    BY DEF IInv, Types
  <2> HIDE DEF u, v
  <2>9. acked <= Len(loadAppendOnlyFile(v).log)
    BY <2>1, <2>4, <2>6, <2>7, <2>8
  <2> QED
    BY <2>9, Zenon DEF v
<1>8. Kept(m)
  BY <1>3, <1>4, <1>5, <1>6, <1>7, Zenon DEF Kept
<1> QED
  BY <1>8, Zenon DEF m

\* A flush and what is answered after it.
LEMMA FlushInv ==
  ASSUME IInv, Serving, NEW m, Kept(m),
         mem' = m.mem, file' = m.file, up' = m.up,
         UNCHANGED <<policy, pc, log, rw, born, writes>>,
         acked' = acked \/ (m.up /\ Len(log) > born /\ acked' = Len(log))
  PROVE  IInv'
<1>0. /\ mem' \in Mem /\ file' \in File /\ up' \in BOOLEAN
      /\ mem'.offset <= mem'.size /\ file'.synced <= Len(file'.toks)
      /\ mem'.state = mem.state /\ mem'.sel = mem.sel
  BY Zenon DEF Kept, FlushTyped
<1>1. ASSUME mem.state = "on"
      PROVE  /\ mem'.size = Len(file'.toks)
             /\ Rebuilds(file'.toks \o mem'.buf, mem.sel, log)
             /\ LoadsPrefix(file'.toks, log)
  BY <1>1, Zenon DEF Kept
<1>2. up /\ pc = "loop" /\ log \in Seq(Command) /\ Len(log) \in Nat
  BY DEF Serving, IInv, Types
<1>3. acked' \in Nat /\ acked' <= Len(log)
  BY <1>2 DEF IInv, Types
<1>4. Types'
  <2>1. policy' \in Policies /\ pc' \in {"loop", "switching"} /\ log' \in Seq(Command)
        /\ writes' \in 0..MaxWrites /\ rw' \in Rewrite /\ born' \in Nat /\ acked' <= Len(log')
        /\ (rw'.ack => rw'.stop) /\ (rw'.child = "ok" => rw'.stop)
    BY <1>3, Zenon DEF IInv, Types
  <2> QED
    BY <1>0, <1>1, <1>3, <2>1, Zenon DEF Types
<1>5. FileInv'
  BY <1>0, <1>1, <1>2, Zenon DEF FileInv, Serving
<1>6. RewriteInv'
  <2>1. Serving /\ AofChild' = AofChild /\ NewFile' = NewFile
    BY <1>2, Zenon DEF Serving, AofChild, NewFile
  <2> QED
    BY <1>0, <2>1, Zenon DEF IInv, RewriteInv
<1>7. DurableInv'
  <2> SUFFICES ASSUME policy = "always", ~NoFsyncOnRewrite, mem.state = "on"
               PROVE  /\ up' /\ Len(log) > born /\ mem'.buf = <<>> => file'.synced = Len(file'.toks)
                      /\ acked' > born => acked' <= OnDisk'
    BY <1>0, Zenon DEF DurableInv
  <2>1. /\ up' => mem'.buf = <<>>
        /\ up' /\ Len(log) > born => file'.synced = Len(file'.toks)
        /\ acked > born => acked <= OnDisk'
    BY Zenon DEF Kept, OnDisk
  <2>2. ASSUME m.up, Len(log) > born, acked' = Len(log)
        PROVE  acked' <= OnDisk'
    <3>1. file'.toks \in Seq(Token) /\ file'.synced = Len(file'.toks) /\ mem'.buf = <<>>
      BY <1>0, <2>1, <2>2 DEF File
    <3>2. SubSeq(file'.toks, 1, file'.synced) = file'.toks /\ file'.toks \o mem'.buf = file'.toks
      BY <3>1, WholeFile, Zenon
    <3>3. OnDisk' = Len(log)
      BY <1>1, <3>2, Zenon DEF OnDisk, Rebuilds
    <3> QED
      BY <1>2, <2>2, <3>3
  <2> QED
    BY <2>1, <2>2, Zenon
<1> QED
  BY <1>4, <1>5, <1>6, <1>7, Zenon DEF IInv

\* beforeSleep() and the retry in serverCron().
LEMMA FlushSteps ==
  ASSUME IInv, BeforeSleep \/ CronFlush
  PROVE  IInv'
<1>1. CASE BeforeSleep
  <2>1. PICK f \in Flushes(FALSE) :
          Becomes(f.m) /\ acked' = IF f.m.up /\ Len(log) > born THEN Len(log) ELSE acked
    BY <1>1, Zenon DEF BeforeSleep
  <2>2. Serving /\ UNCHANGED <<policy, pc, log, rw, born, writes>>
    BY <1>1, Zenon DEF BeforeSleep
  <2>3. Kept(f.m)
    BY <2>2, FlushKeeps, Zenon
  <2>4. acked' = acked \/ (f.m.up /\ Len(log) > born /\ acked' = Len(log))
    BY <2>1, Zenon
  <2> QED
    BY <2>1, <2>2, <2>3, <2>4, FlushInv, Zenon DEF Becomes
<1>2. CASE CronFlush
  <2>1. PICK f \in Flushes(FALSE) : Becomes(f.m)
    BY <1>2, Zenon DEF CronFlush
  <2>2. Serving /\ UNCHANGED <<policy, pc, log, rw, born, writes>> /\ acked' = acked
    BY <1>2, Zenon DEF CronFlush
  <2>3. Kept(f.m)
    BY <2>2, FlushKeeps, Zenon
  <2> QED
    BY <2>1, <2>2, <2>3, FlushInv, Zenon DEF Becomes
<1> QED
  BY <1>1, <1>2, Zenon

\* With AOF off the invariant is about types only.
LEMMA OffInv ==
  ASSUME Types', mem'.state = "off"
  PROVE  IInv'
BY Zenon DEF IInv, FileInv, RewriteInv, DurableInv

\* No rewrite.
LEMMA NoRewriteFacts == NoRewrite \in Rewrite /\ NoRewrite.child = "none" /\ ~NoRewrite.ack
<1>1. <<>> \in Seq(Token) /\ <<>> \in Seq(Command)
  OBVIOUS
<1> QED
  BY <1>1 DEF NoRewrite, Rewrite

\* CONFIG SET appendonly no.
LEMMA StopInv ==
  ASSUME IInv, stopAppendOnly
  PROVE  IInv'
<1>1. PICK f \in Flushes(TRUE) :
        IF ~f.m.up THEN Becomes(f.m) /\ UNCHANGED rw
        ELSE /\ file' = [f.m.file EXCEPT !.synced = Len(f.m.file.toks)]
             /\ mem' = [f.m.mem EXCEPT !.state = "off", !.sel = NoDb, !.sched = FALSE]
             /\ up' = TRUE
             /\ rw' = IF AofChild THEN NoRewrite ELSE rw
  BY Zenon DEF stopAppendOnly
<1>2. Serving /\ UNCHANGED <<policy, pc, log, acked, born, writes>>
  BY Zenon DEF stopAppendOnly
<1>3. Kept(f.m)
  BY <1>2, FlushKeeps, Zenon
<1>4. CASE ~f.m.up
  BY <1>1, <1>2, <1>3, <1>4, FlushInv, Zenon DEF Becomes
<1>5. CASE f.m.up
  <2> DEFINE m == f.m.mem
             g == f.m.file
  <2>1. m \in Mem /\ g \in File /\ m.offset <= m.size
    BY <1>3, Zenon DEF Kept, FlushTyped
  <2>2. /\ mem' = [m EXCEPT !.state = "off", !.sel = NoDb, !.sched = FALSE]
        /\ file' = [g EXCEPT !.synced = Len(g.toks)] /\ up' = TRUE
        /\ rw' = IF AofChild THEN NoRewrite ELSE rw
    BY <1>1, <1>5, Zenon
  <2> HIDE DEF m, g
  <2>3. mem' \in Mem /\ mem'.state = "off" /\ mem'.offset = m.offset /\ mem'.size = m.size
    BY <2>1, <2>2, Zenon DEF Mem
  <2>4. file' \in File /\ file'.synced = Len(file'.toks) /\ Len(file'.toks) \in Nat
    BY <2>1, <2>2 DEF File
  <2>5. rw' \in Rewrite /\ (rw'.ack => rw'.stop) /\ (rw'.child = "ok" => rw'.stop)
    BY <2>2, NoRewriteFacts DEF IInv, Types
  <2>6. /\ policy' \in Policies /\ pc' \in {"loop", "switching"} /\ log' \in Seq(Command)
        /\ writes' \in 0..MaxWrites /\ born' \in Nat /\ acked' \in Nat /\ acked' <= Len(log')
    BY <1>2, Zenon DEF IInv, Types
  <2>7. file'.synced <= Len(file'.toks) /\ mem'.offset <= mem'.size /\ up' \in BOOLEAN
    BY <2>1, <2>2, <2>3, <2>4 DEF Mem
  <2>8. Types'
    BY <2>3, <2>4, <2>5, <2>6, <2>7, Zenon DEF Types
  <2> QED
    BY <2>3, <2>8, OffInv, Zenon
<1> QED
  BY <1>4, <1>5, Zenon

\* A rewrite starts: its new file will be a snapshot of the dataset, and the
\* next command is preceded by a SELECT.
LEMMA StartRewriteInv ==
  ASSUME IInv, Serving, NEW m \in Mem, m = mem \/ m.state # "on", m.buf = mem.buf,
         m.size = mem.size, m.offset = mem.offset, StartRewrite(m),
         UNCHANGED <<policy, up, pc, log, file, acked, born, writes>>
  PROVE  IInv'
<1>1. /\ mem' = [m EXCEPT !.sched = FALSE, !.sel = NoDb]
      /\ rw' = [NoRewrite EXCEPT !.child = "saving", !.snap = log]
  BY Zenon DEF StartRewrite
<1>2. /\ mem' \in Mem /\ mem'.state = m.state /\ mem'.sel = NoDb /\ mem'.buf = mem.buf
      /\ mem'.size = mem.size /\ mem'.offset = mem.offset
  BY <1>1, Zenon DEF Mem
<1>0. log \in Seq(Command) /\ <<>> \in Seq(Token) /\ Snap(log) \in Token
  BY DEF IInv, Types, Token
<1>3. /\ rw' \in Rewrite /\ rw'.child = "saving" /\ rw'.snap = log /\ rw'.diff = <<>>
      /\ rw'.pipe = <<>> /\ rw'.buf = <<>> /\ ~rw'.ack
  BY <1>0, <1>1, NoRewriteFacts, Zenon DEF Rewrite, NoRewrite
<1>4. Types'
  <2>1. /\ policy' \in Policies /\ up' \in BOOLEAN /\ pc' \in {"loop", "switching"}
        /\ log' \in Seq(Command) /\ writes' \in 0..MaxWrites /\ file' \in File
        /\ file'.synced <= Len(file'.toks) /\ acked' \in Nat /\ acked' <= Len(log')
        /\ born' \in Nat /\ mem'.offset <= mem'.size
    BY <1>2, Zenon DEF IInv, Types
  <2>2. Serving' /\ mem'.state = "on" => mem'.size = Len(file'.toks)
    BY <1>2, Zenon DEF IInv, Types
  <2>3. (rw'.ack => rw'.stop) /\ (rw'.child = "ok" => rw'.stop)
    BY <1>3
  <2> QED
    BY <1>2, <1>3, <2>1, <2>2, <2>3, Zenon DEF Types
<1>5. FileInv'
  <2>1. mem'.state = "on" => Rebuilds(file'.toks \o mem'.buf, mem'.sel, log')
    BY <1>2, Zenon DEF IInv, FileInv, Rebuilds
  <2> QED
    BY <2>1, Zenon DEF FileInv, Serving
<1>6. RewriteInv'
  <2> DEFINE h == <<Snap(log)>>
  <2>1. h \in Seq(Token)
    BY <1>0
  <2>2. NewFile' = ((h \o <<>>) \o <<>>) \o <<>>
    <3>1. rw'.child # "ok"
      BY <1>3
    <3> QED
      BY <1>3, <3>1, Zenon DEF NewFile
  <2> HIDE DEF h
  <2>3. NewFile' = h
    BY <2>1, <2>2, WholeFile, Zenon
  <2>4. Rebuilds(h, NoDb, log)
    BY <1>0, LoadSnap, Zenon DEF Rebuilds, h
  <2> QED
    BY <1>2, <2>3, <2>4, Zenon DEF RewriteInv
<1>7. DurableInv'
  BY <1>2, Zenon DEF IInv, DurableInv, OnDisk
<1> QED
  BY <1>4, <1>5, <1>6, <1>7, Zenon DEF IInv

\* BGREWRITEAOF, and CONFIG SET appendonly yes.
LEMMA RewriteStarts ==
  ASSUME IInv, rewriteAppendOnlyFileBackground \/ startAppendOnly
  PROVE  IInv'
<1>0. mem \in Mem /\ rw \in Rewrite
  BY Zenon DEF IInv, Types
<1>1. CASE rewriteAppendOnlyFileBackground
  BY <1>0, <1>1, StartRewriteInv, Zenon DEF rewriteAppendOnlyFileBackground
<1>2. CASE startAppendOnly
  <2> DEFINE m == [mem EXCEPT !.state = "wait", !.aged = FALSE]
  <2>1. m \in Mem /\ m.state = "wait" /\ m.buf = mem.buf /\ m.size = mem.size /\ m.offset = mem.offset
    BY <1>0, Zenon DEF Mem
  <2>2. /\ Serving /\ mem.state = "off"
        /\ UNCHANGED <<policy, up, pc, log, file, acked, born, writes>>
    BY <1>2, Zenon DEF startAppendOnly
  <2>3. /\ policy' \in Policies /\ up' \in BOOLEAN /\ pc' \in {"loop", "switching"}
        /\ log' \in Seq(Command) /\ writes' \in 0..MaxWrites /\ file' \in File
        /\ file'.synced <= Len(file'.toks) /\ acked' \in Nat /\ acked' <= Len(log') /\ born' \in Nat
    BY <2>2, Zenon DEF IInv, Types
  <2> HIDE DEF m
  <2>4. CASE rw.child = "rdb" /\ mem' = [m EXCEPT !.sched = TRUE] /\ rw' = rw
    <3>1. mem' \in Mem /\ mem'.state = "wait" /\ mem'.size = mem.size /\ mem'.offset = mem.offset
      BY <2>1, <2>4, Zenon DEF Mem
    <3>2. ~AofChild'
      BY <2>4 DEF AofChild
    <3>3. mem'.offset <= mem'.size /\ rw' \in Rewrite /\ (rw'.ack => rw'.stop) /\ (rw'.child = "ok" => rw'.stop)
      BY <2>4, <3>1, Zenon DEF IInv, Types
    <3>4. mem'.state # "on" /\ pc' = "loop" /\ up'
      BY <2>2, <3>1 DEF Serving
    <3>5. Types'
      BY <2>3, <3>1, <3>3, <3>4, Zenon DEF Types
    <3>6. FileInv' /\ RewriteInv' /\ DurableInv'
      BY <3>2, <3>4 DEF FileInv, RewriteInv, DurableInv
    <3> QED
      BY <3>5, <3>6, Zenon DEF IInv
  <2>5. CASE StartRewrite(m)
    <3>1. m.state # "on"
      BY <2>1
    <3> QED
      BY <2>1, <2>2, <2>5, <3>1, StartRewriteInv, Zenon
  <2>6. CASE rw' = NoRewrite /\ mem' = mem
    <3>1. rw' \in Rewrite /\ (rw'.ack => rw'.stop) /\ (rw'.child = "ok" => rw'.stop)
      BY <2>6, NoRewriteFacts
    <3>2. /\ mem' \in Mem /\ mem'.offset <= mem'.size
          /\ (Serving' /\ mem'.state = "on" => mem'.size = Len(file'.toks))
      BY <2>2, <2>6, Zenon DEF IInv, Types
    <3>3. Types'
      BY <2>3, <3>1, <3>2, Zenon DEF Types
    <3> QED
      BY <2>2, <2>6, <3>3, OffInv, Zenon
  <2> QED
    BY <1>2, <2>4, <2>5, <2>6, Zenon DEF startAppendOnly, m
<1> QED
  BY <1>1, <1>2, Zenon

\* SHUTDOWN.
LEMMA ShutdownInv ==
  ASSUME IInv, prepareForShutdown
  PROVE  IInv'
<1>1. up' = FALSE /\ rw' = NoRewrite /\ Serving /\ UNCHANGED <<policy, pc, log, acked, born, writes>>
  BY Zenon DEF prepareForShutdown
<1>2. /\ policy' \in Policies /\ up' \in BOOLEAN /\ pc' \in {"loop", "switching"}
      /\ log' \in Seq(Command) /\ writes' \in 0..MaxWrites
      /\ acked' \in Nat /\ acked' <= Len(log') /\ born' \in Nat /\ ~Serving'
  BY <1>1, Zenon DEF IInv, Types, Serving
<1>3. rw' \in Rewrite /\ (rw'.ack => rw'.stop) /\ (rw'.child = "ok" => rw'.stop)
  BY <1>1, NoRewriteFacts
<1>4. CASE mem.state = "off"
  <2>1. mem' = mem /\ file' = file
    BY <1>4, Zenon DEF prepareForShutdown
  <2>2. mem' \in Mem /\ file' \in File /\ mem'.offset <= mem'.size /\ file'.synced <= Len(file'.toks)
    BY <2>1, Zenon DEF IInv, Types
  <2>3. Types'
    BY <1>2, <1>3, <2>2, Zenon DEF Types
  <2> QED
    BY <1>4, <2>1, <2>3, OffInv, Zenon
<1>5. CASE mem.state # "off"
  <2>1. PICK f \in Flushes(TRUE) :
          /\ mem' = f.m.mem
          /\ file' = [f.m.file EXCEPT !.synced = IF f.m.up THEN Len(f.m.file.toks) ELSE @]
    BY <1>5, Zenon DEF prepareForShutdown
  <2>2. Kept(f.m)
    BY <1>1, FlushKeeps, Zenon
  <2> DEFINE g == f.m.file
             j == IF f.m.up THEN Len(g.toks) ELSE g.synced
  <2>3. g \in File /\ g.synced <= Len(g.toks)
    BY <2>2, Zenon DEF Kept, FlushTyped
  <2>4. file' = [g EXCEPT !.synced = j]
    BY <2>1
  <2>5. mem' \in Mem /\ mem'.offset <= mem'.size /\ mem'.state = mem.state
    BY <2>1, <2>2, Zenon DEF Kept, FlushTyped
  <2>6. ASSUME mem.state = "on"
        PROVE  /\ LoadsPrefix(g.toks, log)
               /\ policy = "always" /\ ~NoFsyncOnRewrite /\ acked > born =>
                    acked <= Len(loadAppendOnlyFile(SubSeq(g.toks, 1, g.synced)).log)
    BY <2>2, <2>6, Zenon DEF Kept
  <2> HIDE DEF g
  <2>7. g.toks \in Seq(Token) /\ g.synced \in Nat /\ Len(g.toks) \in Nat
    BY <2>3 DEF File
  <2>8. j \in Nat /\ g.synced <= j /\ j <= Len(g.toks)
    BY <2>3, <2>7
  <2> HIDE DEF j
  <2>9. file' \in File /\ file'.toks = g.toks /\ file'.synced = j
    BY <2>3, <2>4, <2>8 DEF File
  <2>10. Types'
    BY <1>2, <1>3, <2>5, <2>8, <2>9, Zenon DEF Types
  <2>11. FileInv' /\ RewriteInv'
    BY <1>1, <1>2, <2>5, <2>6, <2>9, Zenon DEF FileInv, RewriteInv
  <2>12. DurableInv'
    <3> SUFFICES ASSUME policy = "always", ~NoFsyncOnRewrite, mem.state = "on", acked > born
                 PROVE  acked <= OnDisk'
      BY <1>1, <2>5, Zenon DEF DurableInv
    <3> DEFINE u == SubSeq(g.toks, 1, g.synced)
               v == SubSeq(g.toks, 1, j)
    <3>1. acked <= Len(loadAppendOnlyFile(u).log) /\ ~loadAppendOnlyFile(g.toks).bad
      BY <2>6, Zenon DEF LoadsPrefix
    <3>2. Len(loadAppendOnlyFile(u).log) <= Len(loadAppendOnlyFile(v).log)
      BY <2>7, <2>8, <3>1, MoreOnDisk, Zenon
    <3>3. u \in Seq(Token) /\ v \in Seq(Token)
      BY <2>3, <2>7, <2>8
    <3>4. Len(loadAppendOnlyFile(u).log) \in Nat /\ Len(loadAppendOnlyFile(v).log) \in Nat
      BY <3>3, LoadType DEF LoadState
    <3>5. OnDisk' = Len(loadAppendOnlyFile(v).log)
      BY <2>9, Zenon DEF OnDisk
    <3>6. acked \in Nat
      BY Zenon DEF IInv, Types
    <3> HIDE DEF u, v
    <3> QED
      BY <3>1, <3>2, <3>4, <3>5, <3>6
  <2> QED
    BY <2>10, <2>11, <2>12, Zenon DEF IInv
<1> QED
  BY <1>4, <1>5, Zenon

\* What is appended to a file makes it no shorter.
LEMMA ConcatLonger ==
  ASSUME NEW s \in Seq(Token), NEW t \in Seq(Token)
  PROVE  s \o t \in Seq(Token) /\ Len(s) <= Len(s \o t)
OBVIOUS

\* rename(): the file is the new one, which holds the dataset.
LEMMA RenamedInv ==
  ASSUME IInv, RewriteRenamed
  PROVE  IInv'
<1> DEFINE t == rw.tmp \o rw.buf
<1>1. /\ Serving /\ rw.child = "ok" /\ pc' = "switching"
      /\ file' = [toks |-> t, synced |-> Len(rw.tmp)]
      /\ UNCHANGED <<policy, up, log, mem, rw, acked, born, writes>>
  BY Zenon DEF RewriteRenamed
<1>2. rw.tmp \in Seq(Token) /\ rw.buf \in Seq(Token)
  BY DEF IInv, Types, Rewrite
<1>3. t \in Seq(Token) /\ Len(rw.tmp) <= Len(t)
  BY <1>2, ConcatLonger, Zenon
<1>4. mem.state # "off" => Rebuilds(t, mem.sel, log)
  <2>1. AofChild /\ NewFile = t
    BY <1>1 DEF AofChild, NewFile
  <2> QED
    BY <1>1, <2>1, Zenon DEF IInv, RewriteInv
<1> HIDE DEF t
<1>5. file'.toks = t /\ file'.synced = Len(rw.tmp) /\ file' \in File
  BY <1>1, <1>2, <1>3 DEF File
<1>6. file'.synced <= Len(file'.toks)
  BY <1>3, <1>5, Zenon
<1>7. ~Serving' /\ up'
  BY <1>1 DEF Serving
<1>8. Types'
  <2>1. /\ policy' \in Policies /\ log' \in Seq(Command) /\ writes' \in 0..MaxWrites
        /\ mem' \in Mem /\ rw' \in Rewrite /\ mem'.offset <= mem'.size
        /\ acked' \in Nat /\ acked' <= Len(log') /\ born' \in Nat
        /\ (rw'.ack => rw'.stop) /\ (rw'.child = "ok" => rw'.stop) /\ up' \in BOOLEAN
    BY <1>1, Zenon DEF IInv, Types
  <2>2. pc' \in {"loop", "switching"}
    BY <1>1
  <2> QED
    BY <1>5, <1>6, <1>7, <2>1, <2>2, Zenon DEF Types
<1>9. FileInv'
  BY <1>1, <1>4, <1>5, <1>7, Zenon DEF FileInv, Rebuilds
<1>10. RewriteInv' /\ DurableInv'
  BY <1>1, <1>7 DEF RewriteInv, DurableInv
<1> QED
  BY <1>8, <1>9, <1>10, Zenon DEF IInv

\* The server goes over to it.
LEMMA SwitchedInv ==
  ASSUME IInv, RewriteSwitched
  PROVE  IInv'
<1>0. mem \in Mem /\ file \in File /\ file.toks \in Seq(Token) /\ Len(file.toks) \in Nat
  BY DEF IInv, Types, File
<1>1. /\ up /\ pc = "switching" /\ pc' = "loop" /\ rw' = NoRewrite
      /\ UNCHANGED <<policy, up, log, acked, born, writes>>
  BY Zenon DEF RewriteSwitched
<1>2. /\ policy' \in Policies /\ up' \in BOOLEAN /\ log' \in Seq(Command)
      /\ writes' \in 0..MaxWrites /\ acked' \in Nat /\ acked' <= Len(log') /\ born' \in Nat
  BY <1>1, Zenon DEF IInv, Types
<1>3. /\ rw' \in Rewrite /\ (rw'.ack => rw'.stop) /\ (rw'.child = "ok" => rw'.stop)
      /\ pc' \in {"loop", "switching"} /\ ~AofChild'
  BY <1>1, NoRewriteFacts DEF AofChild
<1>4. CASE mem.state = "off"
  <2>1. mem' = mem /\ file' = file
    BY <1>4, Zenon DEF RewriteSwitched
  <2>2. mem' \in Mem /\ file' \in File /\ mem'.offset <= mem'.size /\ file'.synced <= Len(file'.toks)
    BY <2>1, Zenon DEF IInv, Types
  <2>3. mem'.state # "on"
    BY <1>4, <2>1
  <2>4. Types'
    BY <1>2, <1>3, <2>2, <2>3, Zenon DEF Types
  <2> QED
    BY <1>4, <2>1, <2>4, OffInv, Zenon
<1>5. CASE mem.state # "off"
  <2>1. /\ mem' = [mem EXCEPT !.sel = NoDb, !.size = Len(file.toks), !.buf = <<>>,
                              !.offset = Len(file.toks), !.state = "on"]
        /\ file' = IF policy = "always" THEN [file EXCEPT !.synced = Len(file.toks)] ELSE file
    BY <1>5, Zenon DEF RewriteSwitched
  <2> DEFINE k == Len(file.toks)
             e == <<>>
  <2>a. k \in Nat /\ e \in Seq(Token) /\ e = <<>>
    BY <1>0
  <2>b. mem' = [mem EXCEPT !.sel = NoDb, !.size = k, !.buf = e, !.offset = k, !.state = "on"]
    BY <2>1, Zenon
  <2> HIDE DEF k, e
  <2>2. mem' \in Mem
    BY <1>0, <2>a, <2>b, Zenon DEF Mem
  <2>3. /\ mem'.sel = NoDb /\ mem'.buf = <<>> /\ mem'.size = Len(file.toks)
        /\ mem'.offset = Len(file.toks) /\ mem'.state = "on"
    BY <1>0, <2>a, <2>b DEF Mem, k
  <2>4. file' \in File /\ file'.toks = file.toks /\ (policy = "always" => file'.synced = Len(file.toks))
    BY <1>0, <2>1 DEF File
  <2>5. file'.synced <= Len(file'.toks)
    BY <1>0, <2>1 DEF IInv, Types, File
  <2>6. mem'.offset <= mem'.size /\ mem'.size = Len(file'.toks)
    BY <1>0, <2>3, <2>4
  <2>7. Types'
    BY <1>2, <1>3, <2>2, <2>4, <2>5, <2>6, Zenon DEF Types
  <2>8. file.toks \o <<>> = file.toks /\ SubSeq(file.toks, 1, Len(file.toks)) = file.toks
    BY <1>0, WholeFile, Zenon
  <2>9. Rebuilds(file.toks, NoDb, log)
    BY <1>1, <1>5, Zenon DEF IInv, FileInv
  <2>10. FileInv'
    BY <1>1, <2>3, <2>4, <2>8, <2>9 DEF FileInv
  <2>11. DurableInv'
    <3>1. policy = "always" => OnDisk' = Len(log)
      BY <2>4, <2>8, <2>9, Zenon DEF OnDisk, Rebuilds
    <3>2. acked <= Len(log) /\ acked' = acked
      BY <1>1, Zenon DEF IInv, Types
    <3> QED
      BY <1>1, <2>4, <3>1, <3>2, Zenon DEF DurableInv
  <2>12. RewriteInv'
    BY <1>3, Zenon DEF RewriteInv
  <2> QED
    BY <2>7, <2>10, <2>11, <2>12, Zenon DEF IInv
<1> QED
  BY <1>4, <1>5, Zenon

\* The process ends; of what was not synced the machine may lose a suffix.
LEMMA CrashInv ==
  ASSUME IInv, Crash \/ PowerLoss
  PROVE  IInv'
<1>0. file \in File /\ file.toks \in Seq(Token) /\ file.synced \in Nat /\ Len(file.toks) \in Nat
      /\ file.synced <= Len(file.toks) /\ log \in Seq(Command)
  BY DEF IInv, Types, File
<1>1. PICK n \in file.synced..Len(file.toks) : file'.toks = SubSeq(file.toks, 1, n) /\ file'.synced = file.synced
  <2>1. CASE Crash
    <3>1. file' = file /\ SubSeq(file.toks, 1, Len(file.toks)) = file.toks
      BY <1>0, <2>1, WholeFile, Zenon DEF Crash
    <3>2. Len(file.toks) \in file.synced..Len(file.toks)
      BY <1>0
    <3> QED
      BY <3>1, <3>2, Zenon
  <2>2. CASE PowerLoss
    <3>1. PICK n \in file.synced..Len(file.toks) : file' = [file EXCEPT !.toks = SubSeq(@, 1, n)]
      BY <2>2, Zenon DEF PowerLoss
    <3>2. file'.toks = SubSeq(file.toks, 1, n) /\ file'.synced = file.synced
      BY <1>0, <3>1 DEF File
    <3> QED
      BY <3>2, Zenon
  <2> QED
    BY <2>1, <2>2, Zenon
<1>2. up' = FALSE /\ UNCHANGED <<policy, pc, log, mem, rw, acked, born, writes>>
  BY Zenon DEF Crash, PowerLoss
<1>3. n \in Nat /\ n \in 0..Len(file.toks) /\ file.synced <= n /\ n <= Len(file.toks)
  BY <1>0
<1>4. file'.toks \in Seq(Token) /\ Len(file'.toks) = n
  BY <1>0, <1>1, <1>3
<1>5. file' \in File
  <2>1. CASE Crash
    BY <1>0, <2>1, Zenon DEF Crash
  <2>2. CASE PowerLoss
    <3>1. PICK k \in file.synced..Len(file.toks) : file' = [file EXCEPT !.toks = SubSeq(file.toks, 1, k)]
      BY <2>2, Zenon DEF PowerLoss
    <3>2. SubSeq(file.toks, 1, k) \in Seq(Token)
      BY <1>0
    <3> QED
      BY <1>0, <3>1, <3>2, Zenon DEF File
  <2> QED
    BY <2>1, <2>2, Zenon
<1>6. SubSeq(file'.toks, 1, file'.synced) = SubSeq(file.toks, 1, file.synced)
  <2>1. SubSeq(SubSeq(file.toks, 1, n), 1, file.synced) = SubSeq(file.toks, 1, file.synced)
    BY <1>0, <1>3, FirstOfFirst
  <2> QED
    BY <1>1, <2>1, Zenon
<1>7. Types'
  <2>1. /\ policy' \in Policies /\ pc' \in {"loop", "switching"} /\ log' \in Seq(Command)
        /\ writes' \in 0..MaxWrites /\ mem' \in Mem /\ rw' \in Rewrite /\ mem'.offset <= mem'.size
        /\ acked' \in Nat /\ acked' <= Len(log') /\ born' \in Nat
        /\ (rw'.ack => rw'.stop) /\ (rw'.child = "ok" => rw'.stop) /\ up' \in BOOLEAN /\ ~Serving'
    BY <1>2, Zenon DEF IInv, Types, Serving
  <2>2. file'.synced <= Len(file'.toks)
    BY <1>1, <1>3, <1>4, Zenon
  <2> QED
    BY <1>5, <2>1, <2>2, Zenon DEF Types
<1>8. FileInv'
  <2>1. ASSUME mem.state = "on"
        PROVE  LoadsPrefix(file'.toks, log)
    <3> DEFINE r == loadAppendOnlyFile(file.toks)
               q == loadAppendOnlyFile(SubSeq(file.toks, 1, n))
    <3>1. ~r.bad /\ Continues(r.log, log)
      BY <2>1, FileLoads, Zenon DEF IInv, LoadsPrefix
    <3>2. ~q.bad /\ Continues(q.log, r.log)
      BY <1>0, <1>3, <3>1, LoadPrefix, Zenon
    <3>3. r \in LoadState /\ q \in LoadState
      BY <1>0, <1>1, <1>4, LoadType, Zenon
    <3> HIDE DEF r, q
    <3>4. r.log \in Seq(Command) /\ q.log \in Seq(Command)
      BY <3>3 DEF LoadState
    <3>5. Continues(q.log, log)
      BY <1>0, <3>1, <3>2, <3>4, ContinuesTransitive, Zenon
    <3> QED
      BY <1>1, <3>2, <3>5, Zenon DEF LoadsPrefix, q
  <2> QED
    BY <1>2, <2>1, Zenon DEF FileInv, Serving
<1>9. RewriteInv'
  BY <1>2, Zenon DEF RewriteInv, Serving
<1>10. DurableInv'
  BY <1>2, <1>6, Zenon DEF IInv, DurableInv, OnDisk
<1> QED
  BY <1>7, <1>8, <1>9, <1>10, Zenon DEF IInv

\* The smaller of two numbers.
LEMMA SmallerFacts ==
  ASSUME NEW a \in Nat, NEW b \in Nat
  PROVE  Smaller(a, b) \in Nat /\ Smaller(a, b) <= a /\ Smaller(a, b) <= b
BY DEF Smaller

\* A restart loads what it can of the file and starts with that dataset.
LEMMA RestartInv ==
  ASSUME IInv, Restart
  PROVE  IInv'
<1> DEFINE r == loadAppendOnlyFile(file.toks)
           on == mem.state # "off"
           toks == IF on THEN SubSeq(file.toks, 1, r.good) ELSE file.toks
           j == Smaller(file.synced, Len(toks))
           k == Len(toks)
           e == <<>>
           st == IF on THEN "on" ELSE "off"
<1>1. /\ on => ~r.bad
      /\ log' = IF on THEN r.log ELSE <<>>
      /\ file' = [toks |-> toks, synced |-> j]
      /\ born' = Len(log')
      /\ acked' = Smaller(acked, Len(log'))
  BY Zenon DEF Restart
<1>2. up' = TRUE /\ pc' = "loop" /\ rw' = NoRewrite /\ UNCHANGED <<policy, writes>>
  BY Zenon DEF Restart
<1>3. mem' = [mem EXCEPT !.state = st, !.buf = e, !.sel = NoDb,
                         !.werr = FALSE, !.aged = FALSE, !.postponed = NotPostponed,
                         !.size = k, !.offset = k, !.sched = FALSE]
  BY Zenon DEF Restart
<1>4. mem \in Mem /\ file.toks \in Seq(Token) /\ file.synced \in Nat /\ acked \in Nat
  BY DEF IInv, Types, File
<1>5. r \in LoadState /\ r.good \in 0..Len(file.toks)
  BY <1>4, LoadType, Zenon
<1> HIDE DEF r
<1>6. toks \in Seq(Token) /\ k \in Nat /\ e \in Seq(Token) /\ e = <<>>
  <2>1. SubSeq(file.toks, 1, r.good) \in Seq(Token)
    BY <1>4, <1>5
  <2>2. toks \in Seq(Token)
    BY <1>4, <2>1, Zenon
  <2> HIDE DEF toks
  <2> QED
    BY <2>2
<1>7. on => LET cut == loadAppendOnlyFile(toks) IN ~cut.bad /\ cut.half = 0 /\ cut.log = r.log
  BY <1>1, <1>4, LoadTruncated, Zenon DEF r
<1>8. log' \in Seq(Command) /\ Len(log') \in Nat /\ (on => log' = r.log)
  <2>1. r.log \in Seq(Command) /\ <<>> \in Seq(Command)
    BY <1>5 DEF LoadState
  <2>2. log' \in Seq(Command) /\ (on => log' = r.log)
    BY <1>1, <2>1, Zenon
  <2> QED
    BY <2>2
<1>9. st \in {"on", "off"} /\ (st = "on" <=> on)
  BY Zenon
<1> HIDE DEF toks
<1>10. j \in Nat /\ j <= Len(toks)
  BY <1>4, <1>6, SmallerFacts, Zenon
<1> HIDE DEF j, k, e, st, on
<1>11. mem' \in Mem
  <2>1. NotPostponed \in -1..2 /\ NoDb \in DBs \union {NoDb} /\ FALSE \in BOOLEAN
    BY DEF NotPostponed
  <2>2. st \in {"on", "off", "wait"} /\ e \in Seq(Token) /\ k \in Nat
    BY <1>6, <1>9, Zenon
  <2> QED
    BY <1>3, <1>4, <2>1, <2>2, Zenon DEF Mem
<1>12. mem'.state = st /\ mem'.buf = <<>> /\ mem'.sel = NoDb /\ mem'.size = k /\ mem'.offset = k
  BY <1>3, <1>4, <1>6 DEF Mem
<1>13. file' \in File /\ file'.toks = toks /\ file'.synced = j
  BY <1>1, <1>6, <1>10 DEF File
<1>14. acked' \in Nat /\ acked' <= Len(log') /\ born' \in Nat /\ ~(acked' > born') /\ ~(Len(log') > born')
  <2>1. acked' \in Nat /\ acked' <= Len(log')
    BY <1>1, <1>4, <1>8, SmallerFacts, Zenon
  <2>2. born' = Len(log')
    BY <1>1, Zenon
  <2> QED
    BY <1>8, <2>1, <2>2
<1>15. Types'
  <2>1. policy' \in Policies /\ writes' \in 0..MaxWrites
    BY <1>2, Zenon DEF IInv, Types
  <2>2. up' \in BOOLEAN /\ pc' \in {"loop", "switching"}
    BY <1>2
  <2>3. rw' \in Rewrite /\ (rw'.ack => rw'.stop) /\ (rw'.child = "ok" => rw'.stop)
    BY <1>2, NoRewriteFacts
  <2>4. mem'.size = Len(file'.toks)
    BY <1>12, <1>13, Zenon DEF k
  <2>5. mem'.offset <= mem'.size
    BY <1>6, <1>12
  <2>6. file'.synced <= Len(file'.toks)
    BY <1>10, <1>13, Zenon
  <2> QED
    BY <1>8, <1>11, <1>13, <1>14, <2>1, <2>2, <2>3, <2>4, <2>5, <2>6, Zenon DEF Types
<1>16. FileInv'
  <2>1. ASSUME mem'.state = "on"
        PROVE  Rebuilds(file'.toks \o mem'.buf, mem'.sel, log')
    <3>1. on
      BY <1>9, <1>12, <2>1, Zenon
    <3>2. file'.toks \o mem'.buf = toks
      BY <1>6, <1>12, <1>13, WholeFile, Zenon
    <3> QED
      BY <1>7, <1>8, <1>12, <3>1, <3>2, Zenon DEF Rebuilds
  <2>2. up' /\ pc' # "switching"
    BY <1>2
  <2> QED
    BY <2>1, <2>2, Zenon DEF FileInv
<1>17. RewriteInv'
  <2>1. ~AofChild'
    BY <1>2, NoRewriteFacts DEF AofChild
  <2> QED
    BY <2>1, Zenon DEF RewriteInv
<1>18. DurableInv'
  BY <1>14, Zenon DEF DurableInv
<1> QED
  BY <1>15, <1>16, <1>17, <1>18, Zenon DEF IInv

-----------------------------------------------------------------------------
(* The theorems. *)

\* The server starts with an empty file.
LEMMA InitInv ==
  ASSUME AofInit
  PROVE  IInv
<1> DEFINE e == <<>>
<1>1. /\ policy \in Policies /\ up = TRUE /\ pc = "loop" /\ log = e /\ rw = NoRewrite
      /\ acked = 0 /\ born = 0 /\ writes = 0 /\ file = [toks |-> e, synced |-> 0]
      /\ mem = [state |-> "on", buf |-> e, sel |-> NoDb, werr |-> FALSE, aged |-> FALSE,
                postponed |-> NotPostponed, size |-> 0, offset |-> 0, sched |-> FALSE]
  BY Zenon DEF AofInit
<1>2. e \in Seq(Token) /\ e \in Seq(Command) /\ Len(e) = 0 /\ e \o e = e /\ e = <<>>
  OBVIOUS
<1> HIDE DEF e
<1>3. 0 \in 0..MaxWrites /\ NotPostponed \in -1..2 /\ NoDb \in DBs \union {NoDb} /\ 0 <= 0
  BY AofAssumption DEF NotPostponed
<1>4. mem \in Mem /\ file \in File
  BY <1>1, <1>2, <1>3 DEF Mem, File
<1>5. mem.state = "on" /\ mem.buf = e /\ mem.sel = NoDb /\ mem.size = 0 /\ mem.offset = 0
  BY <1>1
<1>6. file.toks = e /\ file.synced = 0
  BY <1>1
<1>7. rw \in Rewrite /\ (rw.ack => rw.stop) /\ (rw.child = "ok" => rw.stop) /\ ~AofChild
  BY <1>1, NoRewriteFacts DEF AofChild
<1>8. Types
  <2>1. /\ up \in BOOLEAN /\ pc \in {"loop", "switching"} /\ log \in Seq(Command)
        /\ writes \in 0..MaxWrites /\ acked \in Nat /\ born \in Nat
    BY <1>1, <1>2, <1>3
  <2>2. mem.offset <= mem.size /\ file.synced <= Len(file.toks) /\ acked <= Len(log)
    BY <1>1, <1>2, <1>5, <1>6
  <2>3. mem.size = Len(file.toks)
    BY <1>2, <1>5, <1>6, Zenon
  <2> QED
    BY <1>1, <1>4, <1>7, <2>1, <2>2, <2>3, Zenon DEF Types
<1>9. FileInv
  <2>1. LET r == loadAppendOnlyFile(e) IN ~r.bad /\ r.half = 0 /\ r.log = e
    <3>1. ~LoadStart.bad /\ LoadStart.half = 0 /\ LoadStart.log = <<>>
      BY DEF LoadStart
    <3>2. loadAppendOnlyFile(e) = LoadStart
      BY <1>2, LoadEmpty, Zenon
    <3> QED
      BY <1>2, <3>1, <3>2, Zenon
  <2> QED
    BY <1>1, <1>2, <1>5, <1>6, <2>1 DEF FileInv, Rebuilds
<1>10. RewriteInv
  BY <1>7, Zenon DEF RewriteInv
<1>11. DurableInv
  BY <1>1, <1>2 DEF DurableInv
<1> QED
  BY <1>8, <1>9, <1>10, <1>11, Zenon DEF IInv

\* A step that changes nothing changes no token.
LEMMA StutterInv ==
  ASSUME IInv, UNCHANGED aofVars
  PROVE  IInv'
<1>1. /\ UNCHANGED <<policy, up, pc, log, acked, born, writes>>
      /\ mem' = mem /\ file' = file /\ rw' = rw
  BY Zenon DEF aofVars
<1>2. SameTokens(mem, mem')
  BY <1>1, Zenon DEF IInv, Types, SameTokens
<1>3. file' \in File /\ file'.toks = file.toks /\ file'.synced \in {file.synced, Len(file.toks)}
  BY <1>1, Zenon DEF IInv, Types
<1>4. rw' \in Rewrite /\ (rw'.ack => rw'.stop) /\ (rw'.child = "ok" => rw'.stop)
  BY <1>1, Zenon DEF IInv, Types
<1>5. AofChild' => AofChild /\ NewFile' = NewFile
  BY <1>1, Zenon DEF AofChild, NewFile
<1>6. QuietStep
  BY <1>1, <1>2, <1>3, <1>4, <1>5, Zenon DEF QuietStep
<1> QED
  BY <1>6, QuietInv, Zenon

\* Every step preserves the invariant.
LEMMA NextInv ==
  ASSUME IInv, [AofNext]_aofVars
  PROVE  IInv'
<1>1. ASSUME NEW d \in DBs, WriteCommand(d)
      PROVE  IInv'
  BY <1>1, WriteCommandInv, Zenon
<1>2. CASE \/ SecondPasses \/ bioProcessBackgroundJobs \/ ScheduleRewrite \/ BgSave \/ BgSaveDone
           \/ aofChildWriteDiffData \/ aofReadDiffFromParent \/ ChildAsksToStop
           \/ aofChildPipeReadable \/ ChildFinishes \/ ChildFails \/ RewriteFailed
  <2>1. QuietStep
    BY <1>2, QuietSteps, Zenon DEF IInv
  <2> QED
    BY <2>1, QuietInv, Zenon
<1>3. CASE BeforeSleep \/ CronFlush
  BY <1>3, FlushSteps, Zenon
<1>4. CASE rewriteAppendOnlyFileBackground \/ startAppendOnly
  BY <1>4, RewriteStarts, Zenon
<1>5. CASE stopAppendOnly
  BY <1>5, StopInv, Zenon
<1>6. CASE prepareForShutdown
  BY <1>6, ShutdownInv, Zenon
<1>7. CASE RewriteRenamed
  BY <1>7, RenamedInv, Zenon
<1>8. CASE RewriteSwitched
  BY <1>8, SwitchedInv, Zenon
<1>9. CASE Crash \/ PowerLoss
  BY <1>9, CrashInv, Zenon
<1>10. CASE Restart
  BY <1>10, RestartInv, Zenon
<1>11. CASE UNCHANGED aofVars
  BY <1>11, StutterInv, Zenon
<1> QED
  BY <1>1, <1>2, <1>3, <1>4, <1>5, <1>6, <1>7, <1>8, <1>9, <1>10, <1>11, ZenonT(40) DEF AofNext

\* The invariant holds in every state.
THEOREM Invariance == AofSpec => []IInv
<1>1. AofInit => IInv
  BY InitInv, Zenon
<1>2. IInv /\ [AofNext]_aofVars => IInv'
  BY NextInv, Zenon
<1> QED
  BY <1>1, <1>2, PTL DEF AofSpec

\* Type correctness: the fields, the file and the counters of answered
\* commands stay in their ranges, and aof_current_size is the file's length
\* whenever AOF is on.
THEOREM TypeCorrect == AofSpec => []AofTypeOK
<1>1. IInv => AofTypeOK
  <2> SUFFICES ASSUME IInv
               PROVE  AofTypeOK
    OBVIOUS
  <2>1. /\ mem.state \in {"on", "off", "wait"} /\ mem.sel \in DBs \union {NoDb}
        /\ mem.postponed \in -1..2 /\ mem.offset \in Nat /\ mem.size \in Nat
    BY DEF IInv, Types, Mem
  <2>2. file.synced \in Nat /\ file.toks \in Seq(Token) /\ log \in Seq(Command)
    BY DEF IInv, Types, File
  <2>3. mem.offset \in 0..mem.size
    BY <2>1 DEF IInv, Types
  <2>4. file.synced \in 0..Len(file.toks) /\ acked \in 0..Len(log)
    BY <2>2 DEF IInv, Types
  <2> QED
    BY <2>1, <2>2, <2>3, <2>4, Zenon DEF AofTypeOK, IInv, Types, Command
<1> QED
  BY Invariance, <1>1, PTL

\* While AOF is on, the file followed by aof_buf (between rename() and the
\* switch: the file alone) rebuilds exactly the dataset, for any number of
\* writes, databases, rewrites, failed writes and restarts.
THEOREM FileRebuildsDataset == AofSpec => []AofRebuildsDataset
<1>1. IInv => AofRebuildsDataset
  <2> SUFFICES ASSUME IInv, up, mem.state = "on"
               PROVE  LET r == loadAppendOnlyFile(file.toks \o (IF pc = "loop" THEN mem.buf ELSE <<>>))
                      IN ~r.bad /\ r.log = log
    BY Zenon DEF AofRebuildsDataset
  <2>1. CASE pc = "loop"
    BY <2>1, Zenon DEF IInv, FileInv, Serving, Rebuilds
  <2>2. CASE pc # "loop"
    <3>1. pc = "switching" /\ mem.state # "off"
      BY <2>2 DEF IInv, Types
    <3>2. file.toks \in Seq(Token)
      BY DEF IInv, Types, File
    <3>3. file.toks \o <<>> = file.toks
      BY <3>2, WholeFile, Zenon
    <3> QED
      BY <2>2, <3>1, <3>3, Zenon DEF IInv, FileInv, Rebuilds
  <2> QED
    BY <2>1, <2>2, Zenon
<1> QED
  BY Invariance, <1>1, PTL

\* The file a server with AOF on leaves behind always loads.
THEOREM FileLoadsAlways == AofSpec => []FileAlwaysLoads
<1>1. IInv => FileAlwaysLoads
  BY FileLoads, Zenon DEF IInv, FileAlwaysLoads, LoadsPrefix
<1> QED
  BY Invariance, <1>1, PTL

\* Under appendfsync always what this process ran and answered is on the disk.
THEOREM AnsweredIsDurable == AofSpec => []AckedIsDurable
<1>1. IInv => AckedIsDurable
  BY Zenon DEF IInv, DurableInv, AckedIsDurable
<1> QED
  BY Invariance, <1>1, PTL

\* A restart with AOF on comes back with a prefix of what the server had run,
\* and with every command that was on the disk.
THEOREM RestartKeepsTheDisk == AofSpec => RestartsFromDisk
<1>1. ASSUME IInv, [AofNext]_aofVars, ~up, mem.state = "on", up'
      PROVE  Continues(log', log) /\ OnDisk <= Len(log')
  <2> DEFINE r == loadAppendOnlyFile(file.toks)
             q == loadAppendOnlyFile(SubSeq(file.toks, 1, file.synced))
  <2>1. Restart
    <3>1. ~Serving
      BY <1>1, Zenon DEF Serving
    <3>2. ~(up' = up)
      BY <1>1, Zenon
    <3> QED
      BY <1>1, <3>1, <3>2, Zenon
      DEF AofNext, aofVars, WriteCommand, BeforeSleep, CronFlush, SecondPasses,
          bioProcessBackgroundJobs, rewriteAppendOnlyFileBackground, ScheduleRewrite, BgSave,
          BgSaveDone, aofChildWriteDiffData, aofReadDiffFromParent, ChildAsksToStop,
          aofChildPipeReadable, ChildFinishes, ChildFails, RewriteRenamed, RewriteSwitched,
          RewriteFailed, stopAppendOnly, startAppendOnly, prepareForShutdown, Crash, PowerLoss
  <2>2. log' = r.log
    <3>1. mem.state # "off"
      BY <1>1
    <3> QED
      BY <2>1, <3>1, Zenon DEF Restart
  <2>3. ~r.bad /\ Continues(r.log, log)
    BY <1>1, FileLoads, Zenon DEF IInv, LoadsPrefix
  <2>4. /\ file.toks \in Seq(Token) /\ log \in Seq(Command)
        /\ file.synced \in Nat /\ file.synced \in 0..Len(file.toks)
    BY <1>1 DEF IInv, Types, File
  <2>5. Continues(q.log, r.log)
    BY <2>3, <2>4, LoadPrefix, Zenon
  <2> HIDE DEF r, q
  <2>6. Len(q.log) <= Len(r.log) /\ OnDisk = Len(q.log)
    BY <2>5, Zenon DEF Continues, OnDisk, q
  <2> QED
    BY <2>2, <2>3, <2>6, Zenon
<1>2. IInv /\ [AofNext]_aofVars
        => [~up /\ mem.state = "on" /\ up' => Continues(log', log) /\ OnDisk <= Len(log')]_aofVars
  BY <1>1, Zenon
<1> QED
  BY Invariance, <1>2, PTL DEF AofSpec, RestartsFromDisk
=============================================================================

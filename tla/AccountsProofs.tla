--------------------------- MODULE AccountsProofs ---------------------------
(***************************************************************************)
(* What POST /register and POST /login of controllers/User.js guarantee    *)
(* for every number of requests.  The inductive invariant says what a      *)
(* request that waits at an await holds (RequestInv), that an account once *)
(* answered 201 stays as its registration made it (AnsweredInv), and that  *)
(* a login only counts registrations that were answered (BeforeInv).       *)
(***************************************************************************)
EXTENDS Accounts, TLAPS

RequestAt(r) ==
  /\ pc[r] = "idle" => users[r] = None
  /\ pc[r] # "done" => resp[r] = 0
  /\ pc[r] \in {"lookup", "hash", "insert"} =>
       kind[r] = "register" /\ body[r] \in Body /\ users[r] = None
  /\ pc[r] \in {"find", "compare"} => kind[r] = "login" /\ body[r] \in Credentials
  /\ pc[r] = "compare" =>
       user[r] \in Reqs /\ users[user[r]] # None /\ users[user[r]].email = body[r].email

AnsweredAt(r) ==
  resp[r] = 201 => body[r] \in Body /\ users[r] = [body[r] EXCEPT !.password = Hash(r, @)]

RequestInv  == \A r \in Reqs : RequestAt(r)
AnsweredInv == \A r \in Reqs : AnsweredAt(r)
BeforeInv   == \A l \in Reqs : \A r \in before[l] : resp[r] = 201

IInv ==
  TypeOK /\ RequestInv /\ AnsweredInv /\ BeforeInv /\ IndexEnforced /\ OnlySharedEmailLocksOut

\* The account a registration inserts is an account.
LEMMA NewUser ==
  ASSUME NEW r \in Reqs, NEW b \in Body
  PROVE  /\ [b EXCEPT !.password = Hash(r, @)] \in User
         /\ [b EXCEPT !.password = Hash(r, @)] # None
         /\ [b EXCEPT !.password = Hash(r, @)].email = b.email
         /\ [b EXCEPT !.password = Hash(r, @)].username = b.username
         /\ [b EXCEPT !.password = Hash(r, @)].password[2] = b.password
<1>1. [b EXCEPT !.password = Hash(r, @)] \in User
  BY DEF Body, User, Hash
<1> QED
  BY <1>1, NoneAssumption DEF Body, Hash

\* No handler changes or removes an account; register inserts its own.
UsersGrow == \A i \in Reqs : users[i] # None => users'[i] = users[i]

\* An insertion puts the registration's own account into an empty place.
LEMMA InsertFacts ==
  ASSUME TypeOK, RequestInv, NEW r \in Reqs, Insert(r)
  PROVE  /\ body[r] \in Body /\ users[r] = None /\ kind[r] = "register" /\ UsersGrow
         /\ \/ users' = users /\ Answer(r, 500)
            \/ /\ users' = [users EXCEPT ![r] = [body[r] EXCEPT !.password = Hash(r, @)]]
               /\ ~DuplicateKey(r)
               /\ Answer(r, 201) \/ Answer(r, 500)
<1>1. body[r] \in Body /\ users[r] = None /\ kind[r] = "register"
  BY DEF Insert, RequestInv, RequestAt
<1>2. \/ users' = users /\ Answer(r, 500)
      \/ /\ users' = [users EXCEPT ![r] = [body[r] EXCEPT !.password = Hash(r, @)]]
         /\ ~DuplicateKey(r)
         /\ Answer(r, 201) \/ Answer(r, 500)
  BY Zenon DEF Insert
<1>3. UsersGrow
  BY <1>1, <1>2 DEF UsersGrow, TypeOK
<1> QED
  BY <1>1, <1>2, <1>3, Zenon

\* The variables of the process and the collection stay in their sets.
LEMMA TypeStep ==
  ASSUME TypeOK, RequestInv, Next
  PROVE  TypeOK'
<1> USE AccountsAssumption DEF TypeOK, Goto, Answer, Arrive, store, input, InFlight, DbOps
<1>1. ASSUME NEW r \in Reqs, Incomplete(r) PROVE TypeOK'
  BY <1>1 DEF Incomplete
<1>2. ASSUME NEW r \in Reqs, BeginRegister(r) PROVE TypeOK'
  BY <1>2 DEF BeginRegister
<1>3. ASSUME NEW r \in Reqs, BeginLogin(r) PROVE TypeOK'
  BY <1>3 DEF BeginLogin
<1>4. ASSUME NEW r \in Reqs, Lookup(r) PROVE TypeOK'
  BY <1>4 DEF Lookup
<1>5. ASSUME NEW r \in Reqs, HashPassword(r) PROVE TypeOK'
  BY <1>5 DEF HashPassword
<1>6. ASSUME NEW r \in Reqs, Insert(r) PROVE TypeOK'
  <2>1. users' \in [Reqs -> User \cup {None}]
    BY <1>6, InsertFacts, NewUser
  <2>2. pc' \in [Reqs -> InFlight \cup {"idle", "done", "dropped"}]
    BY <1>6, InsertFacts
  <2>3. resp' \in [Reqs -> {0, 200, 201, 400, 500}]
    BY <1>6, InsertFacts
  <2> QED
    BY <1>6, <2>1, <2>2, <2>3 DEF Insert
<1>7. ASSUME NEW r \in Reqs, Find(r) PROVE TypeOK'
  BY <1>7 DEF Find
<1>8. ASSUME NEW r \in Reqs, Compare(r) PROVE TypeOK'
  BY <1>8 DEF Compare
<1>9. ASSUME NEW r \in Reqs, DbError(r) PROVE TypeOK'
  BY <1>9 DEF DbError
<1>10. CASE BuildIndex
  <2>1. index' \in BOOLEAN
    BY <1>10, Zenon DEF BuildIndex, UniqueUsernames
  <2> QED
    BY <1>10, <2>1, Zenon DEF BuildIndex
<1>11. CASE Crash
  <2>1. pc' \in [Reqs -> InFlight \cup {"idle", "done", "dropped"}]
    BY <1>11 DEF Crash
  <2> QED
    BY <1>11, <2>1, Zenon DEF Crash
<1>12. CASE Restart
  BY <1>12 DEF Restart
<1>13. CASE Quiescent
  BY <1>13, Zenon DEF Quiescent, vars
<1> HIDE DEF TypeOK
<1> QED
  BY <1>1, <1>2, <1>3, <1>4, <1>5, <1>6, <1>7, <1>8, <1>9, <1>10, <1>11, <1>12, <1>13,
     Zenon DEF Next, Proceed

\* What a waiting handler has read, and what it holds, stays true until it goes on.
LEMMA RequestStep ==
  ASSUME TypeOK, RequestInv, Next
  PROVE  RequestInv'
<1> USE AccountsAssumption DEF TypeOK, RequestInv, RequestAt, Goto, Answer, Arrive, store, input,
      InFlight, DbOps
<1>1. ASSUME NEW r \in Reqs, Incomplete(r) PROVE RequestInv'
  BY <1>1 DEF Incomplete
<1>2. ASSUME NEW r \in Reqs, BeginRegister(r) PROVE RequestInv'
  BY <1>2 DEF BeginRegister
<1>3. ASSUME NEW r \in Reqs, BeginLogin(r) PROVE RequestInv'
  BY <1>3 DEF BeginLogin
<1>4. ASSUME NEW r \in Reqs, Lookup(r) PROVE RequestInv'
  BY <1>4 DEF Lookup
<1>5. ASSUME NEW r \in Reqs, HashPassword(r) PROVE RequestInv'
  BY <1>5 DEF HashPassword
<1>6. ASSUME NEW r \in Reqs, Insert(r) PROVE RequestInv'
  <2>1. /\ pc' = [pc EXCEPT ![r] = "done"] /\ UNCHANGED <<kind, body, user>>
        /\ UsersGrow /\ \A q \in Reqs \ {r} : users'[q] = users[q] /\ resp'[q] = resp[q]
    BY <1>6, InsertFacts DEF Insert
  <2> QED
    BY <2>1 DEF UsersGrow
<1>7. ASSUME NEW r \in Reqs, Find(r) PROVE RequestInv'
  BY <1>7 DEF Find
<1>8. ASSUME NEW r \in Reqs, Compare(r) PROVE RequestInv'
  BY <1>8 DEF Compare
<1>9. ASSUME NEW r \in Reqs, DbError(r) PROVE RequestInv'
  BY <1>9 DEF DbError
<1>10. CASE BuildIndex
  BY <1>10 DEF BuildIndex
<1>11. CASE Crash
  BY <1>11 DEF Crash
<1>12. CASE Restart
  BY <1>12 DEF Restart
<1>13. CASE Quiescent
  BY <1>13, Zenon DEF Quiescent, vars
<1> HIDE DEF TypeOK, RequestInv
<1> QED
  BY <1>1, <1>2, <1>3, <1>4, <1>5, <1>6, <1>7, <1>8, <1>9, <1>10, <1>11, <1>12, <1>13,
     Zenon DEF Next, Proceed

\* No handler changes or removes an account.
LEMMA UsersStep ==
  ASSUME TypeOK, RequestInv, Next
  PROVE  UsersGrow
<1> USE DEF UsersGrow, Arrive, store
<1>1. ASSUME NEW r \in Reqs, Incomplete(r) PROVE UsersGrow
  BY <1>1 DEF Incomplete
<1>2. ASSUME NEW r \in Reqs, BeginRegister(r) PROVE UsersGrow
  BY <1>2 DEF BeginRegister
<1>3. ASSUME NEW r \in Reqs, BeginLogin(r) PROVE UsersGrow
  BY <1>3 DEF BeginLogin
<1>4. ASSUME NEW r \in Reqs, Lookup(r) PROVE UsersGrow
  BY <1>4 DEF Lookup
<1>5. ASSUME NEW r \in Reqs, HashPassword(r) PROVE UsersGrow
  BY <1>5 DEF HashPassword
<1>6. ASSUME NEW r \in Reqs, Insert(r) PROVE UsersGrow
  BY <1>6, InsertFacts
<1>7. ASSUME NEW r \in Reqs, Find(r) PROVE UsersGrow
  BY <1>7 DEF Find
<1>8. ASSUME NEW r \in Reqs, Compare(r) PROVE UsersGrow
  BY <1>8 DEF Compare
<1>9. ASSUME NEW r \in Reqs, DbError(r) PROVE UsersGrow
  BY <1>9 DEF DbError
<1>10. CASE BuildIndex
  BY <1>10 DEF BuildIndex
<1>11. CASE Crash
  BY <1>11 DEF Crash
<1>12. CASE Restart
  BY <1>12 DEF Restart
<1>13. CASE Quiescent
  BY <1>13 DEF Quiescent, vars
<1> HIDE DEF UsersGrow
<1> QED
  BY <1>1, <1>2, <1>3, <1>4, <1>5, <1>6, <1>7, <1>8, <1>9, <1>10, <1>11, <1>12, <1>13,
     Zenon DEF Next, Proceed

\* What a request was answered, and the input it came with, are final.
Final ==
  \A r \in Reqs : resp[r] # 0 => UNCHANGED <<resp[r], kind[r], body[r], before[r]>>

\* A request is answered once.
LEMMA FinalStep ==
  ASSUME TypeOK, RequestInv, Next
  PROVE  Final
<1> USE DEF Final, TypeOK, RequestInv, RequestAt, Goto, Answer, Arrive, store, input,
      InFlight, DbOps
<1>1. ASSUME NEW r \in Reqs, Incomplete(r) PROVE Final
  BY <1>1 DEF Incomplete
<1>2. ASSUME NEW r \in Reqs, BeginRegister(r) PROVE Final
  BY <1>2 DEF BeginRegister
<1>3. ASSUME NEW r \in Reqs, BeginLogin(r) PROVE Final
  BY <1>3 DEF BeginLogin
<1>4. ASSUME NEW r \in Reqs, Lookup(r) PROVE Final
  BY <1>4 DEF Lookup
<1>5. ASSUME NEW r \in Reqs, HashPassword(r) PROVE Final
  BY <1>5 DEF HashPassword
<1>6. ASSUME NEW r \in Reqs, Insert(r) PROVE Final
  BY <1>6 DEF Insert
<1>7. ASSUME NEW r \in Reqs, Find(r) PROVE Final
  BY <1>7 DEF Find
<1>8. ASSUME NEW r \in Reqs, Compare(r) PROVE Final
  BY <1>8 DEF Compare
<1>9. ASSUME NEW r \in Reqs, DbError(r) PROVE Final
  BY <1>9 DEF DbError
<1>10. CASE BuildIndex
  BY <1>10 DEF BuildIndex
<1>11. CASE Crash
  BY <1>11 DEF Crash
<1>12. CASE Restart
  BY <1>12 DEF Restart
<1>13. CASE Quiescent
  BY <1>13 DEF Quiescent, vars
<1> HIDE DEF Final, TypeOK, RequestInv
<1> QED
  BY <1>1, <1>2, <1>3, <1>4, <1>5, <1>6, <1>7, <1>8, <1>9, <1>10, <1>11, <1>12, <1>13,
     Zenon DEF Next, Proceed

\* Only newUser.save() leads to a 201; a complete login is told 400 by the lookup
\* of the email or by bcrypt.compare; a login looks at the answers when it arrives.
NewAnswer ==
  \A r \in Reqs :
    /\ resp[r] = 0 /\ resp'[r] = 201 => Insert(r)
    /\ resp[r] = 0 /\ resp'[r] = 400 /\ kind'[r] = "login" /\ body'[r] # None
         => Find(r) \/ Compare(r)
    /\ before'[r] = before[r] \/ before'[r] = {q \in Reqs : resp[q] = 201}

\* Every step of a handler answers so.
LEMMA NewAnswerStep ==
  ASSUME TypeOK, RequestInv, Next
  PROVE  NewAnswer
<1> USE DEF NewAnswer, TypeOK, RequestInv, RequestAt, Goto, Answer, Arrive, store, input,
      InFlight, DbOps
<1>1. ASSUME NEW q \in Reqs, Incomplete(q) PROVE NewAnswer
  BY <1>1 DEF Incomplete
<1>2. ASSUME NEW q \in Reqs, BeginRegister(q) PROVE NewAnswer
  BY <1>2 DEF BeginRegister
<1>3. ASSUME NEW q \in Reqs, BeginLogin(q) PROVE NewAnswer
  BY <1>3 DEF BeginLogin
<1>4. ASSUME NEW q \in Reqs, Lookup(q) PROVE NewAnswer
  BY <1>4 DEF Lookup
<1>5. ASSUME NEW q \in Reqs, HashPassword(q) PROVE NewAnswer
  BY <1>5 DEF HashPassword
<1>6. ASSUME NEW q \in Reqs, Insert(q) PROVE NewAnswer
  BY <1>6 DEF Insert
<1>7. ASSUME NEW q \in Reqs, Find(q) PROVE NewAnswer
  BY <1>7 DEF Find
<1>8. ASSUME NEW q \in Reqs, Compare(q) PROVE NewAnswer
  <2>1. before' = before /\ \A r \in Reqs \ {q} : resp'[r] = resp[r]
    BY <1>8 DEF Compare
  <2>2. resp'[q] # 201
    BY <1>8 DEF Compare
  <2> QED
    BY <1>8, <2>1, <2>2
<1>9. ASSUME NEW q \in Reqs, DbError(q) PROVE NewAnswer
  BY <1>9 DEF DbError
<1>10. CASE BuildIndex
  BY <1>10 DEF BuildIndex
<1>11. CASE Crash
  BY <1>11 DEF Crash
<1>12. CASE Restart
  BY <1>12 DEF Restart
<1>13. CASE Quiescent
  BY <1>13 DEF Quiescent, vars
<1> HIDE DEF NewAnswer, TypeOK, RequestInv, RequestAt
<1> QED
  BY <1>1, <1>2, <1>3, <1>4, <1>5, <1>6, <1>7, <1>8, <1>9, <1>10, <1>11, <1>12, <1>13,
     Zenon DEF Next, Proceed

\* An account answered 201 stays as its registration made it.
LEMMA AnsweredStep ==
  ASSUME TypeOK, RequestInv, AnsweredInv, Next
  PROVE  AnsweredInv'
<1> SUFFICES ASSUME NEW r \in Reqs, resp'[r] = 201 PROVE AnsweredAt(r)'
  BY DEF AnsweredInv, AnsweredAt
<1>1. CASE resp[r] = 0
  <2>1. Insert(r)
    BY <1>1, NewAnswerStep DEF NewAnswer
  <2>2. body' = body /\ body[r] \in Body
    BY <2>1, InsertFacts DEF Insert, input
  <2>3. users' = [users EXCEPT ![r] = [body[r] EXCEPT !.password = Hash(r, @)]]
    BY <2>1, InsertFacts DEF Answer, TypeOK
  <2>4. users'[r] = [body[r] EXCEPT !.password = Hash(r, @)]
    BY <2>3 DEF TypeOK
  <2> QED
    BY <2>2, <2>4 DEF AnsweredAt
<1>2. CASE resp[r] # 0
  <2>1. resp[r] = 201 /\ body'[r] = body[r]
    BY <1>2, FinalStep DEF Final
  <2>2. body[r] \in Body /\ users[r] = [body[r] EXCEPT !.password = Hash(r, @)]
    BY <2>1 DEF AnsweredInv, AnsweredAt
  <2>3. users[r] # None
    BY <2>2, NewUser
  <2>4. users'[r] = users[r]
    BY <2>3, UsersStep DEF UsersGrow
  <2> QED
    BY <2>1, <2>2, <2>4 DEF AnsweredAt
<1> QED
  BY <1>1, <1>2

\* A login counts registrations that were answered 201, and answers are final.
LEMMA BeforeStep ==
  ASSUME TypeOK, RequestInv, BeforeInv, Next
  PROVE  BeforeInv'
<1> SUFFICES ASSUME NEW l \in Reqs, NEW r \in before'[l] PROVE resp'[r] = 201
  BY DEF BeforeInv
<1>1. r \in Reqs /\ resp[r] = 201
  BY NewAnswerStep DEF NewAnswer, BeforeInv, TypeOK
<1> QED
  BY <1>1, FinalStep DEF Final

\* With the index, an insertion of a username that is taken is refused; the index
\* is only built over a collection without duplicates.
LEMMA IndexStep ==
  ASSUME TypeOK, RequestInv, IndexEnforced, Next
  PROVE  IndexEnforced'
<1> USE DEF IndexEnforced, UniqueUsernames, Arrive, store, input
<1>1. ASSUME NEW q \in Reqs, Incomplete(q) PROVE IndexEnforced'
  BY <1>1, ZenonT(40) DEF Incomplete
<1>2. ASSUME NEW q \in Reqs, BeginRegister(q) PROVE IndexEnforced'
  BY <1>2 DEF BeginRegister
<1>3. ASSUME NEW q \in Reqs, BeginLogin(q) PROVE IndexEnforced'
  BY <1>3 DEF BeginLogin
<1>4. ASSUME NEW q \in Reqs, Lookup(q) PROVE IndexEnforced'
  BY <1>4 DEF Lookup
<1>5. ASSUME NEW q \in Reqs, HashPassword(q) PROVE IndexEnforced'
  BY <1>5 DEF HashPassword
<1>6. ASSUME NEW q \in Reqs, Insert(q) PROVE IndexEnforced'
  <2>1. index' = index
    BY <1>6 DEF Insert
  <2>2. CASE users' = users
    BY <2>1, <2>2
  <2>3. CASE /\ users' = [users EXCEPT ![q] = [body[q] EXCEPT !.password = Hash(q, @)]]
             /\ ~DuplicateKey(q)
    <3>1. users'[q].username = body[q].username
      BY <1>6, <2>3, InsertFacts, NewUser DEF TypeOK
    <3>2. \A i \in Reqs \ {q} : users'[i] = users[i]
      BY <2>3 DEF TypeOK
    <3> QED
      BY <2>1, <2>3, <3>1, <3>2 DEF DuplicateKey
  <2> QED
    BY <1>6, <2>2, <2>3, InsertFacts, Zenon
<1>7. ASSUME NEW q \in Reqs, Find(q) PROVE IndexEnforced'
  BY <1>7 DEF Find
<1>8. ASSUME NEW q \in Reqs, Compare(q) PROVE IndexEnforced'
  BY <1>8 DEF Compare
<1>9. ASSUME NEW q \in Reqs, DbError(q) PROVE IndexEnforced'
  BY <1>9 DEF DbError
<1>10. CASE BuildIndex
  BY <1>10, Zenon DEF BuildIndex
<1>11. CASE Crash
  BY <1>11 DEF Crash
<1>12. CASE Restart
  BY <1>12 DEF Restart
<1>13. CASE Quiescent
  BY <1>13 DEF Quiescent, vars
<1> HIDE DEF IndexEnforced
<1> QED
  BY <1>1, <1>2, <1>3, <1>4, <1>5, <1>6, <1>7, <1>8, <1>9, <1>10, <1>11, <1>12, <1>13,
     Zenon DEF Next, Proceed

\* A login that is refused found no account, or another one, with the email of
\* the registration: the registration's own account is there and has its password.
LEMMA LockoutStep ==
  ASSUME TypeOK, RequestInv, AnsweredInv, BeforeInv, OnlySharedEmailLocksOut, Next
  PROVE  OnlySharedEmailLocksOut'
<1> SUFFICES ASSUME NEW r \in Reqs, NEW l \in Reqs, LockedOut(r, l)'
             PROVE  \E i \in Reqs \ {r} : users'[i] # None /\ users'[i].email = body'[r].email
  BY DEF OnlySharedEmailLocksOut
<1>1. ASSUME NEW i \in Reqs \ {r}, users[i] # None, users[i].email = body'[r].email
      PROVE  \E j \in Reqs \ {r} : users'[j] # None /\ users'[j].email = body'[r].email
  BY <1>1, UsersStep DEF UsersGrow
<1>2. CASE resp[l] = 0
  <2>1. Find(l) \/ Compare(l)
    BY <1>2, NewAnswerStep DEF NewAnswer, LockedOut
  <2>2. UNCHANGED <<kind, body, before, users>>
    BY <2>1 DEF Find, Compare, store, input
  <2>3. resp[r] = 201
    BY <2>2 DEF LockedOut, BeforeInv
  <2>4. /\ users[r] # None /\ users[r].email = body[r].email
        /\ users[r].password[2] = body[r].password
    <3>1. body[r] \in Body /\ users[r] = [body[r] EXCEPT !.password = Hash(r, @)]
      BY <2>3, Zenon DEF AnsweredInv, AnsweredAt, LockedOut
    <3> QED
      BY <3>1, NewUser
  <2>5. body[r].email = body[l].email /\ body[r].password = body[l].password /\ resp'[l] = 400
    BY <2>2 DEF LockedOut
  <2>6. CASE Find(l)
    <3>1. \E i \in Reqs : users[i] # None /\ users[i].email = body[l].email
      BY <2>4, <2>5
    <3>2. resp' = resp
      BY <2>6, <3>1 DEF Find, Goto
    <3> QED
      BY <1>2, <2>5, <3>2
  <2>7. CASE Compare(l)
    <3>1. /\ user[l] \in Reqs /\ users[user[l]] # None
          /\ users[user[l]].email = body[l].email
      BY <2>7 DEF Compare, RequestInv, RequestAt
    <3>2. ~Matches(body[l].password, users[user[l]].password)
      BY <2>5, <2>7 DEF Compare, Answer, TypeOK
    <3>3. user[l] # r
      BY <2>4, <2>5, <3>2 DEF Matches
    <3> QED
      BY <1>1, <2>2, <2>5, <3>1, <3>3
  <2> QED
    BY <2>1, <2>6, <2>7
<1>3. CASE resp[l] # 0
  <2>1. resp'[l] = resp[l] /\ kind'[l] = kind[l] /\ body'[l] = body[l] /\ before'[l] = before[l]
    BY <1>3, FinalStep DEF Final
  <2>2. resp[r] = 201 /\ body'[r] = body[r]
    BY <2>1, FinalStep DEF Final, LockedOut, BeforeInv
  <2>3. LockedOut(r, l)
    BY <2>1, <2>2 DEF LockedOut
  <2> QED
    BY <1>1, <2>2, <2>3 DEF OnlySharedEmailLocksOut
<1> QED
  BY <1>2, <1>3

\* The invariant holds in every reachable state.
THEOREM Invariance == Spec => []IInv
<1>1. Init => IInv
  BY AccountsAssumption DEF Init, IInv, TypeOK, RequestInv, RequestAt, AnsweredInv, AnsweredAt,
     BeforeInv, IndexEnforced, UniqueUsernames, OnlySharedEmailLocksOut, LockedOut, InFlight, DbOps
<1>2. IInv /\ [Next]_vars => IInv'
  <2> SUFFICES ASSUME IInv, [Next]_vars PROVE IInv'
    OBVIOUS
  <2>1. CASE Next
    BY <2>1, TypeStep, RequestStep, AnsweredStep, BeforeStep, IndexStep, LockoutStep DEF IInv
  <2>2. CASE UNCHANGED vars
    BY <2>2 DEF vars, IInv, TypeOK, RequestInv, RequestAt, AnsweredInv, AnsweredAt,
       BeforeInv, IndexEnforced, UniqueUsernames, OnlySharedEmailLocksOut, LockedOut
  <2> QED
    BY <2>1, <2>2
<1> QED
  BY <1>1, <1>2, PTL DEF Spec

\* The collection User holds accounts of register only, each with a hash.
THEOREM TypeCorrect == Spec => []TypeOK
<1>1. IInv => TypeOK
  BY DEF IInv
<1> QED
  BY <1>1, Invariance, PTL

\* Whenever MongoDB has the unique index, whichever requests raced with each other
\* and with the building of the index, no two accounts share a username.
THEOREM UsernamesAreUnique == Spec => []IndexEnforced
<1>1. IInv => IndexEnforced
  BY DEF IInv
<1> QED
  BY <1>1, Invariance, PTL

\* A user who was answered 201 and sends the same email and password to login is
\* only refused when a second account has their email, for any number of requests,
\* database errors and crashes.
THEOREM RegisteredUsersLogIn == Spec => []OnlySharedEmailLocksOut
<1>1. IInv => OnlySharedEmailLocksOut
  BY DEF IInv
<1> QED
  BY <1>1, Invariance, PTL

\* No handler ever changes or removes an account of the collection User.
THEOREM AccountsAreFinal == Spec => [][UsersGrow]_vars
<1>1. IInv /\ [Next]_vars => [UsersGrow]_vars
  BY UsersStep DEF IInv
<1> QED
  BY <1>1, Invariance, PTL DEF Spec
=============================================================================

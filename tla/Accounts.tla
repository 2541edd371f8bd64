------------------------------ MODULE Accounts ------------------------------
(***************************************************************************)
(* POST /register and POST /login (controllers/User.js) on the collection  *)
(* User.  Handlers interleave at their awaits: the lookup, the two calls   *)
(* of bcrypt, the insertion.  Mongoose asks MongoDB for the unique index   *)
(* on username when the process starts, and no request waits for it.       *)
(*                                                                         *)
(* A request is used once; the account that request r inserts has r as its *)
(* _id.  No handler changes or removes an account.                         *)
(***************************************************************************)
EXTENDS Naturals

CONSTANTS
  Reqs,          \* requests, and the _ids of the accounts they insert
  Usernames, Emails, Passwords,
  IndexAtStart,  \* whether MongoDB has the index on username already
  Faults,        \* subset of {"db", "crash"}
  None           \* no account, no body

ASSUME AccountsAssumption ==
  /\ IndexAtStart \in BOOLEAN
  /\ Faults \subseteq {"db", "crash"}

Body        == [username : Usernames, email : Emails, password : Passwords]
Credentials == [email : Emails, password : Passwords]

\* Mutant: the password is stored as it came.
Hash_Plain(r, password) == password

\* What bcrypt makes of a password: a salt of its own for every account.
Hash(r, password)         == <<r, password>>
Matches(password, hashed) == hashed[2] = password
User == [username : Usernames, email : Emails, password : Reqs \X Passwords]

ASSUME NoneAssumption == None \notin Reqs \cup Body \cup Credentials \cup User

VARIABLES
  up,        \* the server process is running
  indexing,  \* this process has not yet had the index built
  index,     \* MongoDB has the unique index on username
  users,     \* the collection User: _id -> account
  pc, kind,
  body,      \* req.body
  user,      \* the _id of the account that login found
  before,    \* history: the registrations answered 201 when a login arrived
  resp       \* the status code, 0 before

vars  == <<up, indexing, index, users, pc, kind, body, user, before, resp>>
store == <<up, indexing, index, users>>
input == <<kind, body, before>>

DbOps    == {"lookup", "insert", "find"}
InFlight == DbOps \cup {"hash", "compare"}

Init ==
  /\ up = TRUE /\ indexing = TRUE /\ index = IndexAtStart
  /\ users  = [i \in Reqs |-> None]
  /\ pc     = [r \in Reqs |-> "idle"]
  /\ kind   = [r \in Reqs |-> "none"]
  /\ body   = [r \in Reqs |-> None]
  /\ user   = [r \in Reqs |-> None]
  /\ before = [r \in Reqs |-> {}]
  /\ resp   = [r \in Reqs |-> 0]

-----------------------------------------------------------------------------
Goto(r, p) == pc' = [pc EXCEPT ![r] = p] /\ UNCHANGED resp

Answer(r, code) ==
  /\ pc'   = [pc EXCEPT ![r] = "done"]
  /\ resp' = [resp EXCEPT ![r] = code]

Arrive(r, op, b) ==
  /\ up /\ pc[r] = "idle"
  /\ kind'   = [kind EXCEPT ![r] = op]
  /\ body'   = [body EXCEPT ![r] = b]
  /\ before' = [before EXCEPT ![r] = {q \in Reqs : resp[q] = 201}]
  /\ UNCHANGED <<store, user>>

\* A field is missing: register answers 400; login finds no account for a
\* missing email (400), and bcrypt rejects a missing password (500).
Incomplete(r) ==
  \/ Arrive(r, "register", None) /\ Answer(r, 400)
  \/ Arrive(r, "login", None) /\ Answer(r, 400)
  \/ Arrive(r, "login", None) /\ Answer(r, 500) /\ \E i \in Reqs : users[i] # None

BeginRegister(r) == \E b \in Body : Arrive(r, "register", b) /\ Goto(r, "lookup")

Taken(r) ==
  {i \in Reqs : users[i] # None /\ (\/ users[i].email = body[r].email
                                    \/ users[i].username = body[r].username)}

Lookup(r) ==
  /\ pc[r] = "lookup"
  /\ IF Taken(r) # {} THEN Answer(r, 400) ELSE Goto(r, "hash")
  /\ UNCHANGED <<store, input, user>>

\* genSalt and hash: the handler waits, and touches no shared state.
HashPassword(r) ==
  /\ pc[r] = "hash"
  /\ Goto(r, "insert")
  /\ UNCHANGED <<store, input, user>>

\* Mutant: the schema declares no unique username.
DuplicateKey_Never(r) == FALSE
DuplicateKey(r) ==
  index /\ \E i \in Reqs : users[i] # None /\ users[i].username = body[r].username

\* newUser.save(): the index refuses a username it has (E11000, answered 500);
\* of an insertion that was executed, the acknowledgement may be lost.
Insert(r) ==
  /\ pc[r] = "insert"
  /\ IF DuplicateKey(r)
     THEN Answer(r, 500) /\ UNCHANGED users
     ELSE /\ users' = [users EXCEPT ![r] = [body[r] EXCEPT !.password = Hash(r, @)]]
          /\ Answer(r, 201) \/ ("db" \in Faults /\ Answer(r, 500))
  /\ UNCHANGED <<up, indexing, index, input, user>>

BeginLogin(r) == \E b \in Credentials : Arrive(r, "login", b) /\ Goto(r, "find")

\* findOne({ email }) returns one of the accounts with this email.
Find(r) ==
  /\ pc[r] = "find"
  /\ LET found == {i \in Reqs : users[i] # None /\ users[i].email = body[r].email}
     IN  \/ found = {} /\ Answer(r, 400) /\ UNCHANGED user
         \/ \E i \in found : user' = [user EXCEPT ![r] = i] /\ Goto(r, "compare")
  /\ UNCHANGED <<store, input>>

Compare(r) ==
  /\ pc[r] = "compare"
  /\ Answer(r, IF Matches(body[r].password, users[user[r]].password) THEN 200 ELSE 400)
  /\ UNCHANGED <<store, input, user>>

\* Mutant: every error is answered like invalid input.
DbError_BadRequest(r) ==
  /\ "db" \in Faults /\ pc[r] \in DbOps
  /\ Answer(r, 400)
  /\ UNCHANGED <<store, input, user>>

\* The database operation fails without effect; the catch block answers.
DbError(r) ==
  /\ "db" \in Faults /\ pc[r] \in DbOps
  /\ Answer(r, 500)
  /\ UNCHANGED <<store, input, user>>

-----------------------------------------------------------------------------
\* No two accounts of the collection User share a username.
UniqueUsernames ==
  \A i, j \in Reqs :
    i # j /\ users[i] # None /\ users[j] # None => users[i].username # users[j].username

\* MongoDB refuses to build the index over duplicates, and Mongoose goes on
\* without it.
BuildIndex ==
  /\ up /\ indexing
  /\ indexing' = FALSE
  /\ index' = (index \/ UniqueUsernames)
  /\ UNCHANGED <<up, users, pc, input, user, resp>>

Crash ==
  /\ "crash" \in Faults /\ up
  /\ up' = FALSE
  /\ pc' = [r \in Reqs |-> IF pc[r] \in InFlight THEN "dropped" ELSE pc[r]]
  /\ UNCHANGED <<indexing, index, users, input, user, resp>>

Restart ==
  /\ ~up
  /\ up' = TRUE /\ indexing' = TRUE
  /\ UNCHANGED <<index, users, pc, input, user, resp>>

Quiescent ==
  /\ \A r \in Reqs : pc[r] \in {"done", "dropped"}
  /\ UNCHANGED vars

Proceed(r) ==
  \/ Lookup(r) \/ HashPassword(r) \/ Insert(r) \/ Find(r) \/ Compare(r) \/ DbError(r)

Next ==
  \/ \E r \in Reqs : Incomplete(r) \/ BeginRegister(r) \/ BeginLogin(r) \/ Proceed(r)
  \/ BuildIndex \/ Crash \/ Restart \/ Quiescent

Spec == Init /\ [][Next]_vars

-----------------------------------------------------------------------------
(* Properties                                                              *)

\* The variables of the process and the collection User stay in their sets; a
\* stored password is a hash of register.
TypeOK ==
  /\ up \in BOOLEAN /\ indexing \in BOOLEAN /\ index \in BOOLEAN
  /\ users  \in [Reqs -> User \cup {None}]
  /\ pc     \in [Reqs -> InFlight \cup {"idle", "done", "dropped"}]
  /\ kind   \in [Reqs -> {"none", "register", "login"}]
  /\ body   \in [Reqs -> Body \cup Credentials \cup {None}]
  /\ user   \in [Reqs -> Reqs \cup {None}]
  /\ before \in [Reqs -> SUBSET Reqs]
  /\ resp   \in [Reqs -> {0, 200, 201, 400, 500}]

\* Once MongoDB has the index, no two accounts share a username, although two
\* registrations may both have passed the lookup of register.
IndexEnforced == index => UniqueUsernames

\* Login l carries the email and the password of registration r, which had been
\* answered 201 before l arrived, and l is told "Invalid email or password".
LockedOut(r, l) ==
  /\ kind[l] = "login" /\ resp[l] = 400
  /\ body[l] # None /\ r \in before[l]
  /\ body[r].email = body[l].email /\ body[r].password = body[l].password

\* Who was answered 201 by register can log in.
RegisteredCanLogin == \A r, l \in Reqs : ~LockedOut(r, l)

\* Faults and crashes never lock a registered user out: only a second account
\* with the same email does.
OnlySharedEmailLocksOut ==
  \A r, l \in Reqs : LockedOut(r, l)
    => \E i \in Reqs \ {r} : users[i] # None /\ users[i].email = body[r].email
=============================================================================

--------------------------- MODULE RedisKeyspace ---------------------------
(***************************************************************************)
(* The command loop of the vendored Redis server (redis-6.0.10/src): keys  *)
(* with an expire, lists, clients blocked on lists, transactions with      *)
(* WATCH, and the stream of effects that AOF and replicas receive.         *)
(*                                                                         *)
(* Redis runs one command to its end before the next one, so one action is *)
(* one processCommand(), including the clients it unblocks.  A command is  *)
(* a function from the server's state record to the next, as EXEC runs     *)
(* several in a row.  Every client uses database 0; "other" is database 1, *)
(* reached with MOVE and SWAPDB.  Elements are the numbers in which they   *)
(* were pushed; SORT stores blank elements (GET of a pattern no key has).  *)
(***************************************************************************)
EXTENDS Integers, Sequences, FiniteSets, SequencesExt, FiniteSetsExt

CONSTANTS
  Clients,    \* connections
  Keys,       \* key names
  Workloads,  \* what is tried: the commands clients send, those they send
              \* inside MULTI, how many in all, and from how many clients
  Ttls,       \* arguments of EXPIRE and timeouts of blocking commands (0: none)
  MaxPushes,  \* bound: elements pushed
  MaxQueue,   \* bound: commands queued in a transaction
  MaxTime,    \* bound: the clock
  NoKey       \* no destination key

VARIABLES
  load,   \* the workload
  srv,    \* the server, a record:
          \*   db, other: the databases; blocking: clients by key, in order;
          \*   ready: keys to serve; cl: the clients; rep: the dataset of a
          \*   replica; repTx: the transaction it is receiving;
          \*   in, got, gone: history, the elements accepted, how often each
          \*   was handed out, and those some command or expiry discarded
  now,    \* mstime()
  pushes, \* elements numbered so far
  cmds    \* commands processed so far

keyspaceVars == <<load, srv, now, pushes, cmds>>

-----------------------------------------------------------------------------
(* Values and clients. *)

NoTime == -1
Blank == 0
NoObj == [t |-> "none", v |-> <<>>, exp |-> NoTime]
ListObj(seq, e) == [t |-> "list", v |-> seq, exp |-> e]
Exists(o) == o.t # "none"
EmptyDb == [k \in Keys |-> NoObj]
StringObj == [t |-> "string", v |-> <<>>, exp |-> NoTime]

NewClient ==
  [multi |-> FALSE, queue |-> <<>>, cas |-> FALSE, err |-> FALSE,
   watch |-> {}, snap |-> [k \in Keys |-> NoObj],
   keys |-> {}, target |-> NoKey, where |-> "tail", timeout |-> 0,
   reply |-> <<>>]

Blocked(s, c) == s.cl[c].keys # {}

(* The elements of a value, without the blanks of SORT. *)
Elems(o) == ToSet(o.v) \ {Blank}
Stored(d) == UNION {Elems(d[k]) : k \in Keys}

-----------------------------------------------------------------------------
(* What a propagated command does to a dataset: the command's code run by  *)
(* a replica or by the AOF loader, which expire nothing themselves.        *)

Pushed(seq, e, where) == IF where = "head" THEN <<e>> \o seq ELSE Append(seq, e)
Popped(seq, where) == IF where = "head" THEN Tail(seq) ELSE Front(seq)
PopElem(seq, where) == IF where = "head" THEN Head(seq) ELSE Last(seq)
Shrunk(o, seq) == IF seq = <<>> THEN NoObj ELSE [o EXCEPT !.v = seq]

PushEffect(d, k, e, where) ==
  [d EXCEPT ![k] = IF Exists(@) THEN [@ EXCEPT !.v = Pushed(@, e, where)]
                   ELSE ListObj(<<e>>, NoTime)]

PopEffect(d, k, where) == [d EXCEPT ![k] = Shrunk(@, Popped(@.v, where))]

MoveEffect(d, src, dst) ==
  LET e == Last(d[src].v)
      out == [d EXCEPT ![src].v = Front(@)]
      in == PushEffect(out, dst, e, "head")
  IN [in EXCEPT ![src] = Shrunk(@, @.v)]

IsList(o) == o.t = "list"
NotOther(o) == o.t \in {"none", "list"}

(* r is [db, other]: the two databases of a dataset. *)
Effect(r, q) ==
  LET d == r.db IN
  CASE q.op = "push" /\ NotOther(d[q.k]) ->
         [r EXCEPT !.db = PushEffect(d, q.k, q.e, q.where)]
    [] q.op = "pop" /\ IsList(d[q.k]) ->
         [r EXCEPT !.db = PopEffect(d, q.k, q.where)]
    [] q.op = "rpoplpush" /\ IsList(d[q.k]) /\ NotOther(d[q.k2]) ->
         [r EXCEPT !.db = MoveEffect(d, q.k, q.k2)]
    [] q.op = "del" -> [r EXCEPT !.db[q.k] = NoObj]
    [] q.op = "delother" -> [r EXCEPT !.other[q.k] = NoObj]
    [] q.op = "flushall" -> [db |-> EmptyDb, other |-> EmptyDb]
    [] q.op = "set" -> [r EXCEPT !.db[q.k] = StringObj]
    [] q.op = "expire" /\ Exists(d[q.k]) -> [r EXCEPT !.db[q.k].exp = now + q.ttl]
    [] q.op = "rename" /\ Exists(d[q.k]) /\ q.k # q.k2 ->
         [r EXCEPT !.db = [d EXCEPT ![q.k2] = d[q.k], ![q.k] = NoObj]]
    [] q.op = "move" /\ Exists(d[q.k]) /\ ~Exists(r.other[q.k]) ->
         [db |-> [d EXCEPT ![q.k] = NoObj], other |-> [r.other EXCEPT ![q.k] = d[q.k]]]
    [] q.op = "swapdb" -> [db |-> r.other, other |-> d]
    [] q.op = "sort" /\ NotOther(d[q.k]) ->
         [r EXCEPT !.db[q.k2] =
            IF d[q.k].v = <<>> THEN NoObj
            ELSE ListObj([i \in 1..Len(d[q.k].v) |-> Blank], NoTime)]
    [] OTHER -> r

(* propagate(): the replica runs the command, or queues it inside MULTI.   *)
Propagate(s, q) ==
  IF q.op = "multi" THEN [s EXCEPT !.repTx = <<q>>]
  ELSE IF q.op = "exec"
       THEN [s EXCEPT !.rep = FoldLeft(Effect, @, s.repTx), !.repTx = <<>>]
  ELSE IF s.repTx # <<>> THEN [s EXCEPT !.repTx = Append(@, q)]
  ELSE [s EXCEPT !.rep = Effect(@, q)]

-----------------------------------------------------------------------------
(* The keyspace: db.c, expire.c, multi.c, the ready keys of blocked.c.     *)

touchWatchedKey(s, k) ==
  [s EXCEPT !.cl = [c \in Clients |->
     IF k \in @[c].watch THEN [@[c] EXCEPT !.cas = TRUE] ELSE @[c]]]

signalModifiedKey(s, k) == touchWatchedKey(s, k)

signalKeyAsReady(s, k) ==
  IF s.blocking[k] = <<>> \/ k \in ToSet(s.ready) THEN s
  ELSE [s EXCEPT !.ready = Append(@, k)]

dbAdd(s, k, o) ==
  LET added == [s EXCEPT !.db[k] = o]
  IN IF IsList(o) THEN signalKeyAsReady(added, k) ELSE added

dbDelete(s, k) == [s EXCEPT !.db[k] = NoObj, !.gone = @ \union Elems(s.db[k])]

keyIsExpired(o) == o.exp # NoTime /\ now > o.exp

DelCmd(k) == [op |-> "del", k |-> k]

\* Mutant: an expired key is deleted without signalModifiedKey().
expireIfNeeded_Silent(s, k) ==
  IF keyIsExpired(s.db[k]) THEN dbDelete(Propagate(s, DelCmd(k)), k) ELSE s

\* Mutant: an expired key is deleted without propagateExpire().
expireIfNeeded_NotPropagated(s, k) ==
  IF keyIsExpired(s.db[k]) THEN signalModifiedKey(dbDelete(s, k), k) ELSE s

expireIfNeeded(s, k) ==
  IF keyIsExpired(s.db[k])
  THEN signalModifiedKey(dbDelete(Propagate(s, DelCmd(k)), k), k)
  ELSE s

lookupKeyWrite(s, k) == expireIfNeeded(s, k)

setKey(s, k, o) ==
  LET s1 == lookupKeyWrite(s, k)
      s2 == IF Exists(s1.db[k]) THEN [dbDelete(s1, k) EXCEPT !.db[k] = o]
            ELSE dbAdd(s1, k, o)
  IN signalModifiedKey(s2, k)

unwatchAllKeys(s, c) == [s EXCEPT !.cl[c] = [@ EXCEPT !.watch = {}, !.snap = EmptyDb]]

discardTransaction(s, c) ==
  unwatchAllKeys([s EXCEPT !.cl[c] = [@ EXCEPT !.multi = FALSE, !.queue = <<>>,
                                               !.cas = FALSE, !.err = FALSE]], c)

-----------------------------------------------------------------------------
(* Blocking: blocked.c.  A client is listed under every key it waits for.  *)

\* Mutant: listAddNodeHead() in place of listAddNodeTail().
blockForKeys_AtHead(s, c, ks, q, target) ==
  [s EXCEPT !.blocking = [k \in Keys |-> IF k \in ks THEN <<c>> \o @[k] ELSE @[k]],
            !.cl[c] = [@ EXCEPT !.keys = ks, !.target = target, !.where = q.where,
                                !.timeout = IF q.ttl = 0 THEN 0 ELSE now + q.ttl,
                                !.reply = <<>>]]

blockForKeys(s, c, ks, q, target) ==
  [s EXCEPT !.blocking = [k \in Keys |-> IF k \in ks THEN Append(@[k], c) ELSE @[k]],
            !.cl[c] = [@ EXCEPT !.keys = ks, !.target = target, !.where = q.where,
                                !.timeout = IF q.ttl = 0 THEN 0 ELSE now + q.ttl,
                                !.reply = <<>>]]

unblockClient(s, c) ==
  [s EXCEPT !.blocking = [k \in Keys |-> SelectSeq(@[k], LAMBDA d : d # c)],
            !.cl[c] = [@ EXCEPT !.keys = {}, !.target = NoKey, !.timeout = 0]]

(* A reply: <<key, element>> for a pop, <<key>> for a pop-and-push. *)
Reply(s, c, r) == [s EXCEPT !.cl[c].reply = r]
Hand(s, c, k, e) ==
  [Reply(s, c, <<k, e>>) EXCEPT !.got = [x \in DOMAIN @ |-> IF x = e THEN @[x] + 1 ELSE @[x]]]

rpoplpushHandlePush(s, dst, e) ==
  LET s1 == IF Exists(s.db[dst]) THEN s ELSE dbAdd(s, dst, ListObj(<<>>, NoTime))
      s2 == signalModifiedKey(s1, dst)
  IN [s2 EXCEPT !.db[dst].v = Pushed(@, e, "head")]

\* Mutant: serveClientsBlockedOnListKey() does not undo the pop after an error.
serveClientBlockedOnList_NoUndo(s, c, k, dst, e, where) ==
  IF dst = NoKey
  THEN Hand(Propagate(s, [op |-> "pop", k |-> k, where |-> where]), c, k, e)
  ELSE LET s1 == lookupKeyWrite(s, dst)
       IN IF NotOther(s1.db[dst])
          THEN Propagate(Reply(rpoplpushHandlePush(s1, dst, e), c, <<k>>),
                         [op |-> "rpoplpush", k |-> k, k2 |-> dst])
          ELSE Reply(s1, c, <<k>>)

(* Serve the first client blocked on k with element e, popped already.     *)
serveClientBlockedOnList(s, c, k, dst, e, where) ==
  IF dst = NoKey
  THEN Hand(Propagate(s, [op |-> "pop", k |-> k, where |-> where]), c, k, e)
  ELSE LET s1 == lookupKeyWrite(s, dst)
       IN IF NotOther(s1.db[dst])
          THEN Propagate(Reply(rpoplpushHandlePush(s1, dst, e), c, <<k>>),
                         [op |-> "rpoplpush", k |-> k, k2 |-> dst])
          ELSE [Reply(s1, c, <<k>>) EXCEPT !.db[k].v = Pushed(@, e, where)]

RECURSIVE serveClients(_, _, _)
serveClients(s, k, numclients) ==
  IF numclients = 0 \/ s.db[k].v = <<>> THEN s
  ELSE LET c == Head(s.blocking[k])
           r == s.cl[c]
           e == PopElem(s.db[k].v, r.where)
           s1 == unblockClient([s EXCEPT !.db[k].v = Popped(@, r.where)], c)
       IN serveClients(serveClientBlockedOnList(s1, c, k, r.target, e, r.where),
                       k, numclients - 1)

\* Mutant: a list that is served to its last element stays behind empty.
serveClientsBlockedOnListKey_KeepsEmpty(s, k) == serveClients(s, k, Len(s.blocking[k]))

serveClientsBlockedOnListKey(s, k) ==
  LET s1 == serveClients(s, k, Len(s.blocking[k]))
  IN IF s1.db[k].v = <<>> THEN dbDelete(s1, k) ELSE s1

RECURSIVE handleClientsBlockedOnKeys(_)
handleClientsBlockedOnKeys(s) ==
  IF s.ready = <<>> THEN s
  ELSE LET k == Head(s.ready)
           s1 == lookupKeyWrite([s EXCEPT !.ready = Tail(@)], k)
       IN handleClientsBlockedOnKeys(
            IF IsList(s1.db[k]) THEN serveClientsBlockedOnListKey(s1, k) ELSE s1)

-----------------------------------------------------------------------------
(* Commands.  Each takes the state, the client and the request, and gives  *)
(* the state after the command; "dirty" ones propagate themselves.         *)

(* The replicated part of a command that changed the dataset. *)
Apply(s, q) ==
  LET r == Effect([db |-> s.db, other |-> s.other], q)
  IN [s EXCEPT !.db = r.db, !.other = r.other]

pushGenericCommand(s, c, q) ==
  LET s1 == lookupKeyWrite(s, q.k)
      s2 == IF IsList(s1.db[q.k]) THEN s1 ELSE dbAdd(s1, q.k, ListObj(<<>>, NoTime))
  IN IF s1.db[q.k].t = "string" THEN s1
     ELSE Propagate(signalModifiedKey([Apply(s2, q) EXCEPT !.in = @ \union {q.e}], q.k), q)

popGenericCommand(s, c, q) ==
  LET s1 == lookupKeyWrite(s, q.k)
  IN IF ~IsList(s1.db[q.k]) THEN s1
     ELSE Propagate(signalModifiedKey(
            Apply(Hand(s1, c, q.k, PopElem(s1.db[q.k].v, q.where)), q), q.k), q)

rpoplpushCommand(s, c, q) ==
  LET s1 == lookupKeyWrite(s, q.k)
      s2 == lookupKeyWrite(s1, q.k2)
      e == Last(s2.db[q.k].v)
      s3 == rpoplpushHandlePush([s2 EXCEPT !.db[q.k].v = Front(@)], q.k2, e)
      s4 == [s3 EXCEPT !.db[q.k] = Shrunk(@, @.v)]
  IN IF ~IsList(s1.db[q.k]) THEN s1
     ELSE IF ~NotOther(s2.db[q.k2]) THEN s2
     ELSE Propagate(signalModifiedKey(Reply(s4, c, <<q.k>>), q.k),
                    [q EXCEPT !.op = "rpoplpush"])

(* BLPOP, BRPOP: pop from the first key that holds a list, else block.  An *)
(* empty list in a transaction is answered at once.                        *)
RECURSIVE blockingPop(_, _, _, _)
blockingPop(s, c, q, ks) ==
  IF ks = <<>>
  THEN IF s.cl[c].multi THEN Reply(s, c, <<>>)
       ELSE blockForKeys(s, c, ToSet(q.ks), q, NoKey)
  ELSE LET s1 == lookupKeyWrite(s, Head(ks)) IN
       CASE s1.db[Head(ks)].t = "string" -> s1
         [] IsList(s1.db[Head(ks)]) ->
              popGenericCommand(s1, c, [op |-> "pop", k |-> Head(ks), where |-> q.where])
         [] OTHER -> blockingPop(s1, c, q, Tail(ks))

blockingPopGenericCommand(s, c, q) == blockingPop(s, c, q, q.ks)

brpoplpushCommand(s, c, q) ==
  LET s1 == lookupKeyWrite(s, q.k) IN
  CASE ~Exists(s1.db[q.k]) /\ s1.cl[c].multi -> s1
    [] ~Exists(s1.db[q.k]) /\ ~s1.cl[c].multi -> blockForKeys(s1, c, {q.k}, q, q.k2)
    [] s1.db[q.k].t = "string" -> s1
    [] OTHER -> rpoplpushCommand(s1, c, q)

delGenericCommand(s, c, q) ==
  LET s1 == expireIfNeeded(s, q.k)
  IN IF ~Exists(s1.db[q.k]) THEN s1
     ELSE Propagate(signalModifiedKey(dbDelete(s1, q.k), q.k), q)

setGenericCommand(s, c, q) ==
  Propagate(setKey(s, q.k, StringObj), q)

(* EXPIRE with a time that has passed already deletes the key.             *)
expireGenericCommand(s, c, q) ==
  LET s1 == lookupKeyWrite(s, q.k) IN
  CASE ~Exists(s1.db[q.k]) -> s1
    [] Exists(s1.db[q.k]) /\ now + q.ttl <= now ->
         Propagate(signalModifiedKey(dbDelete(s1, q.k), q.k), DelCmd(q.k))
    [] OTHER -> Propagate(signalModifiedKey([s1 EXCEPT !.db[q.k].exp = now + q.ttl], q.k), q)

renameGenericCommand(s, c, q) ==
  LET s1 == lookupKeyWrite(s, q.k)
      s2 == lookupKeyWrite(s1, q.k2)
      s3 == [dbAdd(dbDelete(s2, q.k2), q.k2, s2.db[q.k]) EXCEPT !.db[q.k] = NoObj]
  IN IF ~Exists(s1.db[q.k]) \/ q.k = q.k2 THEN s1
     ELSE Propagate(signalModifiedKey(signalModifiedKey(s3, q.k), q.k2), q)

(* MOVE k 1. *)
expireOther(s, k) ==
  IF keyIsExpired(s.other[k])
  THEN Propagate([s EXCEPT !.other[k] = NoObj, !.gone = @ \union Elems(s.other[k])],
                 [op |-> "delother", k |-> k])
  ELSE s

moveCommand(s, c, q) ==
  LET s1 == lookupKeyWrite(s, q.k)
      s2 == expireOther(s1, q.k)
  IN IF ~Exists(s1.db[q.k]) THEN s1
     ELSE IF Exists(s2.other[q.k]) THEN s2
     ELSE Propagate(signalModifiedKey(Apply(s2, q), q.k), q)

(* dbSwapDatabases(): blocked and watching clients stay with database 0,   *)
(* so the lists that appear wake them and the keys that change touch them. *)
touchAllWatchedKeys(s) ==
  FoldLeft(LAMBDA t, k : IF Exists(s.db[k]) \/ Exists(s.other[k])
                         THEN touchWatchedKey(t, k) ELSE t, s, SetToSeq(Keys))

\* Mutant: SWAPDB does not look for blocked clients.
scanDatabaseForReadyLists_None(s) == s

scanDatabaseForReadyLists(s) ==
  FoldLeft(LAMBDA t, k : IF IsList(s.db[k]) THEN signalKeyAsReady(t, k) ELSE t,
           s, SetToSeq(Keys))

swapdbCommand(s, c, q) ==
  Propagate(touchAllWatchedKeys(scanDatabaseForReadyLists(Apply(s, q))), q)

(* SORT k GET nosuch* STORE k2. *)
sortCommand(s, c, q) ==
  LET s1 == lookupKeyWrite(s, q.k)
      o == ListObj([i \in 1..Len(s1.db[q.k].v) |-> Blank], NoTime)
  IN IF ~NotOther(s1.db[q.k]) THEN s1
     ELSE IF o.v # <<>> THEN Propagate(setKey(s1, q.k2, o), q)
     ELSE IF Exists(s1.db[q.k2])
          THEN Propagate(signalModifiedKey(dbDelete(s1, q.k2), q.k2), q)
     ELSE s1

(* FLUSHALL: signalFlushedDb() runs before the databases are emptied.      *)
flushallCommand(s, c, q) ==
  LET s1 == FoldLeft(LAMBDA t, k : IF Exists(s.db[k]) THEN touchWatchedKey(t, k) ELSE t,
                     s, SetToSeq(Keys))
  IN Propagate([Apply(s1, q) EXCEPT !.gone = @ \union Stored(s.db) \union Stored(s.other)], q)

(* EXISTS, a read: it expires the key it looks at. *)
existsCommand(s, c, q) == expireIfNeeded(s, q.k)

Call(s, c, q) ==
  CASE q.op = "push"       -> pushGenericCommand(s, c, q)
    [] q.op = "pop"        -> popGenericCommand(s, c, q)
    [] q.op = "rpoplpush"  -> rpoplpushCommand(s, c, q)
    [] q.op = "bpop"       -> blockingPopGenericCommand(s, c, q)
    [] q.op = "brpoplpush" -> brpoplpushCommand(s, c, q)
    [] q.op = "del"        -> delGenericCommand(s, c, q)
    [] q.op = "set"        -> setGenericCommand(s, c, q)
    [] q.op = "expire"     -> expireGenericCommand(s, c, q)
    [] q.op = "rename"     -> renameGenericCommand(s, c, q)
    [] q.op = "move"       -> moveCommand(s, c, q)
    [] q.op = "swapdb"     -> swapdbCommand(s, c, q)
    [] q.op = "sort"       -> sortCommand(s, c, q)
    [] q.op = "flushall"   -> flushallCommand(s, c, q)
    [] q.op = "exists"     -> existsCommand(s, c, q)

ReadOnly == {"exists"}

(* EXEC: the queued commands, between MULTI and EXEC in the propagated     *)
(* stream from the first one that may write.                               *)
ExecQueued(s, c) ==
  LET step(acc, q) ==
        LET open == ~acc.prop /\ q.op \notin ReadOnly
            s1 == IF open THEN Propagate(acc.s, [op |-> "multi"]) ELSE acc.s
        IN [s |-> Call(s1, c, q), prop |-> acc.prop \/ open]
      end == FoldLeft(step, [s |-> unwatchAllKeys(s, c), prop |-> FALSE], s.cl[c].queue)
      s2 == discardTransaction(end.s, c)
  IN IF end.prop THEN Propagate(s2, [op |-> "exec"]) ELSE s2

execCommand(s, c) ==
  IF s.cl[c].cas \/ s.cl[c].err THEN discardTransaction(s, c) ELSE ExecQueued(s, c)

watchCommand(s, c, k) ==
  IF k \in s.cl[c].watch THEN s
  ELSE [s EXCEPT !.cl[c] = [@ EXCEPT !.watch = @ \union {k}, !.snap[k] = s.db[k]]]

unwatchCommand(s, c) == [unwatchAllKeys(s, c) EXCEPT !.cl[c].cas = FALSE]

-----------------------------------------------------------------------------
(* What clients send. *)

Ends == {"head", "tail"}

Requests ==
         [op : {"pop"}, k : Keys, where : Ends]
  \union [op : {"rpoplpush"}, k : Keys, k2 : Keys]
  \union [op : {"bpop"}, ks : SetToAllKPermutations(Keys) \ {<<>>}, where : Ends, ttl : Ttls]
  \union [op : {"brpoplpush"}, k : Keys, k2 : Keys, where : {"tail"}, ttl : Ttls]
  \union [op : {"del", "set", "exists", "move"}, k : Keys]
  \union [op : {"expire"}, k : Keys, ttl : Ttls]
  \union [op : {"rename", "sort"}, k : Keys, k2 : Keys]
  \union [op : {"swapdb", "flushall"}]

Pushes == [op : {"push"}, k : Keys, e : {pushes + 1} \intersect 1..MaxPushes, where : Ends]

Reqs(ops) == {q \in Requests \union Pushes : q.op \in ops}

Sends(c) ==
  /\ ~Blocked(srv, c)
  /\ Cardinality({d \in Clients : srv.cl[d] # NewClient} \union {c}) <= load.clients
  /\ cmds < load.cmds /\ cmds' = cmds + 1 /\ UNCHANGED load
Numbered(q) == pushes' = pushes + (IF q.op = "push" THEN 1 ELSE 0)

-----------------------------------------------------------------------------
(* Actions. *)

KeyspaceInit ==
  /\ load \in Workloads
  /\ srv = [db |-> EmptyDb, other |-> EmptyDb, blocking |-> [k \in Keys |-> <<>>],
            ready |-> <<>>, cl |-> [c \in Clients |-> NewClient],
            rep |-> [db |-> EmptyDb, other |-> EmptyDb], repTx |-> <<>>,
            in |-> {}, got |-> [e \in 1..MaxPushes |-> 0], gone |-> {}]
  /\ now = 0 /\ pushes = 0 /\ cmds = 0

(* processCommand() outside MULTI: run it, then serve who waits for it.    *)
ProcessCommand(c) ==
  /\ Sends(c)
  /\ ~srv.cl[c].multi
  /\ \E q \in Reqs(load.ops) :
       /\ srv' = handleClientsBlockedOnKeys(Call(Reply(srv, c, <<>>), c, q))
       /\ Numbered(q)
  /\ UNCHANGED now

(* queueMultiCommand(): a transaction that will fail anyway queues nothing. *)
Queue(c) ==
  /\ Sends(c)
  /\ srv.cl[c].multi
  /\ Len(srv.cl[c].queue) < MaxQueue
  /\ \E q \in Reqs(load.queue) :
       /\ srv' = IF srv.cl[c].err THEN srv ELSE [srv EXCEPT !.cl[c].queue = Append(@, q)]
       /\ Numbered(q)
  /\ UNCHANGED now

(* A command processCommand() rejects: flagTransaction().                  *)
Rejected(c) ==
  /\ Sends(c)
  /\ srv.cl[c].multi
  /\ srv' = [srv EXCEPT !.cl[c].err = TRUE]
  /\ UNCHANGED <<now, pushes>>

Multi(c) ==
  /\ "multi" \in load.ops
  /\ Sends(c)
  /\ ~srv.cl[c].multi
  /\ srv' = [srv EXCEPT !.cl[c].multi = TRUE]
  /\ UNCHANGED <<now, pushes>>

Exec(c) ==
  /\ Sends(c)
  /\ srv.cl[c].multi
  /\ srv' = handleClientsBlockedOnKeys(execCommand(srv, c))
  /\ UNCHANGED <<now, pushes>>

Discard(c) ==
  /\ Sends(c)
  /\ srv.cl[c].multi
  /\ srv' = discardTransaction(srv, c)
  /\ UNCHANGED <<now, pushes>>

Watch(c) ==
  /\ "watch" \in load.ops
  /\ Sends(c)
  /\ ~srv.cl[c].multi
  /\ \E k \in Keys : srv' = watchCommand(srv, c, k)
  /\ UNCHANGED <<now, pushes>>

Unwatch(c) ==
  /\ "watch" \in load.ops
  /\ Sends(c)
  /\ ~srv.cl[c].multi
  /\ srv' = unwatchCommand(srv, c)
  /\ UNCHANGED <<now, pushes>>

(* freeClient(): the connection closes; the client may connect again.      *)
Disconnect(c) ==
  /\ "disconnect" \in load.ops
  /\ srv.cl[c] # NewClient
  /\ cmds < load.cmds
  /\ cmds' = cmds + 1
  /\ srv' = [unblockClient(srv, c) EXCEPT !.cl[c] = NewClient]
  /\ UNCHANGED <<load, now, pushes>>

(* handleBlockedClientsTimeout(), from beforeSleep(). *)
TimedOut == {c \in Clients : Blocked(srv, c) /\ srv.cl[c].timeout \in 1..(now - 1)}

HandleTimeouts ==
  /\ TimedOut # {}
  /\ srv' = FoldSet(LAMBDA c, s : Reply(unblockClient(s, c), c, <<>>), srv, TimedOut)
  /\ UNCHANGED <<load, now, pushes, cmds>>

(* activeExpireCycle(): deletes the expired keys it happens to sample.     *)
activeExpireCycle ==
  /\ \E K \in SUBSET {k \in Keys : keyIsExpired(srv.db[k])} :
       /\ K # {}
       /\ srv' = FoldSet(LAMBDA k, s : expireIfNeeded(s, k), srv, K)
  /\ UNCHANGED <<load, now, pushes, cmds>>

(* Time is relative: it only passes while something is due. *)
Due == {srv.cl[c].timeout : c \in Clients} \union {srv.db[k].exp : k \in Keys}
         \union {srv.other[k].exp : k \in Keys}

ClockTicks ==
  /\ now < MaxTime
  /\ \E t \in Due \ {0, NoTime} : t >= now
  /\ now' = now + 1
  /\ UNCHANGED <<load, srv, pushes, cmds>>

KeyspaceNext ==
  \/ \E c \in Clients :
       \/ ProcessCommand(c) \/ Queue(c) \/ Rejected(c)
       \/ Multi(c) \/ Exec(c) \/ Discard(c)
       \/ Watch(c) \/ Unwatch(c) \/ Disconnect(c)
  \/ HandleTimeouts
  \/ activeExpireCycle
  \/ ClockTicks

KeyspaceSpec == KeyspaceInit /\ [][KeyspaceNext]_keyspaceVars

-----------------------------------------------------------------------------
(* Properties. *)

Objects == [t : {"none", "list", "string"}, v : Seq(0..MaxPushes), exp : -1..(2 * MaxTime)]

(* The server's state has its types, between commands no key is still to   *)
(* be served, and the lists of waiting clients mirror what each waits for. *)
KeyspaceTypeOK ==
  /\ \A d \in {srv.db, srv.other, srv.rep.db, srv.rep.other} : d \in [Keys -> Objects]
  /\ \A k \in Keys : /\ srv.db[k].t = "list" <=> srv.db[k].v # <<>>
                      /\ IsInjective(srv.blocking[k])
                      /\ ToSet(srv.blocking[k]) = {c \in Clients : k \in srv.cl[c].keys}
  /\ srv.ready = <<>> /\ srv.repTx = <<>>
  /\ now \in 0..MaxTime /\ pushes \in 0..MaxPushes /\ cmds \in 0..load.cmds

(* A transaction that EXEC will not refuse finds every key it watches as   *)
(* the key was at WATCH: whatever changed a key in between, a command, the *)
(* service of a blocked client, SWAPDB, FLUSHALL or an expire, has set     *)
(* CLIENT_DIRTY_CAS.                                                       *)
WatchIsIsolation ==
  \A c \in Clients : ~srv.cl[c].cas =>
    \A k \in srv.cl[c].watch : srv.db[k] = srv.cl[c].snap[k]

Copies(e) ==
  srv.got[e] + FoldSet(LAMBDA k, n : n + Cardinality({i \in DOMAIN srv.db[k].v : srv.db[k].v[i] = e})
                         + Cardinality({i \in DOMAIN srv.other[k].v : srv.other[k].v[i] = e}),
                       0, Keys)

(* Every element a push accepted is, until DEL, FLUSHALL, an overwrite or  *)
(* an expire discards it, either in exactly one list or was handed to      *)
(* exactly one client, however pops, BRPOPLPUSH chains, failed services,   *)
(* transactions and disconnections interleave.                             *)
NoElementLostOrDoubled ==
  \A e \in 1..MaxPushes : Copies(e) = IF e \in srv.in \ srv.gone THEN 1 ELSE 0

(* A replica, or the AOF, that runs what the server propagates has the     *)
(* server's dataset after every command: service of blocked clients is     *)
(* replayed as pops, expires as DEL, and a transaction as one unit.        *)
ReplicaInSync == srv.rep = [db |-> srv.db, other |-> srv.other]

(* Between commands no client waits for a key that holds a list, except a  *)
(* list that SORT STORE put over a value of another type: dbOverwrite()    *)
(* signals no key as ready.                                                *)
NoLostWakeup ==
  \A k \in Keys : srv.blocking[k] # <<>> /\ IsList(srv.db[k]) => Blank \in ToSet(srv.db[k].v)

Before(s, c, d) == \E i, j \in DOMAIN s : i < j /\ s[i] = c /\ s[j] = d

(* Clients waiting for one key are served in the order they blocked: one   *)
(* that gets an element of k leaves no earlier one of k waiting, and those *)
(* that go on waiting keep their places, ahead of any newcomer.            *)
ServedInOrder ==
  [][\A k \in Keys, c, d \in Clients :
       /\ /\ Before(srv.blocking[k], c, d)
          /\ srv'.cl[d].reply # <<>> /\ srv'.cl[d].reply[1] = k
          => k \notin srv'.cl[c].keys
       /\ Before(srv'.blocking[k], c, d) /\ k \in srv.cl[d].keys
          => Before(srv.blocking[k], c, d)]_keyspaceVars

=============================================================================

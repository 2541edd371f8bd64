-------------------------- MODULE RedisReplication --------------------------
(***************************************************************************)
(* Replication between vendored Redis servers (replication.c, with         *)
(* commandProcessed() and freeClient() of networking.c and the replication *)
(* data of an RDB file, rdb.c): PSYNC with its two replication IDs, the    *)
(* backlog, full resynchronisation through a background save, chained      *)
(* replicas, REPLICAOF at any moment, lost links, restarts from the RDB    *)
(* file.  Default configuration: RDB through the disk on both ends, backlog*)
(* time to live on, read-only replicas, no AOF: the RDB child is the only  *)
(* one, so replicationCron() never finds a save that is still to start.    *)
(*                                                                         *)
(* Offsets count commands of the stream instead of bytes: a client's       *)
(* reploff only ever stands between two commands.  A dataset is the        *)
(* sequence of the writes that built it, each with the database it went to.*)
(***************************************************************************)
EXTENDS Integers, Sequences, FiniteSets, SequencesExt, FiniteSetsExt

CONSTANTS
  Nodes,          \* servers
  BacklogSize,    \* repl-backlog-size, in commands
  None,           \* NULL
  Scenarios       \* the state to start from, and bounds: how many commands masters put on their streams,
                  \* connections there are, REPLICAOF commands and failures,
                  \* which kinds of failures, and the databases written to

VARIABLES
  node,      \* the server structure of each node, see NewNode
  conns,     \* every connection from a replica to its master, see NewConn
  scenario,  \* the bounds of this behaviour
  streamed, roles, failures   \* counters for the bounds

replVars == <<node, conns, scenario, streamed, roles, failures>>

Unselected == -1

\* replid: the k-th random ID drawn by node n.
FreshId(n, k) == <<n, k>>

NewNode(n) ==
  [masterhost |-> None, state |-> "none",
   data |-> <<>>,
   replid |-> FreshId(n, 1), drawn |-> 1, off |-> 0,     \* off: master_repl_offset
   replid2 |-> None, second |-> -1,
   backlog |-> None, seldb |-> Unselected,
   master |-> None, cached |-> None,      \* [id, off, db] of a master client
   conn |-> 0,                            \* repl_transfer_s, later the master's link
   child |-> None, disk |-> None]         \* RDB: being saved, and dump.rdb

NewConn(r, m, request) ==
  [from |-> r, to |-> m, req |-> request,
   rside |-> TRUE, mside |-> TRUE,        \* the end is open
   state |-> "client",                    \* replstate once it is a slave
   initial |-> 0, reply |-> None,
   rdb |-> None, out |-> <<>>]

Select(d) == [t |-> "select", v |-> d]
Put(w) == [t |-> "put", v |-> w]
PingItem == [t |-> "ping", v |-> 0]

S0 == [node |-> node, conns |-> conns]

\* The next state; nothing is left of a connection closed at both ends.
Gone == [NewConn(None, None, None) EXCEPT !.rside = FALSE, !.mside = FALSE]
Becomes(S) ==
  /\ node' = S.node
  /\ conns' = [i \in DOMAIN S.conns |->
                IF S.conns[i].rside \/ S.conns[i].mside THEN S.conns[i] ELSE Gone]

Slaves(S, n) ==
  {i \in DOMAIN S.conns : S.conns[i].to = n /\ S.conns[i].mside /\ S.conns[i].state # "client"}
InState(S, n, st) == {i \in Slaves(S, n) : S.conns[i].state = st}
ForConns(S, ids, F(_)) ==
  [S EXCEPT !.conns = [i \in DOMAIN S.conns |-> IF i \in ids THEN F(S.conns[i]) ELSE S.conns[i]]]

-----------------------------------------------------------------------------
(* Replication IDs and the backlog. *)

changeReplicationId(x, n) == [x EXCEPT !.drawn = @ + 1, !.replid = FreshId(n, x.drawn + 1)]
clearReplicationId2(x) == [x EXCEPT !.replid2 = None, !.second = -1]
\* Mutant: a promoted replica goes on under its master's ID.
shiftReplicationId_SameId(x, n) == [x EXCEPT !.replid2 = x.replid, !.second = x.off + 1]

shiftReplicationId(x, n) ==
  changeReplicationId([x EXCEPT !.replid2 = x.replid, !.second = x.off + 1], n)

createReplicationBacklog(x) == [x EXCEPT !.backlog = <<>>]
freeReplicationBacklog(x) == [x EXCEPT !.backlog = None]
BacklogOff(x) == x.off - Len(x.backlog) + 1

Newest(s, k) == SubSeq(s, IF Len(s) > k THEN Len(s) - k + 1 ELSE 1, Len(s))

\* feedReplicationBacklog(): the offset moves only when there is a backlog.
feedReplicationBacklog(x, item) ==
  IF x.backlog = None THEN x
  ELSE [x EXCEPT !.off = @ + 1, !.backlog = Newest(Append(@, item), BacklogSize)]

\* replicationFeedSlavesFromMasterStream(), and one command of
\* replicationFeedSlaves().
FeedItem(S, n, item) ==
  LET fed == Slaves(S, n) \ InState(S, n, "wait_start") IN
  ForConns([S EXCEPT !.node[n] = feedReplicationBacklog(@, item)], fed,
           LAMBDA c : [c EXCEPT !.out = Append(@, item)])

replicationFeedSlaves(S, n, db, item) ==
  LET x == S.node[n]
      T == IF x.seldb # db THEN FeedItem(S, n, Select(db)) ELSE S
  IN IF x.masterhost # None \/ (x.backlog = None /\ Slaves(S, n) = {}) THEN S
     ELSE FeedItem([T EXCEPT !.node[n].seldb = db], n, item)

\* What a replica does with a command of the stream: its dataset and the
\* database its master client has selected.
Applied(a, item) ==
  CASE item.t = "put"    -> [a EXCEPT !.data = Append(@, [db |-> a.db, w |-> item.v])]
    [] item.t = "select" -> [a EXCEPT !.db = item.v]
    [] item.t = "ping"   -> a

Replayed(data, db, items) == FoldLeft(Applied, [data |-> data, db |-> db], items).data

-----------------------------------------------------------------------------
(* Freeing clients. *)

\* freeClient() of a slave: what was written to the socket may still
\* arrive, an RDB file that was not sent whole does not.
freeSlaves(S, ids) ==
  ForConns(S, ids, LAMBDA c : [c EXCEPT !.mside = FALSE,
                                        !.rdb = IF c.state = "bulk" THEN None ELSE @])

disconnectSlaves(S, n) == freeSlaves(S, Slaves(S, n))

Hangup(S, r) ==
  IF S.node[r].conn = 0 THEN S
  ELSE [S EXCEPT !.conns[S.node[r].conn].rside = FALSE, !.node[r].conn = 0]

\* freeClient(server.master): replicationCacheMaster() and
\* replicationHandleMasterDisconnection().
replicationCacheMaster(S, r) ==
  IF S.node[r].master = None THEN S
  ELSE LET T == Hangup(S, r) IN
       [T EXCEPT !.node[r].cached = S.node[r].master, !.node[r].master = None,
                 !.node[r].state = "connect"]

cancelReplicationHandshake(S, r) ==
  IF S.node[r].state \in {"handshake", "transfer"}
  THEN LET T == Hangup(S, r) IN [T EXCEPT !.node[r].state = "connect"]
  ELSE S

-----------------------------------------------------------------------------
(* The RDB file and the replication data in it. *)

rdbPopulateSaveInfo(x) ==
  CASE x.masterhost = None /\ x.backlog # None -> IF x.seldb = Unselected THEN 0 ELSE x.seldb
    [] ~(x.masterhost = None /\ x.backlog # None) /\ x.master # None -> x.master.db
    [] ~(x.masterhost = None /\ x.backlog # None) /\ x.master = None /\ x.cached # None -> x.cached.db
    [] OTHER -> None

Rdb(x) == [data |-> x.data, db |-> rdbPopulateSaveInfo(x), id |-> x.replid, off |-> x.off,
           killed |-> FALSE]

replicationSetupSlaveForFullResync(S, i, off) ==
  LET n == S.conns[i].to IN
  [S EXCEPT !.conns[i].initial = off, !.conns[i].state = "wait_end",
            !.conns[i].reply = [t |-> "fullresync", id |-> S.node[n].replid, off |-> off],
            !.node[n].seldb = Unselected]

startBgsaveForReplication(S, n, ok) ==
  LET waiting == InState(S, n, "wait_start")
      Refused == ForConns(S, waiting, LAMBDA c : [c EXCEPT !.reply = [t |-> "err"], !.mside = FALSE])
  IN IF ~ok \/ rdbPopulateSaveInfo(S.node[n]) = None THEN Refused
     ELSE FoldSet(LAMBDA i, U : replicationSetupSlaveForFullResync(U, i, U.node[n].off),
                  [S EXCEPT !.node[n].child = Rdb(S.node[n])], waiting)

\* updateSlavesWaitingBgsave(), called by backgroundSaveDoneHandler().
updateSlavesWaitingBgsave(S, n, saved, ok) ==
  LET ended == InState(S, n, "wait_end")
      T == IF ~saved THEN freeSlaves(S, ended)
           ELSE ForConns(S, ended, LAMBDA c : [c EXCEPT !.state = "bulk", !.rdb = S.node[n].disk])
  IN IF InState(T, n, "wait_start") = {} THEN T ELSE startBgsaveForReplication(T, n, ok)

-----------------------------------------------------------------------------
(* The master's side of SYNC and PSYNC. *)

\* Mutant: the second ID is good for any offset.
MayContinue_AnyOffset(x, req) ==
  /\ req.id = x.replid \/ req.id = x.replid2
  /\ x.backlog # None
  /\ BacklogOff(x) <= req.off /\ req.off <= BacklogOff(x) + Len(x.backlog)

\* masterTryPartialResynchronization(): is the request accepted?
MayContinue(x, req) ==
  /\ \/ req.id = x.replid
     \/ req.id = x.replid2 /\ req.off <= x.second
  /\ x.backlog # None
  /\ BacklogOff(x) <= req.off /\ req.off <= BacklogOff(x) + Len(x.backlog)

\* addReplyReplicationBacklog().
BacklogFrom(x, off) == SubSeq(x.backlog, off - BacklogOff(x) + 1, Len(x.backlog))

\* Mutant: no copyClientOutputBuffer() for a replica that joins a save.
FullResync_NoCopy(S, i, ok) ==
  LET n == S.conns[i].to
      T == [S EXCEPT !.conns[i].state = "wait_start"]
      U == IF Slaves(T, n) = {i} /\ T.node[n].backlog = None
           THEN [T EXCEPT !.node[n] = createReplicationBacklog(
                                        clearReplicationId2(changeReplicationId(@, n)))]
           ELSE T
      ended == InState(U, n, "wait_end")
  IN CASE U.node[n].child # None /\ ended # {} ->
            replicationSetupSlaveForFullResync(U, i, U.conns[Min(ended)].initial)
       [] U.node[n].child # None /\ ended = {} -> U
       [] U.node[n].child = None -> startBgsaveForReplication(U, n, ok)

FullResync(S, i, ok) ==
  LET n == S.conns[i].to
      T == [S EXCEPT !.conns[i].state = "wait_start"]
      U == IF Slaves(T, n) = {i} /\ T.node[n].backlog = None
           THEN [T EXCEPT !.node[n] = createReplicationBacklog(
                                        clearReplicationId2(changeReplicationId(@, n)))]
           ELSE T
      ended == InState(U, n, "wait_end")
  IN CASE U.node[n].child # None /\ ended # {} ->
            LET j == Min(ended) IN
            replicationSetupSlaveForFullResync([U EXCEPT !.conns[i].out = U.conns[j].out],
                                               i, U.conns[j].initial)
       [] U.node[n].child # None /\ ended = {} -> U
       [] U.node[n].child = None -> startBgsaveForReplication(U, n, ok)

syncCommand(S, i, ok) ==
  LET c == S.conns[i]
      x == S.node[c.to]
  IN CASE x.masterhost # None /\ x.state # "connected" ->
            [S EXCEPT !.conns[i].reply = [t |-> "nomasterlink"]]
       [] ~(x.masterhost # None /\ x.state # "connected") /\ MayContinue(x, c.req) ->
            [S EXCEPT !.conns[i].state = "online",
                      !.conns[i].reply = [t |-> "continue", id |-> x.replid],
                      !.conns[i].out = BacklogFrom(x, c.req.off)]
       [] OTHER -> FullResync(S, i, ok)

-----------------------------------------------------------------------------
(* Actions. *)

\* Servers that were just started.
Fresh == node = [n \in Nodes |-> NewNode(n)] /\ conns = <<>>

\* One master m, the others its replicas, all of them empty: what REPLICAOF m
\* on every other fresh server leads to.
Established(m) ==
  LET replicas == SetToSeq(Nodes \ {m})
      id == FreshId(m, 2)
      rdb == [data |-> <<>>, db |-> 0, id |-> id, off |-> 0, killed |-> FALSE]
      Synced(n) == [createReplicationBacklog(NewNode(n)) EXCEPT !.replid = id, !.disk = rdb]
  IN /\ conns = [i \in DOMAIN replicas |->
                   [NewConn(replicas[i], m, None) EXCEPT !.state = "online"]]
     /\ node = [n \in Nodes |->
                  IF n = m THEN [Synced(n) EXCEPT !.drawn = 2]
                  ELSE [Synced(n) EXCEPT
                          !.masterhost = m, !.state = "connected",
                          !.master = [id |-> id, off |-> 0, db |-> 0],
                          !.conn = CHOOSE i \in DOMAIN replicas : replicas[i] = n]]

ReplInit ==
  /\ scenario \in Scenarios
  /\ IF scenario.fresh THEN Fresh ELSE \E m \in Nodes : Established(m)
  /\ streamed = 0 /\ roles = 0 /\ failures = 0

Failure(kind) ==
  /\ kind \in scenario.kinds /\ failures < scenario.failures
  /\ failures' = failures + 1
FailureIf(kind, b) == IF b THEN Failure(kind) ELSE UNCHANGED failures
Streams == streamed < scenario.stream /\ streamed' = streamed + 1
ChangesRole == roles < scenario.roles /\ roles' = roles + 1

\* A client's write on a master.
MasterWrites(n, db) ==
  /\ node[n].masterhost = None
  /\ Streams
  /\ LET S == replicationFeedSlaves(S0, n, db, Put(streamed))
     IN Becomes([S EXCEPT !.node[n].data = Append(@, [db |-> db, w |-> streamed])])
  /\ UNCHANGED <<roles, failures>>

\* replicationCron(): PING on the stream, never on a replica's own.
MasterPings(n) ==
  /\ node[n].masterhost = None /\ Slaves(S0, n) # {}
  /\ Streams
  /\ Becomes(replicationFeedSlaves(S0, n, node[n].seldb, PingItem))
  /\ UNCHANGED <<roles, failures>>

\* replicationCron(): free the backlog of a master without replicas, a long
\* time after the last one left.
BacklogExpires(n) ==
  /\ node[n].masterhost = None /\ Slaves(S0, n) = {} /\ node[n].backlog # None
  /\ Failure("ttl")
  /\ node' = [node EXCEPT ![n] = freeReplicationBacklog(clearReplicationId2(changeReplicationId(@, n)))]
  /\ UNCHANGED <<conns, streamed, roles>>

\* bgsaveCommand(), at the cost of a failure: its file matters to a restart.
bgsaveCommand(n) ==
  /\ node[n].child = None
  /\ Failure("restart")
  /\ node' = [node EXCEPT ![n].child = Rdb(node[n])]
  /\ UNCHANGED <<conns, streamed, roles>>

\* backgroundSaveDoneHandler().
backgroundSaveDoneHandler(n) ==
  /\ node[n].child # None
  /\ \E saved \in BOOLEAN, ok \in BOOLEAN :
       /\ saved => ~node[n].child.killed
       /\ ok \/ InState(S0, n, "wait_start") # {}
       /\ LET S == [S0 EXCEPT !.node[n].child = None,
                              !.node[n].disk = IF saved THEN node[n].child ELSE @]
          IN Becomes(updateSlavesWaitingBgsave(S, n, saved, ok))
       /\ FailureIf("save", ~ok \/ (~saved /\ ~node[n].child.killed))
  /\ UNCHANGED <<streamed, roles>>

\* The master handles the PSYNC of connection i.
MasterSyncs(i) ==
  /\ conns[i].mside /\ conns[i].state = "client" /\ conns[i].reply = None
  /\ \E ok \in BOOLEAN :
       /\ ok \/ syncCommand(S0, i, FALSE) # syncCommand(S0, i, TRUE)
       /\ Becomes(syncCommand(S0, i, ok))
       /\ FailureIf("save", ~ok)
  /\ UNCHANGED <<streamed, roles>>

\* sendBulkToSlave() sends the last part of the file: putSlaveOnline().
sendBulkToSlave(i) ==
  /\ conns[i].mside /\ conns[i].state = "bulk"
  /\ conns' = [conns EXCEPT ![i].state = "online"]
  /\ UNCHANGED <<node, streamed, roles, failures>>

\* The master drops the connection: an error on it, or a timeout.
MasterDrops(i) ==
  /\ conns[i].mside
  /\ FailureIf("link", conns[i].rside)
  /\ Becomes(freeSlaves(S0, {i}))
  /\ UNCHANGED <<streamed, roles>>

-----------------------------------------------------------------------------
(* The replica's side. *)

\* replicationCron() connects; syncWithMaster() goes through the handshake
\* and slaveTryPartialResynchronization(conn, 0) sends PSYNC.
ReplicaConnects(r) ==
  /\ node[r].state = "connect" /\ node[r].masterhost # None
  /\ Len(conns) < scenario.conns
  /\ LET c == node[r].cached
         request == IF c = None THEN [id |-> None, off |-> -1] ELSE [id |-> c.id, off |-> c.off + 1]
     IN conns' = Append(conns, NewConn(r, node[r].masterhost, request))
  /\ node' = [node EXCEPT ![r].state = "handshake", ![r].conn = Len(conns) + 1]
  /\ UNCHANGED <<streamed, roles, failures>>

\* slaveTryPartialResynchronization(conn, 1) on +CONTINUE, with
\* replicationResurrectCachedMaster().
Continue(S, r, id) ==
  LET x == S.node[r]
      y == IF id = x.cached.id THEN x
           ELSE [x EXCEPT !.replid2 = x.cached.id, !.second = x.off + 1,
                          !.replid = id, !.cached.id = id]
      T == IF id = x.cached.id THEN S ELSE disconnectSlaves(S, r)
      z == [y EXCEPT !.master = y.cached, !.cached = None, !.state = "connected"]
  IN [T EXCEPT !.node[r] = IF z.backlog = None THEN createReplicationBacklog(z) ELSE z]

\* Mutant: a full resynchronisation keeps the replica's own replicas.
StartTransfer_KeepsSlaves(S, r) ==
  [S EXCEPT !.node[r] = freeReplicationBacklog([@ EXCEPT !.cached = None, !.state = "transfer"])]

\* Any other answer to PSYNC but a transient error: a full transfer follows,
\* or the old SYNC is tried.
StartTransfer(S, r) ==
  LET T == disconnectSlaves(S, r) IN
  [T EXCEPT !.node[r] = freeReplicationBacklog([@ EXCEPT !.cached = None, !.state = "transfer"])]

ReplicaReadsReply(r) ==
  /\ node[r].state = "handshake"
  /\ LET reply == conns[node[r].conn].reply IN
     /\ reply # None
     /\ Becomes(CASE reply.t = "continue" -> Continue(S0, r, reply.id)
                  [] reply.t = "nomasterlink" -> cancelReplicationHandshake(S0, r)
                  [] reply.t \in {"fullresync", "err"} -> StartTransfer(S0, r))
  /\ UNCHANGED <<streamed, roles, failures>>

\* readSyncBulkPayload() with the file complete.  A failure comes after
\* emptyDb(): the new file cannot be synced or renamed.
readSyncBulkPayload(r) ==
  /\ node[r].state = "transfer"
  /\ LET c == conns[node[r].conn]
         Killed(x) == IF x.child = None THEN x ELSE [x EXCEPT !.child.killed = TRUE]
         Load(x) == [clearReplicationId2(x) EXCEPT
                       !.data = c.rdb.data, !.disk = c.rdb,
                       !.master = [id |-> c.reply.id, off |-> c.reply.off, db |-> c.rdb.db],
                       !.replid = c.reply.id, !.off = c.reply.off,
                       !.state = "connected"]
         Loaded(x) == LET y == Load(x) IN
                      IF y.backlog = None THEN createReplicationBacklog(y) ELSE y
     IN /\ c.rdb # None /\ c.state # "bulk"
        /\ \E ok \in BOOLEAN :
             /\ FailureIf("load", ~ok)
             /\ IF ok THEN Becomes([S0 EXCEPT !.node[r] = Loaded(Killed(@))])
                ELSE Becomes(cancelReplicationHandshake(
                               [S0 EXCEPT !.node[r] = [Killed(@) EXCEPT !.data = <<>>]], r))
  /\ UNCHANGED <<streamed, roles>>

\* The next command of the stream: executed, then commandProcessed() passes
\* it on to the replica's own backlog and replicas.
ReplicaProcesses(r) ==
  /\ node[r].state = "connected"
  /\ LET i == node[r].conn
         item == Head(conns[i].out)
         a == Applied([data |-> node[r].data, db |-> node[r].master.db], item)
         S == [S0 EXCEPT !.conns[i].out = Tail(@),
                         !.node[r].data = a.data, !.node[r].master.db = a.db,
                         !.node[r].master.off = @ + 1]
     IN conns[i].out # <<>> /\ Becomes(FeedItem(S, r, item))
  /\ UNCHANGED <<streamed, roles, failures>>

\* The replica sees its connection closed, or times out.
ReplicaDrops(r) ==
  /\ node[r].conn # 0
  /\ FailureIf("link", conns[node[r].conn].mside)
  /\ Becomes(cancelReplicationHandshake(replicationCacheMaster(S0, r), r))
  /\ UNCHANGED <<streamed, roles>>

-----------------------------------------------------------------------------
(* Changes of role, restarts. *)

CachedMyself(x, db) == [id |-> x.replid, off |-> x.off, db |-> db]

\* replicaofCommand() with another server: replicationSetMaster().
replicationSetMaster(n, m) ==
  /\ m # n /\ node[n].masterhost # m
  /\ ChangesRole
  /\ LET S == disconnectSlaves(replicationCacheMaster(S0, n), n)
         T == cancelReplicationHandshake(S, n)
     IN Becomes([T EXCEPT !.node[n].masterhost = m, !.node[n].state = "connect",
                          !.node[n].cached = IF node[n].masterhost = None
                                             THEN CachedMyself(node[n], 0) ELSE @])
  /\ UNCHANGED <<streamed, failures>>

\* REPLICAOF NO ONE.
replicationUnsetMaster(n) ==
  /\ node[n].masterhost # None
  /\ ChangesRole
  /\ LET S == cancelReplicationHandshake(replicationCacheMaster(S0, n), n)
         T == [S EXCEPT !.node[n] = shiftReplicationId([@ EXCEPT !.masterhost = None, !.cached = None], n)]
         U == disconnectSlaves(T, n)
     IN Becomes([U EXCEPT !.node[n].state = "none", !.node[n].seldb = Unselected])
  /\ UNCHANGED <<streamed, failures>>

\* The process ends and starts again, configured as a master or as a
\* replica: loadDataFromDisk().
Restart(n, m) ==
  /\ m # n
  /\ Failure("restart")
  /\ LET old == node[n]
         fresh == [NewNode(n) EXCEPT
                     !.replid = FreshId(n, old.drawn + 1), !.drawn = old.drawn + 1,
                     !.masterhost = m, !.state = IF m = None THEN "none" ELSE "connect",
                     !.disk = old.disk, !.data = IF old.disk = None THEN <<>> ELSE old.disk.data]
         Restored(x) == LET y == [x EXCEPT !.replid = old.disk.id, !.off = old.disk.off]
                        IN [y EXCEPT !.cached = CachedMyself(y, old.disk.db)]
         served == {i \in DOMAIN conns : conns[i].to = n}
         S == freeSlaves(Hangup(S0, n), served)
     IN Becomes([S EXCEPT !.node[n] =
                   IF m # None /\ old.disk # None /\ old.disk.db # None THEN Restored(fresh) ELSE fresh])
  /\ UNCHANGED <<streamed, roles>>

-----------------------------------------------------------------------------

MasterStep(n) ==
  \/ \E db \in scenario.dbs : MasterWrites(n, db)
  \/ MasterPings(n)
  \/ BacklogExpires(n)
  \/ bgsaveCommand(n)
  \/ backgroundSaveDoneHandler(n)

SlaveClientStep(i) ==
  \/ MasterSyncs(i)
  \/ sendBulkToSlave(i)
  \/ MasterDrops(i)

ReplicaStep(r) ==
  \/ ReplicaConnects(r)
  \/ ReplicaReadsReply(r)
  \/ readSyncBulkPayload(r)
  \/ ReplicaProcesses(r)
  \/ ReplicaDrops(r)

ReplNext ==
  /\ UNCHANGED scenario
  /\ \/ \E n \in Nodes : MasterStep(n) \/ ReplicaStep(n)
     \/ \E i \in DOMAIN conns : SlaveClientStep(i)
     \/ \E n, m \in Nodes : replicationSetMaster(n, m)
     \/ \E n \in Nodes : replicationUnsetMaster(n)
     \/ \E n \in Nodes, m \in Nodes \cup {None} : Restart(n, m)

ReplSpec == ReplInit /\ [][ReplNext]_replVars

-----------------------------------------------------------------------------
(* Properties. *)

\* Type invariant, with the assertions of the code: attached replicas imply
\* a backlog (replicationFeedSlaves()), a server never has both a master
\* client and a cached one (replicationCacheMaster()), and a master client
\* exactly while connected.
ReplTypeOK ==
  /\ \A n \in Nodes :
       LET x == node[n] IN
       /\ x.masterhost \in (Nodes \cup {None}) \ {n}
       /\ x.state \in {"none", "connect", "handshake", "transfer", "connected"}
       /\ (x.state = "none") = (x.masterhost = None)
       /\ (x.state = "connected") = (x.master # None)
       /\ x.master # None => x.cached = None /\ x.backlog # None /\ x.master.off = x.off
       /\ x.conn # 0 => conns[x.conn].from = n /\ conns[x.conn].rside
       /\ Slaves(S0, n) # {} => x.backlog # None
       /\ x.backlog # None => Len(x.backlog) <= BacklogSize
  /\ \A i \in DOMAIN conns :
       conns[i].state \in {"client", "wait_start", "wait_end", "bulk", "online"}

\* A partial resynchronisation is exact: whenever a server would accept the
\* PSYNC of another one (masterTryPartialResynchronization()), the
\* requester's dataset followed by the backlog it would get is the
\* acceptor's dataset.  Two replication IDs, promotions, demotions of a
\* master that went on writing, freed backlogs and restarts from an RDB file
\* all have to agree for this to hold.
PartialResyncIsExact ==
  \A r, m \in Nodes :
    LET c == node[r].cached
        x == node[m]
    IN (/\ r # m /\ c # None
        /\ x.masterhost = None \/ x.state = "connected"
        /\ MayContinue(x, [id |-> c.id, off |-> c.off + 1]))
       => Replayed(node[r].data, c.db, BacklogFrom(x, c.off + 1)) = x.data

\* A replica on an intact link ends up with its master's dataset: its own
\* dataset followed by what the master has put in its output buffer is the
\* master's dataset, at the master's replication ID and offset.
LinkCarriesTheRest ==
  \A r \in Nodes :
    node[r].state = "connected" =>
      LET c == conns[node[r].conn]
          x == node[c.to]
      IN c.mside =>
           /\ Replayed(node[r].data, node[r].master.db, c.out) = x.data
           /\ node[r].replid = x.replid
           /\ node[r].off + Len(c.out) = x.off

\* Two servers at the same replication ID and offset hold the same dataset,
\* as long as each has a backlog to count with.
OffsetNamesDataset ==
  \A n, m \in Nodes :
    (/\ node[n].backlog # None /\ node[m].backlog # None
     /\ node[n].replid = node[m].replid /\ node[n].off = node[m].off)
    => node[n].data = node[m].data
=============================================================================

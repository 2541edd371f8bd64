--------------------------- MODULE MCRedisServers ---------------------------
(* The command loop of one server, or the replication between three: a      *)
(* behaviour explores one part and leaves the other as it starts.           *)
EXTENDS RedisKeyspace, RedisReplication, TLC

VARIABLE part

AllCommands ==
  {"push", "pop", "rpoplpush", "bpop", "brpoplpush", "del", "set", "expire", "rename", "move",
   "swapdb", "sort", "flushall", "exists", "multi", "watch", "disconnect"}

\* Every command; blocking against what makes, moves and hides lists; blocking
\* commands of three clients; transactions.
MCWorkloads ==
  {[ops |-> AllCommands, queue |-> {"push", "pop", "bpop"}, cmds |-> 3, clients |-> 2],
   [ops |-> {"push", "bpop", "brpoplpush", "set", "expire", "rename", "move", "swapdb", "sort"},
    queue |-> {}, cmds |-> 4, clients |-> 2],
   [ops |-> {"push", "bpop", "brpoplpush"}, queue |-> {}, cmds |-> 4, clients |-> 3],
   [ops |-> {"push", "set", "expire", "multi", "watch"},
    queue |-> {"push", "exists"}, cmds |-> 5, clients |-> 2]}

\* From fresh servers; then, from one master with two replicas, failovers, lost
\* links, failed saves and loads, BGSAVE and restarts, a backlog that expires.
FromFresh ==
  [fresh |-> TRUE, stream |-> 1, dbs |-> {0}, conns |-> 2, roles |-> 2, failures |-> 0, kinds |-> {}]
MCScenarios ==
  {FromFresh,
   [fresh |-> FALSE, stream |-> 2, dbs |-> {1}, conns |-> 3, roles |-> 2, failures |-> 0, kinds |-> {}],
   [fresh |-> FALSE, stream |-> 2, dbs |-> {0}, conns |-> 3, roles |-> 1, failures |-> 1, kinds |-> {"link"}],
   [fresh |-> TRUE, stream |-> 1, dbs |-> {1}, conns |-> 3, roles |-> 2, failures |-> 1, kinds |-> {"save", "load"}],
   [fresh |-> FALSE, stream |-> 1, dbs |-> {0, 1}, conns |-> 3, roles |-> 0, failures |-> 2, kinds |-> {"restart"}],
   [fresh |-> TRUE, stream |-> 1, dbs |-> {0}, conns |-> 2, roles |-> 3, failures |-> 1, kinds |-> {"ttl"}]}

\* Clients and servers stand for each other's names: they never meet.
RedisSymmetry == Permutations(Clients) \cup Permutations(Keys)

Init ==
  /\ part \in {"keyspace", "replication"}
  /\ KeyspaceInit /\ ReplInit
  /\ part # "keyspace" => load = CHOOSE w \in Workloads : TRUE
  /\ part # "replication" => scenario = FromFresh

Next ==
  \/ part = "keyspace" /\ KeyspaceNext /\ UNCHANGED <<part, replVars>>
  \/ part = "replication" /\ ReplNext /\ UNCHANGED <<part, keyspaceVars>>

vars == <<part, keyspaceVars, replVars>>

Spec == Init /\ [][Next]_vars
=============================================================================

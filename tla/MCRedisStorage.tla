--------------------------- MODULE MCRedisStorage ---------------------------
(* The hash table or the append only file of one server: a behaviour        *)
(* explores one part and leaves the other as it starts.                     *)
EXTENDS RedisDict, RedisAof

VARIABLE part

Init ==
  /\ part \in {"dict", "aof", "switches"}
  /\ DictInit /\ AofInit
  /\ part = "dict" => policy = CHOOSE p \in Policies : TRUE

\* AOF stays on, or CONFIG SET appendonly switches it at run time and one write
\* less is made.
Next ==
  \/ part = "dict" /\ DictNext /\ UNCHANGED <<part, aofVars>>
  \/ part = "aof" /\ AofNext /\ mem'.state = "on" /\ UNCHANGED <<part, dictVars>>
  \/ part = "switches" /\ AofNext /\ writes' < MaxWrites /\ UNCHANGED <<part, dictVars>>

vars == <<part, dictVars, aofVars>>

Spec == Init /\ [][Next]_vars /\ AofFairness
=============================================================================

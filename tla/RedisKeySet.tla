---------------------------- MODULE RedisKeySet ----------------------------
(***************************************************************************)
(* What a Redis dictionary promises its users: it is a set of keys, and a  *)
(* scan from cursor 0 until the cursor is 0 again returns every key that   *)
(* was there all the time ("guarantees all elements present in the         *)
(* dictionary get returned between the start and end of the iteration").   *)
(***************************************************************************)
CONSTANT Key

VARIABLES
  keys,     \* the keys of the dictionary
  present,  \* the keys there since the scan began
  returned, \* the keys the scan has returned, known until the next command
  scanning

Init == keys = {} /\ present = {} /\ returned = {} /\ scanning = FALSE

Becomes(S) ==
  /\ keys' = S
  /\ present' = IF scanning THEN present \cap S ELSE {}
  /\ returned' = IF scanning THEN returned ELSE {}
  /\ UNCHANGED scanning

Add == \E k \in Key : Becomes(keys \union {k})
Delete == \E k \in keys : Becomes(keys \ {k})
Empty == Becomes({})
Other == Becomes(keys)

ScanBegins ==
  /\ ~scanning /\ scanning' = TRUE
  /\ present' = keys /\ returned' = {}
  /\ UNCHANGED keys

ScanReturns ==
  /\ scanning
  /\ returned \subseteq returned' /\ returned' \subseteq returned \union keys
  /\ scanning' \/ present \subseteq returned'
  /\ scanning' \in BOOLEAN
  /\ UNCHANGED <<keys, present>>

Next == Add \/ Delete \/ Empty \/ Other \/ ScanBegins \/ ScanReturns

Spec == Init /\ [][Next]_<<keys, present, returned, scanning>>
=============================================================================

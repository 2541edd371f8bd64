---------------------------- MODULE MCAccounts ----------------------------
(* Instances of Accounts for TLC. *)
EXTENDS Accounts, TLC

\* Requests and values are interchangeable: nothing in Accounts orders them.
Symmetry ==
  Permutations(Reqs) \cup Permutations(Usernames) \cup Permutations(Emails)
    \cup Permutations(Passwords)
=============================================================================

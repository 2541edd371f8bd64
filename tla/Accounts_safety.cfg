SPECIFICATION Spec
CONSTANTS
  Reqs = {r1, r2, r3}
  Usernames = {u1, u2}
  Emails = {e1, e2}
  Passwords = {p1, p2}
  IndexAtStart = FALSE
  Faults = {"db", "crash"}
  None = None
SYMMETRY Symmetry
INVARIANTS
  TypeOK
  
  OnlySharedEmailLocksOut

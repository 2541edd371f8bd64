SPECIFICATION Spec
CONSTANTS
  Reqs = {r1, r2, r3}
  Usernames = {u1, u2}
  Emails = {e1, e2}
  Passwords = {p1, p2}
  IndexAtStart = TRUE
  Faults = {}
  None = None
SYMMETRY Symmetry
INVARIANTS
  RegisteredCanLogin

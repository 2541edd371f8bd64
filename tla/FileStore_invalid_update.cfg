SPECIFICATION Spec
CONSTANTS
  Reqs = {r1, r2, r3}
  FileNames = {a, b}
  OrigNames = {o}
  MaxClock = 1
  Operations = {"create", "read", "list", "update", "delete"}
  Faults = {}
  Concurrency = 3
  NoDoc = NoDoc
INVARIANTS
  InvalidUpdateAnswered

SPECIFICATION Spec
CONSTANTS
  Reqs = {r1, r2, r3}
  FileNames = {a, b}
  OrigNames = {o, q}
  MaxClock = 0
  Operations = {"create", "update", "delete"}
  Faults = {"db", "crash"}
  Concurrency = 1
  NoDoc = NoDoc
SYMMETRY RequestSymmetry
INVARIANTS
  CreateKeepsNamesUnique
PROPERTY
  UpdateAckedIsStored

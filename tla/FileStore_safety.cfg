SPECIFICATION Spec
CONSTANTS
  Reqs = {r1, r2, r3}
  FileNames = {a, b}
  OrigNames = {o}
  MaxClock = 1
  Operations = {"create", "update", "delete"}
  Faults = {"db", "fs", "crash"}
  Concurrency = 3
  NoDoc = NoDoc
SYMMETRY RequestSymmetry
INVARIANTS
  TypeOK
  StoredFileIntact
  DeleteLeavesNoFile
  DeletedStaysDeleted
  CreatedSurvives

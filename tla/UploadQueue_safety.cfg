SPECIFICATION Spec
CONSTANTS
  Reqs = {r1, r2}
  Readers = {}
  AllowedNames = {a}
  OtherNames = {x}
  MaxClock = 1
  MaxCrashes = 1
  Attempts = 2
  MaxStalled = 1
  Faults = {"redis", "fs", "lock"}
  None = None
SYMMETRY UploadSymmetry
INVARIANTS
  TypeOK
  NoFileLost
  CompletedHasFile

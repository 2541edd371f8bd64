SPECIFICATION Spec
CONSTANTS
  Reqs = {r1}
  Readers = {q1}
  AllowedNames = {a}
  OtherNames = {x}
  MaxClock = 2
  MaxCrashes = 2
  Attempts = 3
  MaxStalled = 3
  Faults = {"redis", "fs", "client", "lock"}
  None = None
INVARIANTS
  StartsBounded
  ResultOnlyIfCompleted
PROPERTY
  SettledIsFinal

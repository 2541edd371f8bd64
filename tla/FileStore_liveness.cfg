SPECIFICATION FairSpec
CONSTANTS
  Reqs = {r1, r2}
  FileNames = {a, b}
  OrigNames = {o}
  MaxClock = 1
  Operations = {"create", "read", "list", "update", "delete"}
  Faults = {"db", "fs", "client", "crash"}
  Concurrency = 2
  NoDoc = NoDoc
PROPERTY
  RequestsAnswered

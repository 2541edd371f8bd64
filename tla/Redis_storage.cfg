SPECIFICATION Spec
CONSTANTS
  Hashes = {0, 1, 3}
  InitialSize = 1
  MinFill = 40
  ForceRatio = 2
  EmptyVisits = 2
  CursorBits = 4
  DBs = {0, 1}
  Policies = {"always", "everysec"}
  NoFsyncOnRewrite = FALSE
  Switches = TRUE
  MaxWrites = 2
  MaxRewrites = 1
  MaxFaults = 1
INVARIANTS
  DictTypeOK
  RehashedAreEmpty
  IteratesOnce
  AofTypeOK
  
  FileAlwaysLoads
  AckedIsDurable
PROPERTIES
  ImplementsKeySet
  RestartsFromDisk
  EventuallyDurable
CHECK_DEADLOCK FALSE

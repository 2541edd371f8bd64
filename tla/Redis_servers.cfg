SPECIFICATION Spec
CONSTANTS
  Clients = {p1, p2, p3}
  Keys = {a, b}
  Workloads <- MCWorkloads
  Ttls = {0, 1}
  MaxPushes = 2
  MaxQueue = 2
  MaxTime = 2
  NoKey = NoKey
  Nodes = {p1, p2, p3}
  None = None
  BacklogSize = 2
  Scenarios <- MCScenarios
SYMMETRY RedisSymmetry
INVARIANTS
  KeyspaceTypeOK
  
  NoElementLostOrDoubled
  ReplicaInSync
  
  ReplTypeOK
  PartialResyncIsExact
  LinkCarriesTheRest
  OffsetNamesDataset
PROPERTIES
  ServedInOrder
CHECK_DEADLOCK FALSE

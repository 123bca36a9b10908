SPECIFICATION FairSpec
CONSTANTS
  None = None
  Clients = {c1, c2}
  Requests <- MCRequests
  ApiKey = "k"
  MaxSignals = 3
INVARIANTS
  TypeOK
  CleanupOnEveryWayOut
  GateAgrees
PROPERTIES
  StopReachesShutdown

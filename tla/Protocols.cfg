SPECIFICATION ProtocolSpec
CONSTANTS
  Modes <- MCModes
  MaxOps = 4
  MaxSockets = 5
  PruneFloor = 2
  WebModes <- MCWebModes
  MaxChunks = 3
  MaxForks = 3
  MaxKills = 1
  MaxDisconnects = 1
  Pids = {1, 2}
CHECK_DEADLOCK FALSE
INVARIANTS MessageSafe WebStreamsSafe ClusterSafe
PROPERTIES ProtocolsProgress

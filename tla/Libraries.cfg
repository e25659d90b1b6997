SPECIFICATION LibrarySpec
CONSTANTS
  Modes <- MCModes
  Inputs <- MCInputs
  Cwd <- MCCwd
  MapLimit = 1
  HighWater = 1
  MaxChanges = 4
  MaxWalks = 1
  Listeners = {l1, l2}
  Stores = {s1}
  MaxTraces = 1
  MaxActs = 2
  Contents <- MCContents
  MaxByteOps = 5
  ZlibInputs <- MCZlibInputs
  PieceSize = 2
  Sinks = {d1, d2}
  MaxPipeOps = 4
  Handles = 2
  MaxOptionCalls = 3
  TodoModes <- MCTodoModes
  Scripts = {"stress", "parity", "battery"}
  Rounds = 3
  Profiles = 3
  Cases = 2
  MaxDeaths = 2
CHECK_DEADLOCK FALSE
INVARIANTS ListenersExact CollectionsExact DiagnosticsExact BytesExact CodecStreamsExact PipeEventsExact SocketOptionsExact TodoExact PathsExact TextExact BuildInputsExact SurfaceExact FilesExact ToolsExact
PROPERTIES RemovedNeverRuns

SPECIFICATION FairSpec
CONSTANTS
    NTargets = 2
    MaxEpochs = 1
    MaxChunks = 2
    MaxCalls = 5
    Env = {"error", "one", "literal", "soon", "pause"}
CHECK_DEADLOCK FALSE
INVARIANTS SocketSafe
PROPERTIES SocketEvents SocketSettles

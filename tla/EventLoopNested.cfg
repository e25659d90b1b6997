SPECIFICATION Spec
CONSTANTS
    NTimers = 2
    NImms = 3
    NTasks = 1
    Watcher = {w1, w2}
    MaxTime = 1
    MaxCalls = 5
    Env = {"listen", "fail"}
CHECK_DEADLOCK FALSE
INVARIANTS LoopSafe
PROPERTIES ClearedNeverRuns

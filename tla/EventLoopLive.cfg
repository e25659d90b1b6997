SPECIFICATION FairSpec
CONSTANTS
    NTimers = 2
    NImms = 1
    NTasks = 2
    Watcher = {w1}
    MaxTime = 2
    MaxCalls = 4
    Env = {"interval", "unref", "await"}
CHECK_DEADLOCK FALSE
PROPERTIES TicksFirst TimersFire

SPECIFICATION BuildSpec
CONSTANTS
    Settings <- MCSettings
    Ways <- MCWays
    Jobs = 2
    MaxBuilds = 2
    MaxEdits = 1
    MaxFaults = 1
    None = None
CHECK_DEADLOCK FALSE
INVARIANTS ArtifactsExact
PROPERTIES BuildEnds

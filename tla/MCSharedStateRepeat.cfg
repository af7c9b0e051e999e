CONSTANTS
    ClassName = {"", "pedestrian", "barrel"}
    Config <- MCConfig
    StaleTimeout = 1
    Turns = 1
    StopImplemented = FALSE
    ObstacleLists <- BarrelLists
    MaxTime = 5
    MaxHandled = 2
SPECIFICATION SharedSpec
INVARIANT NoRepeatedChange
CHECK_DEADLOCK FALSE

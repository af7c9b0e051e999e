CONSTANTS
    ClassName = {"", "pedestrian", "barrel", "sign", "stopline"}
    Config <- MCConfig
    StaleTimeout = 1
    Turns = 1
    StopImplemented = TRUE
    ObstacleLists <- StopLists
    MaxTime = 3
    MaxHandled = 1
    MaxAge = 0
    ClockSkew = 0
    LineSpots = {0}
    LineRanges = {1}
SPECIFICATION Spec
INVARIANTS TypeOK HoldsNothingHandled
PROPERTIES RefinesLatch ForgetsOnlyExpired
CHECK_DEADLOCK FALSE

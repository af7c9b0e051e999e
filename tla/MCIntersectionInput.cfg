CONSTANTS
    ClassName = {"", "pedestrian", "barrel", "sign", "stopline"}
    Config <- MCConfig
    StaleTimeout = 1
    Turns = 2
    StopImplemented = TRUE
    ObstacleLists = {}
    MaxTime = 4
    MaxHandled = 2
    MaxAge = 1
    ClockSkew = 1
    LineSpots = {0, 3}
    LineRanges = {1, 2}
SPECIFICATION Spec
INVARIANTS InputTypeOK SignIsCurrent SignNotReused NoRepeatedIntersection
CHECK_DEADLOCK FALSE

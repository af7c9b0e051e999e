CONSTANTS
    ObstacleDecision <- MCObstacleDecision
    IntersectionDecision <- MCIntersectionDecision
    Nothing <- MCNothing
    SamePlace = 1
    InitialTurns = 1
    MaxInFlight = 1
    StopImplemented = TRUE
    ResponseMayTimeOut = FALSE
SPECIFICATION Spec
INVARIANT HaltedChangeIsCancelled

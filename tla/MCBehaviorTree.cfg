CONSTANTS
    ObstacleDecision <- MCObstacleDecision
    IntersectionDecision <- MCIntersectionDecision
    Nothing <- MCNothing
    SamePlace = 1
    InitialTurns = 1
    MaxInFlight = 2
    StopImplemented = TRUE
    ResponseMayTimeOut = TRUE
SPECIFICATION FairSpec
INVARIANTS TypeOK GateClosedInManeuver ManeuverOnlyWhenLatched GoalOfRunningBranch
    GoalIsForTheLatch NoPlaceRepeated PathClearedAtEnd
PROPERTIES RetryPersists ReleasedBySuccess

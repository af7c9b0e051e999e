SPECIFICATION FairSpec
CONSTANTS
    Obstacle = {1, 2}
    Place <- MCPlace
    Class <- MCClass
    Noise = 1
    Offsets <- MCOffsets
    GateBase = 3
    GateRange = 1
    GateUnit = 4
    VisibleRange = 6
    PassMargin = 1
    ConfirmHits = 2
    ConfirmWindow = 3
    MaxOutOfLane = 2
    MaxMisses = 2
    RobotSpots = {0, 5}
    MaxId = 2
INVARIANTS TypeOK IdsAreFresh OneTrackPerObstacle
PROPERTIES PublishedIdIsStable UnseenIsKept GhostIsForgotten
CHECK_DEADLOCK FALSE

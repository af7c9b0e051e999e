CONSTANTS
    Width = 5  Height = 6  Resolution = 2  Radius = 1
    RoiMin = 1  RoiMax = 4  RoiNear = 1  RoiFar = 3
    LHit = 2  LMiss <- MCLMiss  LMin <- MCLMin  LMax = 5  LOccupied = 3
    SpeckleRadius = 1  SpeckleSupport = 2
    Routes <- MCRoutes
    Frames <- MCFrames
    MaxStamp = 3  MaxTime = 5  MaxWait = 1  MaxPending = 2  PublishEvery = 2
SPECIFICATION FairSpec
INVARIANTS TypeOK InOrder PlacedAtImageTime
PROPERTIES MapFollowsTheRobot PublishedLineStays NoneWaitsForever
CHECK_DEADLOCK FALSE

SPECIFICATION FairSpec
CONSTANTS
    MaxStamp = 4
    MaxStreak = 2
    ServerLane = "left"
    MuxLane = "right"
    MaxChanges = 2
INVARIANTS TypeOK NoWhiteLost HandledInOrder MemoryIsRecent NewestOfLaneIsOut
PROPERTIES MuxFollowsServer
CHECK_DEADLOCK FALSE

CONSTANTS NavMayCrash = FALSE  EarlyRestart = FALSE  MaxGeneration = 5  MaxPaths = 2
SPECIFICATION FairSpec
PROPERTIES ManeuverStarts
CHECK_DEADLOCK FALSE

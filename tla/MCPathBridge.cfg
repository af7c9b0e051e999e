CONSTANTS NavMayCrash = TRUE  EarlyRestart = FALSE  MaxGeneration = 5  MaxPaths = 2
SPECIFICATION FairSpec
INVARIANTS TypeOK NoOrphanGoal ManeuverHasPriority
PROPERTIES StopTakesEffect ManeuverNotWithdrawn
CHECK_DEADLOCK FALSE

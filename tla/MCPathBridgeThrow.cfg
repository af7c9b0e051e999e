CONSTANTS NavMayCrash = FALSE  EarlyRestart = FALSE  MaxGeneration = 5  MaxPaths = 2
SPECIFICATION Spec
INVARIANT CancelsKnownHandle
CHECK_DEADLOCK FALSE

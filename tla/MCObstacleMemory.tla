--------------------------- MODULE MCObstacleMemory ---------------------------
(* ObstacleMemory: two cones, just the widest gate and two errors apart. *)
EXTENDS ObstacleMemory

MCPlace == [o \in Obstacle |-> IF o = 1 THEN 3 ELSE 10]
MCClass == [o \in Obstacle |-> "cone"]
MCOffsets == {-1, 1}

===============================================================================

--------------------------- MODULE MCMappingNode ---------------------------
(* Small instances of the mapping node: a window of 5 by 6 cells. *)
EXTENDS MappingNode

MCLMiss == -1
MCLMin == -2

Pose(x, y, yaw) == [x |-> x, y |-> y, yaw |-> yaw]

\* One cell at a time, back and across the origin with a turn, and out of the window.
MCRoutes ==
    {[t \in 1 .. 6 |-> Pose(t * 2, 0, 0)],
     [t \in 1 .. 6 |-> Pose(2 - t * 3, t * 2 - 5, t % 4)],
     [t \in 1 .. 6 |-> Pose(IF t = 2 THEN 12 ELSE t, 7 - 4 * t, 1)]}

MCFrames ==
    {[pts |-> {[x |-> 3, y |-> 0]}, do_miss |-> FALSE],
     [pts |-> {[x |-> 3, y |-> 0], [x |-> 2, y |-> 2]}, do_miss |-> TRUE]}

\* Straight ahead from the origin of odom, with no white line but enough points of other
\* classes.
StraightRoutes == {[t \in 1 .. 6 |-> Pose(t * 4 - 4, 0, 0)]}
ClearFrames == {[pts |-> {}, do_miss |-> TRUE]}

=============================================================================

--------------------------- MODULE MCBehaviorTree ---------------------------
(* A small instance: one obstacle to pass, one pedestrian, two stop lines. *)
EXTENDS BehaviorTree

MCObstacleDecision ==
    {[action |-> "change", x |-> 0, needs_stop |-> FALSE],
     [action |-> "stop", x |-> 0, needs_stop |-> FALSE]}

MCIntersectionDecision ==
    [action : {"intersection"}, x : {0, 5}, needs_stop : BOOLEAN]

MCNothing == [action |-> "none", x |-> 0, needs_stop |-> FALSE]

=============================================================================

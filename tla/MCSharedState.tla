---------------------------- MODULE MCSharedState ----------------------------
(* Small instances of SharedState with the intersection stream silent. *)
EXTENDS SharedState

\* Two classes of config/bt.yaml, with distances and times scaled down.
MCConfig ==
    [classes |->
        [pedestrian |-> [action |-> "stop", trigger_distance |-> 2, mark_stop_sign |-> FALSE],
         barrel |-> [action |-> "change", trigger_distance |-> 2, mark_stop_sign |-> FALSE]],
     min_distance |-> 1, same_place |-> 1,
     handled_ttl |-> 2, pseudo_ttl |-> 1, stop_sign_ttl |-> 3,
     hold |-> [change |-> 2, stop |-> 1, intersection |-> 2],
     confirm |-> [change |-> 2, stop |-> 1, intersection |-> 2]]

Barrel(id, x, distance) ==
    [cls |-> "barrel", credible |-> TRUE, distance |-> distance, id |-> id, x |-> x,
     observed_at |-> NaN]

Pedestrian == [Barrel(9, 0, 2) EXCEPT !.cls = "pedestrian"]

\* Two barrels at two places, the first tracked under id 1 or, once the tracker has
\* lost it, under id 2; too close, out of reach, and next to a pedestrian.
BarrelLists ==
    {<<>>, <<Barrel(1, 0, 2)>>, <<Barrel(2, 0, 2)>>,
     <<Barrel(1, 0, 2), Barrel(3, 5, 1)>>, <<Barrel(3, 5, 3), Barrel(1, 0, 0)>>,
     <<Barrel(1, 0, 2), Pedestrian>>}

=============================================================================

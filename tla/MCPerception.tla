---------------------------- MODULE MCPerception ----------------------------
(* Small instances of the perception and decision state of bt_executor. *)
EXTENDS IntersectionInput

\* The class table of config/bt.yaml, with distances and times scaled down.
MCConfig ==
    [classes |->
        [pedestrian |-> [action |-> "stop", trigger_distance |-> 2, mark_stop_sign |-> FALSE],
         barrel |-> [action |-> "change", trigger_distance |-> 2, mark_stop_sign |-> FALSE],
         sign |-> [action |-> "none", trigger_distance |-> 2, mark_stop_sign |-> TRUE],
         stopline |-> [action |-> "intersection", trigger_distance |-> 1,
                       mark_stop_sign |-> FALSE]],
     min_distance |-> 1, same_place |-> 1,
     handled_ttl |-> 2, pseudo_ttl |-> 1, stop_sign_ttl |-> 3,
     hold |-> [change |-> 1, stop |-> 1, intersection |-> 2],
     confirm |-> [change |-> 2, stop |-> 1, intersection |-> 2]]

\* Both streams: a pedestrian or a barrel may appear at any time.
Seen(cls, id) ==
    [cls |-> cls, credible |-> TRUE, distance |-> 2, id |-> id, x |-> 0, observed_at |-> NaN]

StopLists ==
    {<<>>, <<Seen("pedestrian", 9)>>, <<Seen("barrel", 1)>>}

=============================================================================

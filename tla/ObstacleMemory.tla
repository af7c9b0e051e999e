--------------------------- MODULE ObstacleMemory ---------------------------
(***************************************************************************)
(* lidar_cam_fusion/src/obstacle_memory.cpp: detections become tracks, and *)
(* tracks become the obstacles with ids that the decision layer sees.      *)
(*                                                                         *)
(* Obstacles stand still at Place[o] along the road.  A detection of one   *)
(* is off by at most Noise; the detector reports an obstacle at most once  *)
(* per frame, in any order.  One frame is FrameBegins, one Associate per   *)
(* detection, FrameEnds; the timer runs between frames, as both are        *)
(* callbacks of one executor.  Counters saturate where the code stops      *)
(* telling their values apart.  `of' is the obstacle a track was made for, *)
(* which the program does not know.                                        *)
(***************************************************************************)
EXTENDS Integers, Sequences

CONSTANTS
    Obstacle,            \* the obstacles of the scene
    Place, Class,        \* [Obstacle -> Int], [Obstacle -> class_id]
    Noise,               \* bound on the error of a measured position
    Offsets,             \* the errors that occur
    GateBase,            \* gate_base
    GateRange, GateUnit, \* gate_range is GateRange / GateUnit, the gate in whole units
    VisibleRange,        \* max_visible_range, with the field of view
    PassMargin,          \* pass_margin
    ConfirmHits, ConfirmWindow, MaxOutOfLane, MaxMisses,
    RobotSpots,          \* positions along the road the robot drives through
    MaxId                \* bound on next_id

Away(x, y) == IF x < y THEN y - x ELSE x - y

\* The gate of a detection at x seen from r: it grows with detection.distance.
Gate(r, x) == GateBase + (GateRange * Away(r, x)) \div GateUnit

\* A measurement stays inside the gate of its own obstacle and outside those of others
\* of its class, from wherever it is seen.
ASSUME MemoryAssumption ==
    /\ Place \in [Obstacle -> Int]
    /\ Noise \in Nat /\ Offsets \subseteq -Noise .. Noise
    /\ GateBase \in Nat /\ GateRange \in Nat /\ GateUnit \in Nat \ {0}
    /\ 2 * Noise < GateBase
    /\ \A o, p \in Obstacle : o # p /\ Class[o] = Class[p] =>
          \A r \in RobotSpots, e \in Offsets :
              Away(Place[o], Place[p]) >= Gate(r, Place[o] + e) + 2 * Noise
    /\ ConfirmHits \in Nat \ {0, 1} /\ ConfirmWindow \in Nat
    /\ MaxOutOfLane \in Nat /\ MaxMisses \in Nat /\ MaxId \in Nat
    /\ RobotSpots \subseteq Int

VARIABLES
    tracks,        \* tracks
    next_id,       \* next_id
    camera,        \* has_camera_info
    in_frame,      \* detection_callback is running
    any_invalid,   \* any_invalid
    reported,      \* obstacles the current frame has reported
    robot,         \* position of the robot
    output         \* the last TrackedObstacleArray: [id, of] of its obstacles, and the nearest

frameVars == <<in_frame, any_invalid, reported>>
vars == <<tracks, next_id, camera, frameVars, robot, output>>

Init ==
    /\ tracks = <<>>
    /\ next_id = 1
    /\ camera = FALSE
    /\ in_frame = FALSE
    /\ any_invalid = FALSE
    /\ reported = {}
    /\ robot \in RobotSpots /\ \A r \in RobotSpots : robot <= r
    /\ output = [obstacles |-> {}, nearest_in_lane_id |-> 0]

-----------------------------------------------------------------------------
(* detection_callback *)

Capped(n, bound) == IF n < bound THEN n + 1 ELSE bound

\* The transform into odom is known; the frame ages every track.
FrameBegins ==
    /\ ~ in_frame
    /\ next_id <= MaxId
    /\ in_frame' = TRUE
    /\ any_invalid' = FALSE
    /\ reported' = {}
    /\ tracks' = [i \in DOMAIN tracks |->
                    [tracks[i] EXCEPT !.matched = FALSE,
                                      !.age = Capped(@, ConfirmWindow + 1)]]
    /\ UNCHANGED <<next_id, camera, robot, output>>

\* Mutant: the gate is inclusive.
MayMatch_Inclusive(t, cls, x) ==
    ~ t.matched /\ t.class_id = cls /\ Away(t.position_odom, x) <= Gate(robot, x)

\* An unmatched track of the same class within the gate.
MayMatch(t, cls, x) ==
    ~ t.matched /\ t.class_id = cls /\ Away(t.position_odom, x) < Gate(robot, x)

Candidates(cls, x) == {i \in DOMAIN tracks : MayMatch(tracks[i], cls, x)}

\* best_index: the nearest candidate, the first of equals.
IsBest(i, cls, x) ==
    /\ i \in Candidates(cls, x)
    /\ \A j \in Candidates(cls, x) :
          LET di == Away(tracks[i].position_odom, x)
              dj == Away(tracks[j].position_odom, x)
          IN  di < dj \/ (di = dj /\ i <= j)

\* Smoothing moves the estimate towards the measurement.
Between(p, x) == IF p <= x THEN p .. x ELSE x .. p

\* Mutant: a track is confirmed again on every hit.
Confirms_Again(t) == t.hits >= ConfirmHits /\ t.age <= ConfirmWindow

Confirms(t) == ~ t.confirmed /\ t.hits >= ConfirmHits /\ t.age <= ConfirmWindow

\* Mutant: the id is the number of tracks.
Numbered_ByCount(t) == [t EXCEPT !.confirmed = TRUE, !.id = Len(tracks)]

Numbered(t) == [t EXCEPT !.confirmed = TRUE, !.id = next_id]

\* Track i takes the detection; enough hits in time confirm it and give it an id.
Match(i, p, in_lane) ==
    LET t == [tracks[i] EXCEPT !.position_odom = p,
                               !.hits = Capped(@, ConfirmHits),
                               !.misses = 0,
                               !.matched = TRUE,
                               !.out_of_lane = IF in_lane THEN 0 ELSE Capped(@, MaxOutOfLane)]
    IN  IF Confirms(t)
        THEN /\ tracks' = [tracks EXCEPT ![i] = Numbered(t)]
             /\ next_id' = next_id + 1
        ELSE /\ tracks' = [tracks EXCEPT ![i] = t]
             /\ UNCHANGED next_id

\* Mutant: the detection that makes the track is not a hit.
NewTrack_NoHit(o, x) ==
    [id |-> 0, class_id |-> Class[o], position_odom |-> x, hits |-> 0, age |-> 1, misses |-> 0,
     out_of_lane |-> 0, confirmed |-> FALSE, matched |-> TRUE, of |-> o]

NewTrack(o, x) ==
    [id |-> 0, class_id |-> Class[o], position_odom |-> x, hits |-> 1, age |-> 1, misses |-> 0,
     out_of_lane |-> 0, confirmed |-> FALSE, matched |-> TRUE, of |-> o]

\* One detection with a valid depth: obstacle o, measured at x.
Associate(o, x, in_lane) ==
    /\ in_frame /\ o \notin reported
    /\ reported' = reported \cup {o}
    /\ \/ \E i \in DOMAIN tracks :
             /\ IsBest(i, Class[o], x)
             /\ \E p \in Between(tracks[i].position_odom, x) : Match(i, p, in_lane)
       \/ /\ Candidates(Class[o], x) = {}
          /\ tracks' = IF in_lane THEN Append(tracks, NewTrack(o, x)) ELSE tracks
          /\ UNCHANGED next_id
    /\ UNCHANGED <<in_frame, any_invalid, camera, robot, output>>

\* A detection without a valid depth.
AssociateInvalid(o) ==
    /\ in_frame /\ o \notin reported
    /\ reported' = reported \cup {o}
    /\ any_invalid' = TRUE
    /\ UNCHANGED <<in_frame, tracks, next_id, camera, robot, output>>

is_visible(x) == 0 < x - robot /\ x - robot <= VisibleRange

\* Mutant: a track counts a miss wherever it is.
Missed_Everywhere(t) == ~ t.matched

Missed(t) == ~ t.matched /\ is_visible(t.position_odom)

\* The frame counts misses, unless a depth was invalid or the camera's transform is not
\* known.
FrameEnds(transform) ==
    /\ in_frame
    /\ in_frame' = FALSE
    /\ any_invalid' = FALSE
    /\ reported' = {}
    /\ tracks' = IF ~ any_invalid /\ camera /\ transform
                 THEN [i \in DOMAIN tracks |->
                         IF Missed(tracks[i])
                         THEN [tracks[i] EXCEPT !.misses = Capped(@, MaxMisses)]
                         ELSE tracks[i]]
                 ELSE tracks
    /\ UNCHANGED <<next_id, camera, robot, output>>

-----------------------------------------------------------------------------
(* timer_callback and the world *)

\* Mutant: a confirmed track is kept until it is passed.
Expired_Confirmed(t) ==
    \/ t.position_odom - robot < -PassMargin
    \/ t.out_of_lane >= MaxOutOfLane
    \/ ~ t.confirmed /\ (t.misses >= MaxMisses \/ t.age > ConfirmWindow)

Expired(t) ==
    \/ t.position_odom - robot < -PassMargin
    \/ t.out_of_lane >= MaxOutOfLane
    \/ t.misses >= MaxMisses
    \/ ~ t.confirmed /\ t.age > ConfirmWindow

Ahead(s) == {i \in DOMAIN s : s[i].confirmed /\ s[i].position_odom > robot}

\* The first of the nearest confirmed tracks ahead of the robot.
Nearest(s) ==
    IF Ahead(s) = {} THEN 0
    ELSE s[CHOOSE i \in Ahead(s) : \A j \in Ahead(s) :
             \/ s[i].position_odom < s[j].position_odom
             \/ s[i].position_odom = s[j].position_odom /\ i <= j].id

\* f lists, in their order, the tracks that the timer keeps.
Keeps(f, n) ==
    /\ \A i, j \in 1 .. n : i < j => f[i] < f[j]
    /\ {f[i] : i \in 1 .. n} = {i \in DOMAIN tracks : ~ Expired(tracks[i])}

timer_callback ==
    /\ ~ in_frame
    /\ \E n \in 0 .. Len(tracks) : \E f \in [1 .. n -> DOMAIN tracks] :
          /\ Keeps(f, n)
          /\ LET kept == [i \in 1 .. n |-> tracks[f[i]]]
             IN  /\ tracks' = kept
                 /\ output' = [obstacles |-> {[id |-> kept[i].id, of |-> kept[i].of] :
                                                 i \in {j \in 1 .. n : kept[j].confirmed}},
                               nearest_in_lane_id |-> Nearest(kept)]
    /\ UNCHANGED <<next_id, camera, frameVars, robot>>

camera_callback ==
    /\ ~ in_frame /\ ~ camera
    /\ camera' = TRUE
    /\ UNCHANGED <<tracks, next_id, frameVars, robot, output>>

RobotMoves(r) ==
    /\ ~ in_frame
    /\ robot < r
    /\ robot' = r
    /\ UNCHANGED <<tracks, next_id, camera, frameVars, output>>

Next ==
    \/ FrameBegins
    \/ \E o \in Obstacle, e \in Offsets, in_lane \in BOOLEAN : Associate(o, Place[o] + e, in_lane)
    \/ \E o \in Obstacle : AssociateInvalid(o)
    \/ \E transform \in BOOLEAN : FrameEnds(transform)
    \/ timer_callback
    \/ camera_callback
    \/ \E r \in RobotSpots : RobotMoves(r)

Spec == Init /\ [][Next]_vars

\* The executor runs every callback that is due between two frames, and the camera
\* announces itself.
FairSpec == Spec /\ SF_vars(timer_callback) /\ SF_vars(camera_callback)

-----------------------------------------------------------------------------
(* Properties *)

TypeOK ==
    /\ DOMAIN tracks = 1 .. Len(tracks)
    /\ \A i \in DOMAIN tracks :
          /\ tracks[i].hits \in 1 .. ConfirmHits
          /\ tracks[i].age \in 1 .. ConfirmWindow + 1
          /\ tracks[i].misses \in 0 .. MaxMisses
          /\ tracks[i].out_of_lane \in 0 .. MaxOutOfLane
          /\ tracks[i].of \in Obstacle /\ tracks[i].position_odom \in Int
    /\ next_id \in Nat \ {0}
    /\ reported \subseteq Obstacle

\* An id, once given, is never given again and never moves to another track: the ids of
\* confirmed tracks are positive, distinct and smaller than next_id, and a tentative
\* track has none.
IdsAreFresh ==
    \A i \in DOMAIN tracks :
        /\ tracks[i].confirmed => tracks[i].id \in 1 .. next_id - 1
        /\ ~ tracks[i].confirmed => tracks[i].id = 0
        /\ \A j \in DOMAIN tracks : i # j /\ tracks[i].confirmed /\ tracks[j].confirmed
                                        => tracks[i].id # tracks[j].id

\* An obstacle has at most one track, whatever is missed, invalid or out of lane in
\* between, and the track stays with it: it never drifts to a neighbour, so an id never
\* comes to name another obstacle.
OneTrackPerObstacle ==
    /\ \A i \in DOMAIN tracks :
          /\ tracks[i].class_id = Class[tracks[i].of]
          /\ Away(tracks[i].position_odom, Place[tracks[i].of]) <= Noise
    /\ \A i, j \in DOMAIN tracks : tracks[i].of = tracks[j].of => i = j

\* Two consecutive lists give an obstacle the same id: an obstacle that is published
\* under a new id was absent from a list in between, so whoever reads the lists sees it go
\* before it sees it come back.
PublishedIdIsStable ==
    [][\A a \in output.obstacles, b \in output'.obstacles : a.of = b.of => a.id = b.id]_vars

\* Obstacle o is remembered under id n, out of the camera's sight.
KeptUnseen(o, n) ==
    \E i \in DOMAIN tracks :
        /\ tracks[i].of = o /\ tracks[i].id = n /\ tracks[i].confirmed
        /\ ~ is_visible(tracks[i].position_odom)
        /\ ~ Expired(tracks[i])

\* What the camera cannot see is not forgotten: only the robot's own motion or a new
\* detection of that very obstacle changes what is remembered of it.
UnseenIsKept ==
    [][\A o \in Obstacle, n \in 1 .. next_id - 1 :
          KeptUnseen(o, n) /\ o \notin reported' /\ robot' = robot => KeptUnseen(o, n)']_vars

\* An obstacle that is gone but whose place stays in sight is in the end no longer
\* published, provided frames without an invalid depth keep coming: one invalid depth
\* suspends the counting of misses for every track.
GhostIsForgotten ==
    \A o \in Obstacle :
        (/\ [](next_id <= MaxId)
         /\ []<><<FrameEnds(TRUE) /\ ~ any_invalid>>_vars
         /\ <>[](/\ o \notin reported
                 /\ \A i \in DOMAIN tracks :
                       tracks[i].of = o => is_visible(tracks[i].position_odom)))
        => <>[](\A a \in output.obstacles : a.of # o)

=============================================================================

------------------------ MODULE ObstacleMemoryProofs ------------------------
(***************************************************************************)
(* The obstacle memory, for any number of obstacles, any thresholds and    *)
(* any road, provided that a measurement is off by less than half a gate   *)
(* and obstacles of a class stand a gate and two errors apart, whatever    *)
(* the distance they are seen from makes of the gate.                      *)
(***************************************************************************)
EXTENDS ObstacleMemory, SequenceTheorems, TLAPS

Classes == {Class[o] : o \in Obstacle}

Track ==
    [id : Nat, class_id : Classes, position_odom : Int, hits : 1 .. ConfirmHits,
     age : 1 .. ConfirmWindow + 1, misses : 0 .. MaxMisses, out_of_lane : 0 .. MaxOutOfLane,
     confirmed : BOOLEAN, matched : BOOLEAN, of : Obstacle]

\* The track is where its obstacle is.
AtObstacle(t) ==
    t.class_id = Class[t.of] /\ Away(t.position_odom, Place[t.of]) <= Noise

\* Ids below n, for confirmed tracks only.
HasIdBelow(t, n) == IF t.confirmed THEN t.id \in 1 .. n - 1 ELSE t.id = 0

\* Distinct tracks are of distinct obstacles and have distinct ids.
Distinct(s) ==
    \A i, j \in DOMAIN s : i # j =>
        s[i].of # s[j].of /\ (s[i].confirmed /\ s[j].confirmed => s[i].id # s[j].id)

TracksOK(s, n) ==
    /\ s \in Seq(Track)
    /\ \A i \in DOMAIN s : AtObstacle(s[i]) /\ HasIdBelow(s[i], n)
    /\ Distinct(s)

\* What is published is still remembered, under its id: only the timer forgets.
OutputKept(s) ==
    \A a \in output.obstacles : \E i \in DOMAIN s :
        s[i].of = a.of /\ s[i].id = a.id /\ s[i].confirmed

\* The inductive invariant: within a frame, a matched track is that of an obstacle the
\* frame has reported, so the track of one that is still to come is free to match.
Inv ==
    /\ TracksOK(tracks, next_id)
    /\ next_id \in Nat \ {0}
    /\ in_frame \in BOOLEAN
    /\ reported \subseteq Obstacle
    /\ robot \in RobotSpots
    /\ in_frame => \A i \in DOMAIN tracks : tracks[i].matched => tracks[i].of \in reported
    /\ OutputKept(tracks)

-----------------------------------------------------------------------------
(* Sequences of tracks *)

\* Changing some tracks, but neither whose they are nor their ids, positions or classes.
LEMMA SameTracks ==
    ASSUME NEW s, NEW n \in Nat, TracksOK(s, n), NEW u, DOMAIN u = DOMAIN s,
           u = [i \in DOMAIN s |-> u[i]],
           \A i \in DOMAIN s :
              /\ u[i] \in Track /\ u[i].of = s[i].of /\ u[i].id = s[i].id
              /\ u[i].confirmed = s[i].confirmed /\ u[i].class_id = s[i].class_id
              /\ u[i].position_odom = s[i].position_odom
    PROVE  TracksOK(u, n) /\ (OutputKept(s) => OutputKept(u))
<1>1. u \in Seq(Track)
  <2>1. DOMAIN s = 1 .. Len(s) /\ Len(s) \in Nat
    BY DEF TracksOK
  <2>2. u \in [1 .. Len(s) -> Track]
    BY <2>1
  <2> QED BY <2>1, <2>2
<1>2. \A i \in DOMAIN u : AtObstacle(u[i]) /\ HasIdBelow(u[i], n)
  BY DEF TracksOK, AtObstacle, HasIdBelow
<1>3. Distinct(u)
  BY DEF TracksOK, Distinct
<1>4. OutputKept(s) => OutputKept(u)
  BY DEF OutputKept
<1> QED BY <1>1, <1>2, <1>3, <1>4 DEF TracksOK

\* The counters stay in their ranges.
LEMMA CappedType ==
    /\ \A b \in Nat : \A n \in 0 .. b : Capped(n, b) \in 0 .. b
    /\ \A b \in Nat : \A n \in 1 .. b : Capped(n, b) \in 1 .. b
BY DEF Capped

-----------------------------------------------------------------------------
(* Association *)

\* The gate of a detection is a number, and at least gate_base.
LEMMA GateType ==
    ASSUME Inv, NEW o \in Obstacle, NEW e \in Offsets
    PROVE  Gate(robot, Place[o] + e) \in Nat /\ GateBase <= Gate(robot, Place[o] + e)
<1> DEFINE d == Away(robot, Place[o] + e)
           q == GateRange * d
<1>1. robot \in Int /\ Place[o] \in Int /\ e \in Int
  BY MemoryAssumption DEF Inv
<1>2. d \in Nat
  BY <1>1 DEF Away
<1>3. GateBase \in Nat /\ GateRange \in Nat /\ GateUnit \in Nat \ {0}
  BY MemoryAssumption
<1> HIDE DEF d
<1>4. q \in Nat
  BY <1>2, <1>3
<1> HIDE DEF q
<1>5. q \div GateUnit \in Nat
  BY <1>3, <1>4
<1>6. Gate(robot, Place[o] + e) = GateBase + q \div GateUnit
  BY DEF Gate, q, d
<1> QED BY <1>3, <1>5, <1>6

\* A detection of o matches only the track of o.
LEMMA MatchesOwn ==
    ASSUME Inv, NEW o \in Obstacle, NEW e \in Offsets, NEW i \in DOMAIN tracks,
           MayMatch(tracks[i], Class[o], Place[o] + e)
    PROVE  tracks[i].of = o
<1> DEFINE t == tracks[i]
           x == Place[o] + e
           g == Gate(robot, x)
<1>1. t \in Track /\ AtObstacle(t)
  BY DEF Inv, TracksOK
<1>2. /\ t.position_odom \in Int /\ t.of \in Obstacle /\ Place[t.of] \in Int
      /\ Place[o] \in Int /\ e \in -Noise .. Noise /\ Noise \in Nat /\ g \in Nat
  BY <1>1, GateType, MemoryAssumption DEF Track
<1>3. Class[t.of] = Class[o]
  BY <1>1 DEF MayMatch, AtObstacle
<1>4. Away(t.position_odom, x) < g /\ Away(t.position_odom, Place[t.of]) <= Noise
  BY <1>1 DEF MayMatch, AtObstacle
<1>5. t.of # o => Away(Place[o], Place[t.of]) >= g + 2 * Noise
  BY <1>2, <1>3, MemoryAssumption DEF Inv
<1> HIDE DEF t, g
<1>6. Away(Place[o], Place[t.of]) < g + 2 * Noise
  BY <1>2, <1>4 DEF Away
<1>7. Away(Place[o], Place[t.of]) \in Int
  BY <1>2 DEF Away
<1> QED BY <1>2, <1>5, <1>6, <1>7 DEF t

\* The track of o, if it is not matched yet, is a candidate for a detection of o.
LEMMA OwnMatches ==
    ASSUME Inv, NEW o \in Obstacle, NEW e \in Offsets, NEW i \in DOMAIN tracks,
           tracks[i].of = o, ~ tracks[i].matched
    PROVE  MayMatch(tracks[i], Class[o], Place[o] + e)
<1> DEFINE t == tracks[i]
           g == Gate(robot, Place[o] + e)
<1>1. t \in Track /\ AtObstacle(t)
  BY DEF Inv, TracksOK
<1>2. /\ t.position_odom \in Int /\ Place[o] \in Int /\ e \in -Noise .. Noise
      /\ Noise \in Nat /\ g \in Nat /\ GateBase \in Nat /\ 2 * Noise < GateBase /\ GateBase <= g
  BY <1>1, GateType, MemoryAssumption DEF Track
<1>3. t.class_id = Class[o] /\ Away(t.position_odom, Place[o]) <= Noise
  BY <1>1 DEF AtObstacle
<1>4. Away(t.position_odom, Place[o] + e) < g
  <2> HIDE DEF t, g
  <2> QED BY <1>2, <1>3 DEF Away
<1> QED BY <1>3, <1>4 DEF MayMatch

\* Smoothing keeps the estimate within the error of the measurements.
LEMMA SmoothedNear ==
    ASSUME NEW c \in Int, NEW e \in Offsets, NEW q \in Int, Away(q, c) <= Noise,
           NEW p \in Between(q, c + e)
    PROVE  p \in Int /\ Away(p, c) <= Noise
<1>1. e \in -Noise .. Noise /\ Noise \in Nat
  BY MemoryAssumption
<1> QED BY <1>1 DEF Between, Away

\* The track of o takes a detection of o.
LEMMA MatchStep ==
    ASSUME Inv, in_frame, NEW o \in Obstacle, NEW e \in Offsets, NEW in_lane \in BOOLEAN,
           NEW i \in DOMAIN tracks, IsBest(i, Class[o], Place[o] + e),
           NEW p \in Between(tracks[i].position_odom, Place[o] + e), Match(i, p, in_lane)
    PROVE  /\ TracksOK(tracks', next_id') /\ next_id' \in Nat \ {0}
           /\ OutputKept(tracks')
           /\ DOMAIN tracks' = DOMAIN tracks
           /\ tracks[i].of = o /\ tracks'[i].of = o
           /\ \A j \in DOMAIN tracks : j # i => tracks'[j] = tracks[j]
<1> DEFINE t == [tracks[i] EXCEPT !.position_odom = p,
                                  !.hits = Capped(@, ConfirmHits),
                                  !.misses = 0,
                                  !.matched = TRUE,
                                  !.out_of_lane = IF in_lane THEN 0 ELSE Capped(@, MaxOutOfLane)]
           u == IF Confirms(t) THEN Numbered(t) ELSE t
<1>1. tracks[i].of = o
  BY MatchesOwn DEF IsBest, Candidates
<1>2. tracks[i] \in Track /\ AtObstacle(tracks[i]) /\ HasIdBelow(tracks[i], next_id)
  BY DEF Inv, TracksOK
<1>3. p \in Int /\ Away(p, Place[o]) <= Noise
  <2>1. Place[o] \in Int /\ tracks[i].position_odom \in Int
    BY <1>2, MemoryAssumption DEF Track
  <2>2. Away(tracks[i].position_odom, Place[o]) <= Noise
    BY <1>1, <1>2 DEF AtObstacle
  <2> QED BY <2>1, <2>2, SmoothedNear
<1>4. /\ t \in Track /\ t.of = o /\ t.class_id = tracks[i].class_id /\ t.position_odom = p
      /\ t.id = tracks[i].id /\ t.confirmed = tracks[i].confirmed
  <2> DEFINE h == Capped(tracks[i].hits, ConfirmHits)
             l == IF in_lane THEN 0 ELSE Capped(tracks[i].out_of_lane, MaxOutOfLane)
  <2>1. /\ tracks[i].hits \in 1 .. ConfirmHits /\ tracks[i].out_of_lane \in 0 .. MaxOutOfLane
        /\ ConfirmHits \in Nat /\ MaxOutOfLane \in Nat /\ MaxMisses \in Nat
    BY <1>2, MemoryAssumption DEF Track
  <2>2. h \in 1 .. ConfirmHits /\ l \in 0 .. MaxOutOfLane /\ 0 \in 0 .. MaxMisses
    <3>1. h \in 1 .. ConfirmHits
      BY <2>1, CappedType, Zenon
    <3>2. Capped(tracks[i].out_of_lane, MaxOutOfLane) \in 0 .. MaxOutOfLane
      BY <2>1, CappedType, Zenon
    <3> QED BY <2>1, <3>1, <3>2
  <2>3. t = [tracks[i] EXCEPT !.position_odom = p, !.hits = h, !.misses = 0, !.matched = TRUE,
                              !.out_of_lane = l]
    OBVIOUS
  <2> HIDE DEF h, l, t
  <2> QED BY <1>1, <1>2, <1>3, <2>2, <2>3 DEF Track
<1>5. AtObstacle(t)
  BY <1>1, <1>2, <1>3, <1>4 DEF AtObstacle
<1> HIDE DEF t
<1>6. /\ tracks' = [tracks EXCEPT ![i] = u]
      /\ next_id' = IF Confirms(t) THEN next_id + 1 ELSE next_id
  BY DEF Match, t
<1>7. next_id \in Nat \ {0} /\ next_id' \in Nat \ {0} /\ next_id <= next_id'
  BY <1>6 DEF Inv
<1>8. /\ u \in Track /\ u.of = o /\ AtObstacle(u) /\ HasIdBelow(u, next_id')
      /\ tracks[i].confirmed => u.confirmed /\ u.id = tracks[i].id
      /\ u.confirmed /\ ~ tracks[i].confirmed => u.id = next_id
  <2>1. CASE Confirms(t)
    <3>1. /\ u = [t EXCEPT !.confirmed = TRUE, !.id = next_id] /\ next_id' = next_id + 1
          /\ ~ tracks[i].confirmed
      BY <1>4, <1>6, <2>1 DEF Numbered, Confirms
    <3>2. /\ u \in Track /\ u.of = o /\ u.class_id = t.class_id
          /\ u.position_odom = t.position_odom /\ u.confirmed /\ u.id = next_id
      BY <1>4, <1>7, <3>1 DEF Track
    <3> HIDE DEF u
    <3> QED BY <1>4, <1>5, <1>7, <3>1, <3>2 DEF AtObstacle, HasIdBelow
  <2>2. CASE ~ Confirms(t)
    <3>1. u = t /\ next_id' = next_id
      BY <1>6, <2>2
    <3> QED BY <1>2, <1>4, <1>5, <3>1 DEF HasIdBelow
  <2> QED BY <2>1, <2>2
<1> HIDE DEF u
<1>9. /\ tracks' \in Seq(Track) /\ DOMAIN tracks' = DOMAIN tracks /\ tracks'[i] = u
      /\ \A j \in DOMAIN tracks : j # i => tracks'[j] = tracks[j]
  BY <1>6, <1>8 DEF Inv, TracksOK
<1>10. \A j \in DOMAIN tracks : AtObstacle(tracks[j]) /\ HasIdBelow(tracks[j], next_id')
  BY <1>7 DEF Inv, TracksOK, HasIdBelow
<1>11. Distinct(tracks')
  <2> SUFFICES ASSUME NEW j \in DOMAIN tracks, NEW k \in DOMAIN tracks, j # k
               PROVE  /\ tracks'[j].of # tracks'[k].of
                      /\ tracks'[j].confirmed /\ tracks'[k].confirmed
                            => tracks'[j].id # tracks'[k].id
    BY <1>9 DEF Distinct
  <2>1. /\ tracks[j].of # tracks[k].of
        /\ tracks[j].confirmed /\ tracks[k].confirmed => tracks[j].id # tracks[k].id
    BY DEF Inv, TracksOK, Distinct
  <2>2. \A m \in DOMAIN tracks : tracks[m].confirmed => tracks[m].id # next_id
    BY <1>7 DEF Inv, TracksOK, HasIdBelow
  <2>3. CASE j = i
    BY <1>1, <1>8, <1>9, <2>1, <2>2, <2>3
  <2>4. CASE k = i
    BY <1>1, <1>8, <1>9, <2>1, <2>2, <2>4
  <2>5. CASE j # i /\ k # i
    BY <1>9, <2>1, <2>5
  <2> QED BY <2>3, <2>4, <2>5
<1>12. OutputKept(tracks')
  BY <1>1, <1>8, <1>9 DEF Inv, OutputKept
<1> QED BY <1>1, <1>7, <1>8, <1>9, <1>10, <1>11, <1>12 DEF TracksOK

\* A detection in the lane that no track takes makes the first track of its obstacle.
LEMMA NewTrackStep ==
    ASSUME Inv, in_frame, NEW o \in Obstacle, NEW e \in Offsets, o \notin reported,
           Candidates(Class[o], Place[o] + e) = {}
    PROVE  LET s == Append(tracks, NewTrack(o, Place[o] + e))
           IN  /\ TracksOK(s, next_id) /\ OutputKept(s)
               /\ \A i \in DOMAIN tracks : i \in DOMAIN s /\ s[i] = tracks[i]
               /\ \A i \in DOMAIN s : i \in DOMAIN tracks \/ s[i].of = o
<1> DEFINE x == Place[o] + e
           t == NewTrack(o, x)
           s == Append(tracks, t)
<1>1. \A i \in DOMAIN tracks : tracks[i].of # o
  BY OwnMatches DEF Inv, Candidates
<1>2. /\ Place[o] \in Int /\ e \in -Noise .. Noise /\ Noise \in Nat /\ x \in Int
      /\ ConfirmHits \in Nat \ {0, 1} /\ ConfirmWindow \in Nat /\ MaxMisses \in Nat
      /\ MaxOutOfLane \in Nat
  BY MemoryAssumption
<1>3. t \in Track /\ t.of = o /\ ~ t.confirmed /\ HasIdBelow(t, next_id)
  BY <1>2 DEF NewTrack, Track, Classes, HasIdBelow
<1>4. AtObstacle(t)
  BY <1>2 DEF NewTrack, AtObstacle, Away
<1> HIDE DEF t
<1>5. /\ s \in Seq(Track) /\ Len(s) = Len(tracks) + 1 /\ Len(tracks) \in Nat
      /\ \A i \in 1 .. Len(tracks) : s[i] = tracks[i]
      /\ s[Len(tracks) + 1] = t
  BY <1>3, AppendProperties DEF Inv, TracksOK
<1>6. DOMAIN s = 1 .. Len(tracks) + 1 /\ DOMAIN tracks = 1 .. Len(tracks)
  BY <1>5 DEF Inv, TracksOK
<1> HIDE DEF s
<1>7. \A i \in DOMAIN s : (i \in DOMAIN tracks /\ s[i] = tracks[i]) \/ (i \notin DOMAIN tracks /\ s[i] = t)
  BY <1>5, <1>6
<1>8. \A i, j \in DOMAIN s : i # j => i \in DOMAIN tracks \/ j \in DOMAIN tracks
  BY <1>5, <1>6
<1>9. \A i \in DOMAIN s : AtObstacle(s[i]) /\ HasIdBelow(s[i], next_id)
  BY <1>3, <1>4, <1>7 DEF Inv, TracksOK
<1>10. Distinct(s)
  BY <1>1, <1>3, <1>7, <1>8 DEF Inv, TracksOK, Distinct
<1>11. \A i \in DOMAIN tracks : i \in DOMAIN s /\ s[i] = tracks[i]
  BY <1>5, <1>6
<1>12. OutputKept(s)
  BY <1>11 DEF Inv, OutputKept
<1> QED BY <1>3, <1>5, <1>7, <1>9, <1>10, <1>11, <1>12 DEF TracksOK, s, t

-----------------------------------------------------------------------------
(* The steps *)

\* The invariant holds initially.
LEMMA InitInv == Init => Inv
<1> SUFFICES ASSUME Init PROVE Inv
  OBVIOUS
<1>1. tracks = <<>> /\ tracks \in Seq(Track) /\ DOMAIN tracks = {}
  BY DEF Init
<1>2. TracksOK(tracks, next_id)
  BY <1>1 DEF TracksOK, Distinct
<1>3. OutputKept(tracks)
  BY DEF Init, OutputKept
<1>4. next_id \in Nat \ {0} /\ in_frame \in BOOLEAN /\ reported \subseteq Obstacle
  <2>1. next_id \in Nat \ {0}
    BY SMT DEF Init
  <2>2. in_frame \in BOOLEAN
    BY Zenon DEF Init
  <2>3. reported \subseteq Obstacle
    BY Zenon DEF Init
  <2> QED BY <2>1, <2>2, <2>3
<1>5. \A i \in DOMAIN tracks : tracks[i].matched => tracks[i].of \in reported
  BY <1>1
<1>6. robot \in RobotSpots
  BY DEF Init
<1> QED BY <1>2, <1>3, <1>4, <1>5, <1>6, Zenon DEF Inv

\* A frame begins.
LEMMA FrameBeginsStep == Inv /\ FrameBegins => Inv'
<1> SUFFICES ASSUME Inv, FrameBegins PROVE Inv'
  OBVIOUS
<1> DEFINE u == [i \in DOMAIN tracks |->
                    [tracks[i] EXCEPT !.matched = FALSE, !.age = Capped(@, ConfirmWindow + 1)]]
<1>1. tracks' = u /\ UNCHANGED <<next_id, output, robot>> /\ in_frame' = TRUE /\ reported' = {}
  BY DEF FrameBegins
<1>2. ASSUME NEW i \in DOMAIN tracks
      PROVE  /\ u[i] \in Track /\ u[i].of = tracks[i].of /\ u[i].id = tracks[i].id
             /\ u[i].confirmed = tracks[i].confirmed /\ u[i].class_id = tracks[i].class_id
             /\ u[i].position_odom = tracks[i].position_odom /\ ~ u[i].matched
  <2> DEFINE a == Capped(tracks[i].age, ConfirmWindow + 1)
  <2>1. tracks[i] \in Track
    BY DEF Inv, TracksOK
  <2>2. a \in 1 .. ConfirmWindow + 1
    <3>1. tracks[i].age \in 1 .. ConfirmWindow + 1 /\ ConfirmWindow + 1 \in Nat
      BY <2>1, MemoryAssumption DEF Track
    <3> QED BY <3>1, CappedType, Zenon
  <2>3. u[i] = [tracks[i] EXCEPT !.matched = FALSE, !.age = a]
    OBVIOUS
  <2> HIDE DEF a, u
  <2> QED BY <2>1, <2>2, <2>3 DEF Track
<1>3. DOMAIN u = DOMAIN tracks /\ u = [i \in DOMAIN tracks |-> u[i]]
  OBVIOUS
<1> HIDE DEF u
<1>4. TracksOK(u, next_id) /\ OutputKept(u)
  BY <1>2, <1>3, SameTracks DEF Inv
<1> QED BY <1>1, <1>2, <1>3, <1>4 DEF Inv, OutputKept

\* A detection with a valid depth.
LEMMA AssociateStep ==
    ASSUME Inv, NEW o \in Obstacle, NEW e \in Offsets, NEW in_lane \in BOOLEAN,
           Associate(o, Place[o] + e, in_lane)
    PROVE  Inv'
<1>1. /\ in_frame /\ o \notin reported /\ reported' = reported \cup {o}
      /\ in_frame' = in_frame /\ output' = output /\ robot' = robot
  BY DEF Associate
<1>2. CASE \E i \in DOMAIN tracks :
              /\ IsBest(i, Class[o], Place[o] + e)
              /\ \E p \in Between(tracks[i].position_odom, Place[o] + e) : Match(i, p, in_lane)
  <2>1. PICK i \in DOMAIN tracks :
              /\ IsBest(i, Class[o], Place[o] + e)
              /\ \E p \in Between(tracks[i].position_odom, Place[o] + e) : Match(i, p, in_lane)
    BY <1>2
  <2>2. /\ TracksOK(tracks', next_id') /\ next_id' \in Nat \ {0}
        /\ OutputKept(tracks')
        /\ DOMAIN tracks' = DOMAIN tracks
        /\ tracks[i].of = o /\ tracks'[i].of = o
        /\ \A j \in DOMAIN tracks : j # i => tracks'[j] = tracks[j]
    BY <1>1, <2>1, MatchStep
  <2>3. reported' \subseteq Obstacle /\ in_frame' \in BOOLEAN /\ robot' \in RobotSpots
    BY <1>1 DEF Inv
  <2>4. \A j \in DOMAIN tracks' : tracks'[j].matched => tracks'[j].of \in reported'
    BY <1>1, <2>2 DEF Inv
  <2>5. OutputKept(tracks)'
    BY <1>1, <2>2 DEF OutputKept
  <2> QED BY <2>2, <2>3, <2>4, <2>5 DEF Inv
<1>3. CASE /\ Candidates(Class[o], Place[o] + e) = {}
           /\ tracks' = IF in_lane THEN Append(tracks, NewTrack(o, Place[o] + e)) ELSE tracks
           /\ UNCHANGED next_id
  <2>1. CASE in_lane
    <3> DEFINE s == Append(tracks, NewTrack(o, Place[o] + e))
    <3>1. /\ TracksOK(s, next_id) /\ OutputKept(s)
          /\ \A i \in DOMAIN tracks : i \in DOMAIN s /\ s[i] = tracks[i]
          /\ \A i \in DOMAIN s : i \in DOMAIN tracks \/ s[i].of = o
      BY <1>1, <1>3, NewTrackStep
    <3>2. tracks' = s
      BY <1>3, <2>1
    <3> HIDE DEF s
    <3>3. /\ reported' \subseteq Obstacle /\ in_frame' \in BOOLEAN /\ robot' \in RobotSpots
          /\ next_id' \in Nat \ {0}
      BY <1>1, <1>3 DEF Inv
    <3>4. \A j \in DOMAIN tracks' : tracks'[j].matched => tracks'[j].of \in reported'
      BY <1>1, <3>1, <3>2 DEF Inv
    <3>5. OutputKept(tracks)'
      BY <1>1, <3>1, <3>2 DEF OutputKept
    <3>6. TracksOK(tracks', next_id')
      BY <1>3, <3>1, <3>2
    <3> QED BY <3>3, <3>4, <3>5, <3>6 DEF Inv
  <2>2. CASE ~ in_lane
    BY <1>1, <1>3, <2>2 DEF Inv, OutputKept
  <2> QED BY <2>1, <2>2
<1> QED BY <1>2, <1>3 DEF Associate

\* A frame ends.
LEMMA FrameEndsStep == ASSUME Inv, NEW b \in BOOLEAN, FrameEnds(b) PROVE Inv'
<1> DEFINE u == [i \in DOMAIN tracks |->
                    IF Missed(tracks[i]) THEN [tracks[i] EXCEPT !.misses = Capped(@, MaxMisses)]
                    ELSE tracks[i]]
<1>1. /\ tracks' = u \/ tracks' = tracks
      /\ UNCHANGED <<next_id, output, robot>> /\ in_frame' = FALSE /\ reported' = {}
  BY DEF FrameEnds
<1>2. ASSUME NEW i \in DOMAIN tracks
      PROVE  /\ u[i] \in Track /\ u[i].of = tracks[i].of /\ u[i].id = tracks[i].id
             /\ u[i].confirmed = tracks[i].confirmed /\ u[i].class_id = tracks[i].class_id
             /\ u[i].position_odom = tracks[i].position_odom
  <2> DEFINE m == Capped(tracks[i].misses, MaxMisses)
  <2>1. tracks[i] \in Track
    BY DEF Inv, TracksOK
  <2>2. m \in 0 .. MaxMisses
    <3>1. tracks[i].misses \in 0 .. MaxMisses /\ MaxMisses \in Nat
      BY <2>1, MemoryAssumption DEF Track
    <3> QED BY <3>1, CappedType, Zenon
  <2>3. u[i] = IF Missed(tracks[i]) THEN [tracks[i] EXCEPT !.misses = m] ELSE tracks[i]
    OBVIOUS
  <2> HIDE DEF m, u
  <2> QED BY <2>1, <2>2, <2>3 DEF Track
<1>3. DOMAIN u = DOMAIN tracks /\ u = [i \in DOMAIN tracks |-> u[i]]
  OBVIOUS
<1> HIDE DEF u
<1>4. TracksOK(u, next_id) /\ OutputKept(u)
  BY <1>2, <1>3, SameTracks DEF Inv
<1> QED BY <1>1, <1>4 DEF Inv, OutputKept

\* The timer forgets what has expired and publishes the rest.
LEMMA TimerStep ==
    ASSUME Inv, timer_callback
    PROVE  /\ Inv'
           /\ \A i \in DOMAIN tracks' : \E j \in DOMAIN tracks : tracks'[i] = tracks[j]
           /\ \A j \in DOMAIN tracks : ~ Expired(tracks[j]) =>
                 \E i \in DOMAIN tracks' : tracks'[i] = tracks[j]
           /\ \A b \in output'.obstacles : \E i \in DOMAIN tracks' :
                 tracks'[i].of = b.of /\ tracks'[i].id = b.id /\ tracks'[i].confirmed
<1>1. PICK n \in 0 .. Len(tracks) : \E f \in [1 .. n -> DOMAIN tracks] :
          /\ Keeps(f, n)
          /\ LET kept == [i \in 1 .. n |-> tracks[f[i]]]
             IN  /\ tracks' = kept
                 /\ output' = [obstacles |-> {[id |-> kept[i].id, of |-> kept[i].of] :
                                                 i \in {j \in 1 .. n : kept[j].confirmed}},
                               nearest_in_lane_id |-> Nearest(kept)]
  BY DEF timer_callback
<1>2. PICK f \in [1 .. n -> DOMAIN tracks] :
          /\ Keeps(f, n)
          /\ LET kept == [i \in 1 .. n |-> tracks[f[i]]]
             IN  /\ tracks' = kept
                 /\ output' = [obstacles |-> {[id |-> kept[i].id, of |-> kept[i].of] :
                                                 i \in {j \in 1 .. n : kept[j].confirmed}},
                               nearest_in_lane_id |-> Nearest(kept)]
  BY <1>1
<1> DEFINE kept == [i \in 1 .. n |-> tracks[f[i]]]
<1>3. tracks' = kept /\ DOMAIN tracks' = 1 .. n /\ \A i \in 1 .. n : tracks'[i] = tracks[f[i]]
  BY <1>2
<1>4. output'.obstacles = {[id |-> kept[i].id, of |-> kept[i].of] :
                              i \in {j \in 1 .. n : kept[j].confirmed}}
  BY <1>2
<1>5. n \in Nat /\ UNCHANGED <<next_id, in_frame, reported, robot>> /\ in_frame = FALSE
  <2>1. Len(tracks) \in Nat
    BY DEF Inv, TracksOK
  <2> QED BY <2>1 DEF timer_callback, frameVars, Inv
<1>6. tracks' \in Seq(Track)
  <2>1. \A j \in DOMAIN tracks : tracks[j] \in Track
    BY DEF Inv, TracksOK
  <2>2. tracks' \in [1 .. n -> Track]
    BY <1>3, <2>1
  <2> QED BY <1>5, <2>2
<1>7. \A i, j \in 1 .. n : i # j => f[i] # f[j]
  <2>1. \A i, j \in 1 .. n : i < j => f[i] < f[j]
    BY <1>2 DEF Keeps
  <2>2. \A i \in 1 .. n : f[i] \in Int
    BY DEF Inv, TracksOK
  <2> QED BY <1>5, <2>1, <2>2
<1>8. Distinct(tracks')
  BY <1>3, <1>7 DEF Inv, TracksOK, Distinct
<1>9. TracksOK(tracks', next_id')
  BY <1>3, <1>5, <1>6, <1>8 DEF Inv, TracksOK
<1>10. \A j \in DOMAIN tracks : ~ Expired(tracks[j]) =>
          \E i \in DOMAIN tracks' : tracks'[i] = tracks[j]
  <2> SUFFICES ASSUME NEW j \in DOMAIN tracks, ~ Expired(tracks[j])
               PROVE  \E i \in DOMAIN tracks' : tracks'[i] = tracks[j]
    OBVIOUS
  <2>1. j \in {f[i] : i \in 1 .. n}
    BY <1>2 DEF Keeps
  <2> QED BY <1>3, <2>1
<1>11. \A b \in output'.obstacles : \E i \in DOMAIN tracks' :
          tracks'[i].of = b.of /\ tracks'[i].id = b.id /\ tracks'[i].confirmed
  <2> SUFFICES ASSUME NEW b \in output'.obstacles
               PROVE  \E i \in DOMAIN tracks' :
                         tracks'[i].of = b.of /\ tracks'[i].id = b.id /\ tracks'[i].confirmed
    OBVIOUS
  <2> HIDE DEF kept
  <2>1. PICK i \in {j \in 1 .. n : kept[j].confirmed} :
            b = [id |-> kept[i].id, of |-> kept[i].of]
    BY <1>4, Zenon
  <2>2. b.of = kept[i].of /\ b.id = kept[i].id
    BY <2>1
  <2>3. i \in DOMAIN tracks' /\ tracks' = kept /\ kept[i].confirmed
    BY <1>3, <2>1
  <2> QED BY <2>2, <2>3, Zenon
<1>12. OutputKept(tracks)'
  BY <1>11 DEF OutputKept
<1> QED BY <1>3, <1>5, <1>9, <1>10, <1>11, <1>12 DEF Inv

\* Every step keeps the invariant.
LEMMA NextInv == Inv /\ [Next]_vars => Inv'
<1> SUFFICES ASSUME Inv, [Next]_vars PROVE Inv'
  OBVIOUS
<1>1. ASSUME NEW o \in Obstacle, AssociateInvalid(o) PROVE Inv'
  BY <1>1 DEF AssociateInvalid, Inv, OutputKept
<1>2. CASE camera_callback
  BY <1>2 DEF camera_callback, frameVars, Inv, OutputKept
<1>3. ASSUME NEW r \in RobotSpots, RobotMoves(r) PROVE Inv'
  BY <1>3 DEF RobotMoves, frameVars, Inv, OutputKept
<1>4. CASE UNCHANGED vars
  BY <1>4 DEF vars, frameVars, Inv, OutputKept
<1> QED BY <1>1, <1>2, <1>3, <1>4, FrameBeginsStep, AssociateStep, FrameEndsStep, TimerStep DEF Next

\* The invariant holds throughout.
LEMMA Invariance == Spec => []Inv
BY InitInv, NextInv, PTL DEF Spec

-----------------------------------------------------------------------------
(* The results *)

\* The invariant implies what the run checks.
LEMMA InvImplies == Inv => TypeOK /\ IdsAreFresh /\ OneTrackPerObstacle
<1> SUFFICES ASSUME Inv PROVE TypeOK /\ IdsAreFresh /\ OneTrackPerObstacle
  OBVIOUS
<1>1. \A i \in DOMAIN tracks : tracks[i] \in Track
  BY DEF Inv, TracksOK
<1>2. TypeOK
  <2>1. \A t \in Track :
            /\ t.hits \in 1 .. ConfirmHits /\ t.age \in 1 .. ConfirmWindow + 1
            /\ t.misses \in 0 .. MaxMisses /\ t.out_of_lane \in 0 .. MaxOutOfLane
            /\ t.of \in Obstacle /\ t.position_odom \in Int
    BY DEF Track
  <2>2. DOMAIN tracks = 1 .. Len(tracks)
    BY DEF Inv, TracksOK
  <2> QED BY <1>1, <2>1, <2>2 DEF Inv, TypeOK
<1>3. IdsAreFresh
  BY DEF Inv, TracksOK, Distinct, HasIdBelow, IdsAreFresh
<1>4. OneTrackPerObstacle
  BY DEF Inv, TracksOK, Distinct, AtObstacle, OneTrackPerObstacle
<1> QED BY <1>2, <1>3, <1>4

\* The counters of the tracks stay in their ranges.
THEOREM TypeCorrect == Spec => []TypeOK
BY Invariance, InvImplies, PTL

\* obstacle_memory gives an id once.
THEOREM FreshIds == Spec => []IdsAreFresh
BY Invariance, InvImplies, PTL

\* obstacle_memory keeps one track per obstacle, and the track stays with it.
THEOREM OneTrackEach == Spec => []OneTrackPerObstacle
BY Invariance, InvImplies, PTL

\* Two consecutive lists give an obstacle the same id.
THEOREM StableIds == Spec => PublishedIdIsStable
<1> DEFINE Stable == \A a \in output.obstacles, b \in output'.obstacles : a.of = b.of => a.id = b.id
<1>1. Inv /\ [Next]_vars => Stable
  <2> SUFFICES ASSUME Inv, [Next]_vars,
                      NEW a \in output.obstacles, NEW b \in output'.obstacles, a.of = b.of
               PROVE  a.id = b.id
    OBVIOUS
  <2>1. PICK i \in DOMAIN tracks : tracks[i].of = a.of /\ tracks[i].id = a.id
    BY DEF Inv, OutputKept
  <2>2. CASE timer_callback
    <3>1. PICK k \in DOMAIN tracks' : tracks'[k].of = b.of /\ tracks'[k].id = b.id
      BY <2>2, TimerStep
    <3>2. PICK j \in DOMAIN tracks : tracks'[k] = tracks[j]
      BY <2>2, <3>1, TimerStep
    <3>3. i = j
      BY <2>1, <3>1, <3>2 DEF Inv, TracksOK, Distinct
    <3> QED BY <2>1, <3>1, <3>2, <3>3
  <2>3. CASE ~ timer_callback
    <3>1. output' = output
      BY <2>3 DEF Next, FrameBegins, Associate, AssociateInvalid, FrameEnds, camera_callback,
                  RobotMoves, vars
    <3>2. PICK j \in DOMAIN tracks : tracks[j].of = b.of /\ tracks[j].id = b.id
      BY <3>1 DEF Inv, OutputKept
    <3> QED BY <2>1, <3>2 DEF Inv, TracksOK, Distinct
  <2> QED BY <2>2, <2>3
<1>2. Inv /\ [Next]_vars => [Stable]_vars
  BY <1>1
<1> QED BY <1>2, Invariance, PTL DEF Spec, PublishedIdIsStable

\* Track t remembers o under id n, out of sight.
RemembersUnseen(t, o, n) ==
    t.of = o /\ t.id = n /\ t.confirmed /\ ~ is_visible(t.position_odom) /\ ~ Expired(t)

\* What the camera cannot see is forgotten only when the robot passes it or a detection of
\* that very obstacle arrives.
THEOREM UnseenKept == Spec => UnseenIsKept
<1> DEFINE Kept == \A o \in Obstacle, n \in 1 .. next_id - 1 :
                KeptUnseen(o, n) /\ o \notin reported' /\ robot' = robot => KeptUnseen(o, n)'
<1>1. Inv /\ [Next]_vars => Kept
  <2> SUFFICES ASSUME Inv, [Next]_vars, NEW o \in Obstacle, NEW n \in 1 .. next_id - 1,
                      KeptUnseen(o, n), o \notin reported', robot' = robot
               PROVE  KeptUnseen(o, n)'
    OBVIOUS
  <2>1. PICK i \in DOMAIN tracks : RemembersUnseen(tracks[i], o, n)
    BY DEF KeptUnseen, RemembersUnseen
  <2>2. tracks[i] \in Track
    BY DEF Inv, TracksOK
  <2>3. SUFFICES \E j \in DOMAIN tracks' : RemembersUnseen(tracks'[j], o, n)
    BY DEF KeptUnseen, RemembersUnseen, is_visible, Expired
  <2>4. ASSUME NEW j \in DOMAIN tracks', tracks'[j] = tracks[i]
        PROVE  RemembersUnseen(tracks'[j], o, n)
    BY <2>1, <2>4
  <2>5. CASE UNCHANGED tracks
    BY <2>1, <2>5
  <2>6. CASE FrameBegins
    <3> DEFINE t == [tracks[i] EXCEPT !.matched = FALSE, !.age = Capped(@, ConfirmWindow + 1)]
    <3>1. i \in DOMAIN tracks' /\ tracks'[i] = t
      BY <2>6 DEF FrameBegins
    <3>2. RemembersUnseen(t, o, n)
      BY <2>1, <2>2 DEF RemembersUnseen, Track, Expired
    <3> QED BY <3>1, <3>2
  <2>7. ASSUME NEW q \in Obstacle, NEW e \in Offsets, NEW in_lane \in BOOLEAN,
               Associate(q, Place[q] + e, in_lane)
        PROVE  \E j \in DOMAIN tracks' : RemembersUnseen(tracks'[j], o, n)
    <3>1. in_frame /\ q \notin reported /\ q # o
      BY <2>7 DEF Associate
    <3>2. i \in DOMAIN tracks' /\ tracks'[i] = tracks[i]
      <4>1. CASE \E k \in DOMAIN tracks :
                    /\ IsBest(k, Class[q], Place[q] + e)
                    /\ \E p \in Between(tracks[k].position_odom, Place[q] + e) : Match(k, p, in_lane)
        <5>1. PICK k \in DOMAIN tracks :
                    /\ IsBest(k, Class[q], Place[q] + e)
                    /\ \E p \in Between(tracks[k].position_odom, Place[q] + e) : Match(k, p, in_lane)
          BY <4>1
        <5>2. /\ DOMAIN tracks' = DOMAIN tracks /\ tracks[k].of = q
              /\ \A j \in DOMAIN tracks : j # k => tracks'[j] = tracks[j]
          BY <3>1, <5>1, MatchStep
        <5> QED BY <2>1, <3>1, <5>2 DEF RemembersUnseen
      <4>2. CASE /\ Candidates(Class[q], Place[q] + e) = {}
                 /\ tracks' = IF in_lane THEN Append(tracks, NewTrack(q, Place[q] + e)) ELSE tracks
        <5> DEFINE s == Append(tracks, NewTrack(q, Place[q] + e))
        <5>1. \A j \in DOMAIN tracks : j \in DOMAIN s /\ s[j] = tracks[j]
          BY <3>1, <4>2, NewTrackStep
        <5> HIDE DEF s
        <5>2. tracks' = s \/ tracks' = tracks
          BY <4>2 DEF s
        <5> QED BY <5>1, <5>2
      <4> QED BY <2>7, <4>1, <4>2 DEF Associate
    <3> QED BY <2>1, <3>2
  <2>8. ASSUME NEW b \in BOOLEAN, FrameEnds(b)
        PROVE  \E j \in DOMAIN tracks' : RemembersUnseen(tracks'[j], o, n)
    <3>1. ~ Missed(tracks[i])
      BY <2>1 DEF RemembersUnseen, Missed
    <3>2. i \in DOMAIN tracks' /\ tracks'[i] = tracks[i]
      BY <2>8, <3>1 DEF FrameEnds
    <3> QED BY <2>1, <3>2
  <2>9. CASE timer_callback
    <3>1. ~ Expired(tracks[i])
      BY <2>1 DEF RemembersUnseen
    <3>2. PICK j \in DOMAIN tracks' : tracks'[j] = tracks[i]
      BY <2>9, <3>1, TimerStep
    <3> QED BY <2>4, <3>2
  <2>10. CASE \/ \E q \in Obstacle : AssociateInvalid(q)
              \/ camera_callback
              \/ \E r \in RobotSpots : RobotMoves(r)
              \/ UNCHANGED vars
    BY <2>5, <2>10 DEF AssociateInvalid, camera_callback, RobotMoves, vars
  <2> QED BY <2>6, <2>7, <2>8, <2>9, <2>10 DEF Next
<1>2. Inv /\ [Next]_vars => [Kept]_vars
  BY <1>1
<1> QED BY <1>2, Invariance, PTL DEF Spec, UnseenIsKept

=============================================================================

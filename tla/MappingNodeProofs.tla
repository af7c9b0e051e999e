-------------------------- MODULE MappingNodeProofs --------------------------
(***************************************************************************)
(* The mapping node, for every window, route, queue and waiting time:      *)
(* types, the order of insertion, the pose a cloud is inserted with, and   *)
(* the map that follows the robot, and the lines it publishes.             *)
(***************************************************************************)
EXTENDS MappingNode, LaneMapperProofs, SequenceTheorems

Sorted(q) == \A i, j \in DOMAIN q : i < j => q[i].stamp < q[j].stamp

\* Every cloud in q has a stamp above a and at most b.
Within(q, a, b) == \A i \in DOMAIN q : a < q[i].stamp /\ q[i].stamp <= b

\* The inductive invariant: besides what is claimed, nothing that waits or that a
\* transform is known for lies in the future.
Inv ==
    /\ route \in Routes /\ fallback \in BOOLEAN /\ draining \in BOOLEAN
    /\ now \in 1 .. MaxTime
    /\ tf.first \in Nat /\ tf.last \in Nat /\ tf.first <= tf.last /\ tf.last <= now
    /\ tf.last <= MaxStamp
    /\ arrived \in 0 .. now
    /\ pending \in Seq(Cloud) /\ Len(pending) <= MaxPending
    /\ IsGrid(grid)
    /\ frame \in 0 .. PublishEvery - 1
    /\ published \in 0 .. MaxStamp
    /\ placed.stamp \in Nat /\ placed.at \in Nat
    /\ Sorted(pending) /\ Within(pending, placed.stamp, arrived)
    /\ published <= placed.stamp /\ placed.stamp <= arrived
    /\ PlacedAtImageTime

-----------------------------------------------------------------------------
(* The queue *)

\* Taking the first cloud off leaves the younger ones, in order.
LEMMA TailSorted ==
    ASSUME NEW q \in Seq(Cloud), q # <<>>, Sorted(q), NEW a \in Nat, NEW b \in Nat, Within(q, a, b)
    PROVE  /\ Tail(q) \in Seq(Cloud) /\ Len(Tail(q)) = Len(q) - 1
           /\ Sorted(Tail(q)) /\ Within(Tail(q), Head(q).stamp, b) /\ Within(Tail(q), a, b)
           /\ Head(q) \in Cloud /\ a < Head(q).stamp /\ Head(q).stamp <= b
<1>1. /\ Tail(q) \in Seq(Cloud) /\ Len(Tail(q)) = Len(q) - 1 /\ Len(q) \in Nat \ {0}
      /\ \A i \in 1 .. Len(Tail(q)) : Tail(q)[i] = q[i + 1]
      /\ Head(q) = q[1] /\ Head(q) \in Cloud
  BY HeadTailProperties
<1>2. DOMAIN q = 1 .. Len(q) /\ DOMAIN Tail(q) = 1 .. Len(q) - 1
  BY <1>1
<1>3. /\ 1 \in DOMAIN q
      /\ \A i \in DOMAIN Tail(q) : i + 1 \in DOMAIN q /\ 1 < i + 1 /\ Tail(q)[i] = q[i + 1]
  BY <1>1, <1>2
<1>4. Sorted(Tail(q))
  BY <1>2, <1>3 DEF Sorted
<1>5. Within(Tail(q), q[1].stamp, b) /\ Within(Tail(q), a, b)
  BY <1>3 DEF Sorted, Within
<1>6. a < q[1].stamp /\ q[1].stamp <= b
  BY <1>3 DEF Within
<1> QED BY <1>1, <1>4, <1>5, <1>6

\* cb() keeps the queue bounded and in order.
LEMMA QueuedSorted ==
    ASSUME NEW q \in Seq(Cloud), Sorted(q), Len(q) <= MaxPending, NEW a \in Nat, NEW b \in Nat,
           Within(q, a, b), NEW c \in Cloud, a <= b, b < c.stamp
    PROVE  /\ Queued(q, c) \in Seq(Cloud) /\ Len(Queued(q, c)) <= MaxPending
           /\ Sorted(Queued(q, c)) /\ Within(Queued(q, c), a, c.stamp)
<1> DEFINE all == Append(q, c)
<1>1. /\ all \in Seq(Cloud) /\ Len(all) = Len(q) + 1 /\ all # <<>>
      /\ \A i \in 1 .. Len(q) : all[i] = q[i]
      /\ all[Len(q) + 1] = c
      /\ DOMAIN q = 1 .. Len(q) /\ DOMAIN all = 1 .. Len(q) + 1 /\ Len(q) \in Nat
  BY AppendProperties
<1>2. \A i \in DOMAIN q : q[i].stamp \in Nat /\ c.stamp \in Nat
  <2>1. \A d \in Cloud : d.stamp \in Nat
    BY NodeAssumption DEF Cloud, Stamp
  <2>2. \A i \in DOMAIN q : q[i] \in Cloud
    OBVIOUS
  <2> QED BY <2>1, <2>2
<1> HIDE DEF all
<1>3. \A i \in DOMAIN q : q[i].stamp < c.stamp
  BY <1>2 DEF Within
<1>4. Sorted(all)
  <2> SUFFICES ASSUME NEW i \in DOMAIN all, NEW j \in DOMAIN all, i < j
               PROVE  all[i].stamp < all[j].stamp
    BY DEF Sorted
  <2>1. i \in DOMAIN q /\ all[i] = q[i]
    BY <1>1
  <2>2. CASE j \in DOMAIN q
    BY <1>1, <2>1, <2>2 DEF Sorted
  <2>3. CASE j = Len(q) + 1
    BY <1>1, <1>3, <2>1, <2>3
  <2> QED BY <1>1, <2>2, <2>3
<1>5. Within(all, a, c.stamp)
  <2>1. a < c.stamp /\ c.stamp <= c.stamp
    <3>1. c.stamp \in Nat
      BY NodeAssumption DEF Cloud, Stamp
    <3> QED BY <3>1
  <2>2. \A i \in 1 .. Len(q) : a < all[i].stamp /\ all[i].stamp <= c.stamp
    BY <1>1, <1>2, <1>3 DEF Within
  <2>3. \A i \in DOMAIN all : i \in 1 .. Len(q) \/ i = Len(q) + 1
    BY <1>1
  <2> QED BY <1>1, <2>1, <2>2, <2>3, Zenon DEF Within
<1>6. CASE Len(all) > MaxPending
  <2>1. Queued(q, c) = Tail(all)
    BY <1>6 DEF Queued, all
  <2>2. c.stamp \in Nat
    BY NodeAssumption DEF Cloud, Stamp
  <2> QED BY <1>1, <1>4, <1>5, <1>6, <2>1, <2>2, TailSorted, NodeAssumption
<1>7. CASE ~ Len(all) > MaxPending
  <2>1. Queued(q, c) = all
    BY <1>7 DEF Queued, all
  <2> QED BY <1>1, <1>4, <1>5, <1>7, <2>1, NodeAssumption
<1> QED BY <1>6, <1>7

-----------------------------------------------------------------------------
(* The steps *)

\* The invariant holds initially.
LEMMA InitInv == Init => Inv
<1> SUFFICES ASSUME Init PROVE Inv
  OBVIOUS
<1>1. IsGrid(grid)
  <2>1. Blank \in [Slot -> CellValue]
    BY MapperAssumption DEF Blank, Unseen, CellValue
  <2> QED BY <2>1 DEF Init, EmptyGrid, IsGrid
<1>2. pending = <<>> /\ pending \in Seq(Cloud) /\ Len(pending) = 0 /\ DOMAIN pending = {}
  BY DEF Init
<1>3. Sorted(pending) /\ \A a, b : Within(pending, a, b)
  BY <1>2 DEF Sorted, Within
<1>4. /\ placed.stamp = 0 /\ placed.at = 0 /\ placed.pose_of = 0
      /\ tf.first = 0 /\ tf.last = 0 /\ now = 1 /\ arrived = 0 /\ frame = 0 /\ published = 0
  BY DEF Init
<1>5. route \in Routes /\ fallback \in BOOLEAN /\ draining \in BOOLEAN
  BY DEF Init
<1> QED BY <1>1, <1>2, <1>3, <1>4, <1>5, NodeAssumption DEF Inv, PlacedAtImageTime

\* The cloud at the front leaves the queue, ignored.
LEMMA IgnoredStep ==
    ASSUME Inv, pending # <<>>, pending' = Tail(pending), Ignored, UNCHANGED <<env, draining>>
    PROVE  Inv'
<1>1. /\ Tail(pending) \in Seq(Cloud) /\ Len(Tail(pending)) = Len(pending) - 1
      /\ Sorted(Tail(pending)) /\ Within(Tail(pending), placed.stamp, arrived)
  BY TailSorted, NodeAssumption DEF Inv
<1>2. Len(pending) \in Nat
  BY DEF Inv
<1> QED BY <1>1, <1>2, NodeAssumption DEF Inv, Ignored, env, PlacedAtImageTime

\* The cloud at the front is inserted with the pose of time t.
LEMMA ProcessStep ==
    ASSUME Inv, pending # <<>>, pending' = Tail(pending), UNCHANGED <<env, draining>>,
           NEW t \in Stamp, process(Front, t),
           t = Front.stamp \/ (fallback /\ Overdue(Age))
    PROVE  Inv'
<1>1. /\ Tail(pending) \in Seq(Cloud) /\ Len(Tail(pending)) = Len(pending) - 1
      /\ Sorted(Tail(pending)) /\ Within(Tail(pending), Front.stamp, arrived)
      /\ Front \in Cloud /\ placed.stamp < Front.stamp /\ Front.stamp <= arrived
  BY TailSorted, NodeAssumption DEF Inv, Front
<1>2. Len(pending) \in Nat
  BY DEF Inv
<1>3. Front.stamp \in Stamp /\ Front.stamp \in Nat /\ Front.frame \in Frame
  BY <1>1, NodeAssumption DEF Cloud, Stamp, Frame, Point
<1>4. route[t] \in Pose
  BY NodeAssumption DEF Inv, Stamp, Pose
<1>5. IsGrid(grid')
  BY <1>3, <1>4, InsertType DEF process, Inv
<1>6. /\ placed'.stamp = Front.stamp /\ placed'.pose_of = t /\ placed'.at = now
      /\ frame' = (frame + 1) % PublishEvery
      /\ published' = IF frame' = 0 THEN Front.stamp ELSE published
  BY DEF process
<1>7. frame' \in 0 .. PublishEvery - 1
  BY <1>6, NodeAssumption DEF Inv
<1>8. published' \in 0 .. MaxStamp /\ published' <= placed'.stamp
  BY <1>1, <1>3, <1>6, NodeAssumption DEF Inv, Stamp
<1>9. PlacedAtImageTime'
  BY <1>6 DEF PlacedAtImageTime, Overdue, Age, env
<1> QED BY <1>1, <1>2, <1>3, <1>5, <1>6, <1>7, <1>8, <1>9, NodeAssumption DEF Inv, env

\* Every step keeps the invariant.
LEMMA NextInv == Inv /\ [Next]_vars => Inv'
<1> SUFFICES ASSUME Inv, [Next]_vars PROVE Inv'
  OBVIOUS
<1>1. CASE Tick
  BY <1>1, NodeAssumption DEF Tick, Inv, PlacedAtImageTime
<1>2. ASSUME NEW t \in Stamp, TransformArrives(t) PROVE Inv'
  BY <1>2, NodeAssumption DEF TransformArrives, Inv, Stamp, PlacedAtImageTime
<1>3. ASSUME NEW c \in Cloud, cb(c) PROVE Inv'
  <2>1. /\ Queued(pending, c) \in Seq(Cloud) /\ Len(Queued(pending, c)) <= MaxPending
        /\ Sorted(Queued(pending, c)) /\ Within(Queued(pending, c), placed.stamp, c.stamp)
    BY <1>3, QueuedSorted DEF Inv, cb
  <2>2. c.stamp \in Nat
    BY NodeAssumption DEF Cloud, Stamp
  <2> QED BY <1>3, <2>1, <2>2, NodeAssumption DEF cb, Inv, PlacedAtImageTime
<1>4. CASE TimerFires
  BY <1>4 DEF TimerFires, Inv, env, PlacedAtImageTime
<1>5. CASE DrainProcesses
  <2>1. pending # <<>> /\ pending' = Tail(pending) /\ UNCHANGED <<env, draining>>
    BY <1>5 DEF DrainProcesses
  <2>2. Front.stamp \in Stamp
    <3>1. Front \in Cloud
      BY <2>1, TailSorted, NodeAssumption DEF Inv, Front
    <3> QED BY <3>1 DEF Cloud
  <2>3. CASE process(Front, Front.stamp)
    BY <2>1, <2>2, <2>3, ProcessStep
  <2>4. CASE Ignored
    BY <2>1, <2>4, IgnoredStep
  <2> QED BY <1>5, <2>3, <2>4 DEF DrainProcesses
<1>6. CASE DrainWaits
  BY <1>6 DEF DrainWaits, Waiting, Inv, env, PlacedAtImageTime
<1>7. CASE DrainFallsBack
  <2>1. pending # <<>> /\ pending' = Tail(pending) /\ UNCHANGED <<env, draining>>
        /\ fallback /\ Overdue(Age)
    BY <1>7 DEF DrainFallsBack
  <2>2. CASE tf.last = 0
    BY <1>7, <2>1, <2>2, IgnoredStep DEF DrainFallsBack
  <2>3. CASE tf.last # 0
    <3>1. tf.last \in Stamp
      BY <2>3, NodeAssumption DEF Inv, Stamp
    <3> QED BY <1>7, <2>1, <2>3, <3>1, ProcessStep DEF DrainFallsBack
  <2> QED BY <2>2, <2>3
<1>8. CASE DrainDrops
  BY <1>8, IgnoredStep DEF DrainDrops
<1>9. CASE DrainEnds
  BY <1>9 DEF DrainEnds, Inv, env, PlacedAtImageTime
<1>10. CASE UNCHANGED vars
  BY <1>10 DEF vars, env, Inv, PlacedAtImageTime
<1> QED BY <1>1, <1>2, <1>3, <1>4, <1>5, <1>6, <1>7, <1>8, <1>9, <1>10 DEF Next, drain

\* The invariant holds throughout.
LEMMA Invariance == Spec => []Inv
BY InitInv, NextInv, PTL DEF Spec

-----------------------------------------------------------------------------
(* The results *)

\* The invariant implies what the run checks.
LEMMA InvImplies == Inv => TypeOK /\ InOrder /\ PlacedAtImageTime
BY DEF Inv, TypeOK, InOrder, IsGrid, Sorted, Within

\* pending_ is bounded and the grid's log odds stay clamped.
THEOREM TypeCorrect == Spec => []TypeOK
BY Invariance, InvImplies, PTL

\* drain() inserts clouds once and in the order of their stamps.
THEOREM InsertedInOrder == Spec => []InOrder
BY Invariance, InvImplies, PTL

\* drain() inserts a cloud where the robot was, unless it falls back as configured.
THEOREM InsertedAtImageTime == Spec => []PlacedAtImageTime
BY Invariance, InvImplies, PTL

\* A step that changes the grid inserts the cloud at the front.
LEMMA GridStep ==
    ASSUME Inv, [Next]_vars, grid' # grid
    PROVE  /\ grid' = insert(grid, Front.frame, route[placed'.pose_of])
           /\ route[placed'.pose_of] \in Pose /\ Front.frame \in Frame
<1>1. CASE DrainProcesses
  <2>1. pending # <<>> /\ process(Front, Front.stamp)
    BY <1>1 DEF DrainProcesses, Ignored
  <2>2. Front \in Cloud
    BY <2>1, TailSorted, NodeAssumption DEF Inv, Front
  <2>3. Front.stamp \in Stamp /\ Front.frame \in Frame
    BY <2>2, NodeAssumption DEF Cloud, Frame, Point
  <2> QED BY <2>1, <2>3, NodeAssumption DEF process, Inv, Stamp, Pose
<1>2. CASE DrainFallsBack
  <2>1. pending # <<>> /\ tf.last # 0 /\ process(Front, tf.last)
    BY <1>2 DEF DrainFallsBack, Ignored
  <2>2. Front \in Cloud
    BY <2>1, TailSorted, NodeAssumption DEF Inv, Front
  <2>3. tf.last \in Stamp /\ Front.frame \in Frame
    BY <2>1, <2>2, NodeAssumption DEF Inv, Stamp, Cloud, Frame, Point
  <2> QED BY <2>1, <2>3, NodeAssumption DEF process, Inv, Stamp, Pose
<1> QED
  BY <1>1, <1>2 DEF Next, drain, Tick, TransformArrives, cb, TimerFires, DrainWaits, DrainDrops,
                    DrainEnds, Ignored, vars

\* The rolling window never shows: what the grid says of a place is what it said before
\* plus what the frame says of it, for every window and every motion of the robot.
THEOREM MapFollows == Spec => MapFollowsTheRobot
<1> DEFINE Follows ==
        grid' # grid =>
          LET pose == route[placed'.pose_of]
              loop == RoiLoop(recenter(grid, pose), pose)
              visits(c) == IF c \in loop /\ InRoi(pose, c[1], c[2]) THEN 1 ELSE 0
          IN  loop \subseteq Window(grid') =>
                  \A c \in Window(grid') :
                      At(grid', c[1], c[2]) =
                          Updated(At(grid, c[1], c[2]),
                                  Evidence(Front.frame.pts, pose, c[1], c[2]),
                                  visits(c), Front.frame.do_miss)
<1>1. Inv /\ [Next]_vars => Follows
  <2> SUFFICES ASSUME Inv, [Next]_vars, grid' # grid PROVE Follows
    OBVIOUS
  <2> DEFINE pose == route[placed'.pose_of]
             loop == RoiLoop(recenter(grid, pose), pose)
  <2>1. grid' = insert(grid, Front.frame, pose) /\ pose \in Pose /\ Front.frame \in Frame
    BY GridStep
  <2>2. IsGrid(grid)
    BY DEF Inv
  <2> HIDE DEF pose
  <2>3. ASSUME loop \subseteq Window(grid'), NEW c \in Window(grid')
        PROVE  At(grid', c[1], c[2]) =
                   Updated(At(grid, c[1], c[2]), Evidence(Front.frame.pts, pose, c[1], c[2]),
                           IF c \in loop /\ InRoi(pose, c[1], c[2]) THEN 1 ELSE 0,
                           Front.frame.do_miss)
    BY <2>1, <2>2, <2>3, InsertFollows
  <2> QED BY <2>3 DEF pose
<1>2. Inv /\ [Next]_vars => [Follows]_vars
  BY <1>1
<1> QED BY <1>2, Invariance, PTL DEF Spec, MapFollowsTheRobot

-----------------------------------------------------------------------------
(* The published map *)

\* A place is published if it is occupied and supported.
LEMMA PublishedPlace ==
    ASSUME NEW g, IsGrid(g), g.initialised, NEW c \in Window(g)
    PROVE  LET x == c[1] - g.origin_x
               y == c[2] - g.origin_y
           IN  /\ x \in 0 .. Width - 1 /\ y \in 0 .. Height - 1
               /\ c[1] \in Int /\ c[2] \in Int /\ c = <<c[1], c[2]>>
               /\ g.origin_x + x = c[1] /\ g.origin_y + y = c[2]
               /\ Published(g, c) <=> OccupiedAt(g, c[1], c[2]) /\ Supported(g, x, y)
<1> DEFINE x == c[1] - g.origin_x
           y == c[2] - g.origin_y
<1>1. /\ x \in 0 .. Width - 1 /\ y \in 0 .. Height - 1
      /\ c[1] \in Int /\ c[2] \in Int /\ c = <<c[1], c[2]>>
      /\ g.origin_x + x = c[1] /\ g.origin_y + y = c[2]
  BY MapperAssumption DEF Window, IsGrid
<1> HIDE DEF x, y
<1>2. <<x, y>> \in (0 .. Width - 1) \X (0 .. Height - 1)
  BY <1>1
<1>3. snapshot(g)[<<x, y>>] =
          IF ~ g.cells[getIdx(g.origin_x + x, g.origin_y + y)].seen THEN -1
          ELSE IF Occupied(g, x, y) /\ Supported(g, x, y) THEN 100 ELSE 0
  BY <1>2 DEF snapshot
<1>4. Occupied(g, x, y) => g.cells[getIdx(g.origin_x + x, g.origin_y + y)].seen
  BY DEF Occupied
<1>5. snapshot(g)[<<x, y>>] = 100 <=> Occupied(g, x, y) /\ Supported(g, x, y)
  BY <1>3, <1>4
<1>6. Occupied(g, x, y) <=> OccupiedAt(g, c[1], c[2])
  BY <1>1, OccupiedPlace
<1>7. Published(g, c) <=> snapshot(g)[<<x, y>>] = 100
  BY DEF Published, x, y
<1> QED BY <1>1, <1>5, <1>6, <1>7 DEF x, y

\* Of two grids whose windows both contain a place, one that keeps what is occupied around
\* the place keeps it published, if its window contains the whole square.
LEMMA PublishedKeeps ==
    ASSUME NEW g, IsGrid(g), NEW h, IsGrid(h), h.initialised,
           NEW c \in Window(g), Published(g, c), SquareAround(c) \subseteq Window(h),
           \A d \in SquareAround(c) : OccupiedAt(g, d[1], d[2]) => OccupiedAt(h, d[1], d[2])
    PROVE  Published(h, c)
<1> DEFINE x == c[1] - g.origin_x
           y == c[2] - g.origin_y
           u == c[1] - h.origin_x
           v == c[2] - h.origin_y
           a == g.origin_x - h.origin_x
           b == g.origin_y - h.origin_y
           R == SpeckleRadius
           S == {d \in Around(x, Width) \X Around(y, Height) : Occupied(g, d[1], d[2])}
           T == {d \in Around(u, Width) \X Around(v, Height) : Occupied(h, d[1], d[2])}
<1>0. /\ g.initialised /\ g.origin_x \in Int /\ g.origin_y \in Int
      /\ h.origin_x \in Int /\ h.origin_y \in Int
      /\ R \in Nat /\ SpeckleSupport \in Nat /\ Width \in Nat \ {0} /\ Height \in Nat \ {0}
  BY MapperAssumption DEF Published, IsGrid
<1>1. /\ x \in 0 .. Width - 1 /\ y \in 0 .. Height - 1
      /\ c[1] \in Int /\ c[2] \in Int /\ c = <<c[1], c[2]>>
      /\ OccupiedAt(g, c[1], c[2]) /\ Supported(g, x, y)
  BY <1>0, PublishedPlace
<1>2. c \in SquareAround(c) /\ c \in Window(h)
  <2>1. c[1] \in c[1] - R .. c[1] + R /\ c[2] \in c[2] - R .. c[2] + R
    BY <1>0, <1>1
  <2>2. c \in SquareAround(c)
    BY <1>1, <2>1 DEF SquareAround
  <2> QED BY <2>2
<1>3. /\ u \in 0 .. Width - 1 /\ v \in 0 .. Height - 1
      /\ Published(h, c) <=> OccupiedAt(h, c[1], c[2]) /\ Supported(h, u, v)
  BY <1>2, PublishedPlace
<1>4. u - R >= 0 /\ u + R <= Width - 1 /\ v - R >= 0 /\ v + R <= Height - 1
  <2>1. <<c[1] - R, c[2] - R>> \in SquareAround(c) /\ <<c[1] + R, c[2] + R>> \in SquareAround(c)
    BY <1>0, <1>1 DEF SquareAround
  <2>2. <<c[1] - R, c[2] - R>> \in Window(h) /\ <<c[1] + R, c[2] + R>> \in Window(h)
    BY <2>1
  <2>3. /\ c[1] - R \in h.origin_x .. h.origin_x + Width - 1
        /\ c[1] + R \in h.origin_x .. h.origin_x + Width - 1
        /\ c[2] - R \in h.origin_y .. h.origin_y + Height - 1
        /\ c[2] + R \in h.origin_y .. h.origin_y + Height - 1
    BY <2>2 DEF Window
  <2> QED BY <1>0, <1>1, <2>3
<1>5. /\ a \in Int /\ b \in Int /\ u = x + a /\ v = y + b
      /\ x \in Int /\ y \in Int /\ u \in Int /\ v \in Int
      /\ c[1] = g.origin_x + x /\ c[2] = g.origin_y + y
      /\ h.origin_x + a = g.origin_x /\ h.origin_y + b = g.origin_y
  BY <1>0, <1>1
<1> HIDE DEF x, y, u, v, a, b, S, T
<1>6. ASSUME NEW d \in S
      PROVE  /\ d = <<d[1], d[2]>> /\ d[1] \in Int /\ d[2] \in Int
             /\ <<d[1] + a, d[2] + b>> \in T
  <2>1. /\ d[1] \in Around(x, Width) /\ d[2] \in Around(y, Height) /\ d = <<d[1], d[2]>>
        /\ Occupied(g, d[1], d[2])
    BY <1>6 DEF S
  <2>2. /\ d[1] \in 0 .. Width - 1 /\ x - R <= d[1] /\ d[1] < x + R
        /\ d[2] \in 0 .. Height - 1 /\ y - R <= d[2] /\ d[2] < y + R
    BY <1>0, <1>1, <2>1, AroundRange
  <2> DEFINE e1 == d[1] + a
             e2 == d[2] + b
             X == g.origin_x + d[1]
             Y == g.origin_y + d[2]
  <2>3. /\ d[1] \in Int /\ d[2] \in Int /\ e1 \in Int /\ e2 \in Int
        /\ u - R <= e1 /\ e1 < u + R /\ v - R <= e2 /\ e2 < v + R
        /\ h.origin_x + e1 = X /\ h.origin_y + e2 = Y
        /\ X \in c[1] - R .. c[1] + R /\ Y \in c[2] - R .. c[2] + R
    BY <1>0, <1>5, <2>2
  <2> HIDE DEF e1, e2, X, Y
  <2>4. e1 \in Around(u, Width) /\ e2 \in Around(v, Height)
    BY <1>0, <1>3, <1>4, <2>3, AroundRange
  <2>5. e1 \in 0 .. Width - 1 /\ e2 \in 0 .. Height - 1
    BY <1>0, <1>3, <2>4, AroundRange
  <2>6. OccupiedAt(g, X, Y)
    BY <1>0, <2>1, <2>2, OccupiedPlace DEF X, Y
  <2>7. <<X, Y>> \in SquareAround(c)
    BY <2>3 DEF SquareAround
  <2>8. OccupiedAt(h, X, Y)
    BY <2>6, <2>7
  <2>9. Occupied(h, e1, e2)
    BY <2>3, <2>5, <2>8, OccupiedPlace
  <2>10. <<e1, e2>> \in T
    BY <2>4, <2>9 DEF T
  <2> QED BY <2>1, <2>3, <2>10 DEF e1, e2
<1>7. IsFiniteSet(T)
  <2>1. IsFiniteSet(Around(u, Width)) /\ IsFiniteSet(Around(v, Height))
    BY <1>0, <1>3, AroundRange
  <2>2. IsFiniteSet(Around(u, Width) \X Around(v, Height))
    BY <2>1, FS_Product
  <2>3. T \in SUBSET (Around(u, Width) \X Around(v, Height))
    BY DEF T
  <2> QED BY <2>2, <2>3, FS_Subset
<1>8. Cardinality(S) <= Cardinality(T) /\ Cardinality(S) \in Nat /\ Cardinality(T) \in Nat
  BY <1>5, <1>6, <1>7, ShiftedCount
<1>9. Supported(h, u, v)
  <2>1. Cardinality(S) >= SpeckleSupport
    BY <1>1 DEF Supported, S
  <2>2. Cardinality(T) >= SpeckleSupport
    BY <1>0, <1>8, <2>1
  <2> QED BY <2>2 DEF Supported, T
<1>10. OccupiedAt(h, c[1], c[2])
  BY <1>1, <1>2
<1> QED BY <1>3, <1>9, <1>10

\* A published line stays in the map until misses or the edge of the window remove it, for
\* every window, speckle filter and motion of the robot: insert(), recenter() and snapshot()
\* agree on where the window is.
THEOREM LineStays == Spec => PublishedLineStays
<1> DEFINE Stays ==
        grid' # grid =>
          LET pose == route[placed'.pose_of]
              visited == {c \in RoiLoop(recenter(grid, pose), pose) : InRoi(pose, c[1], c[2])}
              spared(d) == Front.frame.do_miss =>
                              \A v \in visited : getIdx(v[1], v[2]) # getIdx(d[1], d[2])
          IN  \A c \in Window(grid) :
                  /\ Published(grid, c)
                  /\ SquareAround(c) \subseteq Window(grid')
                  /\ \A d \in SquareAround(c) : spared(d)
                  => Published(grid', c)
<1>1. Inv /\ [Next]_vars => Stays
  <2> SUFFICES ASSUME Inv, [Next]_vars, grid' # grid PROVE Stays
    OBVIOUS
  <2> DEFINE pose == route[placed'.pose_of]
  <2>1. grid' = insert(grid, Front.frame, pose) /\ pose \in Pose /\ Front.frame \in Frame
    BY GridStep
  <2>2. IsGrid(grid)
    BY DEF Inv
  <2> HIDE DEF pose
  <2>3. IsGrid(grid') /\ grid'.initialised
    BY <2>1, <2>2, InsertType
  <2>4. ASSUME NEW c \in Window(grid), Published(grid, c), SquareAround(c) \subseteq Window(grid'),
               \A d \in SquareAround(c) : Front.frame.do_miss =>
                  \A v \in Visited(grid, pose) : getIdx(v[1], v[2]) # getIdx(d[1], d[2])
        PROVE  Published(grid', c)
    <3>1. ASSUME NEW d \in SquareAround(c), OccupiedAt(grid, d[1], d[2])
          PROVE  OccupiedAt(grid', d[1], d[2])
      BY <2>1, <2>2, <2>4, <3>1, InsertKeeps
    <3> QED BY <2>2, <2>3, <2>4, <3>1, PublishedKeeps
  <2> QED BY <2>4 DEF pose, Visited
<1>2. Inv /\ [Next]_vars => [Stays]_vars
  BY <1>1
<1> QED BY <1>2, Invariance, PTL DEF Spec, PublishedLineStays

=============================================================================

----------------------------- MODULE MappingNode -----------------------------
(***************************************************************************)
(* mapping_cpp/src/mapping.cpp: synchronised clouds wait in a bounded      *)
(* queue until the pose of the robot at their stamp is known, and are then *)
(* inserted into the grid.  The executor runs cb() and the drain timer;    *)
(* the transform listener has a thread of its own, so transforms arrive,   *)
(* and time passes, between the iterations of drain().                     *)
(*                                                                         *)
(* Stamps and times are the same integers.  route[t] is the pose of the    *)
(* robot at time t; the transforms of a gapless range of times are in the  *)
(* buffer (tf).  ExactTime delivers sets in the order of their stamps; a   *)
(* set that lost a cloud is never delivered.                               *)
(***************************************************************************)
EXTENDS LaneMapper, Sequences

CONSTANTS
    Routes,         \* functions from stamps to poses the robot may drive
    Frames,         \* what a set of clouds may hold
    MaxStamp,       \* bound on the stamps of clouds
    MaxTime,        \* bound on the clock
    MaxWait,        \* tf_max_wait_ms_
    MaxPending,     \* max_pending_
    PublishEvery    \* publish_every_

ASSUME NodeAssumption ==
    /\ MaxStamp \in Nat /\ MaxTime \in Nat \ {0} /\ MaxWait \in Nat
    /\ MaxPending \in Nat \ {0} /\ PublishEvery \in Nat \ {0}
    /\ \A r \in Routes, t \in 1 .. MaxStamp : r[t] \in [x : Int, y : Int, yaw : 0 .. 3]
    /\ Frames \subseteq [pts : SUBSET [x : Int, y : Int], do_miss : BOOLEAN]

VARIABLES
    route,       \* the trajectory of the robot
    fallback,    \* fallback_to_latest_
    now,         \* the node's clock
    tf,          \* [first, last] stamp of the transforms in the buffer; 0 before any
    arrived,     \* stamp of the last set of clouds delivered
    pending,     \* pending_
    draining,    \* drain() is running
    grid,        \* grid_
    frame,       \* frame_ modulo publish_every_
    placed,      \* the last cloud inserted: its stamp, the stamp of its pose, and when
    published    \* stamp of the last map published; 0 before any

env == <<route, fallback, now, tf, arrived>>
vars == <<env, pending, draining, grid, frame, placed, published>>

Stamp == 1 .. MaxStamp
Cloud == [stamp : Stamp, frame : Frames]

Init ==
    /\ route \in Routes
    /\ fallback \in BOOLEAN
    /\ now = 1
    /\ tf = [first |-> 0, last |-> 0]
    /\ arrived = 0
    /\ pending = <<>>
    /\ draining = FALSE
    /\ grid = EmptyGrid
    /\ frame = 0
    /\ placed = [stamp |-> 0, pose_of |-> 0, at |-> 0, do_miss |-> FALSE]
    /\ published = 0

-----------------------------------------------------------------------------
(* The world *)

Tick ==
    /\ now < MaxTime
    /\ now' = now + 1
    /\ UNCHANGED <<route, fallback, tf, arrived, pending, draining, grid, frame, placed,
                   published>>

\* The listener's thread stores transforms up to time t; the first one may be later
\* than clouds that wait already.
TransformArrives(t) ==
    /\ tf.last < t /\ t <= now
    /\ tf' = [first |-> IF tf.last = 0 THEN t ELSE tf.first, last |-> t]
    /\ UNCHANGED <<route, fallback, now, arrived, pending, draining, grid, frame, placed,
                   published>>

-----------------------------------------------------------------------------
(* The executor: cb(), the timer, and the iterations of drain() *)

\* Mutant: the queue is not bounded.
Queued_Unbounded(q, c) == Append(q, c)

\* cb(): the oldest cloud makes room.
Queued(q, c) == LET all == Append(q, c)
                IN  IF Len(all) > MaxPending THEN Tail(all) ELSE all

cb(c) ==
    /\ ~ draining
    /\ arrived < c.stamp /\ c.stamp <= now
    /\ arrived' = c.stamp
    /\ pending' = Queued(pending, c)
    /\ draining' = TRUE
    /\ UNCHANGED <<route, fallback, now, tf, grid, frame, placed, published>>

TimerFires ==
    /\ ~ draining
    /\ pending # <<>>
    /\ draining' = TRUE
    /\ UNCHANGED <<env, pending, grid, frame, placed, published>>

\* canTransform at time t.
Known(t) == tf.first <= t /\ t <= tf.last

Front == Head(pending)
Age == now - Front.stamp

\* Mutant: the fallback is tried as soon as the transform is missing.
Overdue_Always(age) == TRUE

Overdue(age) == age > MaxWait

\* process(): insert with the pose of time t, publish every publish_every_-th time.
process(c, t) ==
    /\ grid' = insert(grid, c.frame, route[t])
    /\ frame' = (frame + 1) % PublishEvery
    /\ placed' = [stamp |-> c.stamp, pose_of |-> t, at |-> now, do_miss |-> c.frame.do_miss]
    /\ published' = IF frame' = 0 THEN c.stamp ELSE published

Ignored == UNCHANGED <<grid, frame, placed, published>>

DrainProcesses ==
    /\ draining /\ pending # <<>>
    /\ Known(Front.stamp)
    /\ \/ process(Front, Front.stamp)
       \/ Ignored                       \* lookupTransform throws after all
    /\ pending' = Tail(pending)
    /\ UNCHANGED <<env, draining>>

\* Mutant: a cloud without a transform goes to the back of the queue.
Waiting_Rotates == pending' = Append(Tail(pending), Front)

Waiting == UNCHANGED pending

\* "preserve ordering: stop here and retry on next timer tick"
DrainWaits ==
    /\ draining /\ pending # <<>>
    /\ ~ Known(Front.stamp)
    /\ ~ Overdue(Age)
    /\ draining' = FALSE
    /\ Waiting
    /\ UNCHANGED <<env, grid, frame, placed, published>>

DrainFallsBack ==
    /\ draining /\ pending # <<>>
    /\ ~ Known(Front.stamp)
    /\ Overdue(Age)
    /\ fallback
    /\ IF tf.last = 0 THEN Ignored ELSE process(Front, tf.last)
    /\ pending' = Tail(pending)
    /\ UNCHANGED <<env, draining>>

\* Mutant: a cloud whose transform never comes stays at the front.
DrainDrops_Keeps ==
    /\ draining /\ pending # <<>>
    /\ ~ Known(Front.stamp)
    /\ Overdue(Age)
    /\ ~ fallback
    /\ draining' = FALSE
    /\ Ignored
    /\ UNCHANGED <<env, pending>>

DrainDrops ==
    /\ draining /\ pending # <<>>
    /\ ~ Known(Front.stamp)
    /\ Overdue(Age)
    /\ ~ fallback
    /\ Ignored
    /\ pending' = Tail(pending)
    /\ UNCHANGED <<env, draining>>

DrainEnds ==
    /\ draining /\ pending = <<>>
    /\ draining' = FALSE
    /\ UNCHANGED <<env, pending, grid, frame, placed, published>>

drain == DrainProcesses \/ DrainWaits \/ DrainFallsBack \/ DrainDrops \/ DrainEnds

Next ==
    \/ Tick
    \/ \E t \in Stamp : TransformArrives(t)
    \/ \E c \in Cloud : cb(c)
    \/ TimerFires
    \/ drain

Spec == Init /\ [][Next]_vars

\* The clock advances and the executor spins.  Nothing is assumed of the transforms.
FairSpec == Spec /\ WF_vars(Tick) /\ WF_vars(TimerFires) /\ WF_vars(drain)

-----------------------------------------------------------------------------
(* Properties *)

TypeOK ==
    /\ route \in Routes /\ fallback \in BOOLEAN
    /\ now \in 1 .. MaxTime
    /\ tf.first \in Nat /\ tf.last \in Nat /\ tf.first <= tf.last /\ tf.last <= now
    /\ arrived \in 0 .. now
    /\ pending \in Seq(Cloud) /\ Len(pending) <= MaxPending
    /\ draining \in BOOLEAN
    /\ grid.cells \in [Slot -> CellValue]
    /\ frame \in 0 .. PublishEvery - 1
    /\ published \in 0 .. MaxStamp

\* Clouds are inserted in the order of their stamps and never twice, however the queue
\* overflows, transforms lag or lookups fail: what waits is younger than what has been
\* inserted, and waits in order.
InOrder ==
    /\ \A i, j \in DOMAIN pending : i < j => pending[i].stamp < pending[j].stamp
    /\ \A i \in DOMAIN pending : placed.stamp < pending[i].stamp /\ pending[i].stamp <= arrived
    /\ published <= placed.stamp /\ placed.stamp <= arrived

\* A cloud is inserted where the robot was when the image was taken ("Pose of the robot
\* at 'Image' time and not 'now'"); another pose is used only if fallback_to_latest is
\* set and the cloud has outlived tf_max_wait_ms.
PlacedAtImageTime ==
    placed.pose_of = placed.stamp \/ (fallback /\ placed.at - placed.stamp > MaxWait)

\* What the grid says of a place is what it said before, plus what this frame says of
\* the place; of a place that was outside the window it said nothing.  Neither the
\* motion of the window nor the reuse of slots shows, as long as the loop of the ROI pass
\* stays inside the window.
MapFollowsTheRobot ==
    [][grid' # grid =>
        LET pose == route[placed'.pose_of]
            loop == RoiLoop(recenter(grid, pose), pose)
            visits(c) == IF c \in loop /\ InRoi(pose, c[1], c[2]) THEN 1 ELSE 0
        IN  loop \subseteq Window(grid') =>
                \A c \in Window(grid') :
                    At(grid', c[1], c[2]) =
                        Updated(At(grid, c[1], c[2]),
                                Evidence(Front.frame.pts, pose, c[1], c[2]),
                                visits(c), Front.frame.do_miss)]_vars

\* The map shows the place as occupied.
Published(g, c) ==
    /\ g.initialised /\ c \in Window(g)
    /\ snapshot(g)[<<c[1] - g.origin_x, c[2] - g.origin_y>>] = 100

\* The places within speckle_radius of c.
SquareAround(c) ==
    (c[1] - SpeckleRadius .. c[1] + SpeckleRadius) \X (c[2] - SpeckleRadius .. c[2] + SpeckleRadius)

\* A line that has been published stays in the map while the window travels with the robot
\* (its slots are reused, unrolled by snapshot() and filtered for speckles relative to the
\* window): a frame removes it only by misses on the places around it, or by moving the
\* window away from them.
PublishedLineStays ==
    [][grid' # grid =>
        LET pose == route[placed'.pose_of]
            visited == {c \in RoiLoop(recenter(grid, pose), pose) : InRoi(pose, c[1], c[2])}
            spared(d) == Front.frame.do_miss =>
                            \A v \in visited : getIdx(v[1], v[2]) # getIdx(d[1], d[2])
        IN  \A c \in Window(grid) :
                /\ Published(grid, c)
                /\ SquareAround(c) \subseteq Window(grid')
                /\ \A d \in SquareAround(c) : spared(d)
                => Published(grid', c)]_vars

\* No cloud waits forever, even if its transform never comes and no further cloud
\* arrives ("Retries pending clouds once TF catches up, even if no new cloud arrives").
NoneWaitsForever ==
    \A s \in Stamp : (\E i \in DOMAIN pending : pending[i].stamp = s)
                         ~> (\A i \in DOMAIN pending : pending[i].stamp # s)

\* A vector of odom in the robot's frame: forward and lateral left distance.
Unwarped(pose, d) ==
    [x |-> Cos(pose.yaw) * d.x + Sin(pose.yaw) * d.y,
     y |-> Cos(pose.yaw) * d.y - Sin(pose.yaw) * d.x]

\* "Leftover splat cells which are just outside ROI get hit only": after a frame with
\* enough points to mark misses, every cell of the window inside the footprint has been
\* observed by the ROI pass, hit or miss.
FootprintIsObserved ==
    LET pose == route[placed.pose_of]
    IN  placed.do_miss =>
            \A c \in Window(grid) :
                InTrapezoid(Unwarped(pose, Centre(pose, c[1], c[2]))) => At(grid, c[1], c[2]).seen

=============================================================================

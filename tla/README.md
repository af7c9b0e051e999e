# TLA+ specifications of Self-Drive

Self-Drive is the ROS 2 software of a self-driving robot: cameras and a lidar
feed maps and detections, a behaviour tree decides what to do, action servers
carry out maneuvers, and Nav2 drives the resulting path. These specifications
are about the part where timing decides whether the robot behaves: who decides,
who holds the wheel, and what happens when answers come late, twice or never.
Paths below are relative to `src/src/` of the repository.

## 1. The system

    /tracked_obstacles ----------+                        LaneChangeServer --> LanePathMux
    signs, stop-line clouds      |                               ^                 |
          |                      v            goals              |                 v
    IntersectionInput --> SharedState <--> behaviour tree -------+          lane centreline
                          (2 Deciders,        |      |                             |
                           latch)             |      +--> IntersectionServer       v
                                              |                  |  path      PathBridge --> Nav2
                                              +-- lane enable ---|----------------^ ^
                                                                 +------------------+

| Component | State it keeps | Operations | Hard part |
|---|---|---|---|
| PathBridge, `mapping_cpp/src/lane_follow_test.cpp` | lane, maneuver and sent path, active goal handle, `generation_`, two clocks | three subscriptions, a timer, goal response and result callbacks | goals withdrawn before their acceptance is known; results that belong to an older goal |
| Nav2 FollowPath server, `navigation2/nav2_util/.../simple_action_server.hpp`, `nav2_controller/src/controller_server.cpp` | current and pending handle, worker thread, life cycle | goal, cancel and accepted callbacks, control loop, activate, deactivate | executor and worker interleave wherever the mutex is released; the process may die |
| Decider, `bt/include/bt/decision.hpp` | hits, holds, last detections, handled list, stop-sign time | `update`, `mark_handled`, `clear_stop_sign` | counters and holds that outlive the obstacle they are about |
| SharedState, `bt/include/bt/shared_state.hpp` | two Deciders, two decisions with times, the latched maneuver, turns | eight methods under one mutex | latch against perception that keeps moving; ids that change |
| IntersectionInput, `bt/include/bt/intersection_input.hpp` | stamp of the last sign and of the last real sign | `on_signs`, `on_line` | stamps ahead of the clock, signs that outlive their intersection |
| Behaviour tree, `bt/trees/main.xml`, `bt/include/bt/nodes.hpp`, `bt/src/bt_executor.cpp` | running branch, action clients, retry lockouts, lane gate | one tick after another | halts that race answers; failures that must not fall through |
| IntersectionServer, `intersection_ws/intersection_cpp/src/IntersectionServer.cpp` | `busy_`, execution thread, latched path | goal, cancel, accepted, `execute` | cancel, timeout, success and shutdown compete |
| LaneChangeServer, `lane_change_ws/lane_change/src/lane_change_server.cpp` | selected lane | one callback | acts on acceptance, so a cancel is always late |
| LanePathMux, `lane_change_ws/lane_change/src/lane_path_mux.cpp` | selected lane, latest path per lane | `on_path`, `on_lane`, `publish` | default lane differs from the server's; old paths are re-published as new |
| MappingNode, `mapping_cpp/src/mapping.cpp` | queue of clouds, frame counter | `cb`, drain timer, `process` | clouds wait in a bounded queue for transforms another thread stores |
| LaneMapper, `mapping_cpp/src/lane_mapper.cpp` | rolling grid of log-odds | `recenter`, `insert`, `snapshot` | slots are reused as the window travels; bounds and rotations |
| ObstacleMemory, `lidar_cam_fusion/src/obstacle_memory.cpp` | tracks, next id | detection, camera and timer callbacks | tracks that swap, double or lose their id |
| Depth estimator, in-lane filter, `lidar_cam_fusion/src` | last clouds and curves | projection, curve fitting | numerics |
| Centreline generation, `path_generation_cpp/src` | clouds that wait for a partner; a track per side, streak of failed frames | `onWhite`, `onYellow`, `generate` | lost and late clouds; tracks that outlive what they describe |
| Lidar perception, vision, planner, simulation | none or numerical | filters, inference, geometry | not concurrency |

What makes each correct: PathBridge must never lose control of a goal and never
let a lane update displace a maneuver; the decision layer must not repeat what
has been handled nor be talked out of a latched maneuver; a stop must be
demanded by the sign of this intersection and no other; the tree must keep the
lane gate closed through a maneuver and keep trying; the servers must leave no
path and no lane flip behind that nobody asked for. Upstream of them, a cloud
must end up in the map where the robot was when it was taken, an id must name
one obstacle, and the path that is out must be the newest of the lane that the
server selected.

## 2. Modules

`PathBridge` models the bridge and Nav2's side of FollowPath. `bridge` is the
record of the class members, `cancel_current`, `Desired` and `dispatch` are the
methods, and each callback is an action. A goal is named by the value of
`generation_` it was sent with. The wire is four sets: requests (delivered in
order, since one client sends them), responses, cancels and results (delivered
in any order, since they are different services). Nav2's `current`, `pending`
and `canceling` are the goal handles, and `worker` is the thread that runs
`work()` and `computeControl()`. `handle_goal` and `handle_accepted` are two
actions, since the mutex is free between them (`accepting` is the goal in between).
A thread that has been started, and one that has taken over a pending goal, stands
at "start" until it tests the guard of its loop (`WorkerTests`): if the server was
deactivated meanwhile it ends there, without `terminate_all`, and leaves
`current_handle_` active. The two clocks are the two comparisons the code
makes (`lane_fresh`, `throttled`). `PathBridgeProofs` holds its theorems.

`Decider` is the class of that name as a record with pure operators.
`SharedState` builds the object from two Deciders, adds every method, and adds
as actions the calls that bt_executor and the tree's nodes make.
`IntersectionInput` adds the two perception callbacks and is the complete
perception and decision state. Times and positions are small integers; a
position is one-dimensional; a detection is `credible` when it passes the
filters that look at it alone. `hits_` saturates at the number needed, since the
code only asks whether that number has been reached. `expire` is the erase and
remove_if of the code, computed entry by entry from the front. `PerceptionProofs`
holds the theorems of the three modules.

`DecisionLatch` says what SharedState promises its clients, without clocks,
counters or detections: perception comes and goes, and a latched maneuver is
touched only by its own stop and its own success. `SharedState` is shown to
implement it (`RefinesLatch`, with `INSTANCE DecisionLatch WITH ...`), so the
tree can be checked against the small specification. `DecisionLatchProofs`
holds its theorems.

`ManeuverServers` models the two action servers and the wire between them and
the tree's action clients. `BehaviorTree` composes DecisionLatch and
ManeuverServers with the tree: a tick is one action, named after the branch that
ends up running and what its action client reports. BehaviorTree.CPP and
BehaviorTree.ROS2 are submodules without contents in this repository; their
nodes are modelled from how the tree uses them and marked external.

`Centerline` models the centreline node and the memory of its generator. The two
clouds that wait are stamps (0 for a null pointer), `Synced` and `Flushed` are
`trySync` and the first lines of `onWhite`, and a frame processed is one of the
`Outcomes` of `generate()`: paths for any subset of the sides, or an exception
with whatever part of the memory had been written by then. `LanePathMux` extends
it with the mux and the lane-change server, which publishes the selected lane on
a latched topic of depth one; `in_flight` says that its last command has not
arrived. `LanePathMuxProofs` holds the theorems of both.

`LaneMapper` is the class of that name as a record with pure operators over
integer lengths: `recenter`, `insert` and `snapshot` under their own names,
`Updated` for what a frame does to one cell (the ROI pass and the pass over the
leftovers together, a cell that the pass reaches twice through the modulo
included). `RoiLoop` and `InRoi` keep the loop bounds and the rotation exactly as
the code has them. `MappingNode` is the node around it: `drain` is one action per
iteration, because the transform listener is a thread of its own and may store a
transform between two of them. `LaneMapperProofs` and `MappingNodeProofs` hold
the lemmas and theorems.

`ObstacleMemory` models the tracker. One detection message is several actions
(`FrameBegins`, an `Associate` or `AssociateInvalid` per detection, `FrameEnds`)
that no other callback interrupts, so that the order of detections is explored.
Each track carries the obstacle it was made for, which the program does not
know and which the properties need. Smoothing puts the estimate anywhere between
the old estimate and the measurement, which covers every gain. Stop signs are
skipped by the code and left out. `ObstacleMemoryProofs` holds its theorems.

`BehaviorTreeProofs` holds the theorems of the composed tree.

Modules whose names begin with `MC` give constants their values for TLC.
Definitions whose comment begins with "Mutant" are deliberately wrong variants
of the definition that follows. No specification uses them; they serve to show
that the property they are paired with in `PROJECT.json` would catch such a bug.

## 3. Runs

| Run | Configuration | Checks | Result |
|---|---|---|---|
| path_bridge | `MCPathBridge.cfg` | TypeOK, NoOrphanGoal, ManeuverHasPriority, ManeuverNotWithdrawn, StopTakesEffect | hold |
| path_bridge_maneuver | `MCPathBridgeManeuver.cfg` | ManeuverStarts | violated |
| path_bridge_throw | `MCPathBridgeThrow.cfg` | CancelsKnownHandle | violated |
| shared_state_repeat | `MCSharedStateRepeat.cfg` | NoRepeatedChange | violated |
| intersection_input | `MCIntersectionInput.cfg` | InputTypeOK, SignIsCurrent, SignNotReused, NoRepeatedIntersection | hold |
| both_streams | `MCBothStreams.cfg` | TypeOK, HoldsNothingHandled, RefinesLatch, ForgetsOnlyExpired | hold |
| behavior_tree | `MCBehaviorTree.cfg` | TypeOK, GateClosedInManeuver, ManeuverOnlyWhenLatched, GoalOfRunningBranch, GoalIsForTheLatch, NoPlaceRepeated, PathClearedAtEnd, ReleasedBySuccess, RetryPersists | hold |
| behavior_tree_halt | `MCBehaviorTreeHalt.cfg` | HaltedChangeIsCancelled | violated |
| mapping | `MCMappingNode.cfg` | TypeOK, InOrder, PlacedAtImageTime, MapFollowsTheRobot, PublishedLineStays, NoneWaitsForever | hold |
| mapping_roi | `MCMappingNodeRoi.cfg` | FootprintIsObserved | violated |
| obstacle_memory | `MCObstacleMemory.cfg` | TypeOK, IdsAreFresh, OneTrackPerObstacle, PublishedIdIsStable, UnseenIsKept, GhostIsForgotten | hold |
| lane_pipeline | `MCLanePathMux.cfg` | TypeOK, NoWhiteLost, HandledInOrder, MemoryIsRecent, NewestOfLaneIsOut, MuxFollowsServer | hold |

What the passing runs of the decision side say:

- **path_bridge.** Whatever order acceptances, results, path and enable messages
  come in, and although Nav2 may die, no goal is driven that the bridge does not
  know of or is not getting rid of, no lane goal gets behind a held maneuver, and
  the bridge cancels none of the goals of a maneuver it still holds. After a lasting
  disable the thread with the control loop ends. What is not claimed is that
  `current_handle_` becomes inactive: a server that is deactivated between the start
  of the thread and its guard keeps the handle of a goal that nobody drives, and
  parks every later goal behind it. NoOrphanGoal and StopTakesEffect are about a
  server that is activated again only when no goal is between the two callbacks and
  the thread of before has ended. `deactivate()` waits for a thread that exists, but
  not for one that a `handle_accepted` under way starts after it. With `EarlyRestart
  = TRUE` TLC finds what happens otherwise: a goal accepted before `deactivate()` is
  started after it, a younger one is refused, and the reactivated server drives the
  goal that the bridge has forgotten.
- **intersection_input, both_streams.** A completed stop line does not come back
  while it is remembered, and what is remembered is forgotten only when nobody has
  seen it for its time-to-live. Time-to-live counts from the last list in which
  the obstacle was within the trigger distance.
- **behavior_tree.** Timeouts, halts, refusals and late answers delay a maneuver
  and never release it: only the success of its own turn does.

What the passing runs of the perception side say:

- **mapping.** However late transforms are, and although the queue overflows and
  lookups fail, clouds enter the grid once, in the order of their stamps, with
  the pose of their own stamp unless the fallback is on and their time is up.
  What the grid says of a place after a frame is what it said of that place
  before, plus the frame: the window that moves and the slots that are reused do
  not show (as long as the ROI loop stays inside the window). A line that has been
  published stays published while the window travels, until misses fall on the places
  around it or the window leaves them: neither the unrolling of the slots nor the
  speckle filter, which counts relative to the window, loses it. A cloud whose
  transform never comes leaves the queue even if no other cloud arrives.
- **obstacle_memory.** An id is given once and names one obstacle, an obstacle
  has one track whatever the order of detections, and a reader of the lists sees
  an obstacle go before it comes back under another id. That last point is what
  the decision layer's memory of handled obstacles needs, together with its
  comparison of places; NoRepeatedChange shows what happens when an id changes
  while a goal is outstanding. A ghost is forgotten only if frames without an
  invalid depth keep coming: one invalid depth suspends the misses of all tracks.
- **lane_pipeline.** The mux and the server start with different lanes by default
  (`right` and `left`; `stack.launch.py` gives neither a parameter) and in any
  order; the latched command makes them agree, and from its arrival on the path
  that is out is the newest delivered for that lane. MemoryIsRecent is stated
  for the younger of the two tracks, because a side that keeps failing next to
  one that succeeds never loses its track: the code bounds no more than that.

What the violated properties show:

- **ManeuverStarts.** Nav2 accepts the maneuver's goal while its worker thread
  has left the control loop but not yet ended. The goal goes to the pending slot
  and stays there. `sent_path_` equals the path, so the bridge's timer does not
  send it again, and the robot stands still.
- **CancelsKnownHandle.** A goal ends just after the next one has been sent. Its
  result callback returns early because the generation differs, so
  `active_goal_` keeps a handle that rclcpp_action has dropped; if lane
  following is disabled before the next acceptance arrives,
  `async_cancel_goal` throws and the node dies.
- **NoRepeatedChange.** The tracker loses an obstacle and finds it under a new
  id while its lane change is outstanding. `mark_handled` clears the decision
  only if the ids agree, so the same obstacle is reported until the next list.
- **HaltedChangeIsCancelled.** A pedestrian appears right after a lane change
  was requested. The tree halts the client, the server flips the lane all the
  same, and nothing is marked: the obstacle triggers a second flip, back. The
  run excludes missed response deadlines (`ResponseMayTimeOut = FALSE`), which
  would show the same with a timeout in place of the halt.
- **FootprintIsObserved.** The ROI pass begins at the edge of the window but ends
  at `width_ - 1` and `height_ - 1` (`lane_mapper.cpp:168`), which are the upper
  edge only of a window that begins at 0. Once the robot has driven on, cells of
  the footprint ahead of it are not visited, so nothing is ever cleared there.
  The instance drives straight ahead at yaw 0, where the rotation of lines 177
  and 178 (which uses the sine twice, and the forward rotation for the inverse
  one) is the identity; at other yaws the footprint is wrong as well.

PathClearedAtEnd holds for a server that lives. The exit of `execute()` taken when
the node shuts down aborts the goal without publishing the empty path
(`MonitorShutsDown`), although the comment at `IntersectionServer.cpp:202` says
that every exit does. The speckle loops of `snapshot` (`lane_mapper.cpp:252` and
`:257`) stop before their upper end, so the window is 2 x 2 where
`lane_mapper.hpp:48` says 3x3, and lines lose cells that have support only above or to
the right. `Supported` counts as the code does; no run is about the difference.

### Bounds

- PathBridge: five goal numbers and two path messages are enough for a goal to
  be sent, replaced, withdrawn and sent again around a maneuver, with Nav2
  crashing in between. The safety properties are also proved for all
  bounds. Behaviours end when numbers or messages run out, hence
  `CHECK_DEADLOCK FALSE`.
- SharedState: the violated run has the obstacle stream alone, with a barrel that
  changes its id, a second barrel and a pedestrian; five ticks of the clock exceed
  every time-to-live and hold of the instance (one to three). `MaxTime` ends
  behaviours, hence no deadlock check.
- IntersectionInput: two stop lines further apart than `same_place`, distances
  inside and outside the trigger, stamps one tick ahead and behind.
  `both_streams` uses one line and adds a pedestrian and a barrel.
- BehaviorTree: two goal requests on a wire, so that a goal the client has given
  up on and its successor are both under way; one turn, so that the second
  intersection meets an empty list; two stop lines. Deadlock is checked.
- MappingNode: three stamps against a queue of two, so that it overflows; a clock
  that outruns the wait; a window of a few cells and routes that move it forwards,
  backwards, sideways and by more than its size. Stamps run out, hence no deadlock
  check.
- ObstacleMemory: two cones of one class just outside each other's gate where it is
  widest (it grows with the distance of the detection), errors at both ends of the noise, limits of two or three frames, and a robot that can drive
  past the first. `MaxId` bounds how often an obstacle is lost and confirmed again; when
  it is used up no frame begins and GhostIsForgotten excludes the behaviour.
- LanePathMux: enough stamps for a flushed frame, a pair and a streak of failed
  frames, and enough lane changes to return to the first lane; both values of
  `output_frame`.

Every one of these bounds is a parameter of the theorems of section 4.

### Fairness

`PathBridge!Fairness` is weak fairness of the timer, of message delivery, of the
server's callbacks (`HandleAccepted` follows `HandleGoal`) and of the worker thread
up to the next check in its loop, the guard included:
executors spin and the wire is reliable. Nothing is assumed of publishers, of
the life cycle, or of the controller reaching its goal. `BehaviorTree!FairSpec`
assumes that bt_executor's loop ticks and that a lockout elapses. Nothing is
assumed of perception or of the servers; RetryPersists names what it needs of
them in its premise. StopTakesEffect is stated for a bridge that has not died of
the exception that CancelsKnownHandle is about.

`MappingNode!FairSpec` assumes that the clock advances, that the drain timer fires
and that `drain` goes on once it runs; nothing is assumed of transforms or clouds.
`LanePathMux!FairSpec` assumes that the mux is started and that the lane topic,
which is reliable and latched, delivers; the centreline topics are best effort and
may lose everything. `ObstacleMemory!FairSpec` has strong fairness of the timer and
of the camera's message: both wait while a frame is processed, and the executor
serves them between frames. GhostIsForgotten names the frames it needs in its
premise.

## 4. Proofs

`PathBridgeProofs` proves `TypeCorrect`, `NoOrphan`, `Priority` and `NotWithdrawn` for every
`MaxGeneration` and `MaxPaths`, with and without crashes, from
`ConstantsAssumption` alone, and for either value of `EarlyRestart` (with TRUE,
NoOrphanGoal says nothing and the other three keep their meaning).

NoOrphanGoal is not inductive: whether a goal that Nav2 drives is accounted for
depends on what is still on the wire. The invariant `IInv` adds `Numbering`
(requests on the wire are younger than everything Nav2 has seen, each goal is
answered once), `Handling` (what the worker and the life cycle say of the two
handles), `Answers` (an answer on the wire is no younger than what the worker
will end up driving), `AllAccounted` (the property itself, for the goal between the two
callbacks as well: `Coming`) and `Ownership` (once the current generation is accepted it
is the active goal). The bridge's callbacks are treated together: each one only
advances the numbering and puts on the cancel wire whatever it forgets
(`CallbackAdvances`, `AdvancesStep`). The server's steps are treated together
too: none makes a goal live except by preemption (`ServerStep`).

`Priority` needs, in addition, which path each goal carries (`PathsFor`): after
the number of a goal of the held maneuver come only goals of the same maneuver.

`NotWithdrawn` is about steps: one that keeps the held path cancels none of its goals.
A late acceptance is answered with a cancel, and the held path may have been sent more
than once, so the invariant has to say which of its goals have been replaced.
`ReplacedRefused` says that these are the refused ones: their answer has been read, so
none of them can still be accepted.

`DecisionLatchProofs` proves the three properties of DecisionLatch for every set
of decisions, any number of turns and any geometry, from `LatchAssumption`. They
are inductive only together.

`BehaviorTreeProofs` proves the seven invariants and the action property of the run
behavior_tree for every set of decisions, any number of turns and of goals on the wire, from
`LatchAssumption` and `ServersAssumption`. The invariant has three parts.
`ServerInv` is about the wire: the request a client waits for is the last one, so
once it has been answered no request is left (`WireOK`); a result is only there
when the server has let go of the goal. `TreeInv` ties the branch that runs to the
latch and to the client that may wait. `WorkIsLatched` is what the two are for:
goal, path and requests belong to a latched maneuver. The critical step is
`TickTurnSucceeds`, which releases the latch: a success that the tree sees implies
that the wire is empty, the server idle and the path cleared, so nothing outlives
the maneuver. `ReleasedOnlyBySuccess` turns this round: apart from that step and the
maneuver's own stop, no step changes what is latched (`LatchStep`). Of a stop that
changes nothing in a decision without one it needs the last part of `LatchAssumption`,
which is true of records. `PlaceholderHoldsForever` is its corollary for the tree as it
is now: `StopRobot` always fails, so a maneuver latched with a stop is never released.

`LaneMapperProofs` proves what the operators of the grid do for every size of the
window. `PmodInjective` says that two cells of a window never share a slot, and
`ClearedEnters` that the columns cleared are exactly those of cells that enter the
window; `RecenterFollows` and `InsertFollows` combine them. `InsertKeeps` says which
cells a frame does not lower. `MappingNodeProofs` uses
them for `MapFollows`, and proves the order and the place of insertion.
`LineStays` follows from `InsertKeeps`: every place that supports the cell keeps its
evidence, and `ShiftedCount` carries the supporting cells from their positions in the
old window to those in the new one, one to one, so their number does not fall. Its invariant adds that the waiting clouds
are in order, later than the last one inserted and not later than the last that
arrived.

`ObstacleMemoryProofs` proves that tracks and ids stay with their obstacle for any
number of obstacles. The argument is geometric: an estimate stays within the noise
of its place, so a measurement is inside the gate of its own track and outside all
others of its class. In addition the invariant says that a track whose obstacle has
not been reported in the current frame is unmatched, so that its detection finds it,
that the robot is at one of the positions for which the separation is assumed
(`MemoryAssumption`: the gate of a detection depends on the distance it is seen from),
and that what was published agrees with the tracks that are left (needed for
`StableIds`).

`LanePathMuxProofs` proves the five safety properties of the run lane_pipeline. The
invariant adds that everything handled is at most as new as the last white cloud, that
the streak counts at least the age of the youngest track, and that `latest` is what
the topics delivered last.

`PerceptionProofs` proves the six invariants of the runs intersection_input and
both_streams, the action property ForgetsOnlyExpired and the refinement of DecisionLatch
(`ImplementsLatch`), for every class
table, lists of any length in any order, any number of remembered obstacles, and all
times-to-live, holds, confirmations and stamps. It rests on four assumptions about
constants: `ConfigAssumption` (the types of DecisionConfig; at least one list confirms),
`SharedStateAssumption` and `IntersectionInputAssumption` (types), and
`ClassTableAssumption`, which is how `bt/config/bt.yaml` uses the two classes that
IntersectionInput synthesizes: a stop line marks no sign and a sign starts no maneuver.
With a table that breaks it, the latch could be given a decision about a sign, and a
line would demand a stop by itself.

The argument goes up in four layers.

1. *Memory.* `expire` is recursive, and what it keeps is shown by induction over the
   length of the list. The library's induction theorems take a predicate as their
   parameter, which the provers cannot instantiate; `SetInduction` and `LeastExists`
   state the principle about sets, from the theorem that a well-founded order has
   minimal elements. `ExpireKeeps` says that exactly the live entries are left;
   `Covers` says that neither expiry nor a refresh makes a memory be about more
   obstacles. `NearestIsOne` and `SignTimeIs` show that the choices of `update` are made
   among candidates that exist.
2. *Decider.* `DeciderOK` says of one Decider which slots its stream can fill and with
   which detections, that holds, hits and memories are within their bounds, and that a
   held slot is about nothing handled. `UpdateOK` and `MarkHandledOK` show that the
   methods keep it. `mark_handled` ends the hold of the one slot its decision names; that
   this is enough follows from each stream filling only one slot besides `stop`.
3. *SharedState.* `StateOK` adds that the memory of the intersection stream holds stop
   lines only (so that being remembered is a matter of place) and that no offered or
   latched line is remembered. One lemma per method.
4. *The whole state.* `Inv` adds `SentOK` (a turn is the latched one and has a turn to
   use up, a lane change runs only while nothing is latched) and `SignOK` (the Decider's
   sign is the input's, newer than the last completion, which is never before the
   beginning). NoRepeatedIntersection and SignNotReused are not inductive without
   them. TLC has checked `Inv` on both instances.

For the refinement, everything that only perceives is one lemma (`PerceiveMapped`):
the latch untouched and the memory covered is a step `Perceive`. Each action of the tree
is a step of the latch of its own, except that a second `begin_intersection` changes
nothing. `GoalOfTheLatch` is one of the latch's promises brought back through the mapping.

`ForgottenOnlyExpired` goes up the same layers in the opposite direction: where `Covers`
says that a memory does not grow, here it does not shrink. `ExpireKeeps` gives it for
`expire`, `UpdateKeepsLive` and `MarkKeepsLive` for the two methods of a Decider that
write the memory (a refresh or a new entry is never older than what it replaces), and
`StepKeepsMemory` for each action, most of which leave one of the two Deciders alone
(`DecidersSame`). It needs `Inv` only for types, and because no entry was last seen in
the future.

Only model-checked: the liveness properties (StopTakesEffect, ManeuverStarts,
RetryPersists, NoneWaitsForever, GhostIsForgotten, MuxFollowsServer), which are
beyond the prover. Every safety property of a passing run is a theorem.

## 5. Not modelled

Most of the repository's lines are the vendored Navigation2 stack (about 95 000 of
105 000 lines of code). Of it only what the bridge's client sees of FollowPath is
modelled; planners, controllers, costmaps, localisation and their plugins are a
third party's numerics, configured but not changed here, so the share of all lines
that these specifications cover is small by nature. Of the project's own nodes those
that carry decisions, tracks, maps or goals from one message to the next are modelled.

The intersection planner, the geometry of centreline generation, point-cloud
filtering, depth estimation, the in-lane filter and vision are floating-point
functions of their last inputs; where a modelled component depends on one, every
result it can give is a choice (which sides a frame yields, whether a depth is valid,
whether a detection is in lane, whether a plan exists). The depth estimator and the
in-lane filter do keep their last stop line and lane curves, with a stamp and an age
limit. `lidar_cam_fusion/README.md` (Method C) says that the depth estimator turns a
point of the camera's link frame into optical axes before it projects it; lines
248-266 of `depth_estimator.cpp` use the axes as they come, whereas its stop-line and
ground-plane branches take x for the depth. No run is about this.
Simulation and launch files
have no behaviour of their own. Parameter loading and logging are left out
everywhere. A goal with an invalid turn or road width is never sent by the tree, so
the server's refusal of it is left out; so is the mux's refusal of a lane other than
1 and 2, which the server never sends.

Abstractions of data: the log-odds of a splat have two strengths instead of a
Gaussian, weights by range are left out, yaws are right angles; obstacles and stop
lines lie on one axis; clouds and paths are their stamps.

## 6. Plan

1. *The maneuver end to end.* PathBridge without Nav2's internals, composed with
   BehaviorTree's gate and ManeuverServers' path, through topics that deliver in
   either order: the lane is driven only while no maneuver is held.
2. *The in-lane filter* as the source of the verdicts ObstacleMemory receives: the age
   of the curves against the motion of the robot.

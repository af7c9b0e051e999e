------------------------------ MODULE PathBridge ------------------------------
(***************************************************************************)
(* path_bridge (mapping_cpp/src/lane_follow_test.cpp): the only client of  *)
(* Nav2's FollowPath action.  It arbitrates between the selected lane      *)
(* centreline and the path of an intersection maneuver, and it may have to *)
(* withdraw a goal whose acceptance it has not heard of yet.  The node is  *)
(* single-threaded: each subscription, timer and action-client callback is *)
(* one action.  `bridge' holds the members of the C++ class.               *)
(*                                                                         *)
(* Nav2's side is the SimpleActionServer of nav2_util with the worker      *)
(* thread that runs ControllerServer::computeControl.  Its executor and    *)
(* its worker interleave wherever update_mutex_ is released.               *)
(*                                                                         *)
(* Clocks are abstracted to the two comparisons the code makes: lane_fresh *)
(* is "now - lane_received_ <= lane_max_age_", throttled is                *)
(* "now - last_send_ < update_period_"; either may lapse at any moment.    *)
(***************************************************************************)
EXTENDS Naturals

CONSTANTS
    MaxGeneration,   \* bound on generation_, which numbers the goals
    MaxPaths,        \* bound on the path messages ever received
    NavMayCrash,     \* whether the controller server may die
    EarlyRestart     \* whether it may be activated while a thread of before still starts

ASSUME ConstantsAssumption ==
    /\ MaxGeneration \in Nat /\ MaxPaths \in Nat
    /\ NavMayCrash \in BOOLEAN /\ EarlyRestart \in BOOLEAN

VARIABLES
    bridge,      \* the members of class PathBridge
    published,   \* number of path messages received so far
    crashed,     \* an exception has left rclcpp::spin: the node is dead
    goal_path,   \* the path each goal carries
    known,       \* rclcpp_action's goal_handles_: accepted, result not yet seen
    requests,    \* goal requests on the wire, delivered in the order of their numbers
    responses,   \* goal responses on the wire
    cancels,     \* cancel requests on the wire
    results,     \* results on the wire
    nav,         \* life cycle of the controller server; stop_execution_ unless active
    accepting,   \* the goal between handle_goal and handle_accepted
    current,     \* current_handle_, if active
    pending,     \* pending_handle_, if active
    canceling,   \* goals a cancel request has been accepted for
    worker       \* where the thread running work() stands

netVars == <<requests, responses, cancels, results>>
navVars == <<nav, accepting, current, pending, canceling, worker>>
vars == <<bridge, published, crashed, goal_path, known, netVars, navVars>>

-----------------------------------------------------------------------------
(* Values *)

Goal == 1 .. MaxGeneration
NoGoal == 0

NoPath == [kind |-> "none", id |-> 0, empty |-> TRUE]

\* Messages are compared by pointer in the code: every message has its own id.
Path == [kind : {"lane", "intersection"}, id : 1 .. MaxPaths, empty : BOOLEAN]
PathPtr == Path \cup {NoPath}

Response == [goal : Goal, accepted : BOOLEAN]

Bridge == [lane_path : PathPtr, lane_fresh : BOOLEAN,
           intersection_path : PathPtr, sent_path : PathPtr,
           active_goal : Goal \cup {NoGoal}, lane_enabled : BOOLEAN,
           throttled : BOOLEAN, generation : Goal \cup {NoGoal}]

TypeOK ==
    /\ bridge \in Bridge
    /\ published \in 0 .. MaxPaths
    /\ crashed \in BOOLEAN
    /\ goal_path \in [Goal -> PathPtr]
    /\ known \in SUBSET Goal
    /\ requests \in SUBSET Goal
    /\ responses \in SUBSET Response
    /\ cancels \in SUBSET Goal
    /\ results \in SUBSET Goal
    /\ nav \in {"absent", "inactive", "active", "deactivating"}
    /\ accepting \in Goal \cup {NoGoal}
    /\ current \in Goal \cup {NoGoal}
    /\ pending \in Goal \cup {NoGoal}
    /\ canceling \in SUBSET Goal
    /\ worker \in {"idle", "start", "run", "cancel", "return", "exiting"}

Init ==
    /\ bridge = [lane_path |-> NoPath, lane_fresh |-> FALSE,
                 intersection_path |-> NoPath, sent_path |-> NoPath,
                 active_goal |-> NoGoal, lane_enabled |-> FALSE,
                 throttled |-> FALSE, generation |-> 0]
    /\ published = 0
    /\ crashed = FALSE
    /\ goal_path = [g \in Goal |-> NoPath]
    /\ known = {}
    /\ requests = {}
    /\ responses = {}
    /\ cancels = {}
    /\ results = {}
    /\ nav = "absent"
    /\ accepting = NoGoal
    /\ current = NoGoal
    /\ pending = NoGoal
    /\ canceling = {}
    /\ worker = "idle"

-----------------------------------------------------------------------------
(* Methods of PathBridge, as functions of the object's state *)

\* The goal cancel_current() asks Nav2 to cancel.
Withdrawn(b) == {b.active_goal} \ {NoGoal}

cancel_current(b) ==
    [b EXCEPT !.generation = @ + 1, !.active_goal = NoGoal,
              !.sent_path = NoPath, !.throttled = FALSE]

\* Mutant: the lane comes first.
Desired_LaneFirst(b) ==
    IF b.lane_enabled /\ b.lane_fresh THEN b.lane_path ELSE b.intersection_path

Desired(b) ==
    IF b.intersection_path # NoPath THEN b.intersection_path
    ELSE IF b.lane_enabled /\ b.lane_fresh THEN b.lane_path
    ELSE NoPath

\* dispatch() reaches async_send_goal.
Sends(b) ==
    /\ ~ Desired(b).empty
    /\ Desired(b) # b.sent_path
    /\ ~ b.throttled
    /\ nav # "absent"

\* dispatch() at the end of a callback that has brought the object to state b.
dispatch(b) ==
    \/ /\ Sends(b)
       /\ bridge' = [b EXCEPT !.generation = @ + 1, !.sent_path = Desired(b),
                              !.throttled = TRUE]
       /\ goal_path' = [goal_path EXCEPT ![b.generation + 1] = Desired(b)]
       /\ requests' = requests \cup {b.generation + 1}
    \/ /\ ~ Sends(b)
       /\ bridge' = b
       /\ UNCHANGED <<goal_path, requests>>

\* A callback that calls cancel_current() and then dispatch().  async_cancel_goal
\* throws UnknownGoalHandleError for a handle whose result has been received, and
\* nothing catches it: the process ends.
CancelThenDispatch(b) ==
    \/ /\ Withdrawn(bridge) \subseteq known
       /\ cancels' = cancels \cup Withdrawn(bridge)
       /\ dispatch(b)
       /\ UNCHANGED crashed
    \/ /\ ~ (Withdrawn(bridge) \subseteq known)
       /\ crashed' = TRUE
       /\ UNCHANGED <<bridge, goal_path, requests, cancels>>

\* Room for the at most two increments of generation_ in one callback.
Alive == ~ crashed /\ bridge.generation + 2 <= MaxGeneration

-----------------------------------------------------------------------------
(* Callbacks of PathBridge *)

OnLane(empty) ==
    /\ ~ crashed
    /\ published < MaxPaths
    /\ published' = published + 1
    /\ bridge' = [bridge EXCEPT
                    !.lane_path = [kind |-> "lane", id |-> published + 1, empty |-> empty],
                    !.lane_fresh = TRUE]
    /\ UNCHANGED <<crashed, goal_path, known, netVars, navVars>>

OnManeuver ==
    /\ Alive
    /\ published < MaxPaths
    /\ published' = published + 1
    /\ CancelThenDispatch(
         [cancel_current(bridge) EXCEPT !.intersection_path =
             [kind |-> "intersection", id |-> published + 1, empty |-> FALSE]])
    /\ UNCHANGED <<known, responses, results, navVars>>

OnManeuverCleared ==
    /\ Alive
    /\ bridge.intersection_path # NoPath
    /\ CancelThenDispatch([cancel_current(bridge) EXCEPT !.intersection_path = NoPath])
    /\ UNCHANGED <<published, known, responses, results, navVars>>

\* An enable message that cancels nothing: true, or any value during a maneuver.
OnEnableKeeps(enable) ==
    /\ Alive
    /\ enable \/ bridge.intersection_path # NoPath
    /\ dispatch([bridge EXCEPT !.lane_enabled = enable])
    /\ UNCHANGED <<published, crashed, known, responses, cancels, results, navVars>>

\* Mutant: a disable message cancels whatever is driven.
OnDisable_CancelsManeuver ==
    /\ Alive
    /\ CancelThenDispatch(cancel_current([bridge EXCEPT !.lane_enabled = FALSE]))
    /\ UNCHANGED <<published, known, responses, results, navVars>>

OnDisable ==
    /\ Alive
    /\ bridge.intersection_path = NoPath
    /\ CancelThenDispatch(cancel_current([bridge EXCEPT !.lane_enabled = FALSE]))
    /\ UNCHANGED <<published, known, responses, results, navVars>>

\* The 50 ms timer.  An empty intersection path while none is held also only
\* runs dispatch().
Timer ==
    /\ Alive
    /\ dispatch(bridge)
    /\ UNCHANGED <<published, crashed, known, responses, cancels, results, navVars>>

\* Mutant: the acceptance of a goal that has been withdrawn is ignored.
OnResponse_NoCancel(r) ==
    /\ ~ crashed
    /\ r \in responses
    /\ responses' = responses \ {r}
    /\ known' = IF r.accepted THEN known \cup {r.goal} ELSE known
    /\ bridge' = IF r.goal # bridge.generation THEN bridge
                 ELSE IF r.accepted THEN [bridge EXCEPT !.active_goal = r.goal]
                 ELSE [bridge EXCEPT !.active_goal = NoGoal, !.sent_path = NoPath]
    /\ UNCHANGED <<published, crashed, goal_path, requests, cancels, results, navVars>>

\* goal_response_callback, and the handle rclcpp_action keeps of an accepted goal.
OnResponse(r) ==
    /\ ~ crashed
    /\ r \in responses
    /\ responses' = responses \ {r}
    /\ known' = IF r.accepted THEN known \cup {r.goal} ELSE known
    /\ \/ /\ r.goal # bridge.generation
          /\ cancels' = IF r.accepted THEN cancels \cup {r.goal} ELSE cancels
          /\ UNCHANGED bridge
       \/ /\ r.goal = bridge.generation
          /\ bridge' = IF r.accepted
                         THEN [bridge EXCEPT !.active_goal = r.goal]
                         ELSE [bridge EXCEPT !.active_goal = NoGoal, !.sent_path = NoPath]
          /\ UNCHANGED cancels
    /\ UNCHANGED <<published, crashed, goal_path, requests, results, navVars>>

\* result_callback; rclcpp_action only asks for the result of an accepted goal.
OnResult(g) ==
    /\ ~ crashed
    /\ g \in results \cap known
    /\ results' = results \ {g}
    /\ known' = known \ {g}
    /\ bridge' = IF g = bridge.generation
                   THEN [bridge EXCEPT !.active_goal = NoGoal]
                   ELSE bridge
    /\ UNCHANGED <<published, crashed, goal_path, requests, responses, cancels, navVars>>

\* Time passes.
LaneAges ==
    /\ bridge.lane_fresh
    /\ bridge' = [bridge EXCEPT !.lane_fresh = FALSE]
    /\ UNCHANGED <<published, crashed, goal_path, known, netVars, navVars>>

ThrottleElapses ==
    /\ bridge.throttled
    /\ bridge' = [bridge EXCEPT !.throttled = FALSE]
    /\ UNCHANGED <<published, crashed, goal_path, known, netVars, navVars>>

-----------------------------------------------------------------------------
(* Nav2: SimpleActionServer and ControllerServer::computeControl *)

bridgeVars == <<bridge, published, crashed, goal_path, known>>

\* Mutant: no check for a null handle.
Handles_Null(h) == h

\* The handles of h that terminate() finds active.
Handles(h) == h \ {NoGoal}

\* handle_goal, and the response.  Requests of one client arrive in the order it sent
\* them, and the server's executor has a single thread.
HandleGoal(g) ==
    /\ g \in requests
    /\ \A h \in requests : g <= h
    /\ nav # "absent"
    /\ accepting = NoGoal
    /\ requests' = requests \ {g}
    /\ responses' = responses \cup {[goal |-> g, accepted |-> nav = "active"]}
    /\ accepting' = IF nav = "active" THEN g ELSE NoGoal
    /\ UNCHANGED <<cancels, results, nav, current, pending, canceling, worker, bridgeVars>>

\* handle_accepted, which does not ask again whether the server is active.
HandleAccepted ==
    /\ accepting # NoGoal
    /\ accepting' = NoGoal
    /\ results' = results \cup Handles({pending})
    /\ IF current # NoGoal \/ worker # "idle"
         THEN pending' = accepting /\ UNCHANGED <<current, worker>>
         ELSE pending' = NoGoal /\ current' = accepting /\ worker' = "start"
    /\ UNCHANGED <<requests, responses, cancels, nav, canceling, bridgeVars>>

\* handle_cancel: accepted for an active handle only.
HandleCancel(g) ==
    /\ nav # "absent"
    /\ accepting = NoGoal
    /\ g \in cancels
    /\ cancels' = cancels \ {g}
    /\ canceling' = canceling \cup ({g} \cap {current, pending})
    /\ UNCHANGED <<requests, responses, results, nav, accepting, current, pending, worker,
                   bridgeVars>>

terminate_all ==
    /\ results' = results \cup Handles({current, pending})
    /\ current' = NoGoal
    /\ pending' = NoGoal

accept_pending_goal ==
    /\ results' = results \cup Handles({current})
    /\ current' = pending
    /\ pending' = NoGoal

is_cancel_requested ==
    IF pending # NoGoal THEN pending \in canceling ELSE current \in canceling

\* The guard of the loop in work().  stop_execution_ may have been set since the thread
\* was started or since it took over a pending goal: the thread then ends and leaves
\* current_handle_ as it is.
WorkerTests ==
    /\ worker = "start"
    /\ worker' = IF nav = "active" /\ current # NoGoal THEN "run" ELSE "exiting"
    /\ UNCHANGED <<netVars, nav, accepting, current, pending, canceling, bridgeVars>>

\* computeControl finds the server inactive and leaves the control loop.
WorkerStops ==
    /\ worker = "run"
    /\ nav # "active"
    /\ worker' = "return"
    /\ UNCHANGED <<netVars, nav, accepting, current, pending, canceling, bridgeVars>>

\* is_cancel_requested() returned true; update_mutex_ is released again before
\* terminate_all() is called.
WorkerSeesCancel ==
    /\ worker = "run"
    /\ nav = "active"
    /\ is_cancel_requested
    /\ worker' = "cancel"
    /\ UNCHANGED <<netVars, nav, accepting, current, pending, canceling, bridgeVars>>

WorkerTerminatesAll ==
    /\ worker = "cancel"
    /\ terminate_all
    /\ worker' = "return"
    /\ UNCHANGED <<requests, responses, cancels, nav, accepting, canceling, bridgeVars>>

\* updateGlobalPath takes over the pending goal.
WorkerPreempts ==
    /\ worker = "run"
    /\ pending # NoGoal
    /\ accept_pending_goal
    /\ UNCHANGED <<requests, responses, cancels, nav, accepting, canceling, worker, bridgeVars>>

\* The goal is reached, or the controller throws: succeeded_current() or
\* terminate_current().
WorkerFinishes ==
    /\ worker = "run"
    /\ results' = results \cup Handles({current})
    /\ current' = NoGoal
    /\ worker' = "return"
    /\ UNCHANGED <<requests, responses, cancels, nav, accepting, pending, canceling, bridgeVars>>

\* work() after execute_callback_(), under update_mutex_; a pending goal is taken over
\* and the loop's guard comes next.
WorkerReturns ==
    /\ worker = "return"
    /\ \/ /\ nav # "active"
          /\ terminate_all
          /\ worker' = "exiting"
       \/ /\ nav = "active"
          /\ pending # NoGoal
          /\ accept_pending_goal
          /\ worker' = "start"
       \/ /\ nav = "active"
          /\ pending = NoGoal
          /\ results' = results \cup Handles({current})
          /\ current' = NoGoal
          /\ UNCHANGED pending
          /\ worker' = "exiting"
    /\ UNCHANGED <<requests, responses, cancels, nav, accepting, canceling, bridgeVars>>

\* The thread ends; until then is_running() is still true.
WorkerExits ==
    /\ worker = "exiting"
    /\ worker' = "idle"
    /\ UNCHANGED <<netVars, nav, accepting, current, pending, canceling, bridgeVars>>

\* The life cycle of the controller server.  deactivate() waits for the worker; one that
\* handle_accepted starts afterwards is not waited for.
NavConfigure ==
    /\ nav = "absent"
    /\ nav' = "inactive"
    /\ UNCHANGED <<netVars, accepting, current, pending, canceling, worker, bridgeVars>>

NavActivate ==
    /\ nav = "inactive"
    /\ ~ EarlyRestart => accepting = NoGoal /\ worker = "idle"
    /\ nav' = "active"
    /\ UNCHANGED <<netVars, accepting, current, pending, canceling, worker, bridgeVars>>

NavDeactivate ==
    /\ nav = "active"
    /\ nav' = "deactivating"
    /\ UNCHANGED <<netVars, accepting, current, pending, canceling, worker, bridgeVars>>

\* server_timeout_ passed in deactivate() and the worker still runs.
NavDeadline ==
    /\ nav = "deactivating"
    /\ worker # "idle"
    /\ Handles({current, pending}) # {}
    /\ terminate_all
    /\ UNCHANGED <<requests, responses, cancels, nav, accepting, canceling, worker, bridgeVars>>

NavDeactivated ==
    /\ nav = "deactivating"
    /\ worker = "idle"
    /\ nav' = "inactive"
    /\ UNCHANGED <<netVars, accepting, current, pending, canceling, worker, bridgeVars>>

\* The controller server dies: what it had and what was on its way to it is lost.
NavCrash ==
    /\ NavMayCrash
    /\ nav # "absent"
    /\ nav' = "absent"
    /\ requests' = {}
    /\ cancels' = {}
    /\ accepting' = NoGoal
    /\ current' = NoGoal
    /\ pending' = NoGoal
    /\ canceling' = {}
    /\ worker' = "idle"
    /\ UNCHANGED <<responses, results, bridgeVars>>

-----------------------------------------------------------------------------

Environment ==
    \/ \E e \in BOOLEAN : OnLane(e) \/ OnEnableKeeps(e)
    \/ OnManeuver \/ OnManeuverCleared \/ OnDisable
    \/ LaneAges \/ ThrottleElapses
    \/ NavConfigure \/ NavActivate \/ NavDeactivate \/ NavCrash

Delivery ==
    \/ \E r \in responses : OnResponse(r)
    \/ \E g \in Goal : OnResult(g) \/ HandleCancel(g) \/ HandleGoal(g)
    \/ HandleAccepted

Worker ==
    \/ WorkerTests \/ WorkerStops \/ WorkerSeesCancel \/ WorkerTerminatesAll \/ WorkerPreempts
    \/ WorkerFinishes \/ WorkerReturns \/ WorkerExits

Next == Environment \/ Timer \/ Delivery \/ Worker \/ NavDeadline \/ NavDeactivated

Spec == Init /\ [][Next]_vars

\* Executors and the worker thread keep running, the wire is reliable and timers
\* fire.  Nothing is assumed of publishers, of the life cycle or of the
\* controller reaching its goal.
Fairness ==
    /\ WF_vars(Timer)
    /\ WF_vars(ThrottleElapses)
    /\ WF_vars(\E r \in responses : OnResponse(r))
    /\ \A g \in Goal : WF_vars(OnResult(g)) /\ WF_vars(HandleCancel(g))
    /\ WF_vars(\E g \in Goal : HandleGoal(g))
    /\ WF_vars(HandleAccepted)
    /\ WF_vars(WorkerTests)
    /\ WF_vars(WorkerStops)
    /\ WF_vars(WorkerSeesCancel)
    /\ WF_vars(WorkerTerminatesAll)
    /\ WF_vars(WorkerPreempts)
    /\ WF_vars(WorkerReturns)
    /\ WF_vars(WorkerExits)

FairSpec == Spec /\ Fairness

-----------------------------------------------------------------------------
(* Properties *)

\* Goals the worker drives or will drive.  (A goal accepted while the worker is exiting,
\* or after it has left an active handle behind, stays in the pending slot and is
\* terminated by the next goal.)
Live == IF worker \in {"start", "run", "cancel", "return"} THEN Handles({current, pending}) ELSE {}

Accepted(g) == [goal |-> g, accepted |-> TRUE]

\* Goal g is the bridge's own, is being withdrawn, will be answered by the
\* bridge's response callback, or makes way for a later goal.
Accounted(g) ==
    \/ g = bridge.active_goal
    \/ g \in cancels \cup canceling
    \/ Accepted(g) \in responses
    \/ pending > g \/ accepting > g
    \/ \E h \in requests : h > g
    \/ nav # "active"

\* No goal is ever driven behind the bridge's back: as long as the node lives,
\* each goal Nav2 drives is one the bridge can cancel, is already cancelling, will
\* cancel or adopt when its acceptance arrives, or is about to be replaced (the
\* purpose of generation_ in cancel_current and goal_response_callback).  It is stated for
\* a server that is not activated again while a thread of before has not tested its guard:
\* such a thread would drive a goal the bridge has given up after a refusal.
NoOrphanGoal == ~ crashed /\ ~ EarlyRestart => \A g \in Live : Accounted(g)

\* "Lane updates cannot replace a maneuver until its publisher clears the path":
\* while a maneuver is held, no lane goal waits behind the maneuver's goal, in
\* Nav2's pending slot or on the wire.
ManeuverHasPriority ==
    ~ crashed /\ bridge.intersection_path # NoPath =>
        \A g \in Goal : goal_path[g] = bridge.intersection_path =>
            /\ pending > g => goal_path[pending].kind = "intersection"
            /\ accepting > g => goal_path[accepting].kind = "intersection"
            /\ current > g => goal_path[current].kind = "intersection"
            /\ \A h \in requests : h > g => goal_path[h].kind = "intersection"

\* "The server owns maneuver cancellation": as long as its path is held, the bridge asks
\* Nav2 to cancel no goal of the maneuver, neither when lane following is disabled nor when
\* an acceptance comes late.  The path may have been sent more than once by then, since a
\* refusal makes the timer send it again; only goals that were refused have been replaced.
ManeuverNotWithdrawn ==
    [][bridge.intersection_path # NoPath
         /\ bridge'.intersection_path = bridge.intersection_path =>
            \A g \in cancels' \ cancels : goal_path[g] # bridge.intersection_path]_vars

\* async_cancel_goal is only ever called on a handle rclcpp_action still knows.
\* The comment on lane disabling ("Only cancel a lane goal here") takes this for
\* granted: otherwise the call throws and nothing is cancelled at all.
CancelsKnownHandle == ~ crashed

Stopped == ~ bridge.lane_enabled /\ bridge.intersection_path = NoPath

\* A stop takes effect: once lane following stays disabled and no maneuver is
\* held, Nav2 ends up driving nothing, whatever was being sent, accepted,
\* preempted or cancelled when the disable message arrived, and however the server is
\* activated and deactivated meanwhile: the thread with the control loop ends.  (It may
\* leave current_handle_ active, but nothing drives that goal any more.)  Like NoOrphanGoal
\* it is for a server that is not activated too early.
StopTakesEffect ==
    (~ EarlyRestart /\ <>[]Stopped /\ []~ crashed) => <>[](worker = "idle")

DrivesManeuver(i) ==
    /\ worker = "run"
    /\ current # NoGoal /\ goal_path[current].id = i

\* Path i is held and no goal for it has been taken up or terminated yet.
AwaitsManeuver(i) ==
    /\ bridge.intersection_path.id = i
    /\ \A g \in Goal : goal_path[g].id = i => g \in requests \cup {accepting, pending}

\* "A maneuver starts immediately": with the bridge alive (and within the bounds)
\* and Nav2 coming up and never deactivated, a held intersection path is driven unless it is
\* cleared or replaced first.
ManeuverStarts ==
    ([]Alive /\ []~ (nav = "deactivating") /\ <>[](nav = "active")) =>
        \A i \in 1 .. MaxPaths :
            AwaitsManeuver(i)
                ~> (DrivesManeuver(i) \/ bridge.intersection_path.id # i)

=============================================================================

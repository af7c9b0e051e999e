--------------------------- MODULE ManeuverServers ---------------------------
(***************************************************************************)
(* The two action servers the behaviour tree drives, and the wire between: *)
(* IntersectionServer (intersection_cpp/src/IntersectionServer.cpp), which *)
(* runs a maneuver in its own thread, and LaneChangeServer (lane_change/   *)
(* src/lane_change_server.cpp), which flips the selected lane at once.     *)
(*                                                                         *)
(* link[a] is the client node of action a and the wire to its server.  A   *)
(* goal is "own" while the client still waits for it, "stale" once the     *)
(* client has given it up, and "doomed" if the client's halt will cancel it*)
(* as soon as it is accepted.  Answers and results of goals the client has *)
(* given up reach nobody and are left out.                                 *)
(***************************************************************************)
EXTENDS Naturals, Sequences

CONSTANT MaxInFlight    \* bound on the goal requests on the wire of one action

ASSUME ServersAssumption == MaxInFlight \in Nat

VARIABLES
    link,        \* per action: client node, goal requests, response and result
    costmap,     \* latest_costmap_ has been received
    busy,        \* busy_
    goal,        \* the goal execute() runs, if any
    phase,       \* where execute() stands
    canceling,   \* goal_handle->is_canceling()
    cancel,      \* a cancel request for the running goal is on the wire
    path,        \* the latched intersection path is not empty
    alive,       \* the intersection server's process runs
    lane         \* lane_ of LaneChangeServer

serverVars == <<link, costmap, busy, goal, phase, canceling, cancel, path, alive, lane>>

ActionName == {"turn", "change"}
Token == {"own", "stale", "doomed"}

ServersTypeOK ==
    /\ DOMAIN link = ActionName
    /\ \A a \in ActionName :
          /\ link[a].client \in {"idle", "requested", "accepted"}
          /\ link[a].requests \in Seq(Token) /\ Len(link[a].requests) <= MaxInFlight
          /\ link[a].answer \in {"none", "accept", "reject"}
          /\ link[a].outcome \in {"none", "success", "failure"}
    /\ costmap \in BOOLEAN /\ busy \in BOOLEAN /\ canceling \in BOOLEAN
    /\ cancel \in BOOLEAN /\ path \in BOOLEAN /\ alive \in BOOLEAN
    /\ goal \in {"none", "own", "stale"}
    /\ phase \in {"idle", "plan", "monitor", "return"}
    /\ lane \in {"left", "right"}

ServersInit ==
    /\ link = [a \in ActionName |-> [client |-> "idle", requests |-> <<>>,
                                     answer |-> "none", outcome |-> "none"]]
    /\ costmap = FALSE
    /\ busy = FALSE
    /\ goal = "none"
    /\ phase = "idle"
    /\ canceling = FALSE
    /\ cancel = FALSE
    /\ path = FALSE
    /\ alive = TRUE
    /\ lane = "left"

-----------------------------------------------------------------------------
(* IntersectionServer *)

CostmapArrives ==
    /\ ~ costmap
    /\ costmap' = TRUE
    /\ UNCHANGED <<link, busy, goal, phase, canceling, cancel, path,
                   alive, lane>>

\* handle_goal, and handle_accepted, which joins the thread of the previous maneuver.
TurnHandleGoal ==
    /\ alive
    /\ link["turn"].requests # <<>>
    /\ LET token == Head(link["turn"].requests)
           accepts == costmap /\ ~ busy
       IN  /\ link' = [link EXCEPT !["turn"].requests = Tail(@),
                                   !["turn"].answer =
                                      IF token # "own" THEN @
                                      ELSE IF accepts THEN "accept" ELSE "reject"]
           /\ IF accepts
                THEN /\ busy' = TRUE
                     /\ goal' = IF token = "own" THEN "own" ELSE "stale"
                     /\ phase' = "plan"
                     /\ canceling' = FALSE
                     /\ cancel' = (token = "doomed")
                ELSE UNCHANGED <<busy, goal, phase, canceling, cancel>>
    /\ UNCHANGED <<costmap, path, alive, lane>>

\* handle_cancel always accepts.
TurnHandleCancel ==
    /\ alive
    /\ cancel
    /\ cancel' = FALSE
    /\ canceling' = TRUE
    /\ UNCHANGED <<link, costmap, busy, goal, phase, path, alive, lane>>

\* abort, canceled or succeed on the goal handle: the result goes to whoever waits.
Finish(result) ==
    /\ link' = IF goal = "own" THEN [link EXCEPT !["turn"].outcome = result] ELSE link
    /\ goal' = "none"
    /\ phase' = "return"
    /\ cancel' = FALSE
    /\ canceling' = FALSE

\* abort_with before a path has been published: no pose, no plan, a blocked path, no
\* transform.
PlanFails ==
    /\ alive
    /\ phase = "plan"
    /\ path' = FALSE
    /\ Finish("failure")
    /\ UNCHANGED <<costmap, busy, alive, lane>>

PlanSucceeds ==
    /\ alive
    /\ phase = "plan"
    /\ path' = TRUE
    /\ phase' = "monitor"
    /\ UNCHANGED <<link, costmap, busy, goal, canceling, cancel, alive, lane>>

\* The monitoring loop finds the goal canceling.
MonitorCancels ==
    /\ alive
    /\ phase = "monitor"
    /\ canceling
    /\ path' = FALSE
    /\ Finish("failure")
    /\ UNCHANGED <<costmap, busy, alive, lane>>

\* Mutant: the path stays latched when the robot has left it.
MonitorAborts_KeepsPath ==
    /\ alive
    /\ phase = "monitor"
    /\ Finish("failure")
    /\ UNCHANGED <<costmap, busy, path, alive, lane>>

\* Timeout, or the robot left the path.
MonitorAborts ==
    /\ alive
    /\ phase = "monitor"
    /\ path' = FALSE
    /\ Finish("failure")
    /\ UNCHANGED <<costmap, busy, alive, lane>>

\* The end of the path is reached; a cancel may have come since the loop asked.
MonitorSucceeds ==
    /\ alive
    /\ phase = "monitor"
    /\ path' = FALSE
    /\ Finish("success")
    /\ UNCHANGED <<costmap, busy, alive, lane>>

\* rclcpp::ok() is false: the loop ends and the goal is aborted.
MonitorShutsDown ==
    /\ alive
    /\ phase = "monitor"
    /\ alive' = FALSE
    /\ Finish("failure")
    /\ busy' = FALSE
    /\ UNCHANGED <<costmap, path, lane>>

\* The process ends while no maneuver runs.
IdleShutsDown ==
    /\ alive
    /\ phase = "idle"
    /\ alive' = FALSE
    /\ UNCHANGED <<link, costmap, busy, goal, phase, canceling, cancel, path, lane>>

\* execute() returns and BusyGuard releases busy_, after the result has been sent.
ExecuteReturns ==
    /\ alive
    /\ phase = "return"
    /\ phase' = "idle"
    /\ busy' = FALSE
    /\ UNCHANGED <<link, costmap, goal, canceling, cancel, path, alive, lane>>

-----------------------------------------------------------------------------
(* LaneChangeServer: accept, flip, publish and succeed in one callback *)

Flip(l) == IF l = "left" THEN "right" ELSE "left"

ChangeHandleGoal ==
    /\ link["change"].requests # <<>>
    /\ LET own == Head(link["change"].requests) = "own"
       IN  link' = [link EXCEPT !["change"].requests = Tail(@),
                                !["change"].answer = IF own THEN "accept" ELSE @,
                                !["change"].outcome = IF own THEN "success" ELSE @]
    /\ lane' = Flip(lane)
    /\ UNCHANGED <<costmap, busy, goal, phase, canceling, cancel, path, alive>>

Monitoring == MonitorCancels \/ MonitorAborts \/ MonitorSucceeds

ServersNext ==
    \/ CostmapArrives \/ TurnHandleGoal \/ TurnHandleCancel
    \/ PlanFails \/ PlanSucceeds \/ Monitoring \/ MonitorShutsDown \/ ExecuteReturns
    \/ IdleShutsDown \/ ChangeHandleGoal

-----------------------------------------------------------------------------

\* "An empty path always tells the controller 'maneuver over' and clears the latched
\* path" (comment in execute()): as long as the process lives, no path stays latched when
\* nothing executes.  The exit taken when the node shuts down is the exception.
PathClearedAtEnd == alive /\ phase \in {"idle", "return"} => ~ path

=============================================================================

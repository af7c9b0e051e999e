---------------------------- MODULE BehaviorTree ----------------------------
(***************************************************************************)
(* The tree of bt/trees/main.xml with the nodes of bt/include/bt/nodes.hpp,*)
(* ticked by the loop of bt_executor.cpp.  One tick is one action, chosen  *)
(* by the branch of the ReactiveFallback that ends up running; perception  *)
(* (DecisionLatch, which SharedState implements) and the servers           *)
(* (ManeuverServers) move between ticks.                                   *)
(*                                                                         *)
(* BehaviorTree.CPP is external: ReactiveFallback starts from its first    *)
(* child on every tick and halts the children after or before the one that *)
(* is RUNNING; Sequence remembers the child that was RUNNING; a Parallel   *)
(* whose children never complete is RUNNING.  So is RosActionNode: a tick  *)
(* while idle asks setGoal and sends, a tick while running collects the    *)
(* response and then the result, a halt cancels.                           *)
(*                                                                         *)
(* lockout[a] is "now - last_fail_ < min_retry_".  A decision may go stale *)
(* within a tick, after DecideAction has read it.                          *)
(***************************************************************************)
EXTENDS DecisionLatch, ManeuverServers

CONSTANTS
    StopImplemented,    \* StopRobot has been replaced by an action that can succeed
    ResponseMayTimeOut  \* a goal response may come after the client's deadline

ASSUME TreeAssumption == StopImplemented \in BOOLEAN /\ ResponseMayTimeOut \in BOOLEAN

VARIABLES
    running,     \* the child of the ReactiveFallback that is RUNNING
    node,        \* child the intersection branch resumes at: "stop" or "turn"
    needs_stop,  \* blackboard entry {needs_stop}
    lockout,     \* [ActionName -> BOOLEAN]
    gate,        \* last value published on /lane_follow/enable
    marked       \* the lane according to the successes the tree has seen

treeVars == <<running, node, needs_stop, lockout, gate, marked>>
vars == <<latchVars, serverVars, treeVars>>

\* What no tick touches.
serverOwn == <<costmap, busy, phase, canceling, path, alive, lane>>

TypeOK ==
    /\ ServersTypeOK
    /\ obstacle \in ObstacleDecision \cup {Nothing}
    /\ intersection \in IntersectionDecision \cup {Nothing}
    /\ active \in IntersectionDecision \cup {Nothing}
    /\ sent \in ObstacleDecision \cup IntersectionDecision \cup {Nothing}
    /\ turns \in 0 .. InitialTurns
    /\ running \in {"none", "stop", "intersection", "lane"}
    /\ node \in {"stop", "turn"}
    /\ needs_stop \in BOOLEAN
    /\ lockout \in [ActionName -> BOOLEAN]
    /\ gate \in BOOLEAN
    /\ marked \in {"left", "right"}

Init ==
    /\ LatchInit
    /\ ServersInit
    /\ running = "none"
    /\ node = "stop"
    /\ needs_stop = FALSE
    /\ lockout = [a \in ActionName |-> FALSE]
    /\ gate = FALSE
    /\ marked = "left"

-----------------------------------------------------------------------------
(* Action client nodes, as functions of their link *)

\* The client forgets its goal; doomed says whether it will be cancelled.
GivenUp(l, doomed) ==
    [l EXCEPT !.client = "idle", !.answer = "none", !.outcome = "none",
              !.requests = [k \in DOMAIN @ |->
                              IF @[k] # "own" THEN @[k]
                              ELSE IF doomed THEN "doomed" ELSE "stale"]]

\* halt(): an unanswered goal is cancelled only if its response comes in time.
Halted(l, doomed) == IF l.client = "idle" THEN l ELSE GivenUp(l, doomed)

WithGoal(l) == [l EXCEPT !.client = "requested", !.requests = Append(@, "own")]

Accepted(l) == l.client = "accepted" \/ (l.client = "requested" /\ l.answer = "accept")

\* Nothing to report yet.
Waits(l) == (l.client = "requested" /\ l.answer = "none") \/ (Accepted(l) /\ l.outcome = "none")

Waiting(l) == IF Accepted(l) THEN [l EXCEPT !.client = "accepted", !.answer = "none"] ELSE l

\* onFailure, or a result without success: rejected, no response in time, aborted or
\* canceled.  A goal that is not answered in time may still be accepted later.
Fails(l) ==
    \/ l.client = "requested" /\ l.answer = "reject"
    \/ l.client = "requested" /\ l.answer = "none" /\ ResponseMayTimeOut
    \/ Accepted(l) /\ l.outcome = "failure"

\* Mutant: an accepted goal counts as a success.
Succeeds_OnAcceptance(l) == Accepted(l) /\ l.outcome # "failure"

Succeeds(l) == Accepted(l) /\ l.outcome = "success"

\* The goal handle the turn client gives up.
DropTurn == goal' = IF goal = "own" THEN "stale" ELSE goal

-----------------------------------------------------------------------------
(* The branch of the stop *)

StopDecided == obstacle # Nothing /\ obstacle.action = "stop"

\* DisableLaneFollowing and StopRobot, under KeepRunningUntilFailure(ForceSuccess);
\* the tree halts the other branches.
TickStop ==
    /\ StopDecided
    /\ running' = "stop"
    /\ node' = "stop"
    /\ gate' = FALSE
    /\ sent' = Nothing
    /\ \E doomed \in BOOLEAN : link' = [a \in ActionName |-> Halted(link[a], doomed)]
    /\ cancel' = (cancel \/ goal = "own")
    /\ DropTurn
    /\ UNCHANGED <<obstacle, intersection, active, done, turns, needs_stop, lockout, marked,
                   serverOwn>>

-----------------------------------------------------------------------------
(* The branch of the intersection *)

\* ScriptCondition and BeginIntersection succeed; later ticks resume at RetryOnNextTick.
Enters ==
    /\ ~ StopDecided
    /\ running # "intersection"
    /\ Latched \/ intersection # Nothing

\* Mutant: the line in view replaces the one that is latched.
Begun_Relatches == IF intersection # Nothing THEN intersection ELSE active

Begun == IF Latched THEN active ELSE intersection

\* Mutant: a FAILURE of the child lets the ReactiveFallback go on to lane following.
RetryOnNextTick_FallsThrough(status, at) ==
    /\ running' = IF status = "SUCCESS" THEN "none"
                  ELSE IF status = "FAILURE" THEN "lane" ELSE "intersection"
    /\ gate' = (status = "FAILURE")
    /\ node' = IF status = "RUNNING" THEN at ELSE "stop"

\* Mutant: the child is not reset after a FAILURE.
RetryOnNextTick_NoReset(status, at) ==
    /\ running' = IF status = "SUCCESS" THEN "none" ELSE "intersection"
    /\ gate' = FALSE
    /\ node' = IF status = "SUCCESS" THEN "stop" ELSE "turn"

\* RetryOnNextTick: a FAILURE of the child becomes RUNNING, and the child starts over.
\* A SUCCESS completes the branch and the tree.
RetryOnNextTick(status, at) ==
    /\ running' = IF status = "SUCCESS" THEN "none" ELSE "intersection"
    /\ gate' = FALSE
    /\ node' = IF status = "RUNNING" THEN at ELSE "stop"

\* Mutant: the lane branch is not halted when the intersection branch takes over.
ChangeLinkAfter_NoHalt(entered) == {link["change"]}

\* The link of LaneChange after this branch has run: the ReactiveFallback halts the
\* lane branch on entering.
ChangeLinkAfter(entered) ==
    IF entered THEN {Halted(link["change"], doomed) : doomed \in BOOLEAN}
    ELSE {link["change"]}

\* Mutant: an empty turn list is not refused.
MaySendTurn_NoTurns(d) == ~ lockout["turn"] /\ ~ d.needs_stop

\* setGoal returns true for the latched decision d.
MaySendTurn(d) == ~ lockout["turn"] /\ ~ d.needs_stop /\ turns > 0

\* Intersection is ticked while its client is idle.
StartTurn(d, entered) ==
    \E changeLink \in ChangeLinkAfter(entered) :
        \/ \* refused: INVALID_GOAL.  An empty turn list starts the lockout.
           /\ ~ MaySendTurn(d)
           /\ RetryOnNextTick("FAILURE", "stop")
           /\ lockout' = [lockout EXCEPT !["turn"] = @ \/ ~ d.needs_stop]
           /\ sent' = Nothing
           /\ link' = [link EXCEPT !["change"] = changeLink]
        \/ \* SERVER_UNREACHABLE
           /\ ~ alive
           /\ RetryOnNextTick("FAILURE", "stop")
           /\ lockout' = [lockout EXCEPT !["turn"] = TRUE]
           /\ sent' = Nothing
           /\ link' = [link EXCEPT !["change"] = changeLink]
        \/ \* sent
           /\ MaySendTurn(d)
           /\ alive
           /\ Len(link["turn"].requests) < MaxInFlight
           /\ RetryOnNextTick("RUNNING", "turn")
           /\ sent' = d
           /\ link' = [link EXCEPT !["change"] = changeLink, !["turn"] = WithGoal(@)]
           /\ UNCHANGED lockout

\* StopRobot fails, or is still at it.
Stopping(d, entered) ==
    /\ active' = d
    /\ needs_stop' = TRUE
    /\ \E status \in {"FAILURE"} \cup (IF StopImplemented THEN {"RUNNING"} ELSE {}) :
          RetryOnNextTick(status, "stop")
    /\ \E changeLink \in ChangeLinkAfter(entered) :
          link' = [link EXCEPT !["change"] = changeLink]
    /\ sent' = Nothing
    /\ UNCHANGED lockout

\* Fallback: no stop is needed, or StopRobot succeeds and MarkIntersectionStopped
\* follows; then Intersection in the same tick.
StopThenTurn(d, stop, entered) ==
    \/ stop /\ Stopping(d, entered)
    \/ /\ stop => StopImplemented
       /\ active' = [d EXCEPT !.needs_stop = @ /\ ~ stop]
       /\ needs_stop' = FALSE
       /\ StartTurn(active', entered)

TickEnter ==
    /\ Enters
    /\ StopThenTurn(Begun, Begun.needs_stop, TRUE)
    /\ UNCHANGED <<obstacle, intersection, done, turns, marked, goal, cancel, serverOwn>>

TickResume ==
    /\ ~ StopDecided
    /\ running = "intersection"
    /\ node = "stop"
    /\ StopThenTurn(active, needs_stop, FALSE)
    /\ UNCHANGED <<obstacle, intersection, done, turns, marked, goal, cancel, serverOwn>>

\* Intersection is ticked while its goal is outstanding.
TickTurnWaits ==
    /\ ~ StopDecided
    /\ running = "intersection" /\ node = "turn"
    /\ Waits(link["turn"])
    /\ link' = [link EXCEPT !["turn"] = Waiting(@)]
    /\ RetryOnNextTick("RUNNING", "turn")
    /\ UNCHANGED <<latchVars, needs_stop, lockout, marked, goal, cancel, serverOwn>>

TickTurnFails ==
    /\ ~ StopDecided
    /\ running = "intersection" /\ node = "turn"
    /\ Fails(link["turn"])
    /\ link' = [link EXCEPT !["turn"] = GivenUp(@, FALSE)]
    /\ lockout' = [lockout EXCEPT !["turn"] = TRUE]
    /\ sent' = Nothing
    /\ DropTurn
    /\ RetryOnNextTick("FAILURE", "stop")
    /\ UNCHANGED <<obstacle, intersection, active, done, turns, needs_stop, marked, cancel,
                   serverOwn>>

\* Mutant: two turns are popped.
complete_intersection_PopsTwo ==
    /\ active' = Nothing
    /\ intersection' = Nothing
    /\ done' = done \cup {sent.x}
    /\ turns' = turns - 2

\* Mutant: the decision the maneuver came from is not cleared.
complete_intersection_KeepsOffer ==
    /\ active' = Nothing
    /\ UNCHANGED intersection
    /\ done' = done \cup {sent.x}
    /\ turns' = turns - 1

complete_intersection ==
    /\ active' = Nothing
    /\ intersection' = Nothing
    /\ done' = done \cup {sent.x}
    /\ turns' = turns - 1

TickTurnSucceeds ==
    /\ ~ StopDecided
    /\ running = "intersection" /\ node = "turn"
    /\ Succeeds(link["turn"])
    /\ link' = [link EXCEPT !["turn"] = GivenUp(@, FALSE)]
    /\ RetryOnNextTick("SUCCESS", "stop")
    /\ complete_intersection
    /\ sent' = Nothing
    /\ UNCHANGED <<obstacle, needs_stop, lockout, marked, goal, cancel, serverOwn>>

-----------------------------------------------------------------------------
(* The branch of lane following, with lane changes in parallel *)

\* The decision is neither a stop nor an intersection, or it was an intersection and
\* went stale before BeginIntersection read it again.
LaneBranch(lapsed) ==
    /\ ~ StopDecided
    /\ running # "intersection"
    /\ ~ Latched
    /\ lapsed = (intersection # Nothing)
    /\ intersection' = Nothing
    /\ running' = "lane"
    /\ node' = "stop"
    /\ gate' = TRUE
    /\ UNCHANGED <<active, done, turns, needs_stop, goal, cancel, serverOwn>>

\* No lane change is outstanding, and none is asked for or setGoal refuses.
TickLane(lapsed) ==
    /\ LaneBranch(lapsed)
    /\ link["change"].client = "idle"
    /\ lapsed \/ obstacle = Nothing \/ lockout["change"]
    /\ UNCHANGED <<obstacle, sent, lockout, marked, link>>

TickChangeStarts ==
    /\ LaneBranch(FALSE)
    /\ link["change"].client = "idle"
    /\ obstacle # Nothing
    /\ ~ lockout["change"]
    /\ Len(link["change"].requests) < MaxInFlight
    /\ link' = [link EXCEPT !["change"] = WithGoal(@)]
    /\ sent' = obstacle
    /\ UNCHANGED <<obstacle, lockout, marked>>

TickChangeWaits(lapsed) ==
    /\ LaneBranch(lapsed)
    /\ Waits(link["change"])
    /\ link' = [link EXCEPT !["change"] = Waiting(@)]
    /\ UNCHANGED <<obstacle, sent, lockout, marked>>

TickChangeFails(lapsed) ==
    /\ LaneBranch(lapsed)
    /\ Fails(link["change"])
    /\ link' = [link EXCEPT !["change"] = GivenUp(@, FALSE)]
    /\ lockout' = [lockout EXCEPT !["change"] = TRUE]
    /\ sent' = Nothing
    /\ UNCHANGED <<obstacle, marked>>

\* SharedState::mark_handled clears the obstacle decision if it has the id sent.
TickChangeSucceeds(lapsed) ==
    /\ LaneBranch(lapsed)
    /\ Succeeds(link["change"])
    /\ link' = [link EXCEPT !["change"] = GivenUp(@, FALSE)]
    /\ sent' = Nothing
    /\ obstacle' = IF obstacle = sent THEN Nothing ELSE obstacle
    /\ marked' = Flip(marked)
    /\ UNCHANGED lockout

-----------------------------------------------------------------------------

Tick ==
    \/ TickStop \/ TickEnter \/ TickResume
    \/ TickTurnWaits \/ TickTurnFails \/ TickTurnSucceeds
    \/ TickChangeStarts
    \/ \E lapsed \in BOOLEAN :
          \/ TickLane(lapsed) \/ TickChangeWaits(lapsed)
          \/ TickChangeFails(lapsed) \/ TickChangeSucceeds(lapsed)

\* min_retry_ seconds have passed since the last failure.
LockoutElapses(a) ==
    /\ lockout[a]
    /\ lockout' = [lockout EXCEPT ![a] = FALSE]
    /\ UNCHANGED <<latchVars, serverVars, running, node, needs_stop, gate, marked>>

Perception == Perceive /\ UNCHANGED <<serverVars, treeVars>>

Servers == ServersNext /\ UNCHANGED <<latchVars, treeVars>>

Next == Tick \/ (\E a \in ActionName : LockoutElapses(a)) \/ Perception \/ Servers

Spec == Init /\ [][Next]_vars

\* The loop of bt_executor ticks and the lockouts elapse.  Nothing is assumed of
\* perception or of the servers.
FairSpec == Spec /\ WF_vars(Tick) /\ \A a \in ActionName : WF_vars(LockoutElapses(a))

-----------------------------------------------------------------------------
(* Properties *)

\* Lane following is off from the tick that latches an intersection until the tick that
\* completes it, through failures, retries, stale input and pedestrians ("retry failed
\* asynchronous work on a later tree tick, without falling through to lane
\* following").
GateClosedInManeuver == Latched => ~ gate

\* The intersection server only ever executes, and its path is only ever latched, for
\* the maneuver the tree holds: a goal that was halted, timed out or
\* cancelled too late does not outlive the latch.
ManeuverOnlyWhenLatched ==
    phase \in {"plan", "monitor"} \/ path \/ link["turn"].requests # <<>> => Latched

\* The tree waits for at most one goal, that of the branch it runs, and what it will
\* mark on success is the decision that is latched now.
GoalOfRunningBranch ==
    /\ link["turn"].client # "idle" =>
          running = "intersection" /\ sent = active /\ ~ active.needs_stop
    /\ link["change"].client # "idle" => running = "lane" /\ ~ Latched

\* A maneuver is released by its own success and by nothing else: not by a failure, a
\* timeout, a halt, a late answer or stale input; and a stop sign holds it back until
\* StopRobot has succeeded, which the placeholder never does.
ReleasedBySuccess ==
    [][Latched =>
          \/ active' = active
          \/ /\ active.needs_stop /\ StopImplemented
             /\ active' = [active EXCEPT !.needs_stop = FALSE]
          \/ /\ ~ active.needs_stop
             /\ sent = active
             /\ Accepted(link["turn"]) /\ link["turn"].outcome = "success"
             /\ active' = Nothing /\ done' = done \cup {active.x}]_vars

\* A latched maneuver that needs no stop (any more) is tried again and again, as long as
\* turns are left, the server exists and no pedestrian keeps the tree in its stop
\* branch (and the wire has room within the bound).
RetryPersists ==
    <>[](Latched /\ ~ active.needs_stop /\ turns > 0 /\ ~ StopDecided /\ alive
           /\ Len(link["turn"].requests) < MaxInFlight)
        => []<>(link["turn"].client # "idle")

\* "The wrapper cancels the goal for us; nothing was marked handled" (comment on
\* LaneChange::onHalt): once no lane change is outstanding, the lane selected
\* is the one the marked successes add up to.
HaltedChangeIsCancelled ==
    link["change"].client = "idle" /\ link["change"].requests = <<>> => lane = marked

=============================================================================

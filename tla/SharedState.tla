----------------------------- MODULE SharedState -----------------------------
(***************************************************************************)
(* class SharedState (bt/include/bt/shared_state.hpp): two Deciders, one   *)
(* per perception stream, and the latch of the intersection maneuver.  The *)
(* object is the record `state'; every method holds its mutex for its      *)
(* whole body and is an operator on the record.                            *)
(*                                                                         *)
(* The calls come from one thread, bt_executor's loop: perception callbacks*)
(* between ticks, and the nodes of the tree (nodes.hpp) during a tick.     *)
(* `sent' is sent_ of the action client that has a goal outstanding.       *)
(***************************************************************************)
EXTENDS Decider, FiniteSets

CONSTANTS
    Config,          \* DecisionConfig of the parameter file
    StaleTimeout,    \* stale_timeout
    Turns,           \* length of intersection_turns
    StopImplemented, \* StopRobot has been replaced by a stop action that can succeed
    ObstacleLists,   \* detection lists that /tracked_obstacles may bring
    MaxTime,         \* bound on the clock
    MaxHandled       \* bound on the goals that succeed

ASSUME SharedStateAssumption ==
    /\ StaleTimeout \in Nat /\ Turns \in Nat /\ MaxTime \in Nat /\ MaxHandled \in Nat
    /\ StopImplemented \in BOOLEAN
    /\ ObstacleLists \subseteq Seq(Detection)

ASSUME ConfigAssumption ==
    /\ DOMAIN Config = {"classes", "min_distance", "same_place", "handled_ttl", "pseudo_ttl",
                        "stop_sign_ttl", "hold", "confirm"}
    /\ Config.min_distance \in Nat /\ Config.same_place \in Nat
    /\ Config.handled_ttl \in Nat /\ Config.pseudo_ttl \in Nat /\ Config.stop_sign_ttl \in Nat
    /\ Config.hold \in [Slot -> Nat] /\ Config.confirm \in [Slot -> Nat \ {0}]
    /\ \A c \in DOMAIN Config.classes : c \in ClassName /\ Config.classes[c] \in ClassRule

VARIABLES
    now,      \* the node's clock
    state,    \* the members of SharedState
    sent,     \* the decision the outstanding goal was sent for, or NoDecision
    marked    \* number of goals that have succeeded

sharedVars == <<now, state, sent, marked>>

-----------------------------------------------------------------------------
(* Construction *)

IsIntersectionRule(rule) == rule.action = "intersection" \/ rule.mark_stop_sign

\* Mutant: a completed stop line is remembered no longer than an obstacle without an id.
rules_for_ShortMemory(cfg, intersection) ==
    LET mine == {c \in DOMAIN cfg.classes :
                    IsIntersectionRule(cfg.classes[c]) = intersection}
    IN  [cfg EXCEPT !.classes = [c \in mine |-> cfg.classes[c]]]

\* rules_for: each Decider keeps the classes of its own stream.  Stop lines have no
\* tracker id, and their memory lasts as long as that of a tracked obstacle.
rules_for(cfg, intersection) ==
    LET mine == {c \in DOMAIN cfg.classes :
                    IsIntersectionRule(cfg.classes[c]) = intersection}
    IN  [cfg EXCEPT !.classes = [c \in mine |-> cfg.classes[c]],
                    !.pseudo_ttl = IF intersection THEN cfg.handled_ttl ELSE @]

ObstacleRules == rules_for(Config, FALSE)
IntersectionRules == rules_for(Config, TRUE)

NewState == [obstacles |-> NewDecider, intersections |-> NewDecider,
             obstacle |-> NoDecision, intersection |-> NoDecision, active |-> NoDecision,
             obstacle_time |-> Never, intersection_time |-> Never, last_completed |-> Never,
             turns |-> Turns]

-----------------------------------------------------------------------------
(* Methods *)

on_detections(s, dets, t) ==
    LET u == update(ObstacleRules, s.obstacles, dets, t)
    IN  [s EXCEPT !.obstacle_time = t, !.obstacles = u.decider, !.obstacle = u.decision]

\* Mutant: the remembered sign is not cleared.
on_intersection_detections_KeepsSign(s, dets, reset_stop_sign, t) ==
    LET u == update(IntersectionRules, s.intersections, dets, t)
    IN  [s EXCEPT !.intersection_time = t, !.intersections = u.decider,
                  !.intersection = u.decision]

on_intersection_detections(s, dets, reset_stop_sign, t) ==
    LET d == IF reset_stop_sign THEN clear_stop_sign(s.intersections) ELSE s.intersections
        u == update(IntersectionRules, d, dets, t)
    IN  [s EXCEPT !.intersection_time = t, !.intersections = u.decider,
                  !.intersection = u.decision]

Fresh(since, t) == t - since <= StaleTimeout

\* current_locked
current(s, t) ==
    IF Fresh(s.obstacle_time, t) /\ s.obstacle.action = "stop" THEN s.obstacle
    ELSE IF s.active.action = "intersection" THEN s.active
    ELSE IF Fresh(s.intersection_time, t) /\ s.intersection.action = "intersection"
      THEN s.intersection
    ELSE IF Fresh(s.obstacle_time, t) THEN s.obstacle
    ELSE NoDecision

\* Mutant: a maneuver that is latched already is latched anew.
begin_intersection_Relatches(s, t) ==
    IF Fresh(s.intersection_time, t) /\ s.intersection.action = "intersection"
      THEN [s EXCEPT !.active = s.intersection]
      ELSE s

begin_intersection(s, t) ==
    IF s.active.action # "intersection" /\ current(s, t).action = "intersection"
      THEN [s EXCEPT !.active = current(s, t)]
      ELSE s

mark_intersection_stopped(s) == [s EXCEPT !.active.needs_stop = FALSE]

complete_intersection(s, d, t) ==
    [s EXCEPT !.intersections = mark_handled(@, d, t), !.last_completed = t,
              !.active = NoDecision, !.intersection = NoDecision,
              !.turns = IF @ > 0 THEN @ - 1 ELSE 0]

\* SharedState::mark_handled
mark_obstacle_handled(s, d, t) ==
    [s EXCEPT !.obstacles = mark_handled(@, d, t),
              !.obstacle = IF @.action = d.action /\ @.obstacle_id = d.obstacle_id
                             THEN NoDecision ELSE @]

-----------------------------------------------------------------------------

Init ==
    /\ now = 0
    /\ state = NewState
    /\ sent = NoDecision
    /\ marked = 0

TimePasses ==
    /\ now < MaxTime
    /\ now' = now + 1
    /\ UNCHANGED <<state, sent, marked>>

\* The /tracked_obstacles callback of bt_executor.
OnObstacles(dets) ==
    /\ state' = on_detections(state, dets, now)
    /\ UNCHANGED <<now, sent, marked>>

(* The nodes of the tree.  While one goal is outstanding no other is sent: the   *)
(* two clients sit in branches of which the tree runs one.                       *)

\* LaneChange::setGoal lets the goal be sent.
SendChange ==
    /\ sent = NoDecision
    /\ current(state, now).action = "change"
    /\ sent' = current(state, now)
    /\ UNCHANGED <<now, state, marked>>

\* LaneChange::onResultReceived with code SUCCESS.
ChangeSucceeds ==
    /\ sent.action = "change"
    /\ marked < MaxHandled
    /\ state' = mark_obstacle_handled(state, sent, now)
    /\ sent' = NoDecision
    /\ marked' = marked + 1
    /\ UNCHANGED now

\* BeginIntersection succeeds.  Its branch then runs, and the tree halts a lane change.
Begin ==
    /\ begin_intersection(state, now).active.action = "intersection"
    /\ state' = begin_intersection(state, now)
    /\ sent' = IF sent.action = "change" THEN NoDecision ELSE sent
    /\ UNCHANGED <<now, marked>>

\* StopRobot succeeded, and MarkIntersectionStopped follows it in the sequence.
MarkStopped ==
    /\ StopImplemented
    /\ state.active.action = "intersection"
    /\ state.active.needs_stop
    /\ state' = mark_intersection_stopped(state)
    /\ UNCHANGED <<now, sent, marked>>

\* IntersectionTurn::setGoal lets the goal be sent.
SendTurn ==
    /\ sent = NoDecision
    /\ state.active.action = "intersection"
    /\ ~ state.active.needs_stop
    /\ state.turns > 0
    /\ sent' = state.active
    /\ UNCHANGED <<now, state, marked>>

\* IntersectionTurn::onResultReceived with success.
TurnSucceeds ==
    /\ sent.action = "intersection"
    /\ marked < MaxHandled
    /\ state' = complete_intersection(state, sent, now)
    /\ sent' = NoDecision
    /\ marked' = marked + 1
    /\ UNCHANGED now

\* The goal fails, or the node that sent it is halted: nothing is marked.
GoalDropped ==
    /\ sent # NoDecision
    /\ sent' = NoDecision
    /\ UNCHANGED <<now, state, marked>>

\* The obstacle stream on its own; IntersectionInput adds the other one.
ObstacleNext ==
    \/ TimePasses
    \/ \E dets \in ObstacleLists : OnObstacles(dets)
    \/ SendChange \/ ChangeSucceeds \/ GoalDropped

SharedSpec == Init /\ [][ObstacleNext]_sharedVars

-----------------------------------------------------------------------------
(* Properties *)

Decision ==
    [action : {"none"} \cup Slot, obstacle_id : Int, cls : ClassName, x : Int,
     needs_stop : BOOLEAN]

DeciderType(r) ==
    /\ r.hits \in [Slot -> Nat] /\ \A i \in Slot : r.hits[i] <= Config.confirm[i]
    /\ \A i \in Slot : r.hold_until[i] <= now + Config.hold[i]
    /\ \A k \in DOMAIN r.handled : r.handled[k].last_seen <= now

TypeOK ==
    /\ now \in 0 .. MaxTime
    /\ DeciderType(state.obstacles) /\ DeciderType(state.intersections)
    /\ \A d \in {state.obstacle, state.intersection, state.active, sent} : d \in Decision
    /\ state.obstacle.action # "intersection"
    /\ state.intersection.action \in {"none", "intersection"}
    /\ state.active.action \in {"none", "intersection"}
    /\ state.turns \in 0 .. Turns
    /\ marked \in 0 .. MaxHandled

\* Decision d is about an obstacle r remembers as handled.
Remembered(cfg, r, d) ==
    AlreadyHandled(cfg, r.handled, [id |-> d.obstacle_id, cls |-> d.cls, x |-> d.x])

\* A slot that is being held is never about a handled obstacle: a hold that outlives
\* the detections ends when its obstacle is marked handled, and no hits collected
\* before that start it again.
HoldsNothingHandled ==
    \A i \in Slot \ {"stop"} :
        /\ now < state.obstacles.hold_until[i] =>
              ~ AlreadyHandled(ObstacleRules, state.obstacles.handled,
                               state.obstacles.last_det[i])
        /\ now < state.intersections.hold_until[i] =>
              ~ AlreadyHandled(IntersectionRules, state.intersections.handled,
                               state.intersections.last_det[i])

\* A completed stop line is neither reported nor latched again while it is
\* remembered: not from the intersection_hold of 20 s, not from hits collected
\* during the maneuver, not from a list processed while the goal was outstanding.
NoRepeatedIntersection ==
    \A d \in {state.intersection, state.active} :
        d.action = "intersection" => ~ Remembered(IntersectionRules, state.intersections, d)

\* "If success the obstacle is marked handled, so the same obstacle can't trigger
\* again" (comment on LaneChange): current() reports no obstacle that the
\* Decider remembers as handled.
NoRepeatedChange ==
    LET d == current(state, now)
    IN  d.action = "change" => ~ Remembered(ObstacleRules, state.obstacles, d)

\* The obstacle of entry h is still in the memory, and was last seen no earlier.
Outlived(h, entries) ==
    \E k \in DOMAIN entries :
        /\ entries[k].id = h.id /\ entries[k].cls = h.cls /\ entries[k].x = h.x
        /\ entries[k].last_seen >= h.last_seen

\* What was handled is forgotten only when nobody has seen it for its time-to-live, and
\* no step makes a memory older: lists of the other stream, a goal that succeeds, a refresh
\* that finds another entry first and an expired neighbour leave it alone.  A completed
\* stop line has no tracker id and lives as long as a tracked obstacle all the same.
ForgetsOnlyExpired ==
    [][/\ \A k \in DOMAIN state.obstacles.handled :
             LET h == state.obstacles.handled[k]
             IN  now - h.last_seen <= (IF h.id >= 0 THEN Config.handled_ttl
                                                    ELSE Config.pseudo_ttl)
                   => Outlived(h, state'.obstacles.handled)
       /\ \A k \in DOMAIN state.intersections.handled :
             LET h == state.intersections.handled[k]
             IN  now - h.last_seen <= Config.handled_ttl
                   => Outlived(h, state'.intersections.handled)]_sharedVars

\* The abstract specification, under the mapping that hides clocks and Deciders.
Offered(d, since) == IF Fresh(since, now) THEN d ELSE NoDecision

ObstacleDecisions ==
    [action : {"change", "stop"}, obstacle_id : Int, cls : ClassName, x : Int,
     needs_stop : {FALSE}]

IntersectionDecisions ==
    [action : {"intersection"}, obstacle_id : {NoId}, cls : {"stopline"}, x : Int,
     needs_stop : BOOLEAN]

RememberedPlaces ==
    {state.intersections.handled[k].x : k \in DOMAIN state.intersections.handled}

Latch == INSTANCE DecisionLatch WITH
    ObstacleDecision <- ObstacleDecisions,
    IntersectionDecision <- IntersectionDecisions,
    Nothing <- NoDecision,
    SamePlace <- Config.same_place,
    InitialTurns <- Turns,
    obstacle <- Offered(state.obstacle, state.obstacle_time),
    intersection <- Offered(state.intersection, state.intersection_time),
    active <- state.active,
    sent <- sent,
    done <- RememberedPlaces,
    turns <- state.turns

\* SharedState keeps the promise of DecisionLatch: whatever lists arrive in whatever
\* order, perception never touches a latched maneuver, and a remembered
\* place is not offered again.
RefinesLatch == Latch!LatchSpec

=============================================================================

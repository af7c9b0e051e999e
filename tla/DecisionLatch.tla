---------------------------- MODULE DecisionLatch ----------------------------
(***************************************************************************)
(* What SharedState promises the behaviour tree, without clocks, counters  *)
(* or detections: perception offers decisions that come and go, and a      *)
(* latched maneuver is untouched by it until the maneuver's own goal       *)
(* succeeds.  A place where a maneuver was completed is not offered again  *)
(* while it is remembered.                                                 *)
(***************************************************************************)
EXTENDS Integers

CONSTANTS
    ObstacleDecision,      \* decisions for obstacles: actions change and stop
    IntersectionDecision,  \* decisions for stop lines: action intersection
    Nothing,               \* the decision to do nothing
    SamePlace,             \* distance within which two stop lines are one
    InitialTurns           \* length of the turn list

\* Marking the stop changes nothing else about a decision.
ASSUME LatchAssumption ==
    /\ InitialTurns \in Nat
    /\ Nothing \notin ObstacleDecision \cup IntersectionDecision
    /\ \A d \in IntersectionDecision :
          LET s == [d EXCEPT !.needs_stop = FALSE]
          IN  /\ d.needs_stop \in BOOLEAN
              /\ s \in IntersectionDecision /\ s.x = d.x /\ s.needs_stop = FALSE
              /\ ~ d.needs_stop => s = d

VARIABLES
    obstacle,       \* what the obstacle stream asks for, Nothing when it is stale
    intersection,   \* what the intersection stream asks for, Nothing when it is stale
    active,         \* the latched maneuver
    sent,           \* the decision the outstanding goal was sent for
    done,           \* places of completed maneuvers that are still remembered
    turns           \* turns left

latchVars == <<obstacle, intersection, active, sent, done, turns>>

-----------------------------------------------------------------------------

\* d is a decision about a remembered place.
Repeats(d, places) ==
    /\ d # Nothing
    /\ \E p \in places : d.x - p <= SamePlace /\ p - d.x <= SamePlace

Latched == active # Nothing

\* What DecideAction reports.
Current ==
    IF obstacle # Nothing /\ obstacle.action = "stop" THEN obstacle
    ELSE IF Latched THEN active
    ELSE IF intersection # Nothing THEN intersection
    ELSE obstacle

LatchInit ==
    /\ obstacle = Nothing
    /\ intersection = Nothing
    /\ active = Nothing
    /\ sent = Nothing
    /\ done = {}
    /\ turns = InitialTurns

\* Detection lists arrive, decisions go stale, memories expire.
Perceive ==
    /\ obstacle' \in ObstacleDecision \cup {Nothing}
    /\ intersection' \in IntersectionDecision \cup {Nothing}
    /\ done' \in SUBSET done
    /\ ~ Repeats(intersection', done')
    /\ UNCHANGED <<active, sent, turns>>

Latch ==
    /\ ~ Latched
    /\ intersection # Nothing
    /\ active' = intersection
    /\ sent' = Nothing
    /\ UNCHANGED <<obstacle, intersection, done, turns>>

Stopped ==
    /\ Latched
    /\ active.needs_stop
    /\ active' = [active EXCEPT !.needs_stop = FALSE]
    /\ UNCHANGED <<obstacle, intersection, sent, done, turns>>

Send ==
    /\ sent = Nothing
    /\ \/ ~ Latched /\ obstacle # Nothing /\ obstacle.action = "change" /\ sent' = obstacle
       \/ Latched /\ ~ active.needs_stop /\ turns > 0 /\ sent' = active
    /\ UNCHANGED <<obstacle, intersection, active, done, turns>>

Drop ==
    /\ sent' = Nothing
    /\ UNCHANGED <<obstacle, intersection, active, done, turns>>

TurnCompleted ==
    /\ Latched
    /\ sent = active
    /\ active' = Nothing
    /\ intersection' = Nothing
    /\ sent' = Nothing
    /\ done' = done \cup {sent.x}
    /\ turns' = turns - 1
    /\ UNCHANGED obstacle

ChangeCompleted ==
    /\ ~ Latched
    /\ sent # Nothing
    /\ sent' = Nothing
    /\ obstacle' \in {obstacle, Nothing}
    /\ UNCHANGED <<intersection, active, done, turns>>

LatchNext ==
    Perceive \/ Latch \/ Stopped \/ Send \/ Drop \/ TurnCompleted \/ ChangeCompleted

LatchSpec == LatchInit /\ [][LatchNext]_latchVars

-----------------------------------------------------------------------------
(* What a client of the latch may rely on *)

LatchTypeOK ==
    /\ obstacle \in ObstacleDecision \cup {Nothing}
    /\ intersection \in IntersectionDecision \cup {Nothing}
    /\ active \in IntersectionDecision \cup {Nothing}
    /\ sent \in ObstacleDecision \cup IntersectionDecision \cup {Nothing}
    /\ turns \in Nat

\* A goal that is outstanding while a maneuver is latched is the goal of that maneuver,
\* was sent after its stop, and has a turn to use up: complete_intersection
\* never pops an empty turn list and never completes another line.
GoalIsForTheLatch ==
    Latched /\ sent # Nothing => sent = active /\ ~ active.needs_stop /\ turns > 0

\* Neither the line that is offered nor the line that is latched is one where a
\* maneuver was completed and is still remembered.
NoPlaceRepeated == ~ Repeats(intersection, done) /\ ~ Repeats(active, done)

=============================================================================

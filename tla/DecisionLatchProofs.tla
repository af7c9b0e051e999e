------------------------- MODULE DecisionLatchProofs -------------------------
(***************************************************************************)
(* What a client of the latch may rely on, for every set of decisions, any *)
(* number of turns and any distance between stop lines.  The three         *)
(* properties of DecisionLatch are inductive only together: the turn list  *)
(* is never popped when empty because of GoalIsForTheLatch, which needs    *)
(* the types to know that the latched decision is not Nothing.             *)
(***************************************************************************)
EXTENDS DecisionLatch, TLAPS

LInv == LatchTypeOK /\ GoalIsForTheLatch /\ NoPlaceRepeated

\* Initially nothing is offered, latched, sent or remembered.
LEMMA LatchInitially == LatchInit => LInv
BY LatchAssumption
   DEF LatchAssumption, LatchInit, LInv, LatchTypeOK, GoalIsForTheLatch, NoPlaceRepeated,
       Latched, Repeats

\* Every operation of SharedState keeps the types: in particular a completed turn
\* finds a turn to pop.
LEMMA LatchTypeStep == LInv /\ [LatchNext]_latchVars => LatchTypeOK'
<1> SUFFICES ASSUME LInv, [LatchNext]_latchVars PROVE LatchTypeOK'
    OBVIOUS
<1> USE LatchAssumption DEF LatchAssumption, LInv, LatchTypeOK, Latched
<1>1. CASE Perceive BY <1>1 DEF Perceive
<1>2. CASE Latch BY <1>2 DEF Latch
<1>3. CASE Stopped BY <1>3 DEF Stopped
<1>4. CASE Send BY <1>4 DEF Send
<1>5. CASE Drop BY <1>5 DEF Drop
<1>6. CASE TurnCompleted
  <2>1. turns > 0 BY <1>6 DEF TurnCompleted, GoalIsForTheLatch
  <2> QED BY <1>6, <2>1 DEF TurnCompleted
<1>7. CASE ChangeCompleted BY <1>7 DEF ChangeCompleted
<1>8. CASE UNCHANGED latchVars BY <1>8 DEF latchVars
<1> QED BY <1>1, <1>2, <1>3, <1>4, <1>5, <1>6, <1>7, <1>8 DEF LatchNext

\* No operation changes the latched maneuver while its goal is outstanding, and latching
\* one drops the goal of a lane change.
LEMMA LatchGoalStep == LInv /\ [LatchNext]_latchVars => GoalIsForTheLatch'
<1> SUFFICES ASSUME LInv, [LatchNext]_latchVars PROVE GoalIsForTheLatch'
    OBVIOUS
<1> USE LatchAssumption DEF LatchAssumption, LInv, LatchTypeOK, GoalIsForTheLatch, Latched
<1>1. CASE Perceive BY <1>1 DEF Perceive
<1>2. CASE Latch BY <1>2 DEF Latch
<1>3. CASE Stopped
      \* The maneuver still needs its stop, so its goal has not been sent.
  <2>1. sent = Nothing BY <1>3 DEF Stopped
  <2> QED BY <1>3, <2>1 DEF Stopped
<1>4. CASE Send BY <1>4 DEF Send
<1>5. CASE Drop BY <1>5 DEF Drop
<1>6. CASE TurnCompleted BY <1>6 DEF TurnCompleted
<1>7. CASE ChangeCompleted BY <1>7 DEF ChangeCompleted
<1>8. CASE UNCHANGED latchVars BY <1>8 DEF latchVars
<1> QED BY <1>1, <1>2, <1>3, <1>4, <1>5, <1>6, <1>7, <1>8 DEF LatchNext

\* Perception offers no remembered place, what it offers is all that can be latched, and
\* a completed turn clears both the offer and the latch.
LEMMA LatchPlaceStep == LInv /\ [LatchNext]_latchVars => NoPlaceRepeated'
<1> SUFFICES ASSUME LInv, [LatchNext]_latchVars PROVE NoPlaceRepeated'
    OBVIOUS
<1> USE LatchAssumption DEF LatchAssumption, LInv, LatchTypeOK, NoPlaceRepeated, Repeats, Latched
<1>1. CASE Perceive BY <1>1 DEF Perceive
<1>2. CASE Latch BY <1>2 DEF Latch
<1>3. CASE Stopped
  <2>1. active \in IntersectionDecision BY <1>3 DEF Stopped
  <2>2. active'.x = active.x /\ done' = done /\ intersection' = intersection
        BY <1>3, <2>1 DEF Stopped
  <2> QED BY <1>3, <2>1, <2>2
<1>4. CASE Send BY <1>4 DEF Send
<1>5. CASE Drop BY <1>5 DEF Drop
<1>6. CASE TurnCompleted BY <1>6 DEF TurnCompleted
<1>7. CASE ChangeCompleted BY <1>7 DEF ChangeCompleted
<1>8. CASE UNCHANGED latchVars BY <1>8 DEF latchVars
<1> QED BY <1>1, <1>2, <1>3, <1>4, <1>5, <1>6, <1>7, <1>8 DEF LatchNext

-----------------------------------------------------------------------------

\* The three properties together are an inductive invariant.
LEMMA LatchInvariant == LatchSpec => []LInv
<1>1. LInv /\ [LatchNext]_latchVars => LInv'
      BY LatchTypeStep, LatchGoalStep, LatchPlaceStep DEF LInv
<1> QED BY <1>1, LatchInitially, PTL DEF LatchSpec

\* Every variable keeps its type; complete_intersection never pops an empty turn list.
THEOREM LatchTypeCorrect == LatchSpec => []LatchTypeOK
<1>1. LInv => LatchTypeOK BY DEF LInv
<1> QED BY <1>1, LatchInvariant, PTL

\* An outstanding goal is that of the latched maneuver, was sent after its stop and has
\* a turn left (begin_intersection and active_intersection in IntersectionTurn).
THEOREM GoalMatchesLatch == LatchSpec => []GoalIsForTheLatch
<1>1. LInv => GoalIsForTheLatch BY DEF LInv
<1> QED BY <1>1, LatchInvariant, PTL

\* A remembered stop line is neither offered nor latched again (the handled list and the
\* reset in complete_intersection).
THEOREM PlacesNotRepeated == LatchSpec => []NoPlaceRepeated
<1>1. LInv => NoPlaceRepeated BY DEF LInv
<1> QED BY <1>1, LatchInvariant, PTL

=============================================================================

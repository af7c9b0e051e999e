-------------------------- MODULE IntersectionInput --------------------------
(***************************************************************************)
(* class IntersectionInput (bt/include/bt/intersection_input.hpp): turns   *)
(* sign detections and stop-line clouds into the detection lists of        *)
(* SharedState's intersection stream.  A sign in view takes precedence over*)
(* the cloud, and whether it is a real stop sign is remembered for later   *)
(* clouds in real_sign_stamp_.                                             *)
(*                                                                         *)
(* This module is the whole perception and decision state of bt_executor:  *)
(* it adds the two callbacks to the actions of SharedState.                *)
(***************************************************************************)
EXTENDS SharedState

CONSTANTS
    MaxAge,       \* intersection_input_max_age
    ClockSkew,    \* how far a stamp may be ahead of the clock (0.05 s)
    LineSpots,    \* world positions of stop lines
    LineRanges    \* measured distances to a stop line

ASSUME IntersectionInputAssumption ==
    /\ MaxAge \in Nat /\ ClockSkew \in Nat
    /\ LineSpots \subseteq Int /\ LineRanges \subseteq Int

\* The two classes this input synthesizes are used as in config/bt.yaml: a line may start
\* a maneuver and a sign only marks it.
ASSUME ClassTableAssumption ==
    /\ {"stopline", "sign"} \subseteq ClassName
    /\ "stopline" \in DOMAIN Config.classes => ~ Config.classes["stopline"].mark_stop_sign
    /\ "sign" \in DOMAIN Config.classes => Config.classes["sign"].action = "none"

VARIABLES
    real_sign_stamp,    \* stamp of the nearest sign of the last list, if it was real
    sign_input_stamp    \* stamp of the last list with a sign in it

inputVars == <<real_sign_stamp, sign_input_stamp>>
vars == <<now, state, sent, marked, inputVars>>

-----------------------------------------------------------------------------

\* Mutant: a stamp from the future is fresh.
fresh_Future(stamp) == now - stamp <= MaxAge

fresh(stamp) == now - stamp >= - ClockSkew /\ now - stamp <= MaxAge

\* Stamps a message that is processed now may carry and pass fresh().
FreshStamps == {t \in 0 .. MaxTime + ClockSkew : fresh(t)}

line_detection(distance, x) ==
    [cls |-> "stopline", credible |-> TRUE, distance |-> distance, id |-> NoId, x |-> x,
     observed_at |-> NaN]

\* Mutant: a sign seen before the last completed maneuver still counts.
add_real_sign_Reused(dets, stamp) ==
    IF dets # <<>> /\ now - stamp <= Config.stop_sign_ttl
      THEN Append(dets, [dets[1] EXCEPT !.cls = "sign", !.observed_at = stamp])
      ELSE dets

\* dets with the sign detection add_real_sign appends, given the remembered stamp.
add_real_sign(dets, stamp) ==
    IF /\ dets # <<>>
       /\ now - stamp <= Config.stop_sign_ttl
       /\ stamp > state.last_completed
      THEN Append(dets, [dets[1] EXCEPT !.cls = "sign", !.observed_at = stamp])
      ELSE dets

\* The list built from one measured line, or <<>> when the transform is unavailable.
LineLists(stamp) ==
    {<<>>} \cup {add_real_sign(<<line_detection(d, x)>>, stamp) :
                   d \in LineRanges, x \in LineSpots}

\* on_signs with a sign in view that has no usable depth.
OnSignUnranged(stamp) ==
    /\ fresh(stamp)
    /\ sign_input_stamp' = stamp
    /\ state' = on_intersection_detections(state, <<>>, FALSE, now)
    /\ UNCHANGED <<now, sent, marked, real_sign_stamp>>

\* on_signs with a ranged sign; `real' is the classification of the nearest.
OnSign(stamp, real) ==
    /\ fresh(stamp)
    /\ sign_input_stamp' = stamp
    /\ real_sign_stamp' = IF real THEN stamp ELSE Never
    /\ \E dets \in LineLists(real_sign_stamp') :
          state' = on_intersection_detections(state, dets, TRUE, now)
    /\ UNCHANGED <<now, sent, marked>>

\* on_line with a fresh cloud and no recent sign.
OnLine ==
    /\ ~ fresh(sign_input_stamp)
    /\ \E dets \in LineLists(real_sign_stamp) :
          state' = on_intersection_detections(state, dets, FALSE, now)
    /\ UNCHANGED <<now, sent, marked, inputVars>>

-----------------------------------------------------------------------------

InputInit ==
    /\ Init
    /\ real_sign_stamp = Never
    /\ sign_input_stamp = Never

InputNext ==
    \/ ObstacleNext /\ UNCHANGED inputVars
    \/ Begin /\ UNCHANGED inputVars
    \/ MarkStopped /\ UNCHANGED inputVars
    \/ SendTurn /\ UNCHANGED inputVars
    \/ TurnSucceeds /\ UNCHANGED inputVars
    \/ \E stamp \in FreshStamps :
          OnSignUnranged(stamp) \/ (\E real \in BOOLEAN : OnSign(stamp, real))
    \/ OnLine

Spec == InputInit /\ [][InputNext]_vars

-----------------------------------------------------------------------------
(* Properties *)

\* Stamps are never further ahead of the clock than fresh() tolerates.
InputTypeOK ==
    /\ TypeOK
    /\ {real_sign_stamp, sign_input_stamp, state.intersections.stop_sign_time}
         \subseteq {Never} \cup 0 .. now + ClockSkew

\* A stop is demanded only by the latest ranged sign: stop_sign_time_, which lives in
\* the Decider, never outlives or predates the real_sign_stamp_ the input remembers
\* ("a current sign observation is authoritative").
SignIsCurrent == state.intersections.stop_sign_time \in {Never, real_sign_stamp}

\* A sign seen before the last completed intersection never demands a stop at the
\* next one, although signs live for stop_sign_ttl seconds.
SignNotReused ==
    state.intersections.stop_sign_time # Never
        => state.intersections.stop_sign_time > state.last_completed

=============================================================================

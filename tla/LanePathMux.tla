---------------------------- MODULE LanePathMux ----------------------------
(***************************************************************************)
(* lane_change/src/lane_path_mux.cpp, fed by the centreline node and       *)
(* commanded by lane_change_server.cpp over a latched topic of depth one.  *)
(* The processes start in any order.  The centreline topics lose messages  *)
(* and keep their order; the lane topic is reliable and holds the last     *)
(* command for a subscriber that is late.  Empty paths are ignored by      *)
(* on_path and left out of the wire.                                       *)
(***************************************************************************)
EXTENDS Centerline

CONSTANTS
    ServerLane, MuxLane,    \* initial_lane of the server and of the mux
    MaxChanges              \* bound on lane changes

ASSUME MuxAssumption == ServerLane \in Side /\ MuxLane \in Side /\ MaxChanges \in Nat

VARIABLES
    fixed_frame,   \* output_frame is set, so publishing needs a transform
    lane,          \* lane_ of the server
    changes,       \* lane changes so far
    in_flight,     \* the last command has not reached the mux
    started,       \* the mux runs
    selected,      \* selected_
    latest,        \* latest_: the stamp of each lane's path, 0 if none
    newest,        \* stamp of the last path delivered for a lane
    output         \* the path last published: its lane and stamp

muxVars == <<fixed_frame, lane, changes, in_flight, started, selected, latest, newest, output>>
vars == <<centerlineVars, muxVars>>

NoPath == [lane |-> "none", stamp |-> 0]

Init ==
    /\ CenterlineInit
    /\ fixed_frame \in BOOLEAN
    /\ lane = ServerLane
    /\ changes = 0
    /\ in_flight = TRUE
    /\ started = FALSE
    /\ selected = MuxLane
    /\ latest = [s \in Side |-> 0]
    /\ newest = [s \in Side |-> 0]
    /\ output = NoPath

-----------------------------------------------------------------------------

\* The goal callback of the server: flip and publish.
LaneChanges ==
    /\ changes < MaxChanges
    /\ changes' = changes + 1
    /\ lane' = IF lane = "right" THEN "left" ELSE "right"
    /\ in_flight' = TRUE
    /\ UNCHANGED <<centerlineVars, fixed_frame, started, selected, latest, newest, output>>

MuxStarts ==
    /\ ~ started
    /\ started' = TRUE
    /\ UNCHANGED <<centerlineVars, fixed_frame, lane, changes, in_flight, selected, latest,
                   newest, output>>

\* publish(): nothing is sent if output_frame is set and no transform is known.
publish(l, t) ==
    \/ output' = [lane |-> l, stamp |-> t]
    \/ fixed_frame /\ UNCHANGED output

\* Mutant: only the selected lane's path is kept.
Kept_Selected(l, t) == IF l = selected THEN [latest EXCEPT ![l] = t] ELSE latest

Kept(l, t) == [latest EXCEPT ![l] = t]

on_path(l, t) ==
    /\ started
    /\ newest[l] < t /\ t \in paths[l]
    /\ newest' = [newest EXCEPT ![l] = t]
    /\ latest' = Kept(l, t)
    /\ IF l = selected THEN publish(l, t) ELSE UNCHANGED output
    /\ UNCHANGED <<centerlineVars, fixed_frame, lane, changes, in_flight, started, selected>>

\* Mutant: a command is deferred until a path of its lane is known.
on_lane_Defers ==
    /\ started /\ in_flight
    /\ latest[lane] # 0
    /\ in_flight' = FALSE
    /\ selected' = lane
    /\ publish(lane, latest[lane])
    /\ UNCHANGED <<centerlineVars, fixed_frame, lane, changes, started, latest, newest>>

on_lane ==
    /\ started /\ in_flight
    /\ in_flight' = FALSE
    /\ selected' = lane
    /\ IF latest[lane] # 0 THEN publish(lane, latest[lane]) ELSE UNCHANGED output
    /\ UNCHANGED <<centerlineVars, fixed_frame, lane, changes, started, latest, newest>>

Next ==
    \/ CenterlineNext /\ UNCHANGED muxVars
    \/ LaneChanges
    \/ MuxStarts
    \/ \E l \in Side, t \in Stamp : on_path(l, t)
    \/ on_lane

Spec == Init /\ [][Next]_vars

\* The mux is started, and the lane topic is reliable.  Nothing is assumed of the others.
FairSpec == Spec /\ WF_vars(MuxStarts) /\ WF_vars(on_lane)

-----------------------------------------------------------------------------
(* Properties *)

TypeOK ==
    /\ CenterlineTypeOK
    /\ fixed_frame \in BOOLEAN /\ in_flight \in BOOLEAN /\ started \in BOOLEAN
    /\ lane \in Side /\ selected \in Side
    /\ changes \in 0 .. MaxChanges
    /\ latest \in [Side -> 0 .. MaxStamp] /\ newest \in [Side -> 0 .. MaxStamp]
    /\ output \in [lane : Side, stamp : Stamp] \cup {NoPath}

\* Once the server's command has arrived, the path that is out is the newest one delivered
\* for the server's lane, however switches and paths interleaved and whichever lane the
\* mux began with: a switch may replay an old path, but never one that a newer path of
\* its lane has replaced.  With output_frame set a missing transform can hold it back.
NewestOfLaneIsOut ==
    started /\ ~ in_flight /\ ~ fixed_frame /\ newest[lane] # 0
        => output = [lane |-> lane, stamp |-> newest[lane]]

\* The mux comes to agree with the server: whatever the two initial_lane parameters are
\* and however late the mux starts, a lane that stays selected is followed.
MuxFollowsServer == \A l \in Side : <>[](lane = l) => <>[](selected = l)

=============================================================================

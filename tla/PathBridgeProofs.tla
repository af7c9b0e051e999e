--------------------------- MODULE PathBridgeProofs ---------------------------
(***************************************************************************)
(* Type correctness, NoOrphanGoal, ManeuverHasPriority and                 *)
(* ManeuverNotWithdrawn for every bound on generations and paths, with or  *)
(* without crashes of Nav2.                                                *)
(***************************************************************************)
EXTENDS PathBridge, TLAPS

-----------------------------------------------------------------------------
(* The inductive invariant *)

\* Every goal number in use was handed out by generation_, requests on the wire
\* are younger than everything Nav2 has seen, and each is answered once.
Numbering ==
    /\ \A h \in requests : h <= bridge.generation
    /\ \A r \in responses : r.goal <= bridge.generation
    /\ \A h \in results \cup known : h <= bridge.generation
    /\ current <= bridge.generation /\ pending <= bridge.generation
    /\ accepting <= bridge.generation
    /\ \A h \in requests :
          /\ h > current /\ h > pending /\ h > accepting
          /\ \A r \in responses : h > r.goal
          /\ \A k \in results \cup known : h > k
    /\ \A r \in responses : r.goal \notin known
    /\ \A r, s \in responses : r.goal = s.goal => r = s

\* The handles are in the order of their acceptance, and none of them has ended.
Handling ==
    /\ pending # NoGoal => pending > current
    /\ accepting # NoGoal => accepting > current /\ accepting > pending
    /\ current \notin results /\ pending \notin results /\ accepting \notin results

\* Goals the worker drives or will drive, and the one handle_accepted is about to take.
Coming == Live \cup Handles({accepting})

\* A goal answered on the wire is no younger than what the worker will end up
\* driving, and a refusal is younger only while the server is not active, or was
\* activated too early.
Answers ==
    \A r \in responses :
        /\ r.accepted => \A g \in Coming : r.goal <= g \/ r.goal <= pending \/ r.goal <= accepting
        /\ ~ r.accepted /\ nav = "active" /\ ~ EarlyRestart => \A g \in Coming : r.goal < g

\* NoOrphanGoal, extended to the goal that is being accepted.
AllAccounted == ~ crashed /\ ~ EarlyRestart => \A g \in Coming : Accounted(g)

\* Once the current generation has been accepted, it is the active goal.
Ownership == bridge.generation \in known => bridge.active_goal = bridge.generation

IInv == TypeOK /\ Numbering /\ Handling /\ Answers /\ Ownership /\ AllAccounted

\* Goal numbers that generation_ of b has not reached carry no path, path ids are
\* at most n, and no lane goal is numbered after a goal of the maneuver b holds.
PathsFor(b, paths, n) ==
    /\ \A g \in Goal : g > b.generation => paths[g] = NoPath
    /\ \A g \in Goal : paths[g].id <= n
    /\ b.lane_path.id <= n
    /\ b.intersection_path.id <= n
    /\ b.intersection_path # NoPath => b.intersection_path.kind = "intersection"
    /\ b.intersection_path # NoPath =>
         \A g, h \in Goal : paths[g] = b.intersection_path /\ h > g
                              => paths[h] \in {NoPath, b.intersection_path}

\* Every goal on the wire or at Nav2 carries a path.
Carried == \A g \in requests \cup {current, pending, accepting} : g # NoGoal => goal_path[g] # NoPath

PInv == IInv /\ PathsFor(bridge, goal_path, published) /\ Carried

-----------------------------------------------------------------------------

USE ConstantsAssumption DEF ConstantsAssumption, Goal, NoGoal

\* Values of the right type for the path pointers.
LEMMA PathTypes ==
    /\ NoPath \in PathPtr
    /\ \A n \in 1 .. MaxPaths, e \in BOOLEAN :
          /\ [kind |-> "lane", id |-> n, empty |-> e] \in PathPtr
          /\ [kind |-> "intersection", id |-> n, empty |-> e] \in PathPtr
BY DEF PathPtr, Path

\* dispatch() wants a path it holds, or none.
LEMMA DesiredType == ASSUME NEW b \in Bridge PROVE Desired(b) \in PathPtr
BY PathTypes DEF Desired, Bridge

\* dispatch() keeps the types: a new goal number only if a goal is sent.
LEMMA DispatchType ==
    ASSUME TypeOK, NEW b \in Bridge, b.generation + 1 <= MaxGeneration, dispatch(b)
    PROVE  bridge' \in Bridge /\ goal_path' \in [Goal -> PathPtr] /\ requests' \in SUBSET Goal
<1>1. CASE Sends(b)
  <2>1. b.generation + 1 \in Goal
    BY DEF Bridge
  <2>2. Desired(b) \in PathPtr
    BY DesiredType
  <2>3. /\ bridge' = [b EXCEPT !.generation = @ + 1, !.sent_path = Desired(b),
                               !.throttled = TRUE]
        /\ goal_path' = [goal_path EXCEPT ![b.generation + 1] = Desired(b)]
        /\ requests' = requests \cup {b.generation + 1}
    BY <1>1 DEF dispatch
  <2>4. bridge' \in Bridge
    BY <2>1, <2>2, <2>3 DEF Bridge
  <2>5. goal_path' \in [Goal -> PathPtr] /\ requests' \in SUBSET Goal
    BY <2>1, <2>2, <2>3 DEF TypeOK
  <2> QED BY <2>4, <2>5
<1>2. CASE ~ Sends(b)
  BY <1>2 DEF dispatch, TypeOK
<1> QED BY <1>1, <1>2

\* cancel_current() keeps the types of the members.
LEMMA CancelType ==
    ASSUME NEW b \in Bridge, b.generation + 1 <= MaxGeneration
    PROVE  /\ cancel_current(b) \in Bridge /\ cancel_current(b).generation = b.generation + 1
           /\ cancel_current(b).lane_path = b.lane_path
           /\ cancel_current(b).intersection_path = b.intersection_path
<1>1. b.generation + 1 \in Goal \cup {NoGoal}
  BY DEF Bridge
<1>2. NoGoal \in Goal \cup {NoGoal}
  OBVIOUS
<1>3. cancel_current(b) \in Bridge
  BY <1>1, <1>2, PathTypes DEF cancel_current, Bridge
<1>4. /\ cancel_current(b).generation = b.generation + 1
      /\ cancel_current(b).lane_path = b.lane_path
      /\ cancel_current(b).intersection_path = b.intersection_path
  BY DEF cancel_current, Bridge
<1> QED BY <1>3, <1>4

\* A callback that cancels and then dispatches keeps the types, with or without the
\* exception of async_cancel_goal.
LEMMA CancelThenDispatchType ==
    ASSUME TypeOK, NEW b \in Bridge, b.generation + 1 <= MaxGeneration, CancelThenDispatch(b)
    PROVE  /\ bridge' \in Bridge /\ goal_path' \in [Goal -> PathPtr]
           /\ requests' \in SUBSET Goal /\ cancels' \in SUBSET Goal /\ crashed' \in BOOLEAN
<1>1. CASE Withdrawn(bridge) \subseteq known
  BY <1>1, DispatchType DEF CancelThenDispatch, TypeOK, Withdrawn, Bridge
<1>2. CASE ~ (Withdrawn(bridge) \subseteq known)
  BY <1>2 DEF CancelThenDispatch, TypeOK
<1> QED BY <1>1, <1>2

\* Every step keeps the types.
LEMMA TypeStep == TypeOK /\ [Next]_vars => TypeOK'
<1> SUFFICES ASSUME TypeOK, [Next]_vars PROVE TypeOK'
  OBVIOUS
<1> USE DEF netVars, navVars, bridgeVars
<1>1. ASSUME NEW e \in BOOLEAN, OnLane(e) PROVE TypeOK'
  <2> DEFINE p == [kind |-> "lane", id |-> published + 1, empty |-> e]
  <2>1. published + 1 \in 1 .. MaxPaths
    BY <1>1 DEF OnLane, TypeOK
  <2>2. p \in PathPtr
    BY <2>1, PathTypes
  <2>3. bridge' = [bridge EXCEPT !.lane_path = p, !.lane_fresh = TRUE]
    BY <1>1 DEF OnLane
  <2> HIDE DEF p
  <2>4. bridge \in Bridge
    BY DEF TypeOK
  <2>5. bridge' \in Bridge
    BY <2>2, <2>3, <2>4 DEF Bridge
  <2> QED BY <1>1, <2>1, <2>5 DEF TypeOK, OnLane
<1>2. ASSUME NEW e \in BOOLEAN, OnEnableKeeps(e) PROVE TypeOK'
  <2> DEFINE b == [bridge EXCEPT !.lane_enabled = e]
  <2>0. bridge \in Bridge /\ bridge.generation + 2 <= MaxGeneration
    BY <1>2 DEF TypeOK, OnEnableKeeps, Alive
  <2>1. b \in Bridge /\ b.generation + 1 <= MaxGeneration
    BY <2>0 DEF Bridge
  <2>2. dispatch(b)
    BY <1>2 DEF OnEnableKeeps
  <2> HIDE DEF b
  <2> QED BY <1>2, <2>1, <2>2, DispatchType DEF TypeOK, OnEnableKeeps
<1>3. CASE OnManeuver
  <2> DEFINE p == [kind |-> "intersection", id |-> published + 1, empty |-> FALSE]
             b == [cancel_current(bridge) EXCEPT !.intersection_path = p]
  <2>0. published + 1 \in 1 .. MaxPaths
    BY <1>3 DEF OnManeuver, TypeOK
  <2>1. p \in PathPtr
    BY <2>0, PathTypes
  <2>2. cancel_current(bridge) \in Bridge /\ cancel_current(bridge).generation + 1 <= MaxGeneration
    BY <1>3, CancelType DEF TypeOK, OnManeuver, Alive, Bridge
  <2>3. b \in Bridge /\ b.generation + 1 <= MaxGeneration
    BY <2>1, <2>2 DEF Bridge
  <2>4. CancelThenDispatch(b)
    BY <1>3 DEF OnManeuver
  <2> HIDE DEF b
  <2> QED BY <1>3, <2>3, <2>4, CancelThenDispatchType DEF TypeOK, OnManeuver
<1>4. CASE OnManeuverCleared
  <2> DEFINE b == [cancel_current(bridge) EXCEPT !.intersection_path = NoPath]
  <2>2. cancel_current(bridge) \in Bridge /\ cancel_current(bridge).generation + 1 <= MaxGeneration
    BY <1>4, CancelType DEF TypeOK, OnManeuverCleared, Alive, Bridge
  <2>3. b \in Bridge /\ b.generation + 1 <= MaxGeneration
    BY <2>2, PathTypes DEF Bridge
  <2>4. CancelThenDispatch(b)
    BY <1>4 DEF OnManeuverCleared
  <2> HIDE DEF b
  <2> QED BY <1>4, <2>3, <2>4, CancelThenDispatchType DEF TypeOK, OnManeuverCleared
<1>5. CASE OnDisable
  <2> DEFINE c == [bridge EXCEPT !.lane_enabled = FALSE]
  <2>1. c \in Bridge /\ c.generation + 2 <= MaxGeneration
    BY <1>5 DEF TypeOK, OnDisable, Alive, Bridge
  <2>2. CancelThenDispatch(cancel_current(c))
    BY <1>5 DEF OnDisable
  <2> HIDE DEF c
  <2>3. cancel_current(c) \in Bridge /\ cancel_current(c).generation + 1 <= MaxGeneration
    BY <2>1, CancelType DEF Bridge
  <2> QED BY <1>5, <2>2, <2>3, CancelThenDispatchType DEF TypeOK, OnDisable
<1>6. CASE Timer
  <2>1. bridge.generation + 1 <= MaxGeneration
    BY <1>6 DEF TypeOK, Timer, Alive, Bridge
  <2> QED BY <1>6, <2>1, DispatchType DEF TypeOK, Timer
<1>7. ASSUME NEW r \in responses, OnResponse(r) PROVE TypeOK'
  <2>1. r.goal \in Goal /\ r.accepted \in BOOLEAN
    BY DEF TypeOK, Response
  <2>2. bridge' \in Bridge
    <3>1. bridge \in Bridge /\ NoPath \in PathPtr /\ NoGoal \in Goal \cup {NoGoal}
      BY PathTypes DEF TypeOK
    <3>2. \/ bridge' = bridge
          \/ bridge' = [bridge EXCEPT !.active_goal = r.goal]
          \/ bridge' = [bridge EXCEPT !.active_goal = NoGoal, !.sent_path = NoPath]
      BY <1>7 DEF OnResponse
    <3> QED BY <2>1, <3>1, <3>2 DEF Bridge
  <2> QED BY <1>7, <2>1, <2>2 DEF TypeOK, OnResponse
<1>8. ASSUME NEW g \in Goal, OnResult(g) PROVE TypeOK'
  <2>1. bridge' \in Bridge
    BY <1>8 DEF OnResult, TypeOK, Bridge
  <2> QED BY <1>8, <2>1 DEF TypeOK, OnResult
<1>9. CASE LaneAges \/ ThrottleElapses
  <2>1. \/ bridge' = [bridge EXCEPT !.lane_fresh = FALSE]
        \/ bridge' = [bridge EXCEPT !.throttled = FALSE]
    BY <1>9 DEF LaneAges, ThrottleElapses
  <2>2. bridge \in Bridge
    BY DEF TypeOK
  <2>3. bridge' \in Bridge
    BY <2>1, <2>2 DEF Bridge
  <2> QED BY <1>9, <2>3 DEF TypeOK, LaneAges, ThrottleElapses
<1>10. ASSUME NEW g \in Goal, HandleGoal(g) PROVE TypeOK'
  <2>1. (nav = "active") \in BOOLEAN
    OBVIOUS
  <2>2. [goal |-> g, accepted |-> nav = "active"] \in Response
    BY <2>1, Zenon DEF Response
  <2>3. responses' \in SUBSET Response
    BY <1>10, <2>2 DEF TypeOK, HandleGoal
  <2> QED BY <1>10, <2>3 DEF TypeOK, HandleGoal
<1>11. CASE HandleAccepted \/ \E g \in Goal : HandleCancel(g)
  BY <1>11 DEF TypeOK, HandleAccepted, HandleCancel, Handles
<1>12. CASE Worker
  BY <1>12 DEF TypeOK, Worker, WorkerTests, WorkerStops, WorkerSeesCancel, WorkerTerminatesAll,
               WorkerPreempts, WorkerFinishes, WorkerReturns, WorkerExits, terminate_all,
               accept_pending_goal, Handles
<1>13. CASE NavConfigure \/ NavActivate \/ NavDeactivate \/ NavCrash \/ NavDeadline \/ NavDeactivated
  BY <1>13 DEF TypeOK, NavConfigure, NavActivate, NavDeactivate, NavCrash, NavDeadline,
               NavDeactivated, terminate_all, Handles
<1>14. CASE UNCHANGED vars
  BY <1>14 DEF TypeOK, vars
<1> QED
  BY <1>1, <1>2, <1>3, <1>4, <1>5, <1>6, <1>7, <1>8, <1>9, <1>10, <1>11, <1>12, <1>13, <1>14
     DEF Next, Environment, Delivery

-----------------------------------------------------------------------------
(* Preservation of the invariant *)

\* The invariant holds when all processes start.
LEMMA InitIInv == Init => IInv
<1> SUFFICES ASSUME Init PROVE IInv
  OBVIOUS
<1> USE DEF Init
<1>1. bridge.generation = 0 /\ bridge.active_goal = 0
  OBVIOUS
<1>2. bridge \in Bridge
  BY PathTypes DEF Bridge
<1>3. goal_path \in [Goal -> PathPtr]
  BY PathTypes
<1>4. TypeOK
  <2>0. crashed \in BOOLEAN
    BY Zenon
  <2>1. published \in 0 .. MaxPaths
    OBVIOUS
  <2>2. /\ known \in SUBSET Goal /\ requests \in SUBSET Goal
        /\ responses \in SUBSET Response
        /\ cancels \in SUBSET Goal /\ results \in SUBSET Goal
        /\ canceling \in SUBSET Goal
    OBVIOUS
  <2>3. /\ current \in Goal \cup {NoGoal} /\ pending \in Goal \cup {NoGoal}
        /\ accepting \in Goal \cup {NoGoal}
    OBVIOUS
  <2>4. /\ nav \in {"absent", "inactive", "active", "deactivating"}
        /\ worker \in {"idle", "start", "run", "cancel", "return", "exiting"}
    OBVIOUS
  <2> QED BY <1>2, <1>3, <2>0, <2>1, <2>2, <2>3, <2>4, Zenon DEF TypeOK
<1>5. Coming = {}
  BY DEF Coming, Live, Handles
<1> QED
  BY <1>1, <1>4, <1>5 DEF IInv, Numbering, Handling, Answers, Ownership, AllAccounted

\* What every subscription and timer callback does to the goals: it may hand out
\* new numbers, and it lets go of the active goal only by cancelling it.
Advances ==
    /\ bridge'.generation >= bridge.generation
    /\ bridge'.generation = bridge.generation => bridge'.active_goal = bridge.active_goal
    /\ \A h \in requests' \ requests : bridge.generation < h /\ h <= bridge'.generation
    /\ requests \subseteq requests'
    /\ cancels \subseteq cancels'
    /\ \/ crashed'
       \/ /\ crashed' = crashed
          /\ bridge'.active_goal = bridge.active_goal \/ Withdrawn(bridge) \subseteq cancels'
    /\ UNCHANGED <<known, responses, results, navVars>>

\* A dispatch() that ends a callback hands out at most one number above b's.
LEMMA DispatchAdvances ==
    ASSUME TypeOK, NEW b \in Bridge, dispatch(b)
    PROVE  /\ bridge'.active_goal = b.active_goal
           /\ \/ /\ bridge'.generation = b.generation
                 /\ requests' = requests
              \/ /\ bridge'.generation = b.generation + 1
                 /\ requests' = requests \cup {b.generation + 1}
<1>1. CASE Sends(b)
  BY <1>1 DEF dispatch, Bridge
<1>2. CASE ~ Sends(b)
  BY <1>2 DEF dispatch, Bridge
<1> QED BY <1>1, <1>2

\* So does a callback that cancels first, which also forgets the active goal.
LEMMA CancelAdvances ==
    ASSUME TypeOK, NEW b \in Bridge, b.generation = bridge.generation + 1,
           CancelThenDispatch(b), UNCHANGED <<known, responses, results, navVars>>
    PROVE  Advances
<1>1. bridge.generation \in Nat /\ b.generation \in Nat
  BY DEF TypeOK, Bridge
<1>2. CASE Withdrawn(bridge) \subseteq known
  BY <1>1, <1>2, DispatchAdvances DEF CancelThenDispatch, Advances
<1>3. CASE ~ (Withdrawn(bridge) \subseteq known)
  BY <1>1, <1>3 DEF CancelThenDispatch, Advances
<1> QED BY <1>2, <1>3

\* Every callback of the bridge that may send or cancel advances the numbering.
LEMMA CallbackAdvances ==
    ASSUME TypeOK,
           \/ \E e \in BOOLEAN : OnLane(e) \/ OnEnableKeeps(e)
           \/ OnManeuver \/ OnManeuverCleared \/ OnDisable
           \/ LaneAges \/ ThrottleElapses \/ Timer
    PROVE  Advances
<1> USE DEF netVars, navVars
<1>0. bridge \in Bridge /\ bridge.generation \in Nat
  BY DEF TypeOK, Bridge
<1>1. ASSUME NEW e \in BOOLEAN, OnLane(e) PROVE Advances
  <2> DEFINE p == [kind |-> "lane", id |-> published + 1, empty |-> e]
  <2>1. bridge' = [bridge EXCEPT !.lane_path = p, !.lane_fresh = TRUE]
    BY <1>1 DEF OnLane
  <2> HIDE DEF p
  <2>2. bridge'.generation = bridge.generation /\ bridge'.active_goal = bridge.active_goal
    BY <1>0, <2>1 DEF Bridge
  <2>3. crashed' = crashed /\ UNCHANGED <<known, netVars, navVars>>
    BY <1>1 DEF OnLane
  <2> QED BY <1>0, <2>2, <2>3 DEF Advances
<1>2. ASSUME NEW e \in BOOLEAN, OnEnableKeeps(e) PROVE Advances
  <2> DEFINE b == [bridge EXCEPT !.lane_enabled = e]
  <2>1. b \in Bridge /\ b.generation = bridge.generation /\ b.active_goal = bridge.active_goal
    BY <1>0 DEF Bridge
  <2>2. dispatch(b)
    BY <1>2 DEF OnEnableKeeps
  <2> HIDE DEF b
  <2> QED BY <1>0, <1>2, <2>1, <2>2, DispatchAdvances DEF OnEnableKeeps, Advances
<1>3. CASE OnManeuver
  <2> DEFINE p == [kind |-> "intersection", id |-> published + 1, empty |-> FALSE]
             b == [cancel_current(bridge) EXCEPT !.intersection_path = p]
  <2>0. published + 1 \in 1 .. MaxPaths
    BY <1>3 DEF OnManeuver, TypeOK
  <2>1. p \in PathPtr
    BY <2>0, PathTypes
  <2>2. cancel_current(bridge) \in Bridge /\ cancel_current(bridge).generation = bridge.generation + 1
    BY <1>0, <1>3, CancelType DEF OnManeuver, Alive
  <2>3. b \in Bridge /\ b.generation = bridge.generation + 1
    BY <2>1, <2>2 DEF Bridge
  <2>4. CancelThenDispatch(b)
    BY <1>3 DEF OnManeuver
  <2> HIDE DEF b
  <2> QED BY <1>3, <2>3, <2>4, CancelAdvances DEF OnManeuver
<1>4. CASE OnManeuverCleared
  <2> DEFINE b == [cancel_current(bridge) EXCEPT !.intersection_path = NoPath]
  <2>2. cancel_current(bridge) \in Bridge /\ cancel_current(bridge).generation = bridge.generation + 1
    BY <1>0, <1>4, CancelType DEF OnManeuverCleared, Alive
  <2>3. b \in Bridge /\ b.generation = bridge.generation + 1
    BY <2>2, PathTypes DEF Bridge
  <2>4. CancelThenDispatch(b)
    BY <1>4 DEF OnManeuverCleared
  <2> HIDE DEF b
  <2> QED BY <1>4, <2>3, <2>4, CancelAdvances DEF OnManeuverCleared
<1>5. CASE OnDisable
  <2> DEFINE c == [bridge EXCEPT !.lane_enabled = FALSE]
  <2>1. c \in Bridge /\ c.generation = bridge.generation
    BY <1>0 DEF Bridge
  <2>2. CancelThenDispatch(cancel_current(c))
    BY <1>5 DEF OnDisable
  <2> HIDE DEF c
  <2>3. cancel_current(c) \in Bridge /\ cancel_current(c).generation = bridge.generation + 1
    BY <1>0, <1>5, <2>1, CancelType DEF OnDisable, Alive
  <2> QED BY <1>5, <2>2, <2>3, CancelAdvances DEF OnDisable
<1>6. CASE LaneAges \/ ThrottleElapses
  BY <1>0, <1>6 DEF LaneAges, ThrottleElapses, Advances, TypeOK, Bridge
<1>7. CASE Timer
  BY <1>0, <1>7, DispatchAdvances DEF Timer, Advances
<1> QED BY <1>1, <1>2, <1>3, <1>4, <1>5, <1>6, <1>7

\* A step that only advances the bridge keeps the invariant: a goal the bridge
\* forgets is on the cancel wire or has its response still to come.
LEMMA AdvancesStep ==
    ASSUME IInv, TypeOK', Advances
    PROVE  IInv'
<1> USE DEF navVars
<1>0. /\ bridge.generation \in Nat /\ bridge'.generation \in Nat
      /\ current \in Nat /\ pending \in Nat /\ accepting \in Nat
      /\ bridge.active_goal \in Nat
      /\ requests \subseteq Nat /\ requests' \subseteq Nat /\ results \subseteq Nat
      /\ known \subseteq Nat
      /\ \A r \in responses : r.goal \in Nat
  BY DEF IInv, TypeOK, Bridge, Response
<1>1. Numbering'
  BY <1>0 DEF IInv, Numbering, Advances
<1>2. Coming' = Coming
  BY DEF Coming, Live, Handles, Advances
<1>3. Handling' /\ Answers'
  BY <1>2 DEF IInv, Handling, Answers, Advances
<1>4. Ownership'
  BY <1>0 DEF IInv, Ownership, Numbering, Advances
<1>5. AllAccounted'
  <2> SUFFICES ASSUME ~ crashed', ~ EarlyRestart, NEW g \in Coming PROVE Accounted(g)'
    BY <1>2 DEF AllAccounted
  <2>1. ~ crashed
    BY DEF Advances
  <2>2. Accounted(g)
    BY <2>1 DEF IInv, AllAccounted
  <2>3. g # NoGoal
    BY DEF Coming, Live, Handles
  <2> QED BY <1>0, <2>2, <2>3 DEF Accounted, Accepted, Advances, Withdrawn
<1> QED BY <1>1, <1>3, <1>4, <1>5 DEF IInv

\* Every goal number is a natural number.
LEMMA Numbers ==
    ASSUME TypeOK
    PROVE  /\ bridge.generation \in Nat /\ bridge.active_goal \in Nat
           /\ current \in Nat /\ pending \in Nat /\ accepting \in Nat
           /\ \A g \in requests \cup results \cup known \cup cancels : g \in Nat /\ g # NoGoal
           /\ \A r \in responses : r.goal \in Nat /\ r.goal # NoGoal /\ r.accepted \in BOOLEAN
           /\ \A g \in Coming : g \in Nat /\ g # NoGoal /\ g \in {current, pending, accepting}
BY DEF TypeOK, Bridge, Response, Coming, Live, Handles

\* goal_response_callback adopts or cancels the goal whose response it takes.
LEMMA ResponseStep ==
    ASSUME IInv, TypeOK', NEW r \in responses, OnResponse(r)
    PROVE  IInv'
<1> USE DEF navVars
<1>0. TypeOK
  BY DEF IInv
<1>1. /\ r.goal \in Nat /\ r.accepted \in BOOLEAN /\ r.goal \notin known
      /\ \A s \in responses : s.goal = r.goal => s = r
  BY <1>0, Numbers DEF IInv, Numbering
<1>2. /\ UNCHANGED <<crashed, requests, results, nav, accepting, current, pending, canceling, worker>>
      /\ responses' = responses \ {r}
      /\ known' = IF r.accepted THEN known \cup {r.goal} ELSE known
  BY DEF OnResponse
<1>3. bridge'.generation = bridge.generation
  BY <1>0 DEF OnResponse, TypeOK, Bridge
<1>4. Coming' = Coming
  BY <1>2 DEF Coming, Live, Handles
<1>5. Numbering'
  BY <1>0, <1>1, <1>2, <1>3, Numbers DEF IInv, Numbering
<1>6. Handling' /\ Answers'
  BY <1>2, <1>4 DEF IInv, Handling, Answers
<1>7. CASE r.goal # bridge.generation
  <2>1. bridge' = bridge /\ cancels' = IF r.accepted THEN cancels \cup {r.goal} ELSE cancels
    BY <1>7 DEF OnResponse
  <2>2. Ownership'
    BY <1>2, <1>7, <2>1 DEF IInv, Ownership
  <2>3. AllAccounted'
    <3> SUFFICES ASSUME ~ crashed, ~ EarlyRestart, NEW g \in Coming PROVE Accounted(g)'
      BY <1>2, <1>4 DEF AllAccounted
    <3>1. Accounted(g)
      BY DEF IInv, AllAccounted
    <3>2. CASE Accepted(g) = r
      BY <2>1, <3>2 DEF Accounted, Accepted
    <3>3. CASE Accepted(g) # r
      BY <1>2, <2>1, <3>1, <3>3 DEF Accounted, Accepted
    <3> QED BY <3>2, <3>3
  <2> QED BY <1>5, <1>6, <2>2, <2>3 DEF IInv
<1>8. CASE r.goal = bridge.generation
  <2>1. cancels' = cancels
    BY <1>8 DEF OnResponse
  <2>2. CASE r.accepted
    <3>1. bridge'.active_goal = r.goal
      BY <1>0, <1>8, <2>2 DEF OnResponse, TypeOK, Bridge
    <3>2. Ownership'
      BY <1>3, <1>8, <3>1 DEF Ownership
    <3>3. AllAccounted'
      <4> SUFFICES ASSUME NEW g \in Coming PROVE Accounted(g)'
        BY <1>4 DEF AllAccounted
      <4>1. r.goal <= g \/ r.goal <= pending \/ r.goal <= accepting
        BY <2>2 DEF IInv, Answers
      <4>2. g <= bridge.generation
        BY <1>0, Numbers DEF IInv, Numbering
      <4>3. g = r.goal \/ pending > g \/ accepting > g
        BY <1>0, <1>8, <4>1, <4>2, Numbers
      <4> QED BY <1>2, <3>1, <4>3 DEF Accounted
    <3> QED BY <1>5, <1>6, <3>2, <3>3 DEF IInv
  <2>3. CASE ~ r.accepted
    <3>2. Ownership'
      BY <1>1, <1>2, <1>3, <1>8, <2>3 DEF Ownership
    <3>3. AllAccounted'
      <4> SUFFICES ASSUME ~ EarlyRestart, NEW g \in Coming PROVE nav # "active"
        BY <1>2, <1>4 DEF AllAccounted, Accounted
      <4>1. nav = "active" => r.goal < g
        BY <2>3 DEF IInv, Answers
      <4>2. g <= bridge.generation
        BY <1>0, Numbers DEF IInv, Numbering
      <4> QED BY <1>0, <1>8, <4>1, <4>2, Numbers
    <3> QED BY <1>5, <1>6, <3>2, <3>3 DEF IInv
  <2> QED BY <2>2, <2>3
<1> QED BY <1>7, <1>8

\* result_callback forgets only a goal that Nav2 has ended.
LEMMA ResultStep ==
    ASSUME IInv, TypeOK', NEW g \in Goal, OnResult(g)
    PROVE  IInv'
<1> USE DEF navVars
<1>0. TypeOK
  BY DEF IInv
<1>1. /\ UNCHANGED <<crashed, requests, responses, cancels, nav, accepting, current, pending, canceling, worker>>
      /\ results' = results \ {g} /\ known' = known \ {g} /\ g \in results \cap known
  BY DEF OnResult
<1>2. /\ bridge'.generation = bridge.generation
      /\ g # bridge.generation => bridge'.active_goal = bridge.active_goal
  BY <1>0 DEF OnResult, TypeOK, Bridge
<1>3. Coming' = Coming
  BY <1>1 DEF Coming, Live, Handles
<1>4. Numbering' /\ Handling' /\ Answers'
  BY <1>1, <1>2, <1>3 DEF IInv, Numbering, Handling, Answers
<1>5. Ownership'
  BY <1>1, <1>2 DEF IInv, Ownership
<1>6. AllAccounted'
  <2> SUFFICES ASSUME ~ crashed, ~ EarlyRestart, NEW l \in Coming PROVE Accounted(l)'
    BY <1>1, <1>3 DEF AllAccounted
  <2>1. Accounted(l)
    BY DEF IInv, AllAccounted
  <2>2. l # g
    BY <1>0, <1>1, Numbers DEF IInv, Handling
  <2>3. bridge'.active_goal = bridge.active_goal \/ bridge.active_goal = g
    BY <1>1, <1>2 DEF IInv, Ownership
  <2> QED BY <1>1, <2>1, <2>2, <2>3 DEF Accounted, Accepted
<1> QED BY <1>4, <1>5, <1>6 DEF IInv

\* A cancel request that leaves the wire marks the goal as canceling.
LEMMA HandleCancelStep ==
    ASSUME IInv, TypeOK', NEW g \in Goal, HandleCancel(g)
    PROVE  IInv'
<1>0. TypeOK
  BY DEF IInv
<1>1. /\ UNCHANGED <<requests, responses, results, nav, accepting, current, pending, worker, bridge, crashed, known>>
      /\ accepting = NoGoal
      /\ cancels' = cancels \ {g} /\ canceling' = canceling \cup ({g} \cap {current, pending})
  BY DEF HandleCancel, bridgeVars
<1>2. Coming' = Coming
  BY <1>1 DEF Coming, Live, Handles
<1>3. Numbering' /\ Handling' /\ Answers' /\ Ownership'
  BY <1>1, <1>2 DEF IInv, Numbering, Handling, Answers, Ownership
<1>4. AllAccounted'
  BY <1>0, <1>1, <1>2, Numbers DEF IInv, AllAccounted, Accounted, Accepted
<1> QED BY <1>3, <1>4 DEF IInv

\* A goal that Nav2 accepts has its response on the wire.
LEMMA HandleGoalStep ==
    ASSUME IInv, TypeOK', NEW g \in Goal, HandleGoal(g)
    PROVE  IInv'
<1>0. TypeOK
  BY DEF IInv
<1>1. /\ g \in requests /\ requests' = requests \ {g} /\ accepting = NoGoal
      /\ \A h \in requests : g <= h
      /\ UNCHANGED <<cancels, results, nav, current, pending, canceling, worker,
                     bridge, crashed, known>>
  BY DEF HandleGoal, bridgeVars
<1>2. /\ g \in Nat /\ g # NoGoal /\ g > current /\ g > pending /\ g <= bridge.generation
      /\ \A k \in results \cup known : g > k
      /\ \A r \in responses : g > r.goal
      /\ \A h \in requests' : h > g
  BY <1>0, <1>1, Numbers DEF IInv, Numbering
<1>3. Ownership'
  BY <1>1 DEF IInv, Ownership
<1>4. CASE nav # "active"
  <2> DEFINE n == [goal |-> g, accepted |-> FALSE]
  <2>1. responses' = responses \cup {n} /\ accepting' = accepting
    BY <1>1, <1>4 DEF HandleGoal
  <2>2. n.goal = g /\ n.accepted = FALSE
    OBVIOUS
  <2> HIDE DEF n
  <2>3. Coming' = Coming
    BY <1>1, <2>1 DEF Coming, Live, Handles
  <2>4. Numbering'
    BY <1>0, <1>1, <1>2, <2>1, <2>2, Numbers DEF IInv, Numbering
  <2>5. Handling' /\ Answers'
    BY <1>1, <1>4, <2>1, <2>2, <2>3 DEF IInv, Handling, Answers
  <2>6. AllAccounted'
    BY <1>1, <1>4 DEF AllAccounted, Accounted
  <2> QED BY <1>3, <2>4, <2>5, <2>6 DEF IInv
<1>5. CASE nav = "active"
  <2> DEFINE n == [goal |-> g, accepted |-> TRUE]
  <2>1. responses' = responses \cup {n} /\ accepting' = g
    BY <1>5 DEF HandleGoal
  <2>2. n.goal = g /\ n.accepted = TRUE /\ n = Accepted(g)
    BY DEF Accepted
  <2> HIDE DEF n
  <2>3. Coming' = Coming \cup {g}
    BY <1>1, <1>2, <2>1 DEF Coming, Live, Handles
  <2>4. Numbering'
    BY <1>0, <1>1, <1>2, <2>1, <2>2, Numbers DEF IInv, Numbering
  <2>5. Handling'
    BY <1>0, <1>1, <1>2, <2>1, Numbers DEF IInv, Handling
  <2>6. \A l \in Coming : l < g
    BY <1>0, <1>1, <1>2, Numbers
  <2>7. Answers'
    BY <1>0, <1>1, <1>2, <2>1, <2>2, <2>3, <2>6, Numbers DEF IInv, Answers
  <2>8. AllAccounted'
    BY <2>1, <2>2, <2>3, <2>6 DEF AllAccounted, Accounted, Accepted
  <2> QED BY <1>3, <2>4, <2>5, <2>7, <2>8 DEF IInv
<1> QED BY <1>4, <1>5

\* handle_accepted makes no other goal live than the one it takes, and ends only the
\* pending goal, which is older.
LEMMA HandleAcceptedStep ==
    ASSUME IInv, TypeOK', HandleAccepted
    PROVE  IInv'
<1> USE DEF Handles
<1>0. TypeOK
  BY DEF IInv
<1>1. /\ accepting # NoGoal /\ accepting' = NoGoal
      /\ results' = results \cup Handles({pending})
      /\ UNCHANGED <<requests, responses, cancels, nav, canceling, bridge, crashed, known>>
  BY DEF HandleAccepted, bridgeVars
<1>2. \/ pending' = accepting /\ UNCHANGED <<current, worker>>
      \/ pending' = NoGoal /\ current' = accepting /\ worker' = "start"
  BY DEF HandleAccepted
<1>3. accepting > current /\ accepting > pending
  BY <1>1 DEF IInv, Handling
<1>4. Numbering' /\ Ownership'
  BY <1>0, <1>1, <1>2, Numbers DEF IInv, Numbering, Ownership
<1>5. Handling'
  BY <1>0, <1>1, <1>2, <1>3, Numbers DEF IInv, Handling
<1>6. ASSUME NEW l \in Coming'
      PROVE  l \in Coming /\ (l = accepting \/ pending' = accepting)
  BY <1>1, <1>2, <1>6 DEF Coming, Live
<1>7. accepting \in Coming
  BY <1>1 DEF Coming
<1>8. Answers'
  <2> SUFFICES ASSUME NEW r \in responses, NEW l \in Coming'
               PROVE  /\ r.accepted => r.goal <= l \/ r.goal <= pending'
                      /\ ~ r.accepted /\ nav = "active" /\ ~ EarlyRestart => r.goal < l
    BY <1>1 DEF Answers
  <2>1. r.accepted => r.goal <= accepting
    BY <1>0, <1>3, <1>7, Numbers DEF IInv, Answers
  <2> QED BY <1>0, <1>6, <2>1, Numbers DEF IInv, Answers
<1>9. AllAccounted'
  <2> SUFFICES ASSUME ~ crashed, ~ EarlyRestart, NEW l \in Coming' PROVE Accounted(l)'
    BY <1>1 DEF AllAccounted
  <2>1. Accounted(l) /\ l \in Nat
    BY <1>0, <1>6, Numbers DEF IInv, AllAccounted
  <2>2. CASE pending' = accepting
    BY <1>0, <1>1, <1>3, <2>1, <2>2, Numbers DEF Accounted, Accepted
  <2>3. CASE l = accepting
    BY <1>0, <1>1, <1>3, <2>1, <2>3, Numbers DEF Accounted, Accepted
  <2> QED BY <1>6, <2>2, <2>3
<1> QED BY <1>4, <1>5, <1>8, <1>9 DEF IInv

\* A step of Nav2 that leaves the wire to it alone and makes no goal live that was
\* not, except that the pending goal may become the current one.
LEMMA ServerStep ==
    ASSUME IInv, TypeOK', Handling',
           UNCHANGED <<bridge, crashed, known, requests, responses, cancels, accepting, canceling>>,
           nav' = nav \/ nav' # "active" \/ Coming' = {} \/ EarlyRestart,
           current' \in {current, pending, NoGoal}, pending' \in {pending, NoGoal},
           results' \subseteq results \cup Handles({current, pending}),
           \/ Live' = {}
           \/ Live' = Live /\ pending' = pending
           \/ Live' = Handles({pending}) /\ Handles({pending}) \subseteq Live
    PROVE  IInv'
<1>0. TypeOK
  BY DEF IInv
<1>1. Numbering'
  BY <1>0, Numbers DEF IInv, Numbering, Handles
<1>2. Ownership'
  BY DEF IInv, Ownership
<1>3. ASSUME NEW l \in Coming'
      PROVE  l \in Coming /\ (pending' = pending \/ l = pending \/ l = accepting)
  BY <1>3 DEF Coming, Handles
<1>4. accepting # NoGoal => accepting > pending
  BY DEF IInv, Handling
<1>5. Answers'
  <2> SUFFICES ASSUME NEW r \in responses, NEW l \in Coming'
               PROVE  /\ r.accepted => r.goal <= l \/ r.goal <= pending' \/ r.goal <= accepting
                      /\ ~ r.accepted /\ nav' = "active" /\ ~ EarlyRestart => r.goal < l
    BY DEF Answers
  <2>1. l \in Coming /\ l \in Nat /\ l # NoGoal
    BY <1>0, <1>3, Numbers
  <2>2. r.accepted => r.goal <= l \/ r.goal <= pending \/ r.goal <= accepting
    BY <2>1 DEF IInv, Answers
  <2>3. r.accepted => r.goal <= l \/ r.goal <= pending' \/ r.goal <= accepting
    BY <1>0, <1>3, <1>4, <2>1, <2>2, Numbers
  <2>4. ~ r.accepted /\ nav' = "active" /\ ~ EarlyRestart => r.goal < l
    BY <2>1 DEF IInv, Answers
  <2> QED BY <2>3, <2>4
<1>6. AllAccounted'
  <2> SUFFICES ASSUME ~ crashed, ~ EarlyRestart, NEW l \in Coming' PROVE Accounted(l)'
    BY DEF AllAccounted
  <2>1. Accounted(l) /\ l # NoGoal
    BY <1>0, <1>3, Numbers DEF IInv, AllAccounted
  <2>2. pending > l => pending' > l
    BY <1>0, <1>3, <1>4, <2>1, Numbers
  <2> QED BY <2>1, <2>2 DEF Accounted, Accepted
<1> QED BY <1>1, <1>2, <1>5, <1>6 DEF IInv

\* The worker thread makes no goal live, except by preemption.
LEMMA WorkerStep ==
    ASSUME IInv, TypeOK', Worker
    PROVE  IInv'
<1> USE DEF netVars, bridgeVars, Handles
<1>0. TypeOK /\ Handling
  BY DEF IInv
<1>1. CASE WorkerStops \/ WorkerSeesCancel
  <2>1. Handling' /\ Live' = Live
    BY <1>0, <1>1 DEF Handling, WorkerStops, WorkerSeesCancel, Live
  <2> QED BY <1>1, <2>1, ServerStep DEF WorkerStops, WorkerSeesCancel
<1>2. CASE WorkerTests
  <2>1. Handling' /\ (Live' = {} \/ Live' = Live)
    BY <1>0, <1>2 DEF Handling, WorkerTests, Live
  <2> QED BY <1>2, <2>1, ServerStep DEF WorkerTests
<1>3. CASE WorkerTerminatesAll
  <2>1. Handling' /\ Live' = {}
    BY <1>0, <1>3, Numbers DEF Handling, WorkerTerminatesAll, terminate_all, Live
  <2> QED BY <1>3, <2>1, ServerStep DEF WorkerTerminatesAll, terminate_all
<1>4. CASE WorkerPreempts
  <2>1. Handling'
    BY <1>0, <1>4, Numbers DEF Handling, WorkerPreempts, accept_pending_goal
  <2>2. Live' = Handles({pending}) /\ Handles({pending}) \subseteq Live
    BY <1>4 DEF WorkerPreempts, accept_pending_goal, Live
  <2> QED BY <1>4, <2>1, <2>2, ServerStep DEF WorkerPreempts, accept_pending_goal
<1>5. CASE WorkerFinishes
  <2>1. Handling'
    BY <1>0, <1>5, Numbers DEF Handling, WorkerFinishes
  <2>2. Live' = Handles({pending}) /\ Handles({pending}) \subseteq Live
    BY <1>5 DEF WorkerFinishes, Live
  <2> QED BY <1>5, <2>1, <2>2, ServerStep DEF WorkerFinishes
<1>6. CASE WorkerReturns
  <2>1. Handling'
    BY <1>0, <1>6, Numbers DEF Handling, WorkerReturns, terminate_all, accept_pending_goal
  <2>2. Live' = {} \/ (Live' = Handles({pending}) /\ Handles({pending}) \subseteq Live)
    BY <1>6 DEF WorkerReturns, terminate_all, accept_pending_goal, Live
  <2> QED BY <1>6, <2>1, <2>2, ServerStep DEF WorkerReturns, terminate_all, accept_pending_goal
<1>7. CASE WorkerExits
  <2>1. Handling' /\ Live' = {}
    BY <1>0, <1>7 DEF Handling, WorkerExits, Live
  <2> QED BY <1>7, <2>1, ServerStep DEF WorkerExits
<1> QED BY <1>1, <1>2, <1>3, <1>4, <1>5, <1>6, <1>7 DEF Worker

\* Activation, deactivation and crashes of Nav2 keep the invariant; activation because no
\* goal is coming by then, or because it is too early.
LEMMA LifeCycleStep ==
    ASSUME IInv, TypeOK',
           \/ NavConfigure \/ NavActivate \/ NavDeactivate \/ NavCrash
           \/ NavDeadline \/ NavDeactivated
    PROVE  IInv'
<1> USE DEF netVars, bridgeVars, Handles
<1>0. TypeOK /\ Handling
  BY DEF IInv
<1>1. CASE NavConfigure \/ NavDeactivate \/ NavDeactivated
  <2>1. Handling' /\ Live' = Live
    BY <1>0, <1>1 DEF Handling, NavConfigure, NavDeactivate, NavDeactivated, Live
  <2> QED BY <1>1, <2>1, ServerStep DEF NavConfigure, NavDeactivate, NavDeactivated
<1>2. CASE NavActivate
  <2>1. Handling' /\ Live' = Live
    BY <1>0, <1>2 DEF Handling, NavActivate, Live
  <2>2. Coming' = {} \/ EarlyRestart
    BY <1>2 DEF NavActivate, Coming, Live
  <2> QED BY <1>2, <2>1, <2>2, ServerStep DEF NavActivate
<1>3. CASE NavDeadline
  <2>1. Handling' /\ Live' = {}
    BY <1>0, <1>3, Numbers DEF Handling, NavDeadline, terminate_all, Live
  <2> QED BY <1>3, <2>1, ServerStep DEF NavDeadline, terminate_all
<1>4. CASE NavCrash
  <2>1. /\ Coming' = {} /\ requests' = {}
        /\ current' = NoGoal /\ pending' = NoGoal /\ accepting' = NoGoal
    BY <1>4 DEF NavCrash, Coming, Live
  <2>2. UNCHANGED <<bridge, crashed, known, responses, results>>
    BY <1>4 DEF NavCrash
  <2>3. Numbering' /\ Ownership'
    BY <1>0, <2>1, <2>2, Numbers DEF IInv, Numbering, Ownership
  <2>4. Handling'
    BY <1>0, <2>1, <2>2, Numbers DEF Handling
  <2>5. Answers' /\ AllAccounted'
    BY <2>1 DEF Answers, AllAccounted
  <2> QED BY <2>3, <2>4, <2>5 DEF IInv
<1> QED BY <1>1, <1>2, <1>3, <1>4

\* Every step keeps the invariant.
LEMMA IInvStep == IInv /\ [Next]_vars => IInv'
<1> SUFFICES ASSUME IInv, [Next]_vars PROVE IInv'
  OBVIOUS
<1>0. TypeOK /\ TypeOK'
  BY TypeStep DEF IInv
<1>1. CASE \/ \E e \in BOOLEAN : OnLane(e) \/ OnEnableKeeps(e)
           \/ OnManeuver \/ OnManeuverCleared \/ OnDisable
           \/ LaneAges \/ ThrottleElapses \/ Timer
  BY <1>0, <1>1, CallbackAdvances, AdvancesStep
<1>2. CASE Delivery
  BY <1>0, <1>2, ResponseStep, ResultStep, HandleCancelStep, HandleGoalStep,
     HandleAcceptedStep DEF Delivery
<1>3. CASE Worker
  BY <1>0, <1>3, WorkerStep
<1>4. CASE \/ NavConfigure \/ NavActivate \/ NavDeactivate \/ NavCrash
           \/ NavDeadline \/ NavDeactivated
  BY <1>0, <1>4, LifeCycleStep
<1>5. CASE UNCHANGED vars
  BY <1>5 DEF vars, netVars, navVars, IInv, TypeOK, Numbering, Handling, Answers, Ownership,
     AllAccounted, Coming, Live, Handles, Accounted, Accepted
<1> QED BY <1>1, <1>2, <1>3, <1>4, <1>5 DEF Next, Environment

\* Every variable keeps its type, for every bound.
THEOREM TypeCorrect == Spec => []TypeOK
<1>1. Init => TypeOK
  BY InitIInv DEF IInv
<1> QED BY <1>1, TypeStep, PTL DEF Spec

\* No goal is ever driven behind the bridge's back (the generation_ protocol of
\* cancel_current, goal_response_callback and result_callback), for every number
\* of goals and path messages and with Nav2 crashing at any moment, unless its server is
\* activated again before a thread of before has tested its guard.
THEOREM NoOrphan == Spec => []NoOrphanGoal
<1>1. IInv => NoOrphanGoal
  BY DEF IInv, AllAccounted, NoOrphanGoal, Coming
<1> QED BY <1>1, InitIInv, IInvStep, PTL DEF Spec

-----------------------------------------------------------------------------
(* Priority of the maneuver *)

\* dispatch() sends only the path that Desired() chose.
LEMMA DispatchPaths ==
    ASSUME TypeOK, NEW b \in Bridge, b.generation + 1 <= MaxGeneration, dispatch(b),
           NEW n \in Nat, PathsFor(b, goal_path, n), Carried, UNCHANGED <<current, pending, accepting>>
    PROVE  PathsFor(bridge', goal_path', n) /\ Carried'
<1>1. CASE Sends(b)
  <2> DEFINE G == b.generation + 1
             d == Desired(b)
  <2>1. G \in Goal /\ G \in Nat /\ b.generation \in Nat
    BY DEF Bridge
  <2>2. d \in PathPtr /\ d # NoPath /\ d.id <= n
    BY <1>1 DEF Sends, Desired, NoPath, PathsFor, Bridge, PathPtr, Path
  <2>3. b.intersection_path # NoPath => d = b.intersection_path
    BY DEF Desired
  <2>4. /\ bridge'.generation = G /\ bridge'.lane_path = b.lane_path
        /\ bridge'.intersection_path = b.intersection_path
        /\ requests' = requests \cup {G}
    BY <1>1 DEF dispatch, Bridge
  <2>5. goal_path' = [goal_path EXCEPT ![G] = d]
    BY <1>1 DEF dispatch
  <2> HIDE DEF G, d
  <2>6. \A g \in Goal : goal_path'[g] = IF g = G THEN d ELSE goal_path[g]
    BY <2>1, <2>5 DEF TypeOK
  <2>7. \A g \in Goal : g \in Nat /\ (g > G => goal_path[g] = NoPath)
    BY <2>1 DEF PathsFor, G
  <2>8. PathsFor(bridge', goal_path', n)
    BY <2>1, <2>2, <2>3, <2>4, <2>6, <2>7 DEF PathsFor
  <2>9. Carried'
    BY <2>1, <2>2, <2>4, <2>6 DEF Carried, TypeOK
  <2> QED BY <2>8, <2>9
<1>2. CASE ~ Sends(b)
  BY <1>2 DEF dispatch, PathsFor, Carried
<1> QED BY <1>1, <1>2

\* A callback that cancels and dispatches keeps the order of the paths.
LEMMA CancelDispatchPaths ==
    ASSUME TypeOK, NEW b \in Bridge, b.generation + 1 <= MaxGeneration, CancelThenDispatch(b),
           NEW n \in Nat, PathsFor(b, goal_path, n), PathsFor(bridge, goal_path, n), Carried,
           UNCHANGED <<current, pending, accepting>>
    PROVE  PathsFor(bridge', goal_path', n) /\ Carried'
<1>1. CASE Withdrawn(bridge) \subseteq known
  BY <1>1, DispatchPaths DEF CancelThenDispatch
<1>2. CASE ~ (Withdrawn(bridge) \subseteq known)
  BY <1>2 DEF CancelThenDispatch, PathsFor, Carried
<1> QED BY <1>1, <1>2

\* Every step keeps the order of the paths and what the goals carry.
LEMMA PathsStep == PInv /\ [Next]_vars => (PathsFor(bridge, goal_path, published) /\ Carried)'
<1> SUFFICES ASSUME PInv, [Next]_vars
             PROVE  PathsFor(bridge', goal_path', published') /\ Carried'
  OBVIOUS
<1> USE DEF netVars, navVars, bridgeVars
<1>0. /\ TypeOK /\ bridge \in Bridge /\ PathsFor(bridge, goal_path, published) /\ Carried
      /\ bridge.generation \in Nat /\ published \in Nat
      /\ \A g \in Goal : goal_path[g].id \in Nat
  BY DEF PInv, IInv, TypeOK, Bridge, PathPtr, Path, NoPath
<1>1. ASSUME NEW e \in BOOLEAN, OnLane(e) PROVE PathsFor(bridge', goal_path', published') /\ Carried'
  <2> DEFINE p == [kind |-> "lane", id |-> published + 1, empty |-> e]
  <2>1. bridge' = [bridge EXCEPT !.lane_path = p, !.lane_fresh = TRUE] /\ p.id = published + 1
    BY <1>1 DEF OnLane
  <2> HIDE DEF p
  <2>2. /\ bridge'.generation = bridge.generation /\ bridge'.lane_path.id = published + 1
        /\ bridge'.intersection_path = bridge.intersection_path
    BY <1>0, <2>1 DEF Bridge
  <2>3. published' = published + 1 /\ UNCHANGED <<goal_path, requests, current, pending, accepting>>
    BY <1>1 DEF OnLane
  <2>4. bridge.intersection_path.id \in Nat
    BY <1>0 DEF Bridge, PathPtr, Path, NoPath
  <2> QED BY <1>0, <2>2, <2>3, <2>4 DEF PathsFor, Carried
<1>2. ASSUME NEW e \in BOOLEAN, OnEnableKeeps(e) PROVE PathsFor(bridge', goal_path', published') /\ Carried'
  <2> DEFINE b == [bridge EXCEPT !.lane_enabled = e]
  <2>1. /\ b \in Bridge /\ b.generation = bridge.generation /\ b.lane_path = bridge.lane_path
        /\ b.intersection_path = bridge.intersection_path
    BY <1>0 DEF Bridge
  <2>2. dispatch(b) /\ b.generation + 1 <= MaxGeneration
    BY <1>0, <1>2, <2>1 DEF OnEnableKeeps, Alive
  <2> HIDE DEF b
  <2>3. PathsFor(b, goal_path, published)
    BY <1>0, <2>1 DEF PathsFor
  <2>4. UNCHANGED <<published, current, pending, accepting>>
    BY <1>2 DEF OnEnableKeeps
  <2> QED BY <1>0, <2>1, <2>2, <2>3, <2>4, DispatchPaths
<1>3. CASE OnManeuver
  <2> DEFINE p == [kind |-> "intersection", id |-> published + 1, empty |-> FALSE]
             c == cancel_current(bridge)
             b == [c EXCEPT !.intersection_path = p]
  <2>0. published + 1 \in 1 .. MaxPaths /\ published' = published + 1
    BY <1>3 DEF OnManeuver, TypeOK, PInv, IInv
  <2>1. p \in PathPtr /\ p.id = published + 1 /\ p.kind = "intersection"
    BY <2>0, PathTypes
  <2>2. c \in Bridge /\ c.generation = bridge.generation + 1
        /\ c.generation + 1 <= MaxGeneration /\ c.lane_path = bridge.lane_path
    BY <1>0, <1>3, CancelType DEF OnManeuver, Alive
  <2>3. CancelThenDispatch(b) /\ UNCHANGED <<current, pending, accepting>>
    BY <1>3 DEF OnManeuver
  <2> HIDE DEF c, p
  <2>4. /\ b \in Bridge /\ b.generation = bridge.generation + 1
        /\ b.generation + 1 <= MaxGeneration /\ b.lane_path = bridge.lane_path
        /\ b.intersection_path = p
    BY <2>1, <2>2 DEF Bridge
  <2> HIDE DEF b
  <2>5. bridge.lane_path.id \in Nat /\ bridge.intersection_path.id \in Nat
    BY <1>0 DEF Bridge, PathPtr, Path, NoPath
  <2>6. \A g \in Goal : goal_path[g] # p
    BY <1>0, <2>1 DEF PathsFor
  <2>7. PathsFor(b, goal_path, published') /\ PathsFor(bridge, goal_path, published')
    BY <1>0, <2>0, <2>1, <2>4, <2>5, <2>6 DEF PathsFor
  <2> QED BY <1>0, <2>0, <2>3, <2>4, <2>7, CancelDispatchPaths
<1>4. CASE OnManeuverCleared
  <2> DEFINE c == cancel_current(bridge)
             b == [c EXCEPT !.intersection_path = NoPath]
  <2>2. c \in Bridge /\ c.generation = bridge.generation + 1
        /\ c.generation + 1 <= MaxGeneration /\ c.lane_path = bridge.lane_path
    BY <1>0, <1>4, CancelType DEF OnManeuverCleared, Alive
  <2>3. CancelThenDispatch(b) /\ UNCHANGED <<published, current, pending, accepting>>
    BY <1>4 DEF OnManeuverCleared
  <2> HIDE DEF c
  <2>4. /\ b \in Bridge /\ b.generation = bridge.generation + 1
        /\ b.generation + 1 <= MaxGeneration /\ b.lane_path = bridge.lane_path
        /\ b.intersection_path = NoPath
    BY <2>2, PathTypes DEF Bridge
  <2> HIDE DEF b
  <2>5. PathsFor(b, goal_path, published)
    BY <1>0, <2>4 DEF PathsFor, NoPath
  <2> QED BY <1>0, <2>3, <2>4, <2>5, CancelDispatchPaths
<1>5. CASE OnDisable
  <2> DEFINE c == [bridge EXCEPT !.lane_enabled = FALSE]
             b == cancel_current(c)
  <2>1. /\ c \in Bridge /\ c.generation = bridge.generation /\ c.lane_path = bridge.lane_path
        /\ c.intersection_path = bridge.intersection_path
    BY <1>0 DEF Bridge
  <2>2. CancelThenDispatch(b) /\ UNCHANGED <<published, current, pending, accepting>>
    BY <1>5 DEF OnDisable
  <2> HIDE DEF c
  <2>3. /\ b \in Bridge /\ b.generation = bridge.generation + 1
        /\ b.generation + 1 <= MaxGeneration
    BY <1>0, <1>5, <2>1, CancelType DEF OnDisable, Alive
  <2>4. b.lane_path = bridge.lane_path /\ b.intersection_path = bridge.intersection_path
    BY <2>1 DEF cancel_current, Bridge
  <2> HIDE DEF b
  <2>5. PathsFor(b, goal_path, published)
    BY <1>0, <2>3, <2>4 DEF PathsFor
  <2> QED BY <1>0, <2>2, <2>3, <2>5, CancelDispatchPaths
<1>6. CASE Timer
  <2>1. dispatch(bridge) /\ bridge.generation + 1 <= MaxGeneration
    BY <1>0, <1>6 DEF Timer, Alive
  <2>2. UNCHANGED <<published, current, pending, accepting>>
    BY <1>6 DEF Timer
  <2> QED BY <1>0, <2>1, <2>2, DispatchPaths
<1>7. ASSUME UNCHANGED <<published, goal_path, requests, current, pending, accepting>>,
             /\ bridge'.generation = bridge.generation /\ bridge'.lane_path = bridge.lane_path
             /\ bridge'.intersection_path = bridge.intersection_path
      PROVE  PathsFor(bridge', goal_path', published') /\ Carried'
  BY <1>0, <1>7 DEF PathsFor, Carried
<1>8. ASSUME NEW r \in responses, OnResponse(r) PROVE PathsFor(bridge', goal_path', published') /\ Carried'
  BY <1>0, <1>7, <1>8 DEF OnResponse, Bridge
<1>9. ASSUME NEW g \in Goal, OnResult(g) PROVE PathsFor(bridge', goal_path', published') /\ Carried'
  BY <1>0, <1>7, <1>9 DEF OnResult, Bridge
<1>10. CASE LaneAges \/ ThrottleElapses
  BY <1>0, <1>7, <1>10 DEF LaneAges, ThrottleElapses, Bridge
<1>11. ASSUME UNCHANGED <<bridge, published, goal_path>>, requests' \subseteq requests,
              {current', pending', accepting'}
                \subseteq requests \cup {current, pending, accepting, NoGoal}
       PROVE  PathsFor(bridge', goal_path', published') /\ Carried'
  BY <1>0, <1>11 DEF PathsFor, Carried
<1>12. CASE HandleAccepted \/ \E g \in Goal : HandleGoal(g) \/ HandleCancel(g)
  BY <1>11, <1>12 DEF HandleAccepted, HandleGoal, HandleCancel
<1>13. CASE Worker
  BY <1>11, <1>13 DEF Worker, WorkerTests, WorkerStops, WorkerSeesCancel, WorkerTerminatesAll,
     WorkerPreempts, WorkerFinishes, WorkerReturns, WorkerExits, terminate_all,
     accept_pending_goal
<1>14. CASE NavConfigure \/ NavActivate \/ NavDeactivate \/ NavCrash \/ NavDeadline \/ NavDeactivated
  BY <1>11, <1>14 DEF NavConfigure, NavActivate, NavDeactivate, NavCrash, NavDeadline,
     NavDeactivated, terminate_all
<1>15. CASE UNCHANGED vars
  BY <1>11, <1>15 DEF vars
<1> QED
  BY <1>1, <1>2, <1>3, <1>4, <1>5, <1>6, <1>8, <1>9, <1>10, <1>12, <1>13, <1>14, <1>15
     DEF Next, Environment, Delivery

\* No path is held or carried when all processes start.
LEMMA InitPInv == Init => PInv
<1>1. Init => PathsFor(bridge, goal_path, published) /\ Carried
  BY DEF Init, PathsFor, Carried, NoPath
<1> QED BY <1>1, InitIInv DEF PInv

\* The invariant implies that a held maneuver has priority.
LEMMA PInvPriority == PInv => ManeuverHasPriority
<1> SUFFICES ASSUME PInv, bridge.intersection_path # NoPath, NEW g \in Goal,
                    goal_path[g] = bridge.intersection_path,
                    NEW h \in requests \cup {current, pending, accepting}, h > g
             PROVE  goal_path[h].kind = "intersection"
  BY DEF ManeuverHasPriority
<1>1. h \in Goal /\ goal_path[h] # NoPath
  BY DEF PInv, IInv, TypeOK, Carried
<1> QED BY <1>1 DEF PInv, PathsFor

\* A lane goal never waits behind a held maneuver's goal, for every number of goals
\* and path messages (the priority rule of dispatch()).
THEOREM Priority == Spec => []ManeuverHasPriority
<1>1. PInv /\ [Next]_vars => PInv'
  BY PathsStep, IInvStep DEF PInv
<1> QED BY <1>1, InitPInv, PInvPriority, PTL DEF Spec

-----------------------------------------------------------------------------
(* The maneuver is not withdrawn while it is held *)

\* Of the goals that carry the path b holds, those that were replaced, and the last one
\* once dispatch() would send again, have been answered and nothing is to come of them.
ReplacedRefused(b) ==
    b.intersection_path # NoPath =>
      \A g \in Goal :
         /\ goal_path[g] = b.intersection_path
         /\ g < b.generation \/ b.sent_path # b.intersection_path
         => g \notin requests /\ \A r \in responses : r.goal # g

HInv == PInv /\ ReplacedRefused(bridge)

\* dispatch() leaves the held path alone.
LEMMA DispatchKeepsPath ==
    ASSUME NEW b \in Bridge, dispatch(b)
    PROVE  bridge'.intersection_path = b.intersection_path
<1>1. CASE Sends(b)
  BY <1>1 DEF dispatch, Bridge
<1>2. CASE ~ Sends(b)
  BY <1>2 DEF dispatch
<1> QED BY <1>1, <1>2

\* dispatch() sends the held path only if the last goal carrying it was refused.
LEMMA DispatchRefused ==
    ASSUME TypeOK, NEW b \in Bridge, b.generation + 1 <= MaxGeneration, dispatch(b),
           ReplacedRefused(b), UNCHANGED responses
    PROVE  ReplacedRefused(bridge)'
<1>1. CASE Sends(b)
  <2> DEFINE G == b.generation + 1
             d == Desired(b)
  <2>1. G \in Goal /\ G \in Nat /\ b.generation \in Nat
    BY DEF Bridge
  <2>2. /\ bridge'.generation = G /\ bridge'.sent_path = d
        /\ bridge'.intersection_path = b.intersection_path
        /\ requests' = requests \cup {G}
    BY <1>1 DEF dispatch, Bridge
  <2>3. goal_path' = [goal_path EXCEPT ![G] = d]
    BY <1>1 DEF dispatch
  <2>4. b.intersection_path # NoPath => d = b.intersection_path /\ d # b.sent_path
    BY <1>1 DEF Desired, Sends
  <2> HIDE DEF d
  <2> SUFFICES ASSUME b.intersection_path # NoPath, NEW g \in Goal,
                      goal_path'[g] = b.intersection_path, g < G
               PROVE  g \notin requests' /\ \A r \in responses' : r.goal # g
    BY <2>2, <2>4 DEF ReplacedRefused
  <2>5. goal_path[g] = b.intersection_path /\ g # G
    BY <2>1, <2>3 DEF TypeOK
  <2>6. g < b.generation \/ b.sent_path # b.intersection_path
    BY <2>4
  <2>7. g \notin requests /\ \A r \in responses : r.goal # g
    BY <2>5, <2>6 DEF ReplacedRefused
  <2> QED BY <2>2, <2>5, <2>7
<1>2. CASE ~ Sends(b)
  BY <1>2 DEF dispatch, ReplacedRefused
<1> QED BY <1>1, <1>2

\* A callback that cancels and dispatches does so for a path that no goal carries yet,
\* or for none.
LEMMA CancelDispatchRefused ==
    ASSUME TypeOK, NEW b \in Bridge, b.generation + 1 <= MaxGeneration,
           CancelThenDispatch(b), ReplacedRefused(bridge), UNCHANGED responses,
           \A g \in Goal : b.intersection_path # NoPath => goal_path[g] # b.intersection_path
    PROVE  ReplacedRefused(bridge)'
<1>1. CASE Withdrawn(bridge) \subseteq known
  <2>1. ReplacedRefused(b)
    BY DEF ReplacedRefused
  <2> QED BY <1>1, <2>1, DispatchRefused DEF CancelThenDispatch
<1>2. CASE ~ (Withdrawn(bridge) \subseteq known)
  BY <1>2 DEF CancelThenDispatch, ReplacedRefused
<1> QED BY <1>1, <1>2

\* The objects that the three cancelling callbacks dispatch, and the paths they hold.
LEMMA CancellingCallbacks ==
    ASSUME PInv, OnManeuver \/ OnManeuverCleared \/ OnDisable
    PROVE  \E b \in Bridge :
              /\ b.generation + 1 <= MaxGeneration
              /\ CancelThenDispatch(b)
              /\ b.intersection_path # NoPath =>
                   /\ b.intersection_path # bridge.intersection_path
                   /\ \A g \in Goal : goal_path[g] # b.intersection_path
              /\ b.intersection_path = bridge.intersection_path =>
                   bridge.intersection_path = NoPath
<1>0. /\ TypeOK /\ bridge \in Bridge /\ PathsFor(bridge, goal_path, published)
      /\ bridge.generation \in Nat /\ published \in Nat
      /\ bridge.intersection_path.id \in Nat
      /\ \A g \in Goal : goal_path[g].id \in Nat
  BY DEF PInv, IInv, TypeOK, Bridge, PathPtr, Path, NoPath
<1>1. CASE OnManeuver
  <2> DEFINE p == [kind |-> "intersection", id |-> published + 1, empty |-> FALSE]
             c == cancel_current(bridge)
             b == [c EXCEPT !.intersection_path = p]
  <2>1. published + 1 \in 1 .. MaxPaths
    BY <1>0, <1>1 DEF OnManeuver, TypeOK
  <2>2. p \in PathPtr /\ p.id = published + 1
    BY <2>1, PathTypes
  <2>3. c \in Bridge /\ c.generation + 1 <= MaxGeneration
    BY <1>0, <1>1, CancelType DEF OnManeuver, Alive
  <2>4. CancelThenDispatch(b)
    BY <1>1 DEF OnManeuver
  <2> HIDE DEF c, p
  <2>5. b \in Bridge /\ b.generation + 1 <= MaxGeneration /\ b.intersection_path = p
    BY <2>2, <2>3 DEF Bridge
  <2> HIDE DEF b
  <2>6. p # bridge.intersection_path /\ \A g \in Goal : goal_path[g] # p
    BY <1>0, <2>2 DEF PathsFor
  <2> QED BY <2>4, <2>5, <2>6
<1>2. CASE OnManeuverCleared
  <2> DEFINE c == cancel_current(bridge)
             b == [c EXCEPT !.intersection_path = NoPath]
  <2>1. c \in Bridge /\ c.generation + 1 <= MaxGeneration
    BY <1>0, <1>2, CancelType DEF OnManeuverCleared, Alive
  <2>2. CancelThenDispatch(b)
    BY <1>2 DEF OnManeuverCleared
  <2> HIDE DEF c
  <2>3. b \in Bridge /\ b.generation + 1 <= MaxGeneration /\ b.intersection_path = NoPath
    BY <2>1, PathTypes DEF Bridge
  <2> HIDE DEF b
  <2> QED BY <2>2, <2>3
<1>3. CASE OnDisable
  <2> DEFINE c == [bridge EXCEPT !.lane_enabled = FALSE]
             b == cancel_current(c)
  <2>1. /\ c \in Bridge /\ c.generation = bridge.generation
        /\ c.intersection_path = NoPath
    BY <1>0, <1>3 DEF OnDisable, Bridge
  <2>2. CancelThenDispatch(b) /\ bridge.intersection_path = NoPath
    BY <1>3 DEF OnDisable
  <2> HIDE DEF c
  <2>3. b \in Bridge /\ b.generation + 1 <= MaxGeneration
    BY <1>0, <1>3, <2>1, CancelType DEF OnDisable, Alive
  <2>4. b.intersection_path = NoPath
    BY <2>1 DEF cancel_current, Bridge
  <2> HIDE DEF b
  <2> QED BY <2>2, <2>3, <2>4
<1> QED BY <1>1, <1>2, <1>3

\* Every step keeps what is known of replaced goals.
LEMMA RefusedStep == HInv /\ [Next]_vars => ReplacedRefused(bridge)'
<1> SUFFICES ASSUME HInv, [Next]_vars PROVE ReplacedRefused(bridge)'
  OBVIOUS
<1> USE DEF netVars, navVars, bridgeVars
<1>0. /\ PInv /\ TypeOK /\ bridge \in Bridge /\ ReplacedRefused(bridge)
      /\ bridge.generation \in Nat
  BY DEF HInv, PInv, IInv, TypeOK, Bridge
<1>1. ASSUME UNCHANGED <<goal_path, responses>>, requests' \subseteq requests,
             bridge'.generation = bridge.generation, bridge'.sent_path = bridge.sent_path,
             bridge'.intersection_path = bridge.intersection_path
      PROVE  ReplacedRefused(bridge)'
  BY <1>0, <1>1 DEF ReplacedRefused
<1>2. CASE OnManeuver \/ OnManeuverCleared \/ OnDisable
  <2>1. PICK b \in Bridge : /\ b.generation + 1 <= MaxGeneration
                            /\ CancelThenDispatch(b)
                            /\ b.intersection_path # NoPath =>
                                 \A g \in Goal : goal_path[g] # b.intersection_path
    BY <1>0, <1>2, CancellingCallbacks
  <2>2. UNCHANGED responses
    BY <1>2 DEF OnManeuver, OnManeuverCleared, OnDisable
  <2> QED BY <1>0, <2>1, <2>2, CancelDispatchRefused
<1>3. ASSUME NEW e \in BOOLEAN, OnEnableKeeps(e) PROVE ReplacedRefused(bridge)'
  <2> DEFINE b == [bridge EXCEPT !.lane_enabled = e]
  <2>1. /\ b \in Bridge /\ b.generation = bridge.generation /\ b.sent_path = bridge.sent_path
        /\ b.intersection_path = bridge.intersection_path
    BY <1>0 DEF Bridge
  <2>2. dispatch(b) /\ b.generation + 1 <= MaxGeneration /\ UNCHANGED responses
    BY <1>0, <1>3, <2>1 DEF OnEnableKeeps, Alive
  <2> HIDE DEF b
  <2>3. ReplacedRefused(b)
    BY <1>0, <2>1 DEF ReplacedRefused
  <2> QED BY <1>0, <2>1, <2>2, <2>3, DispatchRefused
<1>4. CASE Timer
  <2>1. dispatch(bridge) /\ bridge.generation + 1 <= MaxGeneration /\ UNCHANGED responses
    BY <1>0, <1>4 DEF Timer, Alive
  <2> QED BY <1>0, <2>1, DispatchRefused
<1>5. ASSUME NEW e \in BOOLEAN, OnLane(e) PROVE ReplacedRefused(bridge)'
  <2>1. /\ bridge'.generation = bridge.generation /\ bridge'.sent_path = bridge.sent_path
        /\ bridge'.intersection_path = bridge.intersection_path
    BY <1>0, <1>5 DEF OnLane, Bridge
  <2>2. UNCHANGED <<goal_path, requests, responses>>
    BY <1>5 DEF OnLane
  <2> QED BY <1>1, <2>1, <2>2
<1>6. CASE LaneAges \/ ThrottleElapses
  <2>1. /\ bridge'.generation = bridge.generation /\ bridge'.sent_path = bridge.sent_path
        /\ bridge'.intersection_path = bridge.intersection_path
    BY <1>0, <1>6 DEF LaneAges, ThrottleElapses, Bridge
  <2>2. UNCHANGED <<goal_path, requests, responses>>
    BY <1>6 DEF LaneAges, ThrottleElapses
  <2> QED BY <1>1, <2>1, <2>2
<1>7. ASSUME NEW r \in responses, OnResponse(r) PROVE ReplacedRefused(bridge)'
  <2>1. /\ UNCHANGED <<goal_path, requests>> /\ responses' = responses \ {r}
        /\ bridge'.generation = bridge.generation
        /\ bridge'.intersection_path = bridge.intersection_path
        /\ bridge'.sent_path # bridge.sent_path => r.goal = bridge.generation
    BY <1>0, <1>7 DEF OnResponse, Bridge
  <2>2. /\ r.goal \notin requests
        /\ \A s \in responses : s.goal = r.goal => s = r
    BY <1>0 DEF PInv, IInv, Numbering, TypeOK, Response
  <2> SUFFICES ASSUME bridge.intersection_path # NoPath, NEW g \in Goal,
                      goal_path[g] = bridge.intersection_path,
                      g < bridge.generation
                        \/ bridge'.sent_path # bridge.intersection_path
               PROVE  g \notin requests /\ \A s \in responses' : s.goal # g
    BY <2>1 DEF ReplacedRefused
  <2>3. CASE g < bridge.generation \/ bridge'.sent_path = bridge.sent_path
    BY <1>0, <2>1, <2>3 DEF ReplacedRefused
  <2>4. CASE ~ (g < bridge.generation) /\ bridge'.sent_path # bridge.sent_path
    <3>1. goal_path[g] # NoPath
      OBVIOUS
    <3>2. ~ (g > bridge.generation)
      BY <1>0, <3>1 DEF PInv, PathsFor
    <3>3. g = r.goal
      BY <1>0, <2>1, <2>4, <3>2
    <3> QED BY <2>1, <2>2, <3>3
  <2> QED BY <2>3, <2>4
<1>8. ASSUME NEW g \in Goal, OnResult(g) PROVE ReplacedRefused(bridge)'
  <2>1. /\ bridge'.generation = bridge.generation /\ bridge'.sent_path = bridge.sent_path
        /\ bridge'.intersection_path = bridge.intersection_path
    BY <1>0, <1>8 DEF OnResult, Bridge
  <2>2. UNCHANGED <<goal_path, requests, responses>>
    BY <1>8 DEF OnResult
  <2> QED BY <1>1, <2>1, <2>2
<1>9. ASSUME NEW h \in Goal, HandleGoal(h) PROVE ReplacedRefused(bridge)'
  <2>1. /\ UNCHANGED <<bridge, goal_path>> /\ h \in requests
        /\ requests' = requests \ {h}
    BY <1>9 DEF HandleGoal
  <2>2. responses' = responses \cup {[goal |-> h, accepted |-> nav = "active"]}
    BY <1>9 DEF HandleGoal
  <2>3. \A r \in responses' : r \in responses \/ r.goal = h
    BY <2>2
  <2> QED BY <1>0, <2>1, <2>3 DEF ReplacedRefused
<1>10. ASSUME UNCHANGED <<bridge, goal_path, responses>>, requests' \subseteq requests
       PROVE  ReplacedRefused(bridge)'
  BY <1>1, <1>10
<1>11. CASE HandleAccepted \/ \E g \in Goal : HandleCancel(g)
  BY <1>10, <1>11 DEF HandleAccepted, HandleCancel
<1>12. CASE Worker
  BY <1>10, <1>12 DEF Worker, WorkerTests, WorkerStops, WorkerSeesCancel, WorkerTerminatesAll,
     WorkerPreempts, WorkerFinishes, WorkerReturns, WorkerExits
<1>13. CASE NavConfigure \/ NavActivate \/ NavDeactivate \/ NavCrash \/ NavDeadline \/ NavDeactivated
  BY <1>10, <1>13 DEF NavConfigure, NavActivate, NavDeactivate, NavCrash, NavDeadline,
     NavDeactivated
<1>14. CASE UNCHANGED vars
  BY <1>10, <1>14 DEF vars
<1> QED
  BY <1>2, <1>3, <1>4, <1>5, <1>6, <1>7, <1>8, <1>9, <1>11, <1>12, <1>13, <1>14
     DEF Next, Environment, Delivery

\* A step that keeps the held path puts no goal that carries it on the cancel wire: the
\* callbacks that cancel change the path or hold none, and an acceptance that comes late
\* is not one of the held path's.
LEMMA NotWithdrawnStep ==
    ASSUME HInv, [Next]_vars, bridge.intersection_path # NoPath,
           bridge'.intersection_path = bridge.intersection_path,
           NEW g \in cancels', g \notin cancels
    PROVE  goal_path[g] # bridge.intersection_path
<1> USE DEF netVars, navVars, bridgeVars
<1>0. /\ PInv /\ bridge \in Bridge /\ ReplacedRefused(bridge) /\ bridge.generation \in Nat
  BY DEF HInv, PInv, IInv, TypeOK, Bridge
<1>1. CASE OnManeuver \/ OnManeuverCleared \/ OnDisable
  <2>1. PICK b \in Bridge : /\ CancelThenDispatch(b)
                            /\ b.intersection_path = bridge.intersection_path =>
                                 bridge.intersection_path = NoPath
    BY <1>0, <1>1, CancellingCallbacks
  <2>2. CASE Withdrawn(bridge) \subseteq known
    <3>1. dispatch(b)
      BY <2>1, <2>2 DEF CancelThenDispatch
    <3>2. bridge'.intersection_path = b.intersection_path
      BY <3>1, DispatchKeepsPath
    <3> QED BY <2>1, <3>2
  <2>3. CASE ~ (Withdrawn(bridge) \subseteq known)
    BY <2>1, <2>3 DEF CancelThenDispatch
  <2> QED BY <2>2, <2>3
<1>2. ASSUME NEW r \in responses, OnResponse(r) PROVE goal_path[g] # bridge.intersection_path
  <2>1. g = r.goal /\ r.goal # bridge.generation
    BY <1>2 DEF OnResponse
  <2>2. g \in Goal /\ g <= bridge.generation
    BY <1>0, <2>1 DEF PInv, IInv, Numbering, TypeOK, Response
  <2>3. g < bridge.generation
    BY <1>0, <2>1, <2>2
  <2> QED BY <1>0, <2>1, <2>2, <2>3 DEF ReplacedRefused
<1>3. ASSUME cancels' \subseteq cancels PROVE goal_path[g] # bridge.intersection_path
  BY <1>3
<1>4. ASSUME NEW e \in BOOLEAN, OnLane(e) \/ OnEnableKeeps(e)
      PROVE  goal_path[g] # bridge.intersection_path
  BY <1>3, <1>4 DEF OnLane, OnEnableKeeps
<1>5. CASE Timer \/ LaneAges \/ ThrottleElapses
  BY <1>3, <1>5 DEF Timer, LaneAges, ThrottleElapses
<1>6. ASSUME NEW h \in Goal, OnResult(h) \/ HandleCancel(h) \/ HandleGoal(h)
      PROVE  goal_path[g] # bridge.intersection_path
  BY <1>3, <1>6 DEF OnResult, HandleCancel, HandleGoal
<1>7. CASE HandleAccepted \/ Worker
  BY <1>3, <1>7 DEF HandleAccepted, Worker, WorkerTests, WorkerStops, WorkerSeesCancel, WorkerTerminatesAll,
     WorkerPreempts, WorkerFinishes, WorkerReturns, WorkerExits
<1>8. CASE NavConfigure \/ NavActivate \/ NavDeactivate \/ NavCrash \/ NavDeadline \/ NavDeactivated
  BY <1>3, <1>8 DEF NavConfigure, NavActivate, NavDeactivate, NavCrash, NavDeadline,
     NavDeactivated
<1>9. CASE UNCHANGED vars
  BY <1>3, <1>9 DEF vars
<1> QED
  BY <1>1, <1>2, <1>4, <1>5, <1>6, <1>7, <1>8, <1>9 DEF Next, Environment, Delivery

\* The bridge never asks Nav2 to cancel a goal of the maneuver it holds ("the server owns
\* maneuver cancellation" in the enable callback), however often the path was refused and
\* sent again, for every number of goals and with Nav2 crashing at any moment.
THEOREM NotWithdrawn == Spec => ManeuverNotWithdrawn
<1>1. Init => HInv
  <2>1. Init => ReplacedRefused(bridge)
    BY DEF Init, ReplacedRefused
  <2> QED BY <2>1, InitPInv DEF HInv
<1>2. HInv /\ [Next]_vars => HInv'
  BY PathsStep, IInvStep, RefusedStep DEF PInv, HInv
<1>3. HInv /\ [Next]_vars =>
        [bridge.intersection_path # NoPath
           /\ bridge'.intersection_path = bridge.intersection_path =>
              \A g \in cancels' \ cancels : goal_path[g] # bridge.intersection_path]_vars
  BY NotWithdrawnStep
<1> QED BY <1>1, <1>2, <1>3, PTL DEF Spec, ManeuverNotWithdrawn

=============================================================================

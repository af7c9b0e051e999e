------------------------- MODULE BehaviorTreeProofs -------------------------
(***************************************************************************)
(* The behaviour tree with its servers, for every set of decisions, any    *)
(* number of turns and any number of goals on the wire: lane following is  *)
(* off during a maneuver, and the servers only ever work for the latch.    *)
(***************************************************************************)
EXTENDS BehaviorTree, SequenceTheorems, TLAPS

Link ==
    [client : {"idle", "requested", "accepted"}, requests : Seq(Token),
     answer : {"none", "accept", "reject"}, outcome : {"none", "success", "failure"}]

\* A client and its wire: the request the client waits for is the last one, and once it
\* has been answered none is left.
WireOK(l) ==
    /\ l \in Link
    /\ Len(l.requests) <= MaxInFlight
    /\ \A k \in DOMAIN l.requests : l.requests[k] = "own" =>
          k = Len(l.requests) /\ l.client = "requested" /\ l.answer = "none" /\ l.outcome = "none"
    /\ l.answer # "none" \/ l.client = "accepted" => l.requests = <<>>
    /\ l.client = "idle" => l.answer = "none" /\ l.outcome = "none"
    /\ l.outcome # "none" => Accepted(l)

\* The intersection server and what its client knows of it.
ServerInv ==
    /\ link \in [ActionName -> Link] /\ WireOK(link["turn"]) /\ WireOK(link["change"])
    /\ costmap \in BOOLEAN /\ busy \in BOOLEAN /\ canceling \in BOOLEAN
    /\ cancel \in BOOLEAN /\ path \in BOOLEAN /\ alive \in BOOLEAN
    /\ goal \in {"none", "own", "stale"}
    /\ phase \in {"idle", "plan", "monitor", "return"}
    /\ lane \in {"left", "right"}
    /\ goal = "own" => Accepted(link["turn"]) /\ link["turn"].outcome = "none"
    /\ goal = "none" <=> phase \in {"idle", "return"}
    /\ link["turn"].outcome # "none" => goal = "none"
    /\ link["turn"].outcome = "success" => ~ path
    /\ alive /\ ~ busy => phase = "idle"
    /\ path => phase = "monitor" \/ ~ alive

\* The tree: which branch runs says whether a maneuver is latched and which client may
\* wait for a goal.
TreeInv ==
    /\ obstacle \in ObstacleDecision \cup {Nothing}
    /\ intersection \in IntersectionDecision \cup {Nothing}
    /\ active \in IntersectionDecision \cup {Nothing}
    /\ sent \in ObstacleDecision \cup IntersectionDecision \cup {Nothing}
    /\ turns \in 0 .. InitialTurns
    /\ running \in {"none", "stop", "intersection", "lane"} /\ node \in {"stop", "turn"}
    /\ needs_stop \in BOOLEAN /\ gate \in BOOLEAN /\ lockout \in [ActionName -> BOOLEAN]
    /\ marked \in {"left", "right"}
    /\ ~ Repeats(intersection, done) /\ ~ Repeats(active, done)
    /\ Latched => ~ gate
    /\ running = "intersection" => Latched /\ needs_stop = active.needs_stop
    /\ running \in {"lane", "none"} => ~ Latched
    /\ link["turn"].client # "idle" <=> running = "intersection" /\ node = "turn"
    /\ link["turn"].client # "idle" => sent = active /\ ~ active.needs_stop /\ turns > 0
    /\ link["change"].client # "idle" => running = "lane"
    /\ sent # Nothing => link["turn"].client # "idle" \/ link["change"].client # "idle"

\* What the server has, or will have, to do belongs to the latch.
WorkIsLatched == goal # "none" \/ path \/ link["turn"].requests # <<>> => Latched

Inv == ServerInv /\ TreeInv /\ WorkIsLatched

-----------------------------------------------------------------------------
(* Client nodes *)

\* A client that gives its goal up is idle, and no request on the wire is its own.
LEMMA GivenUpOK ==
    ASSUME NEW l, WireOK(l), NEW doomed \in BOOLEAN
    PROVE  /\ WireOK(GivenUp(l, doomed)) /\ GivenUp(l, doomed).client = "idle"
           /\ GivenUp(l, doomed).outcome = "none"
           /\ l.requests = <<>> => GivenUp(l, doomed).requests = <<>>
           /\ GivenUp(l, doomed).requests # <<>> => l.requests # <<>>
<1> DEFINE q == [k \in DOMAIN l.requests |->
                    IF l.requests[k] # "own" THEN l.requests[k]
                    ELSE IF doomed THEN "doomed" ELSE "stale"]
           g == GivenUp(l, doomed)
<1>1. l.requests \in Seq(Token) /\ l \in Link
  BY DEF WireOK, Link
<1>2. DOMAIN l.requests = 1 .. Len(l.requests) /\ Len(l.requests) \in Nat
  BY <1>1
<1>3. q \in [1 .. Len(l.requests) -> Token] /\ \A k \in DOMAIN q : q[k] # "own"
  BY <1>1, <1>2 DEF Token
<1>4. q \in Seq(Token) /\ Len(q) = Len(l.requests)
  BY <1>2, <1>3
<1>5. g = [l EXCEPT !.client = "idle", !.answer = "none", !.outcome = "none", !.requests = q]
  BY DEF GivenUp
<1> HIDE DEF q
<1>6. /\ g \in Link /\ g.client = "idle" /\ g.answer = "none" /\ g.outcome = "none"
      /\ g.requests = q
  BY <1>1, <1>4, <1>5 DEF Link
<1> HIDE DEF g
<1>7. q = <<>> <=> l.requests = <<>>
  BY <1>1, <1>4
<1>8. WireOK(g)
  BY <1>3, <1>4, <1>6 DEF WireOK
<1> QED BY <1>6, <1>7, <1>8 DEF g

\* So is one that is halted.
LEMMA HaltedOK ==
    ASSUME NEW l, WireOK(l), NEW doomed \in BOOLEAN
    PROVE  /\ WireOK(Halted(l, doomed)) /\ Halted(l, doomed).client = "idle"
           /\ Halted(l, doomed).outcome = "none"
           /\ Halted(l, doomed).requests # <<>> => l.requests # <<>>
<1>1. CASE l.client = "idle"
  BY <1>1 DEF Halted, WireOK
<1>2. CASE l.client # "idle"
  BY <1>2, GivenUpOK DEF Halted
<1> QED BY <1>1, <1>2

\* An idle client sends.
LEMMA WithGoalOK ==
    ASSUME NEW l, WireOK(l), l.client = "idle", Len(l.requests) < MaxInFlight
    PROVE  WireOK(WithGoal(l)) /\ WithGoal(l).client = "requested" /\ WithGoal(l).outcome = "none"
<1> DEFINE q == Append(l.requests, "own")
           g == WithGoal(l)
<1>1. l.requests \in Seq(Token) /\ l \in Link /\ l.answer = "none" /\ l.outcome = "none"
  BY DEF WireOK, Link
<1>2. /\ q \in Seq(Token) /\ Len(q) = Len(l.requests) + 1 /\ Len(l.requests) \in Nat
      /\ \A k \in 1 .. Len(l.requests) : q[k] = l.requests[k]
  BY <1>1, AppendProperties DEF Token
<1>3. \A k \in DOMAIN l.requests : l.requests[k] # "own"
  BY DEF WireOK
<1>4. \A k \in DOMAIN q : q[k] = "own" => k = Len(q)
  BY <1>1, <1>2, <1>3
<1>5. g = [l EXCEPT !.client = "requested", !.requests = q]
  BY DEF WithGoal
<1> HIDE DEF q
<1>6. /\ g \in Link /\ g.client = "requested" /\ g.answer = "none" /\ g.outcome = "none"
      /\ g.requests = q
  BY <1>1, <1>2, <1>5 DEF Link
<1> HIDE DEF g
<1>7. WireOK(g)
  BY <1>2, <1>4, <1>6, ServersAssumption DEF WireOK
<1> QED BY <1>6, <1>7 DEF g

\* A client that waits notices the acceptance at most.
LEMMA WaitingOK ==
    ASSUME NEW l, WireOK(l), Waits(l)
    PROVE  /\ WireOK(Waiting(l)) /\ Waiting(l).client # "idle" /\ Waiting(l).outcome = "none"
           /\ Accepted(l) => Accepted(Waiting(l))
           /\ Waiting(l).requests = l.requests
<1>1. l \in Link
  BY DEF WireOK
<1>2. CASE Accepted(l)
  <2>1. /\ Waiting(l) \in Link /\ Waiting(l).client = "accepted" /\ Waiting(l).answer = "none"
        /\ Waiting(l).outcome = l.outcome /\ Waiting(l).requests = l.requests
    BY <1>1, <1>2 DEF Waiting, Link
  <2>2. l.requests = <<>> /\ l.outcome = "none"
    BY <1>2 DEF WireOK, Accepted, Waits
  <2> QED BY <2>1, <2>2, ServersAssumption DEF WireOK, Accepted
<1>3. CASE ~ Accepted(l)
  BY <1>3 DEF Waiting, Waits, WireOK, Accepted
<1> QED BY <1>2, <1>3

-----------------------------------------------------------------------------
(* Servers *)

\* A server takes the first request off the wire; if it is the client's own, it answers.
LEMMA HandledOK ==
    ASSUME NEW l, WireOK(l), l.requests # <<>>, NEW g \in Link,
           NEW v \in {"accept", "reject"}, NEW r \in {"none", "success"}, r # "none" => v = "accept",
           g.client = l.client, g.requests = Tail(l.requests),
           Head(l.requests) = "own" => g.answer = v /\ g.outcome = r,
           Head(l.requests) # "own" => g.answer = l.answer /\ g.outcome = l.outcome
    PROVE  /\ WireOK(g)
           /\ l.answer = "none" /\ l.client # "accepted" /\ l.outcome = "none"
           /\ Head(l.requests) = "own" => g.requests = <<>> /\ l.client = "requested"
<1>1. l.requests \in Seq(Token) /\ l.answer = "none" /\ l.client # "accepted" /\ l.outcome = "none"
  BY DEF WireOK, Link, Accepted
<1>2. /\ Head(l.requests) = l.requests[1]
      /\ Len(g.requests) = Len(l.requests) - 1 /\ Len(l.requests) \in Nat \ {0}
      /\ \A k \in 1 .. Len(g.requests) : g.requests[k] = l.requests[k + 1]
      /\ g.requests \in Seq(Token)
  BY <1>1, HeadTailProperties
<1>3. DOMAIN l.requests = 1 .. Len(l.requests) /\ DOMAIN g.requests = 1 .. Len(g.requests)
  BY <1>1, <1>2
<1>4. CASE Head(l.requests) = "own"
  <2>0. 1 \in DOMAIN l.requests /\ l.requests[1] = "own"
    BY <1>2, <1>3, <1>4
  <2>1. Len(l.requests) = 1 /\ l.client = "requested"
    BY <2>0 DEF WireOK
  <2>a. Len(g.requests) = 0
    BY <1>2, <2>1
  <2>2. g.requests = <<>>
    BY <1>2, <2>a, EmptySeq
  <2>3. WireOK(g)
    BY <1>2, <1>4, <2>1, <2>2, ServersAssumption DEF WireOK, Accepted
  <2> QED BY <1>1, <2>1, <2>2, <2>3
<1>5. CASE Head(l.requests) # "own"
  <2>1. \A k \in DOMAIN g.requests : g.requests[k] = "own" =>
            k = Len(g.requests) /\ l.client = "requested" /\ l.answer = "none" /\ l.outcome = "none"
    BY <1>2, <1>3 DEF WireOK
  <2>2. Len(g.requests) <= MaxInFlight
    BY <1>2, ServersAssumption DEF WireOK
  <2>3. WireOK(g)
    BY <1>1, <1>5, <2>1, <2>2 DEF WireOK
  <2> QED BY <1>1, <1>5, <2>3
<1> QED BY <1>4, <1>5

\* The tree does not notice a step that leaves the clients alone.
LEMMA TreeSame ==
    ASSUME TreeInv, UNCHANGED <<latchVars, treeVars>>,
           link'["turn"].client = link["turn"].client,
           link'["change"].client = link["change"].client
    PROVE  TreeInv'
BY DEF TreeInv, latchVars, treeVars, Latched, Repeats

\* IntersectionServer: handle_goal.
LEMMA TurnHandleGoalStep ==
    ASSUME Inv, TurnHandleGoal, UNCHANGED <<latchVars, treeVars>>
    PROVE  Inv'
<1> DEFINE l == link["turn"]
           token == Head(l.requests)
           accepts == costmap /\ ~ busy
           v == IF accepts THEN "accept" ELSE "reject"
           g == [l EXCEPT !.requests = Tail(@), !.answer = IF token # "own" THEN @ ELSE v]
<1>1. l \in Link /\ WireOK(l) /\ l.requests # <<>> /\ l.requests \in Seq(Token)
  BY DEF Inv, ServerInv, TurnHandleGoal, ActionName, WireOK, Link
<1>2. link' = [link EXCEPT !["turn"] = g]
  BY DEF TurnHandleGoal
<1>3. Tail(l.requests) \in Seq(Token)
  BY <1>1, HeadTailProperties
<1>4. /\ g \in Link /\ g.client = l.client /\ g.requests = Tail(l.requests) /\ g.outcome = l.outcome
      /\ token = "own" => g.answer = v
      /\ token # "own" => g.answer = l.answer
  BY <1>1, <1>3 DEF Link
<1> HIDE DEF l, g, token, accepts
<1>5. l.outcome = "none"
  BY <1>1 DEF WireOK, Accepted
<1>6. /\ WireOK(g) /\ l.answer = "none" /\ l.client # "accepted"
      /\ token = "own" => g.requests = <<>> /\ l.client = "requested"
  BY <1>1, <1>4, <1>5, HandledOK DEF token
<1>7. /\ link' \in [ActionName -> Link] /\ link'["turn"] = g /\ link'["change"] = link["change"]
  BY <1>2, <1>4 DEF Inv, ServerInv, ActionName
<1>8. TreeInv'
  BY <1>4, <1>7, TreeSame DEF Inv, l
<1>9. Latched'
  BY <1>1 DEF Inv, WorkIsLatched, latchVars, Latched, l
<1>10. goal # "own"
  BY <1>6 DEF Inv, ServerInv, Accepted, l
<1>11. CASE accepts
  <2>1. /\ busy' = TRUE /\ goal' = IF token = "own" THEN "own" ELSE "stale"
        /\ phase' = "plan" /\ canceling' = FALSE /\ cancel' = (token = "doomed")
        /\ UNCHANGED <<costmap, path, alive, lane>> /\ alive
    BY <1>11 DEF TurnHandleGoal, accepts, token, l
  <2>2. ~ path
    BY <1>11, <2>1 DEF Inv, ServerInv, accepts
  <2>3. token = "own" => Accepted(g) /\ g.outcome = "none"
    BY <1>4, <1>5, <1>6, <1>11 DEF Accepted
  <2>4. ServerInv'
    BY <1>4, <1>5, <1>6, <1>7, <2>1, <2>2, <2>3 DEF Inv, ServerInv
  <2> QED BY <1>8, <1>9, <2>4 DEF Inv, WorkIsLatched
<1>12. CASE ~ accepts
  <2>1. UNCHANGED <<busy, goal, phase, canceling, cancel, costmap, path, alive, lane>>
    BY <1>12 DEF TurnHandleGoal, accepts
  <2>2. ServerInv'
    BY <1>4, <1>5, <1>6, <1>7, <1>10, <2>1 DEF Inv, ServerInv
  <2> QED BY <1>8, <1>9, <2>2 DEF Inv, WorkIsLatched
<1> QED BY <1>11, <1>12

\* LaneChangeServer: the goal callback.
LEMMA ChangeHandleGoalStep ==
    ASSUME Inv, ChangeHandleGoal, UNCHANGED <<latchVars, treeVars>>
    PROVE  Inv'
<1> DEFINE l == link["change"]
           own == Head(l.requests) = "own"
           g == [l EXCEPT !.requests = Tail(@), !.answer = IF own THEN "accept" ELSE @,
                          !.outcome = IF own THEN "success" ELSE @]
<1>1. l \in Link /\ WireOK(l) /\ l.requests # <<>> /\ l.requests \in Seq(Token)
  BY DEF Inv, ServerInv, ChangeHandleGoal, ActionName, WireOK, Link
<1>2. link' = [link EXCEPT !["change"] = g]
  BY DEF ChangeHandleGoal
<1>3. Tail(l.requests) \in Seq(Token)
  BY <1>1, HeadTailProperties
<1>4. /\ g \in Link /\ g.client = l.client /\ g.requests = Tail(l.requests)
      /\ own => g.answer = "accept" /\ g.outcome = "success"
      /\ ~ own => g.answer = l.answer /\ g.outcome = l.outcome
  BY <1>1, <1>3 DEF Link
<1> HIDE DEF l, g
<1>5. WireOK(g)
  BY <1>1, <1>4, HandledOK
<1>6. link' \in [ActionName -> Link] /\ link'["change"] = g /\ link'["turn"] = link["turn"]
  BY <1>2, <1>4 DEF Inv, ServerInv, ActionName
<1>7. TreeInv'
  BY <1>4, <1>6, TreeSame DEF Inv, l
<1>8. /\ UNCHANGED <<costmap, busy, goal, phase, canceling, cancel, path, alive>>
      /\ lane' \in {"left", "right"}
  BY DEF ChangeHandleGoal, Flip
<1>9. ServerInv'
  BY <1>5, <1>6, <1>8 DEF Inv, ServerInv
<1>10. WorkIsLatched'
  BY <1>6, <1>8 DEF Inv, WorkIsLatched, Latched, latchVars
<1> QED BY <1>7, <1>9, <1>10 DEF Inv

\* The result of the running goal reaches the client that waits for it.
LEMMA FinishStep ==
    ASSUME Inv, phase \in {"plan", "monitor"}, UNCHANGED <<latchVars, treeVars>>,
           NEW r \in {"success", "failure"}, Finish(r),
           path' \in BOOLEAN, path' => path /\ ~ alive', r = "success" => ~ path',
           busy' \in BOOLEAN, alive' \in BOOLEAN, alive' => busy',
           UNCHANGED <<costmap, lane>>
    PROVE  Inv'
<1> DEFINE l == link["turn"]
           g == IF goal = "own" THEN [l EXCEPT !.outcome = r] ELSE l
<1>1. l \in Link /\ WireOK(l) /\ link \in [ActionName -> Link]
  BY DEF Inv, ServerInv, ActionName
<1>2. /\ g \in Link /\ g.client = l.client /\ g.requests = l.requests /\ g.answer = l.answer
      /\ goal = "own" => g.outcome = r
      /\ goal # "own" => g.outcome = l.outcome
  BY <1>1 DEF Link
<1>3. link'["turn"] = g /\ link'["change"] = link["change"] /\ link' \in [ActionName -> Link]
  BY <1>1, <1>2 DEF Finish, ActionName
<1> HIDE DEF g
<1>4. goal # "none" /\ l.outcome = "none"
  BY DEF Inv, ServerInv
<1>5. goal = "own" => Accepted(l)
  BY DEF Inv, ServerInv
<1> HIDE DEF l
<1>6. WireOK(g)
  BY <1>1, <1>2, <1>4, <1>5 DEF WireOK, Accepted
<1>7. TreeInv'
  BY <1>2, <1>3, TreeSame DEF Inv, l
<1>8. goal' = "none" /\ phase' = "return" /\ cancel' = FALSE /\ canceling' = FALSE
  BY DEF Finish
<1>9. link'["turn"].outcome = "success" => ~ path'
  BY <1>2, <1>3, <1>4
<1>10. ServerInv'
  BY <1>3, <1>6, <1>8, <1>9 DEF Inv, ServerInv
<1>11. WorkIsLatched'
  BY <1>2, <1>3, <1>8 DEF Inv, WorkIsLatched, Latched, latchVars, l
<1> QED BY <1>7, <1>10, <1>11 DEF Inv

\* Every step of the servers keeps the invariant.
LEMMA ServersStep == ASSUME Inv, Servers PROVE Inv'
<1>0. UNCHANGED <<latchVars, treeVars>> /\ ServersNext
  BY DEF Servers
<1>1. ASSUME UNCHANGED link, ServerInv', UNCHANGED goal, path' => path \/ goal # "none"
      PROVE  Inv'
  <2>1. TreeInv'
    BY <1>0, <1>1, TreeSame DEF Inv
  <2> QED BY <1>0, <1>1, <2>1 DEF Inv, WorkIsLatched, Latched, latchVars
<1>2. CASE CostmapArrives
  BY <1>1, <1>2 DEF CostmapArrives, Inv, ServerInv
<1>3. CASE TurnHandleCancel
  BY <1>1, <1>3 DEF TurnHandleCancel, Inv, ServerInv
<1>4. CASE PlanSucceeds
  <2>1. goal # "none"
    BY <1>4 DEF PlanSucceeds, Inv, ServerInv
  <2> QED BY <1>1, <1>4, <2>1 DEF PlanSucceeds, Inv, ServerInv
<1>5. CASE ExecuteReturns
  BY <1>1, <1>5 DEF ExecuteReturns, Inv, ServerInv
<1>6. CASE IdleShutsDown
  BY <1>1, <1>6 DEF IdleShutsDown, Inv, ServerInv
<1>7. CASE PlanFails \/ MonitorCancels \/ MonitorAborts \/ MonitorSucceeds
  <2>1. /\ phase \in {"plan", "monitor"} /\ path' = FALSE /\ alive
        /\ Finish("failure") \/ Finish("success")
        /\ UNCHANGED <<costmap, busy, alive, lane>>
    BY <1>7 DEF PlanFails, MonitorCancels, MonitorAborts, MonitorSucceeds
  <2>2. busy
    BY <2>1 DEF Inv, ServerInv
  <2>3. busy' \in BOOLEAN /\ alive' \in BOOLEAN /\ busy'
    BY <2>1, <2>2 DEF Inv, ServerInv
  <2> QED BY <1>0, <2>1, <2>3, FinishStep
<1>8. CASE MonitorShutsDown
  BY <1>0, <1>8, FinishStep DEF MonitorShutsDown, Inv, ServerInv
<1> QED BY <1>0, <1>2, <1>3, <1>4, <1>5, <1>6, <1>7, <1>8, TurnHandleGoalStep, ChangeHandleGoalStep
        DEF ServersNext, Monitoring

-----------------------------------------------------------------------------
(* Ticks *)

\* A tick leaves the servers alone but for the requests it adds and the goal it drops.
LEMMA ServerSide ==
    ASSUME ServerInv, UNCHANGED serverOwn,
           link' \in [ActionName -> Link], WireOK(link'["turn"]), WireOK(link'["change"]),
           cancel' \in BOOLEAN, goal' = goal \/ (goal = "own" /\ goal' = "stale"),
           goal' = "own" => Accepted(link'["turn"]),
           link'["turn"].outcome = "none"
    PROVE  ServerInv'
<1>1. goal' \in {"none", "own", "stale"} /\ (goal' = "none" <=> goal = "none")
  BY DEF ServerInv
<1> QED BY <1>1 DEF ServerInv, serverOwn

\* DisableLaneFollowing and StopRobot.
LEMMA StopStep == ASSUME Inv, TickStop PROVE Inv'
<1>1. PICK doomed \in BOOLEAN : link' = [a \in ActionName |-> Halted(link[a], doomed)]
  BY DEF TickStop
<1>2. link'["turn"] = Halted(link["turn"], doomed) /\ link'["change"] = Halted(link["change"], doomed)
  BY <1>1 DEF ActionName
<1>3. WireOK(link["turn"]) /\ WireOK(link["change"])
  BY DEF Inv, ServerInv
<1>4. /\ WireOK(link'["turn"]) /\ link'["turn"].client = "idle" /\ link'["turn"].outcome = "none"
      /\ link'["turn"].requests # <<>> => link["turn"].requests # <<>>
  BY <1>2, <1>3, HaltedOK
<1>5. WireOK(link'["change"]) /\ link'["change"].client = "idle"
  BY <1>2, <1>3, HaltedOK
<1>6. link' \in [ActionName -> Link]
  BY <1>1, <1>2, <1>4, <1>5 DEF ActionName, WireOK
<1>7. UNCHANGED serverOwn /\ goal' # "own" /\ (goal' = goal \/ (goal = "own" /\ goal' = "stale"))
  BY DEF TickStop, DropTurn
<1>8. cancel' \in BOOLEAN
  BY DEF TickStop, Inv, ServerInv
<1>9. ServerInv'
  BY <1>4, <1>5, <1>6, <1>7, <1>8, ServerSide DEF Inv
<1>10. TreeInv'
  BY <1>4, <1>5 DEF TickStop, Inv, TreeInv, Latched, Repeats
<1>11. WorkIsLatched'
  BY <1>4, <1>7 DEF TickStop, Inv, WorkIsLatched, Latched, serverOwn
<1> QED BY <1>9, <1>10, <1>11 DEF Inv

\* The branch of the intersection has run for the decision that is latched now: it
\* has sent the goal, or it has not and starts over.
LEMMA BranchStep ==
    ASSUME Inv, active' \in IntersectionDecision, ~ Repeats(active', done),
           needs_stop' = active'.needs_stop, needs_stop' \in BOOLEAN,
           running' = "intersection", gate' = FALSE, lockout' \in [ActionName -> BOOLEAN],
           link["turn"].client = "idle",
           NEW c, WireOK(c), c.client = "idle",
           \/ /\ node' = "stop" /\ sent' = Nothing
              /\ link' = [link EXCEPT !["change"] = c]
           \/ /\ node' = "turn" /\ sent' = active' /\ ~ active'.needs_stop /\ turns > 0
              /\ Len(link["turn"].requests) < MaxInFlight
              /\ link' = [link EXCEPT !["change"] = c, !["turn"] = WithGoal(@)],
           UNCHANGED <<obstacle, intersection, done, turns, marked, goal, cancel, serverOwn>>
    PROVE  Inv'
<1>1. link \in [ActionName -> Link] /\ WireOK(link["turn"]) /\ c \in Link
  BY DEF Inv, ServerInv, WireOK
<1>2. Latched' /\ goal # "own" /\ link["turn"].outcome = "none"
  BY LatchAssumption DEF Latched, Inv, ServerInv, Accepted, WireOK
<1>3. WorkIsLatched'
  BY <1>2 DEF WorkIsLatched
<1>4. CASE node' = "stop" /\ sent' = Nothing /\ link' = [link EXCEPT !["change"] = c]
  <2>1. link' \in [ActionName -> Link] /\ link'["turn"] = link["turn"] /\ link'["change"] = c
    BY <1>1, <1>4 DEF ActionName
  <2>2. cancel' \in BOOLEAN /\ goal' = goal /\ UNCHANGED serverOwn
    BY DEF Inv, ServerInv
  <2>3. ServerInv'
    BY <1>1, <1>2, <2>1, <2>2, ServerSide DEF Inv
  <2>4. TreeInv'
    BY <1>2, <1>4, <2>1 DEF Inv, TreeInv, Latched, Repeats
  <2> QED BY <1>3, <2>3, <2>4 DEF Inv
<1>5. CASE /\ node' = "turn" /\ sent' = active' /\ ~ active'.needs_stop /\ turns > 0
           /\ Len(link["turn"].requests) < MaxInFlight
           /\ link' = [link EXCEPT !["change"] = c, !["turn"] = WithGoal(@)]
  <2> DEFINE w == WithGoal(link["turn"])
  <2>1. WireOK(w) /\ w.client = "requested" /\ w.outcome = "none"
    BY <1>1, <1>5, WithGoalOK
  <2>2. w \in Link
    BY <2>1 DEF WireOK
  <2> HIDE DEF w
  <2>3. link' = [link EXCEPT !["change"] = c, !["turn"] = w]
    BY <1>1, <1>5 DEF w, ActionName
  <2>4. link' \in [ActionName -> Link] /\ link'["turn"] = w /\ link'["change"] = c
    BY <1>1, <2>2, <2>3 DEF ActionName
  <2>5. cancel' \in BOOLEAN /\ goal' = goal /\ UNCHANGED serverOwn
    BY DEF Inv, ServerInv
  <2>6. ServerInv'
    BY <1>1, <1>2, <2>1, <2>4, <2>5, ServerSide DEF Inv
  <2>7. TreeInv'
    BY <1>2, <1>5, <2>1, <2>4 DEF Inv, TreeInv, Latched, Repeats
  <2> QED BY <1>3, <2>6, <2>7 DEF Inv
<1> QED BY <1>4, <1>5

\* The link of LaneChange after the branch of the intersection has run.
LEMMA ChangeLinkOK ==
    ASSUME Inv, NEW entered \in BOOLEAN, entered \/ link["change"].client = "idle",
           NEW c \in ChangeLinkAfter(entered)
    PROVE  WireOK(c) /\ c.client = "idle"
<1>1. WireOK(link["change"])
  BY DEF Inv, ServerInv
<1>2. CASE entered
  <2>1. PICK doomed \in BOOLEAN : c = Halted(link["change"], doomed)
    BY <1>2 DEF ChangeLinkAfter
  <2> QED BY <1>1, <2>1, HaltedOK
<1>3. CASE ~ entered
  BY <1>1, <1>3 DEF ChangeLinkAfter
<1> QED BY <1>2, <1>3

\* The stop and then the turn, for the decision that was latched, or is to be.
LEMMA StopThenTurnStep ==
    ASSUME Inv, NEW STATE d, d \in IntersectionDecision, ~ Repeats(d, done),
           NEW STATE stop, stop = d.needs_stop, NEW entered \in BOOLEAN,
           entered \/ link["change"].client = "idle", link["turn"].client = "idle",
           StopThenTurn(d, stop, entered),
           UNCHANGED <<obstacle, intersection, done, turns, marked, goal, cancel, serverOwn>>
    PROVE  Inv'
<1>1. /\ d.needs_stop \in BOOLEAN /\ d # Nothing
      /\ [d EXCEPT !.needs_stop = FALSE] \in IntersectionDecision
      /\ [d EXCEPT !.needs_stop = FALSE].x = d.x
      /\ [d EXCEPT !.needs_stop = FALSE].needs_stop = FALSE
  BY LatchAssumption
<1>2. lockout \in [ActionName -> BOOLEAN]
  BY DEF Inv, TreeInv
<1>3. CASE stop /\ Stopping(d, entered)
  <2>1. PICK c \in ChangeLinkAfter(entered) : link' = [link EXCEPT !["change"] = c]
    BY <1>3 DEF Stopping
  <2>2. WireOK(c) /\ c.client = "idle"
    BY <2>1, ChangeLinkOK
  <2>3. /\ active' = d /\ needs_stop' = TRUE /\ sent' = Nothing /\ lockout' = lockout
        /\ running' = "intersection" /\ gate' = FALSE /\ node' = "stop"
    BY <1>3 DEF Stopping, RetryOnNextTick
  <2> QED BY <1>1, <1>2, <1>3, <2>1, <2>2, <2>3, BranchStep
<1>4. CASE /\ active' = [d EXCEPT !.needs_stop = @ /\ ~ stop]
           /\ needs_stop' = FALSE
           /\ StartTurn(active', entered)
  <2>1. (d.needs_stop /\ ~ stop) = FALSE
    BY <1>1
  <2>2. active' = [d EXCEPT !.needs_stop = FALSE]
    BY <1>4, <2>1
  <2>3. /\ active' \in IntersectionDecision /\ active'.needs_stop = FALSE
        /\ active'.x = d.x /\ active' # Nothing
    BY <1>1, <2>2, LatchAssumption
  <2>4. ~ Repeats(active', done)
    BY <1>1, <2>3 DEF Repeats
  <2>5. PICK c \in ChangeLinkAfter(entered) :
           \/ /\ RetryOnNextTick("FAILURE", "stop") /\ sent' = Nothing
              /\ link' = [link EXCEPT !["change"] = c]
              /\ \/ lockout' = [lockout EXCEPT !["turn"] = @ \/ ~ active'.needs_stop]
                 \/ lockout' = [lockout EXCEPT !["turn"] = TRUE]
           \/ /\ MaySendTurn(active') /\ Len(link["turn"].requests) < MaxInFlight
              /\ RetryOnNextTick("RUNNING", "turn") /\ sent' = active'
              /\ link' = [link EXCEPT !["change"] = c, !["turn"] = WithGoal(@)]
              /\ lockout' = lockout
    BY <1>4 DEF StartTurn
  <2>6. lockout' \in [ActionName -> BOOLEAN]
    BY <1>2, <2>5 DEF ActionName
  <2>7. WireOK(c) /\ c.client = "idle"
    BY <2>5, ChangeLinkOK
  <2>8. /\ running' = "intersection" /\ gate' = FALSE
        /\ \/ /\ node' = "stop" /\ sent' = Nothing
              /\ link' = [link EXCEPT !["change"] = c]
           \/ /\ node' = "turn" /\ sent' = active' /\ turns > 0
              /\ Len(link["turn"].requests) < MaxInFlight
              /\ link' = [link EXCEPT !["change"] = c, !["turn"] = WithGoal(@)]
    BY <2>5 DEF RetryOnNextTick, MaySendTurn
  <2> QED BY <1>4, <2>3, <2>4, <2>6, <2>7, <2>8, BranchStep
<1> QED BY <1>3, <1>4 DEF StopThenTurn

\* BeginIntersection.
LEMMA EnterStep == ASSUME Inv, TickEnter PROVE Inv'
<1>1. /\ Begun \in IntersectionDecision /\ ~ Repeats(Begun, done)
      /\ link["turn"].client = "idle"
  BY DEF TickEnter, Enters, Begun, Latched, Inv, TreeInv
<1> QED BY <1>1, StopThenTurnStep DEF TickEnter

\* The latched maneuver is tried again.
LEMMA ResumeStep == ASSUME Inv, TickResume PROVE Inv'
<1>1. /\ active \in IntersectionDecision /\ ~ Repeats(active, done)
      /\ link["turn"].client = "idle" /\ link["change"].client = "idle"
      /\ needs_stop = active.needs_stop
  BY DEF TickResume, Latched, Inv, TreeInv
<1> QED BY <1>1, StopThenTurnStep DEF TickResume

\* Intersection waits for its goal, fails or succeeds.
LEMMA TurnStep == ASSUME Inv, TickTurnWaits \/ TickTurnFails \/ TickTurnSucceeds PROVE Inv'
<1> DEFINE l == link["turn"]
<1>1. link \in [ActionName -> Link] /\ WireOK(l) /\ WireOK(link["change"]) /\ cancel \in BOOLEAN
  BY DEF Inv, ServerInv
<1>2. /\ running = "intersection" /\ node = "turn" /\ Latched /\ link["change"].client = "idle"
      /\ sent = active /\ turns > 0 /\ l.client # "idle" /\ UNCHANGED serverOwn /\ cancel' = cancel
  BY DEF TickTurnWaits, TickTurnFails, TickTurnSucceeds, Inv, TreeInv
<1>3. CASE TickTurnWaits
  <2> DEFINE w == Waiting(l)
  <2>1. /\ WireOK(w) /\ w.client # "idle" /\ w.outcome = "none"
        /\ Accepted(l) => Accepted(w)
    BY <1>1, <1>3, WaitingOK DEF TickTurnWaits
  <2>2. w \in Link /\ link' = [link EXCEPT !["turn"] = w]
    BY <1>3, <2>1 DEF TickTurnWaits, WireOK
  <2> HIDE DEF w, l
  <2>3. link' \in [ActionName -> Link] /\ link'["turn"] = w /\ link'["change"] = link["change"]
    BY <1>1, <2>2 DEF ActionName
  <2>4. goal' = goal /\ (goal = "own" => Accepted(w))
    BY <1>3, <2>1 DEF TickTurnWaits, Inv, ServerInv, l
  <2>5. ServerInv'
    BY <1>1, <1>2, <2>1, <2>3, <2>4, ServerSide DEF Inv
  <2>6. TreeInv'
    BY <1>2, <1>3, <2>1, <2>3
    DEF TickTurnWaits, RetryOnNextTick, Inv, TreeInv, Latched, Repeats, latchVars
  <2>7. WorkIsLatched'
    BY <1>2, <1>3 DEF TickTurnWaits, WorkIsLatched, Latched, latchVars
  <2> QED BY <2>5, <2>6, <2>7 DEF Inv
<1>4. CASE TickTurnFails \/ TickTurnSucceeds
  <2> DEFINE g == GivenUp(l, FALSE)
  <2>1. /\ WireOK(g) /\ g.client = "idle" /\ g.outcome = "none"
        /\ l.requests = <<>> => g.requests = <<>>
    BY <1>1, GivenUpOK
  <2>2. g \in Link /\ link' = [link EXCEPT !["turn"] = g]
    BY <1>4, <2>1 DEF TickTurnFails, TickTurnSucceeds, WireOK
  <2> HIDE DEF g, l
  <2>3. link' \in [ActionName -> Link] /\ link'["turn"] = g /\ link'["change"] = link["change"]
    BY <1>1, <2>2 DEF ActionName
  <2>4. TickTurnSucceeds => goal = "none" /\ ~ path /\ l.requests = <<>>
    BY <1>1 DEF TickTurnSucceeds, Succeeds, Inv, ServerInv, Accepted, WireOK, l
  <2>5. goal' # "own" /\ (goal' = goal \/ (goal = "own" /\ goal' = "stale"))
    BY <1>4, <2>4 DEF TickTurnFails, TickTurnSucceeds, DropTurn
  <2>6. ServerInv'
    BY <1>1, <1>2, <2>1, <2>3, <2>5, ServerSide DEF Inv
  <2>7. CASE TickTurnFails
    <3>1. lockout' \in [ActionName -> BOOLEAN]
      BY <2>7 DEF TickTurnFails, Inv, TreeInv, ActionName
    <3>2. TreeInv'
      BY <1>2, <2>1, <2>3, <2>7, <3>1
      DEF TickTurnFails, RetryOnNextTick, Inv, TreeInv, Latched, Repeats
    <3>3. WorkIsLatched'
      BY <1>2, <2>7 DEF TickTurnFails, WorkIsLatched, Latched
    <3> QED BY <2>6, <3>2, <3>3 DEF Inv
  <2>8. CASE TickTurnSucceeds
    <3>1. turns' \in 0 .. InitialTurns
      BY <1>2, <2>8, LatchAssumption DEF TickTurnSucceeds, complete_intersection, Inv, TreeInv
    <3>2. ~ Latched' /\ intersection' = Nothing /\ sent' = Nothing /\ active' = Nothing
      BY <2>8 DEF TickTurnSucceeds, complete_intersection, Latched
    <3>3. TreeInv'
      BY <1>2, <2>1, <2>3, <2>8, <3>1, <3>2
      DEF TickTurnSucceeds, RetryOnNextTick, Inv, TreeInv, Repeats
    <3>4. WorkIsLatched'
      BY <1>2, <2>1, <2>3, <2>4, <2>5, <2>8 DEF WorkIsLatched, serverOwn
    <3> QED BY <2>6, <3>3, <3>4 DEF Inv
  <2> QED BY <1>4, <2>7, <2>8
<1> QED BY <1>3, <1>4

\* A tick of the branch of lane following, whatever LaneChange does in it.
LEMMA LaneBranchStep ==
    ASSUME Inv, NEW lapsed \in BOOLEAN, LaneBranch(lapsed), NEW c, WireOK(c),
           link' = [link EXCEPT !["change"] = c],
           obstacle' \in ObstacleDecision \cup {Nothing}, sent' \in ObstacleDecision \cup
               IntersectionDecision \cup {Nothing},
           sent' # Nothing => c.client # "idle",
           lockout' \in [ActionName -> BOOLEAN], marked' \in {"left", "right"}
    PROVE  Inv'
<1>1. link \in [ActionName -> Link] /\ WireOK(link["turn"]) /\ c \in Link /\ cancel \in BOOLEAN
  BY DEF Inv, ServerInv, WireOK
<1>2. link' \in [ActionName -> Link] /\ link'["change"] = c /\ link'["turn"] = link["turn"]
  BY <1>1 DEF ActionName
<1>3. link["turn"].client = "idle" /\ link["turn"].outcome = "none"
  BY <1>1 DEF LaneBranch, Inv, TreeInv, WireOK
<1>4. UNCHANGED serverOwn /\ cancel' \in BOOLEAN /\ goal' = goal
  BY <1>1 DEF LaneBranch
<1>5. goal # "own"
  BY <1>3 DEF Inv, ServerInv, Accepted
<1>6. ServerInv'
  BY <1>1, <1>2, <1>3, <1>4, <1>5, ServerSide DEF Inv
<1>7. TreeInv'
  BY <1>2, <1>3 DEF LaneBranch, Inv, TreeInv, Latched, Repeats
<1>8. WorkIsLatched'
  BY <1>2, <1>4 DEF LaneBranch, Inv, WorkIsLatched, Latched, serverOwn
<1> QED BY <1>6, <1>7, <1>8 DEF Inv

\* LaneChange is idle, sends, waits, fails or succeeds.
LEMMA LaneStep ==
    ASSUME Inv, NEW lapsed \in BOOLEAN,
           \/ TickLane(lapsed) \/ TickChangeStarts \/ TickChangeWaits(lapsed)
           \/ TickChangeFails(lapsed) \/ TickChangeSucceeds(lapsed)
    PROVE  Inv'
<1> DEFINE l == link["change"]
<1>1. link \in [ActionName -> Link] /\ WireOK(l)
  BY DEF Inv, ServerInv
<1>2. /\ obstacle \in ObstacleDecision \cup {Nothing}
      /\ sent \in ObstacleDecision \cup IntersectionDecision \cup {Nothing}
      /\ lockout \in [ActionName -> BOOLEAN] /\ marked \in {"left", "right"}
  BY DEF Inv, TreeInv
<1>3. running # "intersection" => sent = Nothing \/ l.client # "idle"
  BY DEF Inv, TreeInv
<1>4. CASE TickLane(lapsed)
  <2>1. link' = [link EXCEPT !["change"] = l] /\ LaneBranch(lapsed) /\ sent' = Nothing
    BY <1>1, <1>3, <1>4 DEF TickLane, LaneBranch
  <2> QED BY <1>1, <1>2, <1>4, <2>1, LaneBranchStep DEF TickLane
<1>5. CASE TickChangeStarts
  <2>1. WireOK(WithGoal(l)) /\ WithGoal(l).client # "idle"
    BY <1>1, <1>5, WithGoalOK DEF TickChangeStarts
  <2>2. LaneBranch(FALSE) /\ link' = [link EXCEPT !["change"] = WithGoal(l)]
    BY <1>5 DEF TickChangeStarts
  <2> HIDE DEF l
  <2> QED BY <1>2, <1>5, <2>1, <2>2, LaneBranchStep DEF TickChangeStarts
<1>6. CASE TickChangeWaits(lapsed)
  <2>1. WireOK(Waiting(l)) /\ Waiting(l).client # "idle"
    BY <1>1, <1>6, WaitingOK DEF TickChangeWaits
  <2>2. LaneBranch(lapsed) /\ link' = [link EXCEPT !["change"] = Waiting(l)]
    BY <1>6 DEF TickChangeWaits
  <2> HIDE DEF l
  <2> QED BY <1>2, <1>6, <2>1, <2>2, LaneBranchStep DEF TickChangeWaits
<1>7. CASE TickChangeFails(lapsed) \/ TickChangeSucceeds(lapsed)
  <2>1. WireOK(GivenUp(l, FALSE))
    BY <1>1, GivenUpOK
  <2>2. /\ LaneBranch(lapsed) /\ link' = [link EXCEPT !["change"] = GivenUp(l, FALSE)]
        /\ sent' = Nothing
    BY <1>7 DEF TickChangeFails, TickChangeSucceeds
  <2>3. lockout' \in [ActionName -> BOOLEAN]
    BY <1>2, <1>7 DEF TickChangeFails, TickChangeSucceeds, ActionName
  <2>4. obstacle' \in ObstacleDecision \cup {Nothing} /\ marked' \in {"left", "right"}
    BY <1>2, <1>7 DEF TickChangeFails, TickChangeSucceeds, Flip
  <2> HIDE DEF l
  <2> QED BY <2>1, <2>2, <2>3, <2>4, LaneBranchStep
<1> QED BY <1>4, <1>5, <1>6, <1>7

-----------------------------------------------------------------------------
(* The specification *)

\* At start nothing is latched, sent or on the wire.
LEMMA Initially == Init => Inv
<1> SUFFICES ASSUME Init PROVE Inv OBVIOUS
<1>1. <<>> \in Seq(Token) /\ Len(<<>>) = 0 /\ DOMAIN <<>> = {}
  OBVIOUS
<1>2. \A a \in ActionName :
         /\ link[a] = [client |-> "idle", requests |-> <<>>, answer |-> "none", outcome |-> "none"]
         /\ link[a] \in Link
  BY <1>1 DEF Init, ServersInit, Link
<1>3. link \in [ActionName -> Link]
  BY <1>2 DEF Init, ServersInit
<1>4. WireOK(link["turn"]) /\ WireOK(link["change"])
  BY <1>1, <1>2, ServersAssumption DEF WireOK, ActionName
<1>5. link["turn"].client = "idle" /\ link["change"].client = "idle"
      /\ link["turn"].outcome = "none" /\ link["turn"].requests = <<>>
  BY <1>2 DEF ActionName
<1>6. ServerInv
  BY <1>3, <1>4, <1>5 DEF Init, ServersInit, ServerInv
<1>a. lockout \in [ActionName -> BOOLEAN] /\ needs_stop \in BOOLEAN /\ gate \in BOOLEAN
  BY DEF Init
<1>b. turns \in 0 .. InitialTurns
  BY LatchAssumption DEF Init, LatchInit
<1>c. /\ ~ Latched /\ intersection = Nothing /\ obstacle = Nothing /\ active = Nothing
      /\ sent = Nothing /\ running = "none" /\ node = "stop" /\ marked = "left"
  BY DEF Init, LatchInit, Latched
<1>7. TreeInv
  BY <1>5, <1>a, <1>b, <1>c DEF TreeInv, Repeats
<1>8. WorkIsLatched
  BY <1>5 DEF Init, ServersInit, WorkIsLatched
<1> QED BY <1>6, <1>7, <1>8 DEF Inv

\* Every step keeps the invariant.
LEMMA Inductive == Inv /\ [Next]_vars => Inv'
<1> SUFFICES ASSUME Inv, [Next]_vars PROVE Inv' OBVIOUS
<1>1. CASE Tick
  BY <1>1, StopStep, EnterStep, ResumeStep, TurnStep, LaneStep DEF Tick
<1>2. CASE Servers
  BY <1>2, ServersStep
<1>3. ASSUME NEW a \in ActionName, LockoutElapses(a) PROVE Inv'
  <2>1. lockout' \in [ActionName -> BOOLEAN]
    BY <1>3 DEF LockoutElapses, Inv, TreeInv
  <2>2. TreeInv'
    BY <1>3, <2>1 DEF LockoutElapses, Inv, TreeInv, latchVars, serverVars, Latched, Repeats
  <2>3. ServerInv' /\ WorkIsLatched'
    BY <1>3 DEF LockoutElapses, Inv, ServerInv, WorkIsLatched, latchVars, serverVars, Latched
  <2> QED BY <2>2, <2>3 DEF Inv
<1>4. CASE Perception
  <2>1. ~ Repeats(active', done')
    BY <1>4 DEF Perception, Perceive, Inv, TreeInv, Repeats
  <2>2. TreeInv'
    BY <1>4, <2>1 DEF Perception, Perceive, Inv, TreeInv, serverVars, treeVars, Latched
  <2>3. ServerInv' /\ WorkIsLatched'
    BY <1>4 DEF Perception, Perceive, Inv, ServerInv, WorkIsLatched, serverVars, Latched
  <2> QED BY <2>2, <2>3 DEF Inv
<1>5. CASE UNCHANGED vars
  <2>1. TreeInv'
    BY <1>5, TreeSame DEF vars, serverVars, Inv
  <2>2. ServerInv' /\ WorkIsLatched'
    BY <1>5 DEF vars, Inv, ServerInv, WorkIsLatched, latchVars, serverVars, Latched
  <2> QED BY <2>1, <2>2 DEF Inv
<1> QED BY <1>1, <1>2, <1>3, <1>4, <1>5 DEF Next

\* The invariant holds in every reachable state.
LEMMA Invariant == Spec => []Inv
<1> QED BY Initially, Inductive, PTL DEF Spec

\* The wire holds at most MaxInFlight goals, the turn list never runs below zero, and
\* every other variable keeps its type, whatever the servers and perception do.
THEOREM TypeCorrect == Spec => []TypeOK
<1>1. Inv => TypeOK
  <2> SUFFICES ASSUME Inv PROVE TypeOK OBVIOUS
  <2>1. ServersTypeOK
    BY DEF Inv, ServerInv, WireOK, Link, ServersTypeOK, ActionName
  <2> QED BY <2>1 DEF Inv, TreeInv, TypeOK
<1> QED BY <1>1, Invariant, PTL

\* Lane following is off from the tick that latches an intersection to the tick that
\* completes it: no failure, retry, pedestrian or stale input opens the gate.
THEOREM GateStaysClosed == Spec => []GateClosedInManeuver
<1>1. Inv => GateClosedInManeuver
  BY DEF Inv, TreeInv, GateClosedInManeuver
<1> QED BY <1>1, Invariant, PTL

\* The intersection server plans and monitors, and goals for it travel, only while a
\* maneuver is latched: a success the tree sees is the last thing on the wire.
THEOREM WorkOnlyWhenLatched == Spec => []ManeuverOnlyWhenLatched
<1>1. Inv => ManeuverOnlyWhenLatched
  BY DEF Inv, WorkIsLatched, ServerInv, ManeuverOnlyWhenLatched
<1> QED BY <1>1, Invariant, PTL

\* The tree waits for at most one goal, that of the branch it runs, and a turn it waits
\* for is the latched one, after its stop.
THEOREM OneGoalWaited == Spec => []GoalOfRunningBranch
<1>1. Inv => GoalOfRunningBranch
  BY DEF Inv, TreeInv, GoalOfRunningBranch
<1> QED BY <1>1, Invariant, PTL

\* What a success of the outstanding goal will complete is the latched maneuver, and
\* there is a turn to pop for it.
THEOREM SentIsLatched == Spec => []GoalIsForTheLatch
<1>1. Inv => GoalIsForTheLatch
  BY DEF Inv, TreeInv, GoalIsForTheLatch
<1> QED BY <1>1, Invariant, PTL

\* The line offered and the line latched are not remembered as completed.
THEOREM NotRepeated == Spec => []NoPlaceRepeated
<1>1. Inv => NoPlaceRepeated
  BY DEF Inv, TreeInv, NoPlaceRepeated
<1> QED BY <1>1, Invariant, PTL

\* As long as the server lives, no intersection path stays latched after the maneuver,
\* whichever way it ended.
THEOREM PathIsCleared == Spec => []PathClearedAtEnd
<1>1. Inv => PathClearedAtEnd
  BY DEF Inv, ServerInv, PathClearedAtEnd
<1> QED BY <1>1, Invariant, PTL

-----------------------------------------------------------------------------
(* What a step does to the latch *)

\* BeginIntersection, the stop and the start of the turn leave a latched maneuver as it
\* is, or take its stop away once StopRobot has succeeded.
LEMMA TurnKeepsLatch ==
    ASSUME Inv, Latched, NEW entered, StopThenTurn(active, active.needs_stop, entered)
    PROVE  \/ active' = active
           \/ /\ active.needs_stop /\ StopImplemented
              /\ active' = [active EXCEPT !.needs_stop = FALSE]
<1>1. active \in IntersectionDecision
  BY DEF Inv, TreeInv, Latched
<1>2. /\ active.needs_stop \in BOOLEAN
      /\ ~ active.needs_stop => [active EXCEPT !.needs_stop = FALSE] = active
  BY <1>1, LatchAssumption
<1>3. (active.needs_stop /\ ~ active.needs_stop) = FALSE
  OBVIOUS
<1>4. \/ active' = active
      \/ /\ active.needs_stop => StopImplemented
         /\ active' = [active EXCEPT !.needs_stop = active.needs_stop /\ ~ active.needs_stop]
  BY DEF StopThenTurn, Stopping
<1>5. \/ active' = active
      \/ /\ active.needs_stop => StopImplemented
         /\ active' = [active EXCEPT !.needs_stop = FALSE]
  BY <1>3, <1>4, Zenon
<1> QED BY <1>2, <1>5, Zenon

\* A success that the tree sees is that of the latched maneuver, after its stop.
LEMMA SuccessIsOwn ==
    ASSUME Inv, TickTurnSucceeds
    PROVE  /\ ~ active.needs_stop /\ sent = active
           /\ Accepted(link["turn"]) /\ link["turn"].outcome = "success"
           /\ active' = Nothing /\ done' = done \cup {active.x}
<1>1. Accepted(link["turn"]) /\ link["turn"].outcome = "success"
  BY DEF TickTurnSucceeds, Succeeds
<1>2. sent = active /\ ~ active.needs_stop
  BY DEF TickTurnSucceeds, Inv, TreeInv
<1>3. active' = Nothing /\ done' = done \cup {sent.x}
  BY DEF TickTurnSucceeds, complete_intersection
<1> QED BY <1>1, <1>2, <1>3

\* Every other step leaves the latched maneuver alone.
LEMMA OthersKeepLatch ==
    ASSUME Inv, Latched, Next, ~ TickEnter, ~ TickResume, ~ TickTurnSucceeds
    PROVE  active' = active
<1>1. ASSUME NEW lapsed \in BOOLEAN, LaneBranch(lapsed) PROVE FALSE
  BY <1>1 DEF LaneBranch
<1>2. CASE Tick
  <2>1. ~ TickChangeStarts
    BY <1>1 DEF TickChangeStarts
  <2>2. ASSUME NEW lapsed \in BOOLEAN
        PROVE  /\ ~ TickLane(lapsed) /\ ~ TickChangeWaits(lapsed)
               /\ ~ TickChangeFails(lapsed) /\ ~ TickChangeSucceeds(lapsed)
    BY <1>1 DEF TickLane, TickChangeWaits, TickChangeFails, TickChangeSucceeds
  <2>3. TickStop \/ TickTurnWaits \/ TickTurnFails
    BY <1>2, <2>1, <2>2, Zenon DEF Tick
  <2> QED BY <2>3 DEF TickStop, TickTurnWaits, TickTurnFails, latchVars
<1>3. CASE \E a \in ActionName : LockoutElapses(a)
  BY <1>3 DEF LockoutElapses, latchVars
<1>4. CASE Perception
  BY <1>4 DEF Perception, Perceive
<1>5. CASE Servers
  BY <1>5 DEF Servers, latchVars
<1> QED BY <1>2, <1>3, <1>4, <1>5, Zenon DEF Next

\* All steps together: the maneuver stays, loses its stop, or is completed.
LEMMA LatchStep ==
    ASSUME Inv, Next, Latched
    PROVE  \/ active' = active
           \/ /\ active.needs_stop /\ StopImplemented
              /\ active' = [active EXCEPT !.needs_stop = FALSE]
           \/ /\ ~ active.needs_stop
              /\ sent = active
              /\ Accepted(link["turn"]) /\ link["turn"].outcome = "success"
              /\ active' = Nothing /\ done' = done \cup {active.x}
<1>1. CASE TickEnter
  <2>1. Begun = active /\ StopThenTurn(Begun, Begun.needs_stop, TRUE)
    BY <1>1, Zenon DEF TickEnter, Begun
  <2>2. StopThenTurn(active, active.needs_stop, TRUE)
    BY <2>1, Zenon
  <2> QED BY <2>2, TurnKeepsLatch
<1>2. CASE TickResume
  <2>1. needs_stop = active.needs_stop /\ StopThenTurn(active, needs_stop, FALSE)
    BY <1>2 DEF TickResume, Inv, TreeInv
  <2>2. StopThenTurn(active, active.needs_stop, FALSE)
    BY <2>1, Zenon
  <2> QED BY <2>2, TurnKeepsLatch
<1>3. CASE TickTurnSucceeds
  BY <1>3, SuccessIsOwn
<1>4. CASE ~ TickEnter /\ ~ TickResume /\ ~ TickTurnSucceeds
  BY <1>4, OthersKeepLatch
<1> QED BY <1>1, <1>2, <1>3, <1>4, Zenon

\* A latched maneuver is released by its own success and by nothing else, and its stop is
\* waived by nothing but a StopRobot that has succeeded.
THEOREM ReleasedOnlyBySuccess == Spec => ReleasedBySuccess
<1> DEFINE Step == Latched =>
               \/ active' = active
               \/ /\ active.needs_stop /\ StopImplemented
                  /\ active' = [active EXCEPT !.needs_stop = FALSE]
               \/ /\ ~ active.needs_stop
                  /\ sent = active
                  /\ Accepted(link["turn"]) /\ link["turn"].outcome = "success"
                  /\ active' = Nothing /\ done' = done \cup {active.x}
<1>1. Inv /\ [Next]_vars => [Step]_vars
  BY LatchStep, Zenon
<1> HIDE DEF Step
<1>2. Spec => [][Step]_vars
  BY <1>1, Invariant, PTL DEF Spec
<1> QED BY <1>2, PTL DEF ReleasedBySuccess, Step

\* With StopRobot as it is, a placeholder that always fails, an intersection with a stop
\* sign is never left: once latched, the maneuver stays as it is for good.
THEOREM PlaceholderHoldsForever ==
    ASSUME ~ StopImplemented
    PROVE  Spec => [][Latched /\ active.needs_stop => active' = active]_vars
<1> DEFINE Stays == Latched /\ active.needs_stop => active' = active
<1>1. Inv /\ [Next]_vars => [Stays]_vars
  BY LatchStep, Zenon
<1> HIDE DEF Stays
<1>2. Spec => [][Stays]_vars
  BY <1>1, Invariant, PTL DEF Spec
<1> QED BY <1>2, PTL DEF Stays

=============================================================================

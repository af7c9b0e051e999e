------------------------------- MODULE Decider -------------------------------
(***************************************************************************)
(* class Decider (bt/include/bt/decision.hpp): what the robot should do,   *)
(* from one list of detections.  The object is a record; its methods are   *)
(* operators from the record, the arguments and the clock to a new record. *)
(*                                                                         *)
(* Times are integers.  World positions are one-dimensional.  A detection  *)
(* is `credible' when it passes the filters that look at it alone: valid,  *)
(* score, point count, finite distance and lateral offset.                 *)
(***************************************************************************)
EXTENDS Integers, Sequences

CONSTANT ClassName    \* the class names of detections

\* cls of a default Detection or Decision.
NoClass == ""

ASSUME ClassNameAssumption == NoClass \in ClassName

Slot == {"change", "stop", "intersection"}

\* -1e9: longer ago than every time-to-live.
Never == -1000

\* observed_at of a detection that carries no stamp of its own.
NaN == -1001

NoId == -1

\* struct Detection; the filters look at `credible' for the fields that are left out.
Detection == [cls : ClassName, credible : BOOLEAN, distance : Int, id : Int, x : Int,
              observed_at : Int]

NoDetection == [cls |-> NoClass, credible |-> FALSE, distance |-> 0, id |-> NoId, x |-> 0,
                observed_at |-> NaN]

\* Decision{}: nothing to do.
NoDecision == [action |-> "none", obstacle_id |-> NoId, cls |-> NoClass, x |-> 0,
               needs_stop |-> FALSE]

NewDecider == [hits |-> [i \in Slot |-> 0],
               hold_until |-> [i \in Slot |-> 0],
               last_det |-> [i \in Slot |-> NoDetection],
               handled |-> <<>>,
               stop_sign_time |-> Never]

-----------------------------------------------------------------------------
(* Which detections count *)

\* struct ClassRule
ClassRule == [action : {"none"} \cup Slot, trigger_distance : Int, mark_stop_sign : BOOLEAN]

Rule(cfg, d) == cfg.classes[d.cls]

\* A stop line stays valid right up to the robot.
MinDistance(cfg, d) ==
    IF Rule(cfg, d).action = "intersection" \/ Rule(cfg, d).mark_stop_sign
      THEN 0 ELSE cfg.min_distance

\* The detection passes the filters and is inside its own trigger distance.
Triggers(cfg, d) ==
    /\ d.credible
    /\ d.cls \in DOMAIN cfg.classes
    /\ d.distance >= MinDistance(cfg, d)
    /\ d.distance <= Rule(cfg, d).trigger_distance

MarksStopSign(cfg, d) == Triggers(cfg, d) /\ Rule(cfg, d).mark_stop_sign

\* Handled entry h is about the obstacle of detection d: the same tracker id, or the
\* same class within 1.8 m.
SameObstacle(cfg, h, d) ==
    \/ d.id >= 0 /\ h.id = d.id
    \/ h.cls = d.cls /\ d.x - h.x <= cfg.same_place /\ h.x - d.x <= cfg.same_place

AlreadyHandled(cfg, entries, d) ==
    \E k \in DOMAIN entries : SameObstacle(cfg, entries[k], d)

\* handled() refreshes the first entry that matches.
FirstMatch(cfg, entries, d) ==
    CHOOSE k \in DOMAIN entries :
        /\ SameObstacle(cfg, entries[k], d)
        /\ \A j \in 1 .. k - 1 : ~ SameObstacle(cfg, entries[j], d)

Refreshed(cfg, entries, seen, now) ==
    [k \in DOMAIN entries |->
        IF \E d \in seen : AlreadyHandled(cfg, entries, d) /\ FirstMatch(cfg, entries, d) = k
          THEN [entries[k] EXCEPT !.last_seen = now]
          ELSE entries[k]]

Ttl(cfg, h) == IF h.id >= 0 THEN cfg.handled_ttl ELSE cfg.pseudo_ttl

\* The entries seen within their time-to-live, in their order.
expire(cfg, entries, now) ==
    LET kept[k \in 0 .. Len(entries)] ==
          IF k = 0 THEN <<>>
          ELSE IF now - entries[k].last_seen <= Ttl(cfg, entries[k])
            THEN Append(kept[k - 1], entries[k])
            ELSE kept[k - 1]
    IN  kept[Len(entries)]

-----------------------------------------------------------------------------
(* update() *)

\* Mutant: handled obstacles are candidates too.
Candidates_Handled(cfg, entries, dets, i) ==
    {k \in DOMAIN dets : Triggers(cfg, dets[k]) /\ Rule(cfg, dets[k]).action = i}

\* Positions in the list of the detections that may fill slot i.
Candidates(cfg, entries, dets, i) ==
    {k \in DOMAIN dets :
        /\ Triggers(cfg, dets[k])
        /\ Rule(cfg, dets[k]).action = i
        /\ i # "stop" => ~ AlreadyHandled(cfg, entries, dets[k])}

\* The nearest candidate, the first in the list among equals.
Nearest(dets, positions) ==
    dets[CHOOSE k \in positions : \A j \in positions :
            dets[k].distance < dets[j].distance
            \/ (dets[k].distance = dets[j].distance /\ k <= j)]

\* What handled() is asked about while the list is scanned.
Looked(cfg, dets) ==
    {dets[k] : k \in {j \in DOMAIN dets :
                        /\ Triggers(cfg, dets[j])
                        /\ Rule(cfg, dets[j]).action \in {"change", "intersection"}}}

\* The last marking detection of the list sets the time.
SignTime(cfg, r, dets, now) ==
    LET marks == {k \in DOMAIN dets : MarksStopSign(cfg, dets[k])}
        last == dets[CHOOSE k \in marks : \A j \in marks : j <= k].observed_at
    IN  IF marks = {} THEN r.stop_sign_time
        ELSE IF last = NaN THEN now ELSE last

make(action, d) ==
    [action |-> action, obstacle_id |-> d.id, cls |-> d.cls, x |-> d.x, needs_stop |-> FALSE]

\* The decision update() returns, given the slots that are active.
Verdict(cfg, r, active, now) ==
    IF "stop" \in active THEN make("stop", r.last_det["stop"])
    ELSE IF "intersection" \in active
      THEN [make("intersection", r.last_det["intersection"]) EXCEPT
              !.needs_stop = now - r.stop_sign_time < cfg.stop_sign_ttl]
    ELSE IF "change" \in active THEN make("change", r.last_det["change"])
    ELSE NoDecision

\* hits_ saturates at the number needed: the code only asks whether it is reached.
update(cfg, r, dets, now) ==
    LET kept == expire(cfg, r.handled, now)
        found(i) == Candidates(cfg, kept, dets, i)
        hits == [i \in Slot |->
                   IF found(i) = {} THEN 0
                   ELSE IF r.hits[i] < cfg.confirm[i] THEN r.hits[i] + 1 ELSE r.hits[i]]
        confirmed == {i \in Slot : found(i) # {} /\ hits[i] >= cfg.confirm[i]}
        after == [hits |-> hits,
                  hold_until |-> [i \in Slot |-> IF i \in confirmed THEN now + cfg.hold[i]
                                                 ELSE r.hold_until[i]],
                  last_det |-> [i \in Slot |-> IF i \in confirmed THEN Nearest(dets, found(i))
                                               ELSE r.last_det[i]],
                  handled |-> Refreshed(cfg, kept, Looked(cfg, dets), now),
                  stop_sign_time |-> SignTime(cfg, r, dets, now)]
        active == confirmed \cup {i \in Slot : now < after.hold_until[i]}
    IN  [decider |-> after, decision |-> Verdict(cfg, after, active, now)]

clear_stop_sign(r) == [r EXCEPT !.stop_sign_time = Never]

\* Mutant: the slot of the handled obstacle is still held.
mark_handled_KeepsHold(r, d, now) ==
    IF d.action \notin {"change", "intersection"} THEN r
    ELSE [r EXCEPT
            !.handled = Append(@, [id |-> d.obstacle_id, cls |-> d.cls, x |-> d.x,
                                   last_seen |-> now])]

\* Mutant: the entry is dated from its expiry.
mark_handled_Expiry(r, d, now) ==
    IF d.action \notin {"change", "intersection"} THEN r
    ELSE [r EXCEPT
            !.handled = Append(@, [id |-> d.obstacle_id, cls |-> d.cls, x |-> d.x,
                                   last_seen |-> now + 1]),
            !.hold_until[d.action] = 0,
            !.hits[d.action] = 0]

mark_handled(r, d, now) ==
    IF d.action \notin {"change", "intersection"} THEN r
    ELSE [r EXCEPT
            !.handled = Append(@, [id |-> d.obstacle_id, cls |-> d.cls, x |-> d.x,
                                   last_seen |-> now]),
            !.hold_until[d.action] = 0,
            !.hits[d.action] = 0,
            !.stop_sign_time = IF d.action = "intersection" THEN Never ELSE @]

=============================================================================

----------------------------- MODULE LaneMapper -----------------------------
(***************************************************************************)
(* The rolling occupancy grid of mapping_cpp/src/lane_mapper.cpp, as a     *)
(* record and pure operators: cells in odom are stored modulo the size of  *)
(* the window that travels with the robot.                                 *)
(*                                                                         *)
(* Lengths are integers, Resolution of them to a cell.  A yaw is a number  *)
(* of right angles.  The evidence of a splat is Full at the cell of the    *)
(* point and 1 in the cells around it; weights by range are left out.      *)
(***************************************************************************)
EXTENDS Integers, FiniteSets, FiniteSetsExt

CONSTANTS
    Width, Height,              \* cells in the window
    Resolution,                 \* length of a cell
    Radius,                     \* of a splat, in cells
    RoiMin, RoiMax,             \* trusted band ahead of the robot
    RoiNear, RoiFar,            \* half width of the footprint at its two ends
    LHit, LMiss, LMin, LMax, LOccupied,
    SpeckleRadius, SpeckleSupport

ASSUME MapperAssumption ==
    /\ Width \in Nat \ {0} /\ Height \in Nat \ {0}
    /\ Resolution \in Nat \ {0}
    /\ LMin \in Int /\ LMax \in Int /\ LMin <= 0 /\ 0 <= LMax
    /\ LHit \in Nat /\ LMiss \in Int /\ LOccupied \in Int
    /\ RoiMin \in Int /\ RoiMax \in Int /\ RoiFar \in Int
    /\ SpeckleRadius \in Nat /\ SpeckleSupport \in Nat

Full == 2

Slot == (0 .. Height - 1) \X (0 .. Width - 1)

\* log_odds_ and seen_ of a slot; they are cleared together.
Unseen == [l |-> 0, seen |-> FALSE]
CellValue == [l : LMin .. LMax, seen : BOOLEAN]
Blank == [i \in Slot |-> Unseen]

EmptyGrid == [cells |-> Blank, origin_x |-> 0, origin_y |-> 0, initialised |-> FALSE]

-----------------------------------------------------------------------------
(* Addressing *)

pmod(a, n) == a % n

getIdx(x, y) == <<pmod(y, Height), pmod(x, Width)>>

toGridNumber(v) == v \div Resolution

inWindow(g, x, y) ==
    /\ x \in g.origin_x .. g.origin_x + Width - 1
    /\ y \in g.origin_y .. g.origin_y + Height - 1

Window(g) ==
    (g.origin_x .. g.origin_x + Width - 1) \X (g.origin_y .. g.origin_y + Height - 1)

\* What the map says of a place, as logOdds and isOccupied read it.
At(g, x, y) ==
    IF g.initialised /\ inWindow(g, x, y) THEN g.cells[getIdx(x, y)] ELSE Unseen

-----------------------------------------------------------------------------
(* Moving the window *)

Distance(a, b) == IF a < b THEN b - a ELSE a - b
Lesser(a, b) == IF a < b THEN a ELSE b

\* Mutant: the strip that is cleared begins at the new edge, whichever way it moved.
Cleared_FromNew(old, new, n) == {pmod(new + k, n) : k \in 0 .. Distance(new, old) - 1}

\* The columns clearCol clears, or the rows clearRow clears, when the edge of the window
\* moves from old to new.
Cleared(old, new, n) == {pmod(Lesser(old, new) + k, n) : k \in 0 .. Distance(new, old) - 1}

recenter(g, pose) ==
    LET new_x == toGridNumber(pose.x) - Width \div 2
        new_y == toGridNumber(pose.y) - Height \div 2
    IN  [cells |->
            IF \/ ~ g.initialised
               \/ Distance(new_x, g.origin_x) >= Width
               \/ Distance(new_y, g.origin_y) >= Height
            THEN Blank
            ELSE [i \in Slot |-> IF \/ i[2] \in Cleared(g.origin_x, new_x, Width)
                                    \/ i[1] \in Cleared(g.origin_y, new_y, Height)
                                 THEN Unseen ELSE g.cells[i]],
         origin_x |-> new_x, origin_y |-> new_y, initialised |-> TRUE]

-----------------------------------------------------------------------------
(* Inserting a frame: points in the robot's frame, and whether there are enough of them
   to take the absence of a line for evidence (do_miss) *)

Cos(yaw) == <<1, 0, -1, 0>>[yaw + 1]
Sin(yaw) == <<0, 1, 0, -1>>[yaw + 1]

\* A point of the robot's frame in odom.
Warped(pose, p) ==
    [x |-> pose.x + Cos(pose.yaw) * p.x - Sin(pose.yaw) * p.y,
     y |-> pose.y + Sin(pose.yaw) * p.x + Cos(pose.yaw) * p.y]

\* frame_ev_ of a cell in the window: the strongest splat that reaches it.
Evidence(pts, pose, x, y) ==
    LET reach(p) == Max({Distance(x, toGridNumber(Warped(pose, p).x)),
                         Distance(y, toGridNumber(Warped(pose, p).y))})
    IN  Max({0} \cup {IF reach(p) = 0 THEN Full ELSE 1 : p \in {q \in pts : reach(q) <= Radius}})

Corners(pose) ==
    {Warped(pose, [x |-> x, y |-> y]) : x \in {RoiMin, RoiMax}, y \in {-RoiFar, RoiFar}}

\* The cells the ROI pass loops over.  Its upper end is compared with the size of the
\* window, not with its upper edge.
RoiLoop(g, pose) ==
    LET xs == {toGridNumber(c.x) : c \in Corners(pose)}
        ys == {toGridNumber(c.y) : c \in Corners(pose)}
    IN  (Max({Min(xs), g.origin_x}) .. Min({Max(xs), Width - 1}))
          \X (Max({Min(ys), g.origin_y}) .. Min({Max(ys), Height - 1}))

\* A point of the robot's frame is inside the trapezoid of the footprint.
InTrapezoid(p) ==
    /\ p.x \in RoiMin .. RoiMax
    /\ Distance(p.y, 0) * (RoiMax - RoiMin)
          <= RoiNear * (RoiMax - RoiMin) + (p.x - RoiMin) * (RoiFar - RoiNear)

\* The centre of a cell, relative to the robot.
Centre(pose, x, y) ==
    [x |-> x * Resolution + Resolution \div 2 - pose.x,
     y |-> y * Resolution + Resolution \div 2 - pose.y]

\* The test of the ROI pass, with the rotation as the code has it.
InRoi(pose, x, y) ==
    LET d == Centre(pose, x, y)
    IN  InTrapezoid([x |-> Cos(pose.yaw) * d.x - Sin(pose.yaw) * d.y,
                     y |-> -Sin(pose.yaw) * d.x + Sin(pose.yaw) * d.y])

Clamp(v) == Max({LMin, Min({LMax, v})})

applyLogOdds(v, d) == [l |-> Clamp(v.l + d), seen |-> TRUE]

\* A cell with evidence ev that the ROI pass visits n times.  The first visit consumes
\* the evidence, and further visits (of cells beyond the window that share its slot) add
\* misses; a cell the pass does not visit gets its hit afterwards.
Updated(v, ev, n, do_miss) ==
    LET hit == ev * LHit
        miss == IF do_miss THEN (Full - ev) * LMiss ELSE 0
        again == (n - 1) * Full * LMiss
    IN  IF ev = 0 /\ (n = 0 \/ ~ do_miss) THEN v
        ELSE IF n = 0 THEN applyLogOdds(v, hit)
        ELSE IF n = 1 \/ ~ do_miss THEN applyLogOdds(v, hit + miss)
        ELSE applyLogOdds(applyLogOdds(v, hit + miss), again)

\* The cell of the window that is stored in slot i.
PlaceOf(g, i) ==
    [x |-> g.origin_x + pmod(i[2] - g.origin_x, Width),
     y |-> g.origin_y + pmod(i[1] - g.origin_y, Height)]

insert(g, frame, pose) ==
    LET r == recenter(g, pose)
        visited == {c \in RoiLoop(r, pose) : InRoi(pose, c[1], c[2])}
    IN  [r EXCEPT !.cells = [i \in Slot |->
            LET p == PlaceOf(r, i)
            IN  Updated(r.cells[i], Evidence(frame.pts, pose, p.x, p.y),
                        Cardinality({c \in visited : getIdx(c[1], c[2]) = i}), frame.do_miss)]]

-----------------------------------------------------------------------------
(* The published map *)

\* Mutant: the slots are read in the order they are stored, not unrolled from the origin.
Occupied_NotUnrolled(g, x, y) ==
    LET v == g.cells[getIdx(x, y)]
    IN  v.seen /\ v.l >= LOccupied

Occupied(g, x, y) ==
    LET v == g.cells[getIdx(g.origin_x + x, g.origin_y + y)]
    IN  v.seen /\ v.l >= LOccupied

Around(x, n) == Max({0, x - SpeckleRadius}) .. Min({n - 1, x + SpeckleRadius}) - 1

Supported(g, x, y) ==
    Cardinality({c \in Around(x, Width) \X Around(y, Height) : Occupied(g, c[1], c[2])})
        >= SpeckleSupport

snapshot(g) ==
    [c \in (0 .. Width - 1) \X (0 .. Height - 1) |->
        IF ~ g.cells[getIdx(g.origin_x + c[1], g.origin_y + c[2])].seen THEN -1
        ELSE IF Occupied(g, c[1], c[2]) /\ Supported(g, c[1], c[2]) THEN 100 ELSE 0]

=============================================================================

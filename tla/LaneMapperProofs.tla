-------------------------- MODULE LaneMapperProofs --------------------------
(***************************************************************************)
(* The rolling grid, for every size of the window, every pose and every    *)
(* frame: its cells keep their type, and the slots a move of the window    *)
(* clears are exactly those of the places that enter it.                   *)
(***************************************************************************)
EXTENDS LaneMapper, FiniteSetTheorems, TLAPS

Pose == [x : Int, y : Int, yaw : 0 .. 3]
Point == [x : Int, y : Int]
Frame == [pts : SUBSET Point, do_miss : BOOLEAN]

\* A grid between two calls.
IsGrid(g) ==
    /\ g.cells \in [Slot -> CellValue]
    /\ g.origin_x \in Int /\ g.origin_y \in Int
    /\ g.initialised \in BOOLEAN

-----------------------------------------------------------------------------
(* Types *)

\* Max and Min of two numbers.
LEMMA MaxMinTwo ==
    ASSUME NEW a \in Int, NEW b \in Int
    PROVE  /\ Max({a, b}) \in {a, b} /\ Max({a, b}) >= a /\ Max({a, b}) >= b
           /\ Min({a, b}) \in {a, b} /\ Min({a, b}) <= a /\ Min({a, b}) <= b
           /\ Max({a, b}) \in Int /\ Min({a, b}) \in Int
<1>1. \E x \in {a, b} : \A y \in {a, b} : x >= y
  OBVIOUS
<1>2. \E x \in {a, b} : \A y \in {a, b} : x <= y
  OBVIOUS
<1>3. Max({a, b}) \in {a, b} /\ \A y \in {a, b} : Max({a, b}) >= y
  BY <1>1 DEF Max
<1>4. Min({a, b}) \in {a, b} /\ \A y \in {a, b} : Min({a, b}) <= y
  BY <1>2 DEF Min
<1> QED BY <1>3, <1>4

\* Max and Min of four numbers.
LEMMA MaxMinFour ==
    ASSUME NEW a \in Int, NEW b \in Int, NEW c \in Int, NEW d \in Int
    PROVE  Max({a, b, c, d}) \in Int /\ Min({a, b, c, d}) \in Int
<1> DEFINE S == {a, b, c, d}
<1>1. \E x \in S : \A y \in S : x >= y
  <2>1. \E x \in {a, b, c, d} : x >= a /\ x >= b /\ x >= c /\ x >= d
    OBVIOUS
  <2> QED BY <2>1
<1>2. \E x \in S : \A y \in S : x <= y
  <2>1. \E x \in {a, b, c, d} : x <= a /\ x <= b /\ x <= c /\ x <= d
    OBVIOUS
  <2> QED BY <2>1
<1>3. Max(S) \in S
  BY <1>1 DEF Max
<1>4. Min(S) \in S
  BY <1>2 DEF Min
<1> QED BY <1>3, <1>4

\* applyLogOdds clamps to the bounds.
LEMMA ClampType == ASSUME NEW v \in Int PROVE Clamp(v) \in LMin .. LMax
<1>1. Min({LMax, v}) \in Int /\ Min({LMax, v}) <= LMax
  BY MaxMinTwo, MapperAssumption
<1>2. /\ Max({LMin, Min({LMax, v})}) \in {LMin, Min({LMax, v})}
      /\ Max({LMin, Min({LMax, v})}) >= LMin
  BY <1>1, MaxMinTwo, MapperAssumption
<1> QED BY <1>1, <1>2, MapperAssumption DEF Clamp

\* The evidence of a cell is none, some or full.
LEMMA EvidenceType ==
    ASSUME NEW pts, NEW pose, NEW x, NEW y
    PROVE  Evidence(pts, pose, x, y) \in 0 .. Full
<1> DEFINE reach(p) == Max({Distance(x, toGridNumber(Warped(pose, p).x)),
                            Distance(y, toGridNumber(Warped(pose, p).y))})
           E == {IF reach(p) = 0 THEN Full ELSE 1 : p \in {q \in pts : reach(q) <= Radius}}
           S == {0} \cup E
<1> HIDE DEF reach
<1>1. S \subseteq {0, 1, 2} /\ 0 \in S
  BY DEF Full
<1> HIDE DEF S
<1>2. \E m \in S : \A k \in S : m >= k
  <2>1. CASE 2 \in S
    BY <1>1, <2>1
  <2>2. CASE 2 \notin S /\ 1 \in S
    BY <1>1, <2>2
  <2>3. CASE 2 \notin S /\ 1 \notin S
    BY <1>1, <2>3
  <2> QED BY <2>1, <2>2, <2>3
<1>3. Max(S) \in S
  BY <1>2 DEF Max
<1>4. Evidence(pts, pose, x, y) = Max(S)
  BY DEF Evidence, S, reach
<1>5. Max(S) \in 0 .. 2
  <2>1. \A k \in S : k \in 0 .. 2
    BY <1>1
  <2> QED BY <1>3, <2>1, Zenon
<1> QED BY <1>4, <1>5 DEF Full

\* One cell keeps its type.
LEMMA UpdatedType ==
    ASSUME NEW v \in CellValue, NEW ev \in 0 .. Full, NEW n \in Nat, NEW do_miss \in BOOLEAN
    PROVE  Updated(v, ev, n, do_miss) \in CellValue
<1> DEFINE hit == ev * LHit
           miss == IF do_miss THEN (Full - ev) * LMiss ELSE 0
           again == (n - 1) * Full * LMiss
<1>1. hit \in Int /\ miss \in Int /\ again \in Int
  BY MapperAssumption DEF Full
<1>2. \A u \in CellValue, d \in Int : applyLogOdds(u, d) \in CellValue
  BY ClampType, MapperAssumption DEF applyLogOdds, CellValue
<1> HIDE DEF hit, miss, again
<1>3. hit + miss \in Int
  BY <1>1
<1>4. applyLogOdds(v, hit) \in CellValue /\ applyLogOdds(v, hit + miss) \in CellValue
  BY <1>1, <1>2, <1>3
<1>5. applyLogOdds(applyLogOdds(v, hit + miss), again) \in CellValue
  BY <1>1, <1>2, <1>4
<1> QED BY <1>4, <1>5 DEF Updated, hit, miss, again

\* The cells of a frame's points, and of the corners of its footprint, are integers.
LEMMA CellType ==
    ASSUME NEW pose \in Pose, NEW p \in Point
    PROVE  /\ Warped(pose, p) \in Point
           /\ toGridNumber(Warped(pose, p).x) \in Int
           /\ toGridNumber(Warped(pose, p).y) \in Int
<1>1. Cos(pose.yaw) \in Int /\ Sin(pose.yaw) \in Int
  BY DEF Cos, Sin, Pose
<1>2. Warped(pose, p) \in Point
  BY <1>1 DEF Warped, Point, Pose
<1>3. \A v \in Int : toGridNumber(v) \in Int
  BY MapperAssumption DEF toGridNumber
<1> QED BY <1>2, <1>3 DEF Point

\* The ROI pass is finite.
LEMMA RoiFinite ==
    ASSUME NEW g, g.origin_x \in Int, g.origin_y \in Int, NEW pose \in Pose
    PROVE  /\ IsFiniteSet(RoiLoop(g, pose))
           /\ \A c \in RoiLoop(g, pose) : c[1] \in Int /\ c[2] \in Int /\ c = <<c[1], c[2]>>
<1> DEFINE a == Warped(pose, [x |-> RoiMin, y |-> -RoiFar])
           b == Warped(pose, [x |-> RoiMin, y |-> RoiFar])
           c == Warped(pose, [x |-> RoiMax, y |-> -RoiFar])
           d == Warped(pose, [x |-> RoiMax, y |-> RoiFar])
           xs == {toGridNumber(a.x), toGridNumber(b.x), toGridNumber(c.x), toGridNumber(d.x)}
           ys == {toGridNumber(a.y), toGridNumber(b.y), toGridNumber(c.y), toGridNumber(d.y)}
<1>1. Corners(pose) = {a, b, c, d}
  BY DEF Corners
<1>2. /\ [x |-> RoiMin, y |-> -RoiFar] \in Point /\ [x |-> RoiMin, y |-> RoiFar] \in Point
      /\ [x |-> RoiMax, y |-> -RoiFar] \in Point /\ [x |-> RoiMax, y |-> RoiFar] \in Point
  BY MapperAssumption DEF Point
<1>3. /\ toGridNumber(a.x) \in Int /\ toGridNumber(a.y) \in Int
      /\ toGridNumber(b.x) \in Int /\ toGridNumber(b.y) \in Int
      /\ toGridNumber(c.x) \in Int /\ toGridNumber(c.y) \in Int
      /\ toGridNumber(d.x) \in Int /\ toGridNumber(d.y) \in Int
  BY <1>2, CellType
<1> HIDE DEF a, b, c, d
<1>4. Max(xs) \in Int /\ Min(xs) \in Int /\ Max(ys) \in Int /\ Min(ys) \in Int
  BY <1>3, MaxMinFour
<1>5. xs = {toGridNumber(k.x) : k \in Corners(pose)} /\ ys = {toGridNumber(k.y) : k \in Corners(pose)}
  BY <1>1
<1> HIDE DEF xs, ys
<1> DEFINE x1 == Max({Min(xs), g.origin_x})
           x2 == Min({Max(xs), Width - 1})
           y1 == Max({Min(ys), g.origin_y})
           y2 == Min({Max(ys), Height - 1})
<1>6. x1 \in Int /\ x2 \in Int /\ y1 \in Int /\ y2 \in Int
  <2>1. /\ Width - 1 \in Int /\ Height - 1 \in Int /\ g.origin_x \in Int /\ g.origin_y \in Int
    BY MapperAssumption
  <2> QED BY <1>4, <2>1, MaxMinTwo
<1>7. RoiLoop(g, pose) = (x1 .. x2) \X (y1 .. y2)
  BY <1>5 DEF RoiLoop
<1> HIDE DEF x1, x2, y1, y2
<1>8. IsFiniteSet(x1 .. x2) /\ IsFiniteSet(y1 .. y2)
  BY <1>6, FS_Interval
<1>9. IsFiniteSet((x1 .. x2) \X (y1 .. y2))
  BY <1>8, FS_Product
<1> QED BY <1>6, <1>7, <1>9

\* recenter() gives a grid.
LEMMA RecenterType ==
    ASSUME NEW g, IsGrid(g), NEW pose \in Pose
    PROVE  IsGrid(recenter(g, pose)) /\ recenter(g, pose).initialised
<1>1. Unseen \in CellValue /\ Blank \in [Slot -> CellValue]
  BY MapperAssumption DEF Unseen, CellValue, Blank
<1>2. /\ recenter(g, pose).origin_x = toGridNumber(pose.x) - Width \div 2
      /\ recenter(g, pose).origin_y = toGridNumber(pose.y) - Height \div 2
      /\ recenter(g, pose).initialised = TRUE
  BY DEF recenter
<1>3. toGridNumber(pose.x) - Width \div 2 \in Int /\ toGridNumber(pose.y) - Height \div 2 \in Int
  BY MapperAssumption DEF toGridNumber, Pose
<1>4. recenter(g, pose).cells \in [Slot -> CellValue]
  BY <1>1 DEF recenter, IsGrid
<1> QED BY <1>2, <1>3, <1>4 DEF IsGrid

\* insert() gives a grid.
LEMMA InsertType ==
    ASSUME NEW g, IsGrid(g), NEW pose \in Pose, NEW frame \in Frame
    PROVE  IsGrid(insert(g, frame, pose)) /\ insert(g, frame, pose).initialised
<1> DEFINE r == recenter(g, pose)
           visited == {c \in RoiLoop(r, pose) : InRoi(pose, c[1], c[2])}
           n(i) == Cardinality({c \in visited : getIdx(c[1], c[2]) = i})
           ev(i) == Evidence(frame.pts, pose, PlaceOf(r, i).x, PlaceOf(r, i).y)
<1>1. IsGrid(r) /\ r.initialised
  BY RecenterType
<1>2. insert(g, frame, pose) =
          [r EXCEPT !.cells = [i \in Slot |-> Updated(r.cells[i], ev(i), n(i), frame.do_miss)]]
  BY DEF insert
<1>3. ASSUME NEW i \in Slot PROVE Updated(r.cells[i], ev(i), n(i), frame.do_miss) \in CellValue
  <2>1. n(i) \in Nat
    <3>1. IsFiniteSet(RoiLoop(r, pose))
      BY <1>1, RoiFinite DEF IsGrid
    <3>2. {c \in visited : getIdx(c[1], c[2]) = i} \in SUBSET RoiLoop(r, pose)
      OBVIOUS
    <3>3. IsFiniteSet({c \in visited : getIdx(c[1], c[2]) = i})
      BY <3>1, <3>2, FS_Subset
    <3> QED BY <3>3, FS_CardinalityType
  <2>2. ev(i) \in 0 .. Full
    BY EvidenceType
  <2>3. r.cells[i] \in CellValue /\ frame.do_miss \in BOOLEAN
    BY <1>1 DEF IsGrid, Frame
  <2> HIDE DEF n, ev, r, visited
  <2> QED BY <2>1, <2>2, <2>3, UpdatedType
<1>4. r = [cells |-> r.cells, origin_x |-> r.origin_x, origin_y |-> r.origin_y,
           initialised |-> r.initialised]
  BY DEF recenter
<1> HIDE DEF r, n, ev
<1> QED BY <1>1, <1>2, <1>3, <1>4 DEF IsGrid

-----------------------------------------------------------------------------
(* Addressing *)

\* pmod is a remainder.
LEMMA PmodRange ==
    ASSUME NEW a \in Int, NEW n \in Nat \ {0}
    PROVE  /\ pmod(a, n) \in 0 .. n - 1 /\ pmod(a, n) \in Int /\ a \div n \in Int
           /\ a = n * (a \div n) + pmod(a, n)
BY SMT DEF pmod

\* Two multiples of n less than n apart are the same.
LEMMA MultiplesApart ==
    ASSUME NEW n \in Nat \ {0}, NEW p \in Int, NEW q \in Int, n * p - n * q < n, n * q - n * p < n
    PROVE  p = q
<1>1. n * (p - q) < n /\ n * (q - p) < n
  OBVIOUS
<1>2. CASE p - q >= 1
  <2>1. n * (p - q) >= n
    BY <1>2
  <2> QED BY <1>1, <2>1
<1>3. CASE q - p >= 1
  <2>1. n * (q - p) >= n
    BY <1>3
  <2> QED BY <1>1, <2>1
<1> QED BY <1>2, <1>3

\* Within a window of n cells, a slot is the slot of one cell only.
LEMMA PmodInjective ==
    ASSUME NEW n \in Nat \ {0}, NEW a \in Int, NEW b \in Int,
           a - b < n, b - a < n, pmod(a, n) = pmod(b, n)
    PROVE  a = b
<1>1. /\ a = n * (a \div n) + pmod(a, n) /\ a \div n \in Int
      /\ b = n * (b \div n) + pmod(b, n) /\ b \div n \in Int
      /\ pmod(a, n) \in Int
  BY PmodRange, Zenon
<1> DEFINE p == a \div n
           q == b \div n
<1>2. n * p - n * q < n /\ n * q - n * p < n
  <2>1. n * p \in Int /\ n * q \in Int
    BY <1>1
  <2>2. a - b = n * p - n * q /\ b - a = n * q - n * p
    BY <1>1, <2>1
  <2> QED BY <2>2
<1> HIDE DEF p, q
<1>3. p = q
  BY <1>1, <1>2, MultiplesApart DEF p, q
<1> QED BY <1>1, <1>3 DEF p, q

\* The cell n further on shares the slot.
LEMMA PmodShift ==
    ASSUME NEW n \in Nat \ {0}, NEW a \in Int
    PROVE  pmod(a + n, n) = pmod(a, n)
<1> DEFINE r == pmod(a, n)
           s == pmod(a + n, n)
           p == a \div n
           q == (a + n) \div n
<1>1. /\ a = n * p + r /\ p \in Int /\ r \in 0 .. n - 1
      /\ a + n = n * q + s /\ q \in Int /\ s \in 0 .. n - 1
  <2>1. a + n \in Int
    OBVIOUS
  <2> QED BY <2>1, PmodRange, Zenon
<1> HIDE DEF p, q, r, s
<1>2. n * (p + 1) = n * p + n /\ n * p \in Int /\ n * q \in Int
  BY <1>1
<1>3. n * (p + 1) - n * q < n /\ n * q - n * (p + 1) < n
  BY <1>1, <1>2
<1>4. p + 1 = q
  BY <1>1, <1>3, MultiplesApart
<1> QED BY <1>1, <1>2, <1>4 DEF r, s

\* The slots that a move clears, in one direction, are those of the cells that enter.
LEMMA ClearedEnters ==
    ASSUME NEW n \in Nat \ {0}, NEW old \in Int, NEW new \in Int, Distance(new, old) < n,
           NEW x \in new .. new + n - 1
    PROVE  pmod(x, n) \in Cleared(old, new, n) <=> x \notin old .. old + n - 1
<1> DEFINE low == Lesser(old, new)
           d == Distance(new, old)
<1>1. /\ low \in Int /\ d \in Nat /\ d < n
      /\ \/ new >= old /\ low = old /\ d = new - old
         \/ new < old /\ low = new /\ d = old - new
  BY DEF Lesser, Distance
<1>2. pmod(x, n) \in Cleared(old, new, n)
          <=> \E k \in 0 .. d - 1 : pmod(x, n) = pmod(low + k, n)
  BY DEF Cleared
<1> HIDE DEF low, d
<1>3. ASSUME NEW k \in 0 .. d - 1, pmod(x, n) = pmod(low + k, n), x \in old .. old + n - 1
      PROVE  FALSE
  <2>1. x - (low + k) < n /\ (low + k) - x < n /\ x # low + k
    BY <1>1, <1>3
  <2>2. low + k \in Int /\ x \in Int
    BY <1>1
  <2> QED BY <1>3, <2>1, <2>2, PmodInjective
<1>4. ASSUME x \notin old .. old + n - 1
      PROVE  \E k \in 0 .. d - 1 : pmod(x, n) = pmod(low + k, n)
  <2>1. CASE new >= old
    <3> DEFINE k == x - n - old
    <3>1. k \in 0 .. d - 1 /\ low + k = x - n /\ x - n \in Int
      BY <1>1, <1>4, <2>1
    <3>2. pmod((x - n) + n, n) = pmod(x - n, n) /\ (x - n) + n = x
      BY <3>1, PmodShift
    <3> HIDE DEF k
    <3>3. pmod(x, n) = pmod(low + k, n)
      BY <3>1, <3>2
    <3> QED BY <3>1, <3>3
  <2>2. CASE new < old
    <3> DEFINE k == x - new
    <3>1. k \in 0 .. d - 1 /\ low + k = x
      BY <1>1, <1>4, <2>2
    <3> HIDE DEF k
    <3> QED BY <3>1
  <2> QED BY <2>1, <2>2
<1> QED BY <1>2, <1>3, <1>4

\* The cell of the window that a slot stores.
LEMMA PlaceOfIdx ==
    ASSUME NEW n \in Nat \ {0}, NEW o \in Int, NEW x \in o .. o + n - 1
    PROVE  o + pmod(pmod(x, n) - o, n) = x
<1> DEFINE r == pmod(x, n)
           p == x \div n
           s == pmod(r - o, n)
           q == (r - o) \div n
<1>1. x = n * p + r /\ p \in Int /\ r \in 0 .. n - 1
  <2>1. x \in Int
    OBVIOUS
  <2> QED BY <2>1, PmodRange, Zenon
<1>2. r - o = n * q + s /\ q \in Int /\ s \in 0 .. n - 1
  <2>1. r - o \in Int
    BY <1>1
  <2> QED BY <2>1, PmodRange
<1> HIDE DEF p, q, r, s
<1>3. /\ n * p \in Int /\ n * q \in Int /\ n * (-q) = -(n * q) /\ n * (-q) \in Int
      /\ -q \in Int
  BY <1>1, <1>2
<1>4. x - o - s = n * p - n * (-q)
  BY <1>1, <1>2, <1>3
<1>5. n * p - n * (-q) < n /\ n * (-q) - n * p < n
  BY <1>1, <1>2, <1>3, <1>4
<1>6. p = -q
  BY <1>1, <1>3, <1>5, MultiplesApart
<1> QED BY <1>1, <1>2, <1>3, <1>4, <1>6 DEF r, s

-----------------------------------------------------------------------------
(* The window *)

\* The slot of a cell.
LEMMA IdxInSlot ==
    ASSUME NEW x \in Int, NEW y \in Int
    PROVE  /\ getIdx(x, y) \in Slot
           /\ getIdx(x, y)[1] = pmod(y, Height) /\ getIdx(x, y)[2] = pmod(x, Width)
<1>1. pmod(x, Width) \in 0 .. Width - 1 /\ pmod(y, Height) \in 0 .. Height - 1
  BY PmodRange, MapperAssumption
<1> QED BY <1>1 DEF getIdx, Slot

\* A move of the window keeps what the grid says of the places in both windows, and says
\* nothing of those that enter.
LEMMA RecenterFollows ==
    ASSUME NEW g, IsGrid(g), NEW pose \in Pose,
           NEW c \in Window(recenter(g, pose))
    PROVE  recenter(g, pose).cells[getIdx(c[1], c[2])] = At(g, c[1], c[2])
<1> DEFINE nx == toGridNumber(pose.x) - Width \div 2
           ny == toGridNumber(pose.y) - Height \div 2
           x == c[1]
           y == c[2]
           i == getIdx(x, y)
           far == \/ ~ g.initialised
                  \/ Distance(nx, g.origin_x) >= Width
                  \/ Distance(ny, g.origin_y) >= Height
           gone(j) == \/ j[2] \in Cleared(g.origin_x, nx, Width)
                      \/ j[1] \in Cleared(g.origin_y, ny, Height)
<1>1. /\ recenter(g, pose).origin_x = nx /\ recenter(g, pose).origin_y = ny
      /\ recenter(g, pose).cells =
            IF far THEN Blank ELSE [j \in Slot |-> IF gone(j) THEN Unseen ELSE g.cells[j]]
  BY DEF recenter
<1>2. nx \in Int /\ ny \in Int /\ g.origin_x \in Int /\ g.origin_y \in Int
  BY MapperAssumption DEF toGridNumber, Pose, IsGrid
<1> HIDE DEF nx, ny
<1>3. x \in nx .. nx + Width - 1 /\ y \in ny .. ny + Height - 1 /\ x \in Int /\ y \in Int
  BY <1>1, <1>2, MapperAssumption DEF Window
<1>4. i \in Slot /\ i[1] = pmod(y, Height) /\ i[2] = pmod(x, Width)
  BY <1>3, IdxInSlot
<1>5. recenter(g, pose).cells[i] = IF far \/ gone(i) THEN Unseen ELSE g.cells[i]
  <2> HIDE DEF far, gone, i
  <2> QED BY <1>1, <1>4 DEF Blank
<1>6. CASE far
  <2>1. ~ (g.initialised /\ inWindow(g, x, y))
    <3>1. CASE ~ g.initialised
      BY <3>1
    <3>2. CASE Distance(nx, g.origin_x) >= Width
      BY <1>2, <1>3, <3>2, MapperAssumption DEF Distance, inWindow
    <3>3. CASE Distance(ny, g.origin_y) >= Height
      BY <1>2, <1>3, <3>3, MapperAssumption DEF Distance, inWindow
    <3> QED BY <1>6, <3>1, <3>2, <3>3
  <2> HIDE DEF far, gone
  <2> QED BY <1>5, <1>6, <2>1 DEF At
<1>7. CASE ~ far
  <2>1. Distance(nx, g.origin_x) < Width /\ Distance(ny, g.origin_y) < Height /\ g.initialised
    BY <1>2, <1>7, MapperAssumption DEF Distance
  <2>2. i[2] \in Cleared(g.origin_x, nx, Width) <=> x \notin g.origin_x .. g.origin_x + Width - 1
    BY <1>2, <1>3, <1>4, <2>1, ClearedEnters, MapperAssumption
  <2>3. i[1] \in Cleared(g.origin_y, ny, Height) <=> y \notin g.origin_y .. g.origin_y + Height - 1
    BY <1>2, <1>3, <1>4, <2>1, ClearedEnters, MapperAssumption
  <2>4. gone(i) <=> ~ inWindow(g, x, y)
    BY <2>2, <2>3 DEF inWindow
  <2> HIDE DEF far, gone
  <2> QED BY <1>5, <1>7, <2>1, <2>4 DEF At
<1> QED BY <1>6, <1>7

\* Two cells of the window do not share a slot.
LEMMA IdxInjective ==
    ASSUME NEW g, IsGrid(g), NEW c \in Window(g), NEW d \in Window(g),
           getIdx(c[1], c[2]) = getIdx(d[1], d[2])
    PROVE  c = d
<1>1. /\ c[1] \in Int /\ c[2] \in Int /\ d[1] \in Int /\ d[2] \in Int
      /\ c[1] - d[1] < Width /\ d[1] - c[1] < Width
      /\ c[2] - d[2] < Height /\ d[2] - c[2] < Height
      /\ c = <<c[1], c[2]>> /\ d = <<d[1], d[2]>>
  BY MapperAssumption DEF Window, IsGrid
<1>2. pmod(c[1], Width) = pmod(d[1], Width) /\ pmod(c[2], Height) = pmod(d[2], Height)
  BY <1>1, IdxInSlot
<1>3. c[1] = d[1] /\ c[2] = d[2]
  BY <1>1, <1>2, PmodInjective, MapperAssumption
<1> QED BY <1>1, <1>3

\* The cells the ROI pass visits.
Visited(g, pose) == {d \in RoiLoop(recenter(g, pose), pose) : InRoi(pose, d[1], d[2])}

\* insert() changes what the grid says of a place by the frame's evidence for that place and
\* by the visits of the ROI pass to its slot.
LEMMA InsertAt ==
    ASSUME NEW g, IsGrid(g), NEW pose \in Pose, NEW frame \in Frame,
           NEW c \in Window(insert(g, frame, pose))
    PROVE  /\ c \in Window(recenter(g, pose)) /\ c[1] \in Int /\ c[2] \in Int
           /\ Window(insert(g, frame, pose)) = Window(recenter(g, pose))
           /\ At(insert(g, frame, pose), c[1], c[2]) =
                 Updated(At(g, c[1], c[2]), Evidence(frame.pts, pose, c[1], c[2]),
                         Cardinality({d \in Visited(g, pose) :
                                         getIdx(d[1], d[2]) = getIdx(c[1], c[2])}),
                         frame.do_miss)
<1> DEFINE r == recenter(g, pose)
           h == insert(g, frame, pose)
           n(j) == Cardinality({d \in Visited(g, pose) : getIdx(d[1], d[2]) = j})
           ev(j) == Evidence(frame.pts, pose, PlaceOf(r, j).x, PlaceOf(r, j).y)
           i == getIdx(c[1], c[2])
<1>1. IsGrid(r) /\ r.initialised
  BY RecenterType
<1>2. h = [r EXCEPT !.cells = [j \in Slot |-> Updated(r.cells[j], ev(j), n(j), frame.do_miss)]]
  BY DEF insert, Visited
<1>3. r = [cells |-> r.cells, origin_x |-> r.origin_x, origin_y |-> r.origin_y,
           initialised |-> r.initialised]
  BY DEF recenter
<1>4. /\ h.origin_x = r.origin_x /\ h.origin_y = r.origin_y /\ h.initialised
      /\ h.cells = [j \in Slot |-> Updated(r.cells[j], ev(j), n(j), frame.do_miss)]
  <2> HIDE DEF h, r, ev, n
  <2> QED BY <1>1, <1>2, <1>3
<1> HIDE DEF h
<1>5. Window(h) = Window(r)
  BY <1>4 DEF Window
<1>6. /\ c[1] \in r.origin_x .. r.origin_x + Width - 1 /\ c[1] \in Int
      /\ c[2] \in r.origin_y .. r.origin_y + Height - 1 /\ c[2] \in Int
      /\ c \in Window(r)
  BY <1>1, <1>5, MapperAssumption DEF Window, IsGrid, h
<1> HIDE DEF r
<1>7. i \in Slot /\ i[1] = pmod(c[2], Height) /\ i[2] = pmod(c[1], Width)
  BY <1>6, IdxInSlot
<1>8. At(h, c[1], c[2]) = h.cells[i]
  BY <1>4, <1>6 DEF At, inWindow
<1>9. h.cells[i] = Updated(r.cells[i], ev(i), n(i), frame.do_miss)
  <2> HIDE DEF ev, n, i
  <2> QED BY <1>4, <1>7
<1>10. r.cells[i] = At(g, c[1], c[2])
  BY <1>6, RecenterFollows DEF r
<1>11. ev(i) = Evidence(frame.pts, pose, c[1], c[2])
  <2>1. PlaceOf(r, i).x = c[1] /\ PlaceOf(r, i).y = c[2]
    BY <1>1, <1>6, <1>7, PlaceOfIdx, MapperAssumption DEF PlaceOf, IsGrid
  <2> QED BY <2>1
<1>12. At(h, c[1], c[2]) = Updated(At(g, c[1], c[2]), Evidence(frame.pts, pose, c[1], c[2]), n(i),
                                  frame.do_miss)
  <2> HIDE DEF ev, n, i
  <2> QED BY <1>8, <1>9, <1>10, <1>11
<1> QED BY <1>5, <1>6, <1>12 DEF h, r

\* As long as the ROI pass stays inside the window, it visits the slot of a place once, or
\* not at all.
LEMMA InsertFollows ==
    ASSUME NEW g, IsGrid(g), NEW pose \in Pose, NEW frame \in Frame,
           RoiLoop(recenter(g, pose), pose) \subseteq Window(insert(g, frame, pose)),
           NEW c \in Window(insert(g, frame, pose))
    PROVE  At(insert(g, frame, pose), c[1], c[2]) =
               Updated(At(g, c[1], c[2]), Evidence(frame.pts, pose, c[1], c[2]),
                       IF c \in RoiLoop(recenter(g, pose), pose) /\ InRoi(pose, c[1], c[2])
                       THEN 1 ELSE 0,
                       frame.do_miss)
<1> DEFINE r == recenter(g, pose)
           V == {d \in Visited(g, pose) : getIdx(d[1], d[2]) = getIdx(c[1], c[2])}
<1>1. IsGrid(r)
  BY RecenterType
<1>2. c \in Window(r) /\ Visited(g, pose) \subseteq Window(r)
  BY InsertAt DEF Visited
<1> HIDE DEF r
<1>3. \A d \in V : d = c
  BY <1>1, <1>2, IdxInjective
<1>4. CASE c \in Visited(g, pose)
  <2>1. V = {c}
    BY <1>3, <1>4
  <2>2. Cardinality(V) = 1
    BY <2>1, FS_Singleton
  <2> HIDE DEF V
  <2> QED BY <1>4, <2>2, InsertAt DEF Visited, V
<1>5. CASE c \notin Visited(g, pose)
  <2>1. V = {}
    BY <1>3, <1>5
  <2>2. Cardinality(V) = 0
    BY <2>1, FS_EmptySet
  <2> HIDE DEF V
  <2> QED BY <1>5, <2>2, InsertAt DEF Visited, V
<1> QED BY <1>4, <1>5

-----------------------------------------------------------------------------
(* Occupied places *)

\* The grid says that a place is occupied.
OccupiedAt(g, x, y) == At(g, x, y).seen /\ At(g, x, y).l >= LOccupied

\* A hit never lowers the log odds.
LEMMA ClampAbove == ASSUME NEW v \in LMin .. LMax, NEW d \in Nat PROVE Clamp(v + d) >= v
<1>1. LMin \in Int /\ LMax \in Int /\ v \in Int /\ v + d \in Int /\ v + d >= v
  BY MapperAssumption
<1>2. Min({LMax, v + d}) \in {LMax, v + d}
  BY <1>1, MaxMinTwo
<1>3. Min({LMax, v + d}) \in Int /\ Min({LMax, v + d}) >= v
  BY <1>1, <1>2
<1>4. Max({LMin, Min({LMax, v + d})}) >= Min({LMax, v + d}) /\ Max({LMin, Min({LMax, v + d})}) \in Int
  BY <1>1, <1>3, MaxMinTwo
<1> QED BY <1>1, <1>3, <1>4 DEF Clamp

\* An occupied cell stays occupied unless it is counted as missed.
LEMMA UpdatedKeeps ==
    ASSUME NEW v \in CellValue, v.seen, v.l >= LOccupied, NEW ev \in 0 .. Full, NEW n \in Nat,
           NEW do_miss \in BOOLEAN, do_miss => n = 0
    PROVE  Updated(v, ev, n, do_miss).seen /\ Updated(v, ev, n, do_miss).l >= LOccupied
<1> DEFINE hit == ev * LHit
<1>1. hit \in Nat
  BY MapperAssumption DEF Full
<1>2. v.l \in LMin .. LMax /\ v.l \in Int
  BY MapperAssumption DEF CellValue
<1>3. Clamp(v.l + hit) >= v.l /\ Clamp(v.l + hit) \in Int
  <2> HIDE DEF hit
  <2>1. v.l + hit \in Int
    BY <1>1, <1>2
  <2> QED BY <1>1, <1>2, <2>1, ClampAbove, ClampType, MapperAssumption
<1>4. Clamp(v.l + hit) >= LOccupied
  <2> HIDE DEF hit
  <2> QED BY <1>2, <1>3, MapperAssumption
<1>5. Updated(v, ev, n, do_miss) \in {v, applyLogOdds(v, hit), applyLogOdds(v, hit + 0)}
  BY DEF Updated
<1>6. hit + 0 = hit
  BY <1>1
<1> HIDE DEF hit
<1> QED BY <1>4, <1>5, <1>6 DEF applyLogOdds

\* An occupied place stays occupied as long as it stays in the window, wherever the window
\* moves, unless the ROI pass counts a miss on its slot.
LEMMA InsertKeeps ==
    ASSUME NEW g, IsGrid(g), NEW pose \in Pose, NEW frame \in Frame,
           NEW c \in Window(insert(g, frame, pose)), OccupiedAt(g, c[1], c[2]),
           frame.do_miss =>
             \A v \in Visited(g, pose) : getIdx(v[1], v[2]) # getIdx(c[1], c[2])
    PROVE  OccupiedAt(insert(g, frame, pose), c[1], c[2])
<1> DEFINE V == {d \in Visited(g, pose) : getIdx(d[1], d[2]) = getIdx(c[1], c[2])}
           ev == Evidence(frame.pts, pose, c[1], c[2])
<1>1. IsFiniteSet(V) /\ Cardinality(V) \in Nat
  <2>1. IsGrid(recenter(g, pose))
    BY RecenterType
  <2>2. IsFiniteSet(RoiLoop(recenter(g, pose), pose))
    BY <2>1, RoiFinite DEF IsGrid
  <2>3. V \in SUBSET RoiLoop(recenter(g, pose), pose)
    BY DEF Visited
  <2> HIDE DEF V
  <2> QED BY <2>2, <2>3, FS_Subset, FS_CardinalityType
<1>2. frame.do_miss => Cardinality(V) = 0
  <2>1. frame.do_miss => V = {}
    OBVIOUS
  <2> QED BY <2>1, FS_EmptySet
<1>3. ev \in 0 .. Full /\ frame.do_miss \in BOOLEAN
  BY EvidenceType DEF Frame
<1>4. At(g, c[1], c[2]) \in CellValue
  <2>1. getIdx(c[1], c[2]) \in Slot
    BY InsertAt, IdxInSlot
  <2>2. Unseen \in CellValue
    BY MapperAssumption DEF Unseen, CellValue
  <2> QED BY <2>1, <2>2 DEF At, IsGrid
<1>5. At(insert(g, frame, pose), c[1], c[2]) =
          Updated(At(g, c[1], c[2]), ev, Cardinality(V), frame.do_miss)
  BY InsertAt
<1> HIDE DEF V, ev
<1> QED BY <1>1, <1>2, <1>3, <1>4, <1>5, UpdatedKeeps DEF OccupiedAt

-----------------------------------------------------------------------------
(* The published map *)

\* snapshot() reads the places of the window, unrolled from its origin.
LEMMA OccupiedPlace ==
    ASSUME NEW g, IsGrid(g), g.initialised, NEW x \in 0 .. Width - 1, NEW y \in 0 .. Height - 1
    PROVE  Occupied(g, x, y) <=> OccupiedAt(g, g.origin_x + x, g.origin_y + y)
<1>1. inWindow(g, g.origin_x + x, g.origin_y + y)
  BY MapperAssumption DEF inWindow, IsGrid
<1> QED BY <1>1 DEF Occupied, OccupiedAt, At

\* The range of the speckle window, and that it is not clipped where the square lies inside.
LEMMA AroundRange ==
    ASSUME NEW n \in Nat \ {0}, NEW x \in 0 .. n - 1
    PROVE  /\ \A k \in Around(x, n) : k \in 0 .. n - 1 /\ x - SpeckleRadius <= k /\ k < x + SpeckleRadius
           /\ (x - SpeckleRadius >= 0 /\ x + SpeckleRadius <= n - 1) =>
                 \A k \in Int : x - SpeckleRadius <= k /\ k < x + SpeckleRadius => k \in Around(x, n)
           /\ Around(x, n) \subseteq Int /\ IsFiniteSet(Around(x, n))
<1> DEFINE a == Max({0, x - SpeckleRadius})
           b == Min({n - 1, x + SpeckleRadius})
<1>1. /\ 0 \in Int /\ x \in Int /\ n \in Int /\ SpeckleRadius \in Int
      /\ x - SpeckleRadius \in Int /\ x + SpeckleRadius \in Int /\ n - 1 \in Int
  BY MapperAssumption
<1>2. a \in {0, x - SpeckleRadius} /\ a >= 0 /\ a >= x - SpeckleRadius /\ a \in Int
  BY <1>1, MaxMinTwo
<1>3. b \in {n - 1, x + SpeckleRadius} /\ b <= n - 1 /\ b <= x + SpeckleRadius /\ b \in Int
  BY <1>1, MaxMinTwo
<1>4. Around(x, n) = a .. b - 1
  BY DEF Around
<1> HIDE DEF a, b
<1>5. IsFiniteSet(a .. b - 1)
  <2>1. b - 1 \in Int
    BY <1>3
  <2> QED BY <1>2, <2>1, FS_Interval
<1>6. \A k \in a .. b - 1 : k \in 0 .. n - 1 /\ x - SpeckleRadius <= k /\ k < x + SpeckleRadius
  BY <1>1, <1>2, <1>3
<1>7. ASSUME x - SpeckleRadius >= 0, x + SpeckleRadius <= n - 1, NEW k \in Int,
             x - SpeckleRadius <= k, k < x + SpeckleRadius
      PROVE  k \in a .. b - 1
  BY <1>1, <1>2, <1>3, <1>7
<1> QED BY <1>4, <1>5, <1>6, <1>7

\* A set that a shift takes into another has no more members.
LEMMA ShiftedCount ==
    ASSUME NEW S, NEW T, IsFiniteSet(T), NEW a \in Int, NEW b \in Int,
           \A d \in S : /\ d = <<d[1], d[2]>> /\ d[1] \in Int /\ d[2] \in Int
                        /\ <<d[1] + a, d[2] + b>> \in T
    PROVE  Cardinality(S) <= Cardinality(T) /\ Cardinality(S) \in Nat /\ Cardinality(T) \in Nat
<1> DEFINE f == [d \in S |-> <<d[1] + a, d[2] + b>>]
<1>1. f \in [S -> T]
  OBVIOUS
<1>2. ASSUME NEW d \in S, NEW e \in S, f[d] = f[e] PROVE d = e
  <2> DEFINE p == d[1]
             q == d[2]
             r == e[1]
             t == e[2]
  <2>1. d = <<p, q>> /\ e = <<r, t>> /\ p \in Int /\ q \in Int /\ r \in Int /\ t \in Int
    OBVIOUS
  <2>2. <<p + a, q + b>> = <<r + a, t + b>>
    BY <1>2
  <2> HIDE DEF p, q, r, t, f
  <2>3. p + a = r + a /\ q + b = t + b
    BY <2>2
  <2>4. p = r /\ q = t
    BY <2>1, <2>3
  <2> QED BY <2>1, <2>4, Zenon
<1>3. f \in Injection(S, T)
  <2> HIDE DEF f
  <2> QED BY <1>1, <1>2 DEF Injection, IsInjective
<1>4. IsFiniteSet(S) /\ Cardinality(S) <= Cardinality(T)
  <2> HIDE DEF f
  <2> QED BY <1>3, FS_Injection
<1> QED BY <1>4, FS_CardinalityType

=============================================================================

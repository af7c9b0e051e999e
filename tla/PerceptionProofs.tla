-------------------------- MODULE PerceptionProofs --------------------------
(***************************************************************************)
(* The perception and decision state of bt_executor, for every class       *)
(* table, any number of detections in a list and any number of remembered  *)
(* obstacles: its invariants, and that it implements DecisionLatch.        *)
(***************************************************************************)
EXTENDS IntersectionInput, SequenceTheorems, WellFoundedInduction, TLAPS

-----------------------------------------------------------------------------
(* Natural numbers: the library's principles, about sets instead of predicates *)

Below == {p \in Nat \X Nat : p[1] < p[2]}

\* The order of the natural numbers has no infinite descent.
LEMMA BelowWellFounded == IsWellFoundedOn(Below, Nat)
BY NatLessThanWellFounded DEF OpToRel, Below

\* A set of natural numbers that is not empty has a least element.
LEMMA LeastExists ==
    ASSUME NEW T, T \subseteq Nat, T # {}
    PROVE  \E x \in T : \A y \in T : x <= y
<1>1. PICK x \in T : \A y \in T : <<y, x>> \notin Below
  BY BelowWellFounded, WFMin
<1>2. ASSUME NEW y \in T PROVE x <= y
  <2>1. x \in Nat /\ y \in Nat /\ <<y, x>> \notin Below
    BY <1>1
  <2>2. <<y, x>> \in Nat \X Nat /\ <<y, x>>[1] = y /\ <<y, x>>[2] = x
    BY <2>1
  <2>3. ~ (y < x)
    BY <2>1, <2>2 DEF Below
  <2> QED BY <2>1, <2>3
<1> QED BY <1>2

\* A bounded set of natural numbers that is not empty has a greatest element.
LEMMA GreatestExists ==
    ASSUME NEW n \in Nat, NEW T, T \subseteq 0 .. n, T # {}
    PROVE  \E x \in T : \A y \in T : y <= x
<1> DEFINE U == {k \in Nat : n - k \in T}
<1>1. \A x \in T : x \in Nat /\ n - x \in Nat /\ n - (n - x) = x
  OBVIOUS
<1>2. U \subseteq Nat /\ U # {}
  <2>1. PICK x \in T : TRUE
    OBVIOUS
  <2>2. n - x \in U
    BY <1>1
  <2> QED BY <2>2
<1>3. PICK k \in U : \A j \in U : k <= j
  <2> HIDE DEF U
  <2> QED BY <1>2, LeastExists
<1>4. ASSUME NEW y \in T PROVE y <= n - k
  <2>1. n - y \in U
    BY <1>1
  <2>2. k <= n - y /\ k \in Nat /\ y \in Nat
    BY <1>1, <1>3, <2>1
  <2> QED BY <2>2
<1> QED BY <1>3, <1>4

\* A set that holds 0 and, with a number, the next one holds all natural numbers.
LEMMA SetInduction ==
    ASSUME NEW S, 0 \in S, \A n \in Nat : n \in S => n + 1 \in S
    PROVE  \A n \in Nat : n \in S
<1> DEFINE T == Nat \ S
<1> SUFFICES ASSUME T # {} PROVE FALSE
  OBVIOUS
<1>1. PICK x \in T : \A y \in T : x <= y
  <2>1. T \subseteq Nat
    OBVIOUS
  <2> HIDE DEF T
  <2> QED BY <2>1, LeastExists
<1>2. x \in Nat /\ x # 0 /\ x - 1 \in Nat /\ (x - 1) + 1 = x
  BY <1>1
<1>3. x - 1 \in S
  BY <1>1, <1>2
<1>4. x \in S
  BY <1>2, <1>3
<1> QED BY <1>1, <1>4

-----------------------------------------------------------------------------
(* expire(): erase and remove_if, computed from the front *)

Handled == [id : Int, cls : ClassName, x : Int, last_seen : Int]

\* The entries of e that are left after the first k have been looked at.
IsKept(cfg, e, t, n, g) ==
    g = [k \in 0 .. n |->
           IF k = 0 THEN <<>>
           ELSE IF t - e[k].last_seen <= Ttl(cfg, e[k])
             THEN Append(g[k - 1], e[k])
             ELSE g[k - 1]]

\* The recursion of expire() is well founded.
LEMMA KeptExists ==
    ASSUME NEW cfg, NEW e, NEW t
    PROVE  \A n \in Nat : \E g : IsKept(cfg, e, t, n, g)
<1> DEFINE S == {n \in Nat : \E g : IsKept(cfg, e, t, n, g)}
<1>1. 0 \in S
  <2> DEFINE g == [k \in 0 .. 0 |-> <<>>]
  <2>1. IsKept(cfg, e, t, 0, g)
    BY DEF IsKept
  <2> HIDE DEF g
  <2> QED BY <2>1
<1>2. ASSUME NEW n \in Nat, n \in S PROVE n + 1 \in S
  <2>1. PICK g : IsKept(cfg, e, t, n, g)
    BY <1>2
  <2> DEFINE h == [k \in 0 .. n + 1 |->
                     IF k = 0 THEN <<>>
                     ELSE IF t - e[k].last_seen <= Ttl(cfg, e[k])
                       THEN Append(g[k - 1], e[k])
                       ELSE g[k - 1]]
  <2>2. ASSUME NEW k \in 0 .. n PROVE h[k] = g[k]
    <3>1. k \in 0 .. n + 1
      OBVIOUS
    <3>2. g[k] = IF k = 0 THEN <<>>
                 ELSE IF t - e[k].last_seen <= Ttl(cfg, e[k])
                   THEN Append(g[k - 1], e[k])
                   ELSE g[k - 1]
      BY <2>1, Zenon DEF IsKept
    <3> QED BY <3>1, <3>2, Zenon
  <2>3. \A k \in 0 .. n + 1 : k # 0 => k - 1 \in 0 .. n
    OBVIOUS
  <2>4. IsKept(cfg, e, t, n + 1, h)
    BY <2>2, <2>3 DEF IsKept
  <2> HIDE DEF h
  <2> QED BY <2>4
<1> HIDE DEF S
<1>3. \A n \in Nat : n \in S
  BY <1>1, <1>2, SetInduction
<1> QED BY <1>3 DEF S

Alive(cfg, h, t) == t - h.last_seen <= Ttl(cfg, h)

\* s holds those of the first n entries of e that are alive.
HoldsAlive(cfg, e, t, n, s) ==
    /\ s \in Seq(Handled)
    /\ \A k \in DOMAIN s : \E j \in 1 .. n : s[k] = e[j] /\ Alive(cfg, e[j], t)
    /\ \A j \in 1 .. n : Alive(cfg, e[j], t) => \E k \in DOMAIN s : s[k] = e[j]

\* Looking at one more entry keeps it if it is alive.
LEMMA KeptStep ==
    ASSUME NEW cfg, NEW e \in Seq(Handled), NEW t, NEW n \in Nat, n + 1 \in 1 .. Len(e),
           NEW s, HoldsAlive(cfg, e, t, n, s)
    PROVE  HoldsAlive(cfg, e, t, n + 1,
                      IF Alive(cfg, e[n + 1], t) THEN Append(s, e[n + 1]) ELSE s)
<1>1. s \in Seq(Handled) /\ e[n + 1] \in Handled
  BY DEF HoldsAlive
<1>2. \A j \in 1 .. n + 1 : j \in 1 .. n \/ j = n + 1
  OBVIOUS
<1>3. 1 .. n \subseteq 1 .. n + 1 /\ n + 1 \in 1 .. n + 1
  OBVIOUS
<1>4. CASE ~ Alive(cfg, e[n + 1], t)
  BY <1>1, <1>2, <1>3, <1>4, Zenon DEF HoldsAlive
<1>5. CASE Alive(cfg, e[n + 1], t)
  <2> DEFINE u == Append(s, e[n + 1])
  <2>1. /\ u \in Seq(Handled) /\ Len(u) = Len(s) + 1 /\ Len(s) \in Nat
        /\ DOMAIN u = 1 .. Len(s) + 1 /\ DOMAIN s = 1 .. Len(s)
        /\ \A k \in 1 .. Len(s) : u[k] = s[k]
        /\ u[Len(s) + 1] = e[n + 1]
    BY <1>1, AppendProperties
  <2> HIDE DEF u
  <2>2. \A k \in DOMAIN u : k \in DOMAIN s \/ k = Len(s) + 1
    BY <2>1
  <2>3. DOMAIN s \subseteq DOMAIN u /\ Len(s) + 1 \in DOMAIN u
    BY <2>1
  <2>4. ASSUME NEW k \in DOMAIN u
        PROVE  \E j \in 1 .. n + 1 : u[k] = e[j] /\ Alive(cfg, e[j], t)
    <3>1. CASE k \in DOMAIN s
      <4>1. PICK j \in 1 .. n : s[k] = e[j] /\ Alive(cfg, e[j], t)
        BY <3>1, Zenon DEF HoldsAlive
      <4>2. j \in 1 .. n + 1
        BY <1>3, Zenon
      <4>3. u[k] = s[k]
        BY <2>1, <3>1
      <4> QED BY <4>1, <4>2, <4>3, Zenon
    <3>2. CASE k = Len(s) + 1
      <4>1. u[k] = e[n + 1]
        BY <2>1, <3>2, Zenon
      <4> QED BY <1>3, <1>5, <4>1, Zenon
    <3> QED BY <2>2, <3>1, <3>2, Zenon
  <2>5. ASSUME NEW j \in 1 .. n + 1, Alive(cfg, e[j], t)
        PROVE  \E k \in DOMAIN u : u[k] = e[j]
    <3>1. CASE j = n + 1
      BY <2>1, <2>3, <3>1, Zenon
    <3>2. CASE j \in 1 .. n
      <4>1. PICK k \in DOMAIN s : s[k] = e[j]
        BY <2>5, <3>2, Zenon DEF HoldsAlive
      <4> QED BY <2>1, <2>3, <4>1, Zenon
    <3> QED BY <1>2, <3>1, <3>2, Zenon
  <2> QED BY <1>5, <2>1, <2>4, <2>5, Zenon DEF HoldsAlive, u
<1> QED BY <1>4, <1>5

\* expire() keeps exactly the entries that were seen within their time-to-live.
LEMMA ExpireKeeps ==
    ASSUME NEW cfg, NEW e \in Seq(Handled), NEW t
    PROVE  HoldsAlive(cfg, e, t, Len(e), expire(cfg, e, t))
<1> DEFINE g == CHOOSE f : f = [k \in 0 .. Len(e) |->
                                  IF k = 0 THEN <<>>
                                  ELSE IF t - e[k].last_seen <= Ttl(cfg, e[k])
                                    THEN Append(f[k - 1], e[k])
                                    ELSE f[k - 1]]
           S == {n \in Nat : n <= Len(e) => HoldsAlive(cfg, e, t, n, g[n])}
<1>1. expire(cfg, e, t) = g[Len(e)]
  BY DEF expire
<1>2. Len(e) \in Nat
  OBVIOUS
<1>3. IsKept(cfg, e, t, Len(e), g)
  <2>1. \E f : IsKept(cfg, e, t, Len(e), f)
    BY <1>2, KeptExists
  <2>2. g = CHOOSE f : IsKept(cfg, e, t, Len(e), f)
    BY Zenon DEF IsKept
  <2> HIDE DEF g
  <2> QED BY <2>1, <2>2, Zenon
<1> HIDE DEF g
<1>4. g[0] = <<>>
  BY <1>2, <1>3 DEF IsKept
<1>5. ASSUME NEW n \in Nat, n + 1 <= Len(e)
      PROVE  g[n + 1] = IF Alive(cfg, e[n + 1], t) THEN Append(g[n], e[n + 1]) ELSE g[n]
  <2>1. n + 1 \in 0 .. Len(e) /\ n + 1 # 0 /\ (n + 1) - 1 = n
    BY <1>2, <1>5
  <2> QED BY <1>3, <2>1 DEF IsKept, Alive
<1>6. 0 \in S
  <2>1. <<>> \in Seq(Handled) /\ DOMAIN <<>> = {} /\ 1 .. 0 = {}
    OBVIOUS
  <2>2. HoldsAlive(cfg, e, t, 0, g[0])
    BY <1>4, <2>1 DEF HoldsAlive
  <2> QED BY <2>2
<1>7. ASSUME NEW n \in Nat, n \in S PROVE n + 1 \in S
  <2> SUFFICES ASSUME n + 1 <= Len(e) PROVE HoldsAlive(cfg, e, t, n + 1, g[n + 1])
    OBVIOUS
  <2>1. n <= Len(e) /\ n + 1 \in 1 .. Len(e)
    BY <1>2
  <2>2. HoldsAlive(cfg, e, t, n, g[n])
    BY <1>7, <2>1
  <2> HIDE DEF S
  <2> QED BY <1>5, <2>1, <2>2, KeptStep
<1> HIDE DEF S
<1>8. Len(e) \in S
  BY <1>2, <1>6, <1>7, SetInduction
<1> QED BY <1>1, <1>2, <1>8 DEF S

-----------------------------------------------------------------------------
(* The memory of handled obstacles *)

\* Every entry of f is about the same obstacle as an entry of e.
Covers(e, f) ==
    \A k \in DOMAIN f : \E j \in DOMAIN e :
        f[k].id = e[j].id /\ f[k].cls = e[j].cls /\ f[k].x = e[j].x

\* A memory covered by a covered one is covered.
LEMMA CoversTransitive ==
    ASSUME NEW e, NEW f, NEW g, Covers(e, f), Covers(f, g)
    PROVE  Covers(e, g)
<1> SUFFICES ASSUME NEW k \in DOMAIN g
             PROVE  \E i \in DOMAIN e :
                       g[k].id = e[i].id /\ g[k].cls = e[i].cls /\ g[k].x = e[i].x
  BY Zenon DEF Covers
<1>1. PICK j \in DOMAIN f : g[k].id = f[j].id /\ g[k].cls = f[j].cls /\ g[k].x = f[j].x
  BY Zenon DEF Covers
<1>2. PICK i \in DOMAIN e : f[j].id = e[i].id /\ f[j].cls = e[i].cls /\ f[j].x = e[i].x
  BY Zenon DEF Covers
<1> QED BY <1>1, <1>2, Zenon

\* A memory that is covered remembers no more.
LEMMA CoveredRemembersLess ==
    ASSUME NEW cfg, NEW e, NEW f, Covers(e, f), NEW d, AlreadyHandled(cfg, f, d)
    PROVE  AlreadyHandled(cfg, e, d)
BY Zenon DEF Covers, AlreadyHandled, SameObstacle

\* Whether an obstacle is remembered depends on its id, class and place only.
LEMMA RememberedBy ==
    ASSUME NEW cfg, NEW e, NEW c, NEW d, c.id = d.id, c.cls = d.cls, c.x = d.x
    PROVE  AlreadyHandled(cfg, e, c) <=> AlreadyHandled(cfg, e, d)
BY Zenon DEF AlreadyHandled, SameObstacle

\* expire() only forgets.
LEMMA ExpireCovered ==
    ASSUME NEW cfg, NEW e \in Seq(Handled), NEW t
    PROVE  Covers(e, expire(cfg, e, t)) /\ expire(cfg, e, t) \in Seq(Handled)
<1>1. HoldsAlive(cfg, e, t, Len(e), expire(cfg, e, t)) /\ DOMAIN e = 1 .. Len(e)
  BY ExpireKeeps
<1> QED BY <1>1, Zenon DEF HoldsAlive, Covers

\* expire() passes on a bound on the times.
LEMMA ExpireSeen ==
    ASSUME NEW cfg, NEW e \in Seq(Handled), NEW t, \A k \in DOMAIN e : e[k].last_seen <= t
    PROVE  \A k \in DOMAIN expire(cfg, e, t) : expire(cfg, e, t)[k].last_seen <= t
<1>1. HoldsAlive(cfg, e, t, Len(e), expire(cfg, e, t)) /\ DOMAIN e = 1 .. Len(e)
  BY ExpireKeeps
<1> QED BY <1>1, Zenon DEF HoldsAlive

\* handled() dates entries and changes nothing else about them.
LEMMA RefreshedCovered ==
    ASSUME NEW cfg, NEW e \in Seq(Handled), NEW seen, NEW t \in Int,
           \A k \in DOMAIN e : e[k].last_seen <= t
    PROVE  LET f == Refreshed(cfg, e, seen, t)
           IN  /\ f \in Seq(Handled)
               /\ Covers(e, f)
               /\ \A k \in DOMAIN f : f[k].last_seen <= t
<1> DEFINE f == Refreshed(cfg, e, seen, t)
<1>1. DOMAIN f = DOMAIN e /\ Len(e) \in Nat /\ DOMAIN e = 1 .. Len(e)
  BY DEF Refreshed
<1>2. ASSUME NEW k \in DOMAIN e
      PROVE  /\ f[k] \in Handled /\ f[k].id = e[k].id /\ f[k].cls = e[k].cls
             /\ f[k].x = e[k].x /\ f[k].last_seen <= t
  <2>1. e[k] \in Handled /\ e[k].last_seen <= t
    OBVIOUS
  <2>2. f[k] = [e[k] EXCEPT !.last_seen = t] \/ f[k] = e[k]
    BY Zenon DEF Refreshed
  <2> HIDE DEF f
  <2> QED BY <2>1, <2>2 DEF Handled
<1>3. f \in Seq(Handled)
  <2>1. f = [k \in 1 .. Len(e) |-> f[k]]
    BY <1>1 DEF Refreshed
  <2> HIDE DEF f
  <2> QED BY <1>1, <1>2, <2>1
<1> HIDE DEF f
<1>4. Covers(e, f)
  BY <1>1, <1>2, Zenon DEF Covers
<1> QED BY <1>1, <1>2, <1>3, <1>4 DEF f

-----------------------------------------------------------------------------
(* Detections *)

\* What update() uses of its class table.
IsRules(cfg) ==
    /\ cfg.min_distance \in Nat /\ cfg.same_place \in Nat /\ cfg.stop_sign_ttl \in Nat
    /\ cfg.hold \in [Slot -> Nat] /\ cfg.confirm \in [Slot -> Nat \ {0}]
    /\ \A c \in DOMAIN cfg.classes : c \in ClassName /\ cfg.classes[c] \in ClassRule

\* A detection that triggers is not behind the robot.
LEMMA TriggersAhead ==
    ASSUME NEW cfg, IsRules(cfg), NEW d \in Detection, Triggers(cfg, d)
    PROVE  d.distance \in Nat /\ d.distance >= 0
<1>1. d.distance \in Int /\ d.distance >= MinDistance(cfg, d)
  BY DEF Detection, Triggers
<1>2. MinDistance(cfg, d) \in Nat
  BY DEF MinDistance, IsRules
<1> QED BY <1>1, <1>2

\* The nearest of some candidates is one of them.
LEMMA NearestIsOne ==
    ASSUME NEW dets \in Seq(Detection), NEW P, P \subseteq DOMAIN dets, P # {},
           \A k \in P : dets[k].distance \in Nat
    PROVE  \E k \in P : Nearest(dets, P) = dets[k]
<1> DEFINE D == {dets[k].distance : k \in P}
           best(k) == \A j \in P : \/ dets[k].distance < dets[j].distance
                                   \/ (dets[k].distance = dets[j].distance /\ k <= j)
<1>1. PICK m \in D : \A y \in D : m <= y
  <2>1. D \subseteq Nat /\ D # {}
    OBVIOUS
  <2> HIDE DEF D
  <2> QED BY <2>1, LeastExists
<1> DEFINE Q == {k \in P : dets[k].distance = m}
<1>2. PICK k \in Q : \A j \in Q : k <= j
  <2>1. Q \subseteq Nat /\ Q # {}
    <3>1. P \subseteq Nat
      OBVIOUS
    <3> QED BY <1>1, <3>1
  <2> HIDE DEF Q
  <2> QED BY <2>1, LeastExists
<1>3. k \in P /\ dets[k].distance = m
  BY <1>2
<1>4. ASSUME NEW j \in P
      PROVE  \/ dets[k].distance < dets[j].distance
             \/ (dets[k].distance = dets[j].distance /\ k <= j)
  <2>1. m <= dets[j].distance /\ dets[j].distance \in Nat /\ m \in Nat
    BY <1>1
  <2>2. CASE dets[j].distance = m
    BY <1>2, <1>3, <2>2
  <2>3. CASE dets[j].distance # m
    BY <1>3, <2>1, <2>3
  <2> QED BY <2>2, <2>3
<1>5. \E i \in P : best(i)
  BY <1>3, <1>4, Zenon
<1>6. Nearest(dets, P) = dets[CHOOSE i \in P : best(i)]
  BY Zenon DEF Nearest
<1> HIDE DEF best
<1> QED BY <1>5, <1>6, Zenon

\* The time of the last stop sign stays unless a detection marks one, and is then the
\* time that a marking detection carries.
LEMMA SignTimeIs ==
    ASSUME NEW cfg, NEW r, NEW dets \in Seq(Detection), NEW t
    PROVE  \/ /\ \A k \in DOMAIN dets : ~ MarksStopSign(cfg, dets[k])
              /\ SignTime(cfg, r, dets, t) = r.stop_sign_time
           \/ \E k \in DOMAIN dets :
                 /\ MarksStopSign(cfg, dets[k])
                 /\ SignTime(cfg, r, dets, t) = IF dets[k].observed_at = NaN THEN t
                                                ELSE dets[k].observed_at
<1> DEFINE marks == {k \in DOMAIN dets : MarksStopSign(cfg, dets[k])}
           k == CHOOSE i \in marks : \A j \in marks : j <= i
<1>1. CASE marks = {}
  BY <1>1, Zenon DEF SignTime
<1>2. CASE marks # {}
  <2>1. marks \subseteq 0 .. Len(dets) /\ Len(dets) \in Nat
    OBVIOUS
  <2>2. k \in marks
    <3> HIDE DEF marks
    <3>1. \E i \in marks : \A j \in marks : j <= i
      BY <1>2, <2>1, GreatestExists
    <3> QED BY <3>1, Zenon
  <2>3. SignTime(cfg, r, dets, t) = IF dets[k].observed_at = NaN THEN t ELSE dets[k].observed_at
    BY <1>2, Zenon DEF SignTime
  <2> HIDE DEF k
  <2> QED BY <2>2, <2>3, Zenon
<1> QED BY <1>1, <1>2

-----------------------------------------------------------------------------
(* The class tables of the two Deciders *)

\* rules_for() replaces the class table and the time-to-live of entries without an id.
LEMMA RulesAre ==
    ASSUME NEW b \in BOOLEAN
    PROVE  LET cfg == rules_for(Config, b)
               mine == {c \in DOMAIN Config.classes :
                          IsIntersectionRule(Config.classes[c]) = b}
           IN  /\ IsRules(cfg)
               /\ cfg.classes = [c \in mine |-> Config.classes[c]]
               /\ cfg.same_place = Config.same_place
               /\ cfg.hold = Config.hold /\ cfg.confirm = Config.confirm
<1> DEFINE cfg == rules_for(Config, b)
           mine == {c \in DOMAIN Config.classes : IsIntersectionRule(Config.classes[c]) = b}
           table == [c \in mine |-> Config.classes[c]]
           ttl == IF b THEN Config.handled_ttl ELSE Config.pseudo_ttl
<1> HIDE DEF mine
<1>1. cfg = [f \in DOMAIN Config |-> IF f = "pseudo_ttl" THEN ttl
                                     ELSE IF f = "classes" THEN table ELSE Config[f]]
  BY ConfigAssumption DEF rules_for, mine
<1>2. mine \subseteq DOMAIN Config.classes
  BY DEF mine
<1>3. \A c \in DOMAIN table : c \in ClassName /\ table[c] \in ClassRule
  BY <1>2, ConfigAssumption
<1> HIDE DEF cfg, table
<1>4. cfg.classes = table
  BY <1>1, ConfigAssumption
<1>5. /\ cfg.same_place = Config.same_place /\ cfg.min_distance = Config.min_distance
      /\ cfg.stop_sign_ttl = Config.stop_sign_ttl
      /\ cfg.hold = Config.hold /\ cfg.confirm = Config.confirm
  BY <1>1, ConfigAssumption
<1>6. IsRules(cfg)
  BY <1>3, <1>4, <1>5, ConfigAssumption DEF IsRules
<1> QED BY <1>4, <1>5, <1>6 DEF cfg, table, mine

\* rules_for() lets entries without an id live as long as the others in the stream of the
\* stop lines.
LEMMA TtlsAre ==
    ASSUME NEW b \in BOOLEAN
    PROVE  /\ rules_for(Config, b).handled_ttl = Config.handled_ttl
           /\ rules_for(Config, b).pseudo_ttl = IF b THEN Config.handled_ttl
                                                ELSE Config.pseudo_ttl
BY ConfigAssumption DEF rules_for

\* No detection of the obstacle stream fills the slot of the intersections.
LEMMA ObstacleRulesOK ==
    /\ IsRules(ObstacleRules)
    /\ ObstacleRules.hold = Config.hold /\ ObstacleRules.confirm = Config.confirm
    /\ \A d \in Detection : Triggers(ObstacleRules, d)
          => Rule(ObstacleRules, d).action # "intersection"
<1> DEFINE mine == {c \in DOMAIN Config.classes :
                      IsIntersectionRule(Config.classes[c]) = FALSE}
<1>1. /\ IsRules(ObstacleRules)
      /\ ObstacleRules.hold = Config.hold /\ ObstacleRules.confirm = Config.confirm
      /\ ObstacleRules.classes = [c \in mine |-> Config.classes[c]]
  BY RulesAre DEF ObstacleRules
<1>2. ASSUME NEW d \in Detection, Triggers(ObstacleRules, d)
      PROVE  Rule(ObstacleRules, d).action # "intersection"
  <2>1. d.cls \in mine /\ Rule(ObstacleRules, d) = Config.classes[d.cls]
    <3>1. d.cls \in DOMAIN ObstacleRules.classes /\ Rule(ObstacleRules, d) = ObstacleRules.classes[d.cls]
      BY <1>2 DEF Triggers, Rule
    <3> HIDE DEF mine
    <3> QED BY <1>1, <3>1
  <2> QED BY <2>1 DEF IsIntersectionRule
<1> QED BY <1>1, <1>2

\* The detections that IntersectionInput synthesizes: a line fills no slot but the one
\* of the intersections and marks no sign; a sign fills none.
LEMMA IntersectionRulesOK ==
    /\ IsRules(IntersectionRules)
    /\ IntersectionRules.hold = Config.hold /\ IntersectionRules.confirm = Config.confirm
    /\ IntersectionRules.same_place = Config.same_place
    /\ \A d \in Detection : Triggers(IntersectionRules, d) =>
          /\ d.cls = "stopline" => /\ Rule(IntersectionRules, d).action = "intersection"
                                   /\ ~ Rule(IntersectionRules, d).mark_stop_sign
          /\ d.cls = "sign" => Rule(IntersectionRules, d).action = "none"
<1> DEFINE mine == {c \in DOMAIN Config.classes :
                      IsIntersectionRule(Config.classes[c]) = TRUE}
<1>1. /\ IsRules(IntersectionRules)
      /\ IntersectionRules.hold = Config.hold /\ IntersectionRules.confirm = Config.confirm
      /\ IntersectionRules.same_place = Config.same_place
      /\ IntersectionRules.classes = [c \in mine |-> Config.classes[c]]
  BY RulesAre DEF IntersectionRules
<1>2. ASSUME NEW d \in Detection, Triggers(IntersectionRules, d)
      PROVE  /\ d.cls = "stopline" => /\ Rule(IntersectionRules, d).action = "intersection"
                                      /\ ~ Rule(IntersectionRules, d).mark_stop_sign
             /\ d.cls = "sign" => Rule(IntersectionRules, d).action = "none"
  <2>1. d.cls \in mine /\ Rule(IntersectionRules, d) = Config.classes[d.cls]
    <3>1. d.cls \in DOMAIN IntersectionRules.classes /\ Rule(IntersectionRules, d) = IntersectionRules.classes[d.cls]
      BY <1>2 DEF Triggers, Rule
    <3> HIDE DEF mine
    <3> QED BY <1>1, <3>1
  <2>2. d.cls \in DOMAIN Config.classes /\ IsIntersectionRule(Config.classes[d.cls])
    BY <2>1 DEF IsIntersectionRule
  <2> QED BY <2>1, <2>2, ClassTableAssumption DEF IsIntersectionRule
<1> QED BY <1>1, <1>2

-----------------------------------------------------------------------------
(* update() and mark_handled() *)

DeciderSet ==
    [hits : [Slot -> Nat], hold_until : [Slot -> Int], last_det : [Slot -> Detection],
     handled : Seq(Handled), stop_sign_time : Int]

\* A slot that is being held is not about a handled obstacle.
HoldsUnhandled(cfg, r, t) ==
    \A i \in Slot \ {"stop"} :
        t < r.hold_until[i] => ~ AlreadyHandled(cfg, r.handled, r.last_det[i])

\* The invariant of a Decider at time t whose lists fill the slots A, with detections of S.
DeciderOK(cfg, r, t, A, S) ==
    /\ r \in DeciderSet
    /\ \A i \in Slot : r.hits[i] <= cfg.confirm[i]
    /\ \A i \in Slot : r.hold_until[i] <= t + cfg.hold[i]
    /\ \A k \in DOMAIN r.handled : r.handled[k].last_seen <= t
    /\ \A i \in Slot \ A : r.hold_until[i] = 0
    /\ \A i \in Slot : t < r.hold_until[i] => r.last_det[i] \in S
    /\ HoldsUnhandled(cfg, r, t)

\* The list can fill no slot but those of A, and only with detections of S.
Fills(cfg, dets, A, S) ==
    \A k \in DOMAIN dets :
        /\ Triggers(cfg, dets[k])
        /\ Rule(cfg, dets[k]).action # "none"
        => Rule(cfg, dets[k]).action \in A /\ dets[k] \in S

\* Decision d is one for a slot of A, about a detection of S that is not handled.
DecidesFor(cfg, r, d, A, S) ==
    \E i \in A, e \in S, b \in BOOLEAN :
        /\ d = [action |-> i, obstacle_id |-> e.id, cls |-> e.cls, x |-> e.x,
                needs_stop |-> b]
        /\ b => i = "intersection"
        /\ i # "stop" => ~ AlreadyHandled(cfg, r.handled, e)

\* update() keeps the invariant of its Decider, remembers nothing new, and decides for an
\* obstacle that is not handled.
LEMMA UpdateOK ==
    ASSUME NEW cfg, IsRules(cfg), NEW t \in Nat, NEW A, A \subseteq Slot,
           NEW S, S \subseteq Detection, NEW r, DeciderOK(cfg, r, t, A, S),
           NEW dets \in Seq(Detection), Fills(cfg, dets, A, S)
    PROVE  LET u == update(cfg, r, dets, t)
           IN  /\ DeciderOK(cfg, u.decider, t, A, S)
               /\ Covers(r.handled, u.decider.handled)
               /\ u.decider.stop_sign_time = SignTime(cfg, r, dets, t)
               /\ u.decision = NoDecision \/ DecidesFor(cfg, u.decider, u.decision, A, S)
<1> DEFINE kept == expire(cfg, r.handled, t)
           found(i) == Candidates(cfg, kept, dets, i)
           hits == [i \in Slot |->
                      IF found(i) = {} THEN 0
                      ELSE IF r.hits[i] < cfg.confirm[i] THEN r.hits[i] + 1 ELSE r.hits[i]]
           confirmed == {i \in Slot : found(i) # {} /\ hits[i] >= cfg.confirm[i]}
           hold == [i \in Slot |-> IF i \in confirmed THEN t + cfg.hold[i]
                                   ELSE r.hold_until[i]]
           last == [i \in Slot |-> IF i \in confirmed THEN Nearest(dets, found(i))
                                   ELSE r.last_det[i]]
           memory == Refreshed(cfg, kept, Looked(cfg, dets), t)
           sign == SignTime(cfg, r, dets, t)
           after == [hits |-> hits, hold_until |-> hold, last_det |-> last,
                     handled |-> memory, stop_sign_time |-> sign]
           active == confirmed \cup {i \in Slot : t < after.hold_until[i]}
           verdict == Verdict(cfg, after, active, t)
           u == update(cfg, r, dets, t)
<1>1. u = [decider |-> after, decision |-> verdict]
  BY Zenon DEF update
<1>2. /\ r.hits \in [Slot -> Nat] /\ r.hold_until \in [Slot -> Int]
      /\ r.last_det \in [Slot -> Detection] /\ r.handled \in Seq(Handled)
      /\ r.stop_sign_time \in Int
      /\ \A k \in DOMAIN r.handled : r.handled[k].last_seen <= t
      /\ \A i \in Slot : r.hits[i] <= cfg.confirm[i]
      /\ \A i \in Slot : r.hold_until[i] <= t + cfg.hold[i]
  BY DEF DeciderOK, DeciderSet
<1>3. /\ kept \in Seq(Handled) /\ Covers(r.handled, kept)
      /\ \A k \in DOMAIN kept : kept[k].last_seen <= t
  BY <1>2, ExpireCovered, ExpireSeen
<1>4. /\ memory \in Seq(Handled) /\ Covers(kept, memory)
      /\ \A k \in DOMAIN memory : memory[k].last_seen <= t
  <2> HIDE DEF kept
  <2> QED BY <1>3, RefreshedCovered
<1>5. Covers(r.handled, memory)
  <2> HIDE DEF kept, memory
  <2> QED BY <1>3, <1>4, CoversTransitive, Zenon
<1>6. sign \in Int
  <2>1. CASE sign = r.stop_sign_time
    BY <1>2, <2>1
  <2>2. CASE \E k \in DOMAIN dets : sign = IF dets[k].observed_at = NaN THEN t
                                           ELSE dets[k].observed_at
    <3>1. PICK k \in DOMAIN dets : sign = IF dets[k].observed_at = NaN THEN t
                                          ELSE dets[k].observed_at
      BY <2>2
    <3> HIDE DEF sign
    <3>2. dets[k] \in Detection
      OBVIOUS
    <3>3. dets[k].observed_at \in Int
      BY <3>2 DEF Detection
    <3> QED BY <3>1, <3>3
  <2>3. \/ /\ \A k \in DOMAIN dets : ~ MarksStopSign(cfg, dets[k])
           /\ sign = r.stop_sign_time
        \/ \E k \in DOMAIN dets :
              /\ MarksStopSign(cfg, dets[k])
              /\ sign = IF dets[k].observed_at = NaN THEN t ELSE dets[k].observed_at
    BY SignTimeIs
  <2> HIDE DEF sign
  <2> QED BY <2>1, <2>2, <2>3, Zenon
\* What a slot is filled with.
<1>7. ASSUME NEW i \in Slot, found(i) # {}
      PROVE  /\ i \in A /\ Nearest(dets, found(i)) \in S
             /\ i # "stop" => ~ AlreadyHandled(cfg, kept, Nearest(dets, found(i)))
  <2> DEFINE P == found(i)
  <2>1. /\ P \subseteq DOMAIN dets
        /\ \A k \in P : /\ Triggers(cfg, dets[k]) /\ Rule(cfg, dets[k]).action = i
                        /\ i # "stop" => ~ AlreadyHandled(cfg, kept, dets[k])
    BY DEF Candidates
  <2>2. \A k \in DOMAIN dets : dets[k] \in Detection
    OBVIOUS
  <2> HIDE DEF kept, found, P
  <2>3. \A k \in P : dets[k].distance \in Nat
    BY <2>1, <2>2, TriggersAhead
  <2>4. P # {}
    BY <1>7 DEF P
  <2>5. PICK k \in P : Nearest(dets, P) = dets[k]
    BY <2>1, <2>3, <2>4, NearestIsOne
  <2>6. i # "none"
    BY DEF Slot
  <2>7. i \in A /\ dets[k] \in S
    BY <2>1, <2>6, Zenon DEF Fills
  <2> QED BY <2>1, <2>5, <2>7, Zenon DEF P
<1>8. \A i \in confirmed : i \in Slot /\ found(i) # {}
  BY Zenon
<1>9. hits \in [Slot -> Nat] /\ \A i \in Slot : hits[i] <= cfg.confirm[i]
  <2> HIDE DEF found
  <2>1. ASSUME NEW i \in Slot PROVE hits[i] \in Nat /\ hits[i] <= cfg.confirm[i]
    <3>1. r.hits[i] \in Nat /\ r.hits[i] <= cfg.confirm[i] /\ cfg.confirm[i] \in Nat
      BY <1>2 DEF IsRules
    <3>2. hits[i] = IF found(i) = {} THEN 0
                    ELSE IF r.hits[i] < cfg.confirm[i] THEN r.hits[i] + 1 ELSE r.hits[i]
      OBVIOUS
    <3> HIDE DEF hits
    <3> QED BY <3>1, <3>2
  <2>2. hits = [i \in Slot |-> hits[i]]
    OBVIOUS
  <2> HIDE DEF hits
  <2> QED BY <2>1, <2>2
<1> HIDE DEF kept, found, hits, confirmed, memory, sign
<1>10. /\ after.hits = hits /\ after.hold_until = hold /\ after.last_det = last
       /\ after.handled = memory /\ after.stop_sign_time = sign
  OBVIOUS
<1>11. ASSUME NEW i \in Slot
       PROVE  /\ i \in confirmed => hold[i] = t + cfg.hold[i] /\ last[i] = Nearest(dets, found(i))
              /\ i \notin confirmed => hold[i] = r.hold_until[i] /\ last[i] = r.last_det[i]
  OBVIOUS
<1>12. ASSUME NEW i \in Slot
       PROVE  hold[i] \in Int /\ hold[i] <= t + cfg.hold[i] /\ last[i] \in Detection
  <2> HIDE DEF hold, last
  <2>1. cfg.hold[i] \in Nat /\ r.hold_until[i] \in Int /\ r.last_det[i] \in Detection
    BY <1>2 DEF IsRules
  <2>2. i \in confirmed => Nearest(dets, found(i)) \in Detection
    BY <1>7, <1>8, Zenon
  <2> QED BY <1>2, <1>11, <2>1, <2>2
<1>13. hold \in [Slot -> Int] /\ last \in [Slot -> Detection]
  <2>1. hold = [i \in Slot |-> hold[i]] /\ last = [i \in Slot |-> last[i]]
    OBVIOUS
  <2> HIDE DEF hold, last
  <2> QED BY <1>12, <2>1, Zenon
\* A slot that is confirmed or held is one of A, and about no handled obstacle.
<1>14. ASSUME NEW i \in Slot, i \in confirmed \/ t < hold[i]
       PROVE  /\ i \in A /\ last[i] \in S
              /\ i # "stop" => ~ AlreadyHandled(cfg, memory, last[i])
  <2> HIDE DEF hold, last
  <2>1. CASE i \in confirmed
    <3>1. /\ i \in A /\ last[i] \in S
          /\ i # "stop" => ~ AlreadyHandled(cfg, kept, last[i])
      BY <1>7, <1>8, <1>11, <2>1, Zenon
    <3> QED BY <1>4, <3>1, CoveredRemembersLess, Zenon
  <2>2. CASE i \notin confirmed
    <3>1. t < r.hold_until[i] /\ last[i] = r.last_det[i]
      BY <1>11, <1>14, <2>2, Zenon
    <3>2. r.hold_until[i] # 0
      BY <3>1
    <3>3. i \in A /\ last[i] \in S
      BY <3>1, <3>2, Zenon DEF DeciderOK
    <3>4. i # "stop" => ~ AlreadyHandled(cfg, r.handled, last[i])
      BY <3>1, Zenon DEF DeciderOK, HoldsUnhandled
    <3> QED BY <1>5, <3>3, <3>4, CoveredRemembersLess, Zenon
  <2> QED BY <2>1, <2>2
<1>15. \A i \in Slot \ A : hold[i] = 0
  <2> HIDE DEF hold, last
  <2> QED BY <1>7, <1>8, <1>11, Zenon DEF DeciderOK
<1> HIDE DEF hold, last
<1>16. DeciderOK(cfg, after, t, A, S)
  <2>1. after \in DeciderSet
    BY <1>4, <1>6, <1>9, <1>13 DEF DeciderSet
  <2>2. HoldsUnhandled(cfg, after, t)
    <3> HIDE DEF after
    <3> QED BY <1>10, <1>14, Zenon DEF HoldsUnhandled
  <2> HIDE DEF after
  <2> QED BY <1>4, <1>9, <1>10, <1>12, <1>14, <1>15, <2>1, <2>2, Zenon DEF DeciderOK
<1>17. verdict = NoDecision \/ DecidesFor(cfg, after, verdict, A, S)
  <2>1. \A i \in active : i \in Slot /\ (i \in confirmed \/ t < hold[i])
    BY <1>8, <1>10, Zenon
  <2>2. ASSUME NEW i \in active
        PROVE  /\ i \in A /\ after.last_det[i] \in S
               /\ i # "stop" => ~ AlreadyHandled(cfg, after.handled, after.last_det[i])
    BY <1>10, <1>14, <2>1, Zenon
  <2> HIDE DEF after, active
  <2>3. CASE "stop" \in active
    <3> DEFINE e == after.last_det["stop"]
    <3>1. verdict = [action |-> "stop", obstacle_id |-> e.id, cls |-> e.cls, x |-> e.x,
                     needs_stop |-> FALSE]
      BY <2>3 DEF Verdict, make
    <3> HIDE DEF verdict
    <3> QED BY <2>2, <2>3, <3>1, Zenon DEF DecidesFor
  <2>4. CASE "stop" \notin active /\ "intersection" \in active
    <3> DEFINE e == after.last_det["intersection"]
               b == t - after.stop_sign_time < cfg.stop_sign_ttl
    <3>1. verdict = [action |-> "intersection", obstacle_id |-> e.id, cls |-> e.cls,
                     x |-> e.x, needs_stop |-> b]
      BY <2>4 DEF Verdict, make
    <3>2. b \in BOOLEAN
      OBVIOUS
    <3> HIDE DEF verdict, b
    <3> QED BY <2>2, <2>4, <3>1, <3>2, Zenon DEF DecidesFor
  <2>5. CASE "stop" \notin active /\ "intersection" \notin active /\ "change" \in active
    <3> DEFINE e == after.last_det["change"]
    <3>1. verdict = [action |-> "change", obstacle_id |-> e.id, cls |-> e.cls, x |-> e.x,
                     needs_stop |-> FALSE]
      BY <2>5 DEF Verdict, make
    <3> HIDE DEF verdict
    <3> QED BY <2>2, <2>5, <3>1, Zenon DEF DecidesFor
  <2>6. CASE "stop" \notin active /\ "intersection" \notin active /\ "change" \notin active
    BY <2>6, Zenon DEF Verdict
  <2> QED BY <2>3, <2>4, <2>5, <2>6
<1> HIDE DEF after, verdict
<1>18. u.decider = after /\ u.decision = verdict
  BY <1>1
<1> HIDE DEF u
<1>19. /\ DeciderOK(cfg, u.decider, t, A, S)
       /\ Covers(r.handled, u.decider.handled)
       /\ u.decider.stop_sign_time = SignTime(cfg, r, dets, t)
       /\ u.decision = NoDecision \/ DecidesFor(cfg, u.decider, u.decision, A, S)
  BY <1>5, <1>10, <1>16, <1>17, <1>18, Zenon DEF sign
<1> QED BY <1>19, Zenon DEF u

\* The special times and the special id are numbers, and the times are in this order.
LEMMA SpecialNumbers ==
    Never \in Int /\ NaN \in Int /\ NoId \in Int /\ NaN < Never /\ Never < 0 /\ NoId < 0
BY DEF Never, NaN, NoId

\* A new Decider holds nothing.
LEMMA NewDeciderOK ==
    ASSUME NEW cfg, IsRules(cfg), NEW A, NEW S
    PROVE  DeciderOK(cfg, NewDecider, 0, A, S)
<1>1. /\ NewDecider.hits = [i \in Slot |-> 0] /\ NewDecider.hold_until = [i \in Slot |-> 0]
      /\ NewDecider.last_det = [i \in Slot |-> NoDetection] /\ NewDecider.handled = <<>>
      /\ NewDecider.stop_sign_time = Never
  BY DEF NewDecider
<1>2. NoDetection \in Detection /\ Never \in Int
  BY SpecialNumbers, ClassNameAssumption DEF NoDetection, Detection
<1>3. NewDecider \in DeciderSet
  BY <1>2 DEF NewDecider, DeciderSet
<1>4. \A i \in Slot : /\ NewDecider.hits[i] = 0 /\ NewDecider.hold_until[i] = 0
                      /\ cfg.hold[i] \in Nat /\ cfg.confirm[i] \in Nat
  BY <1>1 DEF IsRules
<1>5. DOMAIN NewDecider.handled = {}
  BY <1>1
<1>6. HoldsUnhandled(cfg, NewDecider, 0)
  BY <1>4 DEF HoldsUnhandled
<1> HIDE DEF NewDecider
<1> QED BY <1>3, <1>4, <1>5, <1>6 DEF DeciderOK

\* The invariant of a Decider survives the passage of time.
LEMMA LaterOK ==
    ASSUME NEW cfg, IsRules(cfg), NEW A, NEW S, NEW r, NEW t \in Nat,
           DeciderOK(cfg, r, t, A, S)
    PROVE  DeciderOK(cfg, r, t + 1, A, S)
<1>1. /\ r \in DeciderSet
      /\ \A i \in Slot : r.hold_until[i] \in Int /\ cfg.hold[i] \in Nat
      /\ \A k \in DOMAIN r.handled : r.handled[k].last_seen \in Int
  <2>1. r \in DeciderSet
    BY DEF DeciderOK
  <2>2. r.hold_until \in [Slot -> Int] /\ r.handled \in Seq(Handled)
    BY <2>1 DEF DeciderSet
  <2>3. \A k \in DOMAIN r.handled : r.handled[k] \in Handled
    BY <2>2
  <2> QED BY <2>1, <2>2, <2>3 DEF Handled, IsRules
<1>2. \A i \in Slot : t + 1 < r.hold_until[i] => t < r.hold_until[i]
  BY <1>1
<1>3. ASSUME NEW i \in Slot PROVE r.hold_until[i] <= t + 1 + cfg.hold[i]
  <2>1. /\ r.hold_until[i] <= t + cfg.hold[i]
        /\ r.hold_until[i] \in Int /\ cfg.hold[i] \in Nat
    BY <1>1, Zenon DEF DeciderOK
  <2> QED BY <2>1
<1>4. \A k \in DOMAIN r.handled : r.handled[k].last_seen <= t + 1
  BY <1>1 DEF DeciderOK
<1>5. HoldsUnhandled(cfg, r, t + 1)
  BY <1>2, Zenon DEF HoldsUnhandled, DeciderOK
<1> QED BY <1>1, <1>2, <1>3, <1>4, <1>5, Zenon DEF DeciderOK

\* clear_stop_sign() touches nothing but the time of the sign.
LEMMA ClearOK ==
    ASSUME NEW cfg, NEW A, NEW S, NEW r, NEW t, DeciderOK(cfg, r, t, A, S)
    PROVE  /\ DeciderOK(cfg, clear_stop_sign(r), t, A, S)
           /\ clear_stop_sign(r).handled = r.handled
           /\ clear_stop_sign(r).stop_sign_time = Never
<1> DEFINE m == clear_stop_sign(r)
<1>1. r \in DeciderSet
  BY DEF DeciderOK
<1>2. /\ m \in DeciderSet /\ m.hits = r.hits /\ m.hold_until = r.hold_until
      /\ m.last_det = r.last_det /\ m.handled = r.handled /\ m.stop_sign_time = Never
  BY <1>1, SpecialNumbers DEF clear_stop_sign, DeciderSet
<1> HIDE DEF m
<1>3. HoldsUnhandled(cfg, m, t)
  BY <1>2, Zenon DEF HoldsUnhandled, DeciderOK
<1>4. DeciderOK(cfg, m, t, A, S)
  BY <1>2, <1>3, Zenon DEF DeciderOK
<1> QED BY <1>2, <1>4 DEF m

\* The entry that mark_handled() appends.
Entry(d, t) == [id |-> d.obstacle_id, cls |-> d.cls, x |-> d.x, last_seen |-> t]

\* mark_handled() ends the hold of its slot, and no other slot was about the obstacle.
LEMMA MarkHandledOK ==
    ASSUME NEW cfg, IsRules(cfg), NEW t \in Nat, NEW A, NEW S, NEW r,
           DeciderOK(cfg, r, t, A, S), NEW d \in Decision,
           d.action \in {"change", "intersection"}, A \subseteq {d.action, "stop"}
    PROVE  LET m == mark_handled(r, d, t)
           IN  /\ DeciderOK(cfg, m, t, A, S)
               /\ m.handled = Append(r.handled, Entry(d, t))
               /\ m.stop_sign_time = IF d.action = "intersection" THEN Never
                                     ELSE r.stop_sign_time
<1> DEFINE m == mark_handled(r, d, t)
           a == d.action
           more == Append(r.handled, Entry(d, t))
           sign == IF d.action = "intersection" THEN Never ELSE r.stop_sign_time
<1>1. r \in DeciderSet
  BY DEF DeciderOK
<1>2. /\ r.hits \in [Slot -> Nat] /\ r.hold_until \in [Slot -> Int]
      /\ r.last_det \in [Slot -> Detection] /\ r.handled \in Seq(Handled)
      /\ r.stop_sign_time \in Int
  BY <1>1 DEF DeciderSet
<1>3. m = [hits |-> [r.hits EXCEPT ![a] = 0], hold_until |-> [r.hold_until EXCEPT ![a] = 0],
           last_det |-> r.last_det, handled |-> more, stop_sign_time |-> sign]
  BY <1>1 DEF mark_handled, DeciderSet, Entry
<1>4. Entry(d, t) \in Handled /\ Entry(d, t).last_seen = t
  BY DEF Entry, Handled, Decision
<1>5. a \in Slot
  BY DEF Slot
<1> HIDE DEF m, more, a
<1>6. more \in Seq(Handled) /\ \A k \in DOMAIN more : more[k].last_seen <= t
  <2>1. /\ more \in Seq(Handled) /\ DOMAIN r.handled = 1 .. Len(r.handled)
        /\ DOMAIN more = 1 .. Len(r.handled) + 1 /\ Len(r.handled) \in Nat
        /\ \A k \in 1 .. Len(r.handled) : more[k] = r.handled[k]
        /\ more[Len(r.handled) + 1] = Entry(d, t)
    BY <1>2, <1>4, AppendProperties DEF more
  <2>2. ASSUME NEW k \in DOMAIN more PROVE more[k].last_seen <= t
    <3>1. CASE k \in DOMAIN r.handled
      BY <2>1, <3>1 DEF DeciderOK
    <3>2. CASE k = Len(r.handled) + 1
      BY <1>4, <2>1, <3>2
    <3> QED BY <2>1, <3>1, <3>2
  <2> QED BY <2>1, <2>2
<1>7. /\ m.hits = [r.hits EXCEPT ![a] = 0] /\ m.hold_until = [r.hold_until EXCEPT ![a] = 0]
      /\ m.last_det = r.last_det /\ m.handled = more /\ m.stop_sign_time = sign
  BY <1>3
<1>8. m \in DeciderSet
  <2>1. [r.hits EXCEPT ![a] = 0] \in [Slot -> Nat]
    BY <1>2
  <2>2. [r.hold_until EXCEPT ![a] = 0] \in [Slot -> Int]
    <3>1. 0 \in Int /\ r.hold_until \in [Slot -> Int]
      BY <1>2
    <3> QED BY <3>1, Zenon
  <2>3. sign \in Int
    BY <1>2, SpecialNumbers
  <2> HIDE DEF sign
  <2> QED BY <1>2, <1>3, <1>6, <2>1, <2>2, <2>3 DEF DeciderSet
<1> HIDE DEF sign
<1>9. ASSUME NEW i \in Slot
      PROVE  /\ i = a => m.hits[i] = 0 /\ m.hold_until[i] = 0
             /\ i # a => m.hits[i] = r.hits[i] /\ m.hold_until[i] = r.hold_until[i]
             /\ cfg.hold[i] \in Nat /\ cfg.confirm[i] \in Nat
  BY <1>2, <1>5, <1>7 DEF IsRules
<1>10. ASSUME NEW i \in Slot
       PROVE  /\ m.hits[i] <= cfg.confirm[i]
              /\ m.hold_until[i] <= t + cfg.hold[i]
              /\ t < m.hold_until[i] => i # a /\ t < r.hold_until[i]
  <2>1. r.hits[i] <= cfg.confirm[i] /\ r.hold_until[i] <= t + cfg.hold[i]
    BY Zenon DEF DeciderOK
  <2>2. cfg.hold[i] \in Nat /\ cfg.confirm[i] \in Nat
    BY <1>9
  <2>3. CASE i = a
    <3>1. m.hits[i] = 0 /\ m.hold_until[i] = 0
      BY <1>9, <2>3
    <3> QED BY <2>2, <3>1
  <2>4. CASE i # a
    <3>1. m.hits[i] = r.hits[i] /\ m.hold_until[i] = r.hold_until[i]
      BY <1>9, <2>4
    <3> QED BY <2>1, <2>4, <3>1, Zenon
  <2> QED BY <2>3, <2>4
<1>11. \A i \in Slot \ A : m.hold_until[i] = 0
  BY <1>9, Zenon DEF DeciderOK
<1>12. \A i \in Slot : t < m.hold_until[i] => m.last_det[i] \in S
  BY <1>7, <1>10, Zenon DEF DeciderOK
<1>13. HoldsUnhandled(cfg, m, t)
  <2> SUFFICES ASSUME NEW i \in Slot \ {"stop"} PROVE ~ (t < m.hold_until[i])
    BY Zenon DEF HoldsUnhandled
  <2>1. i # a => i \notin A
    BY DEF a
  <2>2. m.hold_until[i] = 0
    BY <1>9, <1>11, <2>1, Zenon
  <2> QED BY <2>2
<1>14. DeciderOK(cfg, m, t, A, S)
  BY <1>6, <1>7, <1>8, <1>10, <1>11, <1>12, <1>13, Zenon DEF DeciderOK
<1> QED BY <1>7, <1>14, Zenon DEF m, more, sign

-----------------------------------------------------------------------------
(* Decisions, and the members of SharedState *)

ObstacleSlots == {"change", "stop"}
LineSlots == {"intersection"}

\* The detections that on_signs and on_line make of a stop line.
Lines == {d \in Detection : d.cls = "stopline" /\ d.id = NoId}

\* Which decisions there are, and how their actions tell them apart.
LEMMA DecisionsAre ==
    /\ \A d \in ObstacleDecisions : d \in Decision /\ d.action \in {"change", "stop"}
    /\ \A d \in IntersectionDecisions : d \in Decision /\ d.action = "intersection"
    /\ NoDecision \in Decision /\ NoDecision.action = "none"
    /\ NoDecision \notin ObstacleDecisions /\ NoDecision \notin IntersectionDecisions
<1>1. ASSUME NEW d \in ObstacleDecisions PROVE d \in Decision /\ d.action \in {"change", "stop"}
  BY DEF ObstacleDecisions, Decision, Slot
<1>2. ASSUME NEW d \in IntersectionDecisions PROVE d \in Decision /\ d.action = "intersection"
  <2>1. {"stopline"} \subseteq ClassName /\ {NoId} \subseteq Int
    BY ClassTableAssumption, SpecialNumbers
  <2> QED BY <2>1 DEF IntersectionDecisions, Decision, Slot
<1>3. NoDecision \in Decision /\ NoDecision.action = "none"
  BY SpecialNumbers, ClassNameAssumption DEF NoDecision, Decision
<1> QED BY <1>1, <1>2, <1>3

\* What the obstacle stream decides.
LEMMA DecidesObstacle ==
    ASSUME NEW cfg, NEW r, NEW d, DecidesFor(cfg, r, d, ObstacleSlots, Detection)
    PROVE  d \in ObstacleDecisions
<1>1. PICK i \in ObstacleSlots, e \in Detection, b \in BOOLEAN :
        /\ d = [action |-> i, obstacle_id |-> e.id, cls |-> e.cls, x |-> e.x,
                needs_stop |-> b]
        /\ b => i = "intersection"
  BY Zenon DEF DecidesFor
<1>2. b = FALSE /\ e.id \in Int /\ e.cls \in ClassName /\ e.x \in Int
  BY <1>1 DEF ObstacleSlots, Detection
<1> QED BY <1>1, <1>2 DEF ObstacleDecisions, ObstacleSlots

\* What the intersection stream decides: to take a line that is not remembered.
LEMMA DecidesLine ==
    ASSUME NEW cfg, NEW r, NEW d, DecidesFor(cfg, r, d, LineSlots, Lines)
    PROVE  d \in IntersectionDecisions /\ ~ Remembered(cfg, r, d)
<1>1. PICK i \in LineSlots, e \in Lines, b \in BOOLEAN :
        /\ d = [action |-> i, obstacle_id |-> e.id, cls |-> e.cls, x |-> e.x,
                needs_stop |-> b]
        /\ i # "stop" => ~ AlreadyHandled(cfg, r.handled, e)
  BY Zenon DEF DecidesFor
<1>2. i = "intersection" /\ e.cls = "stopline" /\ e.id = NoId /\ e.x \in Int
  BY DEF LineSlots, Lines, Detection
<1>3. d \in IntersectionDecisions
  BY <1>1, <1>2 DEF IntersectionDecisions
<1> DEFINE f == [id |-> d.obstacle_id, cls |-> d.cls, x |-> d.x]
<1>4. f.id = e.id /\ f.cls = e.cls /\ f.x = e.x
  BY <1>1
<1>5. ~ AlreadyHandled(cfg, r.handled, e)
  BY <1>1, <1>2
<1> HIDE DEF f
<1>6. ~ AlreadyHandled(cfg, r.handled, f)
  BY <1>4, <1>5, RememberedBy, Zenon
<1> QED BY <1>3, <1>6, Zenon DEF Remembered, f

\* A decision that is not remembered is not remembered by a memory that is covered.
LEMMA CoveredNotRemembered ==
    ASSUME NEW cfg, NEW r, NEW q, NEW d, Covers(r.handled, q.handled),
           ~ Remembered(cfg, r, d)
    PROVE  ~ Remembered(cfg, q, d)
BY CoveredRemembersLess, Zenon DEF Remembered

\* What a stream may offer.
ObstacleOffer == ObstacleDecisions \cup {NoDecision}
LineOffer == IntersectionDecisions \cup {NoDecision}

StateSet ==
    [obstacles : DeciderSet, intersections : DeciderSet,
     obstacle : ObstacleOffer, intersection : LineOffer, active : LineOffer,
     obstacle_time : Int, intersection_time : Int, last_completed : Int, turns : 0 .. Turns]

\* The types of the members.
LEMMA StateFields ==
    ASSUME NEW s \in StateSet
    PROVE  /\ s.obstacles \in DeciderSet /\ s.intersections \in DeciderSet
           /\ s.obstacle \in ObstacleOffer /\ s.intersection \in LineOffer
           /\ s.active \in LineOffer
           /\ s.obstacle_time \in Int /\ s.intersection_time \in Int
           /\ s.last_completed \in Int /\ s.turns \in 0 .. Turns
BY DEF StateSet

\* Members of the right types make a SharedState.
LEMMA StateMade ==
    ASSUME NEW o \in DeciderSet, NEW i \in DeciderSet, NEW od \in ObstacleOffer,
           NEW id \in LineOffer, NEW a \in LineOffer, NEW ot \in Int, NEW it \in Int,
           NEW c \in Int, NEW n \in 0 .. Turns
    PROVE  [obstacles |-> o, intersections |-> i, obstacle |-> od, intersection |-> id,
            active |-> a, obstacle_time |-> ot, intersection_time |-> it,
            last_completed |-> c, turns |-> n] \in StateSet
BY DEF StateSet

\* No line of the intersection stream, offered or latched, is remembered.
NoneRepeated(s) ==
    \A d \in {s.intersection, s.active} :
        d.action = "intersection" => ~ Remembered(IntersectionRules, s.intersections, d)

\* The invariant of the members of SharedState at time t.
StateOK(s, t) ==
    /\ s \in StateSet
    /\ DeciderOK(ObstacleRules, s.obstacles, t, ObstacleSlots, Detection)
    /\ DeciderOK(IntersectionRules, s.intersections, t, LineSlots, Lines)
    /\ \A k \in DOMAIN s.intersections.handled : s.intersections.handled[k].cls = "stopline"
    /\ NoneRepeated(s)

\* on_detections() keeps the invariant, and touches nothing of the other stream.
LEMMA OnDetectionsOK ==
    ASSUME NEW s, NEW t \in Nat, StateOK(s, t), NEW dets \in Seq(Detection)
    PROVE  LET n == on_detections(s, dets, t)
           IN  /\ StateOK(n, t)
               /\ n.intersections = s.intersections /\ n.intersection = s.intersection
               /\ n.intersection_time = s.intersection_time
               /\ n.active = s.active /\ n.turns = s.turns
               /\ n.last_completed = s.last_completed
<1> DEFINE u == update(ObstacleRules, s.obstacles, dets, t)
           n == on_detections(s, dets, t)
<1>1. s \in StateSet
  BY DEF StateOK
<1>2. Fills(ObstacleRules, dets, ObstacleSlots, Detection)
  <2> SUFFICES ASSUME NEW k \in DOMAIN dets, Triggers(ObstacleRules, dets[k]),
                      Rule(ObstacleRules, dets[k]).action # "none"
               PROVE  Rule(ObstacleRules, dets[k]).action \in ObstacleSlots /\ dets[k] \in Detection
    BY Zenon DEF Fills
  <2>1. dets[k] \in Detection
    OBVIOUS
  <2>2. Rule(ObstacleRules, dets[k]).action # "intersection"
    BY <2>1, ObstacleRulesOK
  <2>3. Rule(ObstacleRules, dets[k]) \in ClassRule
    BY ObstacleRulesOK DEF IsRules, Triggers, Rule
  <2> QED BY <2>1, <2>2, <2>3 DEF ClassRule, ObstacleSlots, Slot
<1>3. /\ DeciderOK(ObstacleRules, u.decider, t, ObstacleSlots, Detection)
      /\ u.decision = NoDecision
            \/ DecidesFor(ObstacleRules, u.decider, u.decision, ObstacleSlots, Detection)
  <2>1. ObstacleSlots \subseteq Slot
    BY DEF ObstacleSlots, Slot
  <2>2. IsRules(ObstacleRules) /\ DeciderOK(ObstacleRules, s.obstacles, t, ObstacleSlots, Detection)
    BY ObstacleRulesOK DEF StateOK
  <2> QED BY <1>2, <2>1, <2>2, UpdateOK
<1>4. u.decider \in DeciderSet /\ u.decision \in ObstacleOffer
  BY <1>3, DecidesObstacle DEF DeciderOK, ObstacleOffer
<1>5. n = [s EXCEPT !.obstacle_time = t, !.obstacles = u.decider, !.obstacle = u.decision]
  BY Zenon DEF on_detections
<1> HIDE DEF u, n
<1>6. /\ n.obstacles = u.decider
      /\ n.intersections = s.intersections /\ n.intersection = s.intersection
      /\ n.intersection_time = s.intersection_time
      /\ n.active = s.active /\ n.turns = s.turns /\ n.last_completed = s.last_completed
  BY <1>1, <1>5 DEF StateSet
<1>7. n \in StateSet
  <2>1. n = [obstacles |-> u.decider, intersections |-> s.intersections,
             obstacle |-> u.decision, intersection |-> s.intersection, active |-> s.active,
             obstacle_time |-> t, intersection_time |-> s.intersection_time,
             last_completed |-> s.last_completed, turns |-> s.turns]
    BY <1>1, <1>5 DEF StateSet
  <2>2. t \in Int
    OBVIOUS
  <2> QED BY <1>1, <1>4, <2>1, <2>2, StateFields, StateMade, Zenon
<1>8. NoneRepeated(n)
  BY <1>6, Zenon DEF StateOK, NoneRepeated
<1>9. StateOK(n, t)
  BY <1>3, <1>6, <1>7, <1>8, Zenon DEF StateOK
<1> QED BY <1>6, <1>9, Zenon DEF n

\* on_intersection_detections() keeps the invariant and touches neither the other stream
\* nor the latch; it forgets but remembers nothing new.
LEMMA OnIntersectionOK ==
    ASSUME NEW s, NEW t \in Nat, StateOK(s, t), NEW dets \in Seq(Detection),
           Fills(IntersectionRules, dets, LineSlots, Lines), NEW reset \in BOOLEAN
    PROVE  LET n == on_intersection_detections(s, dets, reset, t)
               r == IF reset THEN clear_stop_sign(s.intersections) ELSE s.intersections
           IN  /\ StateOK(n, t)
               /\ n.obstacle = s.obstacle /\ n.obstacle_time = s.obstacle_time
               /\ n.active = s.active /\ n.turns = s.turns
               /\ n.last_completed = s.last_completed
               /\ Covers(s.intersections.handled, n.intersections.handled)
               /\ n.intersections.stop_sign_time = SignTime(IntersectionRules, r, dets, t)
<1> DEFINE r == IF reset THEN clear_stop_sign(s.intersections) ELSE s.intersections
           u == update(IntersectionRules, r, dets, t)
           n == on_intersection_detections(s, dets, reset, t)
<1>1. s \in StateSet /\ DeciderOK(IntersectionRules, s.intersections, t, LineSlots, Lines)
  BY DEF StateOK
<1>2. DeciderOK(IntersectionRules, r, t, LineSlots, Lines) /\ r.handled = s.intersections.handled
  BY <1>1, ClearOK
<1>3. n = [s EXCEPT !.intersection_time = t, !.intersections = u.decider,
                    !.intersection = u.decision]
  BY Zenon DEF on_intersection_detections
<1> HIDE DEF r, n
<1>4. /\ DeciderOK(IntersectionRules, u.decider, t, LineSlots, Lines)
      /\ Covers(r.handled, u.decider.handled)
      /\ u.decider.stop_sign_time = SignTime(IntersectionRules, r, dets, t)
      /\ u.decision = NoDecision
            \/ DecidesFor(IntersectionRules, u.decider, u.decision, LineSlots, Lines)
  <2>1. LineSlots \subseteq Slot /\ Lines \subseteq Detection
    BY DEF LineSlots, Slot, Lines
  <2> QED BY <1>2, <2>1, IntersectionRulesOK, UpdateOK
<1> HIDE DEF u
<1>5. u.decision = NoDecision \/ (/\ u.decision \in IntersectionDecisions
                                  /\ ~ Remembered(IntersectionRules, u.decider, u.decision))
  BY <1>4, DecidesLine, Zenon
<1>6. u.decider \in DeciderSet
  BY <1>4 DEF DeciderOK
<1>7. /\ n.intersections = u.decider /\ n.intersection = u.decision
      /\ n.obstacles = s.obstacles /\ n.obstacle = s.obstacle
      /\ n.obstacle_time = s.obstacle_time
      /\ n.active = s.active /\ n.turns = s.turns /\ n.last_completed = s.last_completed
  BY <1>1, <1>3 DEF StateSet
<1>8. n \in StateSet
  <2>1. u.decision \in LineOffer
    BY <1>5, Zenon DEF LineOffer
  <2>2. n = [obstacles |-> s.obstacles, intersections |-> u.decider,
             obstacle |-> s.obstacle, intersection |-> u.decision, active |-> s.active,
             obstacle_time |-> s.obstacle_time, intersection_time |-> t,
             last_completed |-> s.last_completed, turns |-> s.turns]
    BY <1>1, <1>3 DEF StateSet
  <2>3. t \in Int
    OBVIOUS
  <2> QED BY <1>1, <1>6, <2>1, <2>2, <2>3, StateFields, StateMade, Zenon
<1>9. Covers(s.intersections.handled, n.intersections.handled)
  BY <1>2, <1>4, <1>7, Zenon
<1>10. NoneRepeated(n)
  <2>1. n.intersection.action = "intersection"
          => ~ Remembered(IntersectionRules, n.intersections, n.intersection)
    BY <1>5, <1>7, DecisionsAre
  <2>2. n.active.action = "intersection"
          => ~ Remembered(IntersectionRules, n.intersections, n.active)
    <3>1. s.active.action = "intersection"
            => ~ Remembered(IntersectionRules, s.intersections, s.active)
      BY Zenon DEF StateOK, NoneRepeated
    <3> QED BY <1>7, <1>9, <3>1, CoveredNotRemembered, Zenon
  <2> QED BY <2>1, <2>2, Zenon DEF NoneRepeated
<1>11. \A k \in DOMAIN n.intersections.handled : n.intersections.handled[k].cls = "stopline"
  BY <1>9, Zenon DEF Covers, StateOK
<1>12. StateOK(n, t)
  BY <1>4, <1>7, <1>8, <1>10, <1>11, Zenon DEF StateOK
<1> QED BY <1>4, <1>7, <1>9, <1>12, Zenon DEF n, r

\* An offer is a decision, and what it is shows in its action.
LEMMA OffersAre ==
    /\ \A d \in ObstacleOffer : /\ d \in Decision /\ d.action \in {"none", "change", "stop"}
                                /\ d.action = "none" <=> d = NoDecision
    /\ \A d \in LineOffer : /\ d \in Decision /\ d.action \in {"none", "intersection"}
                            /\ d.action = "none" <=> d = NoDecision
                            /\ d.action = "intersection" <=> d \in IntersectionDecisions
BY DecisionsAre DEF ObstacleOffer, LineOffer

\* current() with action intersection, when nothing is latched, is the offered line.
LEMMA CurrentLine ==
    ASSUME NEW s \in StateSet, NEW t, current(s, t).action = "intersection",
           s.active.action # "intersection"
    PROVE  current(s, t) = s.intersection /\ Fresh(s.intersection_time, t)
<1>1. s.obstacle.action # "intersection"
  BY StateFields, OffersAre
<1>2. NoDecision.action # "intersection"
  BY DecisionsAre
<1> QED BY <1>1, <1>2, Zenon DEF current

\* current() with action change is the fresh decision of the obstacle stream, and no
\* maneuver is latched.
LEMMA CurrentChange ==
    ASSUME NEW s \in StateSet, NEW t, current(s, t).action = "change"
    PROVE  /\ current(s, t) = s.obstacle /\ Fresh(s.obstacle_time, t)
           /\ s.active = NoDecision /\ s.obstacle \in ObstacleDecisions
<1>1. s.obstacle \in ObstacleOffer /\ s.active \in LineOffer /\ s.intersection \in LineOffer
  BY StateFields
<1>2. NoDecision.action # "change" /\ s.active.action # "change" /\ s.intersection.action # "change"
  BY <1>1, OffersAre, DecisionsAre
<1>3. current(s, t) = s.obstacle /\ Fresh(s.obstacle_time, t) /\ s.active.action # "intersection"
  <2>1. CASE Fresh(s.obstacle_time, t) /\ s.obstacle.action = "stop"
    <3>1. current(s, t) = s.obstacle
      BY <2>1, Zenon DEF current
    <3>2. "stop" # "change"
      OBVIOUS
    <3> QED BY <2>1, <3>1, <3>2, Zenon
  <2>2. CASE ~ (Fresh(s.obstacle_time, t) /\ s.obstacle.action = "stop")
    BY <1>2, <2>2, Zenon DEF current
  <2> QED BY <2>1, <2>2
<1>4. s.active = NoDecision
  BY <1>1, <1>3, OffersAre
<1>5. s.obstacle \in ObstacleDecisions
  BY <1>1, <1>2, <1>3, Zenon DEF ObstacleOffer
<1> QED BY <1>3, <1>4, <1>5

\* begin_intersection() latches the offered line, or leaves everything as it is.
LEMMA BeginOK ==
    ASSUME NEW s, NEW t \in Nat, StateOK(s, t)
    PROVE  LET n == begin_intersection(s, t)
           IN  /\ StateOK(n, t)
               /\ \/ /\ n = s
                     /\ n.active.action = "intersection" => s.active.action = "intersection"
                  \/ /\ s.active = NoDecision /\ n.active = s.intersection
                     /\ s.intersection \in IntersectionDecisions
                     /\ Fresh(s.intersection_time, t)
                     /\ n.obstacle = s.obstacle /\ n.obstacle_time = s.obstacle_time
                     /\ n.intersection = s.intersection
                     /\ n.intersection_time = s.intersection_time
                     /\ n.intersections = s.intersections
                     /\ n.turns = s.turns /\ n.last_completed = s.last_completed
<1> DEFINE n == begin_intersection(s, t)
<1>1. s \in StateSet
  BY DEF StateOK
<1>2. CASE s.active.action # "intersection" /\ current(s, t).action = "intersection"
  <2>1. current(s, t) = s.intersection /\ Fresh(s.intersection_time, t)
    BY <1>1, <1>2, CurrentLine
  <2>2. s.intersection \in IntersectionDecisions /\ s.active = NoDecision
    BY <1>1, <1>2, <2>1, StateFields, OffersAre
  <2>3. n = [s EXCEPT !.active = s.intersection]
    BY <1>2, <2>1, Zenon DEF begin_intersection
  <2> HIDE DEF n
  <2>4. /\ n.obstacles = s.obstacles /\ n.intersections = s.intersections
        /\ n.obstacle = s.obstacle /\ n.obstacle_time = s.obstacle_time
        /\ n.intersection = s.intersection /\ n.intersection_time = s.intersection_time
        /\ n.active = s.intersection
        /\ n.turns = s.turns /\ n.last_completed = s.last_completed
    BY <1>1, <2>3 DEF StateSet
  <2>5. n \in StateSet
    <3>1. n = [obstacles |-> s.obstacles, intersections |-> s.intersections,
               obstacle |-> s.obstacle, intersection |-> s.intersection,
               active |-> s.intersection, obstacle_time |-> s.obstacle_time,
               intersection_time |-> s.intersection_time,
               last_completed |-> s.last_completed, turns |-> s.turns]
      BY <1>1, <2>3 DEF StateSet
    <3> QED BY <1>1, <3>1, StateFields, StateMade, Zenon
  <2>6. NoneRepeated(n)
    BY <2>4, Zenon DEF NoneRepeated, StateOK
  <2>7. StateOK(n, t)
    BY <2>4, <2>5, <2>6, Zenon DEF StateOK
  <2> QED BY <2>1, <2>2, <2>4, <2>7, Zenon DEF n
<1>3. CASE ~ (s.active.action # "intersection" /\ current(s, t).action = "intersection")
  BY <1>3, Zenon DEF begin_intersection
<1> QED BY <1>2, <1>3

\* mark_intersection_stopped() changes only whether the latched line needs a stop.
LEMMA StoppedOK ==
    ASSUME NEW s, NEW t \in Nat, StateOK(s, t), s.active.action = "intersection"
    PROVE  LET n == mark_intersection_stopped(s)
           IN  /\ StateOK(n, t)
               /\ n.active = [s.active EXCEPT !.needs_stop = FALSE]
               /\ n.obstacle = s.obstacle /\ n.obstacle_time = s.obstacle_time
               /\ n.intersection = s.intersection
               /\ n.intersection_time = s.intersection_time
               /\ n.intersections = s.intersections
               /\ n.turns = s.turns /\ n.last_completed = s.last_completed
<1> DEFINE n == mark_intersection_stopped(s)
           a == [s.active EXCEPT !.needs_stop = FALSE]
<1>1. s \in StateSet
  BY DEF StateOK
<1>2. s.active \in IntersectionDecisions
  BY <1>1, StateFields, OffersAre
<1>3. /\ a \in IntersectionDecisions /\ a.action = "intersection"
      /\ a.obstacle_id = s.active.obstacle_id /\ a.cls = s.active.cls /\ a.x = s.active.x
  BY <1>2 DEF IntersectionDecisions
<1>4. n = [s EXCEPT !.active = a]
  BY <1>1 DEF mark_intersection_stopped, StateSet
<1> HIDE DEF n, a
<1>5. /\ n.obstacles = s.obstacles /\ n.intersections = s.intersections
      /\ n.obstacle = s.obstacle /\ n.obstacle_time = s.obstacle_time
      /\ n.intersection = s.intersection /\ n.intersection_time = s.intersection_time
      /\ n.active = a /\ n.turns = s.turns /\ n.last_completed = s.last_completed
  BY <1>1, <1>4 DEF StateSet
<1>6. n \in StateSet
  <2>1. n = [obstacles |-> s.obstacles, intersections |-> s.intersections,
             obstacle |-> s.obstacle, intersection |-> s.intersection,
             active |-> a, obstacle_time |-> s.obstacle_time,
             intersection_time |-> s.intersection_time,
             last_completed |-> s.last_completed, turns |-> s.turns]
    BY <1>1, <1>4 DEF StateSet
  <2>2. a \in LineOffer
    BY <1>3, Zenon DEF LineOffer
  <2> QED BY <1>1, <2>1, <2>2, StateFields, StateMade, Zenon
<1>7. NoneRepeated(n)
  <2>1. ~ Remembered(IntersectionRules, s.intersections, s.active)
    BY Zenon DEF StateOK, NoneRepeated
  <2>2. ~ Remembered(IntersectionRules, s.intersections, a)
    BY <1>3, <2>1, Zenon DEF Remembered
  <2>3. s.intersection.action = "intersection"
          => ~ Remembered(IntersectionRules, s.intersections, s.intersection)
    BY Zenon DEF StateOK, NoneRepeated
  <2> QED BY <1>5, <2>2, <2>3, Zenon DEF NoneRepeated
<1>8. StateOK(n, t)
  BY <1>5, <1>6, <1>7, Zenon DEF StateOK
<1> QED BY <1>5, <1>8, Zenon DEF n, a

\* complete_intersection() remembers the line, clears the latch and uses up a turn.
LEMMA CompleteOK ==
    ASSUME NEW s, NEW t \in Nat, StateOK(s, t), NEW d \in IntersectionDecisions, s.turns > 0
    PROVE  LET n == complete_intersection(s, d, t)
           IN  /\ StateOK(n, t)
               /\ n.active = NoDecision /\ n.intersection = NoDecision
               /\ n.obstacle = s.obstacle /\ n.obstacle_time = s.obstacle_time
               /\ n.intersection_time = s.intersection_time
               /\ n.intersections.handled = Append(s.intersections.handled, Entry(d, t))
               /\ n.intersections.stop_sign_time = Never
               /\ n.turns = s.turns - 1 /\ n.last_completed = t
<1> DEFINE n == complete_intersection(s, d, t)
           m == mark_handled(s.intersections, d, t)
<1>1. s \in StateSet /\ DeciderOK(IntersectionRules, s.intersections, t, LineSlots, Lines)
  BY DEF StateOK
<1>2. d \in Decision /\ d.action = "intersection"
  BY DecisionsAre
<1>3. /\ DeciderOK(IntersectionRules, m, t, LineSlots, Lines)
      /\ m.handled = Append(s.intersections.handled, Entry(d, t))
      /\ m.stop_sign_time = Never
  <2>1. LineSlots \subseteq {d.action, "stop"} /\ d.action \in {"change", "intersection"}
    BY <1>2 DEF LineSlots
  <2> QED BY <1>1, <1>2, <2>1, IntersectionRulesOK, MarkHandledOK
<1>4. s.turns \in 0 .. Turns /\ s.turns - 1 \in 0 .. Turns
  BY <1>1, StateFields, SharedStateAssumption
<1>5. n = [s EXCEPT !.intersections = m, !.last_completed = t, !.active = NoDecision,
                    !.intersection = NoDecision, !.turns = s.turns - 1]
  BY <1>1 DEF complete_intersection, StateSet
<1> HIDE DEF n, m
<1>6. /\ n.obstacles = s.obstacles /\ n.intersections = m
      /\ n.obstacle = s.obstacle /\ n.obstacle_time = s.obstacle_time
      /\ n.intersection = NoDecision /\ n.intersection_time = s.intersection_time
      /\ n.active = NoDecision /\ n.turns = s.turns - 1 /\ n.last_completed = t
  BY <1>1, <1>5 DEF StateSet
<1>7. n \in StateSet
  <2>1. n = [obstacles |-> s.obstacles, intersections |-> m,
             obstacle |-> s.obstacle, intersection |-> NoDecision,
             active |-> NoDecision, obstacle_time |-> s.obstacle_time,
             intersection_time |-> s.intersection_time,
             last_completed |-> t, turns |-> s.turns - 1]
    BY <1>1, <1>5 DEF StateSet
  <2>2. NoDecision \in LineOffer /\ t \in Int /\ m \in DeciderSet
    BY <1>3 DEF LineOffer, DeciderOK
  <2> QED BY <1>1, <1>4, <2>1, <2>2, StateFields, StateMade, Zenon
<1>8. NoneRepeated(n)
  BY <1>6, DecisionsAre DEF NoneRepeated
<1>9. \A k \in DOMAIN m.handled : m.handled[k].cls = "stopline"
  <2> DEFINE h == s.intersections.handled
  <2>1. h \in Seq(Handled) /\ Entry(d, t) \in Handled /\ Entry(d, t).cls = "stopline"
    <3>1. s.intersections \in DeciderSet /\ t \in Int
      BY <1>1 DEF DeciderOK
    <3>2. d.cls = "stopline"
      BY DEF IntersectionDecisions
    <3> QED BY <1>2, <3>1, <3>2 DEF DeciderSet, Entry, Handled, Decision
  <2>2. \A k \in DOMAIN h : h[k].cls = "stopline"
    BY Zenon DEF StateOK
  <2> HIDE DEF h
  <2>3. /\ DOMAIN Append(h, Entry(d, t)) = 1 .. Len(h) + 1 /\ DOMAIN h = 1 .. Len(h)
        /\ Len(h) \in Nat
        /\ \A k \in 1 .. Len(h) : Append(h, Entry(d, t))[k] = h[k]
        /\ Append(h, Entry(d, t))[Len(h) + 1] = Entry(d, t)
    BY <2>1, AppendProperties
  <2>4. ASSUME NEW k \in 1 .. Len(h) + 1 PROVE Append(h, Entry(d, t))[k].cls = "stopline"
    <3>1. k \in DOMAIN h \/ k = Len(h) + 1
      BY <2>3
    <3> QED BY <2>1, <2>2, <2>3, <3>1, Zenon
  <2> QED BY <1>3, <2>3, <2>4, Zenon DEF h
<1>10. StateOK(n, t)
  BY <1>3, <1>6, <1>7, <1>8, <1>9, Zenon DEF StateOK
<1> QED BY <1>3, <1>6, <1>10, Zenon DEF n

\* SharedState::mark_handled() remembers the obstacle and may withdraw its decision.
LEMMA MarkObstacleOK ==
    ASSUME NEW s, NEW t \in Nat, StateOK(s, t), NEW d \in ObstacleDecisions,
           d.action = "change"
    PROVE  LET n == mark_obstacle_handled(s, d, t)
           IN  /\ StateOK(n, t)
               /\ n.obstacle \in {s.obstacle, NoDecision}
               /\ n.obstacle_time = s.obstacle_time
               /\ n.intersection = s.intersection
               /\ n.intersection_time = s.intersection_time
               /\ n.intersections = s.intersections /\ n.active = s.active
               /\ n.turns = s.turns /\ n.last_completed = s.last_completed
<1> DEFINE n == mark_obstacle_handled(s, d, t)
           m == mark_handled(s.obstacles, d, t)
           o == IF s.obstacle.action = d.action /\ s.obstacle.obstacle_id = d.obstacle_id
                  THEN NoDecision ELSE s.obstacle
<1>1. s \in StateSet /\ DeciderOK(ObstacleRules, s.obstacles, t, ObstacleSlots, Detection)
  BY DEF StateOK
<1>2. DeciderOK(ObstacleRules, m, t, ObstacleSlots, Detection)
  <2>1. d \in Decision
    BY DecisionsAre
  <2>2. ObstacleSlots \subseteq {d.action, "stop"} /\ d.action \in {"change", "intersection"}
    BY DEF ObstacleSlots
  <2> QED BY <1>1, <2>1, <2>2, ObstacleRulesOK, MarkHandledOK
<1>3. n = [s EXCEPT !.obstacles = m, !.obstacle = o]
  BY <1>1 DEF mark_obstacle_handled, StateSet
<1>4. o \in {s.obstacle, NoDecision}
  BY Zenon
<1> HIDE DEF n, m, o
<1>5. /\ n.obstacles = m /\ n.intersections = s.intersections
      /\ n.obstacle = o /\ n.obstacle_time = s.obstacle_time
      /\ n.intersection = s.intersection /\ n.intersection_time = s.intersection_time
      /\ n.active = s.active /\ n.turns = s.turns /\ n.last_completed = s.last_completed
  BY <1>1, <1>3 DEF StateSet
<1>6. n \in StateSet
  <2>1. n = [obstacles |-> m, intersections |-> s.intersections,
             obstacle |-> o, intersection |-> s.intersection,
             active |-> s.active, obstacle_time |-> s.obstacle_time,
             intersection_time |-> s.intersection_time,
             last_completed |-> s.last_completed, turns |-> s.turns]
    BY <1>1, <1>3 DEF StateSet
  <2>2. s.obstacle \in ObstacleOffer /\ NoDecision \in ObstacleOffer
    BY <1>1, StateFields DEF ObstacleOffer
  <2>3. o \in ObstacleOffer /\ m \in DeciderSet
    BY <1>2, <1>4, <2>2, Zenon DEF DeciderOK
  <2> QED BY <1>1, <2>1, <2>3, StateFields, StateMade, Zenon
<1>7. NoneRepeated(n)
  BY <1>5, Zenon DEF NoneRepeated, StateOK
<1>8. StateOK(n, t)
  BY <1>2, <1>5, <1>6, <1>7, Zenon DEF StateOK
<1> QED BY <1>4, <1>5, <1>8, Zenon DEF n

-----------------------------------------------------------------------------
(* The lists that IntersectionInput builds *)

\* A list holds one line, and perhaps a sign dated with the remembered stamp, which is
\* then later than the last completed maneuver.
LEMMA LineListsOK ==
    ASSUME NEW stamp \in Int, NEW dets \in LineLists(stamp)
    PROVE  /\ dets \in Seq(Detection)
           /\ Fills(IntersectionRules, dets, LineSlots, Lines)
           /\ \A k \in DOMAIN dets : MarksStopSign(IntersectionRules, dets[k])
                 => dets[k].observed_at = stamp /\ stamp > state.last_completed
<1>1. CASE dets = <<>>
  <2>1. dets \in Seq(Detection) /\ DOMAIN dets = {}
    BY <1>1
  <2> QED BY <2>1, Zenon DEF Fills
<1>2. ASSUME NEW d \in LineRanges, NEW x \in LineSpots,
             dets = add_real_sign(<<line_detection(d, x)>>, stamp)
      PROVE  /\ dets \in Seq(Detection)
             /\ Fills(IntersectionRules, dets, LineSlots, Lines)
             /\ \A k \in DOMAIN dets : MarksStopSign(IntersectionRules, dets[k])
                   => dets[k].observed_at = stamp /\ stamp > state.last_completed
  <2> DEFINE l == line_detection(d, x)
             g == [l EXCEPT !.cls = "sign", !.observed_at = stamp]
  <2>1. d \in Int /\ x \in Int /\ "stopline" \in ClassName /\ "sign" \in ClassName
    BY IntersectionInputAssumption, ClassTableAssumption
  <2>2. l \in Detection /\ l.cls = "stopline" /\ l.id = NoId
    BY <2>1, SpecialNumbers DEF line_detection, Detection
  <2>3. g \in Detection /\ g.cls = "sign" /\ g.observed_at = stamp
    <3> HIDE DEF l
    <3> QED BY <2>1, <2>2 DEF Detection
  <2>4. /\ Triggers(IntersectionRules, l) => Rule(IntersectionRules, l).action = "intersection"
        /\ ~ MarksStopSign(IntersectionRules, l)
        /\ Triggers(IntersectionRules, g) => Rule(IntersectionRules, g).action = "none"
    BY <2>2, <2>3, IntersectionRulesOK, Zenon DEF MarksStopSign
  <2>5. l \in Lines /\ "intersection" \in LineSlots
    BY <2>2 DEF Lines, LineSlots
  <2>6. \/ dets = <<l>>
        \/ dets = Append(<<l>>, [<<l>>[1] EXCEPT !.cls = "sign", !.observed_at = stamp])
           /\ stamp > state.last_completed
    BY <1>2, Zenon DEF add_real_sign
  <2>7. <<l>>[1] = l
    OBVIOUS
  <2>8. \/ dets = <<l>>
        \/ dets = Append(<<l>>, g) /\ stamp > state.last_completed
    BY <2>6, <2>7, Zenon
  <2> HIDE DEF l, g
  <2>9. CASE dets = <<l>>
    <3>1. dets \in Seq(Detection) /\ \A k \in DOMAIN dets : dets[k] = l
      BY <2>2, <2>9
    <3> QED BY <2>4, <2>5, <3>1, Zenon DEF Fills
  <2>10. CASE dets = Append(<<l>>, g) /\ stamp > state.last_completed
    <3>1. <<l>> \in Seq(Detection) /\ Len(<<l>>) = 1 /\ <<l>>[1] = l
      BY <2>2
    <3>2. /\ dets \in Seq(Detection) /\ Len(dets) = 2
          /\ dets[1] = l /\ dets[2] = g
      BY <2>3, <2>10, <3>1, AppendProperties
    <3>3. \A k \in DOMAIN dets : k = 1 \/ k = 2
      BY <3>2
    <3>4. \A k \in DOMAIN dets : dets[k] = l \/ dets[k] = g
      BY <3>2, <3>3, Zenon
    <3> QED BY <2>3, <2>4, <2>5, <2>10, <3>2, <3>4, Zenon DEF Fills
  <2> QED BY <2>8, <2>9, <2>10
<1>3. dets = <<>> \/ \E d \in LineRanges, x \in LineSpots :
                        dets = add_real_sign(<<line_detection(d, x)>>, stamp)
  BY DEF LineLists
<1> QED BY <1>1, <1>2, <1>3, Zenon

\* The sign time after such a list: as before, or the remembered stamp.
LEMMA SignTimeAfter ==
    ASSUME NEW r, NEW stamp \in Int, NEW dets \in LineLists(stamp), NEW t,
           state.last_completed \in Int, Never <= state.last_completed
    PROVE  LET sign == SignTime(IntersectionRules, r, dets, t)
           IN  sign = r.stop_sign_time \/ (sign = stamp /\ stamp > state.last_completed)
<1> DEFINE sign == SignTime(IntersectionRules, r, dets, t)
<1>1. /\ dets \in Seq(Detection)
      /\ \A k \in DOMAIN dets : MarksStopSign(IntersectionRules, dets[k])
            => dets[k].observed_at = stamp /\ stamp > state.last_completed
  BY LineListsOK, Zenon
<1>2. \/ sign = r.stop_sign_time
      \/ \E k \in DOMAIN dets :
            /\ MarksStopSign(IntersectionRules, dets[k])
            /\ sign = IF dets[k].observed_at = NaN THEN t ELSE dets[k].observed_at
  <2>1. dets \in Seq(Detection)
    BY <1>1
  <2>2. \/ /\ \A k \in DOMAIN dets : ~ MarksStopSign(IntersectionRules, dets[k])
           /\ sign = r.stop_sign_time
        \/ \E k \in DOMAIN dets :
              /\ MarksStopSign(IntersectionRules, dets[k])
              /\ sign = IF dets[k].observed_at = NaN THEN t ELSE dets[k].observed_at
    BY <2>1, SignTimeIs
  <2> HIDE DEF sign
  <2> QED BY <2>2, Zenon
<1>3. stamp > state.last_completed => stamp # NaN
  BY SpecialNumbers
<1> HIDE DEF sign
<1>4. sign = r.stop_sign_time \/ (sign = stamp /\ stamp > state.last_completed)
  BY <1>1, <1>2, <1>3, Zenon
<1> QED BY <1>4 DEF sign

-----------------------------------------------------------------------------
(* The inductive invariant *)

\* The goal that is outstanding, and the latch: a turn is the latched one, was sent after
\* its stop and has a turn to use up; a lane change runs only while nothing is latched.
SentOK(s, d) ==
    /\ d \in ObstacleOffer \cup LineOffer
    /\ d.action # "stop"
    /\ d.action = "intersection" => d = s.active /\ ~ d.needs_stop /\ s.turns > 0
    /\ d.action = "change" => s.active = NoDecision

Stamps(t) == {Never} \cup 0 .. t + ClockSkew

\* The Decider's sign is the one IntersectionInput remembers, and newer than the last
\* completed maneuver.
SignOK(s, t, real, input) ==
    /\ real \in Stamps(t) /\ input \in Stamps(t)
    /\ s.intersections.stop_sign_time \in Stamps(t)
    /\ s.intersections.stop_sign_time \in {Never, real}
    /\ s.intersections.stop_sign_time # Never
          => s.intersections.stop_sign_time > s.last_completed
    /\ Never <= s.last_completed

Inv ==
    /\ now \in 0 .. MaxTime
    /\ marked \in 0 .. MaxHandled
    /\ StateOK(state, now)
    /\ SentOK(state, sent)
    /\ SignOK(state, now, real_sign_stamp, sign_input_stamp)

\* The invariant holds initially.
LEMMA InvInit == InputInit => Inv
<1> SUFFICES ASSUME InputInit PROVE Inv
  OBVIOUS
<1>1. /\ now = 0 /\ state = NewState /\ sent = NoDecision /\ marked = 0
      /\ real_sign_stamp = Never /\ sign_input_stamp = Never
  BY DEF InputInit, Init
<1>2. now \in 0 .. MaxTime /\ marked \in 0 .. MaxHandled
  BY <1>1, SharedStateAssumption
<1>3. /\ state.obstacles = NewDecider /\ state.intersections = NewDecider
      /\ state.intersection = NoDecision /\ state.active = NoDecision
      /\ state.last_completed = Never
  BY <1>1 DEF NewState
<1>4. /\ DeciderOK(ObstacleRules, NewDecider, 0, ObstacleSlots, Detection)
      /\ DeciderOK(IntersectionRules, NewDecider, 0, LineSlots, Lines)
  BY NewDeciderOK, ObstacleRulesOK, IntersectionRulesOK
<1>5. state \in StateSet
  <2>1. Turns \in 0 .. Turns
    BY SharedStateAssumption
  <2>2. NewDecider \in DeciderSet /\ Never \in Int
    BY <1>4, SpecialNumbers DEF DeciderOK
  <2>3. NoDecision \in LineOffer /\ NoDecision \in ObstacleOffer
    BY DEF LineOffer, ObstacleOffer
  <2> QED BY <1>1, <2>1, <2>2, <2>3, StateMade, Zenon DEF NewState
<1>6. NoneRepeated(state)
  BY <1>3, DecisionsAre DEF NoneRepeated
<1>7. \A k \in DOMAIN NewDecider.handled : NewDecider.handled[k].cls = "stopline"
  BY DEF NewDecider
<1>8. StateOK(state, now)
  BY <1>1, <1>3, <1>4, <1>5, <1>6, <1>7, Zenon DEF StateOK
<1>9. SentOK(state, sent)
  BY <1>1, DecisionsAre DEF SentOK, ObstacleOffer
<1>10. SignOK(state, now, real_sign_stamp, sign_input_stamp)
  <2>1. state.intersections.stop_sign_time = Never
    BY <1>3 DEF NewDecider
  <2> QED BY <1>1, <1>3, <2>1, SpecialNumbers DEF SignOK, Stamps
<1> QED BY <1>2, <1>8, <1>9, <1>10 DEF Inv

\* SentOK reads the latch and the turns only.
LEMMA SentSame ==
    ASSUME NEW s, NEW n, NEW d, SentOK(s, d), n.active = s.active, n.turns = s.turns
    PROVE  SentOK(n, d)
BY Zenon DEF SentOK

\* SignOK reads the time of the sign and of the last completion only.
LEMMA SignSame ==
    ASSUME NEW s, NEW n, NEW t, NEW real, NEW input, SignOK(s, t, real, input),
           n.intersections.stop_sign_time = s.intersections.stop_sign_time,
           n.last_completed = s.last_completed
    PROVE  SignOK(n, t, real, input)
BY Zenon DEF SignOK

\* What the invariant says of the clock.
LEMMA InvTime == Inv => now \in Nat
BY SharedStateAssumption DEF Inv

\* A list of the intersection stream keeps the invariant: it changes neither the latch nor
\* the other stream, and a sign it brings is the remembered one.
LEMMA LineListKeeps ==
    ASSUME Inv, NEW real \in Stamps(now), NEW input \in Stamps(now),
           NEW dets \in LineLists(real), NEW reset \in BOOLEAN,
           reset \/ real = real_sign_stamp
    PROVE  LET n == on_intersection_detections(state, dets, reset, now)
           IN  /\ StateOK(n, now) /\ SentOK(n, sent) /\ SignOK(n, now, real, input)
               /\ n.obstacle = state.obstacle /\ n.obstacle_time = state.obstacle_time
               /\ n.active = state.active /\ n.turns = state.turns
               /\ Covers(state.intersections.handled, n.intersections.handled)
<1> DEFINE n == on_intersection_detections(state, dets, reset, now)
           r == IF reset THEN clear_stop_sign(state.intersections) ELSE state.intersections
<1>1. /\ StateOK(state, now) /\ SentOK(state, sent) /\ now \in Nat
      /\ SignOK(state, now, real_sign_stamp, sign_input_stamp)
  BY InvTime DEF Inv
<1>2. real \in Int
  BY <1>1, SpecialNumbers, IntersectionInputAssumption DEF Stamps
<1>3. dets \in Seq(Detection) /\ Fills(IntersectionRules, dets, LineSlots, Lines)
  BY <1>2, LineListsOK
<1>4. /\ StateOK(n, now)
      /\ n.obstacle = state.obstacle /\ n.obstacle_time = state.obstacle_time
      /\ n.active = state.active /\ n.turns = state.turns
      /\ n.last_completed = state.last_completed
      /\ Covers(state.intersections.handled, n.intersections.handled)
      /\ n.intersections.stop_sign_time = SignTime(IntersectionRules, r, dets, now)
  BY <1>1, <1>3, OnIntersectionOK
<1>5. r.stop_sign_time = IF reset THEN Never ELSE state.intersections.stop_sign_time
  BY <1>1, ClearOK DEF StateOK
<1>6. state.last_completed \in Int /\ Never <= state.last_completed
  BY <1>1, StateFields DEF StateOK, SignOK
<1> HIDE DEF n, r
<1>7. \/ n.intersections.stop_sign_time = r.stop_sign_time
      \/ /\ n.intersections.stop_sign_time = real
         /\ real > state.last_completed
  BY <1>2, <1>4, <1>6, SignTimeAfter
<1>8. SignOK(n, now, real, input)
  <2>1. Never \in Stamps(now)
    BY Zenon DEF Stamps
  <2>2. CASE n.intersections.stop_sign_time = real /\ real > state.last_completed
    BY <1>4, <1>6, <2>2, Zenon DEF SignOK
  <2>3. CASE n.intersections.stop_sign_time = r.stop_sign_time
    <3>1. CASE reset
      BY <1>4, <1>5, <1>6, <2>1, <2>3, <3>1, Zenon DEF SignOK
    <3>2. CASE ~ reset
      BY <1>1, <1>4, <1>5, <1>6, <2>3, <3>2, Zenon DEF SignOK
    <3> QED BY <3>1, <3>2
  <2> QED BY <1>7, <2>2, <2>3
<1>9. SentOK(n, sent)
  BY <1>1, <1>4, SentSame
<1> QED BY <1>4, <1>8, <1>9, Zenon DEF n

\* Stamps that pass fresh() are stamps of the present.
LEMMA FreshIsStamp ==
    ASSUME now \in Nat, NEW stamp \in FreshStamps
    PROVE  stamp \in Stamps(now)
<1>1. stamp \in Nat /\ now - stamp >= - ClockSkew
  BY SharedStateAssumption, IntersectionInputAssumption DEF FreshStamps, fresh
<1>2. stamp \in 0 .. now + ClockSkew
  BY <1>1, IntersectionInputAssumption
<1> QED BY <1>2 DEF Stamps

\* The invariant holds again after a callback of the intersection stream.
LEMMA InputKeepsInv ==
    ASSUME Inv,
           \/ \E stamp \in FreshStamps :
                 OnSignUnranged(stamp) \/ (\E real \in BOOLEAN : OnSign(stamp, real))
           \/ OnLine
    PROVE  Inv'
<1>1. /\ now \in 0 .. MaxTime /\ marked \in 0 .. MaxHandled /\ now \in Nat
      /\ real_sign_stamp \in Stamps(now) /\ sign_input_stamp \in Stamps(now)
      /\ Never \in Stamps(now)
  BY InvTime DEF Inv, SignOK, Stamps
<1>2. ASSUME NEW stamp \in FreshStamps, OnSignUnranged(stamp) PROVE Inv'
  <2>1. /\ now' = now /\ sent' = sent /\ marked' = marked
        /\ real_sign_stamp' = real_sign_stamp /\ sign_input_stamp' = stamp
        /\ state' = on_intersection_detections(state, <<>>, FALSE, now)
    BY <1>2 DEF OnSignUnranged
  <2>2. stamp \in Stamps(now)
    BY <1>1, FreshIsStamp
  <2>3. <<>> \in LineLists(real_sign_stamp)
    BY DEF LineLists
  <2>4. /\ StateOK(state', now) /\ SentOK(state', sent)
        /\ SignOK(state', now, real_sign_stamp, stamp)
    BY <1>1, <2>1, <2>2, <2>3, LineListKeeps
  <2> QED BY <1>1, <2>1, <2>4 DEF Inv
<1>3. ASSUME NEW stamp \in FreshStamps, NEW real \in BOOLEAN, OnSign(stamp, real) PROVE Inv'
  <2>1. /\ now' = now /\ sent' = sent /\ marked' = marked
        /\ real_sign_stamp' = IF real THEN stamp ELSE Never
        /\ sign_input_stamp' = stamp
    BY <1>3 DEF OnSign
  <2>2. PICK dets \in LineLists(real_sign_stamp') :
          state' = on_intersection_detections(state, dets, TRUE, now)
    BY <1>3 DEF OnSign
  <2>3. stamp \in Stamps(now)
    BY <1>1, FreshIsStamp
  <2>4. real_sign_stamp' \in Stamps(now)
    BY <1>1, <2>1, <2>3, Zenon
  <2>5. /\ StateOK(state', now) /\ SentOK(state', sent)
        /\ SignOK(state', now, real_sign_stamp', stamp)
    BY <2>2, <2>3, <2>4, LineListKeeps
  <2> QED BY <1>1, <2>1, <2>5 DEF Inv
<1>4. ASSUME OnLine PROVE Inv'
  <2>1. /\ now' = now /\ sent' = sent /\ marked' = marked
        /\ real_sign_stamp' = real_sign_stamp /\ sign_input_stamp' = sign_input_stamp
    BY <1>4 DEF OnLine, inputVars
  <2>2. PICK dets \in LineLists(real_sign_stamp) :
          state' = on_intersection_detections(state, dets, FALSE, now)
    BY <1>4 DEF OnLine
  <2>3. /\ StateOK(state', now) /\ SentOK(state', sent)
        /\ SignOK(state', now, real_sign_stamp, sign_input_stamp)
    BY <1>1, <2>2, LineListKeeps
  <2> QED BY <1>1, <2>1, <2>3 DEF Inv
<1> QED BY <1>2, <1>3, <1>4

\* The invariant holds again after a step of the clock or of the obstacle stream.
LEMMA ObstacleKeepsInv ==
    ASSUME Inv, ObstacleNext, UNCHANGED inputVars
    PROVE  Inv'
<1>1. /\ now \in 0 .. MaxTime /\ marked \in 0 .. MaxHandled /\ now \in Nat
      /\ StateOK(state, now) /\ state \in StateSet /\ SentOK(state, sent)
      /\ SignOK(state, now, real_sign_stamp, sign_input_stamp)
  BY InvTime DEF Inv, StateOK
<1>2. real_sign_stamp' = real_sign_stamp /\ sign_input_stamp' = sign_input_stamp
  BY DEF inputVars
<1>3. ASSUME TimePasses PROVE Inv'
  <2>1. now' = now + 1 /\ now < MaxTime /\ state' = state /\ sent' = sent /\ marked' = marked
    BY <1>3 DEF TimePasses
  <2>2. now + 1 \in 0 .. MaxTime
    BY <1>1, <2>1, SharedStateAssumption
  <2>3. StateOK(state, now + 1)
    BY <1>1, LaterOK, ObstacleRulesOK, IntersectionRulesOK, Zenon DEF StateOK
  <2>4. Stamps(now) \subseteq Stamps(now + 1)
    BY <1>1, IntersectionInputAssumption DEF Stamps
  <2>5. SignOK(state, now + 1, real_sign_stamp, sign_input_stamp)
    BY <1>1, <2>4, Zenon DEF SignOK
  <2> QED BY <1>1, <1>2, <2>1, <2>2, <2>3, <2>5 DEF Inv
<1>4. ASSUME NEW dets \in ObstacleLists, OnObstacles(dets) PROVE Inv'
  <2>1. /\ now' = now /\ sent' = sent /\ marked' = marked
        /\ state' = on_detections(state, dets, now)
    BY <1>4 DEF OnObstacles
  <2>2. dets \in Seq(Detection)
    BY SharedStateAssumption
  <2>3. /\ StateOK(state', now) /\ state'.intersections = state.intersections
        /\ state'.active = state.active /\ state'.turns = state.turns
        /\ state'.last_completed = state.last_completed
    BY <1>1, <2>1, <2>2, OnDetectionsOK
  <2>4. SentOK(state', sent)
    BY <1>1, <2>3, SentSame
  <2>5. SignOK(state', now, real_sign_stamp, sign_input_stamp)
    BY <1>1, <2>3, SignSame
  <2> QED BY <1>1, <1>2, <2>1, <2>3, <2>4, <2>5 DEF Inv
<1>5. ASSUME SendChange PROVE Inv'
  <2>1. /\ now' = now /\ state' = state /\ marked' = marked
        /\ sent' = current(state, now) /\ current(state, now).action = "change"
    BY <1>5 DEF SendChange
  <2>2. /\ sent' = state.obstacle /\ state.active = NoDecision
        /\ sent' \in ObstacleDecisions /\ sent'.action = "change"
    BY <1>1, <2>1, CurrentChange
  <2>3. SentOK(state, sent')
    BY <2>2 DEF SentOK, ObstacleOffer
  <2> QED BY <1>1, <1>2, <2>1, <2>3 DEF Inv
<1>6. ASSUME ChangeSucceeds PROVE Inv'
  <2>1. /\ now' = now /\ sent' = NoDecision /\ marked' = marked + 1 /\ marked < MaxHandled
        /\ sent.action = "change" /\ state' = mark_obstacle_handled(state, sent, now)
    BY <1>6 DEF ChangeSucceeds
  <2>2. sent \in ObstacleDecisions
    BY <1>1, <2>1, OffersAre, DecisionsAre DEF SentOK, ObstacleOffer, LineOffer
  <2>3. /\ StateOK(state', now) /\ state'.intersections = state.intersections
        /\ state'.last_completed = state.last_completed
    BY <1>1, <2>1, <2>2, MarkObstacleOK
  <2>4. SignOK(state', now, real_sign_stamp, sign_input_stamp)
    BY <1>1, <2>3, SignSame
  <2>5. SentOK(state', NoDecision)
    BY DecisionsAre DEF SentOK, ObstacleOffer
  <2>6. marked' \in 0 .. MaxHandled
    BY <1>1, <2>1, SharedStateAssumption
  <2> QED BY <1>1, <1>2, <2>1, <2>3, <2>4, <2>5, <2>6 DEF Inv
<1>7. ASSUME GoalDropped PROVE Inv'
  <2>1. now' = now /\ state' = state /\ marked' = marked /\ sent' = NoDecision
    BY <1>7 DEF GoalDropped
  <2>2. SentOK(state, NoDecision)
    BY DecisionsAre DEF SentOK, ObstacleOffer
  <2> QED BY <1>1, <1>2, <2>1, <2>2 DEF Inv
<1> QED BY <1>3, <1>4, <1>5, <1>6, <1>7 DEF ObstacleNext

\* The invariant holds again after a step of the nodes of the intersection branch.
LEMMA TurnKeepsInv ==
    ASSUME Inv, Begin \/ MarkStopped \/ SendTurn \/ TurnSucceeds, UNCHANGED inputVars
    PROVE  Inv'
<1>1. /\ now \in 0 .. MaxTime /\ marked \in 0 .. MaxHandled /\ now \in Nat
      /\ StateOK(state, now) /\ state \in StateSet /\ SentOK(state, sent)
      /\ SignOK(state, now, real_sign_stamp, sign_input_stamp)
  BY InvTime DEF Inv, StateOK
<1>2. real_sign_stamp' = real_sign_stamp /\ sign_input_stamp' = sign_input_stamp
  BY DEF inputVars
<1>3. SentOK(state', NoDecision)
  BY DecisionsAre DEF SentOK, ObstacleOffer
<1>4. ASSUME Begin PROVE Inv'
  <2>1. /\ now' = now /\ marked' = marked /\ state' = begin_intersection(state, now)
        /\ sent' = IF sent.action = "change" THEN NoDecision ELSE sent
    BY <1>4 DEF Begin
  <2>2. StateOK(state', now)
    BY <1>1, <2>1, BeginOK
  <2>3. \/ state' = state
        \/ /\ state.active = NoDecision /\ state'.intersections = state.intersections
           /\ state'.last_completed = state.last_completed
    BY <1>1, <2>1, BeginOK
  <2>4. SignOK(state', now, real_sign_stamp, sign_input_stamp)
    BY <1>1, <2>3, SignSame, Zenon
  <2>5. SentOK(state', sent')
    <3>1. CASE sent.action = "change"
      BY <1>3, <2>1, <3>1, Zenon
    <3>2. CASE sent.action # "change" /\ state' = state
      BY <1>1, <2>1, <3>2, Zenon
    <3>3. CASE sent.action # "change" /\ state.active = NoDecision
      <4>1. sent.action # "intersection"
        BY <1>1, <3>3, DecisionsAre DEF SentOK
      <4>2. sent' = sent
        BY <2>1, <3>3, Zenon
      <4> QED BY <1>1, <3>3, <4>1, <4>2, Zenon DEF SentOK
    <3> QED BY <2>3, <3>1, <3>2, <3>3, Zenon
  <2> QED BY <1>1, <1>2, <2>1, <2>2, <2>4, <2>5 DEF Inv
<1>5. ASSUME MarkStopped PROVE Inv'
  <2>1. /\ now' = now /\ sent' = sent /\ marked' = marked
        /\ state.active.action = "intersection" /\ state.active.needs_stop
        /\ state' = mark_intersection_stopped(state)
    BY <1>5 DEF MarkStopped
  <2>2. /\ StateOK(state', now) /\ state'.intersections = state.intersections
        /\ state'.last_completed = state.last_completed
    BY <1>1, <2>1, StoppedOK
  <2>3. SignOK(state', now, real_sign_stamp, sign_input_stamp)
    BY <1>1, <2>2, SignSame, Zenon
  <2>4. sent.action # "intersection" /\ sent.action # "change"
    BY <1>1, <2>1, DecisionsAre DEF SentOK
  <2>5. SentOK(state', sent)
    BY <1>1, <2>4, Zenon DEF SentOK
  <2> QED BY <1>1, <1>2, <2>1, <2>2, <2>3, <2>5 DEF Inv
<1>6. ASSUME SendTurn PROVE Inv'
  <2>1. /\ now' = now /\ state' = state /\ marked' = marked
        /\ state.active.action = "intersection" /\ ~ state.active.needs_stop
        /\ state.turns > 0 /\ sent' = state.active
    BY <1>6 DEF SendTurn
  <2>2. state.active \in LineOffer
    BY <1>1, StateFields
  <2>3. SentOK(state, state.active)
    BY <2>1, <2>2 DEF SentOK
  <2> QED BY <1>1, <1>2, <2>1, <2>3 DEF Inv
<1>7. ASSUME TurnSucceeds PROVE Inv'
  <2>1. /\ now' = now /\ sent' = NoDecision /\ marked' = marked + 1 /\ marked < MaxHandled
        /\ sent.action = "intersection" /\ state' = complete_intersection(state, sent, now)
    BY <1>7 DEF TurnSucceeds
  <2>2. sent \in IntersectionDecisions /\ state.turns > 0
    BY <1>1, <2>1, DecisionsAre DEF SentOK, ObstacleOffer, LineOffer
  <2>3. /\ StateOK(state', now) /\ state'.intersections.stop_sign_time = Never
        /\ state'.last_completed = now
    BY <1>1, <2>1, <2>2, CompleteOK
  <2>4. SignOK(state', now, real_sign_stamp, sign_input_stamp)
    <3>1. Never \in Stamps(now)
      BY DEF Stamps
    <3>2. Never <= now
      BY <1>1, SpecialNumbers
    <3> QED BY <1>1, <2>3, <3>1, <3>2, Zenon DEF SignOK
  <2>5. marked' \in 0 .. MaxHandled
    BY <1>1, <2>1, SharedStateAssumption
  <2> QED BY <1>1, <1>2, <1>3, <2>1, <2>3, <2>4, <2>5 DEF Inv
<1> QED BY <1>4, <1>5, <1>6, <1>7

\* The invariant is inductive.
LEMMA InvNext == Inv /\ [InputNext]_vars => Inv'
<1> SUFFICES ASSUME Inv, [InputNext]_vars PROVE Inv'
  OBVIOUS
<1>1. CASE UNCHANGED vars
  BY <1>1 DEF vars, inputVars, Inv
<1>2. CASE ObstacleNext /\ UNCHANGED inputVars
  BY <1>2, ObstacleKeepsInv
<1>3. CASE (Begin \/ MarkStopped \/ SendTurn \/ TurnSucceeds) /\ UNCHANGED inputVars
  BY <1>3, TurnKeepsInv
<1>4. CASE \/ \E stamp \in FreshStamps :
                 OnSignUnranged(stamp) \/ (\E real \in BOOLEAN : OnSign(stamp, real))
           \/ OnLine
  BY <1>4, InputKeepsInv
<1> QED BY <1>1, <1>2, <1>3, <1>4 DEF InputNext

\* Every reachable state satisfies the invariant.
LEMMA InvAlways == Spec => []Inv
BY InvInit, InvNext, PTL DEF Spec

-----------------------------------------------------------------------------
(* The invariants that the runs check *)

\* A Decider that satisfies its invariant is within its bounds.
LEMMA DeciderTyped ==
    ASSUME NEW cfg, cfg.hold = Config.hold, cfg.confirm = Config.confirm, NEW A, NEW S,
           NEW r, DeciderOK(cfg, r, now, A, S)
    PROVE  DeciderType(r)
<1>1. r.hits \in [Slot -> Nat]
  BY DEF DeciderOK, DeciderSet
<1> QED BY <1>1, Zenon DEF DeciderOK, DeciderType

\* The invariant implies the type invariants.
LEMMA InvTyped == Inv => TypeOK /\ InputTypeOK
<1> SUFFICES ASSUME Inv PROVE TypeOK /\ InputTypeOK
  OBVIOUS
<1>1. /\ now \in 0 .. MaxTime /\ marked \in 0 .. MaxHandled
      /\ StateOK(state, now) /\ state \in StateSet /\ SentOK(state, sent)
      /\ SignOK(state, now, real_sign_stamp, sign_input_stamp)
  BY DEF Inv, StateOK
<1>2. DeciderType(state.obstacles) /\ DeciderType(state.intersections)
  BY <1>1, DeciderTyped, ObstacleRulesOK, IntersectionRulesOK, Zenon DEF StateOK
<1>3. /\ state.obstacle \in ObstacleOffer /\ state.intersection \in LineOffer
      /\ state.active \in LineOffer /\ state.turns \in 0 .. Turns
  BY <1>1, StateFields
<1>4. sent \in Decision
  BY <1>1, OffersAre DEF SentOK
<1>5. \A d \in {state.obstacle, state.intersection, state.active, sent} : d \in Decision
  BY <1>3, <1>4, OffersAre
<1>6. /\ state.obstacle.action # "intersection"
      /\ state.intersection.action \in {"none", "intersection"}
      /\ state.active.action \in {"none", "intersection"}
  BY <1>3, OffersAre
<1>7. TypeOK
  BY <1>1, <1>2, <1>3, <1>5, <1>6, Zenon DEF TypeOK
<1>8. {real_sign_stamp, sign_input_stamp, state.intersections.stop_sign_time}
        \subseteq {Never} \cup 0 .. now + ClockSkew
  BY <1>1, Zenon DEF SignOK, Stamps
<1> QED BY <1>7, <1>8 DEF InputTypeOK

\* The clock, the counters, the holds and the memories of both Deciders and every decision
\* keep their types and bounds, whatever lists arrive: hits_ never exceeds the number that
\* confirms, no hold reaches further than its length into the future, and no memory is
\* dated in it.
THEOREM Typed == Spec => []TypeOK
<1>1. Inv => TypeOK
  BY InvTyped
<1> QED BY <1>1, InvAlways, PTL

\* The stamps that IntersectionInput and the Decider remember are never further ahead of
\* the clock than fresh() tolerates.
THEOREM InputTyped == Spec => []InputTypeOK
<1>1. Inv => InputTypeOK
  BY InvTyped
<1> QED BY <1>1, InvAlways, PTL

\* No slot of either Decider is ever held for an obstacle that the Decider remembers as
\* handled.
THEOREM NothingHandledIsHeld == Spec => []HoldsNothingHandled
<1>1. Inv => HoldsNothingHandled
  <2> SUFFICES ASSUME Inv PROVE HoldsNothingHandled
    OBVIOUS
  <2>1. /\ HoldsUnhandled(ObstacleRules, state.obstacles, now)
        /\ HoldsUnhandled(IntersectionRules, state.intersections, now)
    BY DEF Inv, StateOK, DeciderOK
  <2> QED BY <2>1, Zenon DEF HoldsUnhandled, HoldsNothingHandled
<1> QED BY <1>1, InvAlways, PTL

\* A completed stop line is neither offered nor latched again while it is remembered.
THEOREM IntersectionNotRepeated == Spec => []NoRepeatedIntersection
<1>1. Inv => NoRepeatedIntersection
  BY Zenon DEF Inv, StateOK, NoneRepeated, NoRepeatedIntersection
<1> QED BY <1>1, InvAlways, PTL

\* The goal of a turn that is outstanding is the one of the latched maneuver, and was sent
\* after its stop (IntersectionTurn::setGoal).
THEOREM TurnLatched ==
    Spec => [](sent.action = "intersection" => sent = state.active /\ ~ sent.needs_stop)
<1>1. Inv => (sent.action = "intersection" => sent = state.active /\ ~ sent.needs_stop)
  BY Zenon DEF Inv, SentOK
<1> QED BY <1>1, InvAlways, PTL

\* The sign that demands a stop is the latest ranged sign that IntersectionInput remembers.
THEOREM SignCurrent == Spec => []SignIsCurrent
<1>1. Inv => SignIsCurrent
  BY Zenon DEF Inv, SignOK, SignIsCurrent
<1> QED BY <1>1, InvAlways, PTL

\* A sign seen before the last completed maneuver never demands a stop again.
THEOREM SignUsedOnce == Spec => []SignNotReused
<1>1. Inv => SignNotReused
  BY Zenon DEF Inv, SignOK, SignNotReused
<1> QED BY <1>1, InvAlways, PTL

-----------------------------------------------------------------------------
(* SharedState and IntersectionInput implement DecisionLatch *)

\* A line that is not remembered is not within reach of a remembered place: all entries
\* of the intersection Decider are stop lines.
LEMMA NotAtRememberedPlace ==
    ASSUME NEW s, NEW t, StateOK(s, t), NEW d \in IntersectionDecisions,
           ~ Remembered(IntersectionRules, s.intersections, d),
           NEW k \in DOMAIN s.intersections.handled
    PROVE  LET p == s.intersections.handled[k].x
           IN  ~ (d.x - p <= Config.same_place /\ p - d.x <= Config.same_place)
<1> DEFINE h == s.intersections.handled
           e == [id |-> d.obstacle_id, cls |-> d.cls, x |-> d.x]
<1>1. ~ SameObstacle(IntersectionRules, h[k], e)
  BY Zenon DEF Remembered, AlreadyHandled
<1>2. h[k].cls = "stopline"
  BY Zenon DEF StateOK
<1>3. e.cls = "stopline" /\ e.x = d.x
  BY DEF IntersectionDecisions
<1> HIDE DEF e, h
<1>4. ~ (e.x - h[k].x <= Config.same_place /\ h[k].x - e.x <= Config.same_place)
  BY <1>1, <1>2, <1>3, IntersectionRulesOK, Zenon DEF SameObstacle
<1> QED BY <1>3, <1>4, Zenon DEF h

\* What the two streams offer, under the mapping.
OffersMapped ==
    /\ Offered(state.obstacle, state.obstacle_time) \in ObstacleOffer
    /\ Offered(state.intersection, state.intersection_time) \in LineOffer
    /\ ~ Latch!Repeats(Offered(state.intersection, state.intersection_time), RememberedPlaces)

\* A stream offers a decision of its own kind or none, and never a remembered place.
LEMMA OfferedOK == Inv => OffersMapped
<1> SUFFICES ASSUME Inv PROVE OffersMapped
  OBVIOUS
<1> DEFINE li == Offered(state.intersection, state.intersection_time)
<1>1. StateOK(state, now) /\ state \in StateSet
  BY DEF Inv, StateOK
<1>2. /\ state.obstacle \in ObstacleOffer /\ state.intersection \in LineOffer
      /\ NoDecision \in ObstacleOffer /\ NoDecision \in LineOffer
  BY <1>1, StateFields DEF ObstacleOffer, LineOffer
<1>3. /\ Offered(state.obstacle, state.obstacle_time) \in ObstacleOffer
      /\ li \in LineOffer
  BY <1>2, Zenon DEF Offered
<1>4. ASSUME Latch!Repeats(li, RememberedPlaces) PROVE FALSE
  <2>1. li # NoDecision /\ li = state.intersection
    BY <1>4, Zenon DEF Latch!Repeats, Offered
  <2> HIDE DEF li
  <2>2. PICK p \in RememberedPlaces :
          li.x - p <= Config.same_place /\ p - li.x <= Config.same_place
    BY <1>4, Zenon DEF Latch!Repeats
  <2>3. PICK k \in DOMAIN state.intersections.handled : p = state.intersections.handled[k].x
    BY <2>2 DEF RememberedPlaces
  <2>4. li \in IntersectionDecisions /\ li.action = "intersection"
    BY <1>3, <2>1, DecisionsAre DEF LineOffer, li
  <2>5. ~ Remembered(IntersectionRules, state.intersections, li)
    BY <1>1, <2>1, <2>4, Zenon DEF StateOK, NoneRepeated
  <2> QED BY <1>1, <2>2, <2>3, <2>4, <2>5, NotAtRememberedPlace, Zenon
<1> QED BY <1>3, <1>4 DEF OffersMapped

\* A step that leaves the latch alone and remembers nothing new is a step of perception.
LEMMA PerceiveMapped ==
    ASSUME OffersMapped', sent' = sent, state'.active = state.active,
           state'.turns = state.turns,
           Covers(state.intersections.handled, state'.intersections.handled)
    PROVE  Latch!Perceive
<1>1. RememberedPlaces' \subseteq RememberedPlaces
  <2> SUFFICES ASSUME NEW p \in RememberedPlaces' PROVE p \in RememberedPlaces
    OBVIOUS
  <2>1. PICK k \in DOMAIN state'.intersections.handled :
          p = state'.intersections.handled[k].x
    BY DEF RememberedPlaces
  <2>2. PICK j \in DOMAIN state.intersections.handled :
          state'.intersections.handled[k].x = state.intersections.handled[j].x
    BY Zenon DEF Covers
  <2>3. p = state.intersections.handled[j].x
    BY <2>1, <2>2
  <2> QED BY <2>3 DEF RememberedPlaces
<1>2. RememberedPlaces' \in SUBSET RememberedPlaces
  BY <1>1, Zenon
<1>3. /\ Offered(state.obstacle, state.obstacle_time)' \in ObstacleOffer
      /\ Offered(state.intersection, state.intersection_time)' \in LineOffer
      /\ ~ Latch!Repeats(Offered(state.intersection, state.intersection_time),
                         RememberedPlaces)'
  BY DEF OffersMapped
<1> QED BY <1>2, <1>3, Zenon DEF Latch!Perceive, ObstacleOffer, LineOffer, Latch!Repeats

\* A memory covers itself.
LEMMA CoversItself == ASSUME NEW e PROVE Covers(e, e)
BY Zenon DEF Covers

\* What a stream offers depends on the clock, its decision and that decision's age.
LEMMA OfferedSame ==
    ASSUME now' = now, state'.obstacle_time = state.obstacle_time,
           state'.intersection_time = state.intersection_time
    PROVE  /\ state'.obstacle = state.obstacle
                => Offered(state.obstacle, state.obstacle_time)'
                     = Offered(state.obstacle, state.obstacle_time)
           /\ state'.intersection = state.intersection
                => Offered(state.intersection, state.intersection_time)'
                     = Offered(state.intersection, state.intersection_time)
BY Zenon DEF Offered, Fresh

\* Steps of the clock and of the obstacle stream, under the mapping.
LEMMA ObstacleMapped ==
    ASSUME Inv, OffersMapped', ObstacleNext
    PROVE  Latch!LatchNext
<1>1. /\ now \in Nat /\ StateOK(state, now) /\ state \in StateSet /\ SentOK(state, sent)
  BY InvTime DEF Inv, StateOK
<1>2. ASSUME TimePasses PROVE Latch!LatchNext
  <2>1. state' = state /\ sent' = sent
    BY <1>2 DEF TimePasses
  <2>2. Latch!Perceive
    BY <2>1, CoversItself, PerceiveMapped
  <2> QED BY <2>2 DEF Latch!LatchNext
<1>3. ASSUME NEW dets \in ObstacleLists, OnObstacles(dets) PROVE Latch!LatchNext
  <2>1. sent' = sent /\ state' = on_detections(state, dets, now)
    BY <1>3 DEF OnObstacles
  <2>2. dets \in Seq(Detection)
    BY SharedStateAssumption
  <2>3. /\ state'.intersections = state.intersections
        /\ state'.active = state.active /\ state'.turns = state.turns
    BY <1>1, <2>1, <2>2, OnDetectionsOK
  <2>4. Covers(state.intersections.handled, state'.intersections.handled)
    BY <2>3, CoversItself
  <2>5. Latch!Perceive
    BY <2>1, <2>3, <2>4, PerceiveMapped
  <2> QED BY <2>5 DEF Latch!LatchNext
<1>4. ASSUME SendChange PROVE Latch!LatchNext
  <2>1. /\ now' = now /\ state' = state /\ sent = NoDecision
        /\ sent' = current(state, now) /\ current(state, now).action = "change"
    BY <1>4 DEF SendChange
  <2>2. /\ sent' = state.obstacle /\ Fresh(state.obstacle_time, now)
        /\ state.active = NoDecision /\ state.obstacle \in ObstacleDecisions
        /\ state.obstacle.action = "change"
    BY <1>1, <2>1, CurrentChange
  <2>3. Offered(state.obstacle, state.obstacle_time) = state.obstacle
    BY <2>2, Zenon DEF Offered
  <2>4. state.obstacle # NoDecision
    BY <2>2, DecisionsAre
  <2>5. /\ Offered(state.obstacle, state.obstacle_time)'
             = Offered(state.obstacle, state.obstacle_time)
        /\ Offered(state.intersection, state.intersection_time)'
             = Offered(state.intersection, state.intersection_time)
        /\ RememberedPlaces' = RememberedPlaces
    BY <2>1, OfferedSame DEF RememberedPlaces
  <2>6. Latch!Send
    BY <2>1, <2>2, <2>3, <2>4, <2>5, Zenon DEF Latch!Send, Latch!Latched
  <2> QED BY <2>6 DEF Latch!LatchNext
<1>5. ASSUME ChangeSucceeds PROVE Latch!LatchNext
  <2>1. /\ now' = now /\ sent' = NoDecision /\ sent.action = "change"
        /\ state' = mark_obstacle_handled(state, sent, now)
    BY <1>5 DEF ChangeSucceeds
  <2>2. sent \in ObstacleDecisions /\ state.active = NoDecision /\ sent # NoDecision
    BY <1>1, <2>1, OffersAre, DecisionsAre DEF SentOK, ObstacleOffer, LineOffer
  <2>3. /\ state'.obstacle \in {state.obstacle, NoDecision}
        /\ state'.obstacle_time = state.obstacle_time
        /\ state'.intersection = state.intersection
        /\ state'.intersection_time = state.intersection_time
        /\ state'.intersections = state.intersections
        /\ state'.active = state.active /\ state'.turns = state.turns
    BY <1>1, <2>1, <2>2, MarkObstacleOK
  <2>4. Offered(state.obstacle, state.obstacle_time)'
          \in {Offered(state.obstacle, state.obstacle_time), NoDecision}
    BY <2>1, <2>3, Zenon DEF Offered, Fresh
  <2>5. /\ Offered(state.intersection, state.intersection_time)'
             = Offered(state.intersection, state.intersection_time)
        /\ RememberedPlaces' = RememberedPlaces
    BY <2>1, <2>3, OfferedSame DEF RememberedPlaces
  <2>6. Latch!ChangeCompleted
    BY <2>1, <2>2, <2>3, <2>4, <2>5, Zenon DEF Latch!ChangeCompleted, Latch!Latched
  <2> QED BY <2>6 DEF Latch!LatchNext
<1>6. ASSUME GoalDropped PROVE Latch!LatchNext
  <2>1. now' = now /\ state' = state /\ sent' = NoDecision
    BY <1>6 DEF GoalDropped
  <2>2. /\ Offered(state.obstacle, state.obstacle_time)'
             = Offered(state.obstacle, state.obstacle_time)
        /\ Offered(state.intersection, state.intersection_time)'
             = Offered(state.intersection, state.intersection_time)
        /\ RememberedPlaces' = RememberedPlaces
    BY <2>1, OfferedSame DEF RememberedPlaces
  <2>3. Latch!Drop
    BY <2>1, <2>2, Zenon DEF Latch!Drop
  <2> QED BY <2>3 DEF Latch!LatchNext
<1> QED BY <1>2, <1>3, <1>4, <1>5, <1>6 DEF ObstacleNext

\* Steps of the nodes of the intersection branch, under the mapping: BeginIntersection
\* latches or, once a line is latched, changes nothing.
LEMMA TurnMapped ==
    ASSUME Inv, Begin \/ MarkStopped \/ SendTurn \/ TurnSucceeds
    PROVE  [Latch!LatchNext]_(Latch!latchVars)
<1>1. /\ now \in Nat /\ StateOK(state, now) /\ state \in StateSet /\ SentOK(state, sent)
  BY InvTime DEF Inv, StateOK
<1>2. ASSUME Begin PROVE [Latch!LatchNext]_(Latch!latchVars)
  <2>1. /\ now' = now /\ state' = begin_intersection(state, now)
        /\ state'.active.action = "intersection"
        /\ sent' = IF sent.action = "change" THEN NoDecision ELSE sent
    BY <1>2 DEF Begin
  <2>2. CASE state' = state /\ state.active.action = "intersection"
    <3>1. sent.action # "change"
      BY <1>1, <2>2, DecisionsAre DEF SentOK
    <3>2. sent' = sent
      BY <2>1, <3>1, Zenon
    <3>3. /\ Offered(state.obstacle, state.obstacle_time)'
               = Offered(state.obstacle, state.obstacle_time)
          /\ Offered(state.intersection, state.intersection_time)'
               = Offered(state.intersection, state.intersection_time)
          /\ RememberedPlaces' = RememberedPlaces
      BY <2>1, <2>2, OfferedSame DEF RememberedPlaces
    <3>4. UNCHANGED Latch!latchVars
      BY <2>2, <3>2, <3>3, Zenon DEF Latch!latchVars
    <3> QED BY <3>4
  <2>3. CASE /\ state.active = NoDecision /\ state'.active = state.intersection
             /\ state.intersection \in IntersectionDecisions
             /\ Fresh(state.intersection_time, now)
             /\ state'.obstacle = state.obstacle
             /\ state'.obstacle_time = state.obstacle_time
             /\ state'.intersection = state.intersection
             /\ state'.intersection_time = state.intersection_time
             /\ state'.intersections = state.intersections
             /\ state'.turns = state.turns
    <3>1. sent' = NoDecision
      <4>1. sent.action # "intersection" /\ sent.action # "stop"
        BY <1>1, <2>3, DecisionsAre DEF SentOK
      <4>2. sent.action = "change" \/ sent = NoDecision
        BY <1>1, <4>1, OffersAre DEF SentOK
      <4> QED BY <2>1, <4>2, Zenon
    <3>2. /\ Offered(state.obstacle, state.obstacle_time)'
               = Offered(state.obstacle, state.obstacle_time)
          /\ Offered(state.intersection, state.intersection_time)'
               = Offered(state.intersection, state.intersection_time)
          /\ RememberedPlaces' = RememberedPlaces
      BY <2>1, <2>3, OfferedSame DEF RememberedPlaces
    <3>3. Offered(state.intersection, state.intersection_time) = state.intersection
      BY <2>3, Zenon DEF Offered
    <3>4. state.intersection # NoDecision
      BY <2>3, DecisionsAre
    <3>5. Latch!Latch
      BY <2>3, <3>1, <3>2, <3>3, <3>4, Zenon DEF Latch!Latch, Latch!Latched
    <3> QED BY <3>5 DEF Latch!LatchNext
  <2>4. \/ state' = state /\ state.active.action = "intersection"
        \/ /\ state.active = NoDecision /\ state'.active = state.intersection
           /\ state.intersection \in IntersectionDecisions
           /\ Fresh(state.intersection_time, now)
           /\ state'.obstacle = state.obstacle
           /\ state'.obstacle_time = state.obstacle_time
           /\ state'.intersection = state.intersection
           /\ state'.intersection_time = state.intersection_time
           /\ state'.intersections = state.intersections
           /\ state'.turns = state.turns
    BY <1>1, <2>1, BeginOK
  <2> QED BY <2>2, <2>3, <2>4
<1>3. ASSUME MarkStopped PROVE Latch!LatchNext
  <2>1. /\ now' = now /\ sent' = sent
        /\ state.active.action = "intersection" /\ state.active.needs_stop
        /\ state' = mark_intersection_stopped(state)
    BY <1>3 DEF MarkStopped
  <2>2. /\ state'.active = [state.active EXCEPT !.needs_stop = FALSE]
        /\ state'.obstacle = state.obstacle /\ state'.obstacle_time = state.obstacle_time
        /\ state'.intersection = state.intersection
        /\ state'.intersection_time = state.intersection_time
        /\ state'.intersections = state.intersections /\ state'.turns = state.turns
    BY <1>1, <2>1, StoppedOK
  <2>3. /\ Offered(state.obstacle, state.obstacle_time)'
             = Offered(state.obstacle, state.obstacle_time)
        /\ Offered(state.intersection, state.intersection_time)'
             = Offered(state.intersection, state.intersection_time)
        /\ RememberedPlaces' = RememberedPlaces
    BY <2>1, <2>2, OfferedSame DEF RememberedPlaces
  <2>4. state.active # NoDecision
    BY <2>1, DecisionsAre
  <2>5. Latch!Stopped
    BY <2>1, <2>2, <2>3, <2>4, Zenon DEF Latch!Stopped, Latch!Latched
  <2> QED BY <2>5 DEF Latch!LatchNext
<1>4. ASSUME SendTurn PROVE Latch!LatchNext
  <2>1. /\ now' = now /\ state' = state /\ sent = NoDecision
        /\ state.active.action = "intersection" /\ ~ state.active.needs_stop
        /\ state.turns > 0 /\ sent' = state.active
    BY <1>4 DEF SendTurn
  <2>2. /\ Offered(state.obstacle, state.obstacle_time)'
             = Offered(state.obstacle, state.obstacle_time)
        /\ Offered(state.intersection, state.intersection_time)'
             = Offered(state.intersection, state.intersection_time)
        /\ RememberedPlaces' = RememberedPlaces
    BY <2>1, OfferedSame DEF RememberedPlaces
  <2>3. state.active # NoDecision
    BY <2>1, DecisionsAre
  <2>4. Latch!Send
    BY <2>1, <2>2, <2>3, Zenon DEF Latch!Send, Latch!Latched
  <2> QED BY <2>4 DEF Latch!LatchNext
<1>5. ASSUME TurnSucceeds PROVE Latch!LatchNext
  <2>1. /\ now' = now /\ sent' = NoDecision /\ sent.action = "intersection"
        /\ state' = complete_intersection(state, sent, now)
    BY <1>5 DEF TurnSucceeds
  <2>2. /\ sent \in IntersectionDecisions /\ state.turns > 0
        /\ sent = state.active /\ sent # NoDecision
    BY <1>1, <2>1, DecisionsAre DEF SentOK, ObstacleOffer, LineOffer
  <2>3. /\ state'.active = NoDecision /\ state'.intersection = NoDecision
        /\ state'.obstacle = state.obstacle /\ state'.obstacle_time = state.obstacle_time
        /\ state'.intersection_time = state.intersection_time
        /\ state'.intersections.handled
             = Append(state.intersections.handled, Entry(sent, now))
        /\ state'.turns = state.turns - 1
    BY <1>1, <2>1, <2>2, CompleteOK
  <2>4. Offered(state.obstacle, state.obstacle_time)'
          = Offered(state.obstacle, state.obstacle_time)
    BY <2>1, <2>3, OfferedSame
  <2>5. Offered(state.intersection, state.intersection_time)' = NoDecision
    BY <2>3, Zenon DEF Offered
  <2>6. RememberedPlaces' = RememberedPlaces \cup {sent.x}
    <3> DEFINE h == state.intersections.handled
               g == Append(h, Entry(sent, now))
    <3>1. h \in Seq(Handled) /\ Entry(sent, now) \in Handled /\ Entry(sent, now).x = sent.x
      <4>1. state.intersections \in DeciderSet /\ sent \in Decision
        BY <1>1, <2>2, StateFields, DecisionsAre
      <4> QED BY <1>1, <4>1 DEF DeciderSet, Entry, Handled, Decision
    <3>2. /\ RememberedPlaces = {h[k].x : k \in DOMAIN h}
          /\ RememberedPlaces' = {g[k].x : k \in DOMAIN g}
      BY <2>3 DEF RememberedPlaces
    <3> HIDE DEF h
    <3>3. /\ DOMAIN g = 1 .. Len(h) + 1 /\ DOMAIN h = 1 .. Len(h) /\ Len(h) \in Nat
          /\ \A k \in 1 .. Len(h) : g[k] = h[k]
          /\ g[Len(h) + 1] = Entry(sent, now)
      BY <3>1, AppendProperties
    <3> HIDE DEF g
    <3>4. DOMAIN g = DOMAIN h \cup {Len(h) + 1}
      BY <3>3
    <3>5. \A k \in DOMAIN h : g[k].x = h[k].x
      BY <3>3
    <3>6. g[Len(h) + 1].x = sent.x
      BY <3>1, <3>3
    <3> QED BY <3>2, <3>4, <3>5, <3>6
  <2>7. Latch!TurnCompleted
    BY <2>1, <2>2, <2>3, <2>4, <2>5, <2>6, Zenon DEF Latch!TurnCompleted, Latch!Latched
  <2> QED BY <2>7 DEF Latch!LatchNext
<1> QED BY <1>2, <1>3, <1>4, <1>5

\* Callbacks of the intersection stream, under the mapping.
LEMMA InputMapped ==
    ASSUME Inv, OffersMapped',
           \/ \E stamp \in FreshStamps :
                 OnSignUnranged(stamp) \/ (\E real \in BOOLEAN : OnSign(stamp, real))
           \/ OnLine
    PROVE  Latch!LatchNext
<1>1. /\ now \in Nat /\ Never \in Stamps(now)
      /\ real_sign_stamp \in Stamps(now) /\ sign_input_stamp \in Stamps(now)
  BY InvTime DEF Inv, SignOK, Stamps
<1>2. ASSUME NEW real \in Stamps(now), NEW dets \in LineLists(real), NEW reset \in BOOLEAN,
             reset \/ real = real_sign_stamp, sent' = sent,
             state' = on_intersection_detections(state, dets, reset, now)
      PROVE  Latch!LatchNext
  <2>1. /\ state'.active = state.active /\ state'.turns = state.turns
        /\ Covers(state.intersections.handled, state'.intersections.handled)
    BY <1>1, <1>2, LineListKeeps
  <2>2. Latch!Perceive
    BY <1>2, <2>1, PerceiveMapped
  <2> QED BY <2>2 DEF Latch!LatchNext
<1>3. ASSUME NEW stamp \in FreshStamps, OnSignUnranged(stamp) PROVE Latch!LatchNext
  <2>1. sent' = sent /\ state' = on_intersection_detections(state, <<>>, FALSE, now)
    BY <1>3 DEF OnSignUnranged
  <2>2. <<>> \in LineLists(real_sign_stamp)
    BY DEF LineLists
  <2> QED BY <1>1, <1>2, <2>1, <2>2
<1>4. ASSUME NEW stamp \in FreshStamps, NEW real \in BOOLEAN, OnSign(stamp, real)
      PROVE  Latch!LatchNext
  <2>1. sent' = sent /\ real_sign_stamp' = IF real THEN stamp ELSE Never
    BY <1>4 DEF OnSign
  <2>2. PICK dets \in LineLists(real_sign_stamp') :
          state' = on_intersection_detections(state, dets, TRUE, now)
    BY <1>4 DEF OnSign
  <2>3. stamp \in Stamps(now)
    BY <1>1, FreshIsStamp
  <2>4. real_sign_stamp' \in Stamps(now)
    BY <1>1, <2>1, <2>3, Zenon
  <2> QED BY <1>2, <2>1, <2>2, <2>4
<1>5. ASSUME OnLine PROVE Latch!LatchNext
  <2>1. sent' = sent
    BY <1>5 DEF OnLine
  <2>2. PICK dets \in LineLists(real_sign_stamp) :
          state' = on_intersection_detections(state, dets, FALSE, now)
    BY <1>5 DEF OnLine
  <2> QED BY <1>1, <1>2, <2>1, <2>2
<1> QED BY <1>3, <1>4, <1>5

\* A new SharedState is a new latch.
LEMMA InitMapped == InputInit => Latch!LatchInit
<1> SUFFICES ASSUME InputInit PROVE Latch!LatchInit
  OBVIOUS
<1>1. state = NewState /\ sent = NoDecision
  BY DEF InputInit, Init
<1>2. /\ state.obstacle = NoDecision /\ state.intersection = NoDecision
      /\ state.active = NoDecision /\ state.turns = Turns
      /\ state.intersections.handled = <<>>
  BY <1>1 DEF NewState, NewDecider
<1>3. /\ Offered(state.obstacle, state.obstacle_time) = NoDecision
      /\ Offered(state.intersection, state.intersection_time) = NoDecision
  BY <1>2, Zenon DEF Offered
<1>4. RememberedPlaces = {}
  BY <1>2 DEF RememberedPlaces
<1> QED BY <1>1, <1>2, <1>3, <1>4, Zenon DEF Latch!LatchInit

\* Every step is a step of the latch, or changes nothing that it shows.
LEMMA NextMapped ==
    ASSUME Inv, OffersMapped', [InputNext]_vars
    PROVE  [Latch!LatchNext]_(Latch!latchVars)
<1>1. CASE UNCHANGED vars
  <2>1. now' = now /\ state' = state /\ sent' = sent
    BY <1>1 DEF vars
  <2>2. /\ Offered(state.obstacle, state.obstacle_time)'
             = Offered(state.obstacle, state.obstacle_time)
        /\ Offered(state.intersection, state.intersection_time)'
             = Offered(state.intersection, state.intersection_time)
        /\ RememberedPlaces' = RememberedPlaces
    BY <2>1, OfferedSame DEF RememberedPlaces
  <2>3. UNCHANGED Latch!latchVars
    BY <2>1, <2>2, Zenon DEF Latch!latchVars
  <2> QED BY <2>3
<1>2. CASE ObstacleNext
  BY <1>2, ObstacleMapped
<1>3. CASE Begin \/ MarkStopped \/ SendTurn \/ TurnSucceeds
  BY <1>3, TurnMapped
<1>4. CASE \/ \E stamp \in FreshStamps :
                 OnSignUnranged(stamp) \/ (\E real \in BOOLEAN : OnSign(stamp, real))
           \/ OnLine
  BY <1>4, InputMapped
<1> QED BY <1>1, <1>2, <1>3, <1>4 DEF InputNext

\* Perception and decision implement DecisionLatch: whatever lists arrive in whatever
\* order, nothing but the maneuver's own steps touches a latched maneuver, a lane change
\* never outlives a latch, and a remembered place is not offered again.
THEOREM ImplementsLatch == Spec => RefinesLatch
<1>1. Inv /\ Inv' /\ [InputNext]_vars => [Latch!LatchNext]_(Latch!latchVars)
  <2> SUFFICES ASSUME Inv, Inv', [InputNext]_vars
               PROVE  [Latch!LatchNext]_(Latch!latchVars)
    OBVIOUS
  <2>1. OffersMapped'
    BY OfferedOK, PTL
  <2> QED BY <2>1, NextMapped
<1> QED BY <1>1, InvAlways, InitMapped, PTL DEF Spec, RefinesLatch, Latch!LatchSpec

\* The decisions of SharedState are as DecisionLatch assumes, so that what is proved of
\* the latch holds of its implementation.
LEMMA LatchAssumed ==
    /\ Turns \in Nat
    /\ NoDecision \notin ObstacleDecisions \cup IntersectionDecisions
    /\ \A d \in IntersectionDecisions :
          LET s == [d EXCEPT !.needs_stop = FALSE]
          IN  /\ d.needs_stop \in BOOLEAN
              /\ s \in IntersectionDecisions /\ s.x = d.x /\ s.needs_stop = FALSE
              /\ ~ d.needs_stop => s = d
<1>1. NoDecision \notin ObstacleDecisions \cup IntersectionDecisions
  BY DecisionsAre
<1>2. ASSUME NEW d \in IntersectionDecisions
      PROVE  LET s == [d EXCEPT !.needs_stop = FALSE]
             IN  /\ d.needs_stop \in BOOLEAN
                 /\ s \in IntersectionDecisions /\ s.x = d.x /\ s.needs_stop = FALSE
                 /\ ~ d.needs_stop => s = d
  BY DEF IntersectionDecisions
<1> QED BY <1>1, <1>2, SharedStateAssumption

\* What the behaviour tree relies on holds of the real state: while a maneuver is latched
\* an outstanding goal is its own, was sent after its stop and has a turn to use up.
THEOREM GoalOfTheLatch == Spec => []Latch!GoalIsForTheLatch
<1>1. Inv => Latch!GoalIsForTheLatch
  <2> SUFFICES ASSUME Inv, state.active # NoDecision, sent # NoDecision
               PROVE  sent = state.active /\ ~ state.active.needs_stop /\ state.turns > 0
    BY Zenon DEF Latch!GoalIsForTheLatch, Latch!Latched
  <2>1. SentOK(state, sent)
    BY DEF Inv
  <2>2. sent.action # "none" /\ sent.action \in {"none", "change", "stop", "intersection"}
    BY <2>1, OffersAre DEF SentOK
  <2>3. sent.action = "intersection"
    BY <2>1, <2>2 DEF SentOK
  <2> QED BY <2>1, <2>3, Zenon DEF SentOK
<1> QED BY <1>1, InvAlways, PTL

-----------------------------------------------------------------------------
(* What is forgotten *)

\* Every entry of e that is alive at time t has its successor in f.
KeepsLive(cfg, e, f, t) ==
    \A k \in DOMAIN e : Alive(cfg, e[k], t) => Outlived(e[k], f)

\* An entry outlives itself.
LEMMA OutlivesItself ==
    ASSUME NEW e \in Seq(Handled), NEW k \in DOMAIN e
    PROVE  Outlived(e[k], e)
<1>1. e[k] \in Handled
  OBVIOUS
<1>2. e[k].last_seen >= e[k].last_seen
  BY <1>1 DEF Handled
<1> QED BY <1>2, Zenon DEF Outlived

\* A memory that is left alone forgets nothing.
LEMMA SameKeepsLive ==
    ASSUME NEW cfg, NEW e \in Seq(Handled), NEW t
    PROVE  KeepsLive(cfg, e, e, t)
BY OutlivesItself, Zenon DEF KeepsLive

\* Marking appends, and moves nothing.
LEMMA AppendKeepsLive ==
    ASSUME NEW cfg, NEW e \in Seq(Handled), NEW t, NEW h
    PROVE  KeepsLive(cfg, e, Append(e, h), t)
<1> SUFFICES ASSUME NEW k \in DOMAIN e PROVE Outlived(e[k], Append(e, h))
  BY Zenon DEF KeepsLive
<1>1. e[k] \in Handled /\ k \in DOMAIN Append(e, h) /\ Append(e, h)[k] = e[k]
  OBVIOUS
<1>2. e[k].last_seen >= e[k].last_seen
  BY <1>1 DEF Handled
<1> QED BY <1>1, <1>2, Zenon DEF Outlived

\* handled() makes an entry younger or leaves it.
LEMMA RefreshedOutlives ==
    ASSUME NEW cfg, NEW e \in Seq(Handled), NEW seen, NEW t \in Int, NEW k \in DOMAIN e,
           e[k].last_seen <= t
    PROVE  Outlived(e[k], Refreshed(cfg, e, seen, t))
<1> DEFINE f == Refreshed(cfg, e, seen, t)
<1>1. e[k] \in Handled
  OBVIOUS
<1>2. k \in DOMAIN f /\ (f[k] = [e[k] EXCEPT !.last_seen = t] \/ f[k] = e[k])
  BY Zenon DEF Refreshed
<1> HIDE DEF f
<1>3. /\ f[k].id = e[k].id /\ f[k].cls = e[k].cls /\ f[k].x = e[k].x
      /\ f[k].last_seen >= e[k].last_seen
  BY <1>1, <1>2 DEF Handled
<1>4. Outlived(e[k], f)
  BY <1>2, <1>3, Zenon DEF Outlived
<1> QED BY <1>4 DEF f

\* update() forgets no entry that is alive.
LEMMA UpdateKeepsLive ==
    ASSUME NEW cfg, NEW r, r.handled \in Seq(Handled), NEW dets, NEW t \in Int,
           \A k \in DOMAIN r.handled : r.handled[k].last_seen <= t
    PROVE  KeepsLive(cfg, r.handled, update(cfg, r, dets, t).decider.handled, t)
<1> DEFINE e == r.handled
           kept == expire(cfg, e, t)
           f == Refreshed(cfg, kept, Looked(cfg, dets), t)
<1>1. update(cfg, r, dets, t).decider.handled = f
  BY DEF update
<1>2. HoldsAlive(cfg, e, t, Len(e), kept) /\ DOMAIN e = 1 .. Len(e)
  BY ExpireKeeps
<1>3. kept \in Seq(Handled) /\ \A k \in DOMAIN kept : kept[k].last_seen <= t
  BY ExpireCovered, ExpireSeen
<1> HIDE DEF kept
<1>4. ASSUME NEW k \in DOMAIN e, Alive(cfg, e[k], t) PROVE Outlived(e[k], f)
  <2>1. PICK j \in DOMAIN kept : kept[j] = e[k]
    BY <1>2, <1>4, Zenon DEF HoldsAlive
  <2>2. Outlived(kept[j], f)
    BY <1>3, RefreshedOutlives
  <2> QED BY <2>1, <2>2, Zenon
<1> HIDE DEF e, f
<1>5. KeepsLive(cfg, e, f, t)
  BY <1>4, Zenon DEF KeepsLive
<1> QED BY <1>1, <1>5 DEF e

\* mark_handled() appends to the memory or leaves it.
LEMMA MarkKeepsLive ==
    ASSUME NEW cfg, NEW r \in DeciderSet, NEW d, NEW t
    PROVE  KeepsLive(cfg, r.handled, mark_handled(r, d, t).handled, t)
<1> DEFINE m == mark_handled(r, d, t)
<1>1. r.handled \in Seq(Handled)
  BY DEF DeciderSet
<1>2. m.handled = r.handled \/ m.handled = Append(r.handled, Entry(d, t))
  BY DEF mark_handled, DeciderSet, Entry
<1> HIDE DEF m
<1>3. CASE m.handled = r.handled
  BY <1>1, <1>3, SameKeepsLive DEF m
<1>4. CASE m.handled = Append(r.handled, Entry(d, t))
  BY <1>1, <1>4, AppendKeepsLive DEF m
<1> QED BY <1>2, <1>3, <1>4

\* How long an entry lives: by its id in the obstacle stream, and handled_ttl in the
\* stream of the stop lines, which have no id.
LEMMA LifeTimes ==
    /\ \A h : Ttl(ObstacleRules, h) = IF h.id >= 0 THEN Config.handled_ttl ELSE Config.pseudo_ttl
    /\ \A h : Ttl(IntersectionRules, h) = Config.handled_ttl
<1>1. /\ ObstacleRules.handled_ttl = Config.handled_ttl
      /\ ObstacleRules.pseudo_ttl = Config.pseudo_ttl
  BY TtlsAre DEF ObstacleRules
<1>2. /\ IntersectionRules.handled_ttl = Config.handled_ttl
      /\ IntersectionRules.pseudo_ttl = Config.handled_ttl
  BY TtlsAre DEF IntersectionRules
<1> QED BY <1>1, <1>2, Zenon DEF Ttl

\* No entry of either memory that is alive at time t is forgotten from s to n.
MemoryKept(s, n, t) ==
    /\ KeepsLive(ObstacleRules, s.obstacles.handled, n.obstacles.handled, t)
    /\ KeepsLive(IntersectionRules, s.intersections.handled, n.intersections.handled, t)

\* A memory of a SharedState in a reachable state.
LEMMA MemoriesTyped ==
    ASSUME NEW s, NEW t, StateOK(s, t)
    PROVE  /\ s.obstacles.handled \in Seq(Handled) /\ s.intersections.handled \in Seq(Handled)
           /\ \A k \in DOMAIN s.obstacles.handled : s.obstacles.handled[k].last_seen <= t
           /\ \A k \in DOMAIN s.intersections.handled : s.intersections.handled[k].last_seen <= t
BY DEF StateOK, DeciderOK, DeciderSet

\* A method that leaves both Deciders alone forgets nothing.
LEMMA DecidersSame ==
    ASSUME NEW s, NEW n, NEW t, StateOK(s, t),
           n.obstacles = s.obstacles, n.intersections = s.intersections
    PROVE  MemoryKept(s, n, t)
BY MemoriesTyped, SameKeepsLive, Zenon DEF MemoryKept

\* A list of the obstacle stream.
LEMMA ObstacleListKeepsMemory ==
    ASSUME NEW s, NEW t \in Int, StateOK(s, t), NEW dets
    PROVE  MemoryKept(s, on_detections(s, dets, t), t)
<1> DEFINE n == on_detections(s, dets, t)
           u == update(ObstacleRules, s.obstacles, dets, t)
<1>1. n = [s EXCEPT !.obstacle_time = t, !.obstacles = u.decider, !.obstacle = u.decision]
  BY Zenon DEF on_detections
<1>2. s \in StateSet
  BY DEF StateOK
<1>3. KeepsLive(ObstacleRules, s.obstacles.handled, u.decider.handled, t)
  BY MemoriesTyped, UpdateKeepsLive
<1>4. KeepsLive(IntersectionRules, s.intersections.handled, s.intersections.handled, t)
  BY MemoriesTyped, SameKeepsLive
<1> HIDE DEF n, u
<1>5. n.obstacles = u.decider /\ n.intersections = s.intersections
  BY <1>1, <1>2 DEF StateSet
<1>6. MemoryKept(s, n, t)
  BY <1>3, <1>4, <1>5, Zenon DEF MemoryKept
<1> QED BY <1>6 DEF n

\* A list of the intersection stream.
LEMMA LineListKeepsMemory ==
    ASSUME NEW s, NEW t \in Int, StateOK(s, t), NEW dets, NEW reset \in BOOLEAN
    PROVE  MemoryKept(s, on_intersection_detections(s, dets, reset, t), t)
<1> DEFINE n == on_intersection_detections(s, dets, reset, t)
           r == IF reset THEN clear_stop_sign(s.intersections) ELSE s.intersections
           u == update(IntersectionRules, r, dets, t)
<1>1. n = [s EXCEPT !.intersection_time = t, !.intersections = u.decider,
                    !.intersection = u.decision]
  BY Zenon DEF on_intersection_detections
<1>2. s \in StateSet /\ s.intersections \in DeciderSet
  BY DEF StateOK, DeciderOK
<1>3. r.handled = s.intersections.handled
  BY <1>2 DEF clear_stop_sign, DeciderSet
<1> HIDE DEF n, r
<1>4. KeepsLive(IntersectionRules, r.handled, u.decider.handled, t)
  BY <1>3, MemoriesTyped, UpdateKeepsLive
<1>5. KeepsLive(ObstacleRules, s.obstacles.handled, s.obstacles.handled, t)
  BY MemoriesTyped, SameKeepsLive
<1> HIDE DEF u
<1>6. n.intersections = u.decider /\ n.obstacles = s.obstacles
  BY <1>1, <1>2 DEF StateSet
<1>7. MemoryKept(s, n, t)
  BY <1>3, <1>4, <1>5, <1>6, Zenon DEF MemoryKept
<1> QED BY <1>7 DEF n

\* A goal that succeeds.
LEMMA SuccessKeepsMemory ==
    ASSUME NEW s, NEW t, StateOK(s, t), NEW d
    PROVE  /\ MemoryKept(s, mark_obstacle_handled(s, d, t), t)
           /\ MemoryKept(s, complete_intersection(s, d, t), t)
<1> DEFINE m == mark_obstacle_handled(s, d, t)
           c == complete_intersection(s, d, t)
           mo == mark_handled(s.obstacles, d, t)
           ci == mark_handled(s.intersections, d, t)
<1>1. s \in StateSet /\ s.obstacles \in DeciderSet /\ s.intersections \in DeciderSet
  BY DEF StateOK, DeciderOK
<1>2. /\ KeepsLive(ObstacleRules, s.obstacles.handled, mo.handled, t)
      /\ KeepsLive(IntersectionRules, s.intersections.handled, ci.handled, t)
      /\ KeepsLive(ObstacleRules, s.obstacles.handled, s.obstacles.handled, t)
      /\ KeepsLive(IntersectionRules, s.intersections.handled, s.intersections.handled, t)
  BY <1>1, MemoriesTyped, MarkKeepsLive, SameKeepsLive
<1>3. m.obstacles = mo /\ m.intersections = s.intersections
  <2> HIDE DEF mo
  <2> QED BY <1>1 DEF mark_obstacle_handled, StateSet, mo
<1>4. c.intersections = ci /\ c.obstacles = s.obstacles
  <2> HIDE DEF ci
  <2> QED BY <1>1 DEF complete_intersection, StateSet, ci
<1> HIDE DEF m, c, mo, ci
<1>5. MemoryKept(s, m, t)
  BY <1>2, <1>3, Zenon DEF MemoryKept
<1>6. MemoryKept(s, c, t)
  BY <1>2, <1>4, Zenon DEF MemoryKept
<1> QED BY <1>5, <1>6 DEF m, c

\* Every step keeps what is alive.
LEMMA StepKeepsMemory ==
    ASSUME Inv, InputNext
    PROVE  MemoryKept(state, state', now)
<1>1. now \in Int /\ StateOK(state, now) /\ state \in StateSet
  BY InvTime DEF Inv, StateOK
<1>2. ASSUME TimePasses \/ SendChange \/ SendTurn \/ GoalDropped
      PROVE  MemoryKept(state, state', now)
  <2>1. state' = state
    BY <1>2 DEF TimePasses, SendChange, SendTurn, GoalDropped
  <2> QED BY <1>1, <2>1, DecidersSame
<1>3. ASSUME Begin \/ MarkStopped
      PROVE  MemoryKept(state, state', now)
  <2>1. state' = state \/ \E a : state' = [state EXCEPT !.active = a]
    BY <1>3, Zenon DEF Begin, MarkStopped, begin_intersection, mark_intersection_stopped
  <2>2. state'.obstacles = state.obstacles /\ state'.intersections = state.intersections
    BY <1>1, <2>1 DEF StateSet
  <2> QED BY <1>1, <2>2, DecidersSame
<1>4. ASSUME NEW dets, OnObstacles(dets) PROVE MemoryKept(state, state', now)
  BY <1>1, <1>4, ObstacleListKeepsMemory DEF OnObstacles
<1>5. ASSUME ChangeSucceeds \/ TurnSucceeds PROVE MemoryKept(state, state', now)
  <2>1. \/ state' = mark_obstacle_handled(state, sent, now)
        \/ state' = complete_intersection(state, sent, now)
    BY <1>5 DEF ChangeSucceeds, TurnSucceeds
  <2> QED BY <1>1, <2>1, SuccessKeepsMemory, Zenon
<1>6. ASSUME \/ \E stamp \in FreshStamps :
                  OnSignUnranged(stamp) \/ (\E real \in BOOLEAN : OnSign(stamp, real))
             \/ OnLine
      PROVE  MemoryKept(state, state', now)
  <2>1. \E dets, reset : /\ reset \in BOOLEAN
                         /\ state' = on_intersection_detections(state, dets, reset, now)
    BY <1>6, Zenon DEF OnSignUnranged, OnSign, OnLine
  <2> QED BY <1>1, <2>1, LineListKeepsMemory
<1> QED BY <1>2, <1>3, <1>4, <1>5, <1>6, Zenon DEF InputNext, ObstacleNext

\* What was handled is forgotten only after its time-to-live without a sighting, for every
\* class table, any lists in any order and any number of remembered obstacles.
THEOREM ForgottenOnlyExpired == Spec => ForgetsOnlyExpired
<1> DEFINE Step ==
              /\ \A k \in DOMAIN state.obstacles.handled :
                    LET h == state.obstacles.handled[k]
                    IN  now - h.last_seen <= (IF h.id >= 0 THEN Config.handled_ttl
                                                           ELSE Config.pseudo_ttl)
                          => Outlived(h, state'.obstacles.handled)
              /\ \A k \in DOMAIN state.intersections.handled :
                    LET h == state.intersections.handled[k]
                    IN  now - h.last_seen <= Config.handled_ttl
                          => Outlived(h, state'.intersections.handled)
<1>1. Inv /\ [InputNext]_vars => [Step]_sharedVars
  <2> SUFFICES ASSUME Inv, [InputNext]_vars PROVE [Step]_sharedVars
    OBVIOUS
  <2>1. CASE UNCHANGED vars
    BY <2>1 DEF vars, sharedVars
  <2>2. CASE InputNext
    <3>1. MemoryKept(state, state', now)
      BY <2>2, StepKeepsMemory
    <3>2. Step
      BY <3>1, LifeTimes, Zenon DEF MemoryKept, KeepsLive, Alive
    <3> QED BY <3>2
  <2> QED BY <2>1, <2>2
<1> HIDE DEF Step
<1>2. Spec => [][Step]_sharedVars
  BY <1>1, InvAlways, PTL DEF Spec
<1> QED BY <1>2, PTL DEF ForgetsOnlyExpired, Step

=============================================================================

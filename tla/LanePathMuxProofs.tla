-------------------------- MODULE LanePathMuxProofs --------------------------
(***************************************************************************)
(* The lane pipeline, for every bound on frames, streak and lane changes:  *)
(* types, no white cloud lost, frames in order, the generator's memory     *)
(* recent, and the newest path of the server's lane out.                   *)
(***************************************************************************)
EXTENDS LanePathMux, SequenceTheorems, TLAPS

-----------------------------------------------------------------------------
(* The generator *)

Memory == [streak : 0 .. MaxStreak - 1, track : [Side -> {None} \cup 0 .. MaxStreak]]

\* The streak bounds the age of the youngest track from above.
StreakBoundsAge(m) ==
    (\E s \in Side : m.track[s] # None) => \E s \in Side : m.track[s] \in 0 .. m.streak

MemoryOK(m) == m \in Memory /\ StreakBoundsAge(m)

\* Aging keeps the type of the tracks.
LEMMA AgedType ==
    ASSUME NEW t \in [Side -> {None} \cup 0 .. MaxStreak], NEW f \in SUBSET Side
    PROVE  Aged(t, f) \in [Side -> {None} \cup 0 .. MaxStreak]
BY CenterlineAssumption DEF Aged, None

\* A reset memory is as good as new.
LEMMA ForgottenOK == MemoryOK(Forgotten)
BY CenterlineAssumption DEF MemoryOK, Memory, StreakBoundsAge, Forgotten, None, Side

\* A frame that returns, with a path or without, keeps the memory in order.
LEMMA GeneratedOK ==
    ASSUME NEW m, MemoryOK(m), NEW f \in SUBSET Side
    PROVE  MemoryOK(Generated(m, f))
<1>1. Aged(m.track, f) \in [Side -> {None} \cup 0 .. MaxStreak]
  BY AgedType DEF MemoryOK, Memory
<1>2. CASE f = {}
  <2> DEFINE n == [streak |-> m.streak + 1, track |-> Aged(m.track, {})]
  <2>1. CASE n.streak >= MaxStreak
    BY <1>2, <2>1, ForgottenOK DEF Generated, failedFrame, Exhausted, resetMemory
  <2>2. CASE ~ n.streak >= MaxStreak
    <3>1. Generated(m, f) = n
      BY <1>2, <2>2 DEF Generated, failedFrame, Exhausted
    <3>2. n \in Memory
      BY <1>1, <1>2, <2>2, CenterlineAssumption DEF MemoryOK, Memory
    <3>3. StreakBoundsAge(n)
      <4> SUFFICES ASSUME NEW s \in Side, n.track[s] # None
                   PROVE  \E r \in Side : n.track[r] \in 0 .. n.streak
        BY DEF StreakBoundsAge
      <4>1. m.track[s] # None
        BY DEF Aged, None
      <4>2. PICK r \in Side : m.track[r] \in 0 .. m.streak
        BY <4>1 DEF MemoryOK, StreakBoundsAge
      <4>3. n.track[r] = m.track[r] + 1
        BY <4>2, CenterlineAssumption DEF Aged, MemoryOK, Memory
      <4> QED BY <4>2, <4>3, CenterlineAssumption DEF MemoryOK, Memory
    <3> QED BY <3>1, <3>2, <3>3 DEF MemoryOK
  <2> QED BY <2>1, <2>2
<1>3. CASE f # {}
  <2>1. PICK s \in Side : s \in f
    BY <1>3
  <2>2. Aged(m.track, f)[s] = 0
    BY <2>1 DEF Aged
  <2> QED BY <1>1, <1>3, <2>2, CenterlineAssumption
          DEF Generated, MemoryOK, Memory, StreakBoundsAge
<1> QED BY <1>2, <1>3

\* So does a frame that throws.
LEMMA ThrownOK ==
    ASSUME NEW m, MemoryOK(m), NEW n \in Thrown(m)
    PROVE  MemoryOK(n)
<1>1. CASE n = m
  BY <1>1
<1>2. CASE n = [m EXCEPT !.track["left"] = 0]
  <2>1. n \in Memory /\ n.track["left"] = 0 /\ n.streak = m.streak
    BY <1>2, CenterlineAssumption DEF MemoryOK, Memory, Side
  <2> QED BY <2>1, CenterlineAssumption DEF MemoryOK, Memory, StreakBoundsAge, Side
<1>3. ASSUME NEW f \in (SUBSET Side) \ {{}},
             n = [streak |-> 0, track |-> [s \in Side |-> IF s \in f THEN 0 ELSE m.track[s]]]
      PROVE  MemoryOK(n)
  <2>1. PICK s \in Side : s \in f
    BY <1>3
  <2>2. n.track[s] = 0
    BY <1>3, <2>1
  <2>3. n \in Memory
    BY <1>3, CenterlineAssumption DEF MemoryOK, Memory
  <2> QED BY <1>3, <2>2, <2>3 DEF MemoryOK, StreakBoundsAge
<1> QED BY <1>1, <1>2, <1>3 DEF Thrown

\* Whatever generate() does, the memory stays in order.
LEMMA OutcomesOK ==
    ASSUME NEW m, MemoryOK(m), NEW a \in Outcomes(m)
    PROVE  MemoryOK(a.memory) /\ a.found \in SUBSET Side
BY GeneratedOK, ThrownOK DEF Outcomes

-----------------------------------------------------------------------------
(* The node *)

\* At most two frames, as one callback processes.
Short(q) == q = <<>> \/ (\E a \in Stamp : q = <<a>>) \/ (\E a, b \in Stamp : q = <<a, b>>)

\* Publishing keeps the type of the paths.
LEMMA PublishedType ==
    ASSUME NEW p \in [Side -> SUBSET Stamp], NEW w \in Stamp, NEW f \in SUBSET Side
    PROVE  Published(p, w, f) \in [Side -> SUBSET Stamp]
BY DEF Published

\* process(), once or twice.
LEMMA ProcessOK ==
    ASSUME MemoryOK(memory), paths \in [Side -> SUBSET Stamp], NEW q, Short(q), Process(q)
    PROVE  /\ MemoryOK(memory')
           /\ paths' \in [Side -> SUBSET Stamp]
           /\ handled' = handled \o q
<1>1. handled' = handled \o q
  BY DEF Process
<1>2. CASE q = <<>>
  BY <1>1, <1>2 DEF Process
<1>3. ASSUME NEW w \in Stamp, q = <<w>>
      PROVE  MemoryOK(memory') /\ paths' \in [Side -> SUBSET Stamp]
  <2>1. q # <<>> /\ Len(q) = 1 /\ q[1] = w
    BY <1>3
  <2>2. PICK a \in Outcomes(memory) :
            memory' = a.memory /\ paths' = Published(paths, w, a.found)
    BY <2>1 DEF Process
  <2> QED BY <2>2, OutcomesOK, PublishedType
<1>4. ASSUME NEW w \in Stamp, NEW v \in Stamp, q = <<w, v>>
      PROVE  MemoryOK(memory') /\ paths' \in [Side -> SUBSET Stamp]
  <2>1. q # <<>> /\ Len(q) = 2 /\ q[1] = w /\ q[2] = v
    BY <1>4
  <2>2. PICK a \in Outcomes(memory) : \E b \in Outcomes(a.memory) :
            /\ memory' = b.memory
            /\ paths' = Published(Published(paths, w, a.found), v, b.found)
    BY <2>1 DEF Process
  <2>3. PICK b \in Outcomes(a.memory) :
            /\ memory' = b.memory
            /\ paths' = Published(Published(paths, w, a.found), v, b.found)
    BY <2>2
  <2>4. MemoryOK(a.memory) /\ a.found \in SUBSET Side
    BY OutcomesOK
  <2>5. MemoryOK(b.memory) /\ b.found \in SUBSET Side
    BY <2>4, OutcomesOK
  <2> QED BY <2>3, <2>4, <2>5, PublishedType
<1> QED BY <1>1, <1>2, <1>3, <1>4 DEF Short

\* The inductive invariant: the white cloud that waits, and every frame processed, is at
\* most as new as the last white cloud delivered, so a new one comes after all of them.
NodeInv ==
    /\ white_ \in 0 .. last_white /\ yellow_ \in 0 .. MaxStamp
    /\ last_white \in 0 .. MaxStamp /\ last_yellow \in 0 .. MaxStamp
    /\ received \subseteq Stamp
    /\ handled \in Seq(Stamp)
    /\ \A i \in DOMAIN handled : handled[i] <= last_white
    /\ NoWhiteLost
    /\ HandledInOrder
    /\ MemoryOK(memory)
    /\ paths \in [Side -> SUBSET Stamp]

\* Appending a newer stamp keeps a sequence in order.
LEMMA AppendInOrder ==
    ASSUME NEW s \in Seq(Stamp), NEW w \in Stamp,
           \A i, j \in DOMAIN s : i < j => s[i] < s[j],
           \A i \in DOMAIN s : s[i] < w
    PROVE  LET t == s \o <<w>>
           IN  /\ t \in Seq(Stamp)
               /\ \A i, j \in DOMAIN t : i < j => t[i] < t[j]
               /\ \A i \in DOMAIN t : t[i] <= w
               /\ \E i \in DOMAIN t : t[i] = w
               /\ \A i \in DOMAIN s : i \in DOMAIN t /\ t[i] = s[i]
<1> DEFINE t == s \o <<w>>
<1>1. t \in Seq(Stamp) /\ Len(t) = Len(s) + 1
  OBVIOUS
<1>2. \A i \in 1 .. Len(s) : t[i] = s[i]
  OBVIOUS
<1>3. t[Len(s) + 1] = w
  OBVIOUS
<1>4. DOMAIN s = 1 .. Len(s) /\ DOMAIN t = 1 .. Len(s) + 1
  BY <1>1
<1>5. \A i \in DOMAIN s : s[i] \in Nat
  BY CenterlineAssumption DEF Stamp
<1> HIDE DEF t
<1>6. \A i, j \in DOMAIN t : i < j => t[i] < t[j]
  BY <1>2, <1>3, <1>4
<1>7. \A i \in DOMAIN t : t[i] <= w
  BY <1>2, <1>3, <1>4, <1>5, CenterlineAssumption DEF Stamp
<1> QED BY <1>1, <1>2, <1>3, <1>4, <1>6, <1>7 DEF t

\* Concatenation, for the short sequences that occur.
LEMMA ConcatNone == ASSUME NEW s \in Seq(Stamp) PROVE s \o <<>> = s /\ <<>> \o s = s
OBVIOUS

LEMMA ConcatTwo ==
    ASSUME NEW s \in Seq(Stamp), NEW a \in Stamp, NEW b \in Stamp
    PROVE  <<a>> \o <<b>> = <<a, b>> /\ s \o (<<a>> \o <<b>>) = (s \o <<a>>) \o <<b>>
<1>1. <<a>> \in Seq(Stamp) /\ <<b>> \in Seq(Stamp)
  OBVIOUS
<1>2. <<a>> \o <<b>> = <<a, b>>
  <2> DEFINE c == <<a>> \o <<b>>
             d == <<a, b>>
  <2>1. c \in Seq(Stamp) /\ d \in Seq(Stamp) /\ Len(c) = 2 /\ Len(d) = 2
    OBVIOUS
  <2>2. c[1] = a /\ c[2] = b /\ d[1] = a /\ d[2] = b
    OBVIOUS
  <2> HIDE DEF c, d
  <2>3. \A i \in 1 .. Len(c) : i = 1 \/ i = 2
    BY <2>1
  <2>4. c = d
    BY <2>1, <2>2, <2>3, SeqEqual
  <2> QED BY <2>4 DEF c, d
<1>3. s \o (<<a>> \o <<b>>) = (s \o <<a>>) \o <<b>>
  BY <1>1, ConcatAssociative
<1> QED BY <1>2, <1>3

\* A white cloud arrives.
LEMMA WhiteStep ==
    ASSUME NodeInv, NEW w \in Stamp, onWhite(w)
    PROVE  NodeInv'
<1> DEFINE q1 == Flushed(w)
           q2 == Synced(w, yellow_).process
           h == handled \o q1
<1>1. /\ last_white < w /\ last_white' = w /\ received' = received \cup {w}
      /\ white_' = Synced(w, yellow_).white /\ yellow_' = Synced(w, yellow_).yellow
      /\ Process(q1 \o q2) /\ last_yellow' = last_yellow
  BY DEF onWhite
<1>2. \/ white_ = 0 /\ q1 = <<>>
      \/ white_ \in Stamp /\ q1 = <<white_>>
  BY <1>1, CenterlineAssumption DEF NodeInv, Flushed, Stamp
<1>3. \/ w = yellow_ /\ q2 = <<w>> /\ white_' = 0
      \/ w # yellow_ /\ q2 = <<>> /\ white_' = w
  BY <1>1 DEF Synced, Stamp
<1>4. yellow_' \in 0 .. MaxStamp
  BY <1>1, CenterlineAssumption DEF NodeInv, Synced
<1>5. /\ h \in Seq(Stamp)
      /\ \A i, j \in DOMAIN h : i < j => h[i] < h[j]
      /\ \A i \in DOMAIN h : h[i] <= last_white
      /\ \A v \in received : \E i \in DOMAIN h : h[i] = v
  <2>1. CASE white_ = 0 /\ q1 = <<>>
    <3>1. h = handled
      BY <2>1 DEF NodeInv
    <3>2. \A v \in received : v # 0
      BY CenterlineAssumption DEF NodeInv, Stamp
    <3> QED BY <2>1, <3>1, <3>2 DEF NodeInv, HandledInOrder, NoWhiteLost
  <2>2. CASE white_ \in Stamp /\ q1 = <<white_>>
    <3>1. \A i \in DOMAIN handled : handled[i] < white_
      BY <2>2, CenterlineAssumption DEF NodeInv, HandledInOrder, Stamp
    <3> DEFINE t == handled \o <<white_>>
    <3>a. /\ t \in Seq(Stamp)
          /\ \A i, j \in DOMAIN t : i < j => t[i] < t[j]
          /\ \A i \in DOMAIN t : t[i] <= white_
          /\ \E i \in DOMAIN t : t[i] = white_
          /\ \A i \in DOMAIN handled : i \in DOMAIN t /\ t[i] = handled[i]
      BY <2>2, <3>1, AppendInOrder DEF NodeInv, HandledInOrder
    <3>b. h = t
      BY <2>2
    <3> HIDE DEF h, t
    <3>2. /\ h \in Seq(Stamp)
          /\ \A i, j \in DOMAIN h : i < j => h[i] < h[j]
          /\ \A i \in DOMAIN h : h[i] <= white_
          /\ \E i \in DOMAIN h : h[i] = white_
          /\ \A i \in DOMAIN handled : i \in DOMAIN h /\ h[i] = handled[i]
      BY <3>a, <3>b
    <3>3. \A i \in DOMAIN h : h[i] <= last_white
      <4> SUFFICES ASSUME NEW i \in DOMAIN h PROVE h[i] <= last_white
        OBVIOUS
      <4>1. h[i] \in Nat /\ white_ \in Nat /\ last_white \in Nat /\ white_ <= last_white
        BY <3>2, CenterlineAssumption DEF NodeInv, Stamp
      <4> QED BY <3>2, <4>1
    <3>4. \A v \in received : \E i \in DOMAIN h : h[i] = v
      BY <3>2 DEF NodeInv, NoWhiteLost
    <3> QED BY <3>2, <3>3, <3>4
  <2> QED BY <1>2, <2>1, <2>2
<1>6. Short(q1 \o q2) /\ handled \o (q1 \o q2) = h \o q2
  <2>0. handled \in Seq(Stamp) /\ handled \o q1 \in Seq(Stamp) /\ w \in Stamp
    BY <1>5 DEF NodeInv
  <2>1. CASE q1 = <<>>
    <3>1. <<>> \o q2 = q2 /\ handled \o <<>> = handled
      BY <1>3, <2>0, ConcatNone
    <3> QED BY <1>3, <2>1, <3>1 DEF Short
  <2>2. CASE white_ \in Stamp /\ q1 = <<white_>> /\ q2 = <<>>
    <3>1. <<white_>> \o <<>> = <<white_>>
      BY <2>2, ConcatNone
    <3>2. (handled \o q1) \o <<>> = handled \o q1
      BY <2>0, ConcatNone
    <3> QED BY <2>2, <3>1, <3>2 DEF Short
  <2>3. CASE white_ \in Stamp /\ q1 = <<white_>> /\ q2 = <<w>>
    <3>1. <<white_>> \o <<w>> = <<white_, w>>
          /\ handled \o (<<white_>> \o <<w>>) = (handled \o <<white_>>) \o <<w>>
      BY <2>0, <2>3, ConcatTwo
    <3> QED BY <2>3, <3>1 DEF Short
  <2> QED BY <1>2, <1>3, <2>1, <2>2, <2>3
<1>7. MemoryOK(memory') /\ paths' \in [Side -> SUBSET Stamp] /\ handled' = h \o q2
  BY <1>1, <1>6, ProcessOK DEF NodeInv
<1> HIDE DEF h, q1
<1>8. /\ handled' \in Seq(Stamp)
      /\ \A i \in DOMAIN handled' : handled'[i] <= w
      /\ NoWhiteLost' /\ HandledInOrder'
  <2>1. \A i \in DOMAIN h : h[i] < w
    BY <1>1, <1>5, CenterlineAssumption DEF NodeInv, Stamp
  <2>2. CASE w = yellow_ /\ q2 = <<w>> /\ white_' = 0
    <3> DEFINE t == h \o <<w>>
    <3>1. /\ t \in Seq(Stamp)
          /\ \A i, j \in DOMAIN t : i < j => t[i] < t[j]
          /\ \A i \in DOMAIN t : t[i] <= w
          /\ \E i \in DOMAIN t : t[i] = w
          /\ \A i \in DOMAIN h : i \in DOMAIN t /\ t[i] = h[i]
      BY <1>5, <2>1, AppendInOrder
    <3>2. handled' = t
      BY <1>7, <2>2
    <3> HIDE DEF t
    <3> QED BY <1>1, <1>5, <2>2, <3>1, <3>2 DEF NoWhiteLost, HandledInOrder
  <2>3. CASE w # yellow_ /\ q2 = <<>> /\ white_' = w
    <3>1. handled' = h
      BY <1>5, <1>7, <2>3
    <3>2. \A i \in DOMAIN h : h[i] <= w
      BY <1>5, <2>1, CenterlineAssumption DEF Stamp
    <3> QED BY <1>1, <1>5, <2>1, <2>3, <3>1, <3>2 DEF NoWhiteLost, HandledInOrder
  <2> QED BY <1>3, <2>2, <2>3
<1>9. white_' \in 0 .. last_white'
  BY <1>1, <1>3, CenterlineAssumption DEF Stamp
<1> QED BY <1>1, <1>4, <1>7, <1>8, <1>9 DEF NodeInv, Stamp

\* A yellow cloud arrives.
LEMMA YellowStep ==
    ASSUME NodeInv, NEW y \in Stamp, onYellow(y)
    PROVE  NodeInv'
<1> DEFINE q == Synced(white_, y).process
<1>1. /\ last_yellow' = y /\ last_white' = last_white /\ received' = received
      /\ white_' = Synced(white_, y).white /\ yellow_' = Synced(white_, y).yellow
      /\ Process(q)
  BY DEF onYellow
<1>2. yellow_' \in 0 .. MaxStamp
  BY <1>1, CenterlineAssumption DEF Synced, Stamp
<1>3. CASE white_ = y
  <2>1. q = <<white_>> /\ white_' = 0 /\ white_ \in Stamp
    BY <1>1, <1>3, CenterlineAssumption DEF Synced, Stamp
  <2>2. Short(q)
    BY <2>1 DEF Short
  <2>3. MemoryOK(memory') /\ paths' \in [Side -> SUBSET Stamp] /\ handled' = handled \o q
    BY <1>1, <2>2, ProcessOK DEF NodeInv
  <2>4. \A i \in DOMAIN handled : handled[i] < white_
    BY <2>1, CenterlineAssumption DEF NodeInv, HandledInOrder, Stamp
  <2> DEFINE t == handled \o <<white_>>
  <2>5. /\ t \in Seq(Stamp)
        /\ \A i, j \in DOMAIN t : i < j => t[i] < t[j]
        /\ \A i \in DOMAIN t : t[i] <= white_
        /\ \E i \in DOMAIN t : t[i] = white_
        /\ \A i \in DOMAIN handled : i \in DOMAIN t /\ t[i] = handled[i]
    BY <2>1, <2>4, AppendInOrder DEF NodeInv, HandledInOrder
  <2>6. handled' = t
    BY <2>1, <2>3
  <2> HIDE DEF t, q
  <2>7. \A i \in DOMAIN t : t[i] <= last_white
    <3> SUFFICES ASSUME NEW i \in DOMAIN t PROVE t[i] <= last_white
      OBVIOUS
    <3>1. t[i] \in Nat /\ white_ \in Nat /\ last_white \in Nat /\ white_ <= last_white
      BY <2>1, <2>5, CenterlineAssumption DEF NodeInv, Stamp
    <3> QED BY <2>5, <3>1
  <2>8. NoWhiteLost' /\ HandledInOrder'
    BY <1>1, <2>1, <2>5, <2>6 DEF NodeInv, NoWhiteLost, HandledInOrder
  <2>9. /\ handled' \in Seq(Stamp)
        /\ \A i \in DOMAIN handled' : handled'[i] <= last_white'
    BY <1>1, <2>5, <2>6, <2>7, Zenon
  <2>10. last_yellow' \in 0 .. MaxStamp
    BY <1>1, CenterlineAssumption DEF Stamp
  <2>11. white_' \in 0 .. last_white'
    BY <1>1, <2>1, CenterlineAssumption DEF NodeInv, Stamp
  <2>12. received' \subseteq Stamp /\ last_white' \in 0 .. MaxStamp
    BY <1>1 DEF NodeInv
  <2> QED BY <1>2, <2>3, <2>8, <2>9, <2>10, <2>11, <2>12, Zenon DEF NodeInv
<1>4. CASE white_ # y
  <2>1. q = <<>> /\ white_' = white_
    BY <1>1, <1>4 DEF Synced
  <2>2. Short(q)
    BY <2>1 DEF Short
  <2>3. MemoryOK(memory') /\ paths' \in [Side -> SUBSET Stamp] /\ handled' = handled \o q
    BY <1>1, <2>2, ProcessOK DEF NodeInv
  <2>4. handled' = handled
    BY <2>1, <2>3 DEF NodeInv
  <2>5. NoWhiteLost' /\ HandledInOrder'
    BY <1>1, <2>1, <2>4 DEF NodeInv, NoWhiteLost, HandledInOrder
  <2> QED BY <1>1, <1>2, <2>1, <2>3, <2>4, <2>5 DEF NodeInv, Stamp
<1> QED BY <1>3, <1>4

-----------------------------------------------------------------------------
(* The mux *)

\* What the server's callback, the mux's start and its callbacks keep: latest_ is the
\* newest path of each lane, a command that has arrived has been obeyed, and without
\* output_frame the path of the selected lane is out as soon as there is one.
MuxInv ==
    /\ fixed_frame \in BOOLEAN /\ in_flight \in BOOLEAN /\ started \in BOOLEAN
    /\ lane \in Side /\ selected \in Side
    /\ changes \in 0 .. MaxChanges
    /\ newest \in [Side -> 0 .. MaxStamp]
    /\ latest = newest
    /\ output \in [lane : Side, stamp : Stamp] \cup {NoPath}
    /\ ~ in_flight => selected = lane
    /\ ~ fixed_frame /\ newest[selected] # 0
           => output = [lane |-> selected, stamp |-> newest[selected]]

Inv == NodeInv /\ MuxInv

\* The invariant holds initially.
LEMMA InitInv == Init => Inv
<1> SUFFICES ASSUME Init PROVE Inv
  OBVIOUS
<1>1. NodeInv
  <2>1. MemoryOK(memory)
    BY ForgottenOK DEF Init, CenterlineInit
  <2>2. handled = <<>> /\ handled \in Seq(Stamp) /\ DOMAIN handled = {}
    BY DEF Init, CenterlineInit
  <2> QED BY <2>1, <2>2, CenterlineAssumption
          DEF Init, CenterlineInit, NodeInv, NoWhiteLost, HandledInOrder
<1>2. MuxInv
  <2>1. newest \in [Side -> 0 .. MaxStamp] /\ latest = newest /\ newest[selected] = 0
    BY CenterlineAssumption, MuxAssumption DEF Init
  <2>2. output \in [lane : Side, stamp : Stamp] \cup {NoPath}
    BY DEF Init
  <2>3. fixed_frame \in BOOLEAN /\ in_flight \in BOOLEAN /\ started \in BOOLEAN
    BY Zenon DEF Init
  <2>4. lane \in Side /\ selected \in Side /\ changes \in 0 .. MaxChanges
    BY MuxAssumption DEF Init
  <2>5. in_flight
    BY DEF Init
  <2> QED BY <2>1, <2>2, <2>3, <2>4, <2>5, Zenon DEF MuxInv
<1> QED BY <1>1, <1>2 DEF Inv

\* The steps of the mux leave the centreline node alone, and the other way round.
LEMMA NodeUnchanged == NodeInv /\ UNCHANGED centerlineVars => NodeInv'
BY DEF NodeInv, centerlineVars, NoWhiteLost, HandledInOrder

\* A path arrives.
LEMMA PathStep ==
    ASSUME MuxInv, NEW l \in Side, NEW t \in Stamp, on_path(l, t)
    PROVE  MuxInv'
<1>1. newest' = [newest EXCEPT ![l] = t] /\ latest' = newest'
  BY DEF on_path, Kept, MuxInv
<1>2. /\ newest' \in [Side -> 0 .. MaxStamp]
      /\ newest'[l] = t
      /\ \A s \in Side : s # l => newest'[s] = newest[s]
  BY <1>1, CenterlineAssumption DEF MuxInv, Stamp
<1>3. UNCHANGED <<fixed_frame, in_flight, started, lane, selected, changes>>
  BY DEF on_path
<1>4. CASE l = selected
  BY <1>1, <1>2, <1>3, <1>4 DEF on_path, publish, MuxInv
<1>5. CASE l # selected
  BY <1>1, <1>2, <1>3, <1>5 DEF on_path, MuxInv
<1> QED BY <1>4, <1>5

\* A command arrives.
LEMMA LaneStep == MuxInv /\ on_lane => MuxInv'
<1> SUFFICES ASSUME MuxInv, on_lane PROVE MuxInv'
  OBVIOUS
<1>1. latest[lane] = newest[lane] /\ newest[lane] \in 0 .. MaxStamp
  BY DEF MuxInv
<1>2. CASE latest[lane] # 0
  <2>1. newest[lane] \in Stamp
    BY <1>1, <1>2, CenterlineAssumption DEF Stamp
  <2>2. \/ output' = [lane |-> lane, stamp |-> newest[lane]]
        \/ fixed_frame /\ output' = output
    BY <1>1, <1>2 DEF on_lane, publish
  <2>3. /\ UNCHANGED <<fixed_frame, started, lane, changes, latest, newest>>
        /\ in_flight' = FALSE /\ selected' = lane
    BY DEF on_lane
  <2>4. output' \in [lane : Side, stamp : Stamp] \cup {NoPath}
    BY <2>1, <2>2 DEF MuxInv
  <2>5. ~ fixed_frame' /\ newest'[selected'] # 0
            => output' = [lane |-> selected', stamp |-> newest'[selected']]
    BY <2>2, <2>3
  <2>6. fixed_frame' \in BOOLEAN /\ in_flight' \in BOOLEAN /\ started' \in BOOLEAN
    BY <2>3, Zenon DEF MuxInv
  <2> QED BY <2>3, <2>4, <2>5, <2>6 DEF MuxInv
<1>3. CASE latest[lane] = 0
  BY <1>1, <1>3 DEF on_lane, MuxInv
<1> QED BY <1>2, <1>3

\* Every step keeps the invariant.
LEMMA NextInv == Inv /\ [Next]_vars => Inv'
<1> SUFFICES ASSUME Inv, [Next]_vars PROVE Inv'
  OBVIOUS
<1>1. CASE CenterlineNext /\ UNCHANGED muxVars
  <2>1. NodeInv'
    BY <1>1, WhiteStep, YellowStep DEF CenterlineNext, Inv
  <2>2. MuxInv'
    BY <1>1 DEF Inv, MuxInv, muxVars
  <2> QED BY <2>1, <2>2 DEF Inv
<1>2. CASE LaneChanges
  <2>1. MuxInv'
    BY <1>2, MuxAssumption DEF LaneChanges, Inv, MuxInv, Side
  <2> QED BY <1>2, <2>1, NodeUnchanged DEF LaneChanges, Inv
<1>3. CASE MuxStarts
  <2>1. MuxInv'
    BY <1>3 DEF MuxStarts, Inv, MuxInv
  <2> QED BY <1>3, <2>1, NodeUnchanged DEF MuxStarts, Inv
<1>4. ASSUME NEW l \in Side, NEW t \in Stamp, on_path(l, t)
      PROVE  Inv'
  <2>1. UNCHANGED centerlineVars
    BY <1>4 DEF on_path
  <2> QED BY <1>4, <2>1, PathStep, NodeUnchanged DEF Inv
<1>5. CASE on_lane
  BY <1>5, LaneStep, NodeUnchanged DEF on_lane, Inv
<1>6. CASE UNCHANGED vars
  <2>1. MuxInv'
    BY <1>6 DEF vars, muxVars, Inv, MuxInv
  <2> QED BY <1>6, <2>1, NodeUnchanged DEF vars, Inv
<1> QED BY <1>1, <1>2, <1>3, <1>4, <1>5, <1>6 DEF Next

-----------------------------------------------------------------------------
(* The results *)

\* The invariant implies what the run checks.
LEMMA InvImplies ==
    Inv => TypeOK /\ NoWhiteLost /\ HandledInOrder /\ MemoryIsRecent /\ NewestOfLaneIsOut
<1> SUFFICES ASSUME Inv
             PROVE  TypeOK /\ NoWhiteLost /\ HandledInOrder /\ MemoryIsRecent
                        /\ NewestOfLaneIsOut
  OBVIOUS
<1>1. TypeOK
  BY CenterlineAssumption
     DEF Inv, NodeInv, MuxInv, TypeOK, CenterlineTypeOK, MemoryOK, Memory
<1>2. MemoryIsRecent
  <2> SUFFICES ASSUME NEW s \in Side, memory.track[s] # None
               PROVE  \E r \in Side : memory.track[r] \in 0 .. MaxStreak - 1
    BY DEF MemoryIsRecent
  <2>1. PICK r \in Side : memory.track[r] \in 0 .. memory.streak
    BY DEF Inv, NodeInv, MemoryOK, StreakBoundsAge
  <2> QED BY <2>1, CenterlineAssumption DEF Inv, NodeInv, MemoryOK, Memory
<1>3. NewestOfLaneIsOut
  BY DEF Inv, MuxInv, NewestOfLaneIsOut
<1> QED BY <1>1, <1>2, <1>3 DEF Inv, NodeInv

\* The invariant holds throughout.
LEMMA Invariance == Spec => []Inv
BY InitInv, NextInv, PTL DEF Spec

\* The pending clouds, the streak, which never reaches its limit, and the selected path
\* have their types.
THEOREM TypeCorrect == Spec => []TypeOK
BY Invariance, InvImplies, PTL

\* centerline_node loses no white cloud, whatever yellow clouds were lost or late.
THEOREM NoWhiteIsLost == Spec => []NoWhiteLost
BY Invariance, InvImplies, PTL

\* centerline_node processes the frames once and in the order of their stamps.
THEOREM FramesInOrder == Spec => []HandledInOrder
BY Invariance, InvImplies, PTL

\* The generator never blends with a track that a whole streak of failed frames separates.
THEOREM MemoryStaysRecent == Spec => []MemoryIsRecent
BY Invariance, InvImplies, PTL

\* lane_path_mux shows the newest path of the lane the server last commanded.
THEOREM NewestIsOut == Spec => []NewestOfLaneIsOut
BY Invariance, InvImplies, PTL

=============================================================================

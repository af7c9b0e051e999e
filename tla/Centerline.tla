----------------------------- MODULE Centerline -----------------------------
(***************************************************************************)
(* path_generation_cpp: centerline_node.cpp pairs the white and the yellow *)
(* cloud of a frame by stamp and runs the generator on the pair, or on the *)
(* white cloud alone; centerline_generator.cpp keeps, across frames, a     *)
(* tracked path per side and the streak of failed frames.                  *)
(*                                                                         *)
(* Stamps are positive integers, 0 is a null pointer.  Both topics lose    *)
(* messages and keep their order; nothing is known of the order between    *)
(* them.  The geometry is left out: a frame gives a path on any subset of  *)
(* the sides, or throws.  The callbacks share one thread, so each is one   *)
(* step.                                                                   *)
(***************************************************************************)
EXTENDS Integers, Sequences

CONSTANTS
    MaxStamp,      \* bound on the stamps of frames
    MaxStreak      \* max_bad_frame_streak

ASSUME CenterlineAssumption == MaxStamp \in Nat /\ MaxStreak \in Nat \ {0}

VARIABLES
    white_, yellow_,           \* the clouds that wait for a partner
    last_white, last_yellow,   \* stamp of the last cloud each topic delivered
    received,                  \* stamps of all white clouds delivered
    handled,                   \* stamps of the frames processed, in order
    memory,                    \* of the generator: bad_frame_streak_, and of each side's
                               \* track the frames since it was refreshed
    paths                      \* found[s]: the frames that published a path on side s

centerlineVars == <<white_, yellow_, last_white, last_yellow, received, handled, memory, paths>>

Side == {"left", "right"}
Stamp == 1 .. MaxStamp
None == -1     \* a side without a track: NaN

-----------------------------------------------------------------------------
(* CenterlineGenerator *)

\* resetMemory()
Forgotten == [streak |-> 0, track |-> [s \in Side |-> None]]

\* Mutant: the tracks outlive the reset.
resetMemory_KeepsTracks(m) == [m EXCEPT !.streak = 0]

resetMemory(m) == Forgotten

\* The tracks after a frame that refreshed those of the sides in found.  Ages saturate.
Aged(track, found) ==
    [s \in Side |-> IF s \in found THEN 0
                    ELSE IF track[s] \in 0 .. MaxStreak - 1 THEN track[s] + 1
                    ELSE track[s]]

\* Mutant: one failed frame too many.
Exhausted_Late(n) == n > MaxStreak

Exhausted(n) == n >= MaxStreak

\* failedFrame()
failedFrame(m) ==
    LET n == [streak |-> m.streak + 1, track |-> Aged(m.track, {})]
    IN  IF Exhausted(n.streak) THEN resetMemory(n) ELSE n

\* generate() returns paths for the sides in found.
Generated(m, found) ==
    IF found = {} THEN failedFrame(m) ELSE [streak |-> 0, track |-> Aged(m.track, found)]

\* generate() throws: nothing is published, but fuseSide may have refreshed the left
\* track, or both sides may be done and the streak reset.
Thrown(m) ==
    {m, [m EXCEPT !.track["left"] = 0]}
        \cup {[streak |-> 0, track |-> [s \in Side |-> IF s \in f THEN 0 ELSE m.track[s]]] :
                 f \in (SUBSET Side) \ {{}}}

\* What generate() may do: the memory it leaves and the sides it returns.
Outcomes(m) ==
    {[memory |-> Generated(m, f), found |-> f] : f \in SUBSET Side}
        \cup {[memory |-> n, found |-> {}] : n \in Thrown(m)}

-----------------------------------------------------------------------------
(* CenterlineNode *)

CenterlineInit ==
    /\ white_ = 0 /\ yellow_ = 0
    /\ last_white = 0 /\ last_yellow = 0
    /\ received = {}
    /\ handled = <<>>
    /\ memory = Forgotten
    /\ paths = [s \in Side |-> {}]

\* The paths after the frame w has been published; empty ones are ignored downstream.
Published(p, w, found) == [s \in Side |-> IF s \in found THEN p[s] \cup {w} ELSE p[s]]

\* process() of the frames of q, at most two, one after the other.
Process(q) ==
    /\ handled' = handled \o q
    /\ CASE q = <<>> -> UNCHANGED <<memory, paths>>
         [] Len(q) = 1 -> \E a \in Outcomes(memory) :
                             /\ memory' = a.memory
                             /\ paths' = Published(paths, q[1], a.found)
         [] OTHER -> \E a \in Outcomes(memory) : \E b \in Outcomes(a.memory) :
                        /\ memory' = b.memory
                        /\ paths' = Published(Published(paths, q[1], a.found), q[2], b.found)

\* Mutant: the pair is processed but the white cloud stays.
Synced_KeepsWhite(w, y) ==
    [white |-> w,
     yellow |-> IF w # 0 /\ y <= w THEN 0 ELSE y,
     process |-> IF w # 0 /\ w = y THEN <<w>> ELSE <<>>]

\* trySync(): a pair is processed, a yellow cloud older than the white one is dropped, a
\* newer one waits.
Synced(w, y) ==
    [white |-> IF w = y THEN 0 ELSE w,
     yellow |-> IF w # 0 /\ y <= w THEN 0 ELSE y,
     process |-> IF w # 0 /\ w = y THEN <<w>> ELSE <<>>]

\* Mutant: a white cloud without its partner is overwritten.
Flushed_Lost(w) == <<>>

\* "process it alone rather than silently losing the frame"
Flushed(w) == IF white_ # 0 /\ white_ # w THEN <<white_>> ELSE <<>>

onWhite(w) ==
    /\ last_white < w
    /\ last_white' = w
    /\ received' = received \cup {w}
    /\ LET after == Synced(w, yellow_)
       IN  /\ white_' = after.white
           /\ yellow_' = after.yellow
           /\ Process(Flushed(w) \o after.process)
    /\ UNCHANGED last_yellow

onYellow(y) ==
    /\ last_yellow < y
    /\ last_yellow' = y
    /\ LET after == Synced(white_, y)
       IN  /\ white_' = after.white
           /\ yellow_' = after.yellow
           /\ Process(after.process)
    /\ UNCHANGED <<last_white, received>>

CenterlineNext == \E t \in Stamp : onWhite(t) \/ onYellow(t)

-----------------------------------------------------------------------------
(* Properties *)

CenterlineTypeOK ==
    /\ white_ \in 0 .. MaxStamp /\ yellow_ \in 0 .. MaxStamp
    /\ last_white \in 0 .. MaxStamp /\ last_yellow \in 0 .. MaxStamp
    /\ received \subseteq Stamp
    /\ handled \in Seq(Stamp)
    /\ memory.streak \in 0 .. MaxStreak - 1
    /\ memory.track \in [Side -> {None} \cup 0 .. MaxStreak]
    /\ paths \in [Side -> SUBSET Stamp]

\* "rather than silently losing the frame": every white cloud that was delivered has been
\* processed, or is the one that waits, whatever yellow clouds were lost or late.
NoWhiteLost ==
    \A w \in received : (\E i \in DOMAIN handled : handled[i] = w) \/ white_ = w

\* Frames are processed once and in the order of their stamps, though a white cloud may
\* be flushed by the callback of a later one, and the one that waits is the newest.
HandledInOrder ==
    /\ \A i, j \in DOMAIN handled : i < j => handled[i] < handled[j]
    /\ white_ # 0 => \A i \in DOMAIN handled : handled[i] < white_

\* "reset memory after this many failed frames": if any side has a track, some side's
\* was refreshed fewer than max_bad_frame_streak frames ago, so a path is never blended
\* with one that a whole streak of failed frames separates from it.  Frames that threw do
\* not count: they reach neither failedFrame() nor the end of a streak.
MemoryIsRecent ==
    (\E s \in Side : memory.track[s] # None)
        => \E s \in Side : memory.track[s] \in 0 .. MaxStreak - 1

=============================================================================

----------------------------- MODULE ReplayProofs -----------------------------
(***************************************************************************)
(* Proofs about Replay: the replayer has the program's contexts and frame  *)
(* at every place of the trace, processes no packet while it waits, and    *)
(* shows every frame as often as was asked for; for traces of any length,  *)
(* any windows, and any numbers of attempts, contexts and repetitions.     *)
(***************************************************************************)
EXTENDS Replay, WellFoundedInduction, TLAPS

-----------------------------------------------------------------------------
(* The inductive invariant.                                                  *)

Ops == {"create", "share", "current", "destroy", "swap", "call", "snapshot"}
Packets == [op : Ops, by : Nat, ctx : Nat, size : Sizes \union {0}]

\* The trace is read from its start; only its first packet may be a snapshot, and
\* only the loop reads again what was read before.
TraceInv ==
  /\ trace \in Seq(Packets) /\ pos \in 0..Len(trace)
  /\ \A i \in DOMAIN trace : trace[i].op = "snapshot" => i = 1
  /\ loopStart = -1 => pos = Len(trace)
  /\ status = "eof" => pc \in {"end", "done"} /\ pos = Len(trace) /\ ended
  /\ pc # "done" => result = None
  /\ opt \in Options

\* What Program computes, for the first n packets of t.
ProgramOf(t, n) ==
  LET at[i \in 0..n] == IF i = 0 THEN NoProgram ELSE After(at[i - 1], t[i]) IN at[n]

\* A frame starts after n packets of t, and it is frame f.
Starts(t, n) == n = 0 \/ t[n].op \in {"swap", "snapshot"}
BeginsAt(t, n, f) ==
  ProgramOf(t, n).frame = f /\ (n = 0 \/ ProgramOf(t, n - 1).frame < f)

\* Snapshot s is of the program after n packets of t, where a frame starts.
Restores(s, t, n) ==
  /\ s.contexts = ProgramOf(t, n).alive /\ s.made = ProgramOf(t, n).made
  /\ s.frame = ProgramOf(t, n).frame
  /\ s.boundary /\ Starts(t, n)

\* The replayer is where the program was, but for what it has put off.
FollowInv ==
  /\ pendingSnapshot # NoSnapshot =>
       /\ Restores(pendingSnapshot, trace, pos)
       /\ pendingMakeCurrent = NoPacket /\ ~boundary
  /\ pendingSnapshot = NoSnapshot =>
       /\ contexts = ProgramOf(trace, pos).alive
       /\ made \union ({pendingMakeCurrent.ctx} \ {0}) = ProgramOf(trace, pos).made
       /\ frame = ProgramOf(trace, pos).frame
       /\ boundary <=> Starts(trace, pos)
  /\ pendingMakeCurrent # NoPacket => ~boundary
  /\ pc = "packets" => resize = 0
  /\ pc = "packets" \/ status = "eof" => pendingSnapshot = NoSnapshot

\* The tool's snapshot is of the start of the first frame of the loop.  A loop
\* from frame 0 starts before the first packet.
SnapInv ==
  /\ loopStart # -1 =>
       /\ loopStart \in Nat
       /\ \E n \in 0..pos : BeginsAt(trace, n, loopStart) /\ Restores(snap, trace, n)
  /\ loopStart = -1 /\ opt.loop = 0 => pc = "top" /\ pos = 0 /\ boundary

\* The frame of the reader, and the frames of the trace as far as it is known.
Now == ProgramOf(trace, pos).frame
Last == ProgramOf(trace, Len(trace)).frame

\* Once a pass has ended it is known where the loop does.
LoopInv ==
  /\ loops \in 0..LoopCount
  /\ loopStart = -1 => loops = LoopCount
  /\ loopStart # -1 =>
       /\ Now <= loopStart + LoopLen
       /\ Now = loopStart + LoopLen => pc = "end" /\ boundary
       /\ loops < LoopCount =>
            Last >= loopStart + LoopLen \/ (ended /\ Starts(trace, Len(trace)))

\* How often frame f has been shown, by the reader's frame r and the last frame l.
Showings(f, start, r, l, n) ==
  IF start = -1 \/ f < start
  THEN IF f < r THEN 1 ELSE 0
  ELSE IF f < r THEN 1 + LoopCount - n
  ELSE IF f < start + LoopLen /\ f < l THEN LoopCount - n ELSE 0

ShownInv ==
  /\ DOMAIN shown = 0..MaxPackets
  /\ \A f \in 0..MaxPackets : shown[f] = Showings(f, loopStart, Now, Last, loops)

Live == FollowInv /\ SnapInv /\ LoopInv /\ ShownInv

ReplayInv ==
  /\ TraceInv
  /\ pc # "done" => Live
  /\ LoopsAreRight

-----------------------------------------------------------------------------
(* The program at a place of a trace.                                        *)

\* A set of natural numbers has a least one.
LEMMA Least ==
  ASSUME NEW S \in SUBSET Nat, S # {}
  PROVE  \E n \in S : \A m \in S : n <= m
<1>1. PICK x \in S : \A y \in S : ~(<<y, x>> \in OpToRel(<, Nat))
  BY NatLessThanWellFounded, WFMin, Zenon
<1>2. \A y \in S : ~(y < x)
  BY <1>1 DEF OpToRel
<1>3. \A y \in S : y \in Nat
  OBVIOUS
<1>. QED
  BY <1>2, <1>3

\* Induction, for a set of numbers.
LEMMA Induct ==
  ASSUME NEW S, 0 \in S, \A n \in Nat : n \in S => n + 1 \in S
  PROVE  \A n \in Nat : n \in S
<1>. SUFFICES ASSUME NEW x \in Nat, x \notin S
              PROVE  FALSE
  OBVIOUS
<1>. DEFINE T == {n \in Nat : n \notin S}
<1>1. PICK n \in T : \A m \in T : n <= m
  <2>1. T \in SUBSET Nat /\ T # {}
    OBVIOUS
  <2>. QED
    BY <2>1, Least
<1>2. n # 0 /\ n - 1 \in Nat
  BY <1>1
<1>3. n - 1 \in S
  BY <1>1, <1>2
<1>4. (n - 1) + 1 \in S
  BY <1>2, <1>3
<1>. QED
  BY <1>1, <1>4

\* The function that it is computed by.
UpTo(f, t, n) == f = [i \in 0..n |-> IF i = 0 THEN NoProgram ELSE After(f[i - 1], t[i])]

\* There is one.
LEMMA UpToExists ==
  ASSUME NEW t, NEW l \in Nat
  PROVE  \E f : UpTo(f, t, l)
<1>. DEFINE S == {n \in Nat : \E f : UpTo(f, t, n)}
<1>1. 0 \in S
  <2>. DEFINE g == [i \in 0..0 |-> NoProgram]
  <2>1. UpTo(g, t, 0)
    BY DEF UpTo
  <2>. QED
    BY <2>1
<1>2. ASSUME NEW n \in Nat, n \in S
      PROVE  n + 1 \in S
  <2>1. PICK f : UpTo(f, t, n)
    BY <1>2
  <2>. DEFINE g == [i \in 0..(n + 1) |-> IF i = 0 THEN NoProgram ELSE After(f[i - 1], t[i])]
  <2>2. \A i \in 0..n : g[i] = f[i]
    <3>. TAKE i \in 0..n
    <3>1. f[i] = IF i = 0 THEN NoProgram ELSE After(f[i - 1], t[i])
      BY <2>1 DEF UpTo
    <3>2. i \in 0..(n + 1)
      OBVIOUS
    <3>. QED
      BY <3>1, <3>2
  <2>3. \A i \in 0..(n + 1) : i # 0 => g[i - 1] = f[i - 1]
    <3>. TAKE i \in 0..(n + 1)
    <3>. HAVE i # 0
    <3>1. i - 1 \in 0..n
      OBVIOUS
    <3>. HIDE DEF g
    <3>. QED
      BY <2>2, <3>1
  <2>4. UpTo(g, t, n + 1)
    <3>1. \A i \in 0..(n + 1) :
            g[i] = IF i = 0 THEN NoProgram ELSE After(g[i - 1], t[i])
      <4>. TAKE i \in 0..(n + 1)
      <4>1. g[i] = IF i = 0 THEN NoProgram ELSE After(f[i - 1], t[i])
        OBVIOUS
      <4>. HIDE DEF g
      <4>. QED
        BY <2>3, <4>1
    <3>2. g = [i \in 0..(n + 1) |-> g[i]]
      OBVIOUS
    <3>. HIDE DEF g
    <3>. QED
      BY <3>1, <3>2 DEF UpTo
  <2>. HIDE DEF g
  <2>. QED
    BY <2>4
<1>. HIDE DEF S
<1>3. l \in S
  BY <1>1, <1>2, Induct
<1>. QED
  BY <1>3 DEF S

\* Traces that agree give the same program.
LEMMA UpToAgrees ==
  ASSUME NEW t, NEW u, NEW m \in Nat, NEW n \in Nat, NEW k \in Nat, k <= m, k <= n,
         NEW f, UpTo(f, t, m), NEW g, UpTo(g, u, n), \A i \in 1..k : t[i] = u[i]
  PROVE  f[k] = g[k]
<1>. DEFINE S == {i \in Nat : i <= k => f[i] = g[i]}
<1>1. \A i \in 0..m : f[i] = IF i = 0 THEN NoProgram ELSE After(f[i - 1], t[i])
  BY DEF UpTo
<1>2. \A i \in 0..n : g[i] = IF i = 0 THEN NoProgram ELSE After(g[i - 1], u[i])
  BY DEF UpTo
<1>3. 0 \in S
  BY <1>1, <1>2
<1>4. ASSUME NEW i \in Nat, i \in S
      PROVE  i + 1 \in S
  <2>. SUFFICES ASSUME i + 1 <= k
                PROVE  f[i + 1] = g[i + 1]
    OBVIOUS
  <2>1. /\ i + 1 \in 0..m /\ i + 1 \in 0..n /\ i + 1 \in 1..k
        /\ i + 1 # 0 /\ (i + 1) - 1 = i /\ i <= k
    OBVIOUS
  <2>2. f[i] = g[i]
    BY <1>4, <2>1
  <2>3. t[i + 1] = u[i + 1]
    BY <2>1
  <2>4. f[i + 1] = After(f[i], t[i + 1])
    BY <1>1, <2>1
  <2>5. g[i + 1] = After(g[i], u[i + 1])
    BY <1>2, <2>1
  <2>. QED
    BY <2>2, <2>3, <2>4, <2>5
<1>. HIDE DEF S
<1>5. k \in S
  BY <1>3, <1>4, Induct
<1>. QED
  BY <1>5 DEF S

\* Program is what the function computes.
LEMMA ProgramOfUpTo ==
  ASSUME NEW t, NEW n \in Nat
  PROVE  \E f : UpTo(f, t, n) /\ ProgramOf(t, n) = f[n]
<1>1. \E f : UpTo(f, t, n)
  BY UpToExists
<1>. QED
  BY <1>1 DEF UpTo, ProgramOf

\* The program before the first packet, and after one more.
LEMMA ProgramOfStep ==
  ASSUME NEW t
  PROVE  /\ ProgramOf(t, 0) = NoProgram
         /\ \A n \in Nat : ProgramOf(t, n + 1) = After(ProgramOf(t, n), t[n + 1])
<1>1. ProgramOf(t, 0) = NoProgram
  <2>1. PICK f : UpTo(f, t, 0) /\ ProgramOf(t, 0) = f[0]
    BY ProgramOfUpTo
  <2>. QED
    BY <2>1 DEF UpTo
<1>2. ASSUME NEW n \in Nat
      PROVE  ProgramOf(t, n + 1) = After(ProgramOf(t, n), t[n + 1])
  <2>1. PICK f : UpTo(f, t, n + 1) /\ ProgramOf(t, n + 1) = f[n + 1]
    BY ProgramOfUpTo
  <2>2. PICK g : UpTo(g, t, n) /\ ProgramOf(t, n) = g[n]
    BY ProgramOfUpTo
  <2>3. f[n] = g[n]
    BY <2>1, <2>2, UpToAgrees
  <2>4. n + 1 \in 0..(n + 1) /\ n + 1 # 0 /\ (n + 1) - 1 = n
    OBVIOUS
  <2>5. f[n + 1] = After(f[n], t[n + 1])
    BY <2>1, <2>4 DEF UpTo
  <2>. QED
    BY <2>1, <2>2, <2>3, <2>5
<1>. QED
  BY <1>1, <1>2

\* What is read later does not change the program.
LEMMA ProgramOfKept ==
  ASSUME NEW t, NEW u, NEW n \in Nat, \A i \in 1..n : t[i] = u[i]
  PROVE  ProgramOf(t, n) = ProgramOf(u, n)
<1>1. PICK f : UpTo(f, t, n) /\ ProgramOf(t, n) = f[n]
  BY ProgramOfUpTo
<1>2. PICK g : UpTo(g, u, n) /\ ProgramOf(u, n) = g[n]
  BY ProgramOfUpTo
<1>3. UpTo(f, t, n) /\ UpTo(g, u, n) /\ n <= n
  BY <1>1, <1>2
<1>4. f[n] = g[n]
  BY <1>3, UpToAgrees
<1>. QED
  BY <1>1, <1>2, <1>4

\* The programs and their traces; only the first packet may be a snapshot.
Programs ==
  [count : Nat, alive : SUBSET Nat, held : SUBSET Nat, made : SUBSET Nat, frame : Nat]
Traces == {t \in Seq(Packets) : \A i \in DOMAIN t : t[i].op = "snapshot" => i = 1}

\* The program that a trace starts with, from its start or from a snapshot.
LEMMA SnapshotFacts ==
  /\ NoProgram \in Programs /\ NoProgram.frame = 0
  /\ InSnapshot \in Programs
  /\ InSnapshot.alive = {1} /\ InSnapshot.made = {1} /\ InSnapshot.frame = 0
<1>. DEFINE R(n, a, h, m) == [count |-> n, alive |-> a, held |-> h, made |-> m, frame |-> 0]
<1>1. /\ [NoProgram EXCEPT !.count = 1] = R(1, {}, {}, {})
      /\ [R(1, {}, {}, {}) EXCEPT !.alive = {1}] = R(1, {1}, {}, {})
  BY DEF NoProgram
<1>2. /\ [R(1, {1}, {}, {}) EXCEPT !.held = {1}] = R(1, {1}, {1}, {})
      /\ [R(1, {1}, {1}, {}) EXCEPT !.made = {1}] = R(1, {1}, {1}, {1})
  OBVIOUS
<1>3. InSnapshot = R(1, {1}, {1}, {1})
  <2>. HIDE DEF R
  <2>. QED
    BY <1>1, <1>2 DEF InSnapshot
<1>. QED
  BY <1>3 DEF NoProgram, Programs

\* What each call does.
LEMMA AfterFacts ==
  ASSUME NEW program \in Programs, NEW p \in Packets, NEW after, after = After(program, p)
  PROVE  /\ after \in Programs
         /\ after.alive = CASE p.op = "create" -> program.alive \union {p.ctx}
                            [] p.op = "destroy" -> program.alive \ {p.ctx}
                            [] p.op = "snapshot" -> {1}
                            [] OTHER -> program.alive
         /\ after.made = CASE p.op = "destroy" -> program.made \ {p.ctx}
                           [] p.op = "current" -> program.made \union ({p.ctx} \ {0})
                           [] p.op = "snapshot" -> {1}
                           [] OTHER -> program.made
         /\ after.frame = CASE p.op = "swap" -> program.frame + 1
                            [] p.op = "snapshot" -> 0
                            [] OTHER -> program.frame
<1>1. p.op \in Ops /\ p.by \in Nat /\ p.ctx \in Nat
  BY DEF Packets
<1>2. CASE p.op \in {"call", "share"}
  BY <1>2 DEF After, Programs
<1>3. CASE p.op = "create"
  <2>1. after = [program EXCEPT !.count = @ + 1, !.alive = @ \union {p.ctx}]
    BY <1>3 DEF After
  <2>2. program.count + 1 \in Nat /\ program.alive \union {p.ctx} \in SUBSET Nat
    BY <1>1 DEF Programs
  <2>3. after = [count |-> program.count + 1, alive |-> program.alive \union {p.ctx},
                 held |-> program.held, made |-> program.made, frame |-> program.frame]
    BY <2>1 DEF Programs
  <2>4. after \in Programs
    BY <2>2, <2>3 DEF Programs
  <2>. QED
    BY <1>3, <2>3, <2>4
<1>4. CASE p.op = "destroy"
  BY <1>1, <1>4 DEF After, Programs
<1>5. CASE p.op = "current"
  BY <1>1, <1>5 DEF After, Programs
<1>6. CASE p.op = "swap"
  BY <1>1, <1>6 DEF After, Programs
<1>7. CASE p.op = "snapshot"
  BY <1>7, SnapshotFacts DEF After
<1>. QED
  BY <1>1, <1>2, <1>3, <1>4, <1>5, <1>6, <1>7 DEF Ops

\* A program at a place of its trace is a program.
LEMMA ProgramType ==
  ASSUME NEW t \in Traces, NEW n \in 0..Len(t)
  PROVE  ProgramOf(t, n) \in Programs
<1>. DEFINE S == {i \in Nat : i <= Len(t) => ProgramOf(t, i) \in Programs}
<1>1. 0 \in S
  BY ProgramOfStep, SnapshotFacts
<1>2. ASSUME NEW i \in Nat, i \in S
      PROVE  i + 1 \in S
  <2>. SUFFICES ASSUME i + 1 <= Len(t)
                PROVE  ProgramOf(t, i + 1) \in Programs
    OBVIOUS
  <2>1. t \in Seq(Packets) /\ Len(t) \in Nat
    BY DEF Traces
  <2>2. ProgramOf(t, i) \in Programs
    BY <1>2, <2>1
  <2>3. t[i + 1] \in Packets
    BY <2>1
  <2>4. ProgramOf(t, i + 1) = After(ProgramOf(t, i), t[i + 1])
    BY ProgramOfStep
  <2>. QED
    BY <2>2, <2>3, <2>4, AfterFacts
<1>. HIDE DEF S
<1>3. n \in S
  BY <1>1, <1>2, Induct
<1>. QED
  BY <1>3 DEF S

\* One more packet is one more frame if it is a swap, and none otherwise.
LEMMA FrameStep ==
  ASSUME NEW t \in Traces, NEW n \in 0..Len(t), n # Len(t)
  PROVE  /\ ProgramOf(t, n).frame \in Nat
         /\ ProgramOf(t, n + 1).frame =
              ProgramOf(t, n).frame + (IF t[n + 1].op = "swap" THEN 1 ELSE 0)
<1>1. t \in Seq(Packets) /\ Len(t) \in Nat /\ n \in Nat /\ n + 1 \in DOMAIN t
  BY DEF Traces
<1>2. t[n + 1] \in Packets
  BY <1>1
<1>3. ProgramOf(t, n) \in Programs /\ ProgramOf(t, n).frame \in Nat
  BY ProgramType DEF Programs
<1>4. ProgramOf(t, n + 1) = After(ProgramOf(t, n), t[n + 1])
  BY <1>1, ProgramOfStep
<1>5. t[n + 1].op = "snapshot" => ProgramOf(t, n).frame = 0
  <2>. SUFFICES ASSUME t[n + 1].op = "snapshot" PROVE ProgramOf(t, n).frame = 0
    OBVIOUS
  <2>1. n = 0
    BY <1>1 DEF Traces
  <2>. QED
    BY <2>1, ProgramOfStep DEF NoProgram
<1>6. ProgramOf(t, n + 1).frame = CASE t[n + 1].op = "swap" -> ProgramOf(t, n).frame + 1
                                    [] t[n + 1].op = "snapshot" -> 0
                                    [] OTHER -> ProgramOf(t, n).frame
  BY <1>2, <1>3, <1>4, AfterFacts
<1>. QED
  BY <1>3, <1>5, <1>6

\* Frames are counted upwards.
LEMMA FrameGrows ==
  ASSUME NEW t \in Traces, NEW n \in 0..Len(t), NEW m \in 0..n
  PROVE  /\ ProgramOf(t, m).frame \in Nat /\ ProgramOf(t, n).frame \in Nat
         /\ ProgramOf(t, m).frame <= ProgramOf(t, n).frame
<1>. DEFINE S == {i \in Nat : m + i <= Len(t) =>
                    ProgramOf(t, m).frame <= ProgramOf(t, m + i).frame}
<1>1. Len(t) \in Nat /\ \A i \in 0..Len(t) : ProgramOf(t, i).frame \in Nat
  BY ProgramType DEF Traces, Programs
<1>2. 0 \in S
  BY <1>1
<1>3. ASSUME NEW i \in Nat, i \in S
      PROVE  i + 1 \in S
  <2>. SUFFICES ASSUME m + (i + 1) <= Len(t)
                PROVE  ProgramOf(t, m).frame <= ProgramOf(t, m + (i + 1)).frame
    OBVIOUS
  <2>1. m + i \in 0..Len(t) /\ m + i # Len(t) /\ m + (i + 1) = (m + i) + 1
    BY <1>1
  <2>2. ProgramOf(t, m + i).frame <= ProgramOf(t, (m + i) + 1).frame
    BY <2>1, FrameStep
  <2>3. (m + i) + 1 \in 0..Len(t)
    BY <1>1, <2>1
  <2>. QED
    BY <1>1, <1>3, <2>1, <2>2, <2>3
<1>. HIDE DEF S
<1>4. n - m \in S
  <2>1. n - m \in Nat
    BY <1>1
  <2>. QED
    BY <1>2, <1>3, <2>1, Induct
<1>5. m + (n - m) = n /\ n <= Len(t)
  BY <1>1
<1>6. ProgramOf(t, m).frame <= ProgramOf(t, n).frame
  <2>1. ProgramOf(t, m).frame <= ProgramOf(t, m + (n - m)).frame
    BY <1>1, <1>4, <1>5 DEF S
  <2>. QED
    BY <1>5, <2>1
<1>. QED
  BY <1>1, <1>6

\* A frame begins at one place.
LEMMA FrameBegins ==
  ASSUME NEW t \in Traces, NEW m \in 0..Len(t), NEW n \in 0..Len(t), NEW f,
         BeginsAt(t, m, f), BeginsAt(t, n, f)
  PROVE  m = n
<1>1. ASSUME NEW i \in 0..Len(t), NEW j \in 0..Len(t), i < j,
             BeginsAt(t, i, f), BeginsAt(t, j, f)
      PROVE  FALSE
  <2>1. Len(t) \in Nat
    BY DEF Traces
  <2>2. j - 1 \in 0..Len(t) /\ i \in 0..(j - 1) /\ j # 0
    BY <1>1, <2>1
  <2>3. ProgramOf(t, i).frame \in Nat /\ ProgramOf(t, j - 1).frame \in Nat
        /\ ProgramOf(t, i).frame <= ProgramOf(t, j - 1).frame
    BY <2>2, FrameGrows
  <2>. QED
    BY <1>1, <2>2, <2>3 DEF BeginsAt
<1>2. m \in Int /\ n \in Int
  BY DEF Traces
<1>. QED
  BY <1>1, <1>2

-----------------------------------------------------------------------------
(* The trace and the place in it.                                            *)

\* What the invariant says of the trace.
LEMMA TraceFacts ==
  ASSUME TraceInv
  PROVE  /\ trace \in Traces /\ Len(trace) \in Nat /\ pos \in 0..Len(trace)
         /\ ProgramOf(trace, pos) \in Programs
         /\ Now \in Nat /\ Last \in Nat /\ Now <= Last
         /\ pos = Len(trace) => Now = Last
         /\ ReaderFrame = Now /\ Program(pos) = ProgramOf(trace, pos)
         /\ Program(Len(trace)).frame = Last
<1>1. trace \in Traces /\ Len(trace) \in Nat /\ pos \in 0..Len(trace)
  BY DEF TraceInv, Traces
<1>2. \A n : Program(n) = ProgramOf(trace, n)
  BY DEF Program, ProgramOf
<1>3. Len(trace) \in 0..Len(trace)
  BY <1>1
<1>4. Now \in Nat /\ Last \in Nat /\ Now <= Last
  BY <1>1, <1>3, FrameGrows DEF Now, Last
<1>5. ProgramOf(trace, pos) \in Programs
  BY <1>1, ProgramType
<1>. QED
  BY <1>1, <1>2, <1>4, <1>5 DEF Now, Last, ReaderFrame

\* The calls of a program are packets, and a snapshot is the first.
LEMMA CallsType ==
  ASSUME NEW program \in Programs, NEW p \in Calls(program)
  PROVE  p \in Packets /\ (p.op = "snapshot" => trace = <<>>)
<1>. DEFINE by == program.held \union {0}
            Created == {Packet("create", h, program.count + 1, 0) :
                          h \in IF program.count < MaxContexts THEN by ELSE {}}
            Shared == {Packet("share", h, c, 0) : h \in by, c \in program.alive}
            Left == {Packet("current", h, 0, 0) : h \in program.held}
            Changed == UNION {{Packet("current", h, c, s) :
                                 c \in (program.alive \ program.held) \union ({h} \ {0}),
                                 s \in Sizes} : h \in by}
            Destroyed == UNION {{Packet("destroy", h, c, 0) :
                                   c \in program.alive \ (program.held \ {h})} : h \in by}
            Swapped == {Packet("swap", h, 0, s) : h \in program.held, s \in Sizes}
            Called == {Packet("call", h, 0, 0) : h \in program.held}
            Snapped == {Packet("snapshot", 0, 0, s) : s \in IF trace = <<>> THEN Sizes ELSE {}}
<1>1. /\ \A h \in by : h \in Nat
      /\ \A c \in program.alive : c \in Nat
      /\ program.count + 1 \in Nat
      /\ \A h \in program.held : h \in by
  BY DEF Programs
<1>2. \/ \E h \in by : p = Packet("create", h, program.count + 1, 0)
      \/ \E h \in by, c \in program.alive : p = Packet("share", h, c, 0)
      \/ \E h \in by : p = Packet("current", h, 0, 0)
      \/ \E h \in by, c \in program.alive \union by, s \in Sizes : p = Packet("current", h, c, s)
      \/ \E h \in by, c \in program.alive : p = Packet("destroy", h, c, 0)
      \/ \E h \in by, s \in Sizes : p = Packet("swap", h, 0, s)
      \/ \E h \in by : p = Packet("call", h, 0, 0)
      \/ trace = <<>> /\ \E s \in Sizes : p = Packet("snapshot", 0, 0, s)
  <2>1. \/ p \in Created \/ p \in Shared \/ p \in Left \/ p \in Changed
        \/ p \in Destroyed \/ p \in Swapped \/ p \in Called \/ p \in Snapped
    BY DEF Calls
  <2>2. p \in Created => \E h \in by : p = Packet("create", h, program.count + 1, 0)
    OBVIOUS
  <2>3. p \in Changed =>
          \E h \in by, c \in program.alive \union by, s \in Sizes : p = Packet("current", h, c, s)
    OBVIOUS
  <2>4. p \in Destroyed =>
          \E h \in by, c \in program.alive : p = Packet("destroy", h, c, 0)
    OBVIOUS
  <2>5. p \in Shared => \E h \in by, c \in program.alive : p = Packet("share", h, c, 0)
    OBVIOUS
  <2>6. p \in Left => \E h \in by : p = Packet("current", h, 0, 0)
    OBVIOUS
  <2>7. p \in Swapped => \E h \in by, s \in Sizes : p = Packet("swap", h, 0, s)
    OBVIOUS
  <2>8. p \in Called => \E h \in by : p = Packet("call", h, 0, 0)
    OBVIOUS
  <2>9. p \in Snapped => trace = <<>> /\ \E s \in Sizes : p = Packet("snapshot", 0, 0, s)
    OBVIOUS
  <2>. HIDE DEF by, Created, Shared, Left, Changed, Destroyed, Swapped, Called, Snapped
  <2>. QED
    BY <2>1, <2>2, <2>3, <2>4, <2>5, <2>6, <2>7, <2>8, <2>9
<1>3. ASSUME NEW op \in Ops, NEW h \in Nat, NEW c \in Nat, NEW s \in Sizes \union {0},
             p = Packet(op, h, c, s)
      PROVE  p \in Packets /\ p.op = op
  BY <1>3 DEF Packet, Packets
<1>. HIDE DEF by
<1>4. CASE \E h \in by : p = Packet("create", h, program.count + 1, 0)
  BY <1>1, <1>3, <1>4 DEF Ops
<1>5. CASE \E h \in by, c \in program.alive : p = Packet("share", h, c, 0)
  BY <1>1, <1>3, <1>5 DEF Ops
<1>6. CASE \E h \in by : p = Packet("current", h, 0, 0)
  BY <1>1, <1>3, <1>6 DEF Ops
<1>7. CASE \E h \in by, c \in program.alive \union by, s \in Sizes :
             p = Packet("current", h, c, s)
  BY <1>1, <1>3, <1>7 DEF Ops
<1>8. CASE \E h \in by, c \in program.alive : p = Packet("destroy", h, c, 0)
  BY <1>1, <1>3, <1>8 DEF Ops
<1>9. CASE \E h \in by, s \in Sizes : p = Packet("swap", h, 0, s)
  BY <1>1, <1>3, <1>9 DEF Ops
<1>10. CASE \E h \in by : p = Packet("call", h, 0, 0)
  BY <1>1, <1>3, <1>10 DEF Ops
<1>11. CASE trace = <<>> /\ \E s \in Sizes : p = Packet("snapshot", 0, 0, s)
  BY <1>3, <1>11 DEF Ops
<1>. QED
  BY <1>2, <1>4, <1>5, <1>6, <1>7, <1>8, <1>9, <1>10, <1>11

\* One packet is read, for the first time or again.
LEMMA ReadFacts ==
  ASSUME TraceInv, NEW p, p \in Candidates, Reads(p)
  PROVE  /\ p \in Packets /\ trace' \in Traces /\ Len(trace') \in Nat
         /\ pos' = pos + 1 /\ pos' \in 1..Len(trace')
         /\ trace'[pos'] = p /\ (p.op = "snapshot" => pos = 0)
         /\ Len(trace) <= Len(trace')
         /\ \A n \in 1..Len(trace) : trace'[n] = trace[n]
         /\ ended' = ended
         /\ \/ trace' = trace /\ pos < Len(trace)
            \/ ~ended /\ pos = Len(trace) /\ Len(trace') = pos + 1
<1>1. trace \in Traces /\ Len(trace) \in Nat /\ pos \in 0..Len(trace) /\ trace \in Seq(Packets)
  BY DEF TraceInv, Traces
<1>2. CASE pos < Len(trace)
  <2>1. p = trace[pos + 1] /\ trace' = trace /\ pos' = pos + 1 /\ ended' = ended
    BY <1>2 DEF Candidates, Reads
  <2>2. pos + 1 \in DOMAIN trace /\ pos + 1 \in 1..Len(trace)
    BY <1>1, <1>2
  <2>3. p \in Packets
    BY <1>1, <2>1, <2>2
  <2>4. p.op = "snapshot" => pos + 1 = 1
    BY <1>1, <2>1, <2>2 DEF Traces
  <2>. QED
    BY <1>1, <1>2, <2>1, <2>2, <2>3, <2>4
<1>3. CASE ~(pos < Len(trace))
  <2>1. ~ended /\ p \in Calls(Program(pos)) /\ trace' = Append(trace, p)
        /\ pos' = pos + 1 /\ ended' = ended
    BY <1>3 DEF Candidates, Reads
  <2>2. pos = Len(trace)
    BY <1>1, <1>3
  <2>3. p \in Packets /\ (p.op = "snapshot" => trace = <<>>)
    BY <2>1, TraceFacts, CallsType
  <2>4. /\ trace' \in Seq(Packets) /\ Len(trace') = Len(trace) + 1
        /\ trace'[Len(trace) + 1] = p
        /\ \A n \in 1..Len(trace) : trace'[n] = trace[n]
        /\ DOMAIN trace' = 1..(Len(trace) + 1) /\ DOMAIN trace = 1..Len(trace)
    BY <1>1, <2>1, <2>3
  <2>5. p.op = "snapshot" => Len(trace) = 0
    BY <2>3
  <2>6. \A i \in DOMAIN trace' : trace'[i].op = "snapshot" => i = 1
    <3>. TAKE i \in DOMAIN trace'
    <3>1. CASE i = Len(trace) + 1
      BY <2>4, <2>5, <3>1
    <3>2. CASE i # Len(trace) + 1
      <4>1. i \in DOMAIN trace /\ trace'[i] = trace[i]
        BY <1>1, <2>4, <3>2
      <4>. QED
        BY <1>1, <4>1 DEF Traces
    <3>. QED
      BY <3>1, <3>2
  <2>7. trace' \in Traces
    BY <2>4, <2>6 DEF Traces
  <2>. QED
    BY <1>1, <2>1, <2>2, <2>3, <2>4, <2>5, <2>7
<1>. QED
  BY <1>2, <1>3

\* The program after the packet, and before.
LEMMA ReadProgram ==
  ASSUME TraceInv, NEW p, p \in Candidates, Reads(p)
  PROVE  /\ ProgramOf(trace', pos') = After(ProgramOf(trace, pos), p)
         /\ \A n \in 0..Len(trace) : ProgramOf(trace', n) = ProgramOf(trace, n)
         /\ \A n \in 0..Len(trace) : \A f : BeginsAt(trace', n, f) <=> BeginsAt(trace, n, f)
         /\ \A n \in 0..Len(trace) : Starts(trace', n) <=> Starts(trace, n)
         /\ \A n \in 0..Len(trace) : \A s : Restores(s, trace', n) <=> Restores(s, trace, n)
<1>1. /\ trace \in Traces /\ Len(trace) \in Nat /\ pos \in 0..Len(trace)
      /\ trace' \in Traces /\ Len(trace') \in Nat
      /\ pos' = pos + 1 /\ pos' \in 1..Len(trace')
      /\ trace'[pos'] = p
      /\ \A n \in 1..Len(trace) : trace'[n] = trace[n]
  BY TraceFacts, ReadFacts
<1>2. ASSUME NEW n \in 0..Len(trace)
      PROVE  ProgramOf(trace', n) = ProgramOf(trace, n)
  <2>1. n \in Nat /\ \A i \in 1..n : trace'[i] = trace[i]
    BY <1>1
  <2>. QED
    BY <2>1, ProgramOfKept
<1>3. ProgramOf(trace', pos + 1) = After(ProgramOf(trace', pos), trace'[pos + 1])
  BY <1>1, ProgramOfStep
<1>4. ProgramOf(trace', pos') = After(ProgramOf(trace, pos), p)
  BY <1>1, <1>2, <1>3
<1>5. \A n \in 0..Len(trace) : n # 0 => n - 1 \in 0..Len(trace) /\ n \in 1..Len(trace)
  BY <1>1
<1>6. \A n \in 0..Len(trace) : \A f : BeginsAt(trace', n, f) <=> BeginsAt(trace, n, f)
  BY <1>2, <1>5 DEF BeginsAt
<1>7. \A n \in 0..Len(trace) : Starts(trace', n) <=> Starts(trace, n)
  BY <1>1, <1>5 DEF Starts
<1>8. \A n \in 0..Len(trace) : \A s : Restores(s, trace', n) <=> Restores(s, trace, n)
  BY <1>2, <1>7 DEF Restores
<1>. QED
  BY <1>2, <1>4, <1>6, <1>7, <1>8

\* The frames after the packet, and before.
LEMMA ReadFrames ==
  ASSUME TraceInv, NEW p, p \in Candidates, Reads(p)
  PROVE  /\ Now' = Now + (IF p.op = "swap" THEN 1 ELSE 0)
         /\ Last' \in Nat /\ Now' \in Nat /\ Now' <= Last' /\ Last <= Last'
         /\ pos < Len(trace) => Last' = Last /\ trace' = trace
         /\ pos = Len(trace) => Last' = Now' /\ Now = Last /\ ~ended
<1>1. /\ trace \in Traces /\ Len(trace) \in Nat /\ pos \in 0..Len(trace)
      /\ trace' \in Traces /\ Len(trace') \in Nat
      /\ pos' = pos + 1 /\ pos' \in 1..Len(trace')
      /\ trace'[pos'] = p /\ Len(trace) <= Len(trace')
      /\ \/ trace' = trace /\ pos < Len(trace)
         \/ ~ended /\ pos = Len(trace) /\ Len(trace') = pos + 1
  BY TraceFacts, ReadFacts
<1>2. pos \in 0..Len(trace') /\ pos # Len(trace')
  BY <1>1
<1>3. /\ ProgramOf(trace', pos).frame \in Nat
      /\ ProgramOf(trace', pos + 1).frame =
              ProgramOf(trace', pos).frame + (IF trace'[pos + 1].op = "swap" THEN 1 ELSE 0)
  BY <1>1, <1>2, FrameStep
<1>4. /\ ProgramOf(trace', pos) = ProgramOf(trace, pos)
      /\ ProgramOf(trace', Len(trace)) = ProgramOf(trace, Len(trace))
  BY <1>1, ReadProgram
<1>5. Now' = Now + (IF p.op = "swap" THEN 1 ELSE 0)
  BY <1>1, <1>3, <1>4 DEF Now
<1>6. Last' \in Nat /\ Now' \in Nat /\ Now' <= Last'
  <2>1. Len(trace') \in 0..Len(trace') /\ pos' \in 0..Len(trace')
    BY <1>1
  <2>. QED
    BY <1>1, <2>1, FrameGrows DEF Now, Last
<1>7. Last <= Last'
  <2>1. Len(trace') \in 0..Len(trace') /\ Len(trace) \in 0..Len(trace')
    BY <1>1
  <2>2. ProgramOf(trace', Len(trace)).frame <= ProgramOf(trace', Len(trace')).frame
    BY <1>1, <2>1, FrameGrows
  <2>. QED
    BY <1>4, <2>2 DEF Last
<1>8. pos < Len(trace) => Last' = Last /\ trace' = trace
  BY <1>1 DEF Last
<1>9. pos = Len(trace) => Last' = Now' /\ Now = Last /\ ~ended
  BY <1>1 DEF Last, Now
<1>. QED
  BY <1>5, <1>6, <1>7, <1>8, <1>9

-----------------------------------------------------------------------------
(* The steps that read no packet.                                            *)

\* The trace, the loop and the frames shown are as they were.
Settled ==
  /\ trace' = trace /\ pos' = pos /\ opt' = opt
  /\ snap' = snap /\ loopStart' = loopStart /\ loops' = loops
  /\ shown' = shown /\ result' = result

\* Nothing but the place in the tool's loop has changed.
Quiet ==
  /\ Settled /\ ended' = ended
  /\ contexts' = contexts /\ made' = made /\ frame' = frame /\ boundary' = boundary
  /\ pendingSnapshot' = pendingSnapshot /\ pendingMakeCurrent' = pendingMakeCurrent

\* The loop has not ended unless this is the end of a frame, and a loop from
\* frame 0 has begun unless this is the start of one.
LoopKnown ==
  /\ loopStart # -1 /\ Now = loopStart + LoopLen => pc' = "end" /\ boundary'
  /\ loopStart = -1 /\ opt.loop = 0 => pc' = "top" /\ pos = 0 /\ boundary'

LEMMA SettledStep ==
  ASSUME TraceInv, Live, Settled, LoopKnown, pc # "done", pc' # "done",
         ended => ended', status' = "eof" => pc' = "end" /\ pos = Len(trace) /\ ended'
  PROVE  TraceInv' /\ SnapInv' /\ LoopInv' /\ ShownInv'
<1>1. TraceInv'
  BY DEF TraceInv, Settled
<1>2. Now' = Now /\ Last' = Last
  BY DEF Settled, Now, Last
<1>3. SnapInv'
  BY DEF SnapInv, Settled, LoopKnown, Live
<1>4. LoopInv'
  <2>1. /\ loops \in 0..LoopCount
        /\ loopStart = -1 => loops = LoopCount
        /\ loopStart # -1 =>
             /\ Now <= loopStart + LoopLen
             /\ loops < LoopCount =>
                  Last >= loopStart + LoopLen \/ (ended /\ Starts(trace, Len(trace)))
    BY DEF LoopInv, Live
  <2>. QED
    BY <1>2, <2>1 DEF LoopInv, Settled, LoopKnown
<1>5. ShownInv'
  BY <1>2 DEF ShownInv, Settled, Live
<1>. QED
  BY <1>1, <1>3, <1>4, <1>5

LEMMA QuietStep ==
  ASSUME TraceInv, Live, Quiet, LoopKnown, pc # "done", pc' \in {"top", "wait", "end"},
         status' # "eof"
  PROVE  TraceInv' /\ Live'
<1>1. TraceInv' /\ SnapInv' /\ LoopInv' /\ ShownInv'
  BY SettledStep DEF Quiet
<1>2. FollowInv'
  BY DEF FollowInv, Quiet, Settled, Live
<1>. QED
  BY <1>1, <1>2 DEF Live

\* Where the replayer waits for nothing it is at the start of a frame or it is not.
LEMMA Unpended ==
  ASSUME Live, boundary
  PROVE  /\ pendingSnapshot = NoSnapshot /\ pendingMakeCurrent = NoPacket
         /\ contexts = ProgramOf(trace, pos).alive /\ made = ProgramOf(trace, pos).made
         /\ frame = Now /\ Starts(trace, pos)
<1>1. pendingSnapshot = NoSnapshot /\ pendingMakeCurrent = NoPacket
  BY DEF Live, FollowInv
<1>2. pendingMakeCurrent.ctx = 0
  BY <1>1 DEF NoPacket, Packet
<1>. QED
  BY <1>1, <1>2 DEF Live, FollowInv, Now

LEMMA WindowStep ==
  ASSUME TraceInv, Live, WindowEvent \/ WindowChanges
  PROVE  TraceInv' /\ Live'
<1>1. Quiet /\ pc \in {"top", "wait"} /\ pc' = pc /\ status' = status
  BY DEF WindowEvent, WindowChanges, Quiet, Settled, file, tool, known, pending, history
<1>2. LoopKnown
  BY <1>1 DEF LoopKnown, Live, LoopInv, SnapInv, Quiet, Settled
<1>3. status # "eof"
  BY <1>1 DEF TraceInv
<1>. QED
  BY <1>1, <1>2, <1>3, QuietStep

LEMMA BeginFrameStep ==
  ASSUME TraceInv, Live, BeginFrame
  PROVE  TraceInv' /\ Live'
<1>1. Quiet /\ pc = "top" /\ pc' = "wait" /\ status' = status
  BY DEF BeginFrame, Quiet, Settled, file, known, pending, history
<1>2. ~(loopStart = -1 /\ opt.loop = 0)
  <2>. SUFFICES ASSUME loopStart = -1, opt.loop = 0
                PROVE  FALSE
    OBVIOUS
  <2>1. pos = 0 /\ boundary
    BY DEF Live, SnapInv
  <2>2. frame = 0
    BY <2>1, Unpended, ProgramOfStep, SnapshotFacts DEF Now
  <2>3. Snaps
    BY <2>1, <2>2 DEF Snaps
  <2>. QED
    BY <2>3 DEF BeginFrame
<1>3. LoopKnown
  BY <1>1, <1>2 DEF LoopKnown, Live, LoopInv
<1>4. status # "eof"
  BY <1>1 DEF TraceInv
<1>. QED
  BY <1>1, <1>3, <1>4, QuietStep

LEMMA WriteTrimStep ==
  ASSUME TraceInv, Live, WriteTrim, pc' # "done"
  PROVE  TraceInv' /\ Live'
<1>1. Quiet /\ pc = "top" /\ pc' = "wait" /\ status' = status
  BY DEF WriteTrim, Stop, Quiet, Settled, file, pending
<1>2. ~(loopStart = -1 /\ opt.loop = 0)
  <2>1. opt \in Options /\ opt.trims # {}
    BY DEF WriteTrim, Trims, TraceInv
  <2>2. opt.loop = -1
    BY <2>1, ReplayAssumption
  <2>. QED
    BY <2>2
<1>3. LoopKnown
  BY <1>1, <1>2 DEF LoopKnown, Live, LoopInv
<1>4. status # "eof"
  BY <1>1 DEF TraceInv
<1>. QED
  BY <1>1, <1>3, <1>4, QuietStep

LEMMA AskAgainStep ==
  ASSUME TraceInv, Live, AskAgain
  PROVE  TraceInv' /\ Live'
<1>1. Quiet /\ pc = "wait" /\ pc' = "end" /\ status' = "resize"
  BY DEF AskAgain, Quiet, Settled, file, known, history
<1>2. LoopKnown
  BY <1>1 DEF LoopKnown, Live, LoopInv, SnapInv
<1>. QED
  BY <1>1, <1>2, QuietStep

LEMMA NextFrameStep ==
  ASSUME TraceInv, Live, NextFrame
  PROVE  TraceInv' /\ Live'
<1>1. Quiet /\ pc = "end" /\ pc' = "top" /\ status' = status /\ status # "eof" /\ ~AtLoopEnd
  BY DEF NextFrame, Quiet, Settled, file, known, pending, history
<1>2. LoopKnown
  BY <1>1, TraceFacts DEF LoopKnown, Live, SnapInv, AtLoopEnd
<1>. QED
  BY <1>1, <1>2, QuietStep

LEMMA ReachEndStep ==
  ASSUME TraceInv, Live, ReachEnd
  PROVE  TraceInv' /\ Live'
<1>1. /\ Settled /\ pc = "packets" /\ pc' = "end" /\ status' = "eof" /\ pos = Len(trace)
      /\ ended' = TRUE /\ pendingSnapshot = NoSnapshot
      /\ contexts' = contexts /\ made' = made /\ frame' = frame /\ boundary' = boundary
      /\ pendingSnapshot' = pendingSnapshot /\ pendingMakeCurrent' = pendingMakeCurrent
  BY DEF ReachEnd, HasPending, Settled, known, pending, history
<1>2. LoopKnown
  BY <1>1 DEF LoopKnown, Live, LoopInv, SnapInv
<1>3. TraceInv' /\ SnapInv' /\ LoopInv' /\ ShownInv'
  BY <1>1, <1>2, SettledStep
<1>4. FollowInv'
  BY <1>1 DEF FollowInv, Settled, Live
<1>. QED
  BY <1>3, <1>4 DEF Live

\* The snapshot that was put off is applied.
LEMMA EndWaitStep ==
  ASSUME TraceInv, Live, EndWait
  PROVE  TraceInv' /\ Live'
<1>1. /\ Settled /\ ended' = ended /\ pc = "wait" /\ pc' = "packets" /\ status' = "ok"
      /\ resize' = 0 /\ pendingMakeCurrent' = pendingMakeCurrent
  BY DEF EndWait, Settled, file, history
<1>2. LoopKnown
  BY <1>1 DEF LoopKnown, Live, LoopInv, SnapInv
<1>3. TraceInv' /\ SnapInv' /\ LoopInv' /\ ShownInv'
  BY <1>1, <1>2, SettledStep
<1>4. FollowInv'
  <2>1. CASE pendingSnapshot # NoSnapshot
    <3>1. /\ contexts' = pendingSnapshot.contexts /\ made' = pendingSnapshot.made
          /\ frame' = pendingSnapshot.frame /\ boundary' = pendingSnapshot.boundary
          /\ pendingSnapshot' = NoSnapshot
      BY <2>1 DEF EndWait, ApplySnapshot
    <3>2. pendingMakeCurrent = NoPacket /\ Restores(pendingSnapshot, trace, pos)
      BY <2>1 DEF Live, FollowInv
    <3>3. NoPacket.ctx = 0
      BY DEF NoPacket, Packet
    <3>. QED
      BY <1>1, <3>1, <3>2, <3>3 DEF FollowInv, Restores, Settled
  <2>2. CASE pendingSnapshot = NoSnapshot
    <3>1. /\ contexts' = contexts /\ made' = made /\ frame' = frame /\ boundary' = boundary
          /\ pendingSnapshot' = pendingSnapshot
      BY <2>2 DEF EndWait, known
    <3>. QED
      BY <1>1, <2>2, <3>1 DEF Live, FollowInv, Settled
  <2>. QED
    BY <2>1, <2>2
<1>. QED
  BY <1>3, <1>4 DEF Live

\* The context that was put off is made current.
LEMMA ProcessPendingStep ==
  ASSUME TraceInv, Live, ProcessPending
  PROVE  TraceInv' /\ Live'
<1>1. /\ Settled /\ ended' = ended /\ pc = "packets" /\ pc' = "packets" /\ status' = "ok"
      /\ resize' = resize /\ pendingMakeCurrent' = NoPacket
      /\ made' = made \union ({pendingMakeCurrent.ctx} \ {0})
      /\ contexts' = contexts /\ frame' = frame /\ boundary' = boundary
      /\ pendingSnapshot' = pendingSnapshot
  BY DEF ProcessPending, MakeCurrent, Settled, file, history
<1>2. LoopKnown
  BY <1>1 DEF LoopKnown, Live, LoopInv, SnapInv
<1>3. TraceInv' /\ SnapInv' /\ LoopInv' /\ ShownInv'
  BY <1>1, <1>2, SettledStep
<1>4. pendingSnapshot = NoSnapshot /\ resize = 0
  BY <1>1 DEF Live, FollowInv
<1>5. NoPacket.ctx = 0
  BY DEF NoPacket, Packet
<1>6. FollowInv'
  BY <1>1, <1>4, <1>5 DEF FollowInv, Settled, Live
<1>. QED
  BY <1>3, <1>6 DEF Live

-----------------------------------------------------------------------------
(* A packet is processed.                                                    *)

\* What was put off, and the contexts, after a packet that ends no frame.
LEMMA PacketFollows ==
  ASSUME TraceInv, Live, pc = "packets", ~HasPending,
         NEW p, p \in Candidates, Reads(p), Processed(p)
  PROVE  /\ pendingSnapshot' # NoSnapshot =>
              /\ Restores(pendingSnapshot', trace', pos')
              /\ pendingMakeCurrent' = NoPacket /\ ~boundary'
         /\ pendingSnapshot' = NoSnapshot =>
              /\ contexts' = ProgramOf(trace', pos').alive
              /\ made' \union ({pendingMakeCurrent'.ctx} \ {0}) = ProgramOf(trace', pos').made
              /\ frame' = ProgramOf(trace', pos').frame
              /\ boundary' <=> Starts(trace', pos')
         /\ pendingMakeCurrent' # NoPacket => ~boundary'
         /\ status' = "ok" => resize' = 0 /\ pendingSnapshot' = NoSnapshot
         /\ status' # "eof"
<1>. DEFINE before == ProgramOf(trace, pos)
            after == ProgramOf(trace', pos')
<1>1. /\ p \in Packets /\ before \in Programs /\ after = After(before, p)
      /\ trace'[pos'] = p /\ pos' = pos + 1 /\ pos \in Nat
  BY TraceFacts, ReadFacts, ReadProgram
<1>2. /\ pendingSnapshot = NoSnapshot /\ pendingMakeCurrent = NoPacket /\ resize = 0
      /\ NoPacket.ctx = 0
  BY DEF HasPending, Live, FollowInv, NoPacket, Packet
<1>3. contexts = before.alive /\ made = before.made /\ frame = before.frame
  BY <1>2 DEF Live, FollowInv
<1>4. Starts(trace', pos') <=> p.op \in {"swap", "snapshot"}
  BY <1>1 DEF Starts
<1>. HIDE DEF before, after
<1>5. /\ after.alive = CASE p.op = "create" -> before.alive \union {p.ctx}
                         [] p.op = "destroy" -> before.alive \ {p.ctx}
                         [] p.op = "snapshot" -> {1}
                         [] OTHER -> before.alive
      /\ after.made = CASE p.op = "destroy" -> before.made \ {p.ctx}
                        [] p.op = "current" -> before.made \union ({p.ctx} \ {0})
                        [] p.op = "snapshot" -> {1}
                        [] OTHER -> before.made
      /\ after.frame = CASE p.op = "swap" -> before.frame + 1
                         [] p.op = "snapshot" -> 0
                         [] OTHER -> before.frame
  <2>1. p \in Packets /\ before \in Programs /\ after = After(before, p)
    BY <1>1
  <2>. QED
    BY ONLY <2>1, AfterFacts
<1>6. /\ pendingSnapshot' # NoSnapshot =>
           /\ Restores(pendingSnapshot', trace', pos')
           /\ pendingMakeCurrent' = NoPacket /\ ~boundary'
      /\ pendingSnapshot' = NoSnapshot =>
           /\ contexts' = after.alive
           /\ made' \union ({pendingMakeCurrent'.ctx} \ {0}) = after.made
           /\ frame' = after.frame
           /\ boundary' <=> p.op \in {"swap", "snapshot"}
      /\ pendingMakeCurrent' # NoPacket => ~boundary'
      /\ status' = "ok" => resize' = 0 /\ pendingSnapshot' = NoSnapshot
      /\ status' # "eof"
  <2>1. CASE Create(p)
    <3>1. /\ p.op = "create" /\ contexts' = contexts \union {p.ctx} /\ made' = made
          /\ frame' = frame /\ resize' = resize /\ pendingSnapshot' = pendingSnapshot
          /\ pendingMakeCurrent' = pendingMakeCurrent /\ status' = "ok" /\ boundary' = FALSE
      BY <2>1 DEF Create, pending
    <3>. QED
      BY <1>2, <1>3, <1>5, <3>1
  <2>2. CASE Destroy(p)
    <3>1. /\ p.op = "destroy" /\ contexts' = contexts \ {p.ctx} /\ made' = made \ {p.ctx}
          /\ frame' = frame /\ resize' = resize /\ pendingSnapshot' = pendingSnapshot
          /\ pendingMakeCurrent' = pendingMakeCurrent /\ status' = "ok" /\ boundary' = FALSE
      BY <2>2 DEF Destroy, pending
    <3>. QED
      BY <1>2, <1>3, <1>5, <3>1
  <2>3. CASE Defer(p)
    <3>1. /\ p.op = "current" /\ contexts' = contexts /\ made' = made
          /\ frame' = frame /\ pendingSnapshot' = pendingSnapshot
          /\ pendingMakeCurrent' = p /\ status' = "resize" /\ boundary' = FALSE
      BY <2>3 DEF Defer
    <3>. QED
      BY <1>2, <1>3, <1>5, <3>1
  <2>4. CASE MakeCurrentNow(p)
    <3>1. /\ p.op = "current" /\ contexts' = contexts /\ made' = made \union ({p.ctx} \ {0})
          /\ frame' = frame /\ resize' = resize /\ pendingSnapshot' = pendingSnapshot
          /\ pendingMakeCurrent' = pendingMakeCurrent /\ status' = "ok" /\ boundary' = FALSE
      BY <2>4 DEF MakeCurrentNow, MakeCurrent, pending
    <3>. QED
      BY <1>2, <1>3, <1>5, <3>1
  <2>5. CASE Swap(p)
    <3>1. /\ p.op = "swap" /\ contexts' = contexts /\ made' = made
          /\ frame' = frame + 1 /\ pendingSnapshot' = pendingSnapshot
          /\ pendingMakeCurrent' = pendingMakeCurrent /\ status' = "next" /\ boundary' = TRUE
      BY <2>5 DEF Swap
    <3>. QED
      BY <1>2, <1>3, <1>5, <3>1
  <2>6. CASE Call(p)
    <3>1. /\ p.op = "call" /\ contexts' = contexts /\ made' = made
          /\ frame' = frame /\ resize' = resize /\ pendingSnapshot' = pendingSnapshot
          /\ pendingMakeCurrent' = pendingMakeCurrent /\ status' = "ok" /\ boundary' = FALSE
      BY <2>6 DEF Call, pending
    <3>. QED
      BY <1>2, <1>3, <1>5, <3>1
  <2>7. CASE Snapshot(p)
    <3>1. /\ p.op = "snapshot" /\ pendingSnapshot' = TraceSnapshot(p.size)
          /\ pendingMakeCurrent' = NoPacket /\ status' = "resize" /\ boundary' = FALSE
      BY <2>7 DEF Snapshot, BeginApplying
    <3>2. /\ TraceSnapshot(p.size).contexts = {1} /\ TraceSnapshot(p.size).made = {1}
          /\ TraceSnapshot(p.size).frame = 0 /\ TraceSnapshot(p.size).boundary = TRUE
      BY SnapshotFacts DEF TraceSnapshot
    <3>3. NoSnapshot.boundary = FALSE
      BY DEF NoSnapshot
    <3>4. Restores(TraceSnapshot(p.size), trace', pos')
      BY <1>4, <1>5, <3>1, <3>2 DEF Restores, after
    <3>. QED
      BY <3>1, <3>2, <3>3, <3>4
  <2>. QED
    BY <2>1, <2>2, <2>3, <2>4, <2>5, <2>6, <2>7 DEF Processed
<1>. QED
  BY <1>4, <1>6 DEF after

\* A frame is shown once more if the packet is a swap, and none otherwise.
LEMMA PacketShown ==
  ASSUME TraceInv, Live, pc = "packets",
         NEW p, p \in Candidates, Reads(p), Processed(p), loopStart' = loopStart, loops' = loops
  PROVE  ShownInv'
<1>1. /\ Now' = Now + (IF p.op = "swap" THEN 1 ELSE 0)
      /\ Last' \in Nat /\ Now' \in Nat /\ Now' <= Last' /\ Last <= Last'
      /\ pos < Len(trace) => Last' = Last
      /\ pos = Len(trace) => Last' = Now' /\ Now = Last /\ ~ended
  BY ReadFrames
<1>2. Now \in Nat /\ Last \in Nat /\ Now <= Last /\ ReaderFrame = Now
      /\ pos \in 0..Len(trace) /\ Len(trace) \in Nat
  BY TraceFacts
<1>3. pos < Len(trace) \/ pos = Len(trace)
  BY <1>2
<1>4. ShownInv
  BY DEF Live
<1>5. CASE p.op # "swap"
  <2>1. shown' = shown
    BY <1>5 DEF Processed, Create, Destroy, Defer, MakeCurrentNow, Swap, Call, Snapshot
  <2>2. Now' = Now /\ Last' = Last
    BY <1>1, <1>2, <1>3, <1>5
  <2>. QED
    BY <1>4, <2>1, <2>2 DEF ShownInv
<1>6. CASE p.op = "swap"
  <2>1. shown' = [shown EXCEPT ![Now] = @ + 1]
    BY <1>2, <1>6 DEF Processed, Create, Destroy, Defer, MakeCurrentNow, Swap, Call, Snapshot
  <2>2. /\ loops \in 0..LoopCount /\ LoopCount \in Nat /\ LoopLen \in Nat
        /\ loopStart = -1 => loops = LoopCount
        /\ loopStart # -1 =>
             /\ loopStart \in Nat /\ Now < loopStart + LoopLen
             /\ loops < LoopCount => Last >= loopStart + LoopLen \/ ended
    <3>1. loopStart # -1 => Now # loopStart + LoopLen /\ Now <= loopStart + LoopLen
                            /\ loopStart \in Nat
      BY DEF Live, LoopInv, SnapInv
    <3>. QED
      BY <1>2, <3>1, ReplayAssumption DEF Live, LoopInv
  <2>3. ASSUME NEW f \in 0..MaxPackets
        PROVE  Showings(f, loopStart, Now', Last', loops) =
                 Showings(f, loopStart, Now, Last, loops) + (IF f = Now THEN 1 ELSE 0)
    <3>1. f \in Int
      OBVIOUS
    <3>2. Now' = Now + 1
      BY <1>1, <1>6
    <3>3. CASE pos < Len(trace)
      <4>1. Last' = Last /\ Now < Last
        BY <1>1, <1>2, <3>2, <3>3
      <4>. QED
        BY <1>2, <2>2, <3>1, <3>2, <4>1 DEF Showings
    <3>4. CASE pos = Len(trace)
      <4>1. Last' = Now + 1 /\ Last = Now /\ ~ended
        BY <1>1, <3>2, <3>4
      <4>2. loops = LoopCount
        BY <1>2, <2>2, <4>1
      <4>. QED
        BY <1>2, <2>2, <3>1, <3>2, <4>1, <4>2 DEF Showings
    <3>. QED
      BY <1>3, <3>3, <3>4
  <2>4. ASSUME NEW f \in 0..MaxPackets
        PROVE  shown'[f] = Showings(f, loopStart, Now', Last', loops)
    <3>1. DOMAIN shown = 0..MaxPackets /\ shown[f] = Showings(f, loopStart, Now, Last, loops)
      BY <1>4 DEF ShownInv
    <3>2. Showings(f, loopStart, Now, Last, loops) \in Int
      BY <2>2 DEF Showings
    <3>3. shown'[f] = IF f = Now THEN shown[f] + 1 ELSE shown[f]
      BY <2>1, <3>1
    <3>. QED
      BY <2>3, <3>1, <3>2, <3>3
  <2>5. DOMAIN shown' = 0..MaxPackets
    BY <1>4, <2>1 DEF ShownInv
  <2>. QED
    BY <2>4, <2>5 DEF ShownInv
<1>. QED
  BY <1>5, <1>6

\* The loop is where it was.
LEMMA PacketLoops ==
  ASSUME TraceInv, Live, pc = "packets",
         NEW p, p \in Candidates, Reads(p), Processed(p),
         loopStart' = loopStart, loops' = loops, snap' = snap, opt' = opt,
         pc' = IF status' = "ok" THEN "packets" ELSE "end"
  PROVE  SnapInv' /\ LoopInv'
<1>1. /\ Now' = Now + (IF p.op = "swap" THEN 1 ELSE 0)
      /\ Last' \in Nat /\ Now' \in Nat /\ Last <= Last'
      /\ pos < Len(trace) => Last' = Last /\ trace' = trace
      /\ pos = Len(trace) => ~ended
  BY ReadFrames
<1>2. Now \in Nat /\ Last \in Nat /\ pos \in 0..Len(trace) /\ Len(trace) \in Nat
      /\ pos' = pos + 1 /\ ended' = ended
  BY TraceFacts, ReadFacts
<1>3. loopStart # -1 \/ opt.loop # 0
  BY DEF Live, SnapInv
<1>4. SnapInv'
  <2>1. ASSUME loopStart # -1
        PROVE  \E n \in 0..pos' : BeginsAt(trace', n, loopStart) /\ Restores(snap, trace', n)
    <3>1. PICK n \in 0..pos : BeginsAt(trace, n, loopStart) /\ Restores(snap, trace, n)
      BY <2>1 DEF Live, SnapInv
    <3>2. n \in 0..Len(trace) /\ n \in 0..pos'
      BY <1>2
    <3>3. BeginsAt(trace', n, loopStart) /\ Restores(snap, trace', n)
      BY <3>1, <3>2, ReadProgram
    <3>. QED
      BY <3>2, <3>3
  <2>2. loopStart # -1 => loopStart \in Nat
    BY DEF Live, SnapInv
  <2>. QED
    BY <1>3, <2>1, <2>2 DEF SnapInv
<1>5. LoopInv'
  <2>1. loops \in 0..LoopCount /\ (loopStart = -1 => loops = LoopCount)
    BY DEF Live, LoopInv
  <2>2. ASSUME loopStart # -1
        PROVE  /\ Now' <= loopStart + LoopLen
               /\ Now' = loopStart + LoopLen => pc' = "end" /\ boundary'
               /\ loops < LoopCount =>
                    Last' >= loopStart + LoopLen \/ (ended' /\ Starts(trace', Len(trace')))
    <3>1. Now # loopStart + LoopLen /\ Now <= loopStart + LoopLen /\ loopStart + LoopLen \in Nat
      BY <2>2, ReplayAssumption DEF Live, LoopInv, SnapInv
    <3>2. Now' <= loopStart + LoopLen
      BY <1>1, <1>2, <3>1
    <3>3. Now' = loopStart + LoopLen => pc' = "end" /\ boundary'
      <4>. SUFFICES ASSUME Now' = loopStart + LoopLen
                    PROVE  pc' = "end" /\ boundary'
        OBVIOUS
      <4>1. p.op = "swap"
        BY <1>1, <1>2, <3>1
      <4>2. Swap(p)
        BY <4>1 DEF Processed, Create, Destroy, Defer, MakeCurrentNow, Call, Snapshot
      <4>. QED
        BY <4>2 DEF Swap
    <3>4. ASSUME loops < LoopCount
          PROVE  Last' >= loopStart + LoopLen \/ (ended' /\ Starts(trace', Len(trace')))
      <4>1. Last >= loopStart + LoopLen \/ (ended /\ Starts(trace, Len(trace)))
        BY <2>2, <3>4 DEF Live, LoopInv
      <4>2. CASE Last >= loopStart + LoopLen
        BY <1>1, <1>2, <3>1, <4>2
      <4>3. CASE ended /\ Starts(trace, Len(trace))
        <5>1. pos < Len(trace)
          BY <1>1, <1>2, <4>3
        <5>. QED
          BY <1>1, <1>2, <4>3, <5>1
      <4>. QED
        BY <4>1, <4>2, <4>3
    <3>. QED
      BY <3>2, <3>3, <3>4
  <2>. QED
    BY <2>1, <2>2 DEF LoopInv
<1>. QED
  BY <1>4, <1>5

LEMMA ProcessNextStep ==
  ASSUME TraceInv, Live, ProcessNext
  PROVE  TraceInv' /\ Live'
<1>1. PICK p \in Candidates : Reads(p) /\ Processed(p)
  BY DEF ProcessNext
<1>2. /\ pc = "packets" /\ ~HasPending /\ pc' = IF status' = "ok" THEN "packets" ELSE "end"
      /\ opt' = opt /\ snap' = snap /\ loopStart' = loopStart /\ loops' = loops /\ result' = result
  BY DEF ProcessNext
<1>3. /\ pendingSnapshot' # NoSnapshot =>
              /\ Restores(pendingSnapshot', trace', pos')
              /\ pendingMakeCurrent' = NoPacket /\ ~boundary'
      /\ pendingSnapshot' = NoSnapshot =>
              /\ contexts' = ProgramOf(trace', pos').alive
              /\ made' \union ({pendingMakeCurrent'.ctx} \ {0}) = ProgramOf(trace', pos').made
              /\ frame' = ProgramOf(trace', pos').frame
              /\ boundary' <=> Starts(trace', pos')
      /\ pendingMakeCurrent' # NoPacket => ~boundary'
      /\ status' = "ok" => resize' = 0 /\ pendingSnapshot' = NoSnapshot
      /\ status' # "eof"
  BY <1>1, <1>2, PacketFollows
<1>4. FollowInv'
  BY <1>2, <1>3 DEF FollowInv
<1>5. SnapInv' /\ LoopInv' /\ ShownInv'
  BY <1>1, <1>2, PacketLoops, PacketShown
<1>6. TraceInv'
  <2>1. /\ trace' \in Traces /\ pos' \in 1..Len(trace') /\ Len(trace') \in Nat
        /\ pos = Len(trace) => Len(trace') = pos'
    <3>1. /\ trace' \in Traces /\ Len(trace') \in Nat /\ pos' = pos + 1 /\ pos' \in 1..Len(trace')
          /\ \/ trace' = trace /\ pos < Len(trace)
             \/ ~ended /\ pos = Len(trace) /\ Len(trace') = pos + 1
      BY <1>1, ReadFacts
    <3>. QED
      BY <3>1, TraceFacts
  <2>2. loopStart = -1 => pos = Len(trace)
    BY DEF TraceInv
  <2>3. result = None /\ opt \in Options
    BY <1>2 DEF TraceInv
  <2>. QED
    BY <1>2, <1>3, <2>1, <2>2, <2>3 DEF TraceInv, Traces
<1>. QED
  BY <1>4, <1>5, <1>6 DEF Live

-----------------------------------------------------------------------------
(* The loop.                                                                 *)

LEMMA TakeSnapshotStep ==
  ASSUME TraceInv, Live, TakeSnapshot
  PROVE  TraceInv' /\ Live'
<1>1. /\ trace' = trace /\ ended' = ended /\ pos' = pos /\ opt' = opt /\ status' = status
      /\ pc = "top" /\ pc' = "wait" /\ result' = result /\ loops' = loops /\ shown' = shown
      /\ contexts' = contexts /\ made' = made /\ frame' = frame /\ boundary' = boundary
      /\ pendingSnapshot' = pendingSnapshot /\ pendingMakeCurrent' = pendingMakeCurrent
      /\ snap' = Captured /\ loopStart' = Now
      /\ boundary /\ frame = opt.loop /\ loopStart = -1
  BY TraceFacts DEF TakeSnapshot, Snaps, file, pending, history
<1>2. /\ trace \in Traces /\ Len(trace) \in Nat /\ pos \in 0..Len(trace)
      /\ Now \in Nat /\ Last \in Nat /\ Now = Last
      /\ Now' = Now /\ Last' = Last
  BY <1>1, TraceFacts DEF TraceInv, Now, Last
<1>3. /\ contexts = ProgramOf(trace, pos).alive /\ made = ProgramOf(trace, pos).made
      /\ frame = Now /\ Starts(trace, pos)
  BY <1>1, Unpended
<1>4. TraceInv'
  BY <1>1, <1>2 DEF TraceInv
<1>5. FollowInv'
  BY <1>1 DEF Live, FollowInv, TraceInv
<1>6. SnapInv'
  <2>1. Restores(snap', trace, pos)
    BY <1>1, <1>3 DEF Restores, Captured, Now
  <2>2. BeginsAt(trace, pos, Now)
    <3>1. CASE pos = 0
      BY <3>1 DEF BeginsAt, Now
    <3>2. CASE pos # 0
      <4>1. pos - 1 \in 0..Len(trace) /\ pos - 1 # Len(trace) /\ (pos - 1) + 1 = pos
            /\ pos - 1 \in Nat
        BY <1>2, <3>2
      <4>2. trace[pos].op # "snapshot"
        <5>. SUFFICES ASSUME trace[pos].op = "snapshot" PROVE FALSE
          OBVIOUS
        <5>1. pos = 1
          BY <1>2, <3>2 DEF Traces
        <5>2. /\ ProgramOf(trace, 0).frame \in Nat
              /\ ProgramOf(trace, 0 + 1).frame = ProgramOf(trace, 0).frame + 0
          BY <1>2, <4>1, <5>1, FrameStep
        <5>3. Now = 0
          BY <5>1, <5>2, ProgramOfStep, SnapshotFacts DEF Now
        <5>4. pos = 0
          BY <1>1, <1>3, <5>3 DEF Live, SnapInv
        <5>. QED
          BY <3>2, <5>4
      <4>3. trace[pos].op = "swap"
        BY <1>3, <3>2, <4>2 DEF Starts
      <4>4. /\ ProgramOf(trace, pos - 1).frame \in Nat
            /\ ProgramOf(trace, pos).frame = ProgramOf(trace, pos - 1).frame + 1
        <5>1. /\ ProgramOf(trace, pos - 1).frame \in Nat
              /\ ProgramOf(trace, (pos - 1) + 1).frame =
                   ProgramOf(trace, pos - 1).frame +
                     (IF trace[(pos - 1) + 1].op = "swap" THEN 1 ELSE 0)
          BY <1>2, <4>1, FrameStep
        <5>. QED
          BY <4>1, <4>3, <5>1
      <4>. QED
        BY <4>4 DEF BeginsAt, Now
    <3>. QED
      BY <3>1, <3>2
  <2>3. pos \in 0..pos /\ loopStart' # -1
    BY <1>1, <1>2
  <2>. QED
    BY <1>1, <1>2, <2>1, <2>2, <2>3 DEF SnapInv
<1>7. LoopInv'
  <2>1. loops \in 0..LoopCount /\ loops = LoopCount
    BY <1>1 DEF Live, LoopInv
  <2>2. Now <= Now + LoopLen /\ Now # Now + LoopLen /\ LoopCount \in Nat
    BY <1>2, ReplayAssumption
  <2>. QED
    BY <1>1, <1>2, <2>1, <2>2 DEF LoopInv
<1>8. ShownInv'
  <2>1. loops = LoopCount /\ LoopCount \in Nat /\ LoopLen \in Nat
    BY <1>1, ReplayAssumption DEF Live, LoopInv
  <2>2. ASSUME NEW f \in 0..MaxPackets
        PROVE  Showings(f, Now, Now, Last, loops) = Showings(f, -1, Now, Last, loops)
    BY <1>2, <2>1 DEF Showings
  <2>. QED
    BY <1>1, <1>2, <2>2 DEF Live, ShownInv
<1>. QED
  BY <1>4, <1>5, <1>6, <1>7, <1>8 DEF Live

\* Where a pass ends and another begins: the reader's frame, and what is known.
LEMMA PassEnds ==
  ASSUME TraceInv, Live, pc = "end", AtLoopEnd \/ status = "eof"
  PROVE  /\ Now \in Nat /\ Last \in Nat /\ Now <= Last /\ LoopLen \in Nat \ {0}
         /\ loops \in 0..LoopCount /\ LoopCount \in Nat
         /\ loopStart = -1 => ~AtLoopEnd
         /\ AtLoopEnd => loopStart \in Nat /\ Now = loopStart + LoopLen /\ boundary
         /\ status = "eof" => Now = Last /\ pos = Len(trace) /\ ended
                              /\ (boundary <=> Starts(trace, pos))
         /\ loopStart # -1 => loopStart \in Nat /\ Now <= loopStart + LoopLen
         /\ loopStart # -1 /\ ~AtLoopEnd => Now < loopStart + LoopLen
<1>1. Now \in Nat /\ Last \in Nat /\ Now <= Last /\ ReaderFrame = Now
      /\ (pos = Len(trace) => Now = Last)
  BY TraceFacts
<1>2. loopStart # -1 =>
        /\ loopStart \in Nat /\ Now <= loopStart + LoopLen
        /\ Now = loopStart + LoopLen => boundary
  BY DEF Live, LoopInv, SnapInv
<1>3. loops \in 0..LoopCount /\ LoopCount \in Nat /\ LoopLen \in Nat \ {0}
  BY ReplayAssumption DEF Live, LoopInv
<1>4. AtLoopEnd <=> loopStart # -1 /\ Now = loopStart + LoopLen
  BY <1>1 DEF AtLoopEnd
<1>5. status = "eof" => pos = Len(trace) /\ ended /\ (boundary <=> Starts(trace, pos))
  BY DEF TraceInv, Live, FollowInv
<1>6. loopStart # -1 /\ ~AtLoopEnd => Now < loopStart + LoopLen
  BY <1>1, <1>2, <1>3, <1>4
<1>. QED
  BY <1>1, <1>2, <1>3, <1>4, <1>5, <1>6

\* The reader's place at the start of the loop is the one of the snapshot.
LEMMA LoopPlace ==
  ASSUME TraceInv, Live, loopStart # -1, NEW n, n = PosOf(loopStart)
  PROVE  /\ n \in 0..pos /\ n \in Nat /\ BeginsAt(trace, n, loopStart) /\ Restores(snap, trace, n)
<1>1. PICK m \in 0..pos : BeginsAt(trace, m, loopStart) /\ Restores(snap, trace, m)
  BY DEF Live, SnapInv
<1>2. trace \in Traces /\ Len(trace) \in Nat /\ pos \in 0..Len(trace)
  BY TraceFacts
<1>3. m \in 0..Len(trace) /\ m \in Nat
  BY <1>2
<1>4. \A i, f : BeginsAt(trace, i, f) <=>
                  Program(i).frame = f /\ (i = 0 \/ Program(i - 1).frame < f)
  BY DEF BeginsAt, Program, ProgramOf
<1>5. n \in 0..Len(trace) /\ BeginsAt(trace, n, loopStart)
  <2>1. n = CHOOSE i \in 0..Len(trace) : Program(i).frame = loopStart
                                         /\ (i = 0 \/ Program(i - 1).frame < loopStart)
    BY DEF PosOf
  <2>2. \E i \in 0..Len(trace) : Program(i).frame = loopStart
                                 /\ (i = 0 \/ Program(i - 1).frame < loopStart)
    BY <1>1, <1>3, <1>4
  <2>. QED
    BY <1>4, <2>1, <2>2
<1>6. n = m
  BY <1>1, <1>2, <1>3, <1>5, FrameBegins
<1>. QED
  BY <1>1, <1>3, <1>6

LEMMA RewindStep ==
  ASSUME TraceInv, Live, Rewind
  PROVE  TraceInv' /\ Live'
<1>1. /\ trace' = trace /\ ended' = ended /\ opt' = opt /\ status' = "resize"
      /\ pc = "end" /\ pc' = "top" /\ result' = result /\ loops' = loops - 1 /\ shown' = shown
      /\ snap' = snap /\ loopStart' = loopStart /\ pos' = PosOf(loopStart)
      /\ boundary' = FALSE /\ pendingSnapshot' = snap /\ pendingMakeCurrent' = NoPacket
      /\ boundary /\ loops > 0 /\ loopStart # -1 /\ (AtLoopEnd \/ status = "eof")
  BY DEF Rewind, LoopAgain, AtLoopEnd, BeginApplying, history
<1>2. /\ pos' \in 0..pos /\ pos' \in Nat /\ BeginsAt(trace, pos', loopStart)
      /\ Restores(snap, trace, pos')
  BY <1>1, LoopPlace
<1>3. /\ Now \in Nat /\ Last \in Nat /\ Now <= Last /\ LoopLen \in Nat \ {0}
      /\ loops \in 0..LoopCount /\ LoopCount \in Nat
      /\ AtLoopEnd => Now = loopStart + LoopLen
      /\ status = "eof" => Now = Last /\ pos = Len(trace) /\ ended /\ Starts(trace, Len(trace))
      /\ loopStart \in Nat /\ Now <= loopStart + LoopLen
  BY <1>1, PassEnds
<1>4. trace \in Traces /\ Len(trace) \in Nat /\ pos \in 0..Len(trace)
  BY TraceFacts
<1>5. Now' = loopStart /\ Last' = Last /\ loopStart <= Now
  <2>1. Now' = loopStart /\ Last' = Last
    BY <1>1, <1>2 DEF Now, Last, BeginsAt
  <2>2. ProgramOf(trace, pos').frame <= ProgramOf(trace, pos).frame
    BY <1>2, <1>4, FrameGrows
  <2>. QED
    BY <1>2, <2>1, <2>2 DEF Now, BeginsAt
<1>6. TraceInv'
  <2>1. pos' \in 0..Len(trace)
    BY <1>2, <1>4
  <2>. QED
    BY <1>1, <2>1 DEF TraceInv
<1>7. FollowInv'
  <2>1. snap.boundary
    BY <1>2 DEF Restores
  <2>2. snap # NoSnapshot
    BY <2>1 DEF NoSnapshot
  <2>. QED
    BY <1>1, <1>2, <2>2 DEF FollowInv
<1>8. SnapInv'
  <2>1. pos' \in 0..pos'
    BY <1>2
  <2>. QED
    BY <1>1, <1>2, <1>3, <2>1 DEF SnapInv
<1>9. LoopInv'
  <2>1. loops - 1 \in 0..LoopCount
    BY <1>1, <1>3
  <2>2. loopStart <= loopStart + LoopLen /\ loopStart # loopStart + LoopLen
    BY <1>3
  <2>3. Last >= loopStart + LoopLen \/ (ended /\ Starts(trace, Len(trace)))
    BY <1>1, <1>3
  <2>. QED
    BY <1>1, <1>5, <2>1, <2>2, <2>3 DEF LoopInv
<1>10. ShownInv'
  <2>1. ASSUME NEW f \in 0..MaxPackets
        PROVE  Showings(f, loopStart, loopStart, Last, loops - 1) =
                 Showings(f, loopStart, Now, Last, loops)
    <3>1. f \in Int
      OBVIOUS
    <3>2. CASE AtLoopEnd
      BY <1>1, <1>3, <1>5, <3>1, <3>2 DEF Showings
    <3>3. CASE status = "eof"
      BY <1>1, <1>3, <1>5, <3>1, <3>3 DEF Showings
    <3>. QED
      BY <1>1, <3>2, <3>3
  <2>. QED
    BY <1>1, <1>5, <2>1 DEF Live, ShownInv
<1>. QED
  BY <1>6, <1>7, <1>8, <1>9, <1>10 DEF Live

\* The tool stops at the end of the loop or of the trace.
LEMMA EndReplayStep ==
  ASSUME TraceInv, Live, EndReplay
  PROVE  LoopsAreRight'
<1>1. /\ trace' = trace /\ shown' = shown /\ loopStart' = loopStart /\ boundary' = boundary
      /\ pc = "end" /\ (AtLoopEnd \/ status = "eof")
      /\ result' = IF AtLoopEnd THEN "looped" ELSE "eof"
      /\ ~LoopAgain
  BY DEF EndReplay, Stop, file, history
<1>2. /\ Now \in Nat /\ Last \in Nat /\ Now <= Last /\ LoopLen \in Nat \ {0}
      /\ loops \in 0..LoopCount /\ LoopCount \in Nat
      /\ loopStart = -1 => ~AtLoopEnd
      /\ AtLoopEnd => loopStart \in Nat /\ Now = loopStart + LoopLen /\ boundary
      /\ status = "eof" => Now = Last /\ pos = Len(trace) /\ ended
                           /\ (boundary <=> Starts(trace, pos))
      /\ loopStart # -1 => loopStart \in Nat /\ Now <= loopStart + LoopLen
      /\ loopStart # -1 /\ ~AtLoopEnd => Now < loopStart + LoopLen
  BY <1>1, PassEnds
<1>3. boundary /\ loopStart # -1 => loops = 0
  <2>1. boundary /\ loopStart # -1 => ~(loops > 0)
    BY <1>1 DEF LoopAgain
  <2>. QED
    BY <1>2, <2>1
<1>4. ~boundary /\ loopStart # -1 => loops = LoopCount
  <2>. SUFFICES ASSUME ~boundary, loopStart # -1, loops # LoopCount
                PROVE  FALSE
    OBVIOUS
  <2>1. loops < LoopCount
    BY <1>2
  <2>2. Last >= loopStart + LoopLen \/ Starts(trace, Len(trace))
    BY <2>1 DEF Live, LoopInv
  <2>. QED
    BY <1>1, <1>2, <2>2
<1>. DEFINE whole == AtLoopEnd \/ boundary
            Times(f) ==
              IF f >= Last \/ (loopStart # -1 /\ f >= loopStart + LoopLen) THEN 0
              ELSE IF loopStart # -1 /\ f >= loopStart /\ whole THEN 1 + LoopCount
              ELSE 1
<1>5. ASSUME NEW f \in 0..MaxPackets
      PROVE  Showings(f, loopStart, Now, Last, loops) = Times(f)
  <2>1. f \in Int
    OBVIOUS
  <2>2. CASE AtLoopEnd
    BY <1>2, <1>3, <2>1, <2>2 DEF Showings
  <2>3. CASE ~AtLoopEnd
    BY <1>1, <1>2, <1>3, <1>4, <2>1, <2>3 DEF Showings
  <2>. QED
    BY <2>2, <2>3
<1>6. \A f \in 0..MaxPackets : shown[f] = Times(f)
  BY <1>5 DEF Live, ShownInv
<1>7. Program(Len(trace))'.frame = Last
  <2>1. Program(Len(trace))' = ProgramOf(trace', Len(trace'))
    BY DEF Program, ProgramOf
  <2>. QED
    BY <1>1, <2>1 DEF Last
<1>8. (result' = "looped" \/ boundary') <=> whole
  BY <1>1
<1>. QED
  BY <1>1, <1>6, <1>7, <1>8 DEF LoopsAreRight

-----------------------------------------------------------------------------
(* The theorems.                                                             *)

LEMMA ReplayInit == Init => ReplayInv
<1>. SUFFICES ASSUME Init PROVE ReplayInv
  OBVIOUS
<1>1. /\ trace = <<>> /\ pos = 0 /\ Len(trace) = 0 /\ trace \in Seq(Packets)
      /\ DOMAIN trace = {}
  BY DEF Init
<1>2. TraceInv
  BY <1>1 DEF Init, TraceInv
<1>3. ProgramOf(trace, 0) = NoProgram
  BY ProgramOfStep
<1>4. Now = 0 /\ Last = 0
  BY <1>1, <1>3, SnapshotFacts DEF Now, Last
<1>5. FollowInv
  <2>1. NoPacket.ctx = 0 /\ NoProgram.alive = {} /\ NoProgram.made = {} /\ NoProgram.frame = 0
    BY DEF NoPacket, Packet, NoProgram
  <2>2. Starts(trace, 0)
    BY DEF Starts
  <2>. QED
    BY <1>1, <1>3, <2>1, <2>2 DEF Init, FollowInv
<1>6. SnapInv
  BY DEF Init, SnapInv
<1>7. LoopInv
  BY ReplayAssumption DEF Init, LoopInv
<1>8. ShownInv
  BY <1>4 DEF Init, ShownInv, Showings
<1>9. LoopsAreRight
  BY DEF Init, LoopsAreRight, None
<1>. QED
  BY <1>2, <1>5, <1>6, <1>7, <1>8, <1>9 DEF Live, ReplayInv

\* The tool stops for another reason.
LEMMA StopStep ==
  ASSUME TraceInv, pc # "done",
         Close \/ CaptureFails \/ ApplyFails \/ Fails \/ (WriteTrim /\ pc' = "done")
  PROVE  ReplayInv'
<1>1. pc' = "done" /\ result' \in {"closed", "failed", "trimmed"} /\ status' = status
      /\ pc # "end" /\ opt' = opt /\ loopStart' = loopStart
  BY DEF Close, CaptureFails, ApplyFails, Fails, WriteTrim, Stop
<1>2. status # "eof"
  BY <1>1 DEF TraceInv
<1>3. /\ trace' \in Seq(Packets) /\ pos' \in 0..Len(trace')
      /\ \A i \in DOMAIN trace' : trace'[i].op = "snapshot" => i = 1
      /\ loopStart = -1 => pos' = Len(trace')
  <2>1. CASE trace' = trace /\ pos' = pos
    BY <2>1 DEF TraceInv
  <2>2. CASE ~(trace' = trace /\ pos' = pos)
    <3>1. PICK p \in Candidates : Reads(p)
      BY <2>2 DEF Close, CaptureFails, ApplyFails, Fails, WriteTrim, file
    <3>2. /\ trace' \in Traces /\ Len(trace') \in Nat /\ pos' = pos + 1 /\ pos' \in 1..Len(trace')
          /\ \/ trace' = trace /\ pos < Len(trace)
             \/ ~ended /\ pos = Len(trace) /\ Len(trace') = pos + 1
      BY <3>1, ReadFacts
    <3>3. (loopStart = -1 => pos = Len(trace)) /\ pos \in 0..Len(trace) /\ Len(trace) \in Nat
      BY TraceFacts DEF TraceInv
    <3>. QED
      BY <3>2, <3>3 DEF Traces
  <2>. QED
    BY <2>1, <2>2
<1>4. TraceInv'
  BY <1>1, <1>2, <1>3 DEF TraceInv
<1>5. LoopsAreRight'
  BY <1>1 DEF LoopsAreRight
<1>. QED
  BY <1>1, <1>4, <1>5 DEF ReplayInv

\* Every step keeps the invariant.
LEMMA ReplayStep == ReplayInv /\ [Next]_vars => ReplayInv'
<1>. SUFFICES ASSUME ReplayInv, [Next]_vars PROVE ReplayInv'
  OBVIOUS
<1>1. TraceInv /\ LoopsAreRight /\ (pc # "done" => Live)
  BY DEF ReplayInv
<1>2. CASE UNCHANGED vars
  <2>1. /\ trace' = trace /\ ended' = ended /\ pos' = pos /\ opt' = opt /\ pc' = pc
        /\ status' = status /\ snap' = snap /\ loopStart' = loopStart /\ loops' = loops
        /\ result' = result /\ contexts' = contexts /\ made' = made /\ frame' = frame
        /\ boundary' = boundary /\ resize' = resize /\ shown' = shown
        /\ pendingSnapshot' = pendingSnapshot /\ pendingMakeCurrent' = pendingMakeCurrent
    BY <1>2 DEF vars, file, tool, known, pending, history
  <2>2. TraceInv'
    BY <1>1, <2>1 DEF TraceInv
  <2>3. Live => Live'
    BY <2>1 DEF Live, FollowInv, SnapInv, LoopInv, ShownInv, Now, Last
  <2>4. LoopsAreRight'
    <3>1. Program(Len(trace))' = ProgramOf(trace', Len(trace'))
          /\ Program(Len(trace)) = ProgramOf(trace, Len(trace))
      BY DEF Program, ProgramOf
    <3>. QED
      BY <1>1, <2>1, <3>1 DEF LoopsAreRight
  <2>. QED
    BY <1>1, <2>1, <2>2, <2>3, <2>4 DEF ReplayInv
<1>3. CASE Next
  <2>1. pc # "done" /\ Live
    <3>1. pc # "done"
      BY <1>3 DEF Next, Frame, WriteTrim, TakeSnapshot, CaptureFails, BeginFrame, AskAgain,
         EndWait, ApplyFails, ProcessPending, ProcessNext, ReachEnd, Fails, Rewind, EndReplay,
         NextFrame, Close, WindowEvent, WindowChanges
    <3>. QED
      BY <1>1, <3>1
  <2>2. CASE Close \/ CaptureFails \/ ApplyFails \/ Fails \/ (WriteTrim /\ pc' = "done")
    BY <1>1, <2>1, <2>2, StopStep
  <2>3. CASE EndReplay
    <3>1. TraceInv'
      BY <1>1, <2>3 DEF EndReplay, Stop, file, TraceInv
    <3>2. LoopsAreRight'
      BY <1>1, <2>1, <2>3, EndReplayStep
    <3>3. pc' = "done"
      BY <2>3 DEF EndReplay, Stop
    <3>. QED
      BY <3>1, <3>2, <3>3 DEF ReplayInv
  <2>4. CASE \/ WriteTrim /\ pc' # "done"
             \/ TakeSnapshot \/ BeginFrame \/ AskAgain \/ EndWait \/ ProcessPending
             \/ ProcessNext \/ ReachEnd \/ Rewind \/ NextFrame \/ WindowEvent \/ WindowChanges
    <3>1. TraceInv' /\ Live'
      BY <1>1, <2>1, <2>4, WriteTrimStep, TakeSnapshotStep, BeginFrameStep, AskAgainStep,
         EndWaitStep, ProcessPendingStep, ProcessNextStep, ReachEndStep, RewindStep,
         NextFrameStep, WindowStep
    <3>2. pc' # "done"
      BY <2>1, <2>4 DEF TakeSnapshot, BeginFrame, AskAgain, EndWait, ProcessPending, ProcessNext,
         ReachEnd, Rewind, NextFrame, WindowEvent, WindowChanges, tool
    <3>3. LoopsAreRight'
      <4>1. result' = None
        BY <3>1, <3>2 DEF TraceInv
      <4>. QED
        BY <4>1 DEF LoopsAreRight, None
    <3>. QED
      BY <3>1, <3>3 DEF ReplayInv
  <2>. QED
    BY <1>3, <2>2, <2>3, <2>4 DEF Next, Frame
<1>. QED
  BY <1>2, <1>3

\* For any trace, options and windows: whenever nothing is put off the replayer has
\* the contexts of the program at the reader's place, and counts its frames.
THEOREM FollowCorrect == Spec => []FollowsTrace
<1>1. ReplayInv => FollowsTrace
  <2>. SUFFICES ASSUME ReplayInv, pc # "done", ~HasPending
                PROVE  /\ contexts = Program(pos).alive /\ made = Program(pos).made
                       /\ frame = Program(pos).frame
    BY DEF FollowsTrace
  <2>1. Program(pos) = ProgramOf(trace, pos)
    BY DEF Program, ProgramOf
  <2>2. NoPacket.ctx = 0
    BY DEF NoPacket, Packet
  <2>. QED
    BY <2>1, <2>2 DEF HasPending, ReplayInv, Live, FollowInv
<1>. QED
  BY <1>1, ReplayInit, ReplayStep, PTL DEF Spec

\* For any trace, options and windows: a replay that comes to its end has shown the
\* frames of the loop as often as was asked for, and the others once.
THEOREM LoopsCorrect == Spec => []LoopsAreRight
<1>1. ReplayInv => LoopsAreRight
  BY DEF ReplayInv
<1>. QED
  BY <1>1, ReplayInit, ReplayStep, PTL DEF Spec

\* For any trace, options and windows: no packet is processed before the window has
\* its size, the snapshot is applied and the context is current.
THEOREM WaitCorrect == Spec => PacketsWait
<1>1. ReplayInv /\ [Next]_vars => [pos' = pos + 1 => (resize = 0 /\ ~HasPending)]_vars
  <2>. SUFFICES ASSUME ReplayInv, Next, pos' = pos + 1
                PROVE  resize = 0 /\ ~HasPending
    OBVIOUS
  <2>1. TraceInv /\ pos \in Nat /\ pos' # pos
    BY TraceFacts DEF ReplayInv
  <2>2. ~Rewind
    <3>. SUFFICES ASSUME Rewind PROVE FALSE
      OBVIOUS
    <3>1. pc # "done" /\ loopStart # -1 /\ pos' = PosOf(loopStart)
      BY DEF Rewind, LoopAgain, AtLoopEnd
    <3>2. pos' \in 0..pos
      BY <2>1, <3>1, LoopPlace DEF ReplayInv
    <3>. QED
      BY <2>1, <3>2
  <2>3. pc = "packets" /\ ~HasPending
    BY <2>1, <2>2 DEF Next, Frame, WriteTrim, TakeSnapshot, CaptureFails, BeginFrame, AskAgain,
       EndWait, ApplyFails, ProcessPending, ProcessNext, ReachEnd, Fails, EndReplay,
       NextFrame, Close, WindowEvent, WindowChanges, file
  <2>. QED
    BY <2>3 DEF ReplayInv, Live, FollowInv
<1>. QED
  BY <1>1, ReplayInit, ReplayStep, PTL DEF Spec, PacketsWait

==============================================================================

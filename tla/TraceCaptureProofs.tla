------------------------- MODULE TraceCaptureProofs -------------------------
(***************************************************************************)
(* Proofs about TraceCapture for any finite number of threads, any bounds  *)
(* on frames, requests and calls, every fault and every way out of the     *)
(* process unless a theorem names its own hypothesis.  In this order: type *)
(* correctness; the discipline of the two mutexes and the frame count that *)
(* a session leaves behind; the packets of a trace and the calls of each   *)
(* thread in it, the end of a session and its number of frames; the        *)
(* absence of circular waits; what holds of a program with a single        *)
(* thread; and the implementation of the abstract CaptureSession.          *)
(***************************************************************************)
EXTENDS TraceCapture, FiniteSetTheorems, TLAPS

USE DEF Goto, At, control, locks, ending, trace, gl, session, history

\* The places named in the code are all different kinds of places.
LEMMA PlaceFacts ==
  /\ CallPlaces \subseteq Places /\ ExitPlaces \subseteq Places
  /\ SigPlaces \subseteq Places
  /\ GLPlaces \subseteq CallPlaces /\ MCPlaces \subseteq CallPlaces
  /\ SwapPlaces \subseteq CallPlaces /\ TickPlaces \subseteq CallPlaces
  /\ "idle" \in CallPlaces
  BY DEF Places, CallPlaces

\* begin() leaves a serializer and a counter of the right types.
LEMMA BeginType ==
  ASSUME TypeOK, NEW t \in Threads, Begin(t)
  PROVE  /\ ser' \in [Threads -> [inBegin : BOOLEAN, counter : Nat]]
         /\ callCounter' \in Nat
  BY DEF TypeOK, Begin

\* end(), and the dropping of a packet, leave a serializer of the right type.
LEMMA EndType ==
  ASSUME TypeOK, NEW t \in Threads, End(t) \/ Discard(t)
  PROVE  ser' \in [Threads -> [inBegin : BOOLEAN, counter : Nat]]
<1>1. ser[t].counter \in Nat
  BY DEF TypeOK
<1>2. CASE End(t)
  BY <1>1, <1>2 DEF TypeOK, End
<1>3. CASE Discard(t)
  BY <1>3 DEF TypeOK, Discard, NoPacket
<1>. QED
  BY <1>2, <1>3

\* A thread that goes to a place of the code is at a place of the code.
LEMMA GotoType ==
  ASSUME TypeOK, NEW t \in Threads, NEW place \in Places, Goto(t, place)
  PROVE  pc' \in [Threads -> Places]
  BY DEF TypeOK

\* The critical section of vogl_write_packet_to_trace is type correct.
LEMMA WritePacketType ==
  ASSUME TypeOK, NEW t \in Threads, NEW from \in Places, NEW to \in Places,
         NEW kind \in {"gl", "mc", "swap"}, WritePacket(t, from, kind, to),
         ctxOwner' \in Owners
  PROVE  TypeOK'
<1>1. Packet(t, kind) \in Packets
  BY DEF TypeOK, Packet, Packets
<1>2. file' \in Seq(Packets)
  <2>1. file \in Seq(Packets)
    BY DEF TypeOK
  <2>2. Append(file, Packet(t, kind)) \in Seq(Packets)
    BY <1>1, <2>1
  <2>3. file' \in {file, Append(file, Packet(t, kind))}
    BY DEF WritePacket
  <2>. QED
    BY <2>1, <2>2, <2>3
<1>3. ser' \in [Threads -> [inBegin : BOOLEAN, counter : Nat]]
  BY EndType DEF WritePacket
<1>4. pc' \in [Threads -> Places]
  BY GotoType DEF WritePacket, Places, ExitPlaces
<1>5. traceOwner' \in Owners /\ writeFailed' \in BOOLEAN
  BY DEF TypeOK, WritePacket, Owners
<1>. QED
  BY <1>2, <1>3, <1>4, <1>5 DEF TypeOK, WritePacket

\* The first half of vogl_end_capture is type correct.
LEMMA EndCtxType ==
  ASSUME TypeOK, NEW t \in Threads, NEW from \in Places, NEW to \in Places,
         EndCtx(t, from, to)
  PROVE  TypeOK'
  BY GotoType DEF TypeOK, EndCtx

\* What vogl_end_capture leaves; the rest is its caller's.
LEMMA EndCloseType ==
  ASSUME TypeOK, NEW t \in Threads, NEW from \in Places, EndClose(t, from),
         traceOwner' \in Owners, ctxOwner' \in Owners,
         once' \in {"new", "busy", "done"}, writeFailed' \in BOOLEAN,
         alive' \in BOOLEAN, pc' \in [Threads -> Places],
         UNCHANGED interrupted
  PROVE  TypeOK'
<1>1. file' \in Seq(Packets)
  BY DEF EndClose
<1>2. remaining' \in 0..MaxFrames \union {UINT32_MAX}
      /\ callback' \in 0..requests' /\ want' \in {0} \union Frames
  BY CaptureAssumption DEF TypeOK, EndClose, ResetSession
<1>3. opened' \in BOOLEAN /\ snapped' \in BOOLEAN
  BY DEF EndClose
<1>4. /\ snapCounter' \in Nat /\ stopMark' \in Nat
      /\ report' \in {"none", "filename", "null"}
  BY DEF EndClose
<1>. QED
  BY <1>1, <1>2, <1>3, <1>4 DEF TypeOK, EndClose

\* The initial state is type correct.
LEMMA TypeInit == Init => TypeOK
<1>. SUFFICES ASSUME Init PROVE TypeOK
  OBVIOUS
<1>1. file \in Seq(Packets)
  BY DEF Init
<1>2. pc \in [Threads -> Places] /\ interrupted \in [Threads -> CallPlaces]
  BY PlaceFacts DEF Init
<1>3. ser \in [Threads -> [inBegin : BOOLEAN, counter : Nat]]
  BY DEF Init, NoPacket
<1>4. /\ opened \in BOOLEAN /\ stop \in BOOLEAN /\ writeFailed \in BOOLEAN
      /\ alive \in BOOLEAN /\ snapped \in BOOLEAN /\ lost \in BOOLEAN
  BY CaptureAssumption DEF Init
<1>5. remaining \in 0..MaxFrames /\ callback \in 0..requests
      /\ requests \in 0..MaxRequests
  BY CaptureAssumption DEF Init
<1>. QED
  BY <1>1, <1>2, <1>3, <1>4, <1>5 DEF Init, TypeOK, Owners

\* The capture and stop requests are type correct.
LEMMA ControllerType ==
  ASSUME TypeOK, Controller
  PROVE  TypeOK'
<1>1. CASE \E n \in Frames : CaptureOnNextSwap(n)
  <2>. PICK n \in Frames : CaptureOnNextSwap(n)
    BY <1>1
  <2>1. requests' \in 0..MaxRequests /\ callback' \in 0..requests'
    BY CaptureAssumption DEF TypeOK, CaptureOnNextSwap
  <2>. QED
    BY <2>1 DEF TypeOK, CaptureOnNextSwap
<1>2. ASSUME AcceptStop PROVE stopMark' \in Nat
  <2>1. Len(file) \in Nat
    BY DEF TypeOK
  <2>. QED
    BY <2>1, <1>2 DEF TypeOK, AcceptStop
<1>3. CASE StopCapturing
  BY <1>2, <1>3 DEF TypeOK, StopCapturing, AcceptStop
<1>4. CASE StopCapturingWithCallback
  <2>1. requests' \in 0..MaxRequests /\ callback' \in 0..requests'
    BY <1>4, CaptureAssumption DEF TypeOK, StopCapturingWithCallback
  <2>. QED
    BY <1>2, <1>4, <2>1 DEF TypeOK, StopCapturingWithCallback, AcceptStop
<1>. QED
  BY <1>1, <1>3, <1>4 DEF Controller

\* vogl_tick_capture is type correct: the frame counter is decremented only
\* when it is positive and counts.
LEMMA TickType ==
  ASSUME TypeOK, NEW t \in Threads, Tick(t)
  PROVE  TypeOK'
<1>. DEFINE left  == IF Pending THEN total ELSE remaining
            after == IF ~Ending /\ FrameDone(left) THEN left - 1 ELSE left
<1>1. left \in 0..MaxFrames \union {UINT32_MAX}
  BY CaptureAssumption DEF TypeOK, Frames
<1>2. after \in 0..MaxFrames \union {UINT32_MAX}
  BY <1>1, CaptureAssumption DEF FrameDone
<1>3. pc' \in [Threads -> Places]
  <2>1. {"end_ctx", "snap", SwapReturn} \subseteq Places
    BY DEF Places, CallPlaces, TickPlaces, SwapPlaces, SwapReturn
  <2>2. \E place \in {"end_ctx", "snap", SwapReturn} : Goto(t, place)
    BY DEF Tick
  <2>. QED
    BY <2>1, <2>2, GotoType
<1>4. remaining' \in 0..MaxFrames \union {UINT32_MAX}
  BY <1>2 DEF Tick
<1>5. /\ total' \in {0} \union Frames /\ stop' \in BOOLEAN
      /\ traceOwner' \in Owners
  BY DEF Tick, TypeOK, Owners
<1>6. want' \in {0} \union Frames /\ outcome' \in {"none", "failed"}
  <2>1. want' \in {want, left} /\ outcome' \in {outcome, "none"}
    BY DEF Tick
  <2>. QED
    BY <1>1, <2>1, CaptureAssumption DEF TypeOK, Frames
<1>. QED
  BY <1>3, <1>4, <1>5, <1>6 DEF Tick, TypeOK
\* Where the steps below go.
LEMMA TargetFacts ==
  /\ {"idle", "gl_driver", "gl_write", "mc_release", "mc_driver", "mc_book",
      "mc_end", "mc_write", "sw_driver", "sw_write", "sw_tick", "sw_return",
      "snap", "snapping", "snap_open", "snap_write", "end_ctx", "end_close",
      "fail_ctx", "fail_close", "x_ctx", "x_close", "exit_lock", "exit_once",
      "exit_ctx", "exit_close", "exited", "sig_ctx", "sig_write",
      "sig_close"} = Places
  /\ SwapReturn \in Places /\ SwapReturn # "sig_write"
  BY DEF Places, CallPlaces, GLPlaces, MCPlaces, SwapPlaces, TickPlaces,
         ExitPlaces, SigPlaces, SwapReturn

\* The entrypoints.
LEMMA CallType ==
  ASSUME TypeOK, NEW t \in Threads,
         \/ GLProlog(t) \/ GLDriver(t) \/ GLWrite(t)
         \/ MCProlog(t) \/ MCRelease(t) \/ MCDriver(t) \/ MCBook(t)
         \/ MCEnd(t) \/ MCWrite(t)
         \/ SwapProlog(t) \/ SwapDriver(t) \/ SwapWrite(t)
  PROVE  TypeOK'
<1>1. CASE GLProlog(t)
  BY <1>1, TargetFacts, GotoType, BeginType DEF TypeOK, GLProlog
<1>2. CASE GLDriver(t)
  <2>1. pc' \in [Threads -> Places]
    BY <1>2, TargetFacts, GotoType DEF GLDriver
  <2>2. ser' \in [Threads -> [inBegin : BOOLEAN, counter : Nat]]
    BY <1>2, EndType DEF GLDriver
  <2>3. lost' \in BOOLEAN
    BY <1>2 DEF GLDriver
  <2>. QED
    BY <1>2, <2>1, <2>2, <2>3 DEF TypeOK, GLDriver
<1>3. CASE MCProlog(t)
  <2>1. pc' \in [Threads -> Places]
    BY <1>3, TargetFacts, GotoType DEF MCProlog
  <2>. QED
    BY <1>3, <2>1 DEF TypeOK, MCProlog
<1>4. CASE MCRelease(t)
  BY <1>4, TargetFacts, GotoType DEF TypeOK, MCRelease
<1>5. CASE MCDriver(t)
  <2>1. pc' \in [Threads -> Places]
    BY <1>5, TargetFacts, GotoType DEF MCDriver
  <2>2. driver' \in [Threads -> BOOLEAN]
    BY <1>5 DEF MCDriver, TypeOK
  <2>. QED
    BY <1>5, <2>1, <2>2 DEF TypeOK, MCDriver
<1>6. CASE MCBook(t)
  BY <1>6, TargetFacts, GotoType DEF TypeOK, MCBook
<1>7. CASE SwapProlog(t)
  BY <1>7, TargetFacts, GotoType, BeginType DEF TypeOK, SwapProlog
<1>8. CASE SwapDriver(t)
  <2>1. pc' \in [Threads -> Places]
    BY <1>8, TargetFacts, GotoType DEF SwapDriver
  <2>2. ser' \in [Threads -> [inBegin : BOOLEAN, counter : Nat]]
    BY <1>8, EndType DEF SwapDriver
  <2>. QED
    BY <1>8, <2>1, <2>2 DEF TypeOK, SwapDriver
<1>9. CASE MCEnd(t)
  <2>1. /\ callCounter' \in Nat
        /\ ser' \in [Threads -> [inBegin : BOOLEAN, counter : Nat]]
    <3>1. callCounter + 1 \in Nat /\ callCounter \in Nat
      BY DEF TypeOK
    <3>2. [inBegin |-> FALSE, counter |-> callCounter + 1]
            \in [inBegin : BOOLEAN, counter : Nat]
      BY <3>1
    <3>. QED
      BY <1>9, <3>1, <3>2 DEF TypeOK, MCEnd
  <2>2. pc' \in [Threads -> Places]
    BY <1>9, TargetFacts, GotoType DEF MCEnd
  <2>. QED
    BY <1>9, <2>1, <2>2 DEF TypeOK, MCEnd
<1>10. CASE GLWrite(t) \/ MCWrite(t) \/ SwapWrite(t)
  BY <1>10, TargetFacts, WritePacketType, ZenonT(60) DEF TypeOK, GLWrite, MCWrite, SwapWrite
<1>. QED
  BY <1>1, <1>2, <1>3, <1>4, <1>5, <1>6, <1>7, <1>8, <1>9, <1>10

\* The snapshot and the end of a tick.
LEMMA SessionType ==
  ASSUME TypeOK, NEW t \in Threads,
         \/ SnapshotBegin(t) \/ SnapshotFails(t) \/ SnapshotEnd(t)
         \/ OpenTrace(t) \/ WriteSnapshot(t)
         \/ TickEndCtx(t) \/ TickEndClose(t)
  PROVE  TypeOK'
<1>1. CASE SnapshotBegin(t)
  BY <1>1, TargetFacts, GotoType DEF TypeOK, SnapshotBegin, Owners
<1>2. CASE SnapshotFails(t)
  <2>1. pc' \in [Threads -> Places]
    BY <1>2, TargetFacts, GotoType DEF SnapshotFails
  <2>2. snapped' \in BOOLEAN /\ ctxOwner' \in Owners
        /\ outcome' \in {"none", "failed"}
    BY <1>2 DEF SnapshotFails, Owners
  <2>. QED
    BY <1>2, <2>1, <2>2 DEF TypeOK, SnapshotFails
<1>3. CASE SnapshotEnd(t)
  BY <1>3, TargetFacts, GotoType DEF TypeOK, SnapshotEnd, Owners
<1>4. CASE OpenTrace(t)
  <2>1. file' \in Seq(Packets)
    BY <1>4 DEF OpenTrace
  <2>2. opened' \in BOOLEAN /\ outcome' \in {"none", "failed"}
    BY <1>4 DEF TypeOK, OpenTrace
  <2>3. pc' \in [Threads -> Places]
    BY <1>4, TargetFacts, GotoType DEF OpenTrace
  <2>. QED
    BY <1>4, <2>1, <2>2, <2>3 DEF TypeOK, OpenTrace
<1>5. CASE WriteSnapshot(t)
  <2>1. pc' \in [Threads -> Places]
    BY <1>5, TargetFacts, GotoType DEF WriteSnapshot
  <2>. QED
    BY <1>5, <2>1 DEF TypeOK, WriteSnapshot, Owners
<1>6. CASE TickEndCtx(t)
  BY <1>6, TargetFacts, EndCtxType DEF TickEndCtx
<1>7. CASE TickEndClose(t)
  <2>1. pc' \in [Threads -> Places]
    BY <1>7, TargetFacts, GotoType DEF TickEndClose
  <2>2. traceOwner' \in Owners /\ ctxOwner' \in Owners
        /\ once' \in {"new", "busy", "done"}
        /\ writeFailed' \in BOOLEAN /\ alive' \in BOOLEAN
        /\ UNCHANGED interrupted
    BY <1>7 DEF TickEndClose, TypeOK, Owners
  <2>. QED
    BY <1>7, <2>1, <2>2, TargetFacts, EndCloseType DEF TickEndClose
<1>. QED
  BY <1>1, <1>2, <1>3, <1>4, <1>5, <1>6, <1>7

\* The ways out of the process.
LEMMA ExitType ==
  ASSUME TypeOK, NEW t \in Threads,
         \/ SwapExit(t) \/ ExitAfterFrames(t) \/ ExitCall(t) \/ ExitLock(t)
         \/ ExitOnce(t) \/ ExitEnd(t) \/ Terminate(t)
  PROVE  TypeOK'
<1>1. CASE SwapExit(t)
  <2>1. pc' \in [Threads -> Places]
    BY <1>1, TargetFacts, GotoType DEF SwapExit
  <2>. QED
    BY <1>1, <2>1 DEF TypeOK, SwapExit
<1>2. CASE ExitCall(t)
  <2>1. pc' \in [Threads -> Places]
    BY <1>2, TargetFacts, GotoType DEF ExitCall
  <2>. QED
    BY <1>2, <2>1 DEF TypeOK, ExitCall
<1>3. CASE ExitLock(t)
  BY <1>3, TargetFacts, GotoType DEF TypeOK, ExitLock, Owners
<1>4. ASSUME ReleaseAtExit(t) PROVE traceOwner' \in Owners
  BY <1>4 DEF TypeOK, ReleaseAtExit, Owners
<1>5. CASE ExitOnce(t)
  <2>1. pc' \in [Threads -> Places]
    BY <1>5, TargetFacts, GotoType DEF ExitOnce
  <2>2. traceOwner' \in Owners
    BY <1>4, <1>5 DEF TypeOK, ExitOnce
  <2>. QED
    BY <1>5, <2>1, <2>2 DEF TypeOK, ExitOnce
<1>6. CASE Terminate(t)
  <2>1. alive' \in BOOLEAN
    BY <1>6 DEF Terminate
  <2>. QED
    BY <1>6, <2>1 DEF TypeOK, Terminate
<1>7. CASE EndCtx(t, "x_ctx", "x_close") \/ EndCtx(t, "exit_ctx", "exit_close")
  BY <1>7, TargetFacts, EndCtxType
<1>8. CASE ExitAfterFrames(t) /\ EndClose(t, "x_close")
  <2>1. CASE EndCtx(t, "x_ctx", "x_close")
    BY <1>7, <2>1
  <2>2. CASE /\ EndClose(t, "x_close") /\ Goto(t, "exit_lock")
             /\ UNCHANGED <<locks, ending, interrupted>>
    <3>1. pc' \in [Threads -> Places]
      BY <2>2, TargetFacts, GotoType
    <3>. QED
      BY <2>2, <3>1, TargetFacts, EndCloseType DEF TypeOK
  <2>. QED
    BY <1>8, <2>1, <2>2 DEF ExitAfterFrames
<1>9. CASE ExitEnd(t) /\ EndClose(t, "exit_close")
  <2>1. CASE EndCtx(t, "exit_ctx", "exit_close")
    BY <1>7, <2>1
  <2>2. CASE /\ EndClose(t, "exit_close") /\ once' = "done"
             /\ ReleaseAtExit(t) /\ Goto(t, "exited")
             /\ UNCHANGED <<ctxOwner, writeFailed, alive, interrupted>>
    <3>1. pc' \in [Threads -> Places] /\ traceOwner' \in Owners
      BY <1>4, <2>2, TargetFacts, GotoType
    <3>. QED
      BY <2>2, <3>1, TargetFacts, EndCloseType DEF TypeOK
  <2>. QED
    BY <1>9, <2>1, <2>2 DEF ExitEnd
<1>. QED
  BY <1>1, <1>2, <1>3, <1>5, <1>6, <1>7, <1>8, <1>9
     DEF ExitAfterFrames, ExitEnd

\* The signal handler's steps are type correct.
LEMMA SignalType ==
  ASSUME TypeOK, NEW t \in Threads,
         Signal(t) \/ SigCtx(t) \/ SigWrite(t) \/ SigClose(t)
  PROVE  TypeOK'
<1>1. CASE Signal(t)
  BY <1>1, TargetFacts, GotoType DEF TypeOK, Signal
<1>2. CASE SigCtx(t)
  <2>1. pc' \in [Threads -> Places]
    BY <1>2, TargetFacts, GotoType DEF SigCtx
  <2>2. ser' \in [Threads -> [inBegin : BOOLEAN, counter : Nat]]
    BY <1>2, EndType DEF SigCtx, TypeOK
  <2>3. ctxOwner' \in Owners
    BY <1>2 DEF SigCtx, TypeOK, Owners
  <2>. QED
    BY <1>2, <2>1, <2>2, <2>3 DEF TypeOK, SigCtx
<1>3. CASE SigWrite(t)
  BY <1>3, TargetFacts, WritePacketType DEF TypeOK, SigWrite, Owners
<1>4. CASE SigClose(t)
  <2>1. pc' \in [Threads -> Places]
    BY <1>4, PlaceFacts, GotoType DEF SigClose, TypeOK
  <2>2. alive' \in BOOLEAN
    BY <1>4 DEF SigClose, TypeOK
  <2>. QED
    BY <1>4, <2>1, <2>2, TargetFacts, EndCloseType DEF SigClose, TypeOK
<1>. QED
  BY <1>1, <1>2, <1>3, <1>4

\* Every step is type correct.
LEMMA TypeNext == TypeOK /\ [Next]_vars => TypeOK'
<1>. SUFFICES ASSUME TypeOK, [Next]_vars PROVE TypeOK'
  OBVIOUS
<1>1. CASE UNCHANGED vars
  BY <1>1 DEF TypeOK, vars
<1>2. CASE Controller
  BY <1>2, ControllerType
<1>3. ASSUME NEW t \in Threads, Enter(t) \/ Continue(t) \/ Signal(t)
      PROVE  TypeOK'
  BY <1>3, CallType, TickType, SessionType, ExitType, SignalType
     DEF Enter, Continue
<1>. QED
  BY <1>1, <1>2, <1>3 DEF Next

\* Type correctness for every number of threads, every set of faults and every
\* way out of the process; the frame counter in particular never wraps.
THEOREM TypeCorrect == Spec => []TypeOK
<1>. QED
  BY TypeInit, TypeNext, PTL DEF Spec

-----------------------------------------------------------------------------
(* The discipline of the two mutexes.                                        *)

\* A signal handler holds the context lock for a write only if it interrupted a
\* driver call, where the thread holds nothing.
FlushInDriver ==
  \A t \in Threads : pc[t] = "sig_write" => interrupted[t] = "gl_driver"

LockInv == TypeOK /\ LocksMatchPlaces /\ FlushInDriver

\* What a step of t may do to the mutexes: take a free one, or release its own.
TakesOrReleases(t) ==
  /\ traceOwner' = traceOwner
       \/ (traceOwner \in {NoThread, t} /\ traceOwner' \in {NoThread, t})
  /\ ctxOwner' = ctxOwner
       \/ (ctxOwner \in {NoThread, t} /\ ctxOwner' \in {NoThread, t})
  /\ writeFailed => writeFailed'

USE DEF Place, TickPlaces, SigPlaces, HookPlaces

\* What TypeOK says of the places and the owners, apart from the rest.
LEMMA PcType ==
  ASSUME LockInv
  PROVE  /\ pc \in [Threads -> Places] /\ interrupted \in [Threads -> CallPlaces]
         /\ traceOwner \in Threads \union {NoThread}
         /\ ctxOwner \in Threads \union {NoThread}
         /\ NoThread \notin Threads
  BY CaptureAssumption DEF LockInv, TypeOK, Owners

\* The other threads see their locks unchanged, so that a step is right if it
\* is right for the thread that takes it.
LEMMA LockStep ==
  ASSUME LockInv, NEW t \in Threads, NEW to \in Places,
         Goto(t, to), TakesOrReleases(t),
         interrupted' \in [Threads -> CallPlaces],
         \A s \in Threads \ {t} : interrupted'[s] = interrupted[s],
         LocksMatch(t)', to = "sig_write" => interrupted'[t] = "gl_driver"
  PROVE  LocksMatchPlaces' /\ FlushInDriver'
<1>. USE PcType
<1>1. pc'[t] = to /\ \A s \in Threads \ {t} : pc'[s] = pc[s]
  OBVIOUS
<1>2. ASSUME NEW s \in Threads \ {t} PROVE LocksMatch(s)'
  <2>1. LocksMatch(s)
    BY DEF LockInv, LocksMatchPlaces
  <2>2. (traceOwner' = s <=> traceOwner = s) /\ (ctxOwner' = s <=> ctxOwner = s)
    BY DEF TakesOrReleases
  <2>. QED
    BY <1>1, <2>1, <2>2 DEF LocksMatch, TakesOrReleases
<1>3. FlushInDriver'
  BY <1>1 DEF LockInv, FlushInDriver
<1>. QED
  BY <1>2, <1>3 DEF LocksMatchPlaces

\* What LockInv says of one thread.
LEMMA OwnLocks ==
  ASSUME LockInv, NEW t \in Threads
  PROVE  /\ LocksMatch(t)
         /\ pc[t] = "sig_write" => interrupted[t] = "gl_driver"
         /\ interrupted[t] \notin SigPlaces \union HookPlaces
  BY PcType DEF LockInv, LocksMatchPlaces, FlushInDriver, CallPlaces, GLPlaces,
                MCPlaces, SwapPlaces

\* A step that only moves its thread between places at which it holds nothing.
LEMMA FreeStep ==
  ASSUME LockInv, NEW t \in Threads, NEW to \in Places,
         pc[t] \notin TickPlaces \union HookPlaces \union SigPlaces,
         to \notin TickPlaces \union SigPlaces,
         Goto(t, to), UNCHANGED <<traceOwner, ctxOwner, writeFailed, interrupted>>
  PROVE  LocksMatchPlaces' /\ FlushInDriver'
<1>1. LocksMatch(t)'
  BY OwnLocks, PcType DEF LocksMatch
<1>. QED
  BY <1>1, LockStep, PcType DEF TakesOrReleases

\* The writes: the critical section is left at once, or by the process's end.
LEMMA WriteLocks ==
  ASSUME LockInv, NEW t \in Threads, NEW from, NEW kind, NEW to \in Places,
         from \notin TickPlaces \union HookPlaces \union SigPlaces,
         to \notin TickPlaces \union SigPlaces,
         WritePacket(t, from, kind, to), UNCHANGED ctxOwner
  PROVE  LocksMatchPlaces' /\ FlushInDriver'
<1>1. CASE Goto(t, to) /\ UNCHANGED <<traceOwner, writeFailed>>
  BY <1>1, FreeStep DEF WritePacket
<1>2. CASE traceOwner' = t /\ writeFailed' = TRUE /\ Goto(t, "exit_once")
  <2>1. LocksMatch(t)'
    BY <1>2, OwnLocks, PcType DEF LocksMatch, WritePacket
  <2>2. TakesOrReleases(t)
    BY <1>2 DEF TakesOrReleases, WritePacket, CanLockTrace
  <2>. QED
    BY <1>2, <2>1, <2>2, LockStep, PcType, TargetFacts DEF WritePacket
<1>. QED
  BY <1>1, <1>2 DEF WritePacket

\* No step of an entrypoint outside the tick leaves a lock where it should not.
LEMMA CallLocks ==
  ASSUME LockInv, NEW t \in Threads,
         \/ GLProlog(t) \/ GLDriver(t) \/ GLWrite(t)
         \/ MCProlog(t) \/ MCRelease(t) \/ MCDriver(t) \/ MCBook(t)
         \/ MCEnd(t) \/ MCWrite(t)
         \/ SwapProlog(t) \/ SwapDriver(t) \/ SwapWrite(t)
         \/ SwapExit(t) \/ ExitCall(t)
  PROVE  LocksMatchPlaces' /\ FlushInDriver'
<1>1. CASE GLProlog(t)
  BY <1>1, TargetFacts, FreeStep DEF GLProlog
<1>2. CASE GLDriver(t)
  BY <1>2, TargetFacts, FreeStep DEF GLDriver
<1>3. CASE MCProlog(t)
  BY <1>3, TargetFacts, FreeStep DEF MCProlog
<1>4. CASE MCRelease(t)
  BY <1>4, TargetFacts, FreeStep DEF MCRelease
<1>5. CASE MCDriver(t)
  BY <1>5, TargetFacts, FreeStep DEF MCDriver
<1>6. CASE MCBook(t)
  BY <1>6, TargetFacts, FreeStep DEF MCBook
<1>7. CASE MCEnd(t)
  BY <1>7, TargetFacts, FreeStep DEF MCEnd
<1>8. CASE SwapProlog(t)
  BY <1>8, TargetFacts, FreeStep DEF SwapProlog
<1>9. CASE SwapDriver(t)
  BY <1>9, TargetFacts, FreeStep DEF SwapDriver
<1>10. CASE SwapExit(t)
  BY <1>10, TargetFacts, FreeStep DEF SwapExit
<1>11. CASE ExitCall(t)
  BY <1>11, TargetFacts, FreeStep DEF ExitCall
<1>12. CASE GLWrite(t) \/ MCWrite(t) \/ SwapWrite(t)
  BY <1>12, TargetFacts, WriteLocks DEF GLWrite, MCWrite, SwapWrite
<1>. QED
  BY <1>1, <1>2, <1>3, <1>4, <1>5, <1>6, <1>7, <1>8, <1>9, <1>10, <1>11, <1>12

\* The tick: taken at its start, kept in the snapshot, released at every end.
LEMMA TickLocks ==
  ASSUME LockInv, NEW t \in Threads,
         \/ Tick(t)
         \/ SnapshotBegin(t) \/ SnapshotFails(t) \/ SnapshotEnd(t)
         \/ OpenTrace(t) \/ WriteSnapshot(t)
         \/ TickEndCtx(t) \/ TickEndClose(t)
  PROVE  LocksMatchPlaces' /\ FlushInDriver'
<1>1. CASE Tick(t)
  <2>1. PICK to \in {"end_ctx", "snap", SwapReturn} : Goto(t, to)
    BY <1>1 DEF Tick, SwapReturn, CanLockTrace
  <2>2. LocksMatch(t)'
    BY <1>1, <2>1, OwnLocks, PcType DEF LocksMatch, Tick, SwapReturn, CanLockTrace
  <2>3. TakesOrReleases(t) /\ UNCHANGED interrupted
    BY <1>1, OwnLocks, PcType DEF TakesOrReleases, LocksMatch, Tick, SwapReturn, CanLockTrace
  <2>. QED
    BY <2>1, <2>2, <2>3, LockStep, PcType, TargetFacts, ZenonT(60)
<1>2. CASE SnapshotBegin(t)
  <2>1. PICK to \in {"snapping"} : Goto(t, to)
    BY <1>2 DEF SnapshotBegin, CanLockCtx
  <2>2. LocksMatch(t)'
    BY <1>2, <2>1, OwnLocks, PcType DEF LocksMatch, SnapshotBegin, CanLockCtx
  <2>3. TakesOrReleases(t) /\ UNCHANGED interrupted
    BY <1>2, OwnLocks, PcType DEF TakesOrReleases, LocksMatch, SnapshotBegin, CanLockCtx
  <2>. QED
    BY <2>1, <2>2, <2>3, LockStep, PcType, TargetFacts
<1>3. CASE SnapshotFails(t)
  <2>1. PICK to \in {"fail_ctx"} : Goto(t, to)
    BY <1>3 DEF SnapshotFails, CanLockCtx
  <2>2. LocksMatch(t)'
    BY <1>3, <2>1, OwnLocks, PcType DEF LocksMatch, SnapshotFails, CanLockCtx
  <2>3. TakesOrReleases(t) /\ UNCHANGED interrupted
    BY <1>3, OwnLocks, PcType DEF TakesOrReleases, LocksMatch, SnapshotFails, CanLockCtx
  <2>. QED
    BY <2>1, <2>2, <2>3, LockStep, PcType, TargetFacts
<1>4. CASE SnapshotEnd(t)
  <2>1. PICK to \in {"snap_open"} : Goto(t, to)
    BY <1>4 DEF SnapshotEnd
  <2>2. LocksMatch(t)'
    BY <1>4, <2>1, OwnLocks, PcType DEF LocksMatch, SnapshotEnd
  <2>3. TakesOrReleases(t) /\ UNCHANGED interrupted
    BY <1>4, OwnLocks, PcType DEF TakesOrReleases, LocksMatch, SnapshotEnd
  <2>. QED
    BY <2>1, <2>2, <2>3, LockStep, PcType, TargetFacts
<1>5. CASE OpenTrace(t)
  <2>1. PICK to \in {"snap_write", "fail_ctx"} : Goto(t, to)
    BY <1>5 DEF OpenTrace
  <2>2. LocksMatch(t)'
    BY <1>5, <2>1, OwnLocks, PcType DEF LocksMatch, OpenTrace
  <2>3. TakesOrReleases(t) /\ UNCHANGED interrupted
    BY <1>5, OwnLocks, PcType DEF TakesOrReleases, LocksMatch, OpenTrace
  <2>. QED
    BY <2>1, <2>2, <2>3, LockStep, PcType, TargetFacts
<1>6. CASE WriteSnapshot(t)
  <2>1. PICK to \in {SwapReturn, "fail_ctx"} : Goto(t, to)
    BY <1>6 DEF WriteSnapshot, SwapReturn
  <2>2. LocksMatch(t)'
    BY <1>6, <2>1, OwnLocks, PcType DEF LocksMatch, WriteSnapshot, SwapReturn
  <2>3. TakesOrReleases(t) /\ UNCHANGED interrupted
    BY <1>6, OwnLocks, PcType DEF TakesOrReleases, LocksMatch, WriteSnapshot, SwapReturn
  <2>. QED
    BY <2>1, <2>2, <2>3, LockStep, PcType, TargetFacts, ZenonT(60)
<1>7. CASE TickEndCtx(t)
  <2>1. PICK to \in {"end_close", "fail_close"} : Goto(t, to)
    BY <1>7 DEF TickEndCtx, EndCtx
  <2>2. LocksMatch(t)'
    BY <1>7, <2>1, OwnLocks, PcType DEF LocksMatch, TickEndCtx, EndCtx
  <2>3. TakesOrReleases(t) /\ UNCHANGED interrupted
    BY <1>7, OwnLocks, PcType DEF TakesOrReleases, LocksMatch, TickEndCtx, EndCtx
  <2>. QED
    BY <2>1, <2>2, <2>3, LockStep, PcType, TargetFacts
<1>8. CASE TickEndClose(t)
  <2>1. PICK to \in {SwapReturn} : Goto(t, to)
    BY <1>8 DEF TickEndClose, EndClose, SwapReturn
  <2>2. LocksMatch(t)'
    BY <1>8, <2>1, OwnLocks, PcType DEF LocksMatch, TickEndClose, EndClose, SwapReturn
  <2>3. TakesOrReleases(t) /\ UNCHANGED interrupted
    BY <1>8, OwnLocks, PcType DEF TakesOrReleases, LocksMatch, TickEndClose, EndClose, SwapReturn
  <2>. QED
    BY <2>1, <2>2, <2>3, LockStep, PcType, TargetFacts, ZenonT(60)
<1>. QED
  BY <1>1, <1>2, <1>3, <1>4, <1>5, <1>6, <1>7, <1>8

\* The ways out and the signal handler.
LEMMA ExitLocks ==
  ASSUME LockInv, NEW t \in Threads,
         \/ ExitAfterFrames(t) \/ ExitLock(t) \/ ExitOnce(t) \/ ExitEnd(t)
         \/ Terminate(t)
         \/ Signal(t) \/ SigCtx(t) \/ SigWrite(t) \/ SigClose(t)
  PROVE  LocksMatchPlaces' /\ FlushInDriver'
<1>1. CASE ExitAfterFrames(t)
  <2>1. PICK to \in {"x_close", "exit_lock"} : Goto(t, to)
    BY <1>1 DEF ExitAfterFrames, EndCtx, EndClose
  <2>2. LocksMatch(t)'
    BY <1>1, <2>1, OwnLocks, PcType DEF LocksMatch, ExitAfterFrames, EndCtx, EndClose
  <2>3. TakesOrReleases(t) /\ UNCHANGED interrupted
    BY <1>1, OwnLocks, PcType DEF TakesOrReleases, LocksMatch, ExitAfterFrames, EndCtx, EndClose
  <2>. QED
    BY <2>1, <2>2, <2>3, LockStep, PcType, TargetFacts
<1>2. CASE ExitLock(t)
  <2>1. PICK to \in {"exit_once"} : Goto(t, to)
    BY <1>2 DEF ExitLock, CanLockTrace
  <2>2. LocksMatch(t)'
    BY <1>2, <2>1, OwnLocks, PcType DEF LocksMatch, ExitLock, CanLockTrace
  <2>3. TakesOrReleases(t) /\ UNCHANGED interrupted
    BY <1>2, OwnLocks, PcType DEF TakesOrReleases, LocksMatch, ExitLock, CanLockTrace
  <2>. QED
    BY <2>1, <2>2, <2>3, LockStep, PcType, TargetFacts
<1>3. CASE ExitOnce(t)
  <2>1. PICK to \in {"exit_ctx", "exited"} : Goto(t, to)
    BY <1>3 DEF ExitOnce, ReleaseAtExit
  <2>2. LocksMatch(t)'
    BY <1>3, <2>1, OwnLocks, PcType DEF LocksMatch, ExitOnce, ReleaseAtExit
  <2>3. TakesOrReleases(t) /\ UNCHANGED interrupted
    BY <1>3, OwnLocks, PcType DEF TakesOrReleases, LocksMatch, ExitOnce, ReleaseAtExit
  <2>. QED
    BY <2>1, <2>2, <2>3, LockStep, PcType, TargetFacts
<1>4. CASE ExitEnd(t)
  <2>1. PICK to \in {"exit_close", "exited"} : Goto(t, to)
    BY <1>4 DEF ExitEnd, EndCtx, EndClose, ReleaseAtExit
  <2>2. LocksMatch(t)'
    BY <1>4, <2>1, OwnLocks, PcType DEF LocksMatch, ExitEnd, EndCtx, EndClose, ReleaseAtExit
  <2>3. TakesOrReleases(t) /\ UNCHANGED interrupted
    BY <1>4, OwnLocks, PcType
    DEF TakesOrReleases, LocksMatch, ExitEnd, EndCtx, EndClose, ReleaseAtExit
  <2>. QED
    BY <2>1, <2>2, <2>3, LockStep, PcType, TargetFacts
<1>5. CASE SigCtx(t)
  <2>1. PICK to \in {"sig_write", "sig_close"} : Goto(t, to)
    BY <1>5 DEF SigCtx, CanLockCtx
  <2>2. LocksMatch(t)'
    BY <1>5, <2>1, OwnLocks, PcType DEF LocksMatch, SigCtx, CanLockCtx
  <2>3. TakesOrReleases(t) /\ UNCHANGED interrupted
    BY <1>5, OwnLocks, PcType DEF TakesOrReleases, LocksMatch, SigCtx, CanLockCtx
  <2>4. to = "sig_write" => interrupted'[t] = "gl_driver"
    BY <1>5, <2>1, PcType DEF SigCtx
  <2>. QED
    BY <2>1, <2>2, <2>3, <2>4, LockStep, PcType, TargetFacts
<1>6. CASE Terminate(t)
  BY <1>6 DEF LockInv, LocksMatchPlaces, LocksMatch, FlushInDriver, Terminate
<1>7. CASE Signal(t)
  <2>1. LocksMatch(t)'
    <3>1. pc[t] \notin SigPlaces \union HookPlaces
      BY <1>7 DEF Signal, CallPlaces, GLPlaces, MCPlaces, SwapPlaces
    <3>2. pc'[t] = "sig_ctx" /\ interrupted'[t] = pc[t]
      BY <1>7, PcType DEF Signal
    <3>. QED
      BY <1>7, <3>1, <3>2, OwnLocks DEF LocksMatch, Signal
  <2>2. interrupted' \in [Threads -> CallPlaces]
    BY <1>7, PcType DEF Signal
  <2>. QED
    BY <1>7, <2>1, <2>2, LockStep, PcType, TargetFacts DEF TakesOrReleases, Signal
<1>8. CASE SigWrite(t)
  <2>1. PICK to \in {"sig_close", "exit_once"} : Goto(t, to)
    BY <1>8 DEF SigWrite, WritePacket
  <2>2. LocksMatch(t)'
    BY <1>8, <2>1, OwnLocks, PcType DEF LocksMatch, SigWrite, WritePacket
  <2>3. TakesOrReleases(t) /\ UNCHANGED interrupted
    BY <1>8, OwnLocks, PcType
       DEF TakesOrReleases, LocksMatch, SigWrite, WritePacket, CanLockTrace
  <2>. QED
    BY <2>1, <2>2, <2>3, LockStep, PcType, TargetFacts
<1>9. CASE SigClose(t)
  <2>1. CASE Goto(t, interrupted[t])
    <3>1. interrupted[t] \in Places /\ interrupted[t] # "sig_write"
      BY OwnLocks, PcType, PlaceFacts
    <3>2. LocksMatch(t)'
      BY <1>9, <2>1, OwnLocks, PcType DEF LocksMatch, SigClose, EndClose
    <3>. QED
      BY <1>9, <2>1, <3>1, <3>2, LockStep, PcType
         DEF TakesOrReleases, SigClose
  <2>2. CASE UNCHANGED pc
    BY <1>9, <2>2 DEF LockInv, LocksMatchPlaces, LocksMatch, FlushInDriver,
                      SigClose
  <2>. QED
    BY <1>9, <2>1, <2>2 DEF SigClose
<1>. QED
  BY <1>1, <1>2, <1>3, <1>4, <1>5, <1>6, <1>7, <1>8, <1>9

\* The lock invariant is inductive.
LEMMA LockNext == LockInv /\ [Next]_vars => LockInv'
<1>. SUFFICES ASSUME LockInv, [Next]_vars
              PROVE  LocksMatchPlaces' /\ FlushInDriver'
  BY TypeNext DEF LockInv
<1>1. CASE UNCHANGED <<pc, interrupted, traceOwner, ctxOwner, writeFailed>>
  BY <1>1 DEF LockInv, LocksMatchPlaces, LocksMatch, FlushInDriver
<1>2. CASE UNCHANGED vars
  BY <1>1, <1>2 DEF vars
<1>3. CASE Controller
  BY <1>1, <1>3 DEF Controller, CaptureOnNextSwap, StopCapturing,
                    StopCapturingWithCallback, AcceptStop
<1>4. ASSUME NEW t \in Threads, Enter(t) \/ Continue(t) \/ Signal(t)
      PROVE  LocksMatchPlaces' /\ FlushInDriver'
  BY <1>4, CallLocks, TickLocks, ExitLocks DEF Enter, Continue
<1>. QED
  BY <1>2, <1>3, <1>4 DEF Next

\* The lock invariant holds initially.
LEMMA LockInit == Init => LockInv
<1>. SUFFICES ASSUME Init PROVE LocksMatchPlaces /\ FlushInDriver
  BY TypeInit DEF LockInv
<1>. QED
  BY CaptureAssumption DEF Init, LocksMatchPlaces, LocksMatch, FlushInDriver

\* Whatever fails and however the process is interrupted or ends, a mutex is
\* owned exactly in the code that took it.
THEOREM LockDiscipline == Spec => []LocksMatchPlaces
<1>1. LockInv => LocksMatchPlaces
  BY DEF LockInv
<1>. QED
  BY LockInit, LockNext, <1>1, PTL DEF Spec

-----------------------------------------------------------------------------
(* The frame count a session leaves behind.                                  *)

\* Outside of a tick no frame is left to capture unless a trace is open.  The
\* mutex may be held elsewhere: by vogl_atexit, or by a write that failed.
NoFramesLeft ==
  ~opened /\ (\A t \in Threads : Place(t) \notin TickPlaces) => remaining = 0

FrameInv == LockInv /\ NoFramesLeft

\* A step that neither touches the count and the writer nor leaves a tick.
LEMMA CountKept ==
  ASSUME LockInv, NoFramesLeft, NEW t \in Threads, NEW to,
         UNCHANGED <<opened, remaining>>, Goto(t, to), UNCHANGED interrupted,
         Place(t) \in TickPlaces => to \in TickPlaces
  PROVE  NoFramesLeft'
<1>. SUFFICES ASSUME ~opened, \A s \in Threads : Place(s)' \notin TickPlaces,
                     NEW s \in Threads, Place(s) \in TickPlaces
              PROVE  FALSE
  BY DEF NoFramesLeft
<1>1. CASE s = t
  BY <1>1, PcType
<1>2. CASE s # t
  BY <1>2, PcType
<1>. QED
  BY <1>1, <1>2

\* Outside the tick nothing adds frames or closes a trace without clearing them.
LEMMA CallFrames ==
  ASSUME LockInv, NoFramesLeft, NEW t \in Threads,
         \/ GLProlog(t) \/ GLDriver(t) \/ GLWrite(t)
         \/ MCProlog(t) \/ MCRelease(t) \/ MCDriver(t) \/ MCBook(t)
         \/ MCEnd(t) \/ MCWrite(t)
         \/ SwapProlog(t) \/ SwapDriver(t) \/ SwapWrite(t)
         \/ SwapExit(t) \/ ExitCall(t) \/ ExitLock(t) \/ ExitOnce(t)
         \/ SnapshotBegin(t) \/ SnapshotFails(t) \/ SnapshotEnd(t)
         \/ TickEndCtx(t)
         \/ EndCtx(t, "x_ctx", "x_close") \/ EndCtx(t, "exit_ctx", "exit_close")
  PROVE  NoFramesLeft'
<1>1. CASE GLProlog(t)
  BY <1>1, CountKept DEF GLProlog
<1>2. CASE GLDriver(t)
  BY <1>2, CountKept DEF GLDriver
<1>3. CASE MCProlog(t)
  BY <1>3, CountKept DEF MCProlog
<1>4. CASE MCRelease(t)
  BY <1>4, CountKept DEF MCRelease
<1>5. CASE MCDriver(t)
  BY <1>5, CountKept DEF MCDriver
<1>6. CASE MCBook(t)
  BY <1>6, CountKept DEF MCBook
<1>7. CASE MCEnd(t)
  BY <1>7, CountKept DEF MCEnd
<1>8. CASE SwapProlog(t)
  BY <1>8, CountKept DEF SwapProlog
<1>9. CASE SwapDriver(t)
  BY <1>9, CountKept DEF SwapDriver
<1>10. CASE SwapExit(t)
  BY <1>10, CountKept DEF SwapExit
<1>11. CASE ExitCall(t)
  BY <1>11, CountKept DEF ExitCall
<1>12. CASE ExitLock(t)
  BY <1>12, CountKept DEF ExitLock
<1>13. CASE ExitOnce(t)
  BY <1>13, CountKept DEF ExitOnce
<1>14. CASE SnapshotBegin(t)
  BY <1>14, CountKept DEF SnapshotBegin
<1>15. CASE SnapshotFails(t)
  BY <1>15, CountKept DEF SnapshotFails
<1>16. CASE SnapshotEnd(t)
  BY <1>16, CountKept DEF SnapshotEnd
<1>17. CASE TickEndCtx(t)
  BY <1>17, CountKept DEF TickEndCtx, EndCtx
<1>18. CASE EndCtx(t, "x_ctx", "x_close") \/ EndCtx(t, "exit_ctx", "exit_close")
  BY <1>18, CountKept DEF EndCtx
<1>19. CASE GLWrite(t) \/ MCWrite(t) \/ SwapWrite(t)
  BY <1>19, CountKept DEF GLWrite, MCWrite, SwapWrite, WritePacket
<1>. QED
  BY <1>1, <1>2, <1>3, <1>4, <1>5, <1>6, <1>7, <1>8, <1>9, <1>10, <1>11,
     <1>12, <1>13, <1>14, <1>15, <1>16, <1>17, <1>18, <1>19

\* A tick that ends without a snapshot to take has no frame left, or a trace.
LEMMA TickFrames ==
  ASSUME LockInv, NoFramesLeft, NEW t \in Threads, Tick(t)
  PROVE  NoFramesLeft'
<1>1. CASE Goto(t, SwapReturn) /\ opened
  BY <1>1 DEF NoFramesLeft, Tick
<1>2. CASE Goto(t, SwapReturn) /\ ~opened
  BY <1>2, PcType DEF NoFramesLeft, Tick, Ending, FrameDone, SwapReturn, LastFrame
<1>3. CASE Goto(t, "end_ctx") \/ Goto(t, "snap")
  <2>1. Place(t)' \in TickPlaces
    BY <1>3, PcType
  <2>. QED
    BY <2>1 DEF NoFramesLeft
<1>. QED
  BY <1>1, <1>2, <1>3 DEF Tick

\* The frame invariant is inductive.
LEMMA FrameNext == FrameInv /\ [Next]_vars => FrameInv'
<1>. SUFFICES ASSUME LockInv, NoFramesLeft, [Next]_vars
              PROVE  NoFramesLeft'
  BY LockNext DEF FrameInv
<1>1. CASE UNCHANGED <<pc, interrupted, opened, remaining>>
  BY <1>1 DEF NoFramesLeft
<1>2. CASE Controller
  BY <1>1, <1>2 DEF Controller, CaptureOnNextSwap, StopCapturing,
                    StopCapturingWithCallback, AcceptStop
<1>3. ASSUME NEW t \in Threads, NEW from, EndClose(t, from) PROVE NoFramesLeft'
  BY <1>3 DEF EndClose, ResetSession, NoFramesLeft
<1>4. ASSUME NEW t \in Threads, Enter(t) \/ Continue(t) \/ Signal(t)
      PROVE  NoFramesLeft'
  <2>1. CASE OpenTrace(t)
    <3>1. Place(t)' \in TickPlaces
      BY <2>1, PcType DEF OpenTrace
    <3>. QED
      BY <3>1 DEF NoFramesLeft
  <2>2. CASE WriteSnapshot(t)
    <3>1. CASE opened
      BY <2>2, <3>1 DEF WriteSnapshot, NoFramesLeft
    <3>2. CASE Goto(t, "fail_ctx")
      BY <2>2, <3>2, CountKept DEF WriteSnapshot
    <3>. QED
      BY <2>2, <3>1, <3>2 DEF WriteSnapshot
  <2>3. CASE Signal(t)
    <3>1. ASSUME NEW s \in Threads PROVE Place(s)' = Place(s)
      BY <2>3, PcType DEF Signal, CallPlaces, GLPlaces, MCPlaces, SwapPlaces
    <3>. QED
      BY <2>3, <3>1 DEF Signal, NoFramesLeft
  <2>4. CASE SigCtx(t)
    <3>1. ASSUME NEW s \in Threads PROVE Place(s)' = Place(s)
      BY <2>4, PcType DEF SigCtx
    <3>. QED
      BY <2>4, <3>1 DEF SigCtx, NoFramesLeft
  <2>5. CASE SigWrite(t)
    <3>1. ASSUME NEW s \in Threads, Place(s) \in TickPlaces
          PROVE  Place(s)' \in TickPlaces
      BY <2>5, <3>1, OwnLocks, PcType DEF SigWrite, WritePacket
    <3>. QED
      BY <2>5, <3>1 DEF SigWrite, WritePacket, NoFramesLeft
  <2>6. CASE ExitAfterFrames(t) \/ ExitEnd(t)
    BY <2>6, <1>3, CallFrames DEF ExitAfterFrames, ExitEnd
  <2>. QED
    BY <1>1, <1>3, <1>4, <2>1, <2>2, <2>3, <2>4, <2>5, <2>6, CallFrames, TickFrames
       DEF Enter, Continue, TickEndClose, SigClose, Terminate
<1>. QED
  BY <1>1, <1>2, <1>4 DEF Next, vars

\* The frame invariant holds initially.
LEMMA FrameInit == Init => FrameInv
  BY LockInit DEF FrameInv, Init, NoFramesLeft

\* No failure, stop, signal or exit leaves a frame count behind that would make
\* vogl_capture_on_next_swap refuse every later capture.
THEOREM NoFrameLeftBehind == Spec => []IdleHasNoFrames
<1>1. FrameInv => IdleHasNoFrames
  BY PcType DEF FrameInv, LockInv, LocksMatchPlaces, LocksMatch, NoFramesLeft,
                IdleHasNoFrames
<1>. QED
  BY FrameInit, FrameNext, <1>1, PTL DEF Spec

-----------------------------------------------------------------------------
(* The packets of a trace and the snapshot it starts from.                   *)

\* The thread is inside a GL call whose packet may still reach the file: begun
\* and not yet ended, on its way to the file, or in a signal handler's hands.
Carries(t) == \/ Place(t) = "gl_driver" /\ ser[t].inBegin
              \/ Place(t) = "gl_write"
              \/ pc[t] = "sig_write"

\* A packet is begun only for the length of a driver call, a thread in a GL
\* call has a context that the driver and the context manager both know as
\* current, and a GL packet under way was begun after the snapshot.
PacketOK(t) ==
  /\ ser[t].inBegin => Place(t) \in {"gl_driver", "sw_driver"}
  /\ Place(t) \in GLPlaces => tls[t]
  /\ Place(t) = "mc_book" => driver[t]
  /\ tls[t] => driver[t] /\ made[t]
  /\ Carries(t) => ser[t].counter > snapCounter

\* A closed trace has no packets and no stop, the trace is closed until the
\* snapshot is taken, and the snapshot is not ahead of the call counter.
FileOK ==
  /\ ~opened => file = <<>> /\ stopMark = 0
  /\ \A t \in Threads :
       Place(t) \in {"snap", "snapping", "snap_open"} => ~opened
  /\ snapCounter <= callCounter

PacketsOK == \A t \in Threads : PacketOK(t)

StaleInv == LockInv /\ PacketsOK /\ FileOK /\ NoStalePacket

\* The data of the other threads does not change.
OwnStep(t) ==
  \A s \in Threads \ {t} :
    /\ pc'[s] = pc[s] /\ interrupted'[s] = interrupted[s] /\ ser'[s] = ser[s]
    /\ driver'[s] = driver[s] /\ tls'[s] = tls[s] /\ made'[s] = made[s]

\* A thread's step changes nobody else's data.
LEMMA StepIsOwn ==
  ASSUME TypeOK, NEW t \in Threads, Enter(t) \/ Continue(t) \/ Signal(t)
  PROVE  OwnStep(t)
<1>. USE DEF OwnStep
<1>1. ASSUME NEW from, NEW kind, NEW to, WritePacket(t, from, kind, to)
      PROVE  OwnStep(t)
  BY <1>1 DEF TypeOK, WritePacket, Discard
<1>2. ASSUME NEW from, NEW to, EndCtx(t, from, to) PROVE OwnStep(t)
  BY <1>2 DEF TypeOK, EndCtx
<1>3. ASSUME NEW from, EndClose(t, from), NEW to, Goto(t, to) \/ UNCHANGED pc,
             UNCHANGED interrupted
      PROVE  OwnStep(t)
  BY <1>3 DEF TypeOK, EndClose
<1>4. CASE Enter(t)
  BY <1>4 DEF TypeOK, Enter, GLProlog, MCProlog, SwapProlog, ExitCall, Begin
<1>5. CASE GLDriver(t) \/ SwapDriver(t)
  BY <1>5 DEF TypeOK, GLDriver, SwapDriver, End, Discard
<1>6. CASE MCRelease(t) \/ MCDriver(t) \/ MCBook(t) \/ MCEnd(t)
  BY <1>6 DEF TypeOK, MCRelease, MCDriver, MCBook, MCEnd
<1>7. CASE GLWrite(t) \/ MCWrite(t) \/ SwapWrite(t) \/ SigWrite(t)
  BY <1>1, <1>7 DEF GLWrite, MCWrite, SwapWrite, SigWrite
<1>8. CASE Tick(t)
  BY <1>8 DEF TypeOK, Tick
<1>9. CASE \/ SnapshotBegin(t) \/ SnapshotFails(t) \/ SnapshotEnd(t)
           \/ OpenTrace(t) \/ WriteSnapshot(t)
  BY <1>9 DEF TypeOK, SnapshotBegin, SnapshotFails, SnapshotEnd, OpenTrace,
              WriteSnapshot
<1>10. CASE TickEndCtx(t) \/ TickEndClose(t)
  BY <1>2, <1>3, <1>10 DEF TickEndCtx, TickEndClose
<1>11. CASE ExitAfterFrames(t) \/ ExitEnd(t)
  BY <1>2, <1>3, <1>11 DEF ExitAfterFrames, ExitEnd
<1>12. CASE SwapExit(t) \/ ExitLock(t) \/ ExitOnce(t) \/ Terminate(t)
  BY <1>12 DEF TypeOK, SwapExit, ExitLock, ExitOnce, Terminate
<1>13. CASE SigCtx(t)
  BY <1>13 DEF TypeOK, SigCtx, End
<1>14. CASE SigClose(t)
  BY <1>3, <1>14 DEF SigClose
<1>15. CASE Signal(t)
  BY <1>15 DEF TypeOK, Signal
<1>. QED
  BY <1>4, <1>5, <1>6, <1>7, <1>8, <1>9, <1>10, <1>11, <1>12, <1>13, <1>14,
     <1>15 DEF Continue

\* What the invariants say of a thread, its packet and the counters.
LEMMA StaleFacts ==
  ASSUME StaleInv, NEW t \in Threads
  PROVE  /\ PacketOK(t)
         /\ pc \in [Threads -> Places] /\ interrupted \in [Threads -> CallPlaces]
         /\ ser \in [Threads -> [inBegin : BOOLEAN, counter : Nat]]
         /\ driver \in [Threads -> BOOLEAN] /\ tls \in [Threads -> BOOLEAN]
         /\ made \in [Threads -> BOOLEAN]
         /\ ser[t].inBegin \in BOOLEAN /\ ser[t].counter \in Nat
         /\ snapCounter \in Nat /\ callCounter \in Nat
         /\ snapCounter <= callCounter
         /\ pc[t] = "sig_write" => Place(t) = "gl_driver"
<1>1. TypeOK
  BY DEF StaleInv, LockInv
<1>2. ser[t] \in [inBegin : BOOLEAN, counter : Nat]
  BY <1>1 DEF TypeOK
<1>. QED
  BY <1>1, <1>2 DEF StaleInv, LockInv, PacketsOK, FileOK, TypeOK, FlushInDriver

\* The other threads' packets stay right, and become so if the trace is closed.
LEMMA PacketStep ==
  ASSUME StaleInv, NEW t \in Threads, OwnStep(t), PacketOK(t)',
         snapCounter' \in {snapCounter, 0}
  PROVE  PacketsOK'
<1>. SUFFICES ASSUME NEW s \in Threads \ {t} PROVE PacketOK(s)'
  BY DEF PacketsOK
<1>1. /\ pc'[s] = pc[s] /\ interrupted'[s] = interrupted[s] /\ ser'[s] = ser[s]
      /\ driver'[s] = driver[s] /\ tls'[s] = tls[s] /\ made'[s] = made[s]
  BY DEF OwnStep
<1>2. Place(s)' = Place(s) /\ (Carries(s)' <=> Carries(s))
  BY <1>1 DEF Carries
<1>3. ser[s].counter > snapCounter => ser'[s].counter > snapCounter'
  BY <1>1, StaleFacts
<1>. QED
  BY <1>1, <1>2, <1>3, StaleFacts DEF PacketOK

\* A step that neither begins, ends nor carries a packet, between places that
\* have none.
LEMMA PlainStep ==
  ASSUME StaleInv, NEW t \in Threads, OwnStep(t),
         Place(t) \notin {"gl_driver", "sw_driver"},
         Place(t)' \notin GLPlaces \union {"mc_book"}, pc'[t] # "sig_write",
         UNCHANGED <<gl, ser>>, snapCounter' \in {snapCounter, 0}
  PROVE  PacketsOK'
<1>1. PacketOK(t)'
  BY StaleFacts DEF PacketOK, Carries, GLPlaces
<1>. QED
  BY <1>1, PacketStep

\* After the write, or the failure that ends the process in it, no packet is
\* left with the thread.
LEMMA WriteStep ==
  ASSUME StaleInv, NEW t \in Threads, OwnStep(t), NEW from, NEW kind, NEW to,
         WritePacket(t, from, kind, to), from # "sig_write", from \notin SigPlaces,
         to \notin GLPlaces \union SigPlaces \union {"mc_book"}
  PROVE  PacketsOK'
<1>1. /\ Place(t)' \in {to, "exit_once"} /\ pc'[t] # "sig_write"
      /\ ser'[t] = NoPacket /\ UNCHANGED <<gl, snapCounter>>
  BY StaleFacts DEF WritePacket, Discard
<1>2. PacketOK(t)'
  BY <1>1, StaleFacts DEF PacketOK, Carries, GLPlaces, NoPacket
<1>. QED
  BY <1>1, <1>2, PacketStep

\* The packets stay right in the entrypoints.
LEMMA CallPackets ==
  ASSUME StaleInv, NEW t \in Threads, OwnStep(t),
         \/ GLProlog(t) \/ GLDriver(t) \/ GLWrite(t)
         \/ MCProlog(t) \/ MCRelease(t) \/ MCDriver(t) \/ MCBook(t)
         \/ MCEnd(t) \/ MCWrite(t)
         \/ SwapProlog(t) \/ SwapDriver(t) \/ SwapWrite(t)
  PROVE  PacketsOK'
<1>1. CASE GLProlog(t)
  <2>1. /\ Place(t) = "idle" /\ Place(t)' = "gl_driver" /\ pc'[t] = "gl_driver"
        /\ tls[t] /\ UNCHANGED <<gl, snapCounter>>
    BY <1>1, StaleFacts DEF GLProlog
  <2>2. ser'[t].inBegin => ser'[t].counter = callCounter + 1
    BY <1>1, <2>1, StaleFacts DEF GLProlog, Begin, PacketOK
  <2>3. PacketOK(t)'
    BY <2>1, <2>2, StaleFacts DEF PacketOK, Carries, GLPlaces
  <2>. QED
    BY <2>1, <2>3, PacketStep
<1>2. CASE GLDriver(t)
  <2>1. /\ Place(t) = "gl_driver" /\ Place(t)' \in {"gl_write", "idle"}
        /\ pc'[t] \in {"gl_write", "idle"} /\ UNCHANGED <<gl, snapCounter>>
    BY <1>2, StaleFacts DEF GLDriver
  <2>2. ~ser'[t].inBegin
    BY <1>2, StaleFacts DEF GLDriver, End, Discard, NoPacket
  <2>3. Place(t)' = "gl_write" => ser[t].inBegin /\ ser'[t].counter = ser[t].counter
    BY <1>2, StaleFacts DEF GLDriver, End
  <2>4. PacketOK(t)'
    BY <2>1, <2>2, <2>3, StaleFacts DEF PacketOK, Carries, GLPlaces
  <2>. QED
    BY <2>1, <2>4, PacketStep
<1>3. CASE GLWrite(t) \/ MCWrite(t) \/ SwapWrite(t)
  BY <1>3, WriteStep DEF GLWrite, MCWrite, SwapWrite, GLPlaces
<1>4. CASE MCProlog(t)
  <2>1. /\ Place(t) = "idle" /\ Place(t)' \in {"mc_release", "mc_driver"}
        /\ pc'[t] \in {"mc_release", "mc_driver"}
    BY <1>4, StaleFacts DEF MCProlog
  <2>. QED
    BY <1>4, <2>1, PlainStep DEF MCProlog, GLPlaces
<1>5. CASE MCRelease(t)
  <2>1. /\ Place(t) = "mc_release" /\ Place(t)' = "mc_end" /\ pc'[t] = "mc_end"
        /\ ~tls'[t] /\ ser' = ser /\ snapCounter' = snapCounter
    BY <1>5, StaleFacts DEF MCRelease
  <2>2. PacketOK(t)'
    BY <2>1, StaleFacts DEF PacketOK, Carries, GLPlaces
  <2>. QED
    BY <2>1, <2>2, PacketStep
<1>6. CASE MCDriver(t)
  <2>1. /\ Place(t) = "mc_driver" /\ Place(t)' \in {"mc_book", "mc_end"}
        /\ pc'[t] \in {"mc_book", "mc_end"}
        /\ tls' = tls /\ made' = made /\ ser' = ser /\ snapCounter' = snapCounter
    BY <1>6, StaleFacts DEF MCDriver
  <2>2. driver'[t] = TRUE \/ (driver'[t] = driver[t] /\ Place(t)' = "mc_end")
    BY <1>6, StaleFacts DEF MCDriver
  <2>3. PacketOK(t)'
    BY <2>1, <2>2, StaleFacts DEF PacketOK, Carries, GLPlaces
  <2>. QED
    BY <2>1, <2>3, PacketStep
<1>7. CASE MCBook(t)
  <2>1. /\ Place(t) = "mc_book" /\ Place(t)' = "mc_end" /\ pc'[t] = "mc_end"
        /\ made'[t] = TRUE /\ driver' = driver /\ ser' = ser
        /\ snapCounter' = snapCounter
    BY <1>7, StaleFacts DEF MCBook
  <2>2. PacketOK(t)'
    BY <2>1, StaleFacts DEF PacketOK, Carries, GLPlaces
  <2>. QED
    BY <2>1, <2>2, PacketStep
<1>8. CASE MCEnd(t)
  <2>1. /\ Place(t) = "mc_end" /\ Place(t)' \in {"mc_write", "idle"}
        /\ pc'[t] \in {"mc_write", "idle"} /\ UNCHANGED <<gl, snapCounter>>
    BY <1>8, StaleFacts DEF MCEnd
  <2>2. ~ser'[t].inBegin
    BY <1>8, <2>1, StaleFacts DEF MCEnd, PacketOK
  <2>3. PacketOK(t)'
    BY <2>1, <2>2, StaleFacts DEF PacketOK, Carries, GLPlaces
  <2>. QED
    BY <2>1, <2>3, PacketStep
<1>9. CASE SwapProlog(t)
  <2>1. /\ Place(t)' = "sw_driver" /\ pc'[t] = "sw_driver"
        /\ UNCHANGED <<gl, snapCounter>>
    BY <1>9, StaleFacts DEF SwapProlog
  <2>2. PacketOK(t)'
    BY <2>1, StaleFacts DEF PacketOK, Carries, GLPlaces
  <2>. QED
    BY <2>1, <2>2, PacketStep
<1>10. CASE SwapDriver(t)
  <2>1. /\ Place(t)' \in {"sw_write", "sw_tick"}
        /\ pc'[t] \in {"sw_write", "sw_tick"} /\ UNCHANGED <<gl, snapCounter>>
    BY <1>10, StaleFacts DEF SwapDriver
  <2>2. ~ser'[t].inBegin
    BY <1>10, StaleFacts DEF SwapDriver, End, Discard, NoPacket
  <2>3. PacketOK(t)'
    BY <2>1, <2>2, StaleFacts DEF PacketOK, Carries, GLPlaces
  <2>. QED
    BY <2>1, <2>3, PacketStep
<1>. QED
  BY <1>1, <1>2, <1>3, <1>4, <1>5, <1>6, <1>7, <1>8, <1>9, <1>10

\* The snapshot refuses a context that is current on another thread, so that
\* nobody has a packet under way that was begun before it.
LEMMA SnapshotPackets ==
  ASSUME StaleInv, NEW t \in Threads, OwnStep(t), SnapshotBegin(t)
  PROVE  PacketsOK'
<1>1. /\ Place(t) = "snap" /\ Place(t)' = "snapping" /\ pc'[t] = "snapping"
      /\ UNCHANGED <<gl, ser>>
  BY StaleFacts DEF SnapshotBegin
<1>2. PacketOK(t)'
  BY <1>1, StaleFacts DEF PacketOK, Carries, GLPlaces
<1>3. ASSUME NEW s \in Threads \ {t} PROVE PacketOK(s)'
  <2>1. /\ pc'[s] = pc[s] /\ Place(s)' = Place(s) /\ ser'[s] = ser[s]
        /\ UNCHANGED gl
    BY <1>1 DEF OwnStep
  <2>2. Place(s) \notin GLPlaces
    BY StaleFacts DEF SnapshotBegin, OthersCurrent, PacketOK
  <2>. QED
    BY <2>1, <2>2, StaleFacts DEF PacketOK, Carries, GLPlaces
<1>. QED
  BY <1>2, <1>3 DEF PacketsOK

\* The packets stay right in the tick and in the ways out.
LEMMA TickPackets ==
  ASSUME StaleInv, NEW t \in Threads, OwnStep(t),
         \/ Tick(t)
         \/ SnapshotFails(t) \/ SnapshotEnd(t)
         \/ OpenTrace(t) \/ WriteSnapshot(t)
         \/ TickEndCtx(t) \/ TickEndClose(t)
         \/ SwapExit(t) \/ ExitAfterFrames(t) \/ ExitCall(t)
         \/ ExitLock(t) \/ ExitOnce(t) \/ ExitEnd(t) \/ Terminate(t)
  PROVE  PacketsOK'
<1>. DEFINE from == pc[t]
            to == pc'[t]
<1>1. ASSUME from \notin GLPlaces \union SigPlaces \union {"sw_driver", "mc_book"},
             to \notin GLPlaces \union SigPlaces \union {"mc_book"},
             UNCHANGED <<gl, ser>>, snapCounter' \in {snapCounter, 0}
      PROVE  PacketsOK'
  BY <1>1, PlainStep DEF GLPlaces
<1>2. CASE Tick(t)
  <2>1. from = "sw_tick" /\ to \in {"snap", "end_ctx", "idle", "sw_return"}
    BY <1>2, StaleFacts DEF Tick, SwapReturn
  <2>. QED
    BY <1>1, <1>2, <2>1 DEF Tick, GLPlaces
<1>3. CASE SnapshotFails(t) \/ SnapshotEnd(t) \/ OpenTrace(t)
  <2>1. from \in {"snap", "snapping", "snap_open"}
        /\ to \in {"fail_ctx", "snap_open", "snap_write"}
    BY <1>3, StaleFacts DEF SnapshotFails, SnapshotEnd, OpenTrace
  <2>. QED
    BY <1>1, <1>3, <2>1 DEF SnapshotFails, SnapshotEnd, OpenTrace, GLPlaces
<1>4. CASE WriteSnapshot(t)
  <2>1. from = "snap_write" /\ to \in {"fail_ctx", "idle", "sw_return"}
    BY <1>4, StaleFacts DEF WriteSnapshot, SwapReturn
  <2>. QED
    BY <1>1, <1>4, <2>1 DEF WriteSnapshot, GLPlaces
<1>5. ASSUME NEW f, NEW g, EndCtx(t, f, g),
             f \in {"end_ctx", "fail_ctx", "x_ctx", "exit_ctx"},
             g \in {"end_close", "fail_close", "x_close", "exit_close"}
      PROVE  PacketsOK'
  <2>1. from = f /\ to = g
    BY <1>5, StaleFacts DEF EndCtx
  <2>. QED
    BY <1>1, <1>5, <2>1 DEF EndCtx, GLPlaces
<1>6. ASSUME NEW f, NEW g, EndClose(t, f), Goto(t, g),
             f \in {"end_close", "fail_close", "x_close", "exit_close"},
             g \in {"idle", "sw_return", "exit_lock", "exited"}
      PROVE  PacketsOK'
  <2>1. from = f /\ to = g
    BY <1>6, StaleFacts DEF EndClose
  <2>. QED
    BY <1>1, <1>6, <2>1 DEF EndClose, GLPlaces
<1>7. CASE TickEndCtx(t)
  BY <1>5, <1>7 DEF TickEndCtx
<1>8. CASE TickEndClose(t)
  BY <1>6, <1>8 DEF TickEndClose, SwapReturn
<1>9. CASE ExitAfterFrames(t)
  BY <1>5, <1>6, <1>9 DEF ExitAfterFrames
<1>10. CASE ExitEnd(t)
  BY <1>5, <1>6, <1>10 DEF ExitEnd
<1>11. CASE SwapExit(t) \/ ExitCall(t) \/ ExitLock(t) \/ ExitOnce(t)
  <2>1. from \in {"sw_return", "idle", "exit_lock", "exit_once"}
        /\ to \in {"idle", "x_ctx", "exit_lock", "exit_once", "exit_ctx", "exited"}
    BY <1>11, StaleFacts DEF SwapExit, ExitCall, ExitLock, ExitOnce
  <2>. QED
    BY <1>1, <1>11, <2>1 DEF SwapExit, ExitCall, ExitLock, ExitOnce, GLPlaces
<1>12. CASE Terminate(t)
  BY <1>1, <1>12, StaleFacts DEF Terminate, GLPlaces
<1>. QED
  BY <1>2, <1>3, <1>4, <1>7, <1>8, <1>9, <1>10, <1>11, <1>12

\* A signal handler writes the packet of the call it interrupted, begun after
\* the snapshot as that call was, or leaves it to the interrupted code.
LEMMA SignalPackets ==
  ASSUME StaleInv, NEW t \in Threads, OwnStep(t),
         Signal(t) \/ SigCtx(t) \/ SigWrite(t) \/ SigClose(t)
  PROVE  PacketsOK'
<1>1. CASE Signal(t)
  <2>1. Place(t) = pc[t] /\ Place(t)' = pc[t] /\ pc'[t] = "sig_ctx"
        /\ UNCHANGED <<gl, ser, snapCounter>>
    BY <1>1, StaleFacts DEF Signal, CallPlaces, GLPlaces, MCPlaces, SwapPlaces
  <2>2. PacketOK(t)'
    BY <2>1, StaleFacts DEF PacketOK, Carries, GLPlaces
  <2>. QED
    BY <2>1, <2>2, PacketStep
<1>2. CASE SigCtx(t)
  <2>1. /\ pc[t] = "sig_ctx" /\ pc'[t] \in {"sig_write", "sig_close"}
        /\ Place(t)' = Place(t) /\ UNCHANGED <<gl, snapCounter>>
    BY <1>2, StaleFacts DEF SigCtx
  <2>2. ASSUME pc'[t] = "sig_write" PROVE PacketOK(t)'
    <3>1. /\ Place(t) = "gl_driver" /\ ser[t].inBegin /\ ~ser'[t].inBegin
          /\ ser'[t].counter = ser[t].counter
      BY <1>2, <2>1, <2>2, StaleFacts DEF SigCtx, End
    <3>. QED
      BY <2>1, <3>1, StaleFacts DEF PacketOK, Carries, GLPlaces
  <2>3. ASSUME pc'[t] = "sig_close" PROVE PacketOK(t)'
    <3>1. ser' = ser
      BY <1>2, <2>3, StaleFacts DEF SigCtx
    <3>. QED
      BY <2>1, <2>3, <3>1, StaleFacts DEF PacketOK, Carries, GLPlaces
  <2>. QED
    BY <2>1, <2>2, <2>3, PacketStep
<1>3. CASE SigWrite(t)
  <2>1. /\ Place(t) = "gl_driver" /\ Place(t)' \in {"gl_driver", "exit_once"}
        /\ pc'[t] \in {"sig_close", "exit_once"}
        /\ ~ser'[t].inBegin /\ UNCHANGED <<gl, snapCounter>>
    BY <1>3, StaleFacts DEF SigWrite, WritePacket, Discard, NoPacket
  <2>2. PacketOK(t)'
    BY <2>1, StaleFacts DEF PacketOK, Carries, GLPlaces
  <2>. QED
    BY <2>1, <2>2, PacketStep
<1>4. CASE SigClose(t)
  <2>1. /\ pc[t] = "sig_close" /\ Place(t)' = Place(t)
        /\ pc'[t] # "sig_write" /\ UNCHANGED <<gl, ser>> /\ snapCounter' = 0
    BY <1>4, StaleFacts DEF SigClose, EndClose, CallPlaces, GLPlaces, MCPlaces,
                            SwapPlaces
  <2>2. PacketOK(t)'
    BY <2>1, StaleFacts DEF PacketOK, Carries, GLPlaces
  <2>. QED
    BY <2>1, <2>2, PacketStep
<1>. QED
  BY <1>1, <1>2, <1>3, <1>4

-----------------------------------------------------------------------------
(* What the steps of a thread do to a capture session.                       *)

\* In a tick from the state snapshot to the first packets, and in one that ends
\* the capture.
SnapPlaces == {"snap", "snapping", "snap_open", "snap_write"}
EndPlaces  == {"end_ctx", "end_close"}

\* About to tick, or in the tick.
BusyPlaces == TickPlaces \union {"sw_tick"}

\* The session, its file and the request for the next one.
capture == <<control, file, want, stopMark>>

StaysOut(t) == \/ Place(t)' = Place(t)
               \/ Place(t) \notin BusyPlaces /\ Place(t)' \notin BusyPlaces

QuietStep(t) == UNCHANGED capture /\ StaysOut(t)

\* vogl_end_capture, whoever calls it.
CloseStep(t) ==
  /\ CanLockTrace(t)
  /\ \/ pc[t] \in SigPlaces /\ Place(t)' = Place(t)
     \/ Place(t)' \notin BusyPlaces
  /\ opened' = FALSE /\ file' = <<>> /\ total' = total
  /\ remaining' = 0 /\ callback' = 0 /\ want' = 0 /\ stopMark' = 0

\* A packet that is not a frame.
RecordStep(t) ==
  /\ opened /\ StaysOut(t)
  /\ \E kind \in {"gl", "mc"} : file' = Append(file, Packet(t, kind))
  /\ UNCHANGED <<control, want, stopMark>>

\* A swap whose packet is in the file, and one without a packet.
SwapStep(t) ==
  /\ opened /\ Place(t) = "sw_write" /\ Place(t)' = "sw_tick"
  /\ file' = Append(file, Packet(t, "swap"))
  /\ UNCHANGED <<control, want, stopMark>>

BareSwapStep(t) ==
  /\ ~opened /\ Place(t) \notin BusyPlaces /\ Place(t)' = "sw_tick"
  /\ UNCHANGED capture

\* The snapshot begins, ends or is given up.
SnapStep(t) ==
  /\ Place(t) \in {"snap", "snapping"}
  /\ Place(t)' \in {"snapping", "snap_open", "fail_ctx"}
  /\ UNCHANGED capture

\* The first half of vogl_end_capture within a tick.
EndStep(t) ==
  /\ \/ Place(t) = "end_ctx" /\ Place(t)' = "end_close"
     \/ Place(t) = "fail_ctx" /\ Place(t)' = "fail_close"
  /\ UNCHANGED capture

SessionStep(t) ==
  \/ QuietStep(t) \/ CloseStep(t) \/ RecordStep(t)
  \/ SwapStep(t) \/ BareSwapStep(t) \/ SnapStep(t) \/ EndStep(t)
  \/ Tick(t) \/ OpenTrace(t) \/ WriteSnapshot(t)

\* The write of a packet other than a frame's.
LEMMA WriteKind ==
  ASSUME LockInv, NEW t \in Threads, NEW from \in Places, NEW kind \in {"gl", "mc"},
         NEW to, WritePacket(t, from, kind, to),
         StaysOut(t)
  PROVE  QuietStep(t) \/ RecordStep(t)
  BY DEF WritePacket, QuietStep, RecordStep, capture

\* Every step of a thread is one of these.
LEMMA StepKinds ==
  ASSUME LockInv, NEW t \in Threads, Enter(t) \/ Continue(t) \/ Signal(t)
  PROVE  SessionStep(t)
<1>. USE PcType DEF capture
<1>1. CASE Enter(t) \/ GLDriver(t) \/ MCRelease(t) \/ MCDriver(t) \/ MCBook(t)
  <2>1. StaysOut(t)
    BY <1>1 DEF Enter, GLProlog, MCProlog, SwapProlog, ExitCall, GLDriver,
                MCRelease, MCDriver, MCBook, StaysOut, BusyPlaces
  <2>. QED
    BY <1>1, <2>1 DEF Enter, GLProlog, MCProlog, SwapProlog, ExitCall, GLDriver,
       MCRelease, MCDriver, MCBook, QuietStep, SessionStep
<1>2. CASE \/ MCEnd(t) \/ SwapExit(t) \/ ExitLock(t) \/ ExitOnce(t)
           \/ Terminate(t)
  <2>1. StaysOut(t)
    BY <1>2 DEF MCEnd, SwapExit, ExitLock, ExitOnce, Terminate, StaysOut,
                BusyPlaces
  <2>. QED
    BY <1>2, <2>1 DEF MCEnd, SwapExit, ExitLock, ExitOnce, Terminate, QuietStep,
                      SessionStep
<1>3. CASE Signal(t) \/ SigCtx(t)
  <2>1. Place(t)' = Place(t)
    BY <1>3 DEF Signal, SigCtx, CallPlaces, GLPlaces, MCPlaces, SwapPlaces
  <2>. QED
    BY <1>3, <2>1 DEF Signal, SigCtx, QuietStep, StaysOut, SessionStep
<1>4. CASE GLWrite(t) \/ MCWrite(t)
  <2>1. StaysOut(t)
    BY <1>4 DEF GLWrite, MCWrite, WritePacket, StaysOut, BusyPlaces
  <2>. QED
    BY <1>4, <2>1, WriteKind, TargetFacts DEF GLWrite, MCWrite, SessionStep
<1>5. CASE SigWrite(t)
  <2>1. pc[t] = "sig_write" /\ Place(t) = "gl_driver"
    BY <1>5, OwnLocks DEF SigWrite, WritePacket
  <2>2. Place(t)' \in {"gl_driver", "exit_once"}
    BY <1>5, <2>1 DEF SigWrite, WritePacket
  <2>3. StaysOut(t)
    BY <2>1, <2>2 DEF StaysOut, BusyPlaces
  <2>. QED
    BY <1>5, <2>3, WriteKind, TargetFacts DEF SigWrite, SessionStep
<1>6. CASE SwapWrite(t)
  <2>1. Place(t) = "sw_write"
    BY <1>6 DEF SwapWrite, WritePacket
  <2>2. CASE Goto(t, "sw_tick")
    <3>1. Place(t)' = "sw_tick"
      BY <2>2
    <3>. QED
      BY <1>6, <2>1, <2>2, <3>1
         DEF SwapWrite, WritePacket, SwapStep, BareSwapStep, BusyPlaces, SessionStep
  <2>3. CASE Goto(t, "exit_once") /\ UNCHANGED file
    <3>1. Place(t)' = "exit_once"
      BY <2>3
    <3>. QED
      BY <1>6, <2>1, <2>3, <3>1
         DEF SwapWrite, WritePacket, QuietStep, StaysOut, BusyPlaces, SessionStep
  <2>. QED
    BY <1>6, <2>2, <2>3 DEF SwapWrite, WritePacket
<1>7. CASE SwapDriver(t)
  <2>1. Place(t) = "sw_driver" /\ UNCHANGED capture
    BY <1>7 DEF SwapDriver
  <2>2. Place(t)' = IF opened THEN "sw_write" ELSE "sw_tick"
    BY <1>7 DEF SwapDriver
  <2>. QED
    BY <2>1, <2>2 DEF QuietStep, StaysOut, BareSwapStep, BusyPlaces, SessionStep
<1>8. CASE SnapshotBegin(t) \/ SnapshotFails(t) \/ SnapshotEnd(t)
  <2>1. Place(t) \in {"snap", "snapping"}
        /\ Place(t)' \in {"snapping", "snap_open", "fail_ctx"}
    BY <1>8 DEF SnapshotBegin, SnapshotFails, SnapshotEnd
  <2>. QED
    BY <1>8, <2>1 DEF SnapshotBegin, SnapshotFails, SnapshotEnd, SnapStep,
                      SessionStep
<1>9. CASE TickEndCtx(t)
  BY <1>9 DEF TickEndCtx, EndCtx, EndStep, SessionStep
<1>10. CASE EndCtx(t, "x_ctx", "x_close") \/ EndCtx(t, "exit_ctx", "exit_close")
  <2>1. StaysOut(t)
    BY <1>10 DEF EndCtx, StaysOut, BusyPlaces
  <2>. QED
    BY <1>10, <2>1 DEF EndCtx, QuietStep, SessionStep
<1>11. ASSUME NEW from, EndClose(t, from),
              \/ pc[t] \in SigPlaces /\ Place(t)' = Place(t)
              \/ Place(t)' \notin BusyPlaces
       PROVE  SessionStep(t)
  BY <1>11 DEF EndClose, ResetSession, CloseStep, SessionStep
<1>12. CASE TickEndClose(t) \/ ExitAfterFrames(t) \/ ExitEnd(t) \/ SigClose(t)
  <2>1. ASSUME NEW to \in {"idle", "sw_return", "exit_lock", "exited"},
               Goto(t, to)
        PROVE  Place(t)' \notin BusyPlaces
    BY <2>1 DEF BusyPlaces
  <2>2. CASE TickEndClose(t) \/ ExitAfterFrames(t) \/ ExitEnd(t)
    BY <1>10, <1>11, <2>1, <2>2
       DEF TickEndClose, SwapReturn, ExitAfterFrames, ExitEnd
  <2>3. CASE SigClose(t)
    <3>1. pc[t] = "sig_close" /\ interrupted[t] \notin SigPlaces
      BY <2>3, OwnLocks DEF SigClose, EndClose
    <3>2. Place(t)' = Place(t)
      BY <2>3, <3>1 DEF SigClose
    <3>. QED
      BY <1>11, <2>3, <3>1, <3>2 DEF SigClose
  <2>. QED
    BY <1>12, <2>2, <2>3
<1>13. CASE Tick(t) \/ OpenTrace(t) \/ WriteSnapshot(t)
  BY <1>13 DEF SessionStep
<1>. QED
  BY <1>1, <1>2, <1>3, <1>4, <1>5, <1>6, <1>7, <1>8, <1>9, <1>12, <1>13
     DEF Continue

\* The mutex keeps the ticks apart.
LEMMA OneTick ==
  ASSUME LockInv, NEW s \in Threads, NEW t \in Threads,
         Place(s) \in TickPlaces
  PROVE  /\ Place(t) \in TickPlaces => s = t
         /\ CanLockTrace(t) /\ Place(t) \notin TickPlaces \union HookPlaces => FALSE
  BY OwnLocks, PcType DEF LocksMatch, CanLockTrace

\* The places of the other threads are untouched by a thread's step.
LEMMA OwnPlace ==
  ASSUME LockInv, NEW t \in Threads, Enter(t) \/ Continue(t) \/ Signal(t),
         NEW s \in Threads \ {t}
  PROVE  Place(s)' = Place(s)
  BY StepIsOwn DEF LockInv, OwnStep

\* A closed trace is empty, and it is closed until the snapshot is taken.
LEMMA FileStep ==
  ASSUME StaleInv, NEW t \in Threads, Enter(t) \/ Continue(t) \/ Signal(t)
  PROVE  /\ ~opened' => file' = <<>> /\ stopMark' = 0
         /\ \A s \in Threads :
              Place(s)' \in {"snap", "snapping", "snap_open"} => ~opened'
<1>. DEFINE Early == {"snap", "snapping", "snap_open"}
<1>. LockInv /\ FileOK
  BY DEF StaleInv
<1>. USE DEF capture
<1>1. SessionStep(t)
  BY StepKinds
<1>2. \A s \in Threads \ {t} : Place(s)' = Place(s)
  BY OwnPlace
<1>3. \A s \in Threads : Place(s) \in Early => ~opened
  BY DEF FileOK
<1>4. ~opened => file = <<>> /\ stopMark = 0
  BY DEF FileOK
<1>5. ASSUME UNCHANGED <<opened, file, stopMark>>,
             Place(t)' \in Early => Place(t) \in Early
      PROVE  /\ ~opened' => file' = <<>> /\ stopMark' = 0
             /\ \A s \in Threads : Place(s)' \in Early => ~opened'
  BY <1>2, <1>3, <1>4, <1>5
<1>6. CASE QuietStep(t)
  BY <1>5, <1>6 DEF QuietStep, StaysOut, BusyPlaces
<1>7. CASE CloseStep(t)
  BY <1>7 DEF CloseStep
<1>8. CASE RecordStep(t) \/ SwapStep(t)
  <2>1. Place(t)' \in Early => Place(t) \in Early
    BY <1>8 DEF RecordStep, SwapStep, StaysOut, BusyPlaces
  <2>. QED
    BY <1>2, <1>3, <1>8, <2>1 DEF RecordStep, SwapStep
<1>9. CASE BareSwapStep(t) \/ SnapStep(t) \/ EndStep(t)
  BY <1>5, <1>9 DEF BareSwapStep, SnapStep, EndStep
<1>10. CASE Tick(t)
  <2>1. UNCHANGED <<opened, file, stopMark>>
    BY <1>10 DEF Tick
  <2>2. Place(t)' \in Early => ~opened
    BY <1>10, PcType DEF Tick, SwapReturn
  <2>. QED
    BY <1>2, <1>3, <1>4, <2>1, <2>2
<1>11. CASE OpenTrace(t)
  <2>1. Place(t) = "snap_open" /\ Place(t)' \in {"snap_write", "fail_ctx"}
    BY <1>11, PcType DEF OpenTrace
  <2>2. \A s \in Threads : Place(s)' \notin Early
    BY <1>2, <2>1, OneTick
  <2>3. file' = <<>> /\ stopMark' = 0
    BY <1>3, <1>4, <1>11, <2>1 DEF OpenTrace
  <2>. QED
    BY <2>2, <2>3
<1>12. CASE WriteSnapshot(t)
  <2>1. UNCHANGED <<opened, file, stopMark>>
        /\ Place(t)' \in {"idle", "sw_return", "fail_ctx"}
    BY <1>12, PcType DEF WriteSnapshot, SwapReturn
  <2>. QED
    BY <1>5, <2>1
<1>. QED
  BY <1>1, <1>6, <1>7, <1>8, <1>9, <1>10, <1>11, <1>12 DEF SessionStep

\* The snapshot's counter stays behind the writer's, and is taken only when no
\* packet is in the file.
LEMMA CounterStep ==
  ASSUME StaleInv, NEW t \in Threads, Enter(t) \/ Continue(t) \/ Signal(t)
  PROVE  /\ snapCounter' <= callCounter'
         /\ snapCounter' \in {snapCounter, 0} \/ SnapshotBegin(t)
<1>. USE StaleFacts DEF Begin
<1>1. ASSUME NEW from, NEW kind, NEW to, WritePacket(t, from, kind, to)
      PROVE  UNCHANGED <<snapCounter, callCounter>>
  BY <1>1 DEF WritePacket
<1>2. ASSUME NEW from, NEW to, EndCtx(t, from, to)
      PROVE  UNCHANGED <<snapCounter, callCounter>>
  BY <1>2 DEF EndCtx
<1>3. ASSUME NEW from, EndClose(t, from)
      PROVE  snapCounter' = 0 /\ UNCHANGED callCounter
  BY <1>3 DEF EndClose
<1>4. CASE Enter(t)
  BY <1>4 DEF Enter, GLProlog, MCProlog, SwapProlog, ExitCall
<1>5. CASE \/ GLDriver(t) \/ SwapDriver(t) \/ MCRelease(t) \/ MCDriver(t)
           \/ MCBook(t) \/ MCEnd(t)
  BY <1>5 DEF GLDriver, SwapDriver, MCRelease, MCDriver, MCBook, MCEnd
<1>6. CASE GLWrite(t) \/ MCWrite(t) \/ SwapWrite(t) \/ SigWrite(t)
  BY <1>1, <1>6 DEF GLWrite, MCWrite, SwapWrite, SigWrite
<1>7. CASE \/ Tick(t) \/ SnapshotBegin(t) \/ SnapshotFails(t) \/ SnapshotEnd(t)
           \/ OpenTrace(t) \/ WriteSnapshot(t)
  BY <1>7 DEF Tick, SnapshotBegin, SnapshotFails, SnapshotEnd, OpenTrace,
              WriteSnapshot
<1>8. CASE TickEndCtx(t) \/ TickEndClose(t) \/ ExitAfterFrames(t) \/ ExitEnd(t)
  BY <1>2, <1>3, <1>8 DEF TickEndCtx, TickEndClose, ExitAfterFrames, ExitEnd
<1>9. CASE SwapExit(t) \/ ExitLock(t) \/ ExitOnce(t) \/ Terminate(t)
  BY <1>9 DEF SwapExit, ExitLock, ExitOnce, Terminate
<1>10. CASE Signal(t) \/ SigCtx(t) \/ SigClose(t)
  BY <1>3, <1>10 DEF Signal, SigCtx, SigClose
<1>. QED
  BY <1>4, <1>5, <1>6, <1>7, <1>8, <1>9, <1>10 DEF Continue

\* What a step does to the packets of the file.
LEMMA FileMoves ==
  ASSUME StaleInv, NEW t \in Threads, Enter(t) \/ Continue(t) \/ Signal(t)
  PROVE  \/ file' = file \/ file' = <<>>
         \/ \E kind \in {"gl", "mc", "swap"} :
              /\ file' = Append(file, Packet(t, kind))
              /\ UNCHANGED snapCounter
              /\ kind = "gl" => ser[t].counter > snapCounter
              /\ pc[t] \in {"gl_write", "mc_write", "sw_write", "sig_write"}
<1>1. ASSUME NEW from \in {"gl_write", "mc_write", "sw_write", "sig_write"},
             NEW to, NEW kind \in {"gl", "mc", "swap"},
             WritePacket(t, from, kind, to), kind = "gl" => Carries(t)
      PROVE  \/ file' = file
             \/ /\ file' = Append(file, Packet(t, kind)) /\ UNCHANGED snapCounter
                /\ kind = "gl" => ser[t].counter > snapCounter
                /\ pc[t] = from
  BY <1>1, StaleFacts DEF WritePacket, PacketOK
<1>2. CASE GLWrite(t) \/ SigWrite(t)
  <2>1. Carries(t)
    BY <1>2 DEF GLWrite, SigWrite, WritePacket, Carries
  <2>. QED
    BY <1>1, <1>2, <2>1 DEF GLWrite, SigWrite
<1>3. CASE MCWrite(t) \/ SwapWrite(t)
  BY <1>1, <1>3 DEF MCWrite, SwapWrite
<1>4. ASSUME NEW from, NEW to, EndCtx(t, from, to) PROVE file' = file
  BY <1>4 DEF EndCtx
<1>5. ASSUME NEW from, EndClose(t, from) PROVE file' = <<>>
  BY <1>5 DEF EndClose
<1>6. CASE Enter(t) \/ GLDriver(t) \/ SwapDriver(t) \/ MCRelease(t)
  BY <1>6 DEF Enter, GLProlog, MCProlog, SwapProlog, ExitCall, GLDriver,
              SwapDriver, MCRelease
<1>7. CASE \/ MCDriver(t) \/ MCBook(t) \/ MCEnd(t) \/ Tick(t)
           \/ SnapshotBegin(t) \/ SnapshotFails(t) \/ SnapshotEnd(t)
  BY <1>7 DEF MCDriver, MCBook, MCEnd, Tick, SnapshotBegin, SnapshotFails,
              SnapshotEnd
<1>8. CASE OpenTrace(t) \/ WriteSnapshot(t) \/ TickEndCtx(t) \/ TickEndClose(t)
  BY <1>4, <1>5, <1>8 DEF OpenTrace, WriteSnapshot, TickEndCtx, TickEndClose
<1>9. CASE ExitAfterFrames(t) \/ ExitEnd(t) \/ SwapExit(t) \/ ExitLock(t)
  BY <1>4, <1>5, <1>9 DEF ExitAfterFrames, ExitEnd, SwapExit, ExitLock
<1>10. CASE \/ ExitOnce(t) \/ Terminate(t) \/ Signal(t) \/ SigCtx(t)
            \/ SigClose(t)
  BY <1>5, <1>10 DEF ExitOnce, Terminate, Signal, SigCtx, SigClose
<1>. QED
  BY <1>2, <1>3, <1>6, <1>7, <1>8, <1>9, <1>10 DEF Continue

\* The GL packets of the file stay younger than the snapshot.
LEMMA YoungStep ==
  ASSUME StaleInv, NEW t \in Threads, Enter(t) \/ Continue(t) \/ Signal(t)
  PROVE  NoStalePacket'
<1>1. /\ NoStalePacket /\ file \in Seq(Packets)
      /\ \A i \in DOMAIN file : file[i].counter \in Nat
  <2>1. NoStalePacket /\ file \in Seq(Packets)
    BY DEF StaleInv, LockInv, TypeOK
  <2>2. \A i \in DOMAIN file : file[i] \in Packets
    BY <2>1
  <2>. QED
    BY <2>1, <2>2 DEF Packets
<1>2. CASE SnapshotBegin(t)
  <2>1. file' = <<>>
    BY <1>2, StaleFacts DEF SnapshotBegin, StaleInv, FileOK
  <2>. QED
    BY <2>1 DEF NoStalePacket
<1>3. CASE snapCounter' \in {snapCounter, 0} /\ (file' = file \/ file' = <<>>)
  <2>1. CASE file' = file
    <3>1. \A i \in DOMAIN file :
            file[i].counter > snapCounter => file[i].counter > snapCounter'
      BY <1>1, <1>3, StaleFacts
    <3>. QED
      BY <1>1, <2>1, <3>1 DEF NoStalePacket
  <2>2. CASE file' = <<>>
    BY <2>2 DEF NoStalePacket
  <2>. QED
    BY <1>3, <2>1, <2>2
<1>4. ASSUME NEW kind \in {"gl", "mc", "swap"},
             file' = Append(file, Packet(t, kind)), UNCHANGED snapCounter,
             kind = "gl" => ser[t].counter > snapCounter
      PROVE  NoStalePacket'
  <2>1. DOMAIN file' = 1..Len(file) + 1 /\ Len(file) \in Nat
        /\ DOMAIN file = 1..Len(file)
    BY <1>1, <1>4
  <2>2. ASSUME NEW i \in DOMAIN file', file'[i].kind = "gl"
        PROVE  file'[i].counter > snapCounter
    <3>1. CASE i = Len(file) + 1
      <4>1. file'[i] = Packet(t, kind)
        BY <1>1, <1>4, <2>1, <3>1
      <4>. QED
        BY <1>4, <2>2, <4>1 DEF Packet
    <3>2. CASE i \in DOMAIN file
      <4>1. file'[i] = file[i]
        BY <1>1, <1>4, <2>1, <3>2
      <4>. QED
        BY <1>1, <2>2, <3>2, <4>1 DEF NoStalePacket
    <3>. QED
      BY <2>1, <3>1, <3>2
  <2>. QED
    BY <1>4, <2>2 DEF NoStalePacket
<1>. QED
  BY <1>2, <1>3, <1>4, FileMoves, CounterStep

\* The invariant of the packets is inductive.
LEMMA StaleNext == StaleInv /\ [Next]_vars => StaleInv'
<1>. SUFFICES ASSUME StaleInv, [Next]_vars
              PROVE  PacketsOK' /\ FileOK' /\ NoStalePacket'
  BY LockNext DEF StaleInv
<1>1. CASE UNCHANGED <<file, opened, pc, interrupted, trace, gl, snapCounter,
                       stopMark>>
  BY <1>1 DEF StaleInv, PacketsOK, PacketOK, Carries, FileOK, NoStalePacket
<1>2. CASE Controller
  <2>1. UNCHANGED <<opened, trace, gl, pc, interrupted, session>>
        /\ (UNCHANGED stopMark \/ opened)
    BY <1>2 DEF Controller, CaptureOnNextSwap, StopCapturing,
                StopCapturingWithCallback, AcceptStop
  <2>. QED
    BY <2>1 DEF StaleInv, PacketsOK, PacketOK, Carries, FileOK, NoStalePacket
<1>3. ASSUME NEW t \in Threads, Enter(t) \/ Continue(t) \/ Signal(t)
      PROVE  PacketsOK' /\ FileOK' /\ NoStalePacket'
  <2>1. OwnStep(t)
    BY <1>3, StepIsOwn DEF StaleInv, LockInv
  <2>2. PacketsOK'
    BY <1>3, <2>1, CallPackets, SnapshotPackets, TickPackets, SignalPackets
       DEF Enter, Continue
  <2>. QED
    BY <1>3, <2>2, FileStep, CounterStep, YoungStep DEF FileOK
<1>. QED
  BY <1>1, <1>2, <1>3 DEF Next, vars

\* The invariant of the packets holds initially.
LEMMA StaleInit == Init => StaleInv
<1>. SUFFICES ASSUME Init PROVE PacketsOK /\ FileOK /\ NoStalePacket
  BY LockInit DEF StaleInv
<1>1. ASSUME NEW t \in Threads PROVE PacketOK(t)
  BY DEF Init, PacketOK, Carries, NoPacket, GLPlaces
<1>. QED
  BY <1>1 DEF Init, PacketsOK, FileOK, NoStalePacket

\* No call that took effect before the snapshot is in the trace that starts with
\* it, however many threads serialize calls without a lock while sessions close
\* and open, and whatever a signal handler interrupts.
THEOREM SnapshotCorrect == Spec => []NoStalePacket
<1>1. StaleInv => NoStalePacket
  BY DEF StaleInv
<1>. QED
  BY StaleInit, StaleNext, <1>1, PTL DEF Spec

-----------------------------------------------------------------------------
(* The calls of one thread in a trace.                                       *)

WritePlaces == {"gl_write", "mc_write", "sw_write"}

\* The call the thread is in may still write a packet.
Writes(t) == \/ Place(t) \in {"gl_driver", "sw_driver"} /\ ser[t].inBegin
             \/ Place(t) \in WritePlaces
             \/ pc[t] = "sig_write"

\* The packet that may still be written is younger than those of the thread in
\* the file, and a call that was not begun is the first since the trace opened.
FollowOK(t) ==
  /\ Writes(t) => \A i \in DOMAIN file :
                    file[i].thread = t => file[i].counter < ser[t].counter
  /\ Recorded(t) /\ pc[t] \in {"gl_driver", "sw_driver"} => ser[t].inBegin

\* No packet is ahead of the writer's counter.
NotAhead == /\ \A t \in Threads : ser[t].counter <= callCounter
            /\ \A i \in DOMAIN file : file[i].counter <= callCounter

\* The packets of each thread are in the order of its calls.
InOrder == \A i, j \in DOMAIN file :
             i < j /\ file[i].thread = file[j].thread
               => file[i].counter < file[j].counter

FollowInv ==
  StaleInv /\ (\A t \in Threads : FollowOK(t)) /\ NotAhead /\ InOrder

\* The packets of a file that one more is written to.
LEMMA AppendFacts ==
  ASSUME TypeOK
  PROVE  /\ Len(file) \in Nat /\ DOMAIN file = 1..Len(file)
         /\ \A i \in DOMAIN file : file[i].counter \in Nat
         /\ \A t, kind : file' = Append(file, Packet(t, kind)) =>
              /\ DOMAIN file' = 1..Len(file) + 1
              /\ \A i \in DOMAIN file : file'[i] = file[i]
              /\ file'[Len(file) + 1].thread = t
              /\ file'[Len(file) + 1].counter = ser[t].counter
<1>1. file \in Seq(Packets)
  BY DEF TypeOK
<1>2. \A i \in DOMAIN file : file[i] \in Packets
  BY <1>1
<1>3. Len(file) \in Nat /\ DOMAIN file = 1..Len(file)
  BY <1>1
<1>4. ASSUME NEW t, NEW kind, file' = Append(file, Packet(t, kind))
      PROVE  /\ DOMAIN file' = 1..Len(file) + 1
             /\ \A i \in DOMAIN file : file'[i] = file[i]
             /\ file'[Len(file) + 1] = Packet(t, kind)
  BY <1>1, <1>3, <1>4
<1>. QED
  BY <1>2, <1>3, <1>4 DEF Packets, Packet

\* The call counter only grows, and a packet takes its latest value.
LEMMA CountersGrow ==
  ASSUME StaleInv, NEW t \in Threads, Enter(t) \/ Continue(t) \/ Signal(t)
  PROVE  /\ callCounter' \in {callCounter, callCounter + 1}
         /\ ser'[t].counter \in {ser[t].counter, 0, callCounter'}
<1>. USE StaleFacts
<1>1. ASSUME NEW from, NEW kind, NEW to, WritePacket(t, from, kind, to)
      PROVE  UNCHANGED callCounter /\ ser'[t].counter = 0
  BY <1>1 DEF WritePacket, Discard, NoPacket
<1>2. ASSUME NEW from, NEW to, EndCtx(t, from, to)
      PROVE  UNCHANGED <<ser, callCounter>>
  BY <1>2 DEF EndCtx
<1>3. ASSUME NEW from, EndClose(t, from)
      PROVE  UNCHANGED <<ser, callCounter>>
  BY <1>3 DEF EndClose
<1>4. CASE Enter(t)
  BY <1>4 DEF Enter, GLProlog, MCProlog, SwapProlog, ExitCall, Begin
<1>5. CASE GLDriver(t) \/ SwapDriver(t)
  BY <1>5 DEF GLDriver, SwapDriver, End, Discard, NoPacket
<1>6. CASE MCRelease(t) \/ MCDriver(t) \/ MCBook(t) \/ MCEnd(t)
  BY <1>6 DEF MCRelease, MCDriver, MCBook, MCEnd
<1>7. CASE GLWrite(t) \/ MCWrite(t) \/ SwapWrite(t) \/ SigWrite(t)
  BY <1>1, <1>7 DEF GLWrite, MCWrite, SwapWrite, SigWrite
<1>8. CASE \/ Tick(t) \/ SnapshotBegin(t) \/ SnapshotFails(t) \/ SnapshotEnd(t)
           \/ OpenTrace(t) \/ WriteSnapshot(t)
  BY <1>8 DEF Tick, SnapshotBegin, SnapshotFails, SnapshotEnd, OpenTrace,
              WriteSnapshot
<1>9. CASE TickEndCtx(t) \/ TickEndClose(t) \/ ExitAfterFrames(t) \/ ExitEnd(t)
  BY <1>2, <1>3, <1>9 DEF TickEndCtx, TickEndClose, ExitAfterFrames, ExitEnd
<1>10. CASE SwapExit(t) \/ ExitLock(t) \/ ExitOnce(t) \/ Terminate(t)
  BY <1>10 DEF SwapExit, ExitLock, ExitOnce, Terminate
<1>11. CASE Signal(t) \/ SigCtx(t) \/ SigClose(t)
  BY <1>3, <1>11 DEF Signal, SigCtx, SigClose, End
<1>. QED
  BY <1>4, <1>5, <1>6, <1>7, <1>8, <1>9, <1>10, <1>11 DEF Continue

\* No packet gets ahead of the counter.
LEMMA AheadStep ==
  ASSUME FollowInv, NEW t \in Threads, Enter(t) \/ Continue(t) \/ Signal(t)
  PROVE  NotAhead'
<1>1. StaleInv /\ NotAhead /\ TypeOK /\ TypeOK'
  BY LockNext DEF FollowInv, StaleInv, LockInv, Next
<1>. USE <1>1
<1>2. /\ callCounter \in Nat /\ callCounter' \in Nat /\ callCounter <= callCounter'
      /\ ser[t].counter \in Nat
      /\ ser'[t].counter <= callCounter'
  BY CountersGrow, StaleFacts DEF NotAhead
<1>3. ASSUME NEW s \in Threads PROVE ser'[s].counter <= callCounter'
  <2>1. CASE s # t
    <3>1. ser'[s] = ser[s] /\ ser[s].counter \in Nat
      BY <2>1, StepIsOwn, StaleFacts DEF OwnStep
    <3>. QED
      BY <1>2, <3>1 DEF NotAhead
  <2>. QED
    BY <1>2, <2>1
<1>4. ASSUME NEW i \in DOMAIN file' PROVE file'[i].counter <= callCounter'
  <2>1. CASE file' = file
    <3>1. file[i].counter \in Nat /\ file[i].counter <= callCounter
      BY <1>4, <2>1, AppendFacts DEF NotAhead
    <3>. QED
      BY <1>2, <2>1, <3>1
  <2>2. CASE file' = <<>>
    BY <2>2
  <2>3. ASSUME NEW kind, file' = Append(file, Packet(t, kind))
        PROVE  file'[i].counter <= callCounter'
    <3>1. CASE i = Len(file) + 1
      BY <1>2, <2>3, <3>1, AppendFacts DEF NotAhead
    <3>2. CASE i \in DOMAIN file
      BY <1>2, <2>3, <3>2, AppendFacts DEF NotAhead
    <3>. QED
      BY <2>3, <3>1, <3>2, AppendFacts
  <2>. QED
    BY <2>1, <2>2, <2>3, FileMoves
<1>. QED
  BY <1>3, <1>4 DEF NotAhead

\* A packet is written after those of its thread.
LEMMA OrderStep ==
  ASSUME FollowInv, NEW t \in Threads, Enter(t) \/ Continue(t) \/ Signal(t)
  PROVE  InOrder'
<1>1. StaleInv /\ InOrder /\ FollowOK(t) /\ TypeOK
  BY DEF FollowInv, StaleInv, LockInv
<1>. USE <1>1
<1>2. CASE file' = file \/ file' = <<>>
  BY <1>2 DEF InOrder
<1>3. ASSUME NEW kind, file' = Append(file, Packet(t, kind)),
             pc[t] \in WritePlaces \union {"sig_write"}
      PROVE  InOrder'
  <2>1. Writes(t)
    BY <1>3 DEF Writes, WritePlaces
  <2>2. ASSUME NEW i \in DOMAIN file', NEW j \in DOMAIN file', i < j,
               file'[i].thread = file'[j].thread
        PROVE  file'[i].counter < file'[j].counter
    <3>1. i \in DOMAIN file
      BY <1>3, <2>2, AppendFacts
    <3>2. CASE j \in DOMAIN file
      BY <1>3, <2>2, <3>1, <3>2, AppendFacts DEF InOrder
    <3>3. CASE j = Len(file) + 1
      BY <1>3, <2>1, <2>2, <3>1, <3>3, AppendFacts DEF FollowOK
    <3>. QED
      BY <1>3, <3>2, <3>3, AppendFacts
  <2>. QED
    BY <2>2 DEF InOrder
<1>. QED
  BY <1>2, <1>3, FileMoves DEF WritePlaces

\* The other threads' packets are where they were.
LEMMA FollowOthers ==
  ASSUME FollowInv, NEW t \in Threads, Enter(t) \/ Continue(t) \/ Signal(t),
         NEW s \in Threads, s # t
  PROVE  FollowOK(s)'
<1>1. StaleInv /\ LockInv /\ TypeOK /\ FollowOK(s)
  BY DEF FollowInv, StaleInv, LockInv
<1>. USE <1>1
<1>2. /\ Place(s)' = Place(s) /\ pc'[s] = pc[s] /\ ser'[s] = ser[s]
      /\ Writes(s)' <=> Writes(s)
  <2>1. Place(s)' = Place(s) /\ pc'[s] = pc[s] /\ ser'[s] = ser[s]
    BY OwnPlace, StepIsOwn DEF OwnStep
  <2>. QED
    BY <2>1 DEF Writes
<1>3. ASSUME NEW i \in DOMAIN file', file'[i].thread = s
      PROVE  i \in DOMAIN file /\ file'[i] = file[i]
  <2>1. CASE file' = file \/ file' = <<>>
    BY <1>3, <2>1
  <2>2. ASSUME NEW kind, file' = Append(file, Packet(t, kind))
        PROVE  i \in DOMAIN file /\ file'[i] = file[i]
    BY <1>3, <2>2, AppendFacts
  <2>. QED
    BY <2>1, <2>2, FileMoves
<1>4. Recorded(s)' => Recorded(s)
  BY <1>3 DEF Recorded
<1>. QED
  BY <1>2, <1>3, <1>4 DEF FollowOK

\* A step that starts no call, writes or ends one, or empties the file.
LEMMA FollowMove ==
  ASSUME StaleInv, NEW t \in Threads,
         \/ file' = <<>>
         \/ /\ pc'[t] \notin {"gl_driver", "sw_driver", "sig_write"}
            /\ \/ Place(t)' \notin WritePlaces \union {"gl_driver", "sw_driver"}
               \/ Place(t)' \notin WritePlaces /\ ~ser'[t].inBegin
  PROVE  FollowOK(t)'
  BY DEF FollowOK, Writes, Recorded, WritePlaces

\* The thread's own call: begun while the trace is open, and younger than what
\* it has in the file; otherwise it has nothing there.
LEMMA FollowOwn ==
  ASSUME FollowInv, NEW t \in Threads, Enter(t) \/ Continue(t) \/ Signal(t)
  PROVE  FollowOK(t)'
<1>1. /\ StaleInv /\ LockInv /\ TypeOK /\ FollowOK(t) /\ NotAhead
      /\ (~opened => file = <<>>)
  BY DEF FollowInv, StaleInv, LockInv, FileOK
<1>. USE <1>1, StaleFacts
<1>2. \A i \in DOMAIN file : file[i].counter < callCounter + 1
  BY AppendFacts DEF NotAhead
<1>3. ASSUME NEW to \in Places \ (SigPlaces \union WritePlaces
                                    \union {"gl_driver", "sw_driver"}),
             Goto(t, to)
      PROVE  FollowOK(t)'
  <2>1. pc'[t] = to /\ Place(t)' = to
    BY <1>3
  <2>. QED
    BY <2>1, FollowMove DEF SigPlaces
<1>4. ASSUME NEW from, NEW kind, NEW to \in {"idle", "sw_tick"},
             WritePacket(t, from, kind, to)
      PROVE  FollowOK(t)'
  BY <1>3, <1>4, TargetFacts DEF WritePacket, SigPlaces, WritePlaces, Places,
     CallPlaces, SwapPlaces, ExitPlaces
<1>5. ASSUME NEW from,
             NEW to \in {"end_close", "fail_close", "x_close", "exit_close"},
             EndCtx(t, from, to)
      PROVE  FollowOK(t)'
  BY <1>3, <1>5 DEF EndCtx, SigPlaces, WritePlaces, Places, CallPlaces,
     TickPlaces, ExitPlaces
<1>6. ASSUME NEW from, EndClose(t, from) PROVE FollowOK(t)'
  BY <1>6, FollowMove DEF EndClose
<1>7. CASE GLProlog(t) \/ SwapProlog(t)
  <2>1. /\ pc'[t] \in {"gl_driver", "sw_driver"} /\ Place(t)' = pc'[t]
        /\ file' = file
    BY <1>7 DEF GLProlog, SwapProlog, SigPlaces
  <2>2. CASE opened
    <3>1. ser'[t] = [inBegin |-> TRUE, counter |-> callCounter + 1]
      BY <1>7, <2>2 DEF GLProlog, SwapProlog, Begin
    <3>. QED
      BY <1>2, <2>1, <3>1 DEF FollowOK
  <2>3. CASE ~opened
    BY <2>1, <2>3, FollowMove
  <2>. QED
    BY <2>2, <2>3
<1>8. CASE MCProlog(t) \/ ExitCall(t)
  BY <1>3, <1>8 DEF MCProlog, ExitCall, SigPlaces, WritePlaces, Places,
     CallPlaces, MCPlaces, ExitPlaces
<1>9. CASE GLDriver(t)
  <2>1. CASE ser[t].inBegin /\ opened
    <3>1. /\ pc[t] = "gl_driver" /\ file' = file /\ ser'[t].counter = ser[t].counter
          /\ pc'[t] = "gl_write"
      BY <1>9, <2>1 DEF GLDriver, End
    <3>2. Place(t) = "gl_driver"
      BY <3>1 DEF Place, SigPlaces
    <3>. QED
      BY <2>1, <3>1, <3>2 DEF FollowOK, Writes
  <2>2. CASE ~(ser[t].inBegin /\ opened)
    BY <1>3, <1>9, <2>2 DEF GLDriver, SigPlaces, WritePlaces, Places, CallPlaces
  <2>. QED
    BY <2>1, <2>2
<1>10. CASE SwapDriver(t)
  <2>1. CASE opened
    <3>1. /\ pc[t] = "sw_driver" /\ file' = file /\ ser'[t].counter = ser[t].counter
          /\ pc'[t] = "sw_write"
      BY <1>10, <2>1 DEF SwapDriver, End
    <3>2. Place(t) = "sw_driver"
      BY <3>1 DEF Place, SigPlaces
    <3>3. CASE ser[t].inBegin
      BY <3>1, <3>2, <3>3 DEF FollowOK, Writes
    <3>4. CASE ~ser[t].inBegin
      <4>1. ~Recorded(t)
        BY <3>1, <3>4 DEF FollowOK
      <4>. QED
        BY <3>1, <4>1 DEF FollowOK, Recorded
    <3>. QED
      BY <3>3, <3>4
  <2>2. CASE ~opened
    BY <1>3, <1>10, <2>2 DEF SwapDriver, SigPlaces, WritePlaces, Places,
       CallPlaces, SwapPlaces
  <2>. QED
    BY <2>1, <2>2
<1>11. CASE MCRelease(t) \/ MCDriver(t) \/ MCBook(t)
  BY <1>3, <1>11 DEF MCRelease, MCDriver, MCBook, SigPlaces, WritePlaces, Places,
     CallPlaces, MCPlaces
<1>12. CASE MCEnd(t)
  <2>1. CASE opened
    <3>1. /\ file' = file /\ ser'[t].counter = callCounter + 1
          /\ pc'[t] = "mc_write"
      BY <1>12, <2>1 DEF MCEnd
    <3>. QED
      BY <1>2, <3>1 DEF FollowOK
  <2>2. CASE ~opened
    BY <1>3, <1>12, <2>2 DEF MCEnd, SigPlaces, WritePlaces, Places, CallPlaces
  <2>. QED
    BY <2>1, <2>2
<1>13. CASE GLWrite(t) \/ MCWrite(t) \/ SwapWrite(t)
  BY <1>4, <1>13 DEF GLWrite, MCWrite, SwapWrite
<1>14. CASE \/ Tick(t) \/ SnapshotBegin(t) \/ SnapshotFails(t)
            \/ SnapshotEnd(t) \/ OpenTrace(t) \/ WriteSnapshot(t)
  <2>1. \E to \in {"end_ctx", "idle", "sw_return", "snap"} \union TickPlaces :
           Goto(t, to)
    BY <1>14 DEF Tick, SnapshotBegin, SnapshotFails, SnapshotEnd, OpenTrace,
       WriteSnapshot, SwapReturn, TickPlaces
  <2>. QED
    BY <1>3, <2>1 DEF SigPlaces, WritePlaces, Places, CallPlaces, SwapPlaces,
       TickPlaces
<1>15. CASE TickEndCtx(t) \/ TickEndClose(t) \/ ExitAfterFrames(t) \/ ExitEnd(t)
  BY <1>5, <1>6, <1>15 DEF TickEndCtx, TickEndClose, ExitAfterFrames, ExitEnd
<1>16. CASE SwapExit(t) \/ ExitLock(t) \/ ExitOnce(t)
  BY <1>3, <1>16 DEF SwapExit, ExitLock, ExitOnce, SigPlaces, WritePlaces,
     Places, CallPlaces, ExitPlaces
<1>17. CASE Terminate(t)
  <2>1. UNCHANGED <<pc, interrupted, ser, file>>
    BY <1>17 DEF Terminate
  <2>. QED
    BY <2>1 DEF FollowOK, Writes, Recorded, Place
<1>18. CASE Signal(t)
  <2>1. /\ pc'[t] = "sig_ctx" /\ Place(t) = pc[t] /\ Place(t)' = pc[t]
        /\ UNCHANGED <<ser, file>>
    BY <1>18 DEF Signal, Place, SigPlaces, CallPlaces, GLPlaces, MCPlaces,
       SwapPlaces, TickPlaces
  <2>. QED
    BY <2>1 DEF FollowOK, Writes
<1>19. CASE SigCtx(t)
  <2>1. /\ pc[t] = "sig_ctx" /\ Place(t)' = Place(t) /\ file' = file
        /\ Place(t) = interrupted[t]
    BY <1>19 DEF SigCtx, Place, SigPlaces
  <2>2. CASE pc'[t] = "sig_write"
    <3>1. /\ Place(t) = "gl_driver" /\ ser[t].inBegin
          /\ ser'[t].counter = ser[t].counter
      BY <1>19, <2>1, <2>2 DEF SigCtx, End
    <3>. QED
      BY <2>1, <2>2, <3>1 DEF FollowOK, Writes
  <2>3. CASE pc'[t] = "sig_close" /\ UNCHANGED ser
    BY <2>1, <2>3 DEF FollowOK, Writes
  <2>. QED
    BY <1>19, <2>2, <2>3 DEF SigCtx
<1>20. CASE SigWrite(t)
  <2>1. /\ pc[t] = "sig_write" /\ ser'[t].inBegin = FALSE
        /\ UNCHANGED interrupted /\ interrupted[t] = "gl_driver"
        /\ pc'[t] \in {"sig_close", "exit_once"}
    BY <1>20, OwnLocks DEF SigWrite, WritePacket, Discard, NoPacket
  <2>2. Place(t)' \in {"gl_driver", "exit_once"}
    BY <2>1 DEF Place
  <2>. QED
    BY <2>1, <2>2, FollowMove DEF WritePlaces
<1>21. CASE SigClose(t)
  BY <1>6, <1>21 DEF SigClose
<1>. QED
  BY <1>7, <1>8, <1>9, <1>10, <1>11, <1>12, <1>13, <1>14, <1>15, <1>16, <1>17,
     <1>18, <1>19, <1>20, <1>21 DEF Enter, Continue

\* The invariant of the calls that follow is inductive.
LEMMA FollowNext == FollowInv /\ [Next]_vars => FollowInv'
<1>. SUFFICES ASSUME FollowInv, [Next]_vars
              PROVE  (\A t \in Threads : FollowOK(t))' /\ NotAhead' /\ InOrder'
  BY StaleNext DEF FollowInv
<1>1. CASE UNCHANGED <<file, callCounter, ser, pc, interrupted>>
  BY <1>1 DEF FollowInv, FollowOK, Writes, Recorded, NotAhead, InOrder
<1>2. CASE Controller
  BY <1>1, <1>2 DEF Controller, CaptureOnNextSwap, StopCapturing,
                    StopCapturingWithCallback, AcceptStop
<1>3. ASSUME NEW t \in Threads, Enter(t) \/ Continue(t) \/ Signal(t)
      PROVE  (\A s \in Threads : FollowOK(s))' /\ NotAhead' /\ InOrder'
  BY <1>3, AheadStep, OrderStep, FollowOwn, FollowOthers
<1>. QED
  BY <1>1, <1>2, <1>3 DEF Next, vars

\* The invariant of the calls that follow holds initially.
LEMMA FollowInit == Init => FollowInv
<1>. SUFFICES ASSUME Init
              PROVE  (\A t \in Threads : FollowOK(t)) /\ NotAhead /\ InOrder
  BY StaleInit DEF FollowInv
<1>. QED
  BY DEF Init, FollowOK, Writes, Recorded, NotAhead, InOrder, NoPacket

\* Once a call of a thread is recorded so is every later one until the trace is
\* closed, in order, whatever the other threads open and close while the thread
\* looks at the writer without a lock.
THEOREM FollowCorrect == Spec => []CallsFollow
<1>1. FollowInv => CallsFollow
  <2>. SUFFICES ASSUME FollowInv, NEW t \in Threads, Recorded(t), Unbegun(t)
                PROVE  FALSE
    BY DEF CallsFollow, FollowInv, InOrder
  <2>1. FollowOK(t) /\ TypeOK /\ StaleInv
    BY DEF FollowInv, StaleInv, LockInv
  <2>2. pc[t] = "sw_write" /\ ser[t].counter = 0
    BY <2>1 DEF FollowOK, Unbegun
  <2>3. Writes(t)
    BY <2>2 DEF Writes, WritePlaces, Place, SigPlaces
  <2>4. PICK i \in DOMAIN file : file[i].thread = t
    BY DEF Recorded
  <2>5. file[i].counter < 0 /\ file[i].counter \in Nat
    BY <2>1, <2>2, <2>3, <2>4, AppendFacts DEF FollowOK
  <2>. QED
    BY <2>5
<1>. QED
  BY FollowInit, FollowNext, <1>1, PTL DEF Spec

-----------------------------------------------------------------------------
(* A capture has frames left until it closes.                                *)

\* The request for a session is used up before the session exists: none is
\* pending while a trace is open or a tick under way.
NonePending ==
  opened \/ (\E t \in Threads : Place(t) \in TickPlaces) => total = 0

\* The session starts with the frames it was asked for, and while no tick is
\* under way an open trace that was asked for frames has some left.
EndsOK ==
  /\ \A t \in Threads : Place(t) \in SnapPlaces => want = 0 \/ remaining = want
  /\ opened /\ want # 0 /\ (\A t \in Threads : Place(t) \notin TickPlaces)
       => remaining # 0

SessionInv == FrameInv /\ FileOK /\ NonePending /\ EndsOK

\* A tick starts with every other thread outside of the tick.
LEMMA TickAlone ==
  ASSUME LockInv, NEW t \in Threads, Tick(t)
  PROVE  /\ \A s \in Threads : Place(s) \notin TickPlaces
         /\ Place(t) = "sw_tick" /\ pc[t] = "sw_tick"
         /\ Place(t)' = pc'[t]
         /\ \A s \in Threads \ {t} : Place(s)' = Place(s)
<1>1. pc[t] = "sw_tick" /\ Place(t) = "sw_tick" /\ CanLockTrace(t)
  BY DEF Tick
<1>2. Place(t)' = pc'[t]
  BY PcType DEF Tick, SwapReturn
<1>. QED
  BY <1>1, <1>2, OneTick, OwnPlace DEF Continue

\* What a tick makes of the frame count: nothing was pending if a trace is open,
\* and nothing was left if none is.
LEMMA TickCount ==
  ASSUME SessionInv, NEW t \in Threads, Tick(t)
  PROVE  /\ opened => Pending = FALSE
         /\ ~opened => remaining = 0 /\ remaining' = total /\ total' = 0
         /\ opened => IF ~Ending /\ FrameDone(remaining)
                      THEN remaining' = remaining - 1
                      ELSE remaining' = remaining
<1>1. LockInv /\ NoFramesLeft /\ NonePending
  BY DEF SessionInv, FrameInv
<1>2. ~opened => remaining = 0
  BY <1>1, TickAlone DEF NoFramesLeft
<1>3. opened => total = 0
  BY <1>1 DEF NonePending
<1>4. total \in {0} \union Frames
  BY <1>1 DEF LockInv, TypeOK
<1>. QED
  BY <1>2, <1>3, <1>4 DEF Tick, Pending, FrameDone

\* Where a tick goes.
LEMMA TickGoes ==
  ASSUME SessionInv, NEW t \in Threads, Tick(t)
  PROVE  /\ Place(t)' \in {"snap", "end_ctx", SwapReturn}
         /\ Place(t)' = "snap" => ~opened /\ want' = remaining' /\ total # 0
         /\ Place(t)' # "snap" => want' = want
         /\ Place(t)' = SwapReturn /\ opened =>
              ~Ending /\ (remaining # 0 => remaining' # 0)
         /\ Ending => Place(t)' = "end_ctx"
<1>1. LockInv
  BY DEF SessionInv, FrameInv
<1>2. Place(t)' = pc'[t]
  BY <1>1, TickAlone
<1>3. SwapReturn \notin {"snap", "end_ctx"}
  BY DEF SwapReturn
<1>4. pc \in [Threads -> Places]
  BY <1>1, PcType
<1>. HIDE DEF SwapReturn
<1>. QED
  BY <1>2, <1>3, <1>4, TickCount DEF Tick, Ending, FrameDone, LastFrame, Pending

\* No step leaves a request pending for a session that is under way.
LEMMA PendingStep ==
  ASSUME SessionInv, NEW t \in Threads, Enter(t) \/ Continue(t) \/ Signal(t)
  PROVE  NonePending'
<1>1. LockInv /\ NonePending /\ FileOK
  BY DEF SessionInv, FrameInv
<1>2. CASE Tick(t)
  <2>1. total' = 0
    BY <1>1, <1>2, TickCount DEF Tick, Pending, NonePending
  <2>. QED
    BY <2>1 DEF NonePending
<1>3. CASE ~Tick(t)
  <2>1. total' = total
    BY <1>1, <1>3, StepKinds DEF SessionStep, QuietStep, CloseStep, RecordStep,
       SwapStep, BareSwapStep, SnapStep, EndStep, OpenTrace, WriteSnapshot, capture
  <2>2. SessionStep(t)
    BY <1>1, StepKinds
  <2>3. opened' => opened \/ Place(t) \in TickPlaces
    BY <1>3, <2>2 DEF SessionStep, QuietStep, CloseStep, RecordStep, SwapStep,
       BareSwapStep, SnapStep, EndStep, OpenTrace, WriteSnapshot, capture
  <2>4. ASSUME NEW s \in Threads, Place(s)' \in TickPlaces
        PROVE  opened \/ \E u \in Threads : Place(u) \in TickPlaces
    <3>1. CASE s = t
      <4>1. CASE OpenTrace(t) \/ WriteSnapshot(t)
        BY <4>1 DEF OpenTrace, WriteSnapshot
      <4>. QED
        BY <1>3, <2>2, <2>4, <3>1, <4>1 DEF SessionStep, QuietStep, CloseStep,
           RecordStep, SwapStep, BareSwapStep, SnapStep, EndStep, StaysOut,
           BusyPlaces
    <3>2. CASE s # t
      BY <1>1, <2>4, <3>2, OwnPlace
    <3>. QED
      BY <3>1, <3>2
  <2>. QED
    BY <1>1, <2>1, <2>3, <2>4 DEF NonePending
<1>. QED
  BY <1>2, <1>3

\* A tick takes up the frames asked for, and leaves an open trace only with
\* frames left.
LEMMA TickEnds ==
  ASSUME SessionInv, NEW t \in Threads, Tick(t)
  PROVE  EndsOK'
<1>1. LockInv /\ EndsOK
  BY DEF SessionInv, FrameInv
<1>2. /\ \A s \in Threads : Place(s) \notin TickPlaces
      /\ \A s \in Threads \ {t} : Place(s)' = Place(s)
  BY <1>1, TickAlone
<1>3. opened' = opened
  BY DEF Tick
<1>4. ASSUME NEW s \in Threads, Place(s)' \in SnapPlaces
      PROVE  remaining' = want'
  <2>1. s = t
    BY <1>2, <1>4 DEF SnapPlaces
  <2>2. Place(t)' = "snap"
    BY <1>4, <2>1, TickGoes DEF SnapPlaces, SwapReturn
  <2>. QED
    BY <2>2, TickGoes
<1>5. ASSUME opened, want' # 0, Place(t)' = SwapReturn PROVE remaining' # 0
  <2>1. want # 0
    BY <1>5, TickGoes DEF SwapReturn
  <2>2. remaining # 0
    BY <1>1, <1>2, <1>5, <2>1 DEF EndsOK
  <2>. QED
    BY <1>5, <2>2, TickGoes
<1>6. Place(t)' \notin TickPlaces => Place(t)' = SwapReturn
  BY TickGoes
<1>. QED
  BY <1>3, <1>4, <1>5, <1>6 DEF EndsOK

\* No step takes the last frame from a trace without ending its capture.
LEMMA EndsStep ==
  ASSUME SessionInv, NEW t \in Threads, Enter(t) \/ Continue(t) \/ Signal(t)
  PROVE  EndsOK'
<1>1. LockInv /\ EndsOK /\ FileOK /\ SessionStep(t)
  BY StepKinds DEF SessionInv, FrameInv
<1>2. \A s \in Threads \ {t} : Place(s)' = Place(s)
  BY <1>1, OwnPlace
<1>3. ASSUME UNCHANGED <<opened, remaining, want>>,
             Place(t)' \in SnapPlaces => Place(t) \in SnapPlaces,
             \/ Place(t) \in TickPlaces => Place(t)' \in TickPlaces
             \/ ~opened
      PROVE  EndsOK'
  BY <1>1, <1>2, <1>3 DEF EndsOK
<1>. USE DEF capture, SnapPlaces
<1>4. CASE QuietStep(t)
  BY <1>3, <1>4 DEF QuietStep, StaysOut, BusyPlaces
<1>5. CASE CloseStep(t)
  BY <1>5 DEF CloseStep, EndsOK
<1>6. CASE RecordStep(t)
  BY <1>3, <1>6 DEF RecordStep, StaysOut, BusyPlaces
<1>7. CASE SwapStep(t) \/ BareSwapStep(t)
  BY <1>3, <1>7 DEF SwapStep, BareSwapStep, BusyPlaces
<1>8. CASE SnapStep(t) \/ EndStep(t)
  BY <1>3, <1>8 DEF SnapStep, EndStep
<1>9. CASE Tick(t)
  BY <1>9, TickEnds
<1>10. CASE OpenTrace(t)
  <2>1. /\ Place(t) = "snap_open" /\ Place(t)' \in {"snap_write", "fail_ctx"}
        /\ UNCHANGED <<remaining, want>>
    BY <1>1, <1>10, PcType DEF OpenTrace
  <2>. QED
    BY <1>1, <1>2, <2>1 DEF EndsOK
<1>11. CASE WriteSnapshot(t)
  <2>1. /\ Place(t) = "snap_write" /\ Place(t)' \in {"fail_ctx", SwapReturn}
        /\ UNCHANGED <<opened, remaining, want>>
    BY <1>1, <1>11, PcType DEF WriteSnapshot, SwapReturn
  <2>2. want = 0 \/ remaining = want
    BY <1>1, <2>1 DEF EndsOK
  <2>3. \A s \in Threads : Place(s)' \notin SnapPlaces
    BY <1>1, <1>2, <2>1, OneTick DEF SwapReturn
  <2>. QED
    BY <2>1, <2>2, <2>3 DEF EndsOK
<1>. QED
  BY <1>1, <1>4, <1>5, <1>6, <1>7, <1>8, <1>9, <1>10, <1>11 DEF SessionStep

\* A request is accepted only while no trace is open and no tick under way.
LEMMA ControllerSession ==
  ASSUME SessionInv, Controller
  PROVE  NonePending' /\ EndsOK'
<1>1. LockInv /\ NonePending /\ EndsOK
  BY DEF SessionInv, FrameInv
<1>2. UNCHANGED <<opened, remaining, want, pc, interrupted>>
  BY DEF Controller, CaptureOnNextSwap, StopCapturing, StopCapturingWithCallback,
         AcceptStop
<1>3. UNCHANGED total \/ (~opened /\ traceOwner = NoThread)
  BY DEF Controller, CaptureOnNextSwap, MayCapture, StopCapturing,
         StopCapturingWithCallback, AcceptStop
<1>4. ASSUME traceOwner = NoThread, NEW t \in Threads
      PROVE  Place(t) \notin TickPlaces
  BY <1>1, <1>4, OwnLocks, PcType DEF LocksMatch
<1>. QED
  BY <1>1, <1>2, <1>3, <1>4 DEF NonePending, EndsOK

\* The invariant of the session is inductive, beside that of the packets.
LEMMA SessionNext == StaleInv /\ SessionInv /\ [Next]_vars => SessionInv'
<1>. SUFFICES ASSUME StaleInv, SessionInv, [Next]_vars
              PROVE  NonePending' /\ EndsOK'
  BY FrameNext, StaleNext DEF SessionInv, StaleInv
<1>1. CASE UNCHANGED <<total, opened, remaining, want, pc, interrupted>>
  BY <1>1 DEF SessionInv, NonePending, EndsOK
<1>2. CASE Controller
  BY <1>2, ControllerSession
<1>3. ASSUME NEW t \in Threads, Enter(t) \/ Continue(t) \/ Signal(t)
      PROVE  NonePending' /\ EndsOK'
  BY <1>3, PendingStep, EndsStep
<1>. QED
  BY <1>1, <1>2, <1>3 DEF Next, vars

\* The invariant of the session holds initially.
LEMMA SessionInit == Init => SessionInv
<1>. SUFFICES ASSUME Init PROVE FileOK /\ NonePending /\ EndsOK
  BY FrameInit DEF SessionInv
<1>. QED
  BY DEF Init, FileOK, NonePending, EndsOK, SnapPlaces

\* A trace that a capture opened never stays open without frames left: it closes
\* itself, whatever the interleaving of ticks, stops, signals and failures.
THEOREM EndsCorrect == Spec => []CaptureEnds
<1>1. SessionInv => CaptureEnds
  <2>. SUFFICES ASSUME SessionInv, traceOwner = NoThread, opened, want # 0
                PROVE  remaining # 0
    BY DEF CaptureEnds
  <2>1. LockInv /\ EndsOK
    BY DEF SessionInv, FrameInv
  <2>2. \A t \in Threads : Place(t) \notin TickPlaces
    BY <2>1, OwnLocks, PcType DEF LocksMatch
  <2>. QED
    BY <2>1, <2>2 DEF EndsOK
<1>. QED
  BY StaleInit, StaleNext, SessionInit, SessionNext, <1>1, PTL DEF Spec

-----------------------------------------------------------------------------
(* The frames of a trace, counted.                                           *)

\* The threads whose swap is over and whose tick has not begun: the packets of
\* their frames are in the file and not yet counted.
Waiting == {t \in Threads : Place(t) = "sw_tick"}

\* A tick is ending the capture; it has counted its own frame unless a stop
\* made it end with frames left.
InEnd == \E u \in Threads : Place(u) \in EndPlaces

Stopped == IF remaining # 0 /\ InEnd THEN 1 ELSE 0

\* The frames in the file and those still to come are the frames asked for,
\* and at most one more for each thread about to tick and for the tick that
\* a stop turned into the last.
CountOK ==
  opened /\ want \in 1..MaxFrames =>
    /\ remaining <= want
    /\ Cardinality(Swaps) + remaining <= want + Cardinality(Waiting) + Stopped

Late == {i \in Swaps : i >= stopMark}

\* Once a stop was accepted the next tick ends the capture, and the frames that
\* came into the file since are those of threads about to tick, or of the one
\* that ends it, each at most once.
StopSeen == stop \/ InEnd

LatePlaced ==
  \A i \in Late, t \in Threads :
    file[i].thread = t => Place(t) \in EndPlaces \union {"sw_tick"}

LateOnce == \A i, j \in Late : file[i].thread = file[j].thread => i = j

StopOK == opened /\ stopMark # 0 => StopSeen /\ LatePlaced /\ LateOnce

\* The sets that are counted are finite.
LEMMA CountFacts ==
  ASSUME TypeOK
  PROVE  /\ IsFiniteSet(Swaps) /\ Cardinality(Swaps) \in Nat
         /\ IsFiniteSet(Waiting) /\ Cardinality(Waiting) \in Nat
         /\ Cardinality(Waiting) <= Cardinality(Threads)
         /\ Cardinality(Threads) \in Nat
         /\ remaining \in Nat /\ want \in Nat /\ MaxFrames \in Nat
         /\ UINT32_MAX \in Nat /\ UINT32_MAX > MaxFrames
         /\ Stopped \in {0, 1}
<1>1. file \in Seq(Packets)
  BY DEF TypeOK
<1>2. Len(file) \in Nat /\ DOMAIN file = 1..Len(file)
  BY <1>1
<1>3. IsFiniteSet(1..Len(file))
  BY <1>2, FS_Interval
<1>4. Swaps \subseteq 1..Len(file)
  BY <1>2 DEF Swaps
<1>5. Waiting \subseteq Threads /\ IsFiniteSet(Threads)
  BY CaptureAssumption DEF Waiting
<1>6. IsFiniteSet(Swaps)
  BY <1>3, <1>4, FS_Subset
<1>7. IsFiniteSet(Waiting) /\ Cardinality(Waiting) <= Cardinality(Threads)
  BY <1>5, FS_Subset
<1>8. Cardinality(Swaps) \in Nat /\ Cardinality(Waiting) \in Nat
      /\ Cardinality(Threads) \in Nat
  BY <1>5, <1>6, <1>7, FS_CardinalityType
<1>9. remaining \in Nat /\ want \in Nat
  BY CaptureAssumption DEF TypeOK, Frames
<1>. QED
  BY <1>6, <1>7, <1>8, <1>9, CaptureAssumption DEF Stopped

\* The same after a step.
LEMMA CountFactsNext ==
  TypeOK' => (Cardinality(Waiting) \in Nat /\ Stopped \in {0, 1})'
<1>1. TypeOK => Cardinality(Waiting) \in Nat /\ Stopped \in {0, 1}
  BY CountFacts
<1>. QED
  BY <1>1, PTL

\* A packet more in the file is one frame more if it is a swap's.
LEMMA AppendSwaps ==
  ASSUME TypeOK, NEW t, NEW kind, file' = Append(file, Packet(t, kind))
  PROVE  /\ Len(file) \in Nat /\ DOMAIN file' = DOMAIN file \union {Len(file) + 1}
         /\ Len(file) + 1 \notin DOMAIN file
         /\ \A i \in DOMAIN file : file'[i] = file[i]
         /\ file'[Len(file) + 1] = Packet(t, kind)
         /\ kind # "swap" => Swaps' = Swaps
         /\ kind = "swap" => Swaps' = Swaps \union {Len(file) + 1}
<1>1. file \in Seq(Packets)
  BY DEF TypeOK
<1>2. /\ Len(file) \in Nat /\ DOMAIN file = 1..Len(file)
      /\ DOMAIN file' = 1..Len(file) + 1
  BY <1>1
<1>3. /\ DOMAIN file' = DOMAIN file \union {Len(file) + 1}
      /\ Len(file) + 1 \notin DOMAIN file
  BY <1>2
<1>4. /\ \A i \in DOMAIN file : file'[i] = file[i]
      /\ file'[Len(file) + 1] = Packet(t, kind)
  BY <1>1, <1>2
<1>5. Packet(t, kind).kind = kind
  BY DEF Packet
<1>. QED
  BY <1>2, <1>3, <1>4, <1>5 DEF Swaps

\* A step that writes no frame, counts none and starts or ends no tick.
LEMMA CountSame ==
  ASSUME TypeOK, CountOK, NEW t \in Threads,
         \A s \in Threads \ {t} : Place(s)' = Place(s),
         UNCHANGED <<opened, remaining, want>>, Swaps' = Swaps,
         Place(t)' = "sw_tick" <=> Place(t) = "sw_tick",
         Place(t)' \in EndPlaces <=> Place(t) \in EndPlaces
  PROVE  CountOK'
<1>1. Waiting' = Waiting
  BY DEF Waiting
<1>2. Stopped' = Stopped
  BY DEF Stopped, InEnd
<1>. QED
  BY <1>1, <1>2 DEF CountOK

\* A tick counts the frame it follows, unless a stop makes it the last.
LEMMA CountTick ==
  ASSUME StaleInv, SessionInv, CountOK, NEW t \in Threads, Tick(t)
  PROVE  CountOK'
<1>1. TypeOK /\ LockInv /\ EndsOK
  BY DEF SessionInv, FrameInv, LockInv
<1>2. /\ \A s \in Threads : Place(s) \notin TickPlaces
      /\ Place(t) = "sw_tick"
      /\ \A s \in Threads \ {t} : Place(s)' = Place(s)
  BY <1>1, TickAlone
<1>3. UNCHANGED <<opened, file>>
  BY DEF Tick
<1>. SUFFICES ASSUME opened, want' \in 1..MaxFrames
              PROVE  /\ remaining' <= want'
                     /\ Cardinality(Swaps') + remaining'
                          <= want' + Cardinality(Waiting') + Stopped'
  BY <1>3 DEF CountOK
<1>4. Place(t)' \in {"end_ctx", SwapReturn} /\ want' = want
  BY TickGoes
<1>5. Waiting' = Waiting \ {t} /\ t \in Waiting
  BY <1>2, <1>4 DEF Waiting, SwapReturn
<1>6. Cardinality(Waiting') = Cardinality(Waiting) - 1
  BY <1>1, <1>5, CountFacts, FS_RemoveElement
<1>7. Swaps' = Swaps
  BY <1>3 DEF Swaps
<1>8. Stopped = 0
  BY <1>2 DEF Stopped, InEnd, EndPlaces
<1>9. remaining # 0 /\ remaining <= want
  BY <1>1, <1>2, <1>4 DEF EndsOK, CountOK
<1>10. FrameDone(remaining)
  BY <1>1, <1>4, <1>9, CountFacts DEF FrameDone
<1>11. Cardinality(Swaps) + remaining <= want + Cardinality(Waiting)
  BY <1>1, <1>4, <1>8, CountFacts DEF CountOK
<1>12. Stopped' \in {0, 1}
  BY DEF Stopped
<1>13. CASE Ending
  <2>1. remaining' = remaining /\ Place(t)' = "end_ctx"
    BY <1>13, TickCount, TickGoes
  <2>2. Stopped' = 1
    BY <1>9, <2>1 DEF Stopped, InEnd, EndPlaces
  <2>. QED
    BY <1>1, <1>4, <1>6, <1>7, <1>9, <1>11, <2>1, <2>2, CountFacts
<1>14. CASE ~Ending
  <2>1. remaining' = remaining - 1
    BY <1>10, <1>14, TickCount
  <2>. QED
    BY <1>1, <1>4, <1>6, <1>7, <1>9, <1>11, <1>12, <2>1, CountFacts
<1>. QED
  BY <1>13, <1>14

\* The count of the frames, and of those still to come, holds at every step.
LEMMA CountStep ==
  ASSUME StaleInv, SessionInv, CountOK, NEW t \in Threads,
         Enter(t) \/ Continue(t) \/ Signal(t)
  PROVE  CountOK'
<1>1. TypeOK /\ LockInv /\ EndsOK /\ FileOK /\ SessionStep(t)
  BY StepKinds DEF SessionInv, FrameInv, LockInv
<1>2. \A s \in Threads \ {t} : Place(s)' = Place(s)
  BY <1>1, OwnPlace
<1>3. file' = file => Swaps' = Swaps
  BY DEF Swaps
<1>. USE DEF capture
<1>4. CASE QuietStep(t)
  <2>1. UNCHANGED <<opened, remaining, want, file>>
    BY <1>4 DEF QuietStep
  <2>2. /\ Place(t)' = "sw_tick" <=> Place(t) = "sw_tick"
        /\ Place(t)' \in EndPlaces <=> Place(t) \in EndPlaces
    BY <1>4 DEF QuietStep, StaysOut, BusyPlaces, EndPlaces
  <2>. QED
    BY <1>1, <1>2, <1>3, <2>1, <2>2, CountSame
<1>5. CASE CloseStep(t) \/ BareSwapStep(t)
  BY <1>5 DEF CloseStep, BareSwapStep, CountOK
<1>6. CASE RecordStep(t)
  <2>1. UNCHANGED <<opened, remaining, want>> /\ Swaps' = Swaps
    BY <1>1, <1>6, AppendSwaps DEF RecordStep
  <2>2. /\ Place(t)' = "sw_tick" <=> Place(t) = "sw_tick"
        /\ Place(t)' \in EndPlaces <=> Place(t) \in EndPlaces
    BY <1>6 DEF RecordStep, StaysOut, BusyPlaces, EndPlaces
  <2>. QED
    BY <1>1, <1>2, <2>1, <2>2, CountSame
<1>7. CASE SwapStep(t)
  <2>1. /\ UNCHANGED <<opened, remaining, want>>
        /\ Place(t) = "sw_write" /\ Place(t)' = "sw_tick"
        /\ Swaps' = Swaps \union {Len(file) + 1} /\ Len(file) + 1 \notin DOMAIN file
    BY <1>1, <1>7, AppendSwaps DEF SwapStep
  <2>2. Waiting' = Waiting \union {t} /\ t \notin Waiting
    BY <1>2, <2>1 DEF Waiting
  <2>3. Cardinality(Waiting') = Cardinality(Waiting) + 1
    BY <1>1, <2>2, CountFacts, FS_AddElement
  <2>4. Len(file) + 1 \notin Swaps
    BY <2>1 DEF Swaps
  <2>5. Cardinality(Swaps') = Cardinality(Swaps) + 1
    BY <1>1, <2>1, <2>4, CountFacts, FS_AddElement
  <2>6. Stopped' = Stopped
    BY <1>2, <2>1 DEF Stopped, InEnd, EndPlaces
  <2>. QED
    BY <1>1, <2>1, <2>3, <2>5, <2>6, CountFacts DEF CountOK
<1>8. CASE SnapStep(t)
  BY <1>1, <1>8 DEF SnapStep, FileOK, CountOK
<1>9. CASE EndStep(t)
  <2>1. UNCHANGED <<opened, remaining, want, file>>
    BY <1>9 DEF EndStep
  <2>2. /\ Place(t)' = "sw_tick" <=> Place(t) = "sw_tick"
        /\ Place(t)' \in EndPlaces <=> Place(t) \in EndPlaces
    BY <1>9 DEF EndStep, EndPlaces
  <2>. QED
    BY <1>1, <1>2, <1>3, <2>1, <2>2, CountSame
<1>10. CASE Tick(t)
  BY <1>10, CountTick
<1>11. CASE OpenTrace(t)
  <2>1. UNCHANGED <<remaining, want>> /\ file' = <<>> /\ Place(t) = "snap_open"
    BY <1>1, <1>11, PcType DEF OpenTrace
  <2>2. want = 0 \/ remaining = want
    BY <1>1, <2>1 DEF EndsOK, SnapPlaces
  <2>3. Swaps' = {}
    BY <2>1 DEF Swaps
  <2>4. Cardinality(Swaps') = 0
    BY <2>3, FS_EmptySet
  <2>5. TypeOK'
    BY <1>11, SessionType, <1>1
  <2>6. Cardinality(Waiting') \in Nat /\ Stopped' \in {0, 1}
    BY <2>5, CountFactsNext
  <2>7. want' \in 1..MaxFrames => remaining' = want' /\ want' \in Nat
    BY <2>1, <2>2
  <2>. QED
    BY <2>4, <2>6, <2>7 DEF CountOK
<1>12. CASE WriteSnapshot(t)
  <2>1. /\ Place(t) = "snap_write" /\ Place(t)' \in {"fail_ctx", SwapReturn}
        /\ UNCHANGED <<opened, remaining, want, file>>
    BY <1>1, <1>12, PcType DEF WriteSnapshot, SwapReturn
  <2>2. /\ Place(t)' = "sw_tick" <=> Place(t) = "sw_tick"
        /\ Place(t)' \in EndPlaces <=> Place(t) \in EndPlaces
    BY <2>1 DEF EndPlaces, SwapReturn
  <2>. QED
    BY <1>1, <1>2, <1>3, <2>1, <2>2, CountSame
<1>. QED
  BY <1>1, <1>4, <1>5, <1>6, <1>7, <1>8, <1>9, <1>10, <1>11, <1>12
     DEF SessionStep

\* A step that writes no frame and keeps the late frames' threads in place.
LEMMA StopSame ==
  ASSUME StopOK, NEW t \in Threads,
         \A s \in Threads \ {t} : Place(s)' = Place(s),
         UNCHANGED <<opened, stop, stopMark>>, Swaps' = Swaps,
         \A i \in Swaps : file'[i] = file[i],
         Place(t) \in EndPlaces
           => Place(t)' \in EndPlaces,
         Place(t) = "sw_tick" => Place(t)' = Place(t)
  PROVE  StopOK'
<1>. SUFFICES ASSUME opened, stopMark # 0
              PROVE  StopSeen' /\ LatePlaced' /\ LateOnce'
  BY DEF StopOK
<1>1. Late' = Late /\ Late \subseteq Swaps
  BY DEF Late
<1>2. \A u \in Threads : Place(u) \in EndPlaces => Place(u)' \in EndPlaces
  OBVIOUS
<1>3. StopSeen'
  BY <1>2 DEF StopOK, StopSeen, InEnd
<1>4. \A u \in Threads : Place(u) = "sw_tick" => Place(u)' = "sw_tick"
  OBVIOUS
<1>5. \A i \in Late : file'[i] = file[i]
  BY <1>1
<1>6. LatePlaced'
  BY <1>1, <1>2, <1>4, <1>5 DEF StopOK, LatePlaced
<1>7. LateOnce'
  BY <1>1, <1>5 DEF StopOK, LateOnce
<1>. QED
  BY <1>3, <1>6, <1>7

\* The swaps after a stop: one for each thread, which is then about to tick.
LEMMA StopSwap ==
  ASSUME StaleInv, StopOK, NEW t \in Threads, SwapStep(t),
         \A s \in Threads \ {t} : Place(s)' = Place(s)
  PROVE  StopOK'
<1>. DEFINE new == Len(file) + 1
<1>1. TypeOK
  BY DEF StaleInv, LockInv
<1>2. /\ UNCHANGED <<opened, stop, stopMark>>
      /\ Place(t) = "sw_write" /\ Place(t)' = "sw_tick"
  BY DEF SwapStep
<1>3. /\ Swaps' = Swaps \union {new} /\ new \notin DOMAIN file
      /\ \A i \in DOMAIN file : file'[i] = file[i]
      /\ file'[new].thread = t
  BY <1>1, AppendSwaps DEF SwapStep, Packet
<1>. SUFFICES ASSUME opened, stopMark # 0
              PROVE  StopSeen' /\ LatePlaced' /\ LateOnce'
  BY <1>2 DEF StopOK
<1>4. StopSeen /\ LatePlaced /\ LateOnce
  BY DEF StopOK
<1>5. StopSeen'
  <2>1. \A u \in Threads : Place(u) \in EndPlaces => Place(u)' \in EndPlaces
    BY <1>2 DEF EndPlaces
  <2>. QED
    BY <1>2, <1>4, <2>1 DEF StopSeen, InEnd
<1>6. /\ Late' \subseteq Late \union {new}
      /\ \A i \in Late : file'[i] = file[i] /\ i # new
  BY <1>2, <1>3 DEF Late, Swaps
<1>7. \A i \in Late : file[i].thread # t
  BY <1>2, <1>4 DEF LatePlaced, EndPlaces
<1>8. LatePlaced'
  <2>1. ASSUME NEW i \in Late', NEW u \in Threads, file'[i].thread = u
        PROVE  Place(u)' \in EndPlaces \union {"sw_tick"}
    <3>1. CASE i = new
      BY <1>2, <1>3, <2>1, <3>1
    <3>2. CASE i \in Late
      <4>1. file[i].thread = u /\ u # t
        BY <1>6, <1>7, <2>1, <3>2
      <4>2. Place(u) \in EndPlaces \union {"sw_tick"}
        BY <1>4, <3>2, <4>1 DEF LatePlaced
      <4>. QED
        BY <4>1, <4>2
    <3>. QED
      BY <1>6, <3>1, <3>2
  <2>. QED
    BY <2>1 DEF LatePlaced
<1>9. LateOnce'
  <2>1. ASSUME NEW i \in Late', NEW j \in Late', file'[i].thread = file'[j].thread
        PROVE  i = j
    BY <1>3, <1>4, <1>6, <1>7, <2>1 DEF LateOnce
  <2>. QED
    BY <2>1 DEF LateOnce
<1>. QED
  BY <1>5, <1>8, <1>9

\* The tick after a stop ends the capture.
LEMMA StopTick ==
  ASSUME StaleInv, SessionInv, StopOK, NEW t \in Threads, Tick(t)
  PROVE  StopOK'
<1>1. LockInv
  BY DEF SessionInv, FrameInv
<1>2. /\ \A s \in Threads : Place(s) \notin TickPlaces
      /\ Place(t) = "sw_tick"
      /\ \A s \in Threads \ {t} : Place(s)' = Place(s)
  BY <1>1, TickAlone
<1>3. UNCHANGED <<opened, file, stopMark>>
  BY DEF Tick
<1>. SUFFICES ASSUME opened, stopMark # 0
              PROVE  StopSeen' /\ LatePlaced' /\ LateOnce'
  BY <1>3 DEF StopOK
<1>4. stop
  BY <1>2 DEF StopOK, StopSeen, InEnd, EndPlaces
<1>5. Place(t)' = "end_ctx"
  BY <1>4, TickGoes DEF Ending
<1>6. StopSeen'
  BY <1>5 DEF StopSeen, InEnd, EndPlaces
<1>7. Late' = Late
  BY <1>3 DEF Late, Swaps
<1>8. \A u \in Threads : Place(u) \in EndPlaces \union {"sw_tick"}
                           => Place(u)' \in EndPlaces \union {"sw_tick"}
  BY <1>2, <1>5 DEF EndPlaces
<1>9. LatePlaced' /\ LateOnce'
  BY <1>3, <1>7, <1>8 DEF StopOK, LatePlaced, LateOnce
<1>. QED
  BY <1>6, <1>9

\* After a stop no thread gets a second frame into the file.
LEMMA StopStep ==
  ASSUME StaleInv, SessionInv, StopOK, NEW t \in Threads,
         Enter(t) \/ Continue(t) \/ Signal(t)
  PROVE  StopOK'
<1>1. TypeOK /\ LockInv /\ FileOK /\ SessionStep(t)
  BY StepKinds DEF SessionInv, FrameInv, LockInv
<1>2. \A s \in Threads \ {t} : Place(s)' = Place(s)
  BY <1>1, OwnPlace
<1>3. file' = file => Swaps' = Swaps
  BY DEF Swaps
<1>. USE DEF capture
<1>4. CASE QuietStep(t)
  <2>1. UNCHANGED <<opened, stop, stopMark, file>>
    BY <1>4 DEF QuietStep
  <2>2. Place(t) \in EndPlaces \union {"sw_tick"} => Place(t)' = Place(t)
    BY <1>4 DEF QuietStep, StaysOut, BusyPlaces, EndPlaces
  <2>. QED
    BY <1>2, <1>3, <2>1, <2>2, StopSame
<1>5. CASE CloseStep(t) \/ BareSwapStep(t)
  BY <1>5 DEF CloseStep, BareSwapStep, StopOK
<1>6. CASE RecordStep(t)
  <2>1. UNCHANGED <<opened, stop, stopMark>> /\ Swaps' = Swaps
        /\ \A i \in Swaps : file'[i] = file[i]
    BY <1>1, <1>6, AppendSwaps DEF RecordStep, Swaps
  <2>2. Place(t) \in EndPlaces \union {"sw_tick"} => Place(t)' = Place(t)
    BY <1>6 DEF RecordStep, StaysOut, BusyPlaces, EndPlaces
  <2>. QED
    BY <1>2, <2>1, <2>2, StopSame
<1>7. CASE SwapStep(t)
  BY <1>2, <1>7, StopSwap
<1>8. CASE SnapStep(t)
  BY <1>1, <1>8 DEF SnapStep, FileOK, StopOK
<1>9. CASE EndStep(t)
  <2>1. UNCHANGED <<opened, stop, stopMark, file>>
    BY <1>9 DEF EndStep
  <2>2. /\ Place(t) \in EndPlaces => Place(t)' \in EndPlaces
        /\ Place(t) # "sw_tick"
    BY <1>9 DEF EndStep, EndPlaces
  <2>. QED
    BY <1>2, <1>3, <2>1, <2>2, StopSame
<1>10. CASE Tick(t)
  BY <1>10, StopTick
<1>11. CASE OpenTrace(t)
  <2>1. UNCHANGED stopMark /\ Place(t) = "snap_open"
    BY <1>1, <1>11, PcType DEF OpenTrace
  <2>2. stopMark' = 0
    BY <1>1, <2>1 DEF FileOK
  <2>. QED
    BY <2>2 DEF StopOK
<1>12. CASE WriteSnapshot(t)
  <2>1. /\ Place(t) = "snap_write" /\ UNCHANGED <<opened, stop, stopMark, file>>
    BY <1>1, <1>12, PcType DEF WriteSnapshot
  <2>. QED
    BY <1>2, <1>3, <2>1, StopSame DEF EndPlaces
<1>. QED
  BY <1>1, <1>4, <1>5, <1>6, <1>7, <1>8, <1>9, <1>10, <1>11, <1>12
     DEF SessionStep

\* A stop is accepted only while a trace is open, and marks its end.
LEMMA ControllerQuota ==
  ASSUME TypeOK, CountOK, StopOK, Controller
  PROVE  CountOK' /\ StopOK'
<1>1. UNCHANGED <<opened, remaining, want, file, pc, interrupted>>
  BY DEF Controller, CaptureOnNextSwap, StopCapturing, StopCapturingWithCallback,
         AcceptStop
<1>2. CountOK'
  BY <1>1 DEF CountOK, Swaps, Waiting, Stopped, InEnd
<1>3. CASE \E n \in Frames : CaptureOnNextSwap(n)
  BY <1>2, <1>3 DEF CaptureOnNextSwap, MayCapture, StopOK
<1>4. CASE AcceptStop
  <2>1. StopSeen'
    BY <1>4 DEF AcceptStop, StopSeen
  <2>2. CASE stopMark = 0
    <3>1. stopMark' = Len(file) + 1 /\ Len(file) \in Nat
          /\ DOMAIN file = 1..Len(file)
      BY <1>4, <2>2 DEF AcceptStop, TypeOK
    <3>2. Late' = {}
      BY <1>1, <3>1 DEF Late, Swaps
    <3>. QED
      BY <1>2, <2>1, <3>2 DEF StopOK, LatePlaced, LateOnce
  <2>3. CASE stopMark # 0
    <3>1. UNCHANGED stopMark /\ opened
      BY <1>4, <2>3 DEF AcceptStop
    <3>2. Late' = Late
      BY <1>1, <3>1 DEF Late, Swaps
    <3>. QED
      BY <1>1, <1>2, <2>1, <2>3, <3>1, <3>2 DEF StopOK, LatePlaced, LateOnce
  <2>. QED
    BY <2>2, <2>3
<1>. QED
  BY <1>2, <1>3, <1>4 DEF Controller, StopCapturing, StopCapturingWithCallback

QuotaInv == StaleInv /\ SessionInv /\ CountOK /\ StopOK

\* The invariant of the counted frames is inductive.
LEMMA QuotaNext == QuotaInv /\ [Next]_vars => QuotaInv'
<1>. SUFFICES ASSUME StaleInv, SessionInv, CountOK, StopOK, [Next]_vars
              PROVE  CountOK' /\ StopOK'
  BY StaleNext, SessionNext DEF QuotaInv
<1>1. CASE UNCHANGED vars
  <2>1. UNCHANGED <<opened, remaining, want, stop, stopMark, file, pc, interrupted>>
    BY <1>1 DEF vars
  <2>2. Swaps' = Swaps /\ Late' = Late /\ Waiting' = Waiting /\ InEnd' = InEnd
    BY <2>1 DEF Swaps, Late, Waiting, InEnd
  <2>3. CountOK'
    BY <2>1, <2>2 DEF CountOK, Stopped
  <2>4. StopOK'
    BY <2>1, <2>2 DEF StopOK, StopSeen, LatePlaced, LateOnce
  <2>. QED
    BY <2>3, <2>4
<1>2. CASE Controller
  BY <1>2, ControllerQuota DEF StaleInv, LockInv
<1>3. ASSUME NEW t \in Threads, Enter(t) \/ Continue(t) \/ Signal(t)
      PROVE  CountOK' /\ StopOK'
  BY <1>3, CountStep, StopStep
<1>. QED
  BY <1>1, <1>2, <1>3 DEF Next

\* The invariant of the counted frames holds initially.
LEMMA QuotaInit == Init => QuotaInv
<1>. SUFFICES ASSUME Init PROVE CountOK /\ StopOK
  BY StaleInit, SessionInit DEF QuotaInv
<1>. QED
  BY DEF Init, CountOK, StopOK

\* With any number of swapping threads, the frames asked for are exceeded by at
\* most one for each further thread, and after a stop each thread gets at most
\* one more frame into the trace.
THEOREM FramesCorrect == Spec => []FramesBounded
<1>1. QuotaInv => FramesBounded
  <2>. SUFFICES ASSUME QuotaInv, opened PROVE FramesBounded
    BY DEF FramesBounded
  <2>1. TypeOK /\ EndsOK /\ CountOK /\ StopOK
    BY DEF QuotaInv, SessionInv, FrameInv, LockInv
  <2>2. ASSUME want \in 1..MaxFrames
        PROVE  Cardinality(Swaps) <= want + Cardinality(Threads) - 1
    <3>1. Cardinality(Swaps) + remaining <= want + Cardinality(Waiting) + Stopped
      BY <2>1, <2>2 DEF CountOK
    <3>2. ASSUME NEW u \in Threads, Place(u) \in TickPlaces
          PROVE  Cardinality(Waiting) <= Cardinality(Threads) - 1
      <4>1. Waiting \subseteq Threads \ {u}
        BY <3>2 DEF Waiting
      <4>2. /\ IsFiniteSet(Threads \ {u})
            /\ Cardinality(Threads \ {u}) = Cardinality(Threads) - 1
        BY CaptureAssumption, FS_RemoveElement
      <4>. QED
        BY <4>1, <4>2, FS_Subset
    <3>3. CASE remaining = 0
      <4>1. Stopped = 0
        BY <3>3 DEF Stopped
      <4>2. PICK u \in Threads : Place(u) \in TickPlaces
        BY <2>1, <2>2, <3>3 DEF EndsOK
      <4>. QED
        BY <2>1, <3>1, <3>2, <3>3, <4>1, <4>2, CountFacts
    <3>4. CASE remaining # 0 /\ Stopped = 1
      <4>1. PICK u \in Threads : Place(u) \in EndPlaces
        BY <3>4 DEF Stopped, InEnd
      <4>2. Cardinality(Waiting) <= Cardinality(Threads) - 1
        BY <3>2, <4>1 DEF EndPlaces
      <4>3. /\ Cardinality(Swaps) \in Nat /\ Cardinality(Waiting) \in Nat
            /\ Cardinality(Threads) \in Nat /\ remaining \in Nat /\ want \in Nat
        BY <2>1, CountFacts
      <4>. QED
        BY <3>1, <3>4, <4>2, <4>3
    <3>5. CASE remaining # 0 /\ Stopped = 0
      BY <2>1, <3>1, <3>5, CountFacts
    <3>. QED
      BY <2>1, <3>3, <3>4, <3>5, CountFacts
  <2>3. ASSUME stopMark # 0, NEW t \in Threads
        PROVE  Cardinality({i \in Swaps : i >= stopMark /\ file[i].thread = t}) <= 1
    <3>. DEFINE T == {i \in Swaps : i >= stopMark /\ file[i].thread = t}
    <3>1. \A i, j \in T : i = j
      BY <2>1, <2>3 DEF StopOK, LateOnce, Late
    <3>2. CASE T = {}
      BY <3>2, FS_EmptySet
    <3>3. CASE T # {}
      <4>1. PICK x : T = {x}
        BY <3>1, <3>3
      <4>2. Cardinality({x}) = 1
        BY FS_Singleton
      <4>. QED
        BY <4>1, <4>2
    <3>. QED
      BY <3>2, <3>3
  <2>. QED
    BY <2>2, <2>3 DEF FramesBounded
<1>. QED
  BY QuotaInit, QuotaNext, <1>1, PTL DEF Spec

-----------------------------------------------------------------------------
(* No two threads wait for each other.                                       *)

\* A thread's step leaves a mutex that another one owns alone.
LEMMA OwnerKept ==
  ASSUME LockInv, NEW t \in Threads, Enter(t) \/ Continue(t) \/ Signal(t),
         NEW s \in Threads \ {t}, traceOwner = s
  PROVE  traceOwner' = s
<1>1. ASSUME NEW from, NEW kind, NEW to, WritePacket(t, from, kind, to)
      PROVE  traceOwner' = s
  BY <1>1, PcType DEF WritePacket, CanLockTrace
<1>2. ASSUME NEW from, NEW to, EndCtx(t, from, to) PROVE traceOwner' = s
  BY <1>2 DEF EndCtx
<1>3. CASE GLWrite(t) \/ MCWrite(t) \/ SwapWrite(t) \/ SigWrite(t)
  BY <1>1, <1>3 DEF GLWrite, MCWrite, SwapWrite, SigWrite
<1>4. CASE Tick(t) \/ ExitLock(t)
  BY <1>4, PcType DEF Tick, ExitLock, CanLockTrace
<1>5. CASE WriteSnapshot(t) \/ TickEndClose(t)
  <2>1. pc[t] \in TickPlaces /\ Place(t) = pc[t]
    BY <1>5 DEF WriteSnapshot, TickEndClose, EndClose
  <2>. QED
    BY <2>1, OwnLocks DEF LocksMatch
<1>6. CASE ExitOnce(t) \/ ExitEnd(t)
  BY <1>2, <1>6 DEF ExitOnce, ExitEnd, ReleaseAtExit
<1>7. CASE Enter(t) \/ GLDriver(t) \/ MCRelease(t) \/ MCDriver(t) \/ MCBook(t)
  BY <1>7 DEF Enter, GLProlog, MCProlog, SwapProlog, ExitCall, GLDriver,
              MCRelease, MCDriver, MCBook
<1>8. CASE \/ MCEnd(t) \/ SwapDriver(t) \/ SnapshotBegin(t) \/ SnapshotFails(t)
           \/ SnapshotEnd(t) \/ OpenTrace(t)
  BY <1>8 DEF MCEnd, SwapDriver, SnapshotBegin, SnapshotFails, SnapshotEnd,
              OpenTrace
<1>9. CASE TickEndCtx(t) \/ SwapExit(t) \/ ExitAfterFrames(t) \/ Terminate(t)
  BY <1>2, <1>9 DEF TickEndCtx, SwapExit, ExitAfterFrames, Terminate
<1>10. CASE Signal(t) \/ SigCtx(t) \/ SigClose(t)
  BY <1>10 DEF Signal, SigCtx, SigClose
<1>. QED
  BY <1>3, <1>4, <1>5, <1>6, <1>7, <1>8, <1>9, <1>10 DEF Continue

\* Without signals and without _exit() the exit hooks run with the trace mutex
\* held: vogl_atexit takes it, and a failed write never leaves it.
HooksOwn ==
  \A t \in Threads :
    /\ pc[t] \notin SigPlaces
    /\ pc[t] \in HookPlaces \ {"exited"} => traceOwner = t

HookInv == LockInv /\ HooksOwn

\* A thread comes to the exit hooks with the mutex, and keeps it in them.
LEMMA HookStep ==
  ASSUME "signal" \notin Exits, "_exit" \notin Exits,
         HookInv, NEW t \in Threads, Enter(t) \/ Continue(t) \/ Signal(t)
  PROVE  /\ pc'[t] \notin SigPlaces
         /\ pc'[t] \in HookPlaces \ {"exited"} => traceOwner' = t
<1>. USE PcType DEF HookInv, HooksOwn
<1>. DEFINE Good == /\ pc'[t] \notin SigPlaces
                    /\ pc'[t] \in HookPlaces \ {"exited"} => traceOwner' = t
<1>1. ASSUME NEW to, Goto(t, to), to \notin SigPlaces \union HookPlaces
      PROVE  Good
  BY <1>1
<1>2. ASSUME NEW from, NEW kind, NEW to, WritePacket(t, from, kind, to),
             to \notin SigPlaces \union HookPlaces
      PROVE  Good
  BY <1>2 DEF WritePacket
<1>3. ASSUME NEW from, NEW to, EndCtx(t, from, to), to \notin SigPlaces,
             from \in HookPlaces \ {"exited"} \/ to \notin HookPlaces
      PROVE  Good
  BY <1>3 DEF EndCtx
<1>4. CASE Enter(t) \/ GLDriver(t) \/ MCRelease(t) \/ MCDriver(t) \/ MCBook(t)
  BY <1>4 DEF Enter, GLProlog, MCProlog, SwapProlog, ExitCall, GLDriver,
              MCRelease, MCDriver, MCBook
<1>5. CASE GLWrite(t) \/ MCWrite(t) \/ SwapWrite(t) \/ SigWrite(t)
  <2>1. CASE SigWrite(t)
    BY <2>1 DEF SigWrite, WritePacket
  <2>. QED
    BY <1>2, <1>5, <2>1 DEF GLWrite, MCWrite, SwapWrite
<1>6. CASE \/ MCEnd(t) \/ SwapDriver(t) \/ SnapshotBegin(t) \/ SnapshotFails(t)
           \/ SnapshotEnd(t) \/ OpenTrace(t)
  BY <1>1, <1>6 DEF MCEnd, SwapDriver, SnapshotBegin, SnapshotFails, SnapshotEnd,
                    OpenTrace
<1>7. CASE Tick(t) \/ WriteSnapshot(t) \/ TickEndClose(t) \/ SwapExit(t)
  BY <1>1, <1>7 DEF Tick, WriteSnapshot, TickEndClose, SwapExit, SwapReturn
<1>8. CASE TickEndCtx(t) \/ ExitAfterFrames(t) \/ ExitEnd(t)
  BY <1>1, <1>3, <1>8 DEF TickEndCtx, ExitAfterFrames, ExitEnd
<1>9. CASE ExitLock(t) \/ ExitOnce(t) \/ Terminate(t)
  BY <1>9 DEF ExitLock, ExitOnce, Terminate
<1>10. CASE Signal(t) \/ SigCtx(t) \/ SigClose(t)
  BY <1>10 DEF Signal, SigCtx, SigClose, EndClose
<1>. QED
  BY <1>4, <1>5, <1>6, <1>7, <1>8, <1>9, <1>10 DEF Continue

\* The invariant of the exit hooks is inductive.
LEMMA HookNext ==
  ASSUME "signal" \notin Exits, "_exit" \notin Exits
  PROVE  HookInv /\ [Next]_vars => HookInv'
<1>. SUFFICES ASSUME HookInv, [Next]_vars PROVE HooksOwn'
  BY LockNext DEF HookInv
<1>1. CASE UNCHANGED <<pc, traceOwner>>
  BY <1>1 DEF HookInv, HooksOwn
<1>2. CASE Controller
  BY <1>1, <1>2 DEF Controller, CaptureOnNextSwap, StopCapturing,
                    StopCapturingWithCallback, AcceptStop
<1>3. ASSUME NEW t \in Threads, Enter(t) \/ Continue(t) \/ Signal(t)
      PROVE  HooksOwn'
  <2>1. \A s \in Threads \ {t} : pc'[s] = pc[s]
    BY <1>3, StepIsOwn DEF HookInv, LockInv, OwnStep
  <2>2. \A s \in Threads \ {t} : traceOwner = s => traceOwner' = s
    BY <1>3, OwnerKept DEF HookInv
  <2>3. \A s \in Threads \ {t} :
          /\ pc'[s] \notin SigPlaces
          /\ pc'[s] \in HookPlaces \ {"exited"} => traceOwner' = s
    BY <2>1, <2>2 DEF HookInv, HooksOwn
  <2>. QED
    BY <1>3, <2>3, HookStep DEF HooksOwn
<1>. QED
  BY <1>1, <1>2, <1>3 DEF Next, vars

\* The invariant of the exit hooks holds initially.
LEMMA HookInit == Init => HookInv
  BY LockInit DEF HookInv, Init, HooksOwn

\* No two threads wait for each other: outside of the exit hooks the context
\* lock is only ever taken for the snapshot, under the trace mutex, and the
\* hooks run under the trace mutex as well.  The two ways out that call them
\* without it, a signal and _exit(), are excluded.
THEOREM WaitsCorrect ==
  ASSUME "signal" \notin Exits, "_exit" \notin Exits
  PROVE  Spec => []NoCircularWait
<1>1. HookInv => NoCircularWait
  <2>. SUFFICES ASSUME HookInv, NEW t \in Threads, NEW u \in Threads, t # u,
                       WaitsFor(t, u), WaitsFor(u, t)
                PROVE  FALSE
    BY DEF NoCircularWait
  <2>1. /\ LocksMatch(t) /\ LocksMatch(u)
        /\ Place(t) = pc[t] /\ Place(u) = pc[u]
        /\ pc[t] \notin SigPlaces /\ pc[u] \notin SigPlaces
    BY OwnLocks DEF HookInv, HooksOwn
  <2>2. ASSUME NEW s \in Threads, pc[s] \in HookPlaces \ {"exited"}
        PROVE  traceOwner = s
    BY <2>2 DEF HookInv, HooksOwn
  <2>3. ASSUME NEW s \in {t, u}, NEW r \in {t, u}, s # r, WaitsForTrace(s),
               traceOwner = r, WaitsFor(r, s)
        PROVE  FALSE
    <3>1. pc[s] \notin HookPlaces /\ pc[s] # "snapping"
      BY <2>2, <2>3 DEF WaitsForTrace
    <3>2. ctxOwner # s
      BY <2>1, <3>1, <2>3 DEF LocksMatch
    <3>. QED
      BY <2>3, <3>1, <3>2 DEF WaitsFor
  <2>4. ASSUME NEW s \in {t, u}, NEW r \in {t, u}, s # r, WaitsForCtx(s),
               ctxOwner = r, WaitsFor(r, s)
        PROVE  FALSE
    <3>1. pc[r] = "snapping" \/ pc[r] \in HookPlaces
      BY <2>1, <2>4 DEF LocksMatch
    <3>2. pc[r] \in HookPlaces \ {"exited"}
      BY <2>4, <3>1 DEF WaitsFor, WaitsForTrace, WaitsForCtx
    <3>3. traceOwner = r
      BY <2>2, <3>2
    <3>4. pc[s] \notin HookPlaces \ {"exited"}
      BY <2>2, <2>4, <3>3
    <3>. QED
      BY <2>4, <3>3, <3>4 DEF WaitsFor, WaitsForTrace, WaitsForCtx
  <2>5. ASSUME pc[t] = "exit_once", pc[u] \in {"exit_ctx", "exit_close"}
        PROVE  FALSE
    BY <2>2, <2>5
  <2>. QED
    BY <2>3, <2>4, <2>5 DEF WaitsFor
<1>. QED
  BY HookInit, HookNext, <1>1, PTL DEF Spec

-----------------------------------------------------------------------------
(* One thread alone.  No other thread's swap comes between a frame's packet   *)
(* and its count, and no other thread renders on behind the exit hooks.      *)

\* The frames in the file and those to come are the frames asked for, but for
\* the one about to be counted and the end that a stop brings about.
ExactOK(a) ==
  opened /\ want \in 1..MaxFrames =>
    \/ Cardinality(Swaps) + remaining =
         want + (IF Place(a) = "sw_tick" THEN 1 ELSE 0)
    \/ Place(a) \in EndPlaces /\ remaining # 0

\* The thread passes pthread_once at most once, and closes the trace there.
OnceOK(a) ==
  /\ pc[a] = "exit_once" => once = "new"
  /\ once # "new" => pc[a] \in {"exit_ctx", "exit_close", "exited"}
  /\ pc[a] = "exited" => ~opened /\ once # "new"

AloneInv(a) == QuotaInv /\ ExactOK(a) /\ OnceOK(a)

\* What the invariants say of the thread.
LEMMA AloneFacts ==
  ASSUME NEW a \in Threads, AloneInv(a)
  PROVE  /\ StaleInv /\ SessionInv /\ LockInv /\ TypeOK /\ FileOK /\ EndsOK
         /\ CountOK
         /\ pc \in [Threads -> Places] /\ interrupted \in [Threads -> CallPlaces]
         /\ ser \in [Threads -> [inBegin : BOOLEAN, counter : Nat]]
         /\ ser[a].counter \in Nat /\ callCounter \in Nat
         /\ interrupted[a] \notin SigPlaces \union HookPlaces
<1>1. StaleInv /\ SessionInv /\ LockInv /\ TypeOK /\ FileOK /\ EndsOK /\ CountOK
  BY DEF AloneInv, QuotaInv, SessionInv, FrameInv, LockInv
<1>. QED
  BY <1>1, StaleFacts, OwnLocks

\* The frames are counted one by one.
LEMMA ExactStep ==
  ASSUME NEW a \in Threads, AloneInv(a), Enter(a) \/ Continue(a) \/ Signal(a)
  PROVE  ExactOK(a)'
<1>. USE AloneFacts DEF capture
<1>1. ExactOK(a) /\ SessionStep(a)
  BY StepKinds DEF AloneInv
<1>2. file' = file => Swaps' = Swaps
  BY DEF Swaps
<1>3. ASSUME UNCHANGED <<opened, remaining, want>>, Swaps' = Swaps,
             Place(a)' = "sw_tick" <=> Place(a) = "sw_tick",
             Place(a) \in EndPlaces => Place(a)' \in EndPlaces
      PROVE  ExactOK(a)'
  BY <1>1, <1>3 DEF ExactOK
<1>4. CASE QuietStep(a)
  <2>1. UNCHANGED <<opened, remaining, want, file>>
    BY <1>4 DEF QuietStep
  <2>2. /\ Place(a)' = "sw_tick" <=> Place(a) = "sw_tick"
        /\ Place(a) \in EndPlaces => Place(a)' \in EndPlaces
    BY <1>4 DEF QuietStep, StaysOut, BusyPlaces, EndPlaces
  <2>. QED
    BY <1>2, <1>3, <2>1, <2>2
<1>5. CASE CloseStep(a) \/ BareSwapStep(a)
  BY <1>5 DEF CloseStep, BareSwapStep, ExactOK
<1>6. CASE RecordStep(a)
  <2>1. UNCHANGED <<opened, remaining, want>> /\ Swaps' = Swaps
    BY <1>6, AppendSwaps DEF RecordStep
  <2>2. /\ Place(a)' = "sw_tick" <=> Place(a) = "sw_tick"
        /\ Place(a) \in EndPlaces => Place(a)' \in EndPlaces
    BY <1>6 DEF RecordStep, StaysOut, BusyPlaces, EndPlaces
  <2>. QED
    BY <1>3, <2>1, <2>2
<1>7. CASE SwapStep(a)
  <2>1. /\ UNCHANGED <<opened, remaining, want>>
        /\ Place(a) = "sw_write" /\ Place(a)' = "sw_tick"
        /\ Swaps' = Swaps \union {Len(file) + 1} /\ Len(file) + 1 \notin DOMAIN file
    BY <1>7, AppendSwaps DEF SwapStep
  <2>2. Len(file) + 1 \notin Swaps
    BY <2>1 DEF Swaps
  <2>3. Cardinality(Swaps') = Cardinality(Swaps) + 1
    BY <2>1, <2>2, CountFacts, FS_AddElement
  <2>4. Cardinality(Swaps) \in Nat /\ remaining \in Nat /\ want \in Nat
    BY CountFacts
  <2>5. opened /\ want \in 1..MaxFrames => Cardinality(Swaps) + remaining = want
    BY <1>1, <2>1 DEF ExactOK, EndPlaces
  <2>. QED
    BY <2>1, <2>3, <2>4, <2>5 DEF ExactOK
<1>8. CASE SnapStep(a)
  BY <1>8 DEF SnapStep, FileOK, ExactOK
<1>9. CASE EndStep(a)
  <2>1. UNCHANGED <<opened, remaining, want, file>>
    BY <1>9 DEF EndStep
  <2>2. /\ Place(a)' = "sw_tick" <=> Place(a) = "sw_tick"
        /\ Place(a) \in EndPlaces => Place(a)' \in EndPlaces
    BY <1>9 DEF EndStep, EndPlaces
  <2>. QED
    BY <1>2, <1>3, <2>1, <2>2
<1>10. CASE Tick(a)
  <2>. SUFFICES ASSUME opened', want' \in 1..MaxFrames
                PROVE  \/ Cardinality(Swaps') + remaining' = want'
                       \/ Place(a)' \in EndPlaces /\ remaining' # 0
    <3>1. Place(a)' # "sw_tick"
      BY <1>10, TickGoes DEF SwapReturn
    <3>. QED
      BY <3>1 DEF ExactOK
  <2>1. /\ \A s \in Threads : Place(s) \notin TickPlaces
        /\ Place(a) = "sw_tick"
    BY <1>10, TickAlone
  <2>2. opened /\ Swaps' = Swaps
    BY <1>2, <1>10 DEF Tick
  <2>3. want' = want
    BY <1>10, <2>2, TickGoes
  <2>4. remaining # 0
    BY <2>1, <2>2, <2>3 DEF EndsOK
  <2>5. Cardinality(Swaps) + remaining = want + 1
    BY <1>1, <2>1, <2>2, <2>3 DEF ExactOK, EndPlaces
  <2>6. Cardinality(Swaps) \in Nat /\ remaining \in Nat /\ want \in Nat
        /\ UINT32_MAX > MaxFrames /\ MaxFrames \in Nat /\ UINT32_MAX \in Nat
    BY CountFacts
  <2>7. CASE Ending
    <3>1. remaining' = remaining /\ Place(a)' = "end_ctx"
      BY <1>10, <2>2, <2>7, TickCount, TickGoes
    <3>. QED
      BY <2>4, <3>1 DEF EndPlaces
  <2>8. CASE ~Ending
    <3>1. remaining <= want
      BY <2>2, <2>3 DEF CountOK
    <3>2. FrameDone(remaining)
      BY <2>2, <2>3, <2>4, <2>6, <3>1 DEF FrameDone
    <3>3. remaining' = remaining - 1
      BY <1>10, <2>2, <2>8, <3>2, TickCount
    <3>. QED
      BY <2>2, <2>3, <2>5, <2>6, <3>3
  <2>. QED
    BY <2>7, <2>8
<1>11. CASE OpenTrace(a)
  <2>1. UNCHANGED <<remaining, want>> /\ file' = <<>> /\ Place(a) = "snap_open"
        /\ Place(a)' # "sw_tick"
    BY <1>11 DEF OpenTrace
  <2>2. want = 0 \/ remaining = want
    BY <2>1 DEF EndsOK, SnapPlaces
  <2>3. Swaps' = {}
    BY <2>1 DEF Swaps
  <2>4. Cardinality(Swaps') = 0
    BY <2>3, FS_EmptySet
  <2>5. want \in Nat
    BY CountFacts
  <2>6. want' \in 1..MaxFrames => Cardinality(Swaps') + remaining' = want'
    BY <2>1, <2>2, <2>4, <2>5
  <2>. QED
    BY <2>1, <2>5, <2>6 DEF ExactOK
<1>12. CASE WriteSnapshot(a)
  <2>1. /\ Place(a) = "snap_write" /\ Place(a)' \in {"fail_ctx", SwapReturn}
        /\ UNCHANGED <<opened, remaining, want, file>>
    BY <1>12 DEF WriteSnapshot, SwapReturn
  <2>. QED
    BY <1>2, <1>3, <2>1 DEF EndPlaces, SwapReturn
<1>. QED
  BY <1>1, <1>4, <1>5, <1>6, <1>7, <1>8, <1>9, <1>10, <1>11, <1>12
     DEF SessionStep

\* The exit hooks run once, and close the trace before they are left.
LEMMA OnceStep ==
  ASSUME NEW a \in Threads, AloneInv(a), Enter(a) \/ Continue(a) \/ Signal(a)
  PROVE  OnceOK(a)'
<1>. USE AloneFacts
<1>1. OnceOK(a)
  BY DEF AloneInv
<1>2. ASSUME UNCHANGED once, pc[a] \notin HookPlaces,
             pc'[a] \notin HookPlaces \ {"exit_once"}
      PROVE  OnceOK(a)'
  BY <1>1, <1>2 DEF OnceOK
<1>3. ASSUME NEW from, NEW kind, NEW to, WritePacket(a, from, kind, to),
             from \notin HookPlaces, to \notin HookPlaces
      PROVE  OnceOK(a)'
  BY <1>2, <1>3 DEF WritePacket
<1>4. ASSUME NEW from, NEW to, EndCtx(a, from, to),
             from \notin HookPlaces, to \notin HookPlaces
      PROVE  OnceOK(a)'
  BY <1>2, <1>4 DEF EndCtx
<1>5. CASE Enter(a) \/ GLDriver(a) \/ MCRelease(a) \/ MCDriver(a) \/ MCBook(a)
  BY <1>2, <1>5 DEF Enter, GLProlog, MCProlog, SwapProlog, ExitCall, GLDriver,
                    MCRelease, MCDriver, MCBook
<1>6. CASE GLWrite(a) \/ MCWrite(a) \/ SwapWrite(a) \/ SigWrite(a)
  BY <1>3, <1>6 DEF GLWrite, MCWrite, SwapWrite, SigWrite
<1>7. CASE \/ MCEnd(a) \/ SwapDriver(a) \/ Tick(a) \/ SnapshotBegin(a)
           \/ SnapshotFails(a) \/ SnapshotEnd(a)
  BY <1>2, <1>7 DEF MCEnd, SwapDriver, Tick, SnapshotBegin, SnapshotFails,
                    SnapshotEnd, SwapReturn
<1>8. CASE OpenTrace(a) \/ WriteSnapshot(a) \/ SwapExit(a) \/ ExitLock(a)
  BY <1>2, <1>8 DEF OpenTrace, WriteSnapshot, SwapExit, ExitLock, SwapReturn
<1>9. CASE TickEndCtx(a) \/ TickEndClose(a)
  BY <1>2, <1>4, <1>9 DEF TickEndCtx, TickEndClose, EndClose, SwapReturn
<1>10. CASE ExitAfterFrames(a)
  BY <1>2, <1>4, <1>10 DEF ExitAfterFrames, EndClose
<1>11. CASE ExitOnce(a)
  <2>1. pc[a] = "exit_once" /\ once = "new"
    BY <1>1, <1>11 DEF ExitOnce, OnceOK
  <2>2. pc'[a] = "exit_ctx" /\ once' = "busy"
    BY <1>11, <2>1 DEF ExitOnce
  <2>. QED
    BY <2>2 DEF OnceOK
<1>12. CASE ExitEnd(a)
  <2>1. CASE EndCtx(a, "exit_ctx", "exit_close")
    BY <1>1, <2>1 DEF EndCtx, OnceOK
  <2>2. CASE EndClose(a, "exit_close") /\ once' = "done" /\ Goto(a, "exited")
    BY <2>2 DEF EndClose, OnceOK
  <2>. QED
    BY <1>12, <2>1, <2>2 DEF ExitEnd
<1>13. CASE Terminate(a)
  BY <1>1, <1>13 DEF Terminate, OnceOK
<1>14. CASE Signal(a) \/ SigCtx(a)
  <2>1. pc[a] \notin HookPlaces
    BY <1>14 DEF Signal, SigCtx, CallPlaces, GLPlaces, MCPlaces, SwapPlaces
  <2>. QED
    BY <1>2, <1>14, <2>1 DEF Signal, SigCtx
<1>15. CASE SigClose(a)
  <2>1. pc[a] = "sig_close" /\ pc'[a] \in {"sig_close", interrupted[a]}
        /\ UNCHANGED once
    BY <1>15 DEF SigClose, EndClose
  <2>. QED
    BY <1>2, <2>1
<1>. QED
  BY <1>5, <1>6, <1>7, <1>8, <1>9, <1>10, <1>11, <1>12, <1>13, <1>14, <1>15
     DEF Continue

\* The invariant of the only thread is inductive.
LEMMA AloneNext ==
  ASSUME NEW a, Threads = {a}
  PROVE  AloneInv(a) /\ [Next]_vars => AloneInv(a)'
<1>. a \in Threads
  OBVIOUS
<1>. SUFFICES ASSUME AloneInv(a), [Next]_vars
              PROVE  ExactOK(a)' /\ OnceOK(a)'
  BY QuotaNext DEF AloneInv
<1>1. CASE UNCHANGED <<opened, remaining, once, file, ser, pc, interrupted, want,
                       snapped, lost>>
  <2>1. Swaps' = Swaps
    BY <1>1 DEF Swaps
  <2>. QED
    BY <1>1, <2>1 DEF AloneInv, ExactOK, OnceOK
<1>2. CASE Controller
  BY <1>1, <1>2 DEF Controller, CaptureOnNextSwap, StopCapturing,
                    StopCapturingWithCallback, AcceptStop
<1>3. CASE Enter(a) \/ Continue(a) \/ Signal(a)
  BY <1>3, ExactStep, OnceStep
<1>. QED
  BY <1>1, <1>2, <1>3 DEF Next, vars

\* The invariant of the only thread holds initially.
LEMMA AloneInit ==
  ASSUME NEW a, Threads = {a}
  PROVE  Init => AloneInv(a)
<1>. SUFFICES ASSUME Init
              PROVE  ExactOK(a) /\ OnceOK(a)
  BY QuotaInit DEF AloneInv
<1>. QED
  BY DEF Init, ExactOK, OnceOK

\* What the invariant of the only thread says of the whole program.
LEMMA AloneFollows ==
  ASSUME NEW a, Threads = {a}, AloneInv(a)
  PROVE  ExactFrames /\ ExitClosesTrace
<1>. a \in Threads
  OBVIOUS
<1>1. ExactOK(a) /\ OnceOK(a)
  BY DEF AloneInv
<1>2. ExactFrames
  <2>. SUFFICES ASSUME pc[a] = "end_close", opened, remaining = 0,
                       want \in 1..MaxFrames
                PROVE  Cardinality(Swaps) = want
    BY DEF ExactFrames
  <2>1. Cardinality(Swaps) + remaining = want
    BY <1>1 DEF ExactOK
  <2>2. Cardinality(Swaps) \in Nat
    BY AloneFacts, CountFacts
  <2>. QED
    BY <2>1, <2>2
<1>3. ExitClosesTrace
  BY <1>1 DEF ExitClosesTrace, OnceOK
<1>. QED
  BY <1>2, <1>3

\* With one thread a capture that its count closes has exactly the frames asked
\* for, whatever was asked, stopped and interrupted before.
THEOREM FramesExact ==
  ASSUME NEW a, Threads = {a}
  PROVE  Spec => []ExactFrames
<1>1. AloneInv(a) => ExactFrames
  BY AloneFollows
<1>. QED
  BY AloneInit, AloneNext, <1>1, PTL DEF Spec

\* With one thread every way out of the process leaves the trace closed, and no
\* tick opens one after that.
THEOREM ExitCorrect ==
  ASSUME NEW a, Threads = {a}
  PROVE  Spec => []ExitClosesTrace
<1>1. AloneInv(a) => ExitClosesTrace
  BY AloneFollows
<1>. QED
  BY AloneInit, AloneNext, <1>1, PTL DEF Spec

-----------------------------------------------------------------------------
(* What a client of the capture interface sees.                              *)

\* Without signals a session starts with the frames it was armed with: nothing
\* clears them under the feet of the snapshot.
Unsignalled == \A t \in Threads : pc[t] \notin SigPlaces

StartsArmed == \A t \in Threads : Place(t) \in SnapPlaces => remaining # 0

\* A callback belongs to a request or to a session.
CallbackOK == callback # 0 => opened \/ total # 0 \/ remaining # 0

RefineInv == StaleInv /\ SessionInv /\ Unsignalled /\ StartsArmed /\ CallbackOK

\* A thread that is in a tick keeps the others from closing the trace.
LEMMA CloseAlone ==
  ASSUME LockInv, NEW t \in Threads, CanLockTrace(t),
         NEW s \in Threads \ {t}
  PROVE  Place(s) \notin TickPlaces
  BY OwnLocks, PcType DEF LocksMatch, CanLockTrace

\* No step disarms a session whose snapshot is under way.
LEMMA ArmedStep ==
  ASSUME RefineInv, NEW t \in Threads, Enter(t) \/ Continue(t)
  PROVE  StartsArmed' /\ CallbackOK'
<1>1. LockInv /\ SessionStep(t) /\ StartsArmed /\ CallbackOK /\ pc[t] \notin SigPlaces
  BY StepKinds DEF RefineInv, SessionInv, FrameInv, Unsignalled
<1>2. \A s \in Threads \ {t} : Place(s)' = Place(s)
  BY <1>1, OwnPlace
<1>3. ASSUME UNCHANGED <<opened, total, remaining, callback>>,
             Place(t)' \in SnapPlaces => Place(t) \in SnapPlaces
      PROVE  StartsArmed' /\ CallbackOK'
  BY <1>1, <1>2, <1>3 DEF StartsArmed, CallbackOK
<1>. USE DEF capture, SnapPlaces
<1>4. CASE QuietStep(t) \/ RecordStep(t)
  BY <1>3, <1>4 DEF QuietStep, RecordStep, StaysOut, BusyPlaces
<1>5. CASE CloseStep(t)
  <2>1. \A s \in Threads : Place(s)' \notin SnapPlaces
    BY <1>1, <1>2, <1>5, CloseAlone DEF CloseStep, BusyPlaces
  <2>. QED
    BY <1>5, <2>1 DEF CloseStep, StartsArmed, CallbackOK
<1>6. CASE SwapStep(t) \/ BareSwapStep(t) \/ SnapStep(t) \/ EndStep(t)
  BY <1>3, <1>6 DEF SwapStep, BareSwapStep, SnapStep, EndStep
<1>7. CASE Tick(t)
  <2>1. /\ \A s \in Threads \ {t} : Place(s)' \notin SnapPlaces
        /\ UNCHANGED <<opened, callback>>
    BY <1>1, <1>2, <1>7, TickAlone DEF Tick
  <2>2. Place(t)' \in SnapPlaces => remaining' # 0
    BY <1>7, TickGoes, TickCount DEF RefineInv, SwapReturn
  <2>3. ~opened => remaining = 0 /\ remaining' = total
    BY <1>7, TickCount DEF RefineInv
  <2>. QED
    BY <1>1, <2>1, <2>2, <2>3 DEF StartsArmed, CallbackOK
<1>8. CASE OpenTrace(t)
  <2>1. Place(t) = "snap_open" /\ UNCHANGED <<total, remaining, callback>>
    BY <1>8 DEF OpenTrace
  <2>2. remaining # 0
    BY <1>1, <2>1 DEF StartsArmed
  <2>. QED
    BY <2>1, <2>2 DEF StartsArmed, CallbackOK
<1>9. CASE WriteSnapshot(t)
  <2>1. Place(t) = "snap_write" /\ UNCHANGED <<opened, total, remaining, callback>>
    BY <1>9 DEF WriteSnapshot
  <2>. QED
    BY <1>3, <2>1
<1>. QED
  BY <1>1, <1>4, <1>5, <1>6, <1>7, <1>8, <1>9 DEF SessionStep

\* Without signals no handler runs.
LEMMA UnsignalledStep ==
  ASSUME "signal" \notin Exits, RefineInv, NEW t \in Threads,
         Enter(t) \/ Continue(t) \/ Signal(t)
  PROVE  (Enter(t) \/ Continue(t)) /\ Unsignalled'
<1>1. LockInv /\ pc[t] \notin SigPlaces
  BY DEF RefineInv, SessionInv, FrameInv, Unsignalled
<1>2. pc \in [Threads -> Places]
  BY <1>1, PcType
<1>3. Enter(t) \/ Continue(t)
  BY DEF Signal
<1>4. ~SigCtx(t) /\ ~SigWrite(t) /\ ~SigClose(t)
  BY <1>1 DEF SigCtx, SigWrite, SigClose, WritePacket, EndClose
<1>5. pc'[t] \notin SigPlaces
  <2>1. ASSUME NEW to, to \notin SigPlaces, Goto(t, to) PROVE pc'[t] \notin SigPlaces
    BY <1>2, <2>1
  <2>2. ASSUME NEW from, NEW kind, NEW to, to \notin SigPlaces,
               WritePacket(t, from, kind, to)
        PROVE  pc'[t] \notin SigPlaces
    BY <2>1, <2>2 DEF WritePacket
  <2>3. ASSUME NEW from, NEW to, to \notin SigPlaces, EndCtx(t, from, to)
        PROVE  pc'[t] \notin SigPlaces
    BY <2>1, <2>3 DEF EndCtx
  <2>4. CASE Enter(t) \/ GLDriver(t) \/ MCRelease(t) \/ MCDriver(t) \/ MCBook(t)
    BY <2>1, <2>4 DEF Enter, GLProlog, MCProlog, SwapProlog, ExitCall, GLDriver,
                      MCRelease, MCDriver, MCBook
  <2>5. CASE GLWrite(t) \/ MCWrite(t) \/ SwapWrite(t)
    BY <2>2, <2>5 DEF GLWrite, MCWrite, SwapWrite
  <2>6. CASE MCEnd(t) \/ SwapDriver(t) \/ Tick(t) \/ SnapshotBegin(t)
    BY <2>1, <2>6 DEF MCEnd, SwapDriver, Tick, SnapshotBegin, SwapReturn
  <2>7. CASE SnapshotFails(t) \/ SnapshotEnd(t) \/ OpenTrace(t) \/ WriteSnapshot(t)
    BY <2>1, <2>7 DEF SnapshotFails, SnapshotEnd, OpenTrace, WriteSnapshot,
                      SwapReturn
  <2>8. CASE TickEndCtx(t) \/ TickEndClose(t) \/ ExitAfterFrames(t) \/ ExitEnd(t)
    BY <2>1, <2>3, <2>8 DEF TickEndCtx, TickEndClose, ExitAfterFrames, ExitEnd,
                            SwapReturn
  <2>9. CASE SwapExit(t) \/ ExitLock(t) \/ ExitOnce(t) \/ Terminate(t)
    BY <1>1, <2>1, <2>9 DEF SwapExit, ExitLock, ExitOnce, Terminate
  <2>. QED
    BY <1>3, <1>4, <2>4, <2>5, <2>6, <2>7, <2>8, <2>9 DEF Continue
<1>6. \A s \in Threads \ {t} : pc'[s] = pc[s]
  BY <1>1, StepIsOwn DEF LockInv, OwnStep
<1>. QED
  BY <1>3, <1>5, <1>6 DEF RefineInv, Unsignalled

\* The invariant of the refinement is inductive.
LEMMA RefineNext ==
  ASSUME "signal" \notin Exits
  PROVE  RefineInv /\ [Next]_vars => RefineInv'
<1>. SUFFICES ASSUME RefineInv, [Next]_vars
              PROVE  Unsignalled' /\ StartsArmed' /\ CallbackOK'
  BY StaleNext, SessionNext DEF RefineInv
<1>1. CASE UNCHANGED vars
  BY <1>1 DEF vars, RefineInv, Unsignalled, StartsArmed, CallbackOK
<1>2. CASE Controller
  <2>1. UNCHANGED <<pc, interrupted, opened, remaining>>
        /\ (UNCHANGED total \/ total' # 0) /\ (UNCHANGED callback \/ total' # 0 \/ opened)
    BY <1>2, CaptureAssumption
       DEF Controller, CaptureOnNextSwap, StopCapturing, StopCapturingWithCallback,
           AcceptStop, Frames
  <2>. QED
    BY <2>1 DEF RefineInv, Unsignalled, StartsArmed, CallbackOK
<1>3. ASSUME NEW t \in Threads, Enter(t) \/ Continue(t) \/ Signal(t)
      PROVE  Unsignalled' /\ StartsArmed' /\ CallbackOK'
  BY <1>3, UnsignalledStep, ArmedStep
<1>. QED
  BY <1>1, <1>2, <1>3 DEF Next

\* The invariant of the refinement holds initially.
LEMMA RefineInit == Init => RefineInv
<1>. SUFFICES ASSUME Init PROVE Unsignalled /\ StartsArmed /\ CallbackOK
  BY StaleInit, SessionInit DEF RefineInv
<1>. QED
  BY DEF Init, Unsignalled, StartsArmed, CallbackOK, SnapPlaces

\* The initial states are initial states of the abstract session.
LEMMA SessionSpecInit == Init => Session!Init
<1>. SUFFICES ASSUME Init PROVE Session!Init
  OBVIOUS
<1>1. total = 0 /\ remaining = 0 /\ callback = 0
  BY DEF Init
<1>2. opened = FALSE \/ opened = FullStream
  BY DEF Init
<1>3. CASE opened = FALSE
  <2>1. Phase = "idle" /\ Left = 0
    BY <1>1, <1>3 DEF Phase, Left
  <2>. QED
    BY <1>1, <2>1 DEF Session!Init
<1>4. CASE opened = TRUE /\ FullStream = TRUE
  <2>1. Phase = "capturing" /\ Left = 0
    BY <1>1, <1>4 DEF Phase, Left
  <2>. QED
    BY <1>1, <1>4, <2>1 DEF Session!Init
<1>5. FullStream = TRUE \/ FullStream = FALSE
  BY CaptureAssumption
<1>. QED
  BY <1>2, <1>3, <1>4, <1>5

\* A request arms the session, a stop may redirect its report.
LEMMA ControllerRefines ==
  ASSUME RefineInv, Controller
  PROVE  [Session!Next]_(Session!svars)
<1>. USE DEF Session!Next, Session!svars, Session!Callbacks
<1>1. NonePending /\ requests \in 0..MaxRequests /\ MaxRequests \in Nat
  BY CaptureAssumption DEF RefineInv, SessionInv, FrameInv, LockInv, TypeOK
<1>2. CASE \E n \in Frames : CaptureOnNextSwap(n)
  <2>1. PICK n \in Frames : CaptureOnNextSwap(n)
    BY <1>2
  <2>2. n # 0 /\ n \in Session!Counts
    BY CaptureAssumption DEF Frames, Session!Counts
  <2>3. /\ ~opened /\ ~opened' /\ remaining' = 0 /\ total' = n
        /\ callback' \in 1..MaxRequests
    BY <1>1, <2>1 DEF CaptureOnNextSwap, MayCapture
  <2>4. Phase # "capturing" /\ Phase' = "armed" /\ Left' = n
    BY <2>2, <2>3 DEF Phase, Left
  <2>. QED
    BY <2>2, <2>3, <2>4 DEF Session!Arm
<1>3. CASE StopCapturing
  <2>1. UNCHANGED <<opened, total, remaining, callback>>
    BY <1>3 DEF StopCapturing, AcceptStop
  <2>. QED
    BY <2>1 DEF Phase, Left
<1>4. CASE StopCapturingWithCallback
  <2>1. opened /\ UNCHANGED <<opened, total, remaining>>
        /\ callback' \in 1..MaxRequests
    BY <1>1, <1>4 DEF StopCapturingWithCallback, AcceptStop
  <2>. QED
    BY <2>1 DEF Phase, Left, Session!Redirect
<1>. QED
  BY <1>2, <1>3, <1>4 DEF Controller

\* A close ends the session, gives up the request being started, or, at the end
\* of the process, takes the callback from a request that still waits.
LEMMA CloseRefines ==
  ASSUME RefineInv, NEW t \in Threads, CloseStep(t)
  PROVE  [Session!Next]_(Session!svars)
<1>. USE DEF Session!Next, Session!svars
<1>1. LockInv /\ NonePending /\ NoFramesLeft /\ CallbackOK
  BY DEF RefineInv, SessionInv, FrameInv
<1>2. /\ ~opened' /\ total' = total /\ remaining' = 0 /\ callback' = 0
      /\ CanLockTrace(t) /\ opened' = FALSE
  BY DEF CloseStep
<1>3. CASE opened
  <2>1. total = 0
    BY <1>1, <1>3 DEF NonePending
  <2>2. Phase = "capturing" /\ Phase' = "idle" /\ Left' = 0
    BY <1>2, <1>3, <2>1 DEF Phase, Left
  <2>. QED
    BY <1>2, <2>2 DEF Session!Close
<1>4. CASE ~opened /\ remaining # 0
  <2>1. Place(t) \in TickPlaces
    BY <1>1, <1>2, <1>4, CloseAlone DEF NoFramesLeft
  <2>2. total = 0
    BY <1>1, <2>1 DEF NonePending
  <2>3. Phase = "armed" /\ Phase' = "idle" /\ Left' = 0
    BY <1>2, <1>4, <2>2 DEF Phase, Left
  <2>. QED
    BY <1>2, <2>3 DEF Session!GiveUp
<1>5. CASE ~opened /\ remaining = 0 /\ total # 0
  <2>1. Phase = "armed" /\ Phase' = "armed" /\ Left' = Left
    BY <1>2, <1>5 DEF Phase, Left
  <2>. QED
    BY <1>2, <2>1 DEF Session!Detach
<1>6. CASE ~opened /\ remaining = 0 /\ total = 0
  <2>1. callback = 0
    BY <1>1, <1>6 DEF CallbackOK
  <2>2. Phase' = Phase /\ Left' = Left
    BY <1>2, <1>6 DEF Phase, Left
  <2>. QED
    BY <1>2, <2>1, <2>2
<1>. QED
  BY <1>3, <1>4, <1>5, <1>6

\* A tick moves the request into the frame count, or counts one frame.
LEMMA TickRefines ==
  ASSUME RefineInv, NEW t \in Threads, Tick(t)
  PROVE  [Session!Next]_(Session!svars)
<1>. USE DEF Session!Next, Session!svars
<1>1. NonePending /\ SessionInv
  BY DEF RefineInv, SessionInv
<1>2. remaining \in 0..MaxFrames \union {UINT32_MAX}
  BY DEF RefineInv, SessionInv, FrameInv, LockInv, TypeOK
<1>3. UNCHANGED <<opened, callback>>
  BY DEF Tick
<1>4. CASE ~opened
  <2>1. remaining = 0 /\ remaining' = total /\ total' = 0
    BY <1>1, <1>4, TickCount
  <2>2. Phase' = Phase /\ Left' = Left
    BY <1>3, <1>4, <2>1 DEF Phase, Left
  <2>. QED
    BY <1>3, <2>2
<1>5. CASE opened
  <2>1. total = 0
    BY <1>1, <1>5 DEF NonePending
  <2>2. total' = 0
    BY <2>1 DEF Tick, Pending
  <2>3. Left = remaining /\ Left' = remaining'
    BY <2>1, <2>2 DEF Left
  <2>4. Phase = "capturing" /\ Phase' = "capturing"
    BY <1>3, <1>5 DEF Phase
  <2>5. CASE ~Ending /\ FrameDone(remaining)
    <3>1. remaining' = remaining - 1
      BY <1>1, <1>5, <2>5, TickCount
    <3>2. remaining \in 1..MaxFrames
      BY <1>2, <2>5, CaptureAssumption DEF FrameDone
    <3>. QED
      BY <1>3, <2>3, <2>4, <3>1, <3>2 DEF Session!Frame
  <2>6. CASE ~(~Ending /\ FrameDone(remaining))
    <3>1. remaining' = remaining
      BY <1>1, <1>5, <2>6, TickCount
    <3>. QED
      BY <1>3, <2>3, <2>4, <3>1
  <2>. QED
    BY <2>5, <2>6
<1>. QED
  BY <1>4, <1>5

\* Every step of a thread is a step of the session, or none.
LEMMA ThreadRefines ==
  ASSUME RefineInv, NEW t \in Threads, Enter(t) \/ Continue(t)
  PROVE  [Session!Next]_(Session!svars)
<1>. USE DEF capture
<1>1. SessionStep(t)
  BY StepKinds DEF RefineInv, SessionInv, FrameInv
<1>2. ASSUME UNCHANGED <<opened, total, remaining, callback>>
      PROVE  [Session!Next]_(Session!svars)
  BY <1>2 DEF Session!svars, Phase, Left
<1>3. CASE QuietStep(t) \/ RecordStep(t) \/ SwapStep(t) \/ BareSwapStep(t)
  BY <1>2, <1>3 DEF QuietStep, RecordStep, SwapStep, BareSwapStep
<1>4. CASE SnapStep(t) \/ EndStep(t) \/ WriteSnapshot(t)
  BY <1>2, <1>4 DEF SnapStep, EndStep, WriteSnapshot
<1>5. CASE CloseStep(t)
  BY <1>5, CloseRefines
<1>6. CASE Tick(t)
  BY <1>6, TickRefines
<1>7. CASE OpenTrace(t)
  <2>1. UNCHANGED <<total, remaining, callback>> /\ Place(t) = "snap_open"
        /\ opened' \in BOOLEAN
    BY <1>7 DEF OpenTrace
  <2>2. ~opened /\ remaining # 0
    BY <2>1 DEF RefineInv, SessionInv, FileOK, StartsArmed, SnapPlaces
  <2>3. Phase = "armed" /\ Left' = Left
    BY <2>1, <2>2 DEF Phase, Left
  <2>4. CASE opened'
    <3>1. Phase' = "capturing"
      BY <2>4 DEF Phase
    <3>. QED
      BY <2>1, <2>3, <3>1 DEF Session!Next, Session!Start
  <2>5. CASE ~opened'
    <3>1. Phase' = "armed"
      BY <2>1, <2>2, <2>5 DEF Phase
    <3>. QED
      BY <2>1, <2>3, <3>1 DEF Session!svars
  <2>. QED
    BY <2>4, <2>5
<1>. QED
  BY <1>1, <1>3, <1>4, <1>5, <1>6, <1>7 DEF SessionStep

\* The threads, the two mutexes and the failures implement the capture session
\* promised to the client.  A signal handler that returns is excluded: it may
\* close a session while another part of the same thread is still opening it.
THEOREM ImplementsSession ==
  ASSUME "signal" \notin Exits
  PROVE  Spec => SessionSpec
<1>1. RefineInv /\ [Next]_vars => [Session!Next]_(Session!svars)
  <2>. SUFFICES ASSUME RefineInv, [Next]_vars
                PROVE  [Session!Next]_(Session!svars)
    OBVIOUS
  <2>1. CASE UNCHANGED vars
    BY <2>1 DEF vars, Session!svars, Phase, Left
  <2>2. CASE Controller
    BY <2>2, ControllerRefines
  <2>3. ASSUME NEW t \in Threads, Enter(t) \/ Continue(t) \/ Signal(t)
        PROVE  [Session!Next]_(Session!svars)
    BY <2>3, UnsignalledStep, ThreadRefines
  <2>. QED
    BY <2>1, <2>2, <2>3 DEF Next
<1>. QED
  BY SessionSpecInit, RefineInit, RefineNext, <1>1, PTL
     DEF Spec, SessionSpec, Session!Spec

=============================================================================

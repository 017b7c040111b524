---------------------------- MODULE TraceCapture ----------------------------
(***************************************************************************)
(* The capture control of the tracer, src/src/vogltrace/vogl_intercept.cpp: *)
(* the application's threads enter wrapped GL/GLX entrypoints, the calls   *)
(* are serialized into packets of the one trace writer, and the buffer     *)
(* swaps drive a capture session that a controller (trigger file, remote   *)
(* listener) asked for.                                                    *)
(*                                                                         *)
(* Two recursive mutexes are involved: the trace mutex (writer and capture *)
(* globals) and the context manager's lock.  A lock is modelled by its     *)
(* owner; a nested acquisition by the owner is no step.  The writer's      *)
(* is_opened() is read WITHOUT the trace mutex by every entrypoint, so     *)
(* that a call is split at these reads, at the driver call and at each     *)
(* lock.  A step of a thread t is guarded by pc[t], which names the place  *)
(* in the code t has reached.                                              *)
(*                                                                         *)
(* An operator named Wrong... is not part of the model: it is the operator *)
(* below it with a mistake in it, kept to show that a property notices.    *)
(***************************************************************************)
EXTENDS Naturals, Sequences, FiniteSets

CONSTANTS
  Threads,      \* application threads; each has one GL context of its own
  NoThread,     \* owner of a free mutex
  MaxFrames,    \* bound: frame counts 1..MaxFrames are asked for ...
  UINT32_MAX,   \* ... and cUINT32_MAX, "all frames until the app exits"
  MaxRequests,  \* bound on the accepted requests that carry a callback
  MaxCalls,     \* bound: an open trace starts no call past this call counter
  Exits,        \* ways the process may be terminated, see the assumption
  Faults,       \* operations of the writer and the snapshot that may fail
  FullStream    \* TRUE: the process may start with --vogl_tracefile, which
                \* opens a full-stream trace

ASSUME CaptureAssumption ==
  /\ IsFiniteSet(Threads) /\ NoThread \notin Threads
  /\ MaxFrames \in Nat \ {0}
  /\ UINT32_MAX \in Nat /\ UINT32_MAX > MaxFrames
  /\ MaxRequests \in Nat
  /\ MaxCalls \in Nat
  /\ Exits \subseteq {"atexit", "_exit", "exit_after_x_frames", "signal"}
  /\ Faults \subseteq {"snapshot", "open", "write_snapshot", "write", "close"}
  /\ FullStream \in BOOLEAN

VARIABLES
  opened,       \* get_vogl_trace_writer().is_opened()
  total,        \* g_vogl_total_frames_to_capture: the pending request
  remaining,    \* g_vogl_frames_remaining_to_capture
  stop,         \* g_vogl_stop_capturing
  callback,     \* g_vogl_pCapture_status_callback, 0 is NULL
  traceOwner,   \* owner of get_vogl_trace_mutex()
  ctxOwner,     \* owner of the context manager's lock
  once,         \* pthread_once control of vogl_deinit
  writeFailed,  \* a failed write called exit() inside the critical section
  alive,        \* the process has not terminated
  callCounter,  \* m_gl_call_counter of the writer
  file,         \* the packets of the open trace file
  ser,          \* the thread's packet serializer
  driver,       \* the driver has the thread's context current on it
  tls,          \* m_pContext of the thread's local data is set
  made,         \* m_has_been_made_current of the thread's context
  pc,           \* where each thread is
  interrupted   \* where a thread was when a signal handler took over

\* History of the current (or last) session, read by properties only.
VARIABLES
  requests,     \* accepted requests carrying a callback so far
  stopMark,     \* 1 + length of the file when a stop was accepted, 0: none
  want,         \* frames the current session was asked for
  snapCounter,  \* GL call counter the state snapshot recorded
  snapped,      \* the session's snapshot has been taken
  lost,         \* a GL call took effect after the snapshot, unrecorded
  outcome,      \* "failed": the last capture could not be started
  report        \* what the status callback was last told

control == <<opened, total, remaining, stop, callback>>
locks   == <<traceOwner, ctxOwner>>
ending  == <<once, writeFailed, alive>>
trace   == <<callCounter, file, ser>>
gl      == <<driver, tls, made>>
session == <<want, snapCounter, snapped, lost>>
history == <<requests, stopMark, session, outcome, report>>
vars == <<control, locks, ending, trace, gl, pc, interrupted, history>>

Frames == 1..MaxFrames \union {UINT32_MAX}
Owners == Threads \union {NoThread}

\* Where a thread can be. At TickPlaces it holds the trace mutex.
GLPlaces   == {"gl_driver", "gl_write"}
MCPlaces   == {"mc_release", "mc_driver", "mc_book", "mc_end", "mc_write"}
SwapPlaces == {"sw_driver", "sw_write", "sw_tick", "sw_return"}
TickPlaces == {"snap", "snapping", "snap_open", "snap_write",
               "end_ctx", "end_close", "fail_ctx", "fail_close"}
ExitPlaces == {"x_ctx", "x_close", "exit_lock", "exit_once", "exit_ctx",
               "exit_close", "exited"}
SigPlaces  == {"sig_ctx", "sig_write", "sig_close"}
CallPlaces == {"idle"} \union GLPlaces \union MCPlaces \union SwapPlaces
                       \union TickPlaces
Places == CallPlaces \union ExitPlaces \union SigPlaces

\* Counter 0 stands for a packet that begin() never constructed.
NoPacket == [inBegin |-> FALSE, counter |-> 0]

Packets == [thread : Threads, kind : {"gl", "mc", "swap"}, counter : Nat]

Init ==
  /\ opened \in {FALSE, FullStream}
  /\ total = 0 /\ remaining = 0 /\ stop = FALSE /\ callback = 0
  /\ traceOwner = NoThread /\ ctxOwner = NoThread
  /\ once = "new" /\ writeFailed = FALSE /\ alive = TRUE
  /\ callCounter = 0 /\ file = <<>> /\ ser = [t \in Threads |-> NoPacket]
  /\ driver = [t \in Threads |-> FALSE]
  /\ tls = [t \in Threads |-> FALSE]
  /\ made = [t \in Threads |-> FALSE]
  /\ pc = [t \in Threads |-> "idle"]
  /\ interrupted = [t \in Threads |-> "idle"]
  /\ requests = 0 /\ stopMark = 0
  /\ want = 0 /\ snapCounter = 0 /\ snapped = FALSE /\ lost = FALSE
  /\ outcome = "none" /\ report = "none"

-----------------------------------------------------------------------------
(* The moves of a thread, the two locks and the serializer.                  *)

At(t, place) == alive /\ pc[t] = place

Goto(t, place) == pc' = [pc EXCEPT ![t] = place]

CanLockTrace(t) == traceOwner \in {NoThread, t}

CanLockCtx(t) == ctxOwner \in {NoThread, t}

\* vogl_entrypoint_serializer::begin: the packet takes the next call counter.
Begin(t) ==
  /\ ser' = [ser EXCEPT ![t] = [inBegin |-> TRUE, counter |-> callCounter + 1]]
  /\ callCounter' = callCounter + 1

\* vogl_entrypoint_serializer::end: no begin() leaves the packet as it is.
End(t) ==
  ser' = [ser EXCEPT ![t] = [inBegin |-> FALSE, counter |-> ser[t].counter]]

\* The packet is of no further use: the next begin() constructs it anew.
Discard(t) == ser' = [ser EXCEPT ![t] = NoPacket]

Packet(t, kind) == [thread |-> t, kind |-> kind, counter |-> ser[t].counter]

-----------------------------------------------------------------------------
(* The control interface: one critical section of the trace mutex each. The *)
(* callers are the remote listener's thread and, before vogl_tick_capture   *)
(* takes the mutex, the trigger and stop files' checks of a swapping thread.*)

WrongMayCapture == remaining = 0 \/ opened

MayCapture == remaining = 0 /\ ~opened

CaptureOnNextSwap(n) ==
  /\ alive /\ traceOwner = NoThread
  /\ MayCapture
  /\ requests < MaxRequests
  /\ total' = n
  /\ callback' = requests + 1
  /\ stop' = FALSE
  /\ requests' = requests + 1 /\ report' = "none" /\ outcome' = "none"
  /\ UNCHANGED <<opened, remaining, locks, ending, trace, gl, pc, interrupted,
                 stopMark, session>>

\* Common to the two forms of vogl_stop_capturing.
AcceptStop ==
  /\ alive /\ traceOwner = NoThread
  /\ opened
  /\ stop' = TRUE
  /\ stopMark' = IF stopMark = 0 THEN Len(file) + 1 ELSE stopMark
  /\ UNCHANGED <<opened, total, remaining, locks, ending, trace, gl, pc,
                 interrupted, session, outcome, report>>

StopCapturing == AcceptStop /\ UNCHANGED <<callback, requests>>

StopCapturingWithCallback ==
  /\ AcceptStop
  /\ requests < MaxRequests
  /\ callback' = requests + 1
  /\ requests' = requests + 1

-----------------------------------------------------------------------------
(* A wrapped GL call: DEF_FUNCTION_INIT, _CALL_GL and _END. Only a thread    *)
(* with a current context makes one.                                        *)

GLProlog(t) ==
  /\ At(t, "idle") /\ tls[t]
  /\ callCounter < MaxCalls
  /\ IF opened THEN Begin(t) ELSE UNCHANGED <<ser, callCounter>>
  /\ Goto(t, "gl_driver")
  /\ UNCHANGED <<control, locks, ending, file, gl, interrupted, history>>

\* The driver call, end(), and the unlocked test that opens
\* vogl_write_packet_to_trace: a call that was not begun ends here.
GLDriver(t) ==
  /\ At(t, "gl_driver")
  /\ lost' = (lost \/ (snapped /\ ~ser[t].inBegin))
  /\ IF ser[t].inBegin /\ opened THEN End(t) /\ Goto(t, "gl_write")
                                 ELSE Discard(t) /\ Goto(t, "idle")
  /\ UNCHANGED <<control, locks, ending, callCounter, file, gl, interrupted,
                 requests, stopMark, want, snapCounter, snapped, outcome,
                 report>>

\* The critical section of vogl_write_packet_to_trace.  The trace may have
\* been closed meanwhile: the packet is dropped.  A failed write calls exit()
\* inside the critical section, which is never left then.
WritePacket(t, from, kind, to) ==
  /\ At(t, from)
  /\ CanLockTrace(t)
  /\ \/ /\ file' = IF opened THEN Append(file, Packet(t, kind)) ELSE file
        /\ Goto(t, to)
        /\ UNCHANGED <<traceOwner, writeFailed>>
     \/ /\ opened /\ "write" \in Faults
        /\ traceOwner' = t
        /\ writeFailed' = TRUE
        /\ Goto(t, "exit_once")
        /\ UNCHANGED file
  /\ Discard(t)
  /\ UNCHANGED <<control, once, alive, callCounter, gl, interrupted, history>>

GLWrite(t) == WritePacket(t, "gl_write", "gl", "idle") /\ UNCHANGED ctxOwner

-----------------------------------------------------------------------------
(* vogl_glXMakeCurrent: the context of t is made current on t, or released.  *)

\* lookup_vogl_context takes the context lock; a release looks nothing up.
MCProlog(t) ==
  /\ At(t, "idle")
  /\ callCounter < MaxCalls
  /\ IF tls[t] THEN Goto(t, "mc_release")
               ELSE ctxOwner = NoThread /\ Goto(t, "mc_driver")
  /\ UNCHANGED <<control, locks, ending, trace, gl, interrupted, history>>

\* The driver refuses a context that is current on another thread: a snapshot
\* in progress may hold this one.
MCDriver(t) ==
  /\ At(t, "mc_driver")
  /\ \/ /\ driver' = [driver EXCEPT ![t] = TRUE]
        /\ Goto(t, "mc_book")
     \/ /\ \E s \in Threads \ {t} : pc[s] = "snapping"
        /\ Goto(t, "mc_end")
        /\ UNCHANGED driver
  /\ UNCHANGED <<control, locks, ending, trace, tls, made, interrupted,
                 history>>

\* make_current looks the context up again under the context lock.
MCBook(t) ==
  /\ At(t, "mc_book") /\ CanLockCtx(t)
  /\ tls' = [tls EXCEPT ![t] = TRUE]
  /\ made' = [made EXCEPT ![t] = TRUE]
  /\ Goto(t, "mc_end")
  /\ UNCHANGED <<control, locks, ending, trace, driver, interrupted, history>>

\* The driver releases the context, release_current the thread's pointer.
MCRelease(t) ==
  /\ At(t, "mc_release")
  /\ driver' = [driver EXCEPT ![t] = FALSE]
  /\ tls' = [tls EXCEPT ![t] = FALSE]
  /\ Goto(t, "mc_end")
  /\ UNCHANGED <<control, locks, ending, trace, made, interrupted, history>>

\* The packet is made after the fact, by begin() and end() in one go.
MCEnd(t) ==
  /\ At(t, "mc_end")
  /\ IF opened
     THEN /\ callCounter' = callCounter + 1
          /\ ser' = [ser EXCEPT ![t] = [inBegin |-> FALSE,
                                       counter |-> callCounter + 1]]
          /\ Goto(t, "mc_write")
     ELSE Goto(t, "idle") /\ UNCHANGED <<callCounter, ser>>
  /\ UNCHANGED <<control, locks, ending, file, gl, interrupted, history>>

MCWrite(t) == WritePacket(t, "mc_write", "mc", "idle") /\ UNCHANGED ctxOwner

-----------------------------------------------------------------------------
(* vogl_glXSwapBuffers. The serializer is local to the call and is begun     *)
(* only if the trace is open at the start.                                   *)

WrongSwapProlog(t) ==
  /\ At(t, "idle")
  /\ ~opened \/ callCounter < MaxCalls \/ stop
  /\ IF opened /\ tls[t] THEN Begin(t) ELSE UNCHANGED <<ser, callCounter>>
  /\ Goto(t, "sw_driver")
  /\ UNCHANGED <<control, locks, ending, file, gl, interrupted, history>>

SwapProlog(t) ==
  /\ At(t, "idle")
  /\ ~opened \/ callCounter < MaxCalls \/ stop
  /\ IF opened THEN Begin(t) ELSE UNCHANGED <<ser, callCounter>>
  /\ Goto(t, "sw_driver")
  /\ UNCHANGED <<control, locks, ending, file, gl, interrupted, history>>

\* A thread without a context looks one up for the drawable under the context
\* lock.  Then the driver call and the second unlocked test of the writer:
\* end() is called even if begin() was not.
SwapDriver(t) ==
  /\ At(t, "sw_driver")
  /\ tls[t] \/ CanLockCtx(t)
  /\ IF opened THEN End(t) /\ Goto(t, "sw_write")
               ELSE Discard(t) /\ Goto(t, "sw_tick")
  /\ UNCHANGED <<control, locks, ending, callCounter, file, gl, interrupted,
                 history>>

SwapWrite(t) ==
  WritePacket(t, "sw_write", "swap", "sw_tick") /\ UNCHANGED ctxOwner

-----------------------------------------------------------------------------
(* vogl_tick_capture, from its acquisition of the trace mutex on.            *)

WrongPending == total # 0 /\ remaining = 0 /\ opened

Pending == total # 0 /\ remaining = 0

Ending == stop /\ opened

WrongFrameDone(left) == left # UINT32_MAX

\* The frame is one of the trace's, and counted: the snapshot's is not.
FrameDone(left) == opened /\ left # 0 /\ left # UINT32_MAX

WrongLastFrame(left, after) == left = 0

LastFrame(left, after) == after = 0

\* Where vogl_tick_capture returns to: --vogl_exit_after_x_frames looks at the
\* frame index then.
SwapReturn == IF "exit_after_x_frames" \in Exits THEN "sw_return" ELSE "idle"

Tick(t) ==
  LET left  == IF Pending THEN total ELSE remaining
      after == IF ~Ending /\ FrameDone(left) THEN left - 1 ELSE left
      next  == IF Ending THEN "end_ctx"
               ELSE IF left = 0 THEN SwapReturn
               ELSE IF ~opened THEN "snap"
               ELSE IF LastFrame(left, after) THEN "end_ctx" ELSE SwapReturn
  IN /\ At(t, "sw_tick")
     /\ CanLockTrace(t)
     /\ total' = IF Pending THEN 0 ELSE total
     /\ remaining' = after
     /\ stop' = FALSE
     /\ Goto(t, next)
     /\ traceOwner' = IF next = SwapReturn THEN NoThread ELSE t
     /\ IF next = "snap" THEN want' = left /\ outcome' = "none"
                         ELSE UNCHANGED <<want, outcome>>
     /\ UNCHANGED <<opened, callback, ctxOwner, ending, trace, gl, interrupted,
                    requests, stopMark, snapCounter, snapped, lost, report>>

WrongOthersCurrent(t) == FALSE

\* vogl_snapshot_state makes each context that was ever current its own in
\* turn; the driver refuses one that is current on another thread.
OthersCurrent(t) == \E s \in Threads \ {t} : driver[s] /\ made[s]

\* vogl_snapshot_state takes the context lock; the snapshot records the call
\* counter.
SnapshotBegin(t) ==
  /\ At(t, "snap") /\ CanLockCtx(t)
  /\ ~OthersCurrent(t)
  /\ ctxOwner' = t
  /\ snapCounter' = callCounter
  /\ snapped' = TRUE
  /\ Goto(t, "snapping")
  /\ UNCHANGED <<control, traceOwner, ending, trace, gl, interrupted, requests,
                 stopMark, want, lost, outcome, report>>

\* Another thread's context, mapped buffers, a display list, glBegin, ...: the
\* snapshot is given up, before or while the contexts are visited.
SnapshotFails(t) ==
  /\ (At(t, "snap") /\ CanLockCtx(t)) \/ At(t, "snapping")
  /\ "snapshot" \in Faults \/ OthersCurrent(t)
  /\ ctxOwner' = NoThread
  /\ snapped' = FALSE
  /\ outcome' = "failed"
  /\ Goto(t, "fail_ctx")
  /\ UNCHANGED <<control, traceOwner, ending, trace, gl, interrupted, requests,
                 stopMark, want, snapCounter, lost, report>>

WrongSnapshotEnd(t) ==
  /\ At(t, "snapping")
  /\ Goto(t, "snap_open")
  /\ UNCHANGED <<control, locks, ending, trace, gl, interrupted, history>>

\* The context lock is released before the trace file is opened.
SnapshotEnd(t) ==
  /\ At(t, "snapping")
  /\ ctxOwner' = NoThread
  /\ Goto(t, "snap_open")
  /\ UNCHANGED <<control, traceOwner, ending, trace, gl, interrupted, history>>

\* A failing open() may leave the stream open behind it.
OpenTrace(t) ==
  /\ At(t, "snap_open")
  /\ file' = <<>>
  /\ \/ /\ opened' = TRUE
        /\ Goto(t, "snap_write")
        /\ UNCHANGED outcome
     \/ /\ "open" \in Faults
        /\ opened' \in BOOLEAN
        /\ Goto(t, "fail_ctx")
        /\ outcome' = "failed"
  /\ UNCHANGED <<total, remaining, stop, callback, locks, ending, callCounter,
                 ser, gl, interrupted, requests, stopMark, session, report>>

\* The snapshot goes into the archive and the first packets into the file.
\* A signal handler may have closed the trace since it was opened.
WriteSnapshot(t) ==
  /\ At(t, "snap_write")
  /\ \/ /\ opened
        /\ Goto(t, SwapReturn)
        /\ traceOwner' = NoThread
        /\ UNCHANGED outcome
     \/ /\ "write_snapshot" \in Faults \/ ~opened
        /\ Goto(t, "fail_ctx")
        /\ outcome' = "failed"
        /\ UNCHANGED traceOwner
  /\ UNCHANGED <<control, ctxOwner, ending, trace, gl, interrupted, requests,
                 stopMark, session, report>>

-----------------------------------------------------------------------------
(* vogl_end_capture: the context lock is taken and released around the       *)
(* flush, then the trace mutex is taken for the close.                       *)

WrongEndCtx(t, from, to) ==
  /\ At(t, from) /\ CanLockCtx(t)
  /\ ctxOwner' = t
  /\ Goto(t, to)
  /\ UNCHANGED <<control, traceOwner, ending, trace, gl, interrupted, history>>

EndCtx(t, from, to) ==
  /\ At(t, from) /\ CanLockCtx(t)
  /\ Goto(t, to)
  /\ UNCHANGED <<control, locks, ending, trace, gl, interrupted, history>>

WrongResetSession == callback' = 0 /\ UNCHANGED remaining

\* The session's globals are cleared whether or not a trace was open.
ResetSession == remaining' = 0 /\ callback' = 0

\* The writer is closed and the callback told, if the trace is open.
EndClose(t, from) ==
  /\ At(t, from) /\ CanLockTrace(t)
  /\ opened' = FALSE
  /\ file' = <<>>
  /\ \/ report' = IF opened /\ callback # 0 THEN "filename" ELSE "none"
     \/ /\ "close" \in Faults /\ opened /\ callback # 0
        /\ report' = "null"
  /\ ResetSession
  /\ want' = 0 /\ snapCounter' = 0 /\ snapped' = FALSE /\ stopMark' = 0
  /\ UNCHANGED <<total, stop, callCounter, ser, gl, requests, lost, outcome>>

\* Called by the tick with the trace mutex held, which it then releases; after
\* a failed snapshot the tick has the trace file deleted as well.
TickEndCtx(t) == EndCtx(t, "end_ctx", "end_close")
               \/ EndCtx(t, "fail_ctx", "fail_close")

TickEndClose(t) ==
  /\ EndClose(t, "end_close") \/ EndClose(t, "fail_close")
  /\ Goto(t, SwapReturn)
  /\ traceOwner' = NoThread
  /\ UNCHANGED <<ctxOwner, ending, interrupted>>

-----------------------------------------------------------------------------
(* Termination: every way out of the process tries to close the trace.       *)

\* --vogl_exit_after_x_frames: the frame index of the current context decides.
SwapExit(t) ==
  /\ At(t, "sw_return")
  /\ Goto(t, "idle") \/ (tls[t] /\ Goto(t, "x_ctx"))
  /\ UNCHANGED <<control, locks, ending, trace, gl, interrupted, history>>

\* It closes the trace, then calls exit(0).
ExitAfterFrames(t) ==
  \/ EndCtx(t, "x_ctx", "x_close")
  \/ /\ EndClose(t, "x_close")
     /\ Goto(t, "exit_lock")
     /\ UNCHANGED <<locks, ending, interrupted>>

WrongExitCall(t) ==
  /\ At(t, "idle")
  /\ \/ "atexit" \in Exits /\ Goto(t, "exit_lock")
     \/ "_exit" \in Exits /\ Goto(t, "exited")
  /\ UNCHANGED <<control, locks, ending, trace, gl, interrupted, history>>

\* The application calls exit(): vogl_atexit takes the trace mutex first.
\* _exit() and _Exit() are intercepted and call vogl_deinit without it.
ExitCall(t) ==
  /\ At(t, "idle")
  /\ \/ "atexit" \in Exits /\ Goto(t, "exit_lock")
     \/ "_exit" \in Exits /\ Goto(t, "exit_once")
  /\ UNCHANGED <<control, locks, ending, trace, gl, interrupted, history>>

ExitLock(t) ==
  /\ At(t, "exit_lock") /\ CanLockTrace(t)
  /\ traceOwner' = t
  /\ Goto(t, "exit_once")
  /\ UNCHANGED <<control, ctxOwner, ending, trace, gl, interrupted, history>>

\* vogl_atexit releases the trace mutex, unless the thread came from a failed
\* write: that critical section is left only by the end of the process.
ReleaseAtExit(t) ==
  traceOwner' = IF traceOwner = t /\ ~writeFailed THEN NoThread ELSE traceOwner

\* pthread_once: the first thread runs vogl_deinit_callback, a thread that
\* comes while it runs waits, a later one passes.
ExitOnce(t) ==
  /\ At(t, "exit_once")
  /\ \/ /\ once = "new"
        /\ once' = "busy"
        /\ Goto(t, "exit_ctx")
        /\ UNCHANGED traceOwner
     \/ /\ once = "done"
        /\ ReleaseAtExit(t)
        /\ Goto(t, "exited")
        /\ UNCHANGED once
  /\ UNCHANGED <<control, ctxOwner, writeFailed, alive, trace, gl, interrupted,
                 history>>

ExitEnd(t) ==
  \/ EndCtx(t, "exit_ctx", "exit_close")
  \/ /\ EndClose(t, "exit_close")
     /\ once' = "done"
     /\ ReleaseAtExit(t)
     /\ Goto(t, "exited")
     /\ UNCHANGED <<ctxOwner, writeFailed, alive, interrupted>>

Terminate(t) ==
  /\ At(t, "exited")
  /\ alive' = FALSE
  /\ UNCHANGED <<control, locks, once, writeFailed, trace, gl, pc, interrupted,
                 history>>

\* A signal handler takes over the thread; a signal that arrives while another
\* is handled does not call vogl_exception_callback.
Signal(t) ==
  /\ alive /\ "signal" \in Exits
  /\ pc[t] \in CallPlaces
  /\ \A s \in Threads : pc[s] \notin SigPlaces
  /\ interrupted' = [interrupted EXCEPT ![t] = pc[t]]
  /\ Goto(t, "sig_ctx")
  /\ UNCHANGED <<control, locks, ending, trace, gl, history>>

\* vogl_end_capture(true): a packet begun before the interrupted driver call
\* is ended, and written with the context lock still held.
SigCtx(t) ==
  LET flushes == /\ tls[t] /\ interrupted[t] = "gl_driver"
                 /\ opened /\ ser[t].inBegin
  IN /\ At(t, "sig_ctx") /\ CanLockCtx(t)
     /\ IF flushes
        THEN End(t) /\ ctxOwner' = t /\ Goto(t, "sig_write")
        ELSE Goto(t, "sig_close") /\ UNCHANGED <<ser, ctxOwner>>
     /\ UNCHANGED <<control, traceOwner, ending, callCounter, file, gl,
                    interrupted, history>>

SigWrite(t) ==
  /\ WritePacket(t, "sig_write", "gl", "sig_close")
  /\ ctxOwner' = IF pc'[t] = "sig_close" THEN NoThread ELSE ctxOwner

\* The previous disposition decides: the default one ends the process, an
\* ignored or handled signal returns to the interrupted code.
SigClose(t) ==
  /\ EndClose(t, "sig_close")
  /\ \/ alive' = FALSE /\ UNCHANGED pc
     \/ Goto(t, interrupted[t]) /\ UNCHANGED alive
  /\ UNCHANGED <<locks, once, writeFailed, interrupted>>

-----------------------------------------------------------------------------
Controller ==
  \/ \E n \in Frames : CaptureOnNextSwap(n)
  \/ StopCapturing
  \/ StopCapturingWithCallback

\* The application enters an entrypoint, or ends.
Enter(t) == GLProlog(t) \/ MCProlog(t) \/ SwapProlog(t) \/ ExitCall(t)

\* The thread goes on inside the tracer.
Continue(t) ==
  \/ GLDriver(t) \/ GLWrite(t)
  \/ MCRelease(t) \/ MCDriver(t) \/ MCBook(t) \/ MCEnd(t) \/ MCWrite(t)
  \/ SwapDriver(t) \/ SwapWrite(t) \/ Tick(t)
  \/ SnapshotBegin(t) \/ SnapshotFails(t) \/ SnapshotEnd(t)
  \/ OpenTrace(t) \/ WriteSnapshot(t)
  \/ TickEndCtx(t) \/ TickEndClose(t)
  \/ SwapExit(t) \/ ExitAfterFrames(t)
  \/ ExitLock(t) \/ ExitOnce(t) \/ ExitEnd(t) \/ Terminate(t)
  \/ SigCtx(t) \/ SigWrite(t) \/ SigClose(t)

Next ==
  \/ Controller
  \/ \E t \in Threads : Enter(t) \/ Continue(t) \/ Signal(t)

Spec == Init /\ [][Next]_vars

\* A thread inside the tracer is scheduled, and the application renders: each
\* thread calls glXSwapBuffers again and again as long as it may.
Fairness == \A t \in Threads : WF_vars(Continue(t)) /\ SF_vars(SwapProlog(t))

FairSpec == Spec /\ Fairness

-----------------------------------------------------------------------------
(* Properties.                                                               *)

\* Type invariant: every variable keeps to the values its C++ type and its use
\* allow; the unsigned frame counter in particular never passes below zero.
TypeOK ==
  /\ opened \in BOOLEAN /\ stop \in BOOLEAN
  /\ total \in {0} \union Frames
  /\ remaining \in 0..MaxFrames \union {UINT32_MAX}
  /\ callback \in 0..requests /\ requests \in 0..MaxRequests
  /\ traceOwner \in Owners /\ ctxOwner \in Owners
  /\ once \in {"new", "busy", "done"}
  /\ writeFailed \in BOOLEAN /\ alive \in BOOLEAN
  /\ callCounter \in Nat /\ file \in Seq(Packets)
  /\ ser \in [Threads -> [inBegin : BOOLEAN, counter : Nat]]
  /\ driver \in [Threads -> BOOLEAN] /\ tls \in [Threads -> BOOLEAN]
  /\ made \in [Threads -> BOOLEAN]
  /\ pc \in [Threads -> Places] /\ interrupted \in [Threads -> CallPlaces]
  /\ stopMark \in Nat /\ want \in {0} \union Frames /\ snapCounter \in Nat
  /\ snapped \in BOOLEAN /\ lost \in BOOLEAN
  /\ outcome \in {"none", "failed"} /\ report \in {"none", "filename", "null"}

\* Whenever the trace mutex is free and no trace is open, no frame is left to
\* capture: a capture that could not start, or was closed early by any path,
\* does not leave behind the count that makes vogl_capture_on_next_swap refuse
\* every later request.
IdleHasNoFrames == traceOwner = NoThread /\ ~opened => remaining = 0

\* Conversely a trace that a capture opened has frames left to capture whenever
\* the trace mutex is free: it closes itself, nobody needs to stop it.  Excepted
\* are the full-stream trace, which no one wanted frames of, and a session that
\* a returning signal handler ended, want and all, during the tick that starts
\* it: that tick then opens a trace without a frame count.
CaptureEnds ==
  traceOwner = NoThread /\ opened /\ want # 0 => remaining # 0

\* The code a thread is in, below the signal handler it may be running.
Place(t) == IF pc[t] \in SigPlaces THEN interrupted[t] ELSE pc[t]

\* The exit hooks, at which a lock may still be held: vogl_atexit's, or that of
\* the critical section in which a write failed.
HookPlaces == {"exit_once", "exit_ctx", "exit_close", "exited"}

LocksMatch(t) ==
  /\ Place(t) \in TickPlaces => traceOwner = t
  /\ traceOwner = t => Place(t) \in TickPlaces \union HookPlaces
  /\ Place(t) = "snapping" \/ pc[t] = "sig_write" => ctxOwner = t
  /\ ctxOwner = t => \/ Place(t) = "snapping" \/ pc[t] = "sig_write"
                     \/ writeFailed /\ pc[t] \in HookPlaces

\* A thread owns a mutex only in the code that took it, and always there: no
\* early return, failure or signal handler leaves one locked behind it, or
\* releases it under the feet of the code it interrupted.
LocksMatchPlaces == \A t \in Threads : LocksMatch(t)

\* A GL call that took effect before the state snapshot is never in the trace
\* that starts with this snapshot (the replay would apply it twice), although
\* the call is serialized without a lock while sessions close and open.  Only
\* the snapshot's refusal of a context current on another thread ensures it.
NoStalePacket ==
  \A i \in DOMAIN file : file[i].kind = "gl" => file[i].counter > snapCounter

Swaps == {i \in DOMAIN file : file[i].kind = "swap"}

\* With several swapping threads the trace holds at most one frame more per
\* further thread than was asked for, and after vogl_stop_capturing was accepted
\* no thread gets a second frame into it, whichever thread's tick comes first
\* and whatever the count says: a packet is written before its tick, and each
\* thread has at most one swap between the two.
FramesBounded ==
  opened =>
    /\ want \in 1..MaxFrames
         => Cardinality(Swaps) <= want + Cardinality(Threads) - 1
    /\ stopMark # 0 =>
         \A t \in Threads :
           Cardinality({i \in Swaps : i >= stopMark /\ file[i].thread = t}) <= 1

\* A packet of t that the open trace holds.
Recorded(t) == \E i \in DOMAIN file : file[i].thread = t

\* The call t is in was not begun: nothing of it will be written, or a packet
\* that end() was called on alone.
Unbegun(t) ==
  \/ pc[t] \in {"gl_driver", "sw_driver"} /\ ~ser[t].inBegin
  \/ pc[t] = "sw_write" /\ ser[t].counter = 0

\* The calls of a thread follow each other in a trace without a hole: once one
\* of them is recorded, so is every later one until the trace is closed, in the
\* order in which they were made, and at most the first of them was never begun.
\* The threads only read is_opened(), without a lock, while others close this
\* trace and open the next one.
CallsFollow ==
  /\ \A t \in Threads : Recorded(t) => ~Unbegun(t)
  /\ \A i, j \in DOMAIN file :
       i < j /\ file[i].thread = file[j].thread
         => file[i].counter < file[j].counter

\* What vogl_entrypoint_serializer::end asserts, for the swap's local one: end()
\* is called only on a serializer that begin() was called on.  It is not so, a
\* tick of another thread may open the trace between the swap's two tests.
EndHasBegin == \A t \in Threads : pc[t] = "sw_write" => ser[t].counter # 0

\* What vogl_capture_on_next_swap says: the state is recorded, then the calls
\* that follow.  It is not so for a call of another thread between the snapshot
\* and the opening of the trace, which is in neither.
NoLostCall == ~lost

\* A capture that is closed by its frame count, not by a stop or a signal,
\* holds exactly the frames asked for.
ExactFrames ==
  \A t \in Threads :
    pc[t] = "end_close" /\ opened /\ remaining = 0 /\ want \in 1..MaxFrames
      => Cardinality(Swaps) = want

\* Once a thread's exit hooks have run no trace is open: the shared object's
\* destructor, and the end of the process, find it closed.
ExitClosesTrace == (\E t \in Threads : pc[t] = "exited") => ~opened

\* The callback of a capture that failed is told so, if it is told anything: it
\* is not given the name of a file that is then deleted.
FailureNotNamed == outcome = "failed" => report # "filename"

WaitsForTrace(t) ==
  /\ pc[t] \in {"gl_write", "mc_write", "sw_write", "sw_tick", "x_close",
               "exit_lock", "exit_close", "sig_write", "sig_close"}
  /\ ~CanLockTrace(t)

WaitsForCtx(t) ==
  /\ pc[t] \in {"snap", "end_ctx", "fail_ctx", "x_ctx", "exit_ctx", "sig_ctx",
               "mc_book", "sw_driver"}
  /\ ~CanLockCtx(t)

WaitsFor(t, u) ==
  \/ WaitsForTrace(t) /\ traceOwner = u
  \/ WaitsForCtx(t) /\ ctxOwner = u /\ ~(pc[t] = "sw_driver" /\ tls[t])
  \/ pc[t] = "exit_once" /\ once = "busy" /\ pc[u] \in {"exit_ctx", "exit_close"}

\* No two threads wait for each other: the trace mutex, the context lock and
\* the pthread_once control are never taken in opposite orders.
NoCircularWait ==
  ~ \E t, u \in Threads : t # u /\ WaitsFor(t, u) /\ WaitsFor(u, t)

\* Every call into the tracer returns to the application: no thread is blocked
\* for ever on a mutex that another one keeps.
EveryCallReturns == \A t \in Threads : pc[t] # "idle" ~> pc[t] = "idle"

\* An accepted request is taken up by a later swap, never left pending.
RequestServed == total # 0 ~> total = 0

-----------------------------------------------------------------------------
(* What a client of the capture interface sees, see CaptureSession.          *)

Phase == IF opened THEN "capturing"
         ELSE IF total # 0 \/ remaining # 0 THEN "armed" ELSE "idle"

Left == IF remaining # 0 THEN remaining ELSE total

Session == INSTANCE CaptureSession
             WITH phase <- Phase, left <- Left, notify <- callback

\* The threads, locks and failures implement the abstract session: a request
\* is not accepted during a capture, frames are counted one at a time, and no
\* callback survives its session or moves to another one.
SessionSpec == Session!Spec
=============================================================================

-------------------------------- MODULE Replay --------------------------------
(***************************************************************************)
(* The replay of a trace: the non-interactive loop of                      *)
(*   src/src/voglreplay/replay_tool_replay.cpp                             *)
(* (events, trim files, the loop over some frames, the end), the part of   *)
(*   src/src/voglcommon/vogl_gl_replayer.cpp                               *)
(* that keeps contexts, waits for the window, puts off glXMakeCurrent and  *)
(* takes and applies state snapshots, and the SDL window of                *)
(*   src/src/voglcommon/vogl_replay_window.cpp,                            *)
(* which the window system resizes when it likes to.                       *)
(*                                                                         *)
(* The trace is chosen packet by packet while it is read for the first     *)
(* time, from the calls that a program with any number of threads may      *)
(* make; a second reading finds the same packets.                          *)
(***************************************************************************)
EXTENDS Integers, Sequences, FiniteSets

CONSTANTS
  MaxContexts,  \* bound on the contexts of the traced program
  MaxPackets,   \* bound on the packets of the trace
  Sizes,        \* sizes of windows
  FirstSize,    \* the size of the replayer's window at the start
  MaxAttempts,  \* cMaxSecsToWait
  LoopLen,      \* -loop_len
  LoopCount,    \* -loop_count
  Options       \* choices of -loop_frame (-1 is none) and -trim_frame

ASSUME ReplayAssumption ==
  /\ MaxContexts \in Nat /\ MaxPackets \in Nat
  /\ MaxAttempts \in Nat \ {0} /\ LoopLen \in Nat \ {0} /\ LoopCount \in Nat
  /\ 0 \notin Sizes /\ FirstSize \in Sizes
  /\ \A o \in Options : o.loop \in Int /\ o.trims \subseteq Nat
  /\ \A o \in Options : o.trims = {} \/ o.loop = -1

VARIABLES
  \* the trace
  trace,      \* its packets, as far as they have been read
  ended,      \* they are all there are
  pos,        \* the packets before the reader's position
  \* the tool
  opt,        \* the options chosen
  pc,         \* the place in do_non_interactive_mode
  status,     \* the replayer's last status
  snap,       \* pSnapshot
  loopStart,  \* snapshot_loop_start_frame
  loops,      \* loop_count
  trims,      \* num_trim_files_written
  result,     \* why the tool stopped
  \* the replayer
  contexts,   \* the keys of m_contexts
  made,       \* those with m_has_been_made_current
  cur,        \* m_cur_trace_context
  frame,      \* m_frame_index
  boundary,   \* m_at_frame_boundary
  resize,     \* m_pending_window_resize_width and _height; 0 is none
  attempts,   \* m_pending_window_resize_attempt_counter
  pendingSnapshot,     \* m_pPending_snapshot
  pendingMakeCurrent,  \* m_pending_make_current_packet
  \* the window and the driver
  width,      \* m_width and m_height of the window object
  actual,     \* the window's actual dimensions
  drv,        \* the driver's current context
  \* history
  shown,      \* how often each frame of the trace was shown
  trimmed     \* the frames that have a trim file

file == <<trace, ended, pos>>
tool == <<opt, pc, status, snap, loopStart, loops, trims, result>>
pending == <<resize, attempts, pendingSnapshot, pendingMakeCurrent>>
known == <<contexts, made, cur>>
history == <<shown, trimmed>>
vars == <<file, tool, known, frame, boundary, pending, width, actual, drv, history>>

None == "none"

-----------------------------------------------------------------------------
(* The traced program.                                                       *)

Packet(op, by, ctx, size) == [op |-> op, by |-> by, ctx |-> ctx, size |-> size]

NoProgram == [count |-> 0, alive |-> {}, held |-> {}, made |-> {}, frame |-> 0]

\* A trace that starts with a snapshot has a context, which is current.
InSnapshot == [NoProgram EXCEPT !.count = 1, !.alive = {1}, !.held = {1}, !.made = {1}]

\* The program after one more call; held are the contexts current on a thread.
After(program, p) ==
  CASE p.op \in {"call", "share"} -> program
    [] p.op = "create" -> [program EXCEPT !.count = @ + 1, !.alive = @ \union {p.ctx}]
    [] p.op = "destroy" -> [program EXCEPT !.alive = @ \ {p.ctx},
                                           !.held = @ \ {p.ctx}, !.made = @ \ {p.ctx}]
    [] p.op = "current" -> [program EXCEPT !.held = (@ \ {p.by}) \union ({p.ctx} \ {0}),
                                           !.made = @ \union ({p.ctx} \ {0})]
    [] p.op = "swap" -> [program EXCEPT !.frame = @ + 1]
    [] p.op = "snapshot" -> InSnapshot

Program(n) ==
  LET at[i \in 0..n] == IF i = 0 THEN NoProgram ELSE After(at[i - 1], trace[i]) IN at[n]

\* m_cur_frame_index of the reader.
ReaderFrame == Program(pos).frame

\* The position at which a frame begins.
PosOf(f) == CHOOSE n \in 0..Len(trace) :
              /\ Program(n).frame = f
              /\ n = 0 \/ Program(n - 1).frame < f

\* The calls that the program may make next.  by is the context of the calling
\* thread; a context is destroyed by a thread if no other thread has it.
Calls(program) ==
  LET by == program.held \union {0} IN
  {Packet("create", h, program.count + 1, 0) :
      h \in IF program.count < MaxContexts THEN by ELSE {}}
  \union {Packet("share", h, c, 0) : h \in by, c \in program.alive}
  \union {Packet("current", h, 0, 0) : h \in program.held}
  \union (UNION {{Packet("current", h, c, s) :
                     c \in (program.alive \ program.held) \union ({h} \ {0}), s \in Sizes} : h \in by})
  \union (UNION {{Packet("destroy", h, c, 0) :
                     c \in program.alive \ (program.held \ {h})} : h \in by})
  \union {Packet("swap", h, 0, s) : h \in program.held, s \in Sizes}
  \union {Packet("call", h, 0, 0) : h \in program.held}
  \union {Packet("snapshot", 0, 0, s) : s \in IF trace = <<>> THEN Sizes ELSE {}}

-----------------------------------------------------------------------------
(* The replayer.                                                             *)

NoSnapshot == [contexts |-> {}, made |-> {}, frame |-> 0, boundary |-> FALSE, size |-> 0]
NoPacket == Packet(None, 0, 0, 0)

\* The snapshot that a trace of a running program starts with.
TraceSnapshot(size) ==
  [contexts |-> InSnapshot.alive, made |-> InSnapshot.made, frame |-> 0,
   boundary |-> TRUE, size |-> size]

Init ==
  /\ trace = <<>> /\ ended = FALSE /\ pos = 0
  /\ opt \in Options /\ pc = "top" /\ status = "ok" /\ snap = NoSnapshot
  /\ loopStart = -1 /\ loops = LoopCount /\ trims = 0 /\ result = None
  /\ contexts = {} /\ made = {} /\ cur = 0
  /\ frame = 0 /\ boundary = TRUE
  /\ resize = 0 /\ attempts = 0
  /\ pendingSnapshot = NoSnapshot /\ pendingMakeCurrent = NoPacket
  /\ width = FirstSize /\ actual = FirstSize /\ drv = 0
  /\ shown = [f \in 0..MaxPackets |-> 0] /\ trimmed = {}

\* has_pending_packets
HasPending == pendingSnapshot # NoSnapshot \/ pendingMakeCurrent # NoPacket

\* switch_contexts; make_current(NULL) for a context that is not known.
Switched(c) ==
  [cur |-> c, drv |-> IF c = cur THEN drv ELSE IF c \in contexts THEN c ELSE 0]

\* trigger_pending_window_resize: the window object takes the size at once.
TriggerResize(size) ==
  /\ resize' = size
  /\ attempts' = 0
  /\ width' = size

\* snapshot_state makes every context current that has been so before, in the
\* order of a hash map; there is no switch to the only one if it is current.
Capture ==
  /\ cur' \in (IF made = {} THEN {cur} ELSE made)
  /\ drv' = IF made \subseteq {cur} THEN drv ELSE cur'

Captured ==
  [contexts |-> contexts, made |-> made, frame |-> frame, boundary |-> boundary, size |-> width]

\* begin_applying_snapshot with its reset_state: the snapshot waits for the window.
BeginApplying(s) ==
  /\ contexts' = {} /\ made' = {} /\ cur' = 0
  /\ drv' = IF contexts = {} THEN drv ELSE 0
  /\ frame' = s.frame
  /\ boundary' = FALSE
  /\ pendingSnapshot' = s /\ pendingMakeCurrent' = NoPacket
  /\ TriggerResize(s.size)

WrongApplySnapshot ==
  LET s == pendingSnapshot IN
  /\ contexts' = s.contexts /\ made' = {}
  /\ cur' \in (IF s.made = {} THEN {cur} ELSE s.made)
  /\ drv' \in (IF Cardinality(s.made) > 1 THEN {cur'}
               ELSE IF s.contexts = {} THEN {drv} ELSE s.contexts)
  /\ frame' = s.frame /\ boundary' = s.boundary
  /\ pendingSnapshot' = NoSnapshot

\* process_applying_pending_snapshot.  SDL makes a new context current; contexts
\* come back in any order, and in the end the replayer switches to those that had
\* been current, which does nothing if there is only one.
ApplySnapshot ==
  LET s == pendingSnapshot IN
  /\ contexts' = s.contexts /\ made' = s.made
  /\ cur' \in (IF s.made = {} THEN {cur} ELSE s.made)
  /\ drv' \in (IF Cardinality(s.made) > 1 THEN {cur'}
               ELSE IF s.contexts = {} THEN {drv} ELSE s.contexts)
  /\ frame' = s.frame /\ boundary' = s.boundary
  /\ pendingSnapshot' = NoSnapshot

\* process_pending_make_current, and the same lines of glXMakeCurrent.
MakeCurrent(c) ==
  /\ cur' = c
  /\ drv' = c
  /\ made' = made \union ({c} \ {0})

-----------------------------------------------------------------------------
(* process_gl_entrypoint_packet_internal: one definition for each packet.    *)

Create(p) ==
  /\ p.op = "create"
  /\ contexts' = contexts \union {p.ctx}
  /\ cur' = p.by
  /\ drv' = p.ctx
  /\ status' = "ok" /\ boundary' = FALSE
  /\ UNCHANGED <<made, frame, pending, width, shown>>

Destroy(p) ==
  /\ p.op = "destroy"
  /\ p.ctx \in contexts
  /\ contexts' = contexts \ {p.ctx}
  /\ made' = made \ {p.ctx}
  /\ cur' = IF p.ctx = p.by THEN 0 ELSE p.by
  /\ drv' = IF p.ctx = Switched(p.by).drv THEN 0 ELSE Switched(p.by).drv
  /\ status' = "ok" /\ boundary' = FALSE
  /\ UNCHANGED <<frame, pending, width, shown>>

WrongDefer(p) ==
  /\ p.op = "current"
  /\ p.ctx \in contexts
  /\ p.size # width
  /\ pendingMakeCurrent' = p
  /\ TriggerResize(p.size)
  /\ cur' = p.by
  /\ drv' = Switched(p.by).drv
  /\ status' = "ok" /\ boundary' = FALSE
  /\ UNCHANGED <<contexts, made, frame, pendingSnapshot, shown>>

Defer(p) ==
  /\ p.op = "current"
  /\ p.ctx \in contexts
  /\ p.size # width
  /\ pendingMakeCurrent' = p
  /\ TriggerResize(p.size)
  /\ cur' = p.by
  /\ drv' = Switched(p.by).drv
  /\ status' = "resize" /\ boundary' = FALSE
  /\ UNCHANGED <<contexts, made, frame, pendingSnapshot, shown>>

MakeCurrentNow(p) ==
  /\ p.op = "current"
  /\ p.ctx \in contexts \union {0}
  /\ p.ctx = 0 \/ p.size = width
  /\ MakeCurrent(p.ctx)
  /\ status' = "ok" /\ boundary' = FALSE
  /\ UNCHANGED <<contexts, frame, pending, width, shown>>

Swap(p) ==
  /\ p.op = "swap"
  /\ cur' = p.by
  /\ drv' = Switched(p.by).drv
  /\ frame' = frame + 1
  /\ shown' = [shown EXCEPT ![ReaderFrame] = @ + 1]
  /\ IF p.size # width THEN TriggerResize(p.size) ELSE UNCHANGED <<resize, attempts, width>>
  /\ status' = "next" /\ boundary' = TRUE
  /\ UNCHANGED <<contexts, made, pendingSnapshot, pendingMakeCurrent>>

Call(p) ==
  /\ p.op = "call"
  /\ cur' = p.by
  /\ drv' = Switched(p.by).drv
  /\ status' = "ok" /\ boundary' = FALSE
  /\ UNCHANGED <<contexts, made, frame, pending, width, shown>>

\* process_internal_trace_command
Snapshot(p) ==
  /\ p.op = "snapshot"
  /\ BeginApplying(TraceSnapshot(p.size))
  /\ status' = "resize"
  /\ UNCHANGED shown

Processed(p) ==
  Create(p) \/ Destroy(p) \/ Defer(p) \/ MakeCurrentNow(p) \/ Swap(p) \/ Call(p) \/ Snapshot(p)

\* SDL cannot share contexts; a context that is not known cannot be made current
\* or destroyed; the driver may refuse a new or a current context.
Refusable(p) ==
  \/ p.op \in {"share", "create", "current"}
  \/ (p.op = "destroy" /\ p.ctx \notin contexts)
  \/ (p.op # "snapshot" /\ p.by # cur)

-----------------------------------------------------------------------------
(* The tool.                                                                 *)

Stop(why) ==
  /\ pc' = "done"
  /\ result' = why

\* check_events: the user closes the window, or it was moved or resized.
Close ==
  /\ pc = "top"
  /\ Stop("closed")
  /\ UNCHANGED <<file, opt, status, snap, loopStart, loops, trims, known, frame, boundary, pending,
                 width, actual, drv, history>>

WindowEvent ==
  /\ pc = "top"
  /\ width' = actual
  /\ UNCHANGED <<file, tool, known, frame, boundary, pending, actual, drv, history>>

\* A trim file is asked for at the start of this frame.
Trims == boundary /\ frame \in opt.trims

WriteTrim ==
  /\ pc = "top"
  /\ Trims
  /\ Capture
  /\ trims' = trims + 1
  /\ trimmed' = trimmed \union {frame}
  /\ IF trims + 1 = Cardinality(opt.trims) THEN Stop("trimmed")
     ELSE pc' = "wait" /\ UNCHANGED result
  /\ UNCHANGED <<file, opt, status, snap, loopStart, loops, contexts, made, frame, boundary, pending,
                 width, actual, shown>>

\* The loop starts at this frame.
Snaps == boundary /\ frame = opt.loop /\ loopStart = -1

TakeSnapshot ==
  /\ pc = "top"
  /\ Snaps
  /\ Capture
  /\ snap' = Captured
  /\ loopStart' = ReaderFrame
  /\ pc' = "wait"
  /\ UNCHANGED <<file, opt, status, loops, trims, result, contexts, made, frame, boundary, pending,
                 width, actual, history>>

CaptureFails ==
  /\ pc = "top"
  /\ Trims \/ Snaps
  /\ Stop("failed")
  /\ UNCHANGED <<file, opt, status, snap, loopStart, loops, trims, known, frame, boundary, pending,
                 width, actual, drv, history>>

BeginFrame ==
  /\ pc = "top"
  /\ ~Trims /\ ~Snaps
  /\ pc' = "wait"
  /\ UNCHANGED <<file, opt, status, snap, loopStart, loops, trims, result, known, frame, boundary,
                 pending, width, actual, drv, history>>

-----------------------------------------------------------------------------
(* process_pending_window_resize.                                            *)

\* A second has gone by.  What the tool does in the calls of the second before,
\* it does in this one too.
AskAgain ==
  /\ pc = "wait"
  /\ resize # 0 /\ actual # resize
  /\ attempts + 1 < MaxAttempts
  /\ attempts' = attempts + 1
  /\ width' = resize
  /\ status' = "resize"
  /\ pc' = "end"
  /\ UNCHANGED <<file, opt, snap, loopStart, loops, trims, result, known, frame, boundary, resize,
                 pendingSnapshot, pendingMakeCurrent, actual, drv, history>>

WrongWaitOver == resize # 0 /\ actual = resize

\* The window has its size, or it has had all its time.
WaitOver == resize # 0 /\ (actual = resize \/ attempts + 1 >= MaxAttempts)

EndWait ==
  /\ pc = "wait"
  /\ resize = 0 \/ WaitOver
  /\ resize' = 0 /\ attempts' = 0
  /\ width' = IF resize = 0 THEN width ELSE actual
  /\ IF pendingSnapshot # NoSnapshot THEN ApplySnapshot
     ELSE UNCHANGED <<known, drv, frame, boundary, pendingSnapshot>>
  /\ status' = "ok"
  /\ pc' = "packets"
  /\ UNCHANGED <<file, opt, snap, loopStart, loops, trims, result, pendingMakeCurrent, actual,
                 history>>

\* Restoring a snapshot fails: process_applying_pending_snapshot resets the state.
ApplyFails ==
  /\ pc = "wait"
  /\ resize = 0 \/ WaitOver
  /\ pendingSnapshot # NoSnapshot
  /\ Stop("failed")
  /\ UNCHANGED <<file, opt, status, snap, loopStart, loops, trims, known, frame, boundary, pending,
                 width, actual, drv, history>>

-----------------------------------------------------------------------------
(* The packets of a frame.                                                   *)

\* process_pending_packets; a pending snapshot was applied when the wait ended.
ProcessPending ==
  /\ pc = "packets"
  /\ HasPending
  /\ pendingMakeCurrent.ctx \in contexts
  /\ MakeCurrent(pendingMakeCurrent.ctx)
  /\ pendingMakeCurrent' = NoPacket
  /\ status' = "ok"
  /\ UNCHANGED <<file, opt, pc, snap, loopStart, loops, trims, result, contexts, frame, boundary,
                 resize, attempts, pendingSnapshot, width, actual, history>>

\* What read_next_packet may find: the packet at this place or, in a trace that
\* has not been read so far and may go on, any that the program may cause.
Candidates ==
  IF pos < Len(trace) THEN {trace[pos + 1]}
  ELSE IF ended \/ pos = MaxPackets THEN {}
  ELSE Calls(Program(pos))

Reads(p) ==
  /\ pos' = pos + 1
  /\ trace' = IF pos < Len(trace) THEN trace ELSE Append(trace, p)
  /\ UNCHANGED ended

ProcessNext ==
  /\ pc = "packets"
  /\ ~HasPending
  /\ \E p \in Candidates : Reads(p) /\ Processed(p)
  /\ pc' = IF status' = "ok" THEN "packets" ELSE "end"
  /\ UNCHANGED <<opt, snap, loopStart, loops, trims, result, actual, trimmed>>

ReachEnd ==
  /\ pc = "packets"
  /\ ~HasPending
  /\ pos = Len(trace)
  /\ ended' = TRUE
  /\ status' = "eof"
  /\ pc' = "end"
  /\ UNCHANGED <<trace, pos, opt, snap, loopStart, loops, trims, result, known, frame, boundary,
                 pending, width, actual, drv, history>>

\* cStatusHardFailure
Fails ==
  /\ pc = "packets"
  /\ \/ /\ HasPending
        /\ UNCHANGED file
     \/ /\ ~HasPending
        /\ \E p \in Candidates : Refusable(p) /\ Reads(p)
  /\ Stop("failed")
  /\ UNCHANGED <<opt, status, snap, loopStart, loops, trims, known, frame, boundary, pending,
                 width, actual, drv, history>>

-----------------------------------------------------------------------------
(* The end of a frame.                                                       *)

AtLoopEnd == loopStart # -1 /\ ReaderFrame = loopStart + LoopLen

WrongLoopAgain ==
  /\ boundary
  /\ loops >= 0
  /\ AtLoopEnd \/ (status = "eof" /\ loopStart # -1)

LoopAgain ==
  /\ boundary
  /\ loops > 0
  /\ AtLoopEnd \/ (status = "eof" /\ loopStart # -1)

Rewind ==
  /\ pc = "end"
  /\ LoopAgain
  /\ BeginApplying(snap)
  /\ status' = "resize"
  /\ pos' = PosOf(loopStart)
  /\ loops' = loops - 1
  /\ pc' = "top"
  /\ UNCHANGED <<trace, ended, opt, snap, loopStart, trims, result, actual, history>>

EndReplay ==
  /\ pc = "end"
  /\ ~LoopAgain
  /\ AtLoopEnd \/ status = "eof"
  /\ Stop(IF AtLoopEnd THEN "looped" ELSE "eof")
  /\ UNCHANGED <<file, opt, status, snap, loopStart, loops, trims, known, frame, boundary, pending,
                 width, actual, drv, history>>

NextFrame ==
  /\ pc = "end"
  /\ ~LoopAgain /\ ~AtLoopEnd /\ status # "eof"
  /\ pc' = "top"
  /\ UNCHANGED <<file, opt, status, snap, loopStart, loops, trims, result, known, frame, boundary,
                 pending, width, actual, drv, history>>

\* The window system: the window gets some size, asked for or not.  Where the
\* code does not look at the size, the change may as well come later.
WindowChanges ==
  /\ pc \in {"top", "wait"}
  /\ actual' \in Sizes \ {actual}
  /\ UNCHANGED <<file, tool, known, frame, boundary, pending, width, drv, history>>

Frame ==
  \/ WriteTrim \/ TakeSnapshot \/ CaptureFails \/ BeginFrame
  \/ AskAgain \/ EndWait \/ ApplyFails
  \/ ProcessPending \/ ProcessNext \/ ReachEnd \/ Fails
  \/ Rewind \/ EndReplay \/ NextFrame

Next == Frame \/ Close \/ WindowEvent \/ WindowChanges

\* The tool runs until it stops.
Fairness == WF_vars(Frame)

Spec == Init /\ [][Next]_vars /\ Fairness

-----------------------------------------------------------------------------
(* Properties.                                                               *)

\* Variables have their types.
TypeOK ==
  /\ Len(trace) <= MaxPackets /\ pos \in 0..Len(trace) /\ ended \in BOOLEAN
  /\ opt \in Options /\ pc \in {"top", "wait", "packets", "end", "done"}
  /\ status \in {"ok", "next", "resize", "eof"}
  /\ result \in {None, "closed", "failed", "trimmed", "looped", "eof"}
  /\ loops \in 0..LoopCount /\ loopStart \in -1..MaxPackets /\ trims \in Nat
  /\ contexts \subseteq 1..MaxContexts /\ made \subseteq contexts
  /\ cur \in 0..MaxContexts /\ drv \in 0..MaxContexts
  /\ frame \in 0..MaxPackets /\ boundary \in BOOLEAN
  /\ resize \in Sizes \union {0} /\ attempts \in 0..(MaxAttempts - 1)
  /\ width \in Sizes /\ actual \in Sizes

\* Whenever nothing is put off, the replayer has the contexts that the program had
\* at this place of the trace, with those made current that had been, and counts
\* the same frame, however often the window was waited for and frames were looped.
FollowsTrace ==
  (pc # "done" /\ ~HasPending) =>
    LET program == Program(pos) IN
    /\ contexts = program.alive
    /\ made = program.made
    /\ frame = program.frame

\* No packet is processed while the window is still to be resized, a snapshot to
\* be applied or a context to be made current.
PacketsWait ==
  [][pos' = pos + 1 => (resize = 0 /\ ~HasPending)]_vars

\* A replay that came to its end has shown the frames before the loop once and
\* those of the loop as often as was asked for, unless the trace has no such
\* frame or ends inside of one.
LoopsAreRight ==
  LET last == Program(Len(trace)).frame
      whole == result = "looped" \/ boundary
      Times(f) ==
        IF f >= last \/ (loopStart # -1 /\ f >= loopStart + LoopLen) THEN 0
        ELSE IF loopStart # -1 /\ f >= loopStart /\ whole THEN 1 + LoopCount
        ELSE 1
  IN
  result \in {"looped", "eof"} => \A f \in 0..MaxPackets : shown[f] = Times(f)

\* When the tool says that all trim files are written, they are.
TrimsAreWritten == result = "trimmed" => trimmed = opt.trims

\* A GL call is executed in the context it was traced in.
CallsLand ==
  [][(pos' = pos + 1 /\ trace'[pos'].op \in {"call", "swap"} /\ pc' # "done")
       => drv' = trace'[pos'].by]_vars

\* Every replay comes to an end, whatever the window system does.
ReplayEnds == <>(pc = "done")

=============================================================================

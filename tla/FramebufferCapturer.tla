-------------------------- MODULE FramebufferCapturer --------------------------
(***************************************************************************)
(* The asynchronous screen capture of the tracer,                          *)
(* src/src/voglcommon/vogl_framebuffer_capturer.cpp, and what vogltrace    *)
(* does with it: each swap reads the back buffer into a ring of pixel      *)
(* buffers, and a buffer is mapped and written out when the ring is full,  *)
(* the window changes its size, the context is released or destroyed, or a *)
(* capture ends.  The last may happen in a signal handler that interrupts  *)
(* the thread anywhere, so that every access of the ring that a handler's  *)
(* flush could come before or after is a step of its own.                  *)
(*                                                                         *)
(* One context and the thread that renders with it.  A frame is its index, *)
(* its size and whether the context was current when it was swapped.       *)
(***************************************************************************)
EXTENDS Integers, Sequences

CONSTANTS
  NumBufs,    \* argument of init: 2 in vogl_tick_screen_capture
  cMaxBufs,   \* vogl_framebuffer_capturer::cMaxBufs
  Sizes,      \* sizes of the window
  UINT32_MAX, \* the greatest value of the counters
  MaxFrames,  \* bound on the swaps
  GLFails,    \* TRUE: creating, reading and mapping buffers may fail
  Strikes     \* the places at which a signal handler may strike

ASSUME CapturerAssumption ==
  /\ cMaxBufs \in Nat
  /\ NumBufs \in 1..cMaxBufs
  /\ UINT32_MAX \in Nat /\ cMaxBufs < UINT32_MAX
  /\ MaxFrames \in Nat
  /\ GLFails \in BOOLEAN

VARIABLES
  up,       \* m_initialized
  pbos,     \* m_pbos: the GL buffer, m_busy and what was read into it
  head,     \* m_pbo_head
  tail,     \* m_pbo_tail
  numBusy,  \* m_num_busy_pbos
  size,     \* m_cur_width and m_cur_height
  pc,       \* the place the rendering thread has reached
  call,     \* the call it is in
  buf,      \* its reference to the buffer to flush, a slot
  reg,      \* what it has loaded of tail or numBusy, to store it changed
  current,  \* the context is current on this thread
  alive,    \* the context was not destroyed
  swaps,    \* m_frame_index of the context
  shot,     \* history: the frames that capture() has read
  done      \* history: what became of them, in order

ringVars == <<pbos, head, tail, numBusy>>
locals == <<buf, reg>>
appVars == <<current, alive, swaps>>
vars == <<up, ringVars, size, pc, call, locals, appVars, shot, done>>

\* Where the thread is: outside, in capture(), in flush(), in both, and in
\* their callers.  A place is named for what it does next.
CapturePlaces == {"room", "full", "check", "create", "read", "fill", "head",
                  "add", "add_store"}
FlushPlaces == {"flush", "take", "test", "clear", "write", "tail", "tail_store",
                "count", "count_store"}
Places == {"app", "switch", "deinit", "dead"} \union CapturePlaces
                                              \union FlushPlaces

Slots == 0..(NumBufs - 1)
Succ(i) == (i + 1) % NumBufs
NoSize == "0x0"
NoFrame == [index |-> 0, size |-> NoSize, current |-> FALSE]
NoCall == [op |-> "none", size |-> NoSize]
Cleared == [buffer |-> "none", busy |-> FALSE, frame |-> NoFrame]

Init ==
  /\ up = FALSE
  /\ pbos = [i \in Slots |-> Cleared]
  /\ head = 0 /\ tail = 0 /\ numBusy = 0
  /\ size = NoSize
  /\ pc = "app" /\ call = NoCall
  /\ buf = 0 /\ reg = 0
  /\ current = TRUE /\ alive = TRUE /\ swaps = 0
  /\ shot = <<>> /\ done = <<>>

\* The slot of the i-th oldest busy buffer, from 0.
SlotOf(i) ==
  IF tail + i < NumBufs THEN tail + i ELSE tail + i - NumBufs

\* flush_pbo has cleared the flag of the buffer at the tail, which still counts.
InHand == pc \in {"write", "tail", "tail_store"}

\* The buffers that hold a frame, the one in hand included: the count is changed
\* after the tail, and after the head.
Held ==
  IF pc \in {"count", "count_store"} THEN numBusy - 1
  ELSE IF pc \in {"head", "add", "add_store"} THEN numBusy + 1 ELSE numBusy

\* The frames that were read and not yet written out, oldest first.  Only a
\* count that has wrapped around exceeds the ring.
Pending ==
  LET first == IF pc \in {"tail", "tail_store"} THEN 1 ELSE 0
      held  == IF Held <= NumBufs THEN Held ELSE NumBufs
  IN [i \in 1..(held - first) |-> pbos[SlotOf(first + i - 1)].frame]

Becomes(how, frames) == [i \in DOMAIN frames |-> [frame |-> frames[i], how |-> how]]

-----------------------------------------------------------------------------
(* The calls of the application and of the tracer.                           *)

\* A swap: capture() flushes the whole ring when the size has changed, and the
\* oldest buffer when no other is free.  Without a current context the tracer
\* makes the one that matches the drawable current for the time of the capture.
Swap ==
  /\ pc = "app"
  /\ swaps < MaxFrames
  /\ \E s \in Sizes :
       /\ call' = [op |-> "capture", size |-> s]
       /\ pc' = IF s # size THEN "flush" ELSE "room"
  /\ up' = TRUE
  /\ swaps' = swaps + 1
  /\ UNCHANGED <<ringVars, size, locals, current, alive, shot, done>>

WrongRelease ==
  /\ pc = "app" /\ current
  /\ call' = [NoCall EXCEPT !.op = "release"]
  /\ pc' = "switch"
  /\ UNCHANGED <<up, ringVars, size, locals, appVars, shot, done>>

\* glXMakeCurrent flushes the context it takes from the thread before it asks
\* the driver, which may refuse.
Release ==
  /\ pc = "app" /\ current
  /\ call' = [NoCall EXCEPT !.op = "release"]
  /\ pc' = IF up THEN "flush" ELSE "switch"
  /\ UNCHANGED <<up, ringVars, size, locals, appVars, shot, done>>

Switch ==
  /\ pc = "switch"
  /\ current' \in BOOLEAN
  /\ pc' = "app" /\ call' = NoCall
  /\ UNCHANGED <<up, ringVars, size, locals, alive, swaps, shot, done>>

MakeCurrent ==
  /\ pc = "app" /\ ~current /\ alive
  /\ current' = TRUE
  /\ UNCHANGED <<up, ringVars, size, pc, call, locals, alive, swaps, shot, done>>

\* vogl_end_capture flushes the thread's current context.
EndCapture ==
  /\ pc = "app" /\ current /\ up
  /\ call' = [NoCall EXCEPT !.op = "end"]
  /\ pc' = "flush"
  /\ UNCHANGED <<up, ringVars, size, locals, appVars, shot, done>>

\* deinit(true) goes on after the flush, deinit(false) drops what is pending.
Deinit ==
  /\ up' = FALSE
  /\ pbos' = [i \in Slots |-> Cleared]
  /\ head' = 0 /\ tail' = 0 /\ numBusy' = 0
  /\ size' = NoSize

\* glXDestroyContext.  The context's object stays, and may still capture, when
\* other contexts share with it.
Destroy ==
  /\ pc = "app" /\ alive
  /\ alive' = FALSE
  /\ IF current /\ up
     THEN /\ call' = [NoCall EXCEPT !.op = "deinit"] /\ pc' = "flush"
          /\ UNCHANGED <<up, ringVars, size, done>>
     ELSE /\ done' = done \o Becomes("dropped", Pending)
          /\ Deinit
          /\ UNCHANGED <<call, pc>>
  /\ UNCHANGED <<locals, current, swaps, shot>>

-----------------------------------------------------------------------------
(* flush and flush_pbo.                                                      *)

Return == pc' = "app" /\ call' = NoCall

\* What the callers of flush do when it returns; only capture() looks at the
\* result.
AfterFlush(ok) ==
  \/ /\ call.op = "capture"
     /\ IF ok THEN pc' = "create" /\ UNCHANGED call ELSE Return
  \/ /\ call.op \in {"release", "deinit"}
     /\ pc' = IF call.op = "release" THEN "switch" ELSE "deinit"
     /\ UNCHANGED call
  \/ /\ call.op = "end"
     /\ Return

FlushDeinit ==
  /\ pc = "deinit"
  /\ Return /\ Deinit
  /\ UNCHANGED <<locals, appVars, shot, done>>

\* The loop of flush, and its reference to the buffer at the tail.
Flushed ==
  /\ pc = "flush"
  /\ IF numBusy = 0 THEN AfterFlush(TRUE) ELSE pc' = "take" /\ UNCHANGED call
  /\ UNCHANGED <<up, ringVars, size, locals, appVars, shot, done>>

Take ==
  /\ pc = "take"
  /\ buf' = tail
  /\ pc' = "test"
  /\ UNCHANGED <<up, ringVars, size, call, reg, appVars, shot, done>>

\* flush_pbo fails for a buffer that is not busy.
FlushPbo ==
  /\ pc = "test"
  /\ IF pbos[buf].buffer # "none" /\ pbos[buf].busy
     THEN pc' = "clear" /\ UNCHANGED call
     ELSE AfterFlush(FALSE)
  /\ UNCHANGED <<up, ringVars, size, locals, appVars, shot, done>>

WrongClear ==
  /\ pc = "clear"
  /\ pc' = "write"
  /\ UNCHANGED <<up, ringVars, size, call, locals, appVars, shot, done>>

\* The flag is cleared before the buffer is mapped, "in case ctrl+c is hit while
\* we're busy flushing the buffer", but not in one step with its test.
Clear ==
  /\ pc = "clear"
  /\ pbos' = [pbos EXCEPT ![buf].busy = FALSE]
  /\ pc' = "write"
  /\ UNCHANGED <<up, head, tail, numBusy, size, call, locals, appVars, shot,
                 done>>

\* A buffer that cannot be mapped is given up.
Write ==
  /\ pc = "write"
  /\ \E how \in {"written"} \union (IF GLFails THEN {"unmapped"} ELSE {}) :
       done' = done \o Becomes(how, <<pbos[buf].frame>>)
  /\ pc' = "tail"
  /\ UNCHANGED <<up, ringVars, size, call, locals, appVars, shot>>

\* Tail and count are each loaded, changed and stored.
LoadTail ==
  /\ pc = "tail"
  /\ reg' = tail
  /\ pc' = "tail_store"
  /\ UNCHANGED <<up, ringVars, size, call, buf, appVars, shot, done>>

WrongStoreTail ==
  /\ pc = "tail_store"
  /\ pc' = "count"
  /\ UNCHANGED <<up, ringVars, size, call, locals, appVars, shot, done>>

StoreTail ==
  /\ pc = "tail_store"
  /\ tail' = Succ(reg)
  /\ pc' = "count"
  /\ UNCHANGED <<up, pbos, head, numBusy, size, call, locals, appVars, shot,
                 done>>

LoadCount ==
  /\ pc \in {"count", "add"}
  /\ reg' = numBusy
  /\ pc' = IF pc = "count" THEN "count_store" ELSE "add_store"
  /\ UNCHANGED <<up, ringVars, size, call, buf, appVars, shot, done>>

\* capture() has made room, flush() looks for more.
StoreLess ==
  /\ pc = "count_store"
  /\ numBusy' = IF reg = 0 THEN UINT32_MAX ELSE reg - 1
  /\ pc' = IF call.op = "capture" /\ call.size = size THEN "read" ELSE "flush"
  /\ UNCHANGED <<up, pbos, head, tail, size, call, locals, appVars, shot, done>>

\* A signal handler ends the capture: it flushes the ring of the thread's context
\* up to the first buffer that is not busy, and returns.  A signal that arrives
\* meanwhile does not flush again.
Signal ==
  /\ pc \in Strikes /\ current /\ up
  /\ \E n \in 1..NumBufs :
       /\ n <= numBusy
       /\ \A i \in 0..(n - 1) : pbos[SlotOf(i)].busy
       /\ n = numBusy \/ n = NumBufs \/ ~pbos[SlotOf(n)].busy
       /\ \E lost \in SUBSET (IF GLFails THEN 1..n ELSE {}) :
            done' = done \o [i \in 1..n |->
              [frame |-> pbos[SlotOf(i - 1)].frame,
               how |-> IF i \in lost THEN "unmapped" ELSE "written"]]
       /\ pbos' = [s \in Slots |->
            [pbos[s] EXCEPT !.busy = @ /\ \A i \in 0..(n - 1) : s # SlotOf(i)]]
       /\ tail' = SlotOf(n) /\ numBusy' = numBusy - n
  /\ UNCHANGED <<up, head, size, pc, call, locals, appVars, shot>>

-----------------------------------------------------------------------------
(* recreate_buffers and capture.                                             *)

\* The first n buffers are created with their storage; the next, if any, fails
\* before or after its name is generated.  The new size is kept all the same.
Created(n, buffer) ==
  [i \in Slots |-> [Cleared EXCEPT !.buffer =
     IF i < n THEN "storage" ELSE IF i = n THEN buffer ELSE "none"]]

\* delete_all_bufs and the creation: one step, as nothing counts as busy.
Create ==
  /\ pc = "create"
  /\ size' = call.size
  /\ numBusy' = 0
  /\ \/ /\ pbos' = Created(NumBufs, "none")
        /\ pc' = "room"
        /\ UNCHANGED call
     \/ /\ GLFails
        /\ \E n \in Slots, b \in {"none", "empty"} : pbos' = Created(n, b)
        /\ Return
  /\ UNCHANGED <<up, head, tail, locals, appVars, shot, done>>

\* A full ring has its oldest buffer flushed, if it is still busy when capture()
\* has got hold of it; the tail is moved on in any case.
MakeRoom ==
  /\ \/ pc = "room" /\ pc' = (IF numBusy = NumBufs THEN "full" ELSE "read")
                    /\ UNCHANGED buf
     \/ pc = "full" /\ pc' = "check" /\ buf' = tail
     \/ pc = "check" /\ pc' = (IF pbos[buf].busy THEN "test" ELSE "tail")
                     /\ UNCHANGED buf
  /\ UNCHANGED <<up, ringVars, size, call, reg, appVars, shot, done>>

\* glReadPixels into a buffer fails if the buffer has no storage; without a
\* buffer it writes to the address 0 and the process dies.  Into a busy buffer
\* nothing is read.
Read ==
  /\ pc = "read"
  /\ ~pbos[head].busy
  /\ pbos[head].buffer = "storage"
  /\ pc' = "fill"
  /\ UNCHANGED <<up, ringVars, size, call, locals, appVars, shot, done>>

ReadFails ==
  /\ pc = "read"
  /\ pbos[head].busy \/ (GLFails /\ pbos[head].buffer # "none")
  /\ Return
  /\ UNCHANGED <<up, ringVars, size, locals, appVars, shot, done>>

ReadNowhere ==
  /\ pc = "read"
  /\ ~pbos[head].busy
  /\ pbos[head].buffer = "none"
  /\ pc' = "dead"
  /\ UNCHANGED <<up, ringVars, size, call, locals, appVars, shot, done>>

\* The buffer gets its frame index and its flag, then head and count change.
Fill ==
  /\ pc = "fill"
  /\ LET f == [index |-> swaps, size |-> size, current |-> current]
     IN /\ pbos' = [pbos EXCEPT ![head].busy = TRUE, ![head].frame = f]
        /\ shot' = Append(shot, f)
  /\ pc' = "head"
  /\ UNCHANGED <<up, head, tail, numBusy, size, call, locals, appVars, done>>

StoreHead ==
  /\ pc = "head"
  /\ head' = Succ(head)
  /\ pc' = "add"
  /\ UNCHANGED <<up, pbos, tail, numBusy, size, call, locals, appVars, shot,
                 done>>

StoreMore ==
  /\ pc = "add_store"
  /\ numBusy' = IF reg = UINT32_MAX THEN 0 ELSE reg + 1
  /\ Return
  /\ UNCHANGED <<up, pbos, head, tail, size, locals, appVars, shot, done>>

Next ==
  \/ Swap \/ Release \/ Switch \/ MakeCurrent \/ EndCapture \/ Destroy
  \/ FlushDeinit \/ Flushed \/ Take \/ FlushPbo \/ Clear \/ Write
  \/ LoadTail \/ StoreTail \/ LoadCount \/ StoreLess \/ Signal
  \/ Create \/ MakeRoom \/ Read \/ ReadFails \/ ReadNowhere
  \/ Fill \/ StoreHead \/ StoreMore

Spec == Init /\ [][Next]_vars

-----------------------------------------------------------------------------
(* Properties.                                                               *)

\* Where the interrupted code has tested the ring or loaded its count, and acts
\* upon what it saw after a handler's flush: the windows that the code leaves open.
Windows == {"full", "check", "clear", "count_store", "add_store"}

Frames == [index : Nat, size : Sizes \union {NoSize}, current : BOOLEAN]

Buffers ==
  [buffer : {"none", "empty", "storage"}, busy : BOOLEAN, frame : Frames]

Calls == [op : {"none", "capture", "release", "end", "deinit"},
          size : Sizes \union {NoSize}]

\* Type invariant: the indices stay inside the ring.
TypeOK ==
  /\ up \in BOOLEAN
  /\ pbos \in [Slots -> Buffers]
  /\ head \in Slots /\ tail \in Slots /\ numBusy \in 0..UINT32_MAX
  /\ size \in Sizes \union {NoSize}
  /\ pc \in Places
  /\ call \in Calls
  /\ buf \in Slots /\ reg \in 0..UINT32_MAX
  /\ current \in BOOLEAN /\ alive \in BOOLEAN
  /\ swaps \in Nat

\* What the thread has tested, loaded or got hold of, and relies on.
LocalsOK ==
  /\ pc \in {"full", "check"} => numBusy = NumBufs
  /\ pc = "check" \/ InHand => buf = tail
  /\ pc = "test" /\ numBusy > 0 => buf = tail
  /\ pc = "clear" => numBusy > 0 /\ buf = tail
  /\ pc = "tail_store" => reg = tail
  /\ pc \in {"count_store", "add_store"} => reg = numBusy
  /\ pc \in {"read", "fill"} => numBusy < NumBufs
  /\ pc = "fill" => pbos[head].buffer = "storage"
  /\ pc \in {"create", "switch", "deinit"} => numBusy = 0

\* The ring of vogl_framebuffer_capturer: the buffers that hold a frame are the
\* slots from the tail on, head follows the last of them, and all but the one in
\* hand have their flag set and storage: in the middle of a flush or a capture,
\* after a failure to create the buffers and after a handler outside of the
\* windows has flushed the ring under the interrupted code.  The assertions of
\* flush and capture follow from it, but for a handler's at "add" and "tail":
\* there head and tail differ by the buffer the interrupted code is at.
RingInv ==
  /\ TypeOK /\ LocalsOK
  /\ numBusy \in 0..NumBufs /\ Held \in 0..NumBufs
  /\ InHand => numBusy > 0
  /\ head = SlotOf(IF pc = "head" THEN numBusy ELSE Held)
  /\ \A i \in 0..(NumBufs - 1) :
       pbos[SlotOf(i)].busy <=> i < Held /\ ~(i = 0 /\ InHand)
  /\ \A i \in Slots : pbos[i].busy => pbos[i].buffer = "storage"
  /\ pc \notin {"app", "switch", "dead"} => up
  /\ ~up => numBusy = 0

\* Screenshots come out in the order of the swaps, each once and with the size
\* the window had: a frame that capture() has read is written, given up because
\* its buffer cannot be mapped, dropped with its context, or still in the ring,
\* whatever sizes, releases, ends of captures and, outside of the windows,
\* handlers came in between.
FramesInOrder ==
  /\ [i \in DOMAIN done |-> done[i].frame] \o Pending = shot
  /\ \A i \in DOMAIN shot : \A j \in DOMAIN shot :
       i < j => shot[i].index < shot[j].index
  /\ \A i \in 1..Len(Pending) : Pending[i].size = size

\* A context that is not current owes no frame of a swap that was made while it
\* was, so that destroying it drops none of these: only frames that the tracer
\* captured by making the context current for a while may be pending, and only
\* the frames of a context that is destroyed without being current are dropped.
ReleasedIsFlushed ==
  /\ ~current => \A i \in 1..Len(Pending) : ~Pending[i].current
  /\ \A i \in DOMAIN done : done[i].how = "dropped" => ~done[i].frame.current

\* No frame comes out twice: what clearing the flag of a buffer before it is
\* mapped is for, according to the comment on it.
FlushedOnce ==
  \A i, j \in DOMAIN done : done[i].frame.index = done[j].frame.index => i = j

=============================================================================

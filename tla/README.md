# vogl: a verification development

vogl records the OpenGL calls of an application (the *tracer*, a shared object
preloaded into the application) into a trace file and replays the file (the
*replayer*); a small network layer lets an editor on another machine start
applications and captures.  This directory holds TLA+ models of its concurrent
and stateful parts, written from the C++ sources under `src/src`, the TLC
configurations that check them and TLAPS proofs of their main invariants.
`PROJECT.json` maps every definition to the lines it models and lists the
components, runs, findings, hazards and theorems.

## Inventory

| component | where | state | operations | interaction | what makes it correct |
|---|---|---|---|---|---|
| capture control | `vogltrace/vogl_intercept.cpp`, `vogl_trace.cpp` | pending and remaining frames, stop flag, status callback, the one trace writer, two recursive mutexes, thread-local context and serializer | capture and stop requests, every wrapped GL/GLX call, the swap's tick, end of a capture, exit hooks, signal handler | all application threads, the remote listener's thread, a signal handler | one session at a time, the frames asked for, no call lost or doubled with respect to the snapshot, every request served, no deadlock, a trace that is closed at exit |
| trace file writer | `voglcommon/vogl_trace_file_writer.*`, `voglcore/vogl_cfile_stream.h` | open stream and its buffer, archive, frame offsets, call counter | open, write packet, flush, close | owned by the capture control; its file is read by the replayer, perhaps after the tracer was killed | what the file says of itself is true at every moment |
| trace file reader | `voglcommon/vogl_trace_file_reader.*` | position, frame index, frame offsets, saved locations | open, read packet, seek to a frame, last frame, read frames | replayer, editor | knows where it is, finds the frames there are, returns |
| context manager | `vogl_intercept.cpp` 2869-3034 | handle to context map, current context of each thread, share groups with reference counts | create, make current, release, destroy | every GLX entrypoint, the snapshot | a context lives while it is current or shared, no dangling thread-local pointer |
| framebuffer capturer | `voglcommon/vogl_framebuffer_capturer.*` and its callers in `vogl_intercept.cpp` | ring of pixel buffers, window size | capture, flush, recreate buffers, deinit | swaps, context changes, the end of a capture, a signal handler | screenshots in order, each once, none lost by a release |
| message queue | `common/mtqueue.*` | ring of message copies, head, tail, lock | Enqueue, Dequeue, Purge, destruction | the channel manager's threads | FIFO, no loss, no block freed twice |
| socket channel | `common/channel.*` | socket, connection data | Connect, accept, ReadMsg, WriteMsg, Disconnect, reconnect | peers over TCP | messages keep their boundaries and order |
| channel manager | `common/channelmgr.cpp` | two queues, four threads, ready flags, terminate flag | Connect, Accept, SendData, request/response, HasError, Disconnect | queue and channel | nothing accepted is lost silently, the ends find each other again |
| remote listener, relay server | `vogltrace/vogl_remote.cpp`, `voglserver/server.cpp` | the channel managers, capture parameters | one callback that carries out a command | capture control, channel manager | that of what they call |
| task pool | `voglcore/vogl_threading_pthreads.*` | stack of tasks, counters, semaphores, threads | init, queue, join, deinit | resampler, texture packer | join returns after every task, deinit ends |
| GL replayer | `voglcommon/vogl_gl_replayer.*` | contexts, current context, pending resize, pending snapshot and make current, frame counter, handle maps | process packets, wait for the window, take and apply snapshots | driver, window, reader | stands where the program stood, nothing processed too early |
| replay window | `voglcommon/vogl_replay_window.*` | the dimensions it believes | create contexts, resize, look at the dimensions | window system, driver | |
| replayer tool | `voglreplay/replay_tool_replay.cpp` | loop and trim options and counters | one call per frame: events, trims, loop | replayer, reader, window | frames shown and trimmed as often as asked for, comes to an end |
| blob managers, handle tracker, display lists, containers | `voglcommon`, `voglcore` | maps | add, find, remove | everywhere | sequential code |

Not worth a model: the editor (Qt user interface), the code generator, command
line utilities, JSON, compression and image code (sequential), and the
snapshot's per-object getters, which copy what the driver returns.

**Hard behaviours.** Application threads run unmodified GL code and meet in the
tracer at the buffer swap; decisions are taken on `is_opened()` read without the
lock that protects it; a signal handler and three exit hooks enter the same code
with whatever locks the interrupted code held; every stage of starting a capture
can fail with the earlier ones done; the process may be killed while it closes
its trace.  In the network layer threads retry on full queues, connect again in
the middle of messages and find out at different times that a connection is
gone.  The replayer works in steps, puts off what needs a window of another size
and has to go on with it when the window system has answered, or has not.

## Plan

All modules of the plan are written:

1. `TraceCapture` (+ `CaptureSession`, `TraceCaptureProofs`): the capture control
   implements an abstract session.
2. `MtQueue` (+ `BoundedFifo`, `MtQueueProofs`): the message queue implements an
   abstract bounded FIFO.
3. `ContextManager` (+ `ContextManagerProofs`): share lists and reference counts
   under make current and destroy from several threads.
4. `TaskPool` (+ `TaskPoolProofs`): the counters and semaphores of init, queue,
   join, deinit.
5. `FramebufferCapturer` (+ `FramebufferCapturerProofs`): the ring of pixel
   buffers and the tracer's calls of it, with a signal handler on top.
6. `TraceFile` (+ `TraceFileProofs`): writer, file and reader composed, with a crash in between.
7. `ChannelLink` (+ `ChannelLinkProofs`): sender, connection and receiver composed, over a network that
   breaks connections.
8. `Replay` (+ `ReplayProofs`): tool, replayer, window and reader composed, over traces
   chosen while they are read.

Every safety invariant that a passing run checks is also a theorem, and both abstract
specifications are shown to be implemented (`BoundedFifo` by `MtQueue`,
`CaptureSession` by `TraceCapture`).  What has no theorem is liveness, which stays
with TLC.

How the modules meet: `TraceCapture` decides when the writer of `TraceFile` is
opened, written to and closed, and when the capturer is flushed; `ContextManager`
is the bookkeeping behind `TraceCapture`'s make current; `ChannelLink` uses the
effect of `MtQueue`; `Replay` reads with the reader of `TraceFile`.

## TraceCapture

### Correspondence

Globals keep their names without the `g_vogl_` prefix: `total`, `remaining`,
`stop`, `callback`.  `opened` is `get_vogl_trace_writer().is_opened()`;
`traceOwner` and `ctxOwner` own the two recursive mutexes; `callCounter`, `file`
and `ser` are the writer's call counter, the packets in the open file and each
thread's serializer; `driver`, `tls` and `made` say what the driver, the
thread-local data and the context object know of the current context.  `pc[t]`
is the place thread `t` has reached, and `interrupted[t]` the place a signal
handler took it from.  Variables under "History" record what a session was asked
for and what became of it; only properties read them.

A call is split where another thread can come between: at the unlocked reads of
`is_opened()`, at the driver call and at each lock.

| actions | code |
|---|---|
| `CaptureOnNextSwap`, `StopCapturing`, `StopCapturingWithCallback` | the control functions, one critical section each; they stand for the trigger and stop files as well |
| `GLProlog`, `GLDriver`, `GLWrite` | the macros every wrapped entrypoint is made of |
| `MCProlog` ... `MCWrite` | `glXMakeCurrent`, making current or releasing |
| `SwapProlog`, `SwapDriver`, `SwapWrite`, `Tick` | `glXSwapBuffers` and `vogl_tick_capture` |
| `SnapshotBegin` ... `WriteSnapshot` | starting a capture, with its failures |
| `TickEndCtx`, `TickEndClose` | `vogl_end_capture` below a tick |
| `SwapExit`, `ExitAfterFrames`, `ExitCall`, `ExitLock`, `ExitOnce`, `ExitEnd`, `Terminate` | the ways out of the process |
| `Signal`, `SigCtx`, `SigWrite`, `SigClose` | the signal handler, which may return |

Abstractions: each thread has one context of its own; a packet is its thread,
its kind and its call counter; the contents of the snapshot are the call counter
it was taken at.  The driver is external: it refuses a context that is current
on another thread.  Left out: packets stored inside display lists, statistics,
backtraces, and the shadowing of GL state by the custom handlers.

Operators named `Wrong...` are the operators below them with one plausible
mistake.  No action uses them; they are there to show, by substitution, that
each property notices a mistake.

### Runs

| run | instance | what it shows |
|---|---|---|
| `sessions` | 2 threads, 2 requests, 1 frame or all frames, 2 calls in a trace, `exit()`, failing snapshot and open, with a full-stream trace; 2.8 million states | `IdleHasNoFrames`, `CaptureEnds`, `NoStalePacket`, `FramesBounded` (which also bounds what a stop leaves), `CallsFollow`, `NoCircularWait` and the refinement `SessionSpec` |
| `single` | 1 thread, 2 requests, 2 frames, 4 calls, all ways out, signals that return or kill, all failures; 1.7 million states | `TypeOK`, `LocksMatchPlaces`, `ExactFrames`, `ExitClosesTrace` |
| `live` | 2 threads, 1 request, fairness | `EveryCallReturns`, `RequestServed` |

*Bounds.* Two threads are enough for every pairwise race, and the properties
relate at most two threads.  `MaxFrames = 2` separates the first, a middle and
the last frame; `UINT32_MAX` stands for `cUINT32_MAX`.  Two requests let one
replace, follow or fail after another.  `MaxCalls` stops a thread from starting
another call in an open trace: two are enough for one call before and one after
each event of a session.  Symmetry is used for `sessions`, which has no liveness
property.  Deadlock is not checked where a thread may end the process, after
which nothing happens.  Two threads with signals are not a passing run: that is a
deadlock (Known divergences).  `exit()` and `_exit()` together, failing
writes and closes, and threads that render behind the exit hooks, are in no run
with two threads; the theorems below have every fault.

*What becomes of a call that races with an opening trace.* `EndHasBegin` and
`NoLostCall` say what the code's assertion and its header say; with two threads
both are false (Known divergences), and with one they would say nothing about the
race.  What does hold for any number of threads is `CallsFollow`: the race can cost
a thread only calls before its first one in the trace, and only that first one can
be a swap that was never begun; after it there is no hole, and the order is that
of the calls.

*What else two threads may do.* With several swapping threads `ExactFrames` does
not hold (a packet is written before its frame is counted), which is why
`FramesBounded` states the weaker bound and `ExactFrames` is checked for one
thread.  `exit()` on one thread and `_exit()` on another can wait for each other
(trace mutex and `pthread_once` in opposite orders), and a thread that goes on
rendering after another's exit hooks can open a trace that nothing closes; a
signal handler that closes the session in the middle of the tick that starts it
leaves the trace opened by that tick without a frame count.  The first two are not
in the passing runs; the third is in `single`, where `want = 0` says that no session
is left, and it is why `CaptureEnds` speaks of sessions only.

*Fairness.* `Continue(t)` is weakly fair: a thread inside the tracer is
scheduled, and a mutex that stays free is obtained.  `SwapProlog(t)` is strongly
fair: requests and stops are served at swaps only, so the application must go
on rendering; it is enabled only between other calls, hence strong.  Requests,
GL calls and make-currents need no fairness.

### Proofs

`TraceCaptureProofs` proves, for any finite set of threads, any bounds, all faults
and all ways out, unless a hypothesis is named:

- `TypeCorrect`: `Spec => []TypeOK`.  `TypeOK` is inductive by itself; the frame
  counter is decremented only when positive.
- `LockDiscipline`: `Spec => []LocksMatchPlaces`.  The inductive invariant
  `LockInv` adds `FlushInDriver`: a handler that writes a packet, and so holds the
  context lock, interrupted a driver call, in which the thread holds no lock.
  `LockStep` reduces every step to the thread that takes it.
- `NoFrameLeftBehind`: `Spec => []IdleHasNoFrames`.  The inductive invariant
  `FrameInv` adds `NoFramesLeft`, which says at which places of a tick frames may
  be left without an open trace; that the owner of the mutex is at these places
  comes from `LockInv`.
- `SnapshotCorrect`: `Spec => []NoStalePacket`.  The inductive invariant `StaleInv`
  follows a GL packet on its way to the file: from `begin()` to `end()`, at the
  write, or in the hands of a signal handler it has a counter above the
  snapshot's.  The step that could break it is the snapshot itself; it needs every
  context made current in the snapshotting thread, the driver refuses one that
  another thread has, and `PacketOK` says that a thread inside a GL call has a
  context current.
- `EndsCorrect`: `Spec => []CaptureEnds`.  The inductive invariant `SessionInv`
  adds that no request is pending while a trace is open or a tick under way, and
  that a session starts with the frames it was asked for.  `StepKinds` sorts the
  steps of a thread by what they do to a session (record a packet, count a frame,
  take the snapshot, open, end, close, or nothing), and the later proofs have a
  case for each kind.
- `FramesCorrect`: `Spec => []FramesBounded`.  The inductive invariant `QuotaInv`
  counts: the frames in the file and those left exceed the frames asked for by no
  more than the number of threads between their swap's packet and their tick, and
  by one for a tick that ends the capture early on a stop.  After a stop each frame
  in the file belongs to such a thread, and no two to the same one.  This is where
  `IsFiniteSet(Threads)` is needed: a process has finitely many threads.
- `WaitsCorrect`: `Spec => []NoCircularWait` when `Exits` has neither `"signal"` nor
  `"_exit"`.  The inductive invariant `HookInv` says that the exit hooks run with
  the trace mutex; the two ways out excluded run them without it, and there the
  property is false (below, and Known divergences).
- `FollowCorrect`: `Spec => []CallsFollow`.  The inductive invariant `FollowInv`
  adds to `StaleInv` that a packet which may still be written is younger than all
  packets of its thread in the file, and that nothing is ahead of the writer's
  call counter.  A call that is not begun finds the trace closed, hence empty: it
  stays the thread's first, whoever opens the trace meanwhile.
- `FramesExact`, `ExitCorrect`: `ExactFrames` and `ExitClosesTrace` when the
  application has one thread (`Threads = {a}`), with all faults and ways out,
  signal handlers that return included.  They have one inductive invariant,
  `AloneInv`; with two threads both are false, as said above.
- `ImplementsSession`: `Spec => SessionSpec` when `Exits` has no `"signal"`.
  `RefineInv` adds that a callback belongs to a request or a session and that a
  tick which starts a session has frames; then every kind of step is a step of
  `CaptureSession` or a stutter.  A signal handler that returns is excluded: closing
  the session that its own thread is opening, it lets an idle session become a
  capture again without a request.

Of the constants only `CaptureAssumption` is used.  In the two places where the
conclusion speaks of a session (`CaptureEnds`, `FramesBounded`) a session that a
returning signal handler ended while the interrupted tick was starting it counts
as over: the trace that the tick then opens was asked for by no one and is not
bounded.  What is model-checked only is liveness, which with `ENABLED` is beyond the
prover, and the properties of the runs that expect a violation.

## MtQueue

### Correspondence

`list`, `head` and `tail` are `m_pbDataList`, `m_iHead` and `m_iTail`; a message
is the heap block that holds its copy, numbered in the order of copying.
`call[u]` holds the locals `cTries` and `nRetries` of the call thread `u` is in,
`answer[u]` what its last call returned.  `put`, `out` and `freed` are history.

| actions | code |
|---|---|
| `CallEnqueue`, `CallDequeue` | entry, up to the first turn of the loop over the tries |
| `Enqueue`, `EnqueueNoMemory`, `EnqueueFull` | one try of `Enqueue` under the mutex: copied and linked, no memory for the copy, full |
| `Dequeue`, `DequeueEmpty` | one try of `Dequeue` |
| `Delete` | the destructor with `Purge` |

Another thread can come in between two tries, while the caller sleeps: each try
is one action.  `Initialize` is modelled when it succeeds; after a failure the
mutex is not initialised and no use of the class is defined.  The ring's memory
is uninitialised after `malloc`; the pointers it holds then are the number 0,
which is no message.  `Delete` waits until no thread is in a call, because the
destructor leaves that to its caller (`mtqueue.h:60`, "Consumer needs to ensure
this is called safely").

### Runs

| run | instance | what it shows |
|---|---|---|
| `queue` | 2 producers, 2 consumers, a ring of 2, up to 5 messages, 0 to 2 tries, failing allocations; 24 744 states | `RingHoldsMessages`, the refinement `FifoSpec` of `BoundedFifo`, and `Delivered` |

*Bounds.* A ring for two messages has three slots, and five messages go around
it nearly twice, so that head and tail wrap with the ring empty, half full and
full.  Asking for 0, 1 and 2 tries takes the correction of 0, the single try and
a sleep between two tries.  Two threads on each side let a message or a place be
taken by another thread during that sleep.

*Fairness.* Threads inside a call are scheduled (weak fairness of each try), and
consumers call `Dequeue` again, as the channel manager's send loop does.
Producers owe nothing.  The queue may be deleted at any moment no call runs:
`Delivered` then promises nothing.

### Proofs

`MtQueueProofs` proves for every capacity, also 0, any sets of threads and any
numbers of tries and messages:

- `RingCorrect`: `Spec => [](TypeOK /\ RingHoldsMessages)`.  The two together
  (`RingInv`) are inductive.  The arithmetic of the wrap-around is confined to
  three lemmas, `SuccWraps`, `HeadMoves` and `TailMoves`: what moving one index
  does to the count of messages and to the slot of the i-th oldest.
- `FifoCorrect`: `Spec => FifoSpec`.  Every step of the ring is a step or a
  stutter of `BoundedFifo`; the refinement mapping reads the queue as the
  sequence of the messages in the slots from tail to head.  A thread that makes
  its last try sees the real queue, so "full" and "empty" are true when they are
  decided.

Delivery, a liveness property, is model-checked only.

## ContextManager

### Correspondence

A shadow context (`vogl_context`) is a record in `ctx`: its handle, `m_ref_count`,
`m_deleted_flag`, `m_pShared_state` and `m_current_thread`; `live` says which
objects are allocated.  `map` is `m_glx_context_map` and `tls` the `m_pContext` of
each thread.  `alive`, `current`, `group` and `made` belong to the driver.  A call
is split at the driver's call, which the entrypoints make outside the map's lock:

| actions | code |
|---|---|
| `Create`, `CreateBook` | the three functions that create a context: the driver's call, then the shadow object and its share group under the lock |
| `MakeCurrent`, `MCDriver`, `MCBook` | `glXMakeCurrent`: the lookups, the driver's call, release and make current of the shadow objects |
| `Destroy`, `DestroyDriver`, `DestroyBook` | `glXDestroyContext`: the lookup, the driver's call, the reference counts and the map under the lock |

*The application.* It passes handles it was given and has not destroyed, and
destroys no context that another call in progress names.  `app` adds what the
tracer must also live with: `app.reuse`, the driver may give a new context the
handle of a destroyed one that the tracer still knows (a share group's root, or
a context whose `glXDestroyContext` has not done its bookkeeping);
`app.destroyCurrent`, contexts are destroyed while a thread has them current,
which the code reports as an error and goes on.  `SharesAreCounted` holds in all
four combinations; the other invariants name the ones they need.

*Abstractions.* A lookup is atomic: the code dereferences its iterator after it
has released the lock, and a concurrent insertion or removal may have moved the
table, after which nothing is defined (a hazard without a property).  A step that
would use an object that was freed, or NULL, is not taken.  The object tables a
share group holds are left out, as are the WGL functions and
`glXMakeContextCurrent`, which repeat the ones modelled.  The snapshot's own
switching of contexts is part of `TraceCapture`.

### Runs

| run | instance | what it shows |
|---|---|---|
| `contexts` | 2 threads, 3 handles, 3 contexts, all four kinds of application; 768 703 states with symmetry | `SharesAreCounted`; without reuse `HandlesResolve` (no context leaks either) and `FollowsDriver` (groups are the driver's); without reuse and destruction of current contexts `PointersLive` |

*Bounds.* Three contexts make a root, a context that shares with it and one that
shares with that one, destroyed in every order, or two groups of which one is
being created while the other goes.  Two threads give every pairwise race of
two calls.  No thread is obliged to do anything, and after the last context was
destroyed a thread whose context is gone may have no defined step left:
deadlock is not checked.

### Proofs

`ContextManagerProofs` proves `SharesCounted`, `Spec => [](TypeOK /\
SharesAreCounted)`, for any sets of threads and handles, any number of contexts
and every kind of application.  The inductive invariant `CountInv` adds

- `PendingFresh`: the object a creation in progress will fill is allocated by
  nobody else, so that it starts without shares;
- `MapOK`: the map leads to allocated objects of that handle only, and an object
  that others share with can be found in it.  Without it the destruction of the
  last share could erase another context than the group's root;
- `DestroyOK`: a destruction in progress holds an object that is either freed
  already or still in the map under the call's handle, also when the handle was
  given out again meanwhile.

One lemma per action shows that it preserves `CountInv`; the destruction has one
for each of its three outcomes (`DropReference`), which count with the
library's theorems on finite sets.

`HandlesCorrect`, `PointersCorrect` and `DriverCorrect` prove the three other
invariants, `HandlesResolve`, `PointersLive` and `FollowsDriver`, from one
inductive invariant, `ResolveInv`, that adds to `CountInv`

- `HandleInv`, if no handle is reused: a context that exists and is not being
  created has an object in the driver's group (`BookedOK`); what creations and
  destructions in progress have found (`CreatesOK`, `DestroysOK`); that no other
  call uses their context (`Alone`); and what each object is kept for (`LiveOK`):
  an object whose own handle is destroyed has shares left;
- `ThreadInv`, if also no context is destroyed while current: what is current on
  a thread, was so when its call began or is being made so is neither being
  created nor destroyed, and the thread's pointer is the object of the one that
  is current or, within glXMakeCurrent, was.

The step that needs most is the destruction's bookkeeping, which frees up to two
objects: `Drops` says that it frees the call's own object or one already deleted,
and that a deleted root that stays has shares still.

## TaskPool

### Correspondence

`stack`, `numThreads`, `submitted`, `completed` and `exiting` are the pool's
members, `available` and `signals` the values of its two semaphores.  `Main` is
the thread that owns the pool; worker `w` is the thread in `m_threads[w - 1]`.
`place[a]` is the operation thread `a` does next, `held[a]` the task it has
taken.  `op`, `want`, `posts` and `target` are the locals of Main's call.
`made`, `finished` and `cleared` are history: the tasks the stack accepted,
those that were executed and those that deinit threw away.

| actions | code |
|---|---|
| `CallQueue`, `Submit`, `Push`, `PushFull`, `Uncount`, `Post` | `queue_task` and, for more than one task, `queue_multiple_object_tasks` |
| `Take`, `Run`, `Count`, `Compare`, `Signal` | `tsstack::pop` and `process_task`, by a worker or by join |
| `Wake`, `Look`, `TakeNothing` | the rest of `thread_func` |
| `CallJoin`, `Snapshot`, `Joined`, `NotJoined`, `WaitAll` | `join` |
| `CallInit`, `CallDeinit`, `SetExit`, `Release`, `Reap`, `Clear`, `Create`, `CreateFailed` | `init`, `deinit`, the destructor |

Each atomic operation, semaphore operation and critical section of the stack's
spinlock is a step.  In `process_task` the increment comes before the read of the
submitted tasks: the order is the compiler's choice in C++, and the compilers
the build supports evaluate the call on the left first.  The semaphores have no
maximum, although the constructor takes one (`sem_init` does not); the comment in
`join` that speaks of "a max count of 1" describes another platform.  The wait in
`join` never blocks: `sem_timedwait` takes a point in time and is given an
interval.

*Left out.*  A worker whose semaphore call is interrupted or fails
(`VOGL_FAIL` ends the program by default), running out of memory (the allocator
aborts), and the width of the counters.  Tasks do not use the pool themselves:
the two users in the repository, the resampler and the texture packer, queue from
the thread that joins.  A task that queued another while join waits would make
join return early or never, because join compares with the count it read before
its loop.  A pool without threads executes its tasks in join; `deinit` throws
them away if join was not called, hence `cleared`.

### Runs

| run | instance | what it shows |
|---|---|---|
| `pool` | up to 2 threads, a stack of 2, up to 3 tasks in batches of 1 to 3, failing thread creation; 158 750 states | `CountsMatch`, `TasksOnce`, `SignalComes`, `JoinWaits`, `TasksRun`, `CallsReturn` |

*Bounds.*  The capacity of the stack and the largest number of threads are one
constant in the code too (16).  Three tasks on a stack of two reach the refusal, alone and
in the middle of a batch, two workers and join race for the last task, and init
and deinit may follow each other for ever with the tokens that earlier rounds
left in the semaphores.  Deadlock is checked.

*Fairness.*  Every thread inside a call or in `thread_func` is scheduled and
tasks end.  Main need not make another call: `TasksRun` says that the workers
alone execute what was queued.

### Proofs

`TaskPoolProofs` proves, for any number of threads and tasks, `TypeCorrect`,
`CountsCorrect`, `OnceCorrect`, `WakesCorrect`, `JoinCorrect` and
`SignalCorrect`: every safety property of the run, and `WakesEnough`, no wake-up
is lost.  The inductive invariant
`PoolInv` is the conjunction of the first four properties with `MainOK`, what
Main knows at each place of its calls: once its join found the stack empty it
stays empty and the count it read stays the submitted one, the exit flag is set
only then, and the counters are reset only without threads.  `StepKinds` splits
the steps into those that touch no task (`QuietKeeps`) and seven that do; the
counts go by adding or removing one thread from the finite set `Busy`, or
`Awake`, at a time.  `JoinCorrect` follows from the counts: equal counters and
an empty stack leave nobody busy, and then `TasksOnce` says that all tasks are
executed or cleared.  `TasksRun` and `CallsReturn`, under fairness, are
model-checked only.

## FramebufferCapturer

### Correspondence

`up`, `pbos`, `head`, `tail`, `numBusy` and `size` are the capturer's members; a
buffer is its GL name (`none`, `empty`: a name without storage, `storage`), its
busy flag and the frame that was read into it.  `pc` is the place the rendering
thread has reached, named for what it does next, and `call` what it is doing.
`buf` is its reference to the buffer to flush, `reg` what it has loaded of the
tail or the count to store it changed.  `swaps` is the context's frame index.
`shot` and `done` are history: what `capture` has read, and what became of it.

| actions | code |
|---|---|
| `Swap`, `MakeRoom`, `Create`, `Read`, `ReadFails`, `ReadNowhere`, `Fill`, `StoreHead`, `LoadCount`, `StoreMore` | `vogl_tick_screen_capture`, `capture`, `recreate_buffers` |
| `Flushed`, `Take`, `FlushPbo`, `Clear`, `Write`, `LoadTail`, `StoreTail`, `LoadCount`, `StoreLess` | `flush` and `flush_pbo` |
| `Release`, `Switch`, `MakeCurrent`, `Destroy`, `FlushDeinit`, `EndCapture` | the calls of the context's hooks and of `vogl_end_capture` |
| `Signal` | the signal handler, which flushes and returns, at the places `Strikes` |

Every test, load and store that a handler's flush may come before or after is a
step: the test of a buffer's flag (line 122) and its clearing (127), the tests of
the count (171, 283) and of the flag (288), the fill of a buffer (306-307), head,
tail and count, the last two loaded and stored.  This is the order of a debug
build (`-O0`, `build_options.cmake:66`); an optimising compiler may exchange
stores or keep a load for longer, which makes the windows below wider.  Creating
and deleting the buffers is one step, because nothing counts as busy then and a
handler's flush does nothing.  The handler itself is one step: a signal that
arrives meanwhile does not flush again (`s_recursion_count`,
`vogl_platform.cpp:172`).

*Windows.*  At five places the code has tested or loaded something and will act
upon it after a handler that strikes there has changed it: `full` and `check`
(`capture` has found the ring full, or holds the reference to its oldest buffer
and has not tested its flag), `clear` (`flush_pbo` has found the buffer busy), and
`count_store`, `add_store` (between the load and the store of the count).  A
handler there makes a frame come out twice or a count that does not fit the ring:
each of the five violates `RingInv` when it is added to the `Strikes` of
`capturer`, and with all of them, in `MCFramebufferCapturer_ctrlc.cfg`, a frame
comes out twice (Known divergences).  At every other place the ring stands it:
the flush finds all buffers that are complete, and what the interrupted code does
next fits what it left.  At `add` and `tail` the handler's own assertion at line
181 may fail, because head and tail differ by the buffer in hand; the tracer's
assertions print and go on, and the ring is right when the interrupted code has
gone on.

A buffer without a name is read at address 0 (`ReadNowhere`): after a failure in
`recreate_buffers` the size is kept and the next capture does not notice.

*Left out.*  `m_did_any_write_fail`, which only reports.  A context that is
destroyed by a thread other than the one that renders with it.

### Runs

| run | instance | what it shows |
|---|---|---|
| `capturer` | a ring of 2 (as in the tracer), windows of 2 sizes, 4 swaps, failing GL calls, signals everywhere but at the five places; 1.8 million states | `RingInv`, `FramesInOrder`, `ReleasedIsFlushed` |

*Bounds.*  Four swaps fill the ring, overtake it twice and change the size with
0, 1 or 2 frames pending.  `UINT32_MAX` is 7: more than any count that a ring of
2 can hold, so that a count that has wrapped around is seen as one.  No liveness
is stated, and the process may die: deadlock is not checked.

### Proofs

`FramebufferCapturerProofs` proves, for every number of buffers up to `cMaxBufs`,
any sizes and any number of swaps:

- `TypeCorrect`: `Spec => []TypeOK` for handlers that strike anywhere: the indices
  stay in the ring and the count in its width, also when it has wrapped around.

and, when no handler strikes in the windows (`Strikes \cap Windows = {}`):

- `RingCorrect`: `Spec => []RingInv`, which is inductive.  `SuccWraps`,
  `SlotsDiffer`, `TailMoves` and `HeadMoves` hold the arithmetic of the ring, and
  there is one lemma for each step that changes it.  Its part `LocalsOK` says what
  the thread relies on after each test and load, and `Held` how many buffers hold
  a frame between two stores that belong together: this is what a handler's flush
  must leave true (`RingSignal`).
- `OrderCorrect`: `Spec => []FramesInOrder`.  The inductive invariant `OrderInv`
  says it pointwise, the k-th frame that was read is the k-th that came out or is
  in the ring, so that no induction over sequences is needed; it adds that a
  capture in progress has a frame index beyond those of all frames read.
- `ReleasedCorrect`: `Spec => []ReleasedIsFlushed`.  `ReleasedInv` says of the
  history, which `OrderInv` ties to the ring, that the frames that were read but
  did not come out yet are not of a swap while the context was current, unless it
  still is: `Switch` follows a flush that has emptied the ring.

## TraceFile

### Correspondence

A file is a sequence of items and an offset the number of items before it.  The
writer: `wpc` is the place in `close`, `size` the stream's `m_size`, `ends`
`m_frame_file_offsets`.  The file: `disk`, what has reached it, `buf`, what stdio
holds, `sof`, the archive's offset in its first packet, and `index`, the offsets
that the archive holds.  The reader: `pos`, `cur`, `max`, `offsets` and `saved` are
the position in `m_trace_stream`, `m_cur_frame_index`, `m_max_frame_index`,
`m_frame_file_offsets` and the stack of saved locations.

| actions | code |
|---|---|
| `WritePacket`, `Flush` | `write_packet`, `flush` |
| `WriteEof`, `CopyArchive`, `ArchiveFails`, `SeekToSof`, `CloseStream` | `close`, one step for each thing it does to the file |
| `Kill` | the process is gone: of the buffer any part may be in the file |
| `Open`, `Close`, `Read` | the binary reader's |
| `CallSeek`, `SeekToKnown`, `Scan`, `SeekFails`, `Found`, `ReadFrames`, `FramesReturn` | `seek_to_frame`, `get_max_frame_index`, `read_frame_packets` |

*Faults.*  `kill`: the writer may be killed between any two steps; `full`: the disk
may be full at any write; `room`: a full disk has room again later.  The passing
run leaves `room` out: with it a file may be closed with success and not be
readable (Known divergences).  `read_frame_packets` returns `cOK` with fewer
frames when a packet is bad, in the code and in `CallsAreRight`.

*Left out.*  The contents of packets and of the archive besides the offsets, and the JSON
reader, which reads whole documents.

### Runs

| run | instance | what it shows |
|---|---|---|
| `tracefile` | up to 3 packets or swaps, kills and a full disk, one call after another on what is left; 665 982 states | `ArchiveIsWhole`, `PlaceIsKnown`, `CallsAreRight`, `CallsReturn` |

*Bounds.*  Three items make files of up to four frames, frames without packets
included, cut at every place; seeks ask for every frame there can be and for one
that cannot.  Reads and calls are not bounded.

*Fairness.*  A call of the reader goes on (`WF_vars(Seek)`): one thread runs it.

### Proofs

`TraceFileProofs` proves, for any number of packets, `ArchiveCorrect`,
`PlaceCorrect` and `CallsCorrect`: every safety property of the run.  They assume
`NoRoom`, that a full disk stays full, as the run does: with `room` the
configuration `MCTraceFile_torn` shows that they are false.

- `WriterInv` says what the file and the buffer hold together: the items of a
  trace in their order (`WellFormed`), only the last one torn; and, as long as no
  write has failed, that `size` and `ends` are those of the items (`Believed`).
  After a failure nothing reaches the file any more, so the archive's offset
  cannot either: `sof # 0` only if the file is `Whole`.
- `ReaderInv` says, at each place of a call, how position, frame index, offsets
  and saved location fit the swaps in the file (`ReaderKnows`, `InCall`) and that
  the last result was right (`ResultRight`).  A reader is only open on a file that
  nobody writes to any more, which is why the two invariants are proved apart and
  composed in `FileCorrect`.

The number of swaps before an offset is a cardinality; `SwapsNext` and its
neighbours give the one step that each action needs, so that no induction over
the file is needed.  `CallsReturn`, under fairness, is model-checked only.

## ChannelLink

### Correspondence

One direction of the asynchronous pair of streams: `SendData` and the two loops
of `channelmgr.cpp` over the `ReadMsg` and `WriteMsg` of `channel.cpp`.  `queue`
is `m_pSendQueue` (of `MtQueue`, its effect only), `message` and `size` what each
loop holds, `conns` the TCP connections made so far with the halves of messages
in them, `out` and `in` the ends' sockets.  `client` is the end that connects:
the other one accepts.

| actions | code |
|---|---|
| `SendData`, `Dequeue`, `WriteHalf`, `SendError`, `SendTimeout`, `SenderConnects` | `SendData`, `DriveSendLoop`, `WriteMsg` |
| `ReceiverConnects`, `ReadHalf`, `ReadError`, `Reconnect`, `StaleErrno`, `Drop`, `ReadTimeout` | `DriveRecvLoop`, `ReadMsg` |
| `SenderLeaves`, `ReceiverLeaves` | `Disconnect` or exit of a client, and another start |
| `Reset` | the network |

`SendTimeout` and `ReadTimeout`, timeouts in the middle of a message, are steps of
`SlowSpec` only: no property survives them (run `slow`), and without them the
stream is right, which is what `Spec` is for.

*Left out.*  A client's timeouts between messages and connects that fail: they
begin the tries again and change nothing else.  The request and response
service, which no program of the repository uses.  The destructor, which joins
`m_threadSend` twice, and the loops in Connect and Accept that wait for ever if a
thread ends early.  `Disconnect` drops the queue: messages accepted before it may
be lost, as in `SenderLeaves`.  A server that exits, or is destroyed, under a
client that receives: the client's `recv` then returns 0 and leaves `errno` as it
was, so that what it does depends on a stale value (`channel.cpp:545-569`);
`StreamRecovers` says nothing of that end.

### Runs

| run | instance | what it shows |
|---|---|---|
| `link` | 5 messages, a queue of 2, connections of 4 halves, 3 resets, 2 clients that leave; 766 104 states | `StreamIsRight`, `StreamRecovers` |
| `slow` | 4 messages, no faults but a slow connection | `StreamIsRight` fails: a retry in the middle of a message begins it again in the same stream |

*Bounds.*  Five messages are one in hand on either side, two in the queue and one
in the connection.  Three resets strike a connection that was made after a reset
and before the other end has noticed.  `Tries` is 2 so that a server gives up.
With all messages sent nothing happens any more: deadlock is not checked.

*Fairness.*  Each of the two loops runs (weak fairness of its steps).  Nothing is
asked of `SendData` or of the network, which can interrupt only so many times:
`StreamRecovers` is about what follows the last interruption.

### Proofs

`ChannelLinkProofs` proves `StreamCorrect`, `Spec => []StreamIsRight`, for every
value of the constants.  The inductive invariant has two halves:

- `StreamInv`, kept by every step: the queue holds the last of the accepted
  messages, which are numbered upwards (`QueueInv`); the connecting end uses the last
  connection that was made, the accepting end the last that it has taken, and the
  receiver is never at a half that it does not wait for (`SocketInv`); size and data
  follow each other in every connection, what was given up is empty
  (`HoldsPairs`), and the last half in the sender's connection is what the sender has
  written last (`SenderMatches`); messages delivered or underway are ones that the
  sender is done with, in increasing order along the way (`OrderInv`).  An error of
  the receiver's connection keeps the order because the sender goes on with later
  messages, or with the one that has not been written whole.
- `Lossless`, about what happens before the first interruption: there is one connection
  at most (`OneConn`), and the accepted messages are those delivered, those in it,
  the one in hand and those in the queue, each at its index (`Accounts`).

The messages that a connection holds (`Bodies`) are defined by a recursive function.
`Induct`, from the well-foundedness of `<` on the numbers, is induction over
the members of a set, so that no operator has to be a parameter; with it
`UpToExists` shows that the function exists and `UpToPlaces` that its value is the
sequence of the halves at every second place.  `StreamRecovers`, under fairness, is
model-checked only, and `StreamIsRight` is false under `SlowSpec`.

## Replay

### Correspondence

`pc` is the place in `do_non_interactive_mode`; `snap`, `loopStart`, `loops` and
`trims` are the tool's `pSnapshot`, `snapshot_loop_start_frame`, `loop_count` and
`num_trim_files_written`.  `contexts`, `made`, `cur`, `frame`, `boundary`,
`resize`, `attempts` and the two `pending...` variables are members of the
replayer.  `width` is the size the window object believes, `actual` the one the
window has, `drv` the driver's current context.

The trace is chosen packet by packet while it is read for the first time, from
the calls that a program of any number of threads may make (`Calls`), and read
again as it is after a seek; `Program(n)` is the program after `n` packets,
against which `FollowsTrace` compares the replayer.

| actions | code |
|---|---|
| `Close`, `WindowEvent` | `check_events` |
| `WriteTrim`, `TakeSnapshot`, `CaptureFails`, `BeginFrame` | the start of a frame |
| `AskAgain`, `EndWait`, `ApplyFails` | the wait for the window, and the snapshot applied at its end |
| `ProcessPending`, `ProcessNext`, `ReachEnd`, `Fails` | the packets of a frame |
| `Rewind`, `EndReplay`, `NextFrame` | the end of a frame |
| `WindowChanges` | the window system, which resizes the window as asked, otherwise, or never |

`ProcessNext` has one operator for each kind of packet (`Create`, `Destroy`,
`Defer`, `MakeCurrentNow`, `Swap`, `Call`, `Snapshot`).

*Left out.*  The interactive, endless and benchmark modes, `-lock_window_dimensions`,
snapshots written from a call index, trims of several frames in one pass and the caching of
snapshots; windows of size 0; the restoring of GL objects, and handles that the
traced driver used twice.  Polls within one second of a wait do what the next one
does.  The window changes only where its size is read afterwards.  SDL does not
share contexts, so the replayer's reference counts are never more than 1.

### Runs

| run | instance | what it shows |
|---|---|---|
| `replay` | 5 packets, 2 contexts, 2 sizes, 2 attempts of waiting, a loop of one frame repeated once from frame 0 or 1, or one trim file; 1 908 668 states | `FollowsTrace`, `LoopsAreRight`, `PacketsWait`, `ReplayEnds` |
| `trims` | 2 trim files, 3 attempts | `TrimsAreWritten` fails: a trim is written again while the window is waited for |

*Bounds.*  Five packets are a context created and made current, two swaps and one
more call, or a snapshot and four; so every packet occurs before, in and after
the loop.  Two attempts are one that asks again and one that gives up; the code
has five.  A replay that is over does nothing: deadlock is not checked.

*Fairness.*  The tool's loop runs (`WF_vars(Frame)`).  Nothing is asked of the
window system or the user.

### Proofs

`ReplayProofs` proves for all traces that a program with any number of contexts
may cause, all options, and all that windows and users do:

- `FollowCorrect`: `Spec => []FollowsTrace`;
- `LoopsCorrect`: `Spec => []LoopsAreRight`;
- `WaitCorrect`: `Spec => PacketsWait`, an action property.

The program at a place of the trace is a function computed by recursion.
`ProgramOfStep` and `ProgramOfKept`, by induction over a set of places (`Induct`,
from the well-foundedness of `<`), give one step of it and that it does not depend
on what is read later; `FrameGrows` and `FrameBegins`, that frames are counted
upwards, so that a frame begins at one place, the one that `PosOf` chooses.

The inductive invariant `ReplayInv` has the parts

- `TraceInv`: only the first packet is a snapshot; what is read before there is a
  loop is read for the first time;
- `FollowInv`: the replayer is where the program was, but for what it has put off:
  a snapshot of this very place, or a make current;
- `SnapInv`: the tool's snapshot is of the place where the loop's first frame
  begins.  A trace that starts with a snapshot has two places with frame 0, so
  that a loop from frame 0 needs that its snapshot was taken before any packet;
- `LoopInv`: the reader does not pass the loop's end, and once a pass has ended the
  trace reaches there, or has ended between frames;
- `ShownInv`: how often each frame has been shown, in the middle of any pass.

Every conjunct but the first and `LoopsAreRight` itself is claimed only until the
tool has stopped.  `CallsLand` and `TrimsAreWritten` do not hold (below), and
`ReplayEnds` needs fairness: TLC checks that one only.

## Known divergences

Two are findings with runs (`slow`, `trims`).  The following can be seen with the
configurations kept beside them, for example
`tlc -config MCTraceCapture_begin.cfg MCTraceCapture`; each property states what a
comment or an assertion of the code says, and no passing run claims it.

| configuration | property | what happens |
|---|---|---|
| `MCTraceCapture_begin` | `EndHasBegin` | `glXSwapBuffers` tests `is_opened()` at 5752 and 5768 without the mutex; a capture that another thread's tick opens in between makes `end()` run without `begin()`, against the assertion in `vogl_intercept.cpp:358` |
| `MCTraceCapture_lost` | `NoLostCall` | a call of another thread between the snapshot and the opening of the file is in neither, against `vogl_intercept.h:56` |
| `MCTraceCapture_sigwait` | `NoCircularWait` | a signal handler that flushes a packet takes the context lock and then the trace mutex, a tick the other way round, though `vogl_intercept.cpp:5102` says "This could be called at signal time!" |
| `MCFramebufferCapturer_ctrlc` | `FlushedOnce` | a handler between lines 122 and 127 writes a buffer that `flush_pbo` then writes again, though the comment at `vogl_framebuffer_capturer.cpp:125` says the flag is cleared "in case ctrl+c is hit while we're busy flushing the buffer" |
| `MCTraceCapture_deleted` | `FailureNotNamed` | the callback is told the name of a file that is deleted right after, against `vogl_intercept.h:50` |
| `MCMtQueue_purge` | `PurgeFreesQueued` | the destructor walks over the slots that hold no message, against `mtqueue.cpp:47` |
| `MCContextManager_reuse` | `DestroyedOnce` | a share group's dead root stays in the map under a handle that a new context is given, against the assertion at `vogl_intercept.cpp:6284` |
| `MCTraceFile_torn` | `SuccessIsReadable` | a write fails, the disk gets room again and `close` succeeds: the archive's offset is off |
| `MCReplay_landing` | `CallsLand` | creating or restoring a context makes it current in the driver, while `switch_contexts` believes `m_cur_trace_context`: a call lands in another context than it was traced in |

## Not modelled

Components that are "not_modelled" in `PROJECT.json`: sequential maps (blob
managers, handle tracker, display lists, containers), parsers and codecs, the
port manager, which no program uses, the relay server and the launcher's
messages, straight-line code over the channel manager, the getters of the GL
state snapshot, and user interfaces.  Most of the repository's lines are of these
kinds, generated tables, vendored code, or one case per GL entrypoint in the
replayer and the tracer, whose meaning is the driver's: a model of them would
repeat them.  What the components that are modelled in part leave out is said
in their sections.

------------------------------ MODULE TaskPool ------------------------------
(***************************************************************************)
(* The task pool of src/src/voglcore/vogl_threading_pthreads.cpp: one      *)
(* client thread (Main) queues tasks on a bounded stack, worker threads    *)
(* and the client's own join take them off, and two counters tell when     *)
(* every task was executed.                                                *)
(*                                                                         *)
(* Every atomic operation, semaphore operation and critical section of the *)
(* stack's spinlock is a step.  Tasks are numbered in the order in which   *)
(* the stack accepts them; they end, and do not use the pool themselves,   *)
(* as those of the resampler and of the texture packer.                    *)
(*                                                                         *)
(* An operator named Wrong... is not part of the model: it is the operator *)
(* below it with a mistake in it, kept to show that a property notices.    *)
(***************************************************************************)
EXTENDS Naturals, Sequences, FiniteSets

CONSTANTS
  cMaxThreads,  \* the most threads, and the capacity of the stack
  CreateFails,  \* TRUE: pthread_create may fail
  MaxBatch,     \* bound on the tasks of one queue_multiple_object_tasks
  MaxTasks      \* bound on the tasks that the stack accepts, and on the
                \* submissions between two deinit

ASSUME PoolAssumption ==
  /\ cMaxThreads \in Nat \ {0}
  /\ CreateFails \in BOOLEAN
  /\ MaxBatch \in Nat
  /\ MaxTasks \in Nat

VARIABLES
  stack,       \* m_task_stack, its top last
  numThreads,  \* m_num_threads
  available,   \* the value of the semaphore m_tasks_available
  signals,     \* the value of the semaphore m_all_tasks_completed
  submitted,   \* m_total_submitted_tasks
  completed,   \* m_total_completed_tasks
  exiting,     \* m_exit_flag
  place,       \* where each thread is
  held,        \* the task each thread has taken, 0 if none
  count,       \* what a thread's last increment of the completed tasks gave
  op,          \* the call of Main that join or deinit is part of
  want,        \* what Main's call has still to do: tasks to queue, or threads
               \* to create
  posts,       \* what Main's call has still to add to m_tasks_available
  target,      \* join's total_submitted_tasks
  made,        \* how many tasks the stack accepted
  finished,    \* the tasks that were executed
  cleared      \* the tasks that deinit threw away

pool == <<stack, numThreads, available, signals, submitted, completed, exiting>>
call == <<op, want, posts, target>>
history == <<made, finished, cleared>>
vars == <<pool, place, held, count, call, history>>

Main == 0

Workers == 1..cMaxThreads

Actors == {Main} \union Workers

At(a, p) == place[a] = p

Go(a, p) == place' = [place EXCEPT ![a] = p]

Init ==
  /\ stack = <<>>
  /\ numThreads = 0 /\ available = 0 /\ signals = 0
  /\ submitted = 0 /\ completed = 0
  /\ exiting = FALSE
  /\ place = [a \in Actors |-> IF a = Main THEN "idle" ELSE "none"]
  /\ held = [a \in Actors |-> 0]
  /\ count = [a \in Actors |-> 0]
  /\ op = "none" /\ want = 0 /\ posts = 0 /\ target = 0
  /\ made = 0 /\ finished = {} /\ cleared = {}

-----------------------------------------------------------------------------
(* Queueing, by Main: queue_task is a batch of one.                          *)

CallQueue(n) ==
  /\ At(Main, "idle")
  /\ made + n <= MaxTasks /\ submitted + n <= MaxTasks
  /\ want' = n
  /\ Go(Main, "submit")
  /\ UNCHANGED <<pool, held, count, op, posts, target, history>>

Submit ==
  /\ At(Main, "submit")
  /\ submitted' = submitted + 1
  /\ Go(Main, "push")
  /\ UNCHANGED <<stack, numThreads, available, signals, completed, exiting,
                 held, count, call, history>>

HasRoom == Len(stack) < cMaxThreads

Push ==
  /\ At(Main, "push")
  /\ HasRoom
  /\ stack' = Append(stack, made + 1)
  /\ made' = made + 1
  /\ want' = want - 1
  /\ posts' = posts + 1
  /\ Go(Main, IF want = 1 THEN "post" ELSE "submit")
  /\ UNCHANGED <<numThreads, available, signals, submitted, completed, exiting,
                 held, count, op, target, finished, cleared>>

PushFull ==
  /\ At(Main, "push")
  /\ ~HasRoom
  /\ Go(Main, "uncount")
  /\ UNCHANGED <<pool, held, count, call, history>>

WrongUncount ==
  /\ At(Main, "uncount")
  /\ want' = 0
  /\ Go(Main, IF posts > 0 THEN "post" ELSE "idle")
  /\ UNCHANGED <<pool, held, count, op, posts, target, history>>

\* The refused task counts as completed, and ends the batch.
Uncount ==
  /\ At(Main, "uncount")
  /\ completed' = completed + 1
  /\ want' = 0
  /\ Go(Main, IF posts > 0 THEN "post" ELSE "idle")
  /\ UNCHANGED <<stack, numThreads, available, signals, submitted, exiting,
                 held, count, op, posts, target, history>>

\* semaphore::release posts once for every task of the batch.
Post ==
  /\ At(Main, "post")
  /\ available' = available + 1
  /\ posts' = posts - 1
  /\ Go(Main, IF posts = 1 THEN "idle" ELSE "post")
  /\ UNCHANGED <<stack, numThreads, signals, submitted, completed, exiting,
                 held, count, op, want, target, history>>

-----------------------------------------------------------------------------
(* Executing a task, by a worker or by Main in join.                         *)

WrongTakes(a) == held' = [held EXCEPT ![a] = stack[Len(stack)]] /\ stack' = stack

\* tsstack::pop, when there is a task.
Takes(a) ==
  /\ held' = [held EXCEPT ![a] = stack[Len(stack)]]
  /\ stack' = SubSeq(stack, 1, Len(stack) - 1)

Take(a) ==
  /\ At(a, "pop")
  /\ stack # <<>>
  /\ Takes(a)
  /\ Go(a, "run")
  /\ UNCHANGED <<numThreads, available, signals, submitted, completed, exiting,
                 count, call, history>>

Run(a) ==
  /\ At(a, "run")
  /\ finished' = finished \union {held[a]}
  /\ held' = [held EXCEPT ![a] = 0]
  /\ Go(a, "count")
  /\ UNCHANGED <<pool, count, call, made, cleared>>

WrongCount(a) ==
  /\ At(a, "count")
  /\ completed' = completed + 1
  /\ count' = [count EXCEPT ![a] = completed]
  /\ Go(a, "compare")
  /\ UNCHANGED <<stack, numThreads, available, signals, submitted, exiting,
                 held, call, history>>

Count(a) ==
  /\ At(a, "count")
  /\ completed' = completed + 1
  /\ count' = [count EXCEPT ![a] = completed + 1]
  /\ Go(a, "compare")
  /\ UNCHANGED <<stack, numThreads, available, signals, submitted, exiting,
                 held, call, history>>

\* Workers go back to wait for tasks, join to look for another one.
After(a) == IF a = Main THEN "pop" ELSE "wait"

Compare(a) ==
  /\ At(a, "compare")
  /\ Go(a, IF count[a] = submitted THEN "signal" ELSE After(a))
  /\ count' = [count EXCEPT ![a] = 0]
  /\ UNCHANGED <<pool, held, call, history>>

\* No maximum: sem_init does not take one.
Signal(a) ==
  /\ At(a, "signal")
  /\ signals' = signals + 1
  /\ Go(a, After(a))
  /\ UNCHANGED <<stack, numThreads, available, submitted, completed, exiting,
                 held, count, call, history>>

Process(a) == Take(a) \/ Run(a) \/ Count(a) \/ Compare(a) \/ Signal(a)

-----------------------------------------------------------------------------
(* A worker, thread_func.                                                    *)

Wake(w) ==
  /\ At(w, "wait")
  /\ available > 0
  /\ available' = available - 1
  /\ Go(w, "look")
  /\ UNCHANGED <<stack, numThreads, signals, submitted, completed, exiting,
                 held, count, call, history>>

Look(w) ==
  /\ At(w, "look")
  /\ Go(w, IF exiting THEN "exited" ELSE "pop")
  /\ UNCHANGED <<pool, held, count, call, history>>

\* Main has taken the task that this worker was woken for.
TakeNothing(w) ==
  /\ At(w, "pop")
  /\ stack = <<>>
  /\ Go(w, "wait")
  /\ UNCHANGED <<pool, held, count, call, history>>

Work(w) == Wake(w) \/ Look(w) \/ TakeNothing(w) \/ Process(w)

-----------------------------------------------------------------------------
(* Main's join: it takes tasks while there are any, then polls.              *)

CallJoin ==
  /\ At(Main, "idle")
  /\ op' = "join"
  /\ Go(Main, "pop")
  /\ UNCHANGED <<pool, held, count, want, posts, target, history>>

WrongSnapshot ==
  /\ At(Main, "pop")
  /\ stack = <<>>
  /\ target' = completed
  /\ Go(Main, "check")
  /\ UNCHANGED <<pool, held, count, op, want, posts, history>>

Snapshot ==
  /\ At(Main, "pop")
  /\ stack = <<>>
  /\ target' = submitted
  /\ Go(Main, "check")
  /\ UNCHANGED <<pool, held, count, op, want, posts, history>>

Joined ==
  /\ At(Main, "check")
  /\ completed = target
  /\ target' = 0
  /\ Go(Main, IF op = "join" THEN "idle" ELSE "exit")
  /\ UNCHANGED <<pool, held, count, op, want, posts, history>>

NotJoined ==
  /\ At(Main, "check")
  /\ completed # target
  /\ Go(Main, "wait_all")
  /\ UNCHANGED <<pool, held, count, call, history>>

\* semaphore::wait passes its interval to sem_timedwait, which takes a point in
\* time: it is long past, so the call takes a token or times out at once.
WaitAll ==
  /\ At(Main, "wait_all")
  /\ signals' = IF signals > 0 THEN signals - 1 ELSE signals
  /\ Go(Main, "check")
  /\ UNCHANGED <<stack, numThreads, available, submitted, completed, exiting,
                 held, count, call, history>>

Join == Process(Main) \/ Snapshot \/ Joined \/ NotJoined \/ WaitAll

-----------------------------------------------------------------------------
(* Main's init and deinit.                                                   *)

EntersDeinit(o, n) ==
  /\ op' = o
  /\ want' = n
  /\ Go(Main, IF numThreads > 0 THEN "pop" ELSE "clear")
  /\ UNCHANGED <<pool, held, count, posts, target, history>>

\* init begins with a deinit.
CallInit(n) == At(Main, "idle") /\ EntersDeinit("init", n)

CallDeinit == At(Main, "idle") /\ EntersDeinit("deinit", 0)

SetExit ==
  /\ At(Main, "exit")
  /\ exiting' = TRUE
  /\ posts' = numThreads
  /\ Go(Main, "release")
  /\ UNCHANGED <<stack, numThreads, available, signals, submitted, completed,
                 held, count, op, want, target, history>>

Release ==
  /\ At(Main, "release")
  /\ available' = available + 1
  /\ posts' = posts - 1
  /\ Go(Main, IF posts = 1 THEN "reap" ELSE "release")
  /\ UNCHANGED <<stack, numThreads, signals, submitted, completed, exiting,
                 held, count, op, want, target, history>>

WrongReap ==
  /\ At(Main, "reap")
  /\ \A w \in 1..numThreads : At(w, "exited")
  /\ place' = [a \in Actors |-> IF a = Main THEN "clear" ELSE "none"]
  /\ numThreads' = 0
  /\ UNCHANGED <<stack, available, signals, submitted, completed, exiting,
                 held, count, call, history>>

\* pthread_join returns for every thread.
Reap ==
  /\ At(Main, "reap")
  /\ \A w \in 1..numThreads : At(w, "exited")
  /\ place' = [a \in Actors |-> IF a = Main THEN "clear" ELSE "none"]
  /\ numThreads' = 0
  /\ exiting' = FALSE
  /\ UNCHANGED <<stack, available, signals, submitted, completed,
                 held, count, call, history>>

InStack == {stack[i] : i \in DOMAIN stack}

WrongClear ==
  /\ At(Main, "clear")
  /\ stack' = <<>>
  /\ cleared' = cleared \union InStack
  /\ submitted' = 0
  /\ Go(Main, IF want > 0 THEN "create" ELSE "idle")
  /\ UNCHANGED <<numThreads, available, signals, completed, exiting, held, count,
                 call, made, finished>>

\* The semaphores keep their values.
Clear ==
  /\ At(Main, "clear")
  /\ stack' = <<>>
  /\ cleared' = cleared \union InStack
  /\ submitted' = 0 /\ completed' = 0
  /\ Go(Main, IF want > 0 THEN "create" ELSE "idle")
  /\ UNCHANGED <<numThreads, available, signals, exiting, held, count, call,
                 made, finished>>

Create ==
  /\ At(Main, "create")
  /\ numThreads' = numThreads + 1
  /\ want' = want - 1
  /\ place' = [place EXCEPT ![numThreads + 1] = "wait",
                            ![Main] = IF want = 1 THEN "idle" ELSE "create"]
  /\ UNCHANGED <<stack, available, signals, submitted, completed, exiting,
                 held, count, op, posts, target, history>>

CreateFailed == CreateFails /\ At(Main, "create") /\ EntersDeinit("deinit", 0)

Deinit == SetExit \/ Release \/ Reap \/ Clear \/ Create \/ CreateFailed

-----------------------------------------------------------------------------

Call ==
  \/ \E n \in 1..MaxBatch : CallQueue(n)
  \/ CallJoin
  \/ \E n \in 0..cMaxThreads : CallInit(n)
  \/ CallDeinit

Queue == Submit \/ Push \/ PushFull \/ Uncount \/ Post

Next == Call \/ Queue \/ Join \/ Deinit \/ \E w \in Workers : Work(w)

Spec == Init /\ [][Next]_vars

\* Threads are scheduled and tasks end; whether Main makes another call is open.
Fairness ==
  /\ WF_vars(Queue \/ Join \/ Deinit)
  /\ \A w \in Workers : WF_vars(Work(w))

FairSpec == Spec /\ Fairness

-----------------------------------------------------------------------------
(* Properties.                                                               *)

WorkerPlaces ==
  {"none", "wait", "look", "pop", "run", "count", "compare", "signal", "exited"}

MainPlaces ==
  {"idle", "submit", "push", "uncount", "post", "pop", "run", "count", "compare",
   "signal", "check", "wait_all", "exit", "release", "reap", "clear", "create"}

\* The stack keeps to its capacity.
StackOK == stack \in Seq(1..made) /\ Len(stack) <= cMaxThreads

\* As many workers exist as there are threads.
PlacesOK ==
  /\ place \in [Actors -> MainPlaces \union WorkerPlaces]
  /\ place[Main] \in MainPlaces
  /\ \A w \in Workers : /\ place[w] \in WorkerPlaces
                        /\ At(w, "none") <=> w > numThreads

\* Type invariant.
TypeOK ==
  /\ StackOK /\ PlacesOK
  /\ numThreads \in 0..cMaxThreads
  /\ available \in Nat /\ signals \in Nat
  /\ submitted \in Nat /\ completed \in Nat
  /\ exiting \in BOOLEAN
  /\ held \in [Actors -> 0..made]
  /\ count \in [Actors -> Nat]
  /\ op \in {"none", "join", "init", "deinit"}
  /\ want \in Nat /\ posts \in Nat /\ target \in Nat
  /\ made \in Nat
  /\ finished \subseteq 1..made /\ cleared \subseteq 1..made

\* Threads that have a task which is not counted as completed.
Busy == {a \in Actors : place[a] \in {"run", "count"}}

\* What is submitted and not completed is on the stack, in some thread's hands,
\* or about to be pushed or refused.  Both counters are read without a lock, and
\* join trusts their equality.
CountsMatch ==
  submitted = completed + Len(stack) + Cardinality(Busy)
                + (IF place[Main] \in {"push", "uncount"} THEN 1 ELSE 0)

Running == {held[a] : a \in {b \in Actors : At(b, "run")}}

\* Every accepted task is executed once, unless deinit clears it: it is on the
\* stack once, or in the hands of one thread, or executed.
TasksOnce ==
  /\ InStack \union Running \union finished \union cleared = 1..made
  /\ \A i, j \in DOMAIN stack : stack[i] = stack[j] => i = j
  /\ \A a, b \in Actors : At(a, "run") /\ At(b, "run") /\ a # b =>
                            held[a] # held[b]
  /\ InStack \intersect Running = {}
  /\ (InStack \union Running) \intersect (finished \union cleared) = {}
  /\ finished \intersect cleared = {}

\* join returns only when every task was executed ("Now wait for all concurrent
\* tasks to complete"), and so does the join of deinit before it stops threads.
JoinWaits ==
  [][At(Main, "check") /\ place'[Main] \in {"idle", "exit"}
       => 1..made \subseteq finished \union cleared]_vars

\* No task waits on the stack with every worker asleep: there is a token, or a
\* worker about to look, or Main about to post, for each task on the stack.
WakesEnough ==
  Len(stack) <= available + posts
                  + Cardinality({w \in Workers : place[w] \in {"look", "pop"}})

\* When join waits and all tasks are completed, the semaphore it waits for has
\* a token or is about to get one ("the semaphore MUST be eventually signalled
\* once the last task completes").
SignalComes ==
  At(Main, "wait_all") /\ completed = target =>
    \/ signals > 0
    \/ \E w \in Workers : \/ At(w, "signal")
                          \/ At(w, "compare") /\ count[w] = submitted

\* While there are threads, an accepted task is executed even if Main never
\* calls join.
TasksRun ==
  \A t \in 1..MaxTasks :
    made >= t /\ numThreads > 0 ~> t \in finished \union cleared

\* Every call returns: join and deinit do not wait for ever.
CallsReturn == ~At(Main, "idle") ~> At(Main, "idle")
=============================================================================

---------------------------- MODULE TaskPoolProofs ----------------------------
(***************************************************************************)
(* Proofs about TaskPool for any number of threads and tasks: the counters *)
(* match the tasks that are pending, every task is executed once, join     *)
(* waits for all of them, and no wake-up is lost.                          *)
(***************************************************************************)
EXTENDS TaskPool, FiniteSetTheorems, SequenceTheorems, TLAPS

Joining == {"pop", "run", "count", "compare", "signal", "check", "wait_all"}

\* What Main knows at each place of its calls: once its join found the stack
\* empty it stays empty and nothing is submitted, threads are told to exit only
\* then, and the counters are reset only when there is no thread.
MainOK ==
  /\ place[Main] \in {"check", "wait_all", "exit", "release", "reap"} =>
       stack = <<>>
  /\ place[Main] \in {"check", "wait_all"} => target = submitted
  /\ exiting => place[Main] \in {"release", "reap"}
  /\ At(Main, "clear") => numThreads = 0
  /\ place[Main] \in Joining /\ op # "join" => numThreads > 0
  /\ At(Main, "exit") => numThreads > 0
  /\ place[Main] \in {"submit", "push", "create"} => want > 0
  /\ place[Main] \in {"post", "release"} => posts > 0
  /\ place[Main] \notin {"submit", "push", "uncount"} => want <= cMaxThreads
  /\ At(Main, "create") => numThreads + want <= cMaxThreads

\* Workers that were woken and have not yet looked for a task.
Awake == {w \in Workers : place[w] \in {"look", "pop"}}

\* The inductive invariant.
PoolInv == TypeOK /\ MainOK /\ TasksOnce /\ CountsMatch /\ WakesEnough

-----------------------------------------------------------------------------
(* Types, and what Main knows.                                               *)

\* A sequence without its last element.
LEMMA WithoutLast ==
  ASSUME NEW S, NEW q \in Seq(S), NEW n \in Nat, Len(q) = n + 1
  PROVE  /\ SubSeq(q, 1, n) \in Seq(S)
         /\ Len(SubSeq(q, 1, n)) = n
         /\ \A i \in 1..n : SubSeq(q, 1, n)[i] = q[i]
<1>1. \A i \in 1..n : q[i] \in S
  BY ElementOfSeq
<1>. QED
  BY <1>1, SubSeqProperties

\* The stack keeps its type, and loses its top.
LEMMA StackTaken ==
  ASSUME TypeOK, stack # <<>>
  PROVE  LET s == SubSeq(stack, 1, Len(stack) - 1) IN
         /\ stack[Len(stack)] \in 1..made
         /\ s \in Seq(1..made)
         /\ Len(stack) \in Nat \ {0} /\ Len(s) = Len(stack) - 1
         /\ \A i \in 1..Len(s) : s[i] = stack[i]
<1>1. stack \in Seq(1..made) /\ Len(stack) \in Nat \ {0}
  BY EmptySeq, LenProperties DEF TypeOK, StackOK
<1>2. Len(stack) - 1 \in Nat /\ Len(stack) = Len(stack) - 1 + 1
  BY <1>1
<1>3. Len(stack) \in 1..Len(stack)
  BY <1>1
<1>4. stack[Len(stack)] \in 1..made
  BY <1>1, <1>3, ElementOfSeq
<1>. DEFINE n == Len(stack) - 1
<1>5. /\ SubSeq(stack, 1, n) \in Seq(1..made)
      /\ Len(SubSeq(stack, 1, n)) = n
      /\ \A i \in 1..n : SubSeq(stack, 1, n)[i] = stack[i]
  <2>1. n \in Nat /\ Len(stack) = n + 1
    BY <1>2
  <2>. HIDE DEF n
  <2>. QED
    BY <1>1, <2>1, WithoutLast
<1>. QED
  BY <1>1, <1>4, <1>5

\* The stack gains a task, on top.
LEMMA StackPushed ==
  ASSUME TypeOK
  PROVE  LET s == Append(stack, made + 1) IN
         /\ s \in Seq(1..made + 1)
         /\ Len(stack) \in Nat /\ Len(s) = Len(stack) + 1
         /\ s[Len(s)] = made + 1
         /\ \A i \in 1..Len(stack) : s[i] = stack[i]
<1>1. stack \in Seq(1..made) /\ made \in Nat
  BY DEF TypeOK, StackOK
<1>2. stack \in Seq(1..made + 1)
  BY <1>1
<1>. QED
  BY <1>1, <1>2

\* Main moves.
LEMMA MainMoves ==
  ASSUME TypeOK, NEW p \in MainPlaces, Go(Main, p), numThreads' = numThreads
  PROVE  /\ PlacesOK' /\ place'[Main] = p
         /\ \A w \in Workers : place'[w] = place[w]
  BY DEF TypeOK, PlacesOK, At, Go, Actors, Main, Workers

\* A worker moves.
LEMMA WorkerMoves ==
  ASSUME TypeOK, NEW w \in Workers, ~At(w, "none"),
         NEW p \in WorkerPlaces \ {"none"}, Go(w, p), numThreads' = numThreads
  PROVE  /\ PlacesOK' /\ place'[w] = p
         /\ \A a \in Actors \ {w} : place'[a] = place[a]
  BY DEF TypeOK, PlacesOK, At, Go, Actors, Main, Workers

\* Initially everything is at rest.
LEMMA TypeInit == Init => TypeOK /\ MainOK
<1>. SUFFICES ASSUME Init PROVE TypeOK /\ MainOK
  OBVIOUS
<1>1. StackOK
  BY PoolAssumption, EmptySeq DEF Init, StackOK
<1>2. PlacesOK
  BY PoolAssumption
     DEF Init, PlacesOK, At, Actors, Main, Workers, MainPlaces, WorkerPlaces
<1>3. TypeOK
  <2>1. 0 \in 0..made /\ 0 \in Nat
    BY DEF Init
  <2>2. held \in [Actors -> 0..made]
    BY <2>1 DEF Init
  <2>3. count \in [Actors -> Nat]
    BY <2>1 DEF Init
  <2>4. exiting \in BOOLEAN
    BY DEF Init
  <2>. QED
    BY <1>1, <1>2, <2>2, <2>3, <2>4, PoolAssumption DEF Init, TypeOK
<1>4. place[Main] = "idle"
  BY DEF Init, Actors, Main
<1>5. MainOK
  BY <1>4, PoolAssumption DEF Init, MainOK, At, Joining
<1>. QED
  BY <1>3, <1>5

\* Main enters deinit.
LEMMA TypeDeinit ==
  ASSUME TypeOK, MainOK, NEW o \in {"init", "deinit"}, NEW n \in 0..cMaxThreads,
         place[Main] \in {"idle", "create"}, EntersDeinit(o, n)
  PROVE  TypeOK' /\ MainOK'
<1>1. PlacesOK' /\ place'[Main] = IF numThreads > 0 THEN "pop" ELSE "clear"
  BY MainMoves DEF EntersDeinit, MainPlaces, pool
<1>2. TypeOK'
  BY <1>1, PoolAssumption DEF TypeOK, StackOK, EntersDeinit, pool, history
<1>. QED
  BY <1>1, <1>2, PoolAssumption
     DEF TypeOK, MainOK, EntersDeinit, At, Joining, pool

\* Main makes a call.
LEMMA TypeCall ==
  ASSUME TypeOK, MainOK, Call
  PROVE  TypeOK' /\ MainOK'
<1>1. ASSUME NEW n \in 1..MaxBatch, CallQueue(n)
      PROVE  TypeOK' /\ MainOK'
  <2>1. PlacesOK' /\ place'[Main] = "submit"
    BY <1>1, MainMoves DEF CallQueue, MainPlaces, pool
  <2>2. TypeOK'
    BY <1>1, <2>1, PoolAssumption
       DEF TypeOK, StackOK, CallQueue, pool, history
  <2>. QED
    BY <1>1, <2>1, <2>2 DEF TypeOK, MainOK, CallQueue, At, Joining, pool
<1>2. CASE CallJoin
  <2>1. PlacesOK' /\ place'[Main] = "pop"
    BY <1>2, MainMoves DEF CallJoin, MainPlaces, pool
  <2>2. TypeOK'
    BY <1>2, <2>1 DEF TypeOK, StackOK, CallJoin, pool, history
  <2>. QED
    BY <1>2, <2>1, <2>2 DEF TypeOK, MainOK, CallJoin, At, Joining, pool
<1>3. ASSUME NEW o \in {"init", "deinit"}, NEW n \in 0..cMaxThreads,
             At(Main, "idle"), EntersDeinit(o, n)
      PROVE  TypeOK' /\ MainOK'
  BY <1>3, TypeDeinit DEF MainOK, At
<1>. QED
  BY <1>1, <1>2, <1>3, PoolAssumption DEF Call, CallInit, CallDeinit

\* Queueing.
LEMMA TypeQueue ==
  ASSUME TypeOK, MainOK, Queue
  PROVE  TypeOK' /\ MainOK'
<1>1. CASE Submit
  <2>1. PlacesOK' /\ place'[Main] = "push"
    BY <1>1, MainMoves DEF Submit, MainPlaces
  <2>2. TypeOK'
    BY <1>1, <2>1 DEF TypeOK, StackOK, Submit, call, history
  <2>. QED
    BY <1>1, <2>1, <2>2 DEF TypeOK, MainOK, Submit, At, Joining, call
<1>2. CASE Push
  <2>1. PlacesOK' /\ place'[Main] = IF want = 1 THEN "post" ELSE "submit"
    BY <1>2, MainMoves DEF Push, MainPlaces
  <2>2. StackOK'
    BY <1>2, StackPushed, PoolAssumption DEF Push, HasRoom, StackOK
  <2>3. want \in Nat \ {0}
    BY <1>2 DEF TypeOK, MainOK, Push, At
  <2>4. held' \in [Actors -> 0..made']
    BY <1>2 DEF TypeOK, Push
  <2>5. TypeOK'
    BY <1>2, <2>1, <2>2, <2>3, <2>4 DEF TypeOK, Push
  <2>. QED
    BY <1>2, <2>1, <2>3, <2>5, PoolAssumption
       DEF TypeOK, MainOK, Push, At, Joining
<1>3. CASE PushFull
  <2>1. PlacesOK' /\ place'[Main] = "uncount"
    BY <1>3, MainMoves DEF PushFull, MainPlaces, pool
  <2>2. TypeOK'
    BY <1>3, <2>1 DEF TypeOK, StackOK, PushFull, pool, call, history
  <2>. QED
    BY <1>3, <2>1, <2>2 DEF TypeOK, MainOK, PushFull, At, Joining, pool, call
<1>4. CASE Uncount
  <2>1. PlacesOK' /\ place'[Main] = IF posts > 0 THEN "post" ELSE "idle"
    BY <1>4, MainMoves DEF Uncount, MainPlaces
  <2>2. TypeOK'
    BY <1>4, <2>1 DEF TypeOK, StackOK, Uncount, history
  <2>. QED
    BY <1>4, <2>1, <2>2, PoolAssumption DEF TypeOK, MainOK, Uncount, At, Joining
<1>5. CASE Post
  <2>1. PlacesOK' /\ place'[Main] = IF posts = 1 THEN "idle" ELSE "post"
    BY <1>5, MainMoves DEF Post, MainPlaces
  <2>2. TypeOK'
    BY <1>5, <2>1 DEF TypeOK, MainOK, At, StackOK, Post, history
  <2>. QED
    BY <1>5, <2>1, <2>2 DEF TypeOK, MainOK, Post, At, Joining
<1>. QED
  BY <1>1, <1>2, <1>3, <1>4, <1>5 DEF Queue

\* Polling for the end of the tasks.
LEMMA TypePoll ==
  ASSUME TypeOK, MainOK, Snapshot \/ Joined \/ NotJoined \/ WaitAll
  PROVE  TypeOK' /\ MainOK'
<1>1. CASE Snapshot
  <2>1. PlacesOK' /\ place'[Main] = "check"
    BY <1>1, MainMoves DEF Snapshot, MainPlaces, pool
  <2>2. TypeOK'
    BY <1>1, <2>1 DEF TypeOK, StackOK, Snapshot, pool, history
  <2>. QED
    BY <1>1, <2>1, <2>2 DEF TypeOK, MainOK, Snapshot, At, Joining, pool
<1>2. CASE Joined
  <2>1. PlacesOK' /\ place'[Main] = IF op = "join" THEN "idle" ELSE "exit"
    BY <1>2, MainMoves DEF Joined, MainPlaces, pool
  <2>2. TypeOK'
    BY <1>2, <2>1 DEF TypeOK, StackOK, Joined, pool, history
  <2>. QED
    BY <1>2, <2>1, <2>2 DEF TypeOK, MainOK, Joined, At, Joining, pool
<1>3. CASE NotJoined
  <2>1. PlacesOK' /\ place'[Main] = "wait_all"
    BY <1>3, MainMoves DEF NotJoined, MainPlaces, pool
  <2>2. TypeOK'
    BY <1>3, <2>1 DEF TypeOK, StackOK, NotJoined, pool, call, history
  <2>. QED
    BY <1>3, <2>1, <2>2 DEF TypeOK, MainOK, NotJoined, At, Joining, pool, call
<1>4. CASE WaitAll
  <2>1. PlacesOK' /\ place'[Main] = "check"
    BY <1>4, MainMoves DEF WaitAll, MainPlaces
  <2>2. TypeOK'
    BY <1>4, <2>1 DEF TypeOK, StackOK, WaitAll, call, history
  <2>. QED
    BY <1>4, <2>1, <2>2 DEF TypeOK, MainOK, WaitAll, At, Joining, call
<1>. QED
  BY <1>1, <1>2, <1>3, <1>4

\* The end of the threads, and their creation.
LEMMA TypeEnd ==
  ASSUME TypeOK, MainOK, Deinit
  PROVE  TypeOK' /\ MainOK'
<1>1. CASE SetExit
  <2>1. PlacesOK' /\ place'[Main] = "release"
    BY <1>1, MainMoves DEF SetExit, MainPlaces
  <2>2. TypeOK'
    BY <1>1, <2>1, PoolAssumption DEF TypeOK, StackOK, SetExit, history
  <2>. QED
    BY <1>1, <2>1, <2>2 DEF TypeOK, MainOK, SetExit, At, Joining
<1>2. CASE Release
  <2>1. PlacesOK' /\ place'[Main] = IF posts = 1 THEN "reap" ELSE "release"
    BY <1>2, MainMoves DEF Release, MainPlaces
  <2>2. TypeOK'
    BY <1>2, <2>1 DEF TypeOK, MainOK, At, StackOK, Release, history
  <2>. QED
    BY <1>2, <2>1, <2>2 DEF TypeOK, MainOK, Release, At, Joining
<1>3. CASE Reap
  <2>1. PlacesOK' /\ place'[Main] = "clear"
    BY <1>3, PoolAssumption
       DEF Reap, PlacesOK, At, Actors, Main, Workers, MainPlaces, WorkerPlaces
  <2>2. StackOK' /\ numThreads' \in 0..cMaxThreads
    BY <1>3, PoolAssumption DEF TypeOK, StackOK, Reap, history
  <2>3. exiting' \in BOOLEAN
    BY <1>3 DEF Reap
  <2>4. TypeOK'
    BY <1>3, <2>1, <2>2, <2>3 DEF TypeOK, Reap, call, history
  <2>. QED
    BY <1>3, <2>1, <2>4 DEF TypeOK, MainOK, Reap, At, Joining, call
<1>4. CASE Clear
  <2>1. PlacesOK' /\ place'[Main] = IF want > 0 THEN "create" ELSE "idle"
    BY <1>4, MainMoves DEF Clear, MainPlaces
  <2>2. StackOK'
    BY <1>4, EmptySeq, PoolAssumption DEF Clear, StackOK
  <2>3. InStack \subseteq 1..made
    BY ElementOfSeq, LenProperties DEF TypeOK, StackOK, InStack
  <2>4. TypeOK'
    BY <1>4, <2>1, <2>2, <2>3 DEF TypeOK, Clear, call
  <2>. QED
    BY <1>4, <2>1, <2>4, PoolAssumption
       DEF TypeOK, MainOK, Clear, At, Joining, call
<1>5. CASE Create
  <2>1. want \in Nat \ {0} /\ numThreads + 1 \in Workers
    BY <1>5, PoolAssumption DEF TypeOK, MainOK, Create, At, Workers
  <2>2. /\ place'[Main] = IF want = 1 THEN "idle" ELSE "create"
        /\ place'[numThreads + 1] = "wait"
        /\ \A w \in Workers \ {numThreads + 1} : place'[w] = place[w]
        /\ place' \in [Actors -> MainPlaces \union WorkerPlaces]
    BY <1>5, <2>1
       DEF TypeOK, PlacesOK, Create, Actors, Main, Workers, MainPlaces,
           WorkerPlaces
  <2>3. PlacesOK'
    <3>1. \A w \in Workers : w > numThreads + 1 <=> w > numThreads /\ w # numThreads + 1
      BY DEF TypeOK, Workers
    <3>. QED
      BY <1>5, <2>1, <2>2, <3>1
         DEF TypeOK, PlacesOK, Create, At, Workers, MainPlaces, WorkerPlaces
  <2>4. TypeOK'
    BY <1>5, <2>1, <2>3, PoolAssumption
       DEF TypeOK, StackOK, Create, Workers, history
  <2>. QED
    BY <1>5, <2>1, <2>2, <2>4, PoolAssumption
       DEF TypeOK, MainOK, Create, At, Joining
<1>6. CASE CreateFailed
  BY <1>6, TypeDeinit, PoolAssumption DEF CreateFailed, At
<1>. QED
  BY <1>1, <1>2, <1>3, <1>4, <1>5, <1>6 DEF Deinit

\* A thread that executes a task moves from one place to the next.
LEMMA ActorMoves ==
  ASSUME TypeOK, NEW a \in Actors, ~At(a, "none"), NEW p, Go(a, p),
         numThreads' = numThreads,
         IF a = Main THEN p \in MainPlaces ELSE p \in WorkerPlaces \ {"none"}
  PROVE  /\ PlacesOK' /\ place'[a] = p
         /\ \A b \in Actors \ {a} : place'[b] = place[b]
<1>1. CASE a = Main
  BY <1>1, MainMoves DEF Actors
<1>2. CASE a # Main
  BY <1>2, WorkerMoves DEF Actors
<1>. QED
  BY <1>1, <1>2

\* Where a thread is does not matter to Main if Main keeps to its join.
LEMMA MainKept ==
  ASSUME TypeOK, MainOK, NEW a \in Actors,
         a = Main => place[Main] \in Joining /\ place'[Main] \in Joining
                     /\ place'[Main] \notin {"check", "wait_all"},
         a # Main => place'[Main] = place[Main],
         stack = <<>> => stack' = <<>>,
         numThreads' = numThreads, submitted' = submitted, exiting' = exiting,
         op' = op, want' = want, posts' = posts, target' = target
  PROVE  MainOK'
<1>1. CASE a = Main
  BY <1>1 DEF MainOK, Joining, At
<1>2. CASE a # Main
  BY <1>2 DEF MainOK, Joining, At
<1>. QED
  BY <1>1, <1>2

\* Executing a task.
LEMMA TypeProcess ==
  ASSUME TypeOK, MainOK, NEW a \in Actors, Process(a),
         At(a, "run") => held[a] \in 1..made
  PROVE  TypeOK' /\ MainOK'
<1>1. CASE Take(a)
  <2>1. PlacesOK' /\ place'[a] = "run"
        /\ \A b \in Actors \ {a} : place'[b] = place[b]
    BY <1>1, ActorMoves DEF Take, At, MainPlaces, WorkerPlaces
  <2>2. StackOK' /\ held' \in [Actors -> 0..made]
    <3>1. /\ stack' \in Seq(1..made) /\ Len(stack') = Len(stack) - 1
          /\ Len(stack) \in Nat /\ stack[Len(stack)] \in 1..made
      BY <1>1, StackTaken DEF Take, Takes
    <3>2. Len(stack) <= cMaxThreads /\ cMaxThreads \in Nat /\ made' = made
      BY <1>1, PoolAssumption DEF Take, TypeOK, StackOK, history
    <3>3. Len(stack') <= cMaxThreads
      BY <3>1, <3>2
    <3>4. held' = [held EXCEPT ![a] = stack[Len(stack)]]
      BY <1>1 DEF Take, Takes
    <3>5. stack[Len(stack)] \in 0..made
      BY <3>1
    <3>. QED
      BY <3>1, <3>2, <3>3, <3>4, <3>5 DEF TypeOK, StackOK
  <2>3. TypeOK'
    BY <1>1, <2>1, <2>2 DEF TypeOK, Take, call, history
  <2>. QED
    BY <1>1, <2>1, <2>3, MainKept DEF Take, At, Joining, call, Actors
<1>2. CASE Run(a)
  <2>1. PlacesOK' /\ place'[a] = "count"
        /\ \A b \in Actors \ {a} : place'[b] = place[b]
    BY <1>2, ActorMoves DEF Run, At, MainPlaces, WorkerPlaces, pool
  <2>2. finished' \subseteq 1..made
    BY <1>2 DEF TypeOK, Run
  <2>3. held' \in [Actors -> 0..made]
    <3>1. 0 \in 0..made
      BY DEF TypeOK
    <3>. QED
      BY <1>2, <3>1 DEF TypeOK, Run
  <2>4. TypeOK'
    BY <1>2, <2>1, <2>2, <2>3 DEF TypeOK, StackOK, Run, pool, call
  <2>. QED
    BY <1>2, <2>1, <2>4, MainKept DEF Run, At, Joining, pool, call, Actors
<1>3. CASE Count(a)
  <2>1. PlacesOK' /\ place'[a] = "compare"
        /\ \A b \in Actors \ {a} : place'[b] = place[b]
    BY <1>3, ActorMoves DEF Count, At, MainPlaces, WorkerPlaces
  <2>2. TypeOK'
    BY <1>3, <2>1 DEF TypeOK, StackOK, Count, call, history
  <2>. QED
    BY <1>3, <2>1, <2>2, MainKept DEF Count, At, Joining, call, Actors
<1>4. CASE Compare(a)
  <2>1. /\ PlacesOK'
        /\ place'[a] = IF count[a] = submitted THEN "signal" ELSE After(a)
        /\ \A b \in Actors \ {a} : place'[b] = place[b]
    BY <1>4, ActorMoves DEF Compare, After, At, MainPlaces, WorkerPlaces, pool
  <2>2. TypeOK'
    BY <1>4, <2>1 DEF TypeOK, StackOK, Compare, pool, call, history
  <2>. QED
    BY <1>4, <2>1, <2>2, MainKept
       DEF Compare, After, At, Joining, pool, call, Actors
<1>5. CASE Signal(a)
  <2>1. /\ PlacesOK' /\ place'[a] = After(a)
        /\ \A b \in Actors \ {a} : place'[b] = place[b]
    BY <1>5, ActorMoves DEF Signal, After, At, MainPlaces, WorkerPlaces
  <2>2. TypeOK'
    BY <1>5, <2>1 DEF TypeOK, StackOK, Signal, call, history
  <2>. QED
    BY <1>5, <2>1, <2>2, MainKept DEF Signal, After, At, Joining, call, Actors
<1>. QED
  BY <1>1, <1>2, <1>3, <1>4, <1>5 DEF Process

\* A worker waking up, looking for a task and finding none.
LEMMA TypeWorker ==
  ASSUME TypeOK, MainOK, NEW w \in Workers, Wake(w) \/ Look(w) \/ TakeNothing(w)
  PROVE  TypeOK' /\ MainOK'
<1>1. w \in Actors /\ w # Main /\ Main \in Actors
  BY DEF Actors, Workers, Main
<1>2. CASE Wake(w)
  <2>1. PlacesOK' /\ place'[Main] = place[Main]
    BY <1>1, <1>2, WorkerMoves DEF Wake, At, WorkerPlaces
  <2>2. TypeOK'
    BY <1>2, <2>1 DEF TypeOK, StackOK, Wake, call, history
  <2>. QED
    BY <1>1, <1>2, <2>1, <2>2, MainKept DEF Wake, call
<1>3. CASE Look(w)
  <2>1. PlacesOK' /\ place'[Main] = place[Main]
    BY <1>1, <1>3, WorkerMoves DEF Look, At, WorkerPlaces, pool
  <2>2. TypeOK'
    BY <1>3, <2>1 DEF TypeOK, StackOK, Look, pool, call, history
  <2>. QED
    BY <1>1, <1>3, <2>1, <2>2, MainKept DEF Look, pool, call
<1>4. CASE TakeNothing(w)
  <2>1. PlacesOK' /\ place'[Main] = place[Main]
    BY <1>1, <1>4, WorkerMoves DEF TakeNothing, At, WorkerPlaces, pool
  <2>2. TypeOK'
    BY <1>4, <2>1 DEF TypeOK, StackOK, TakeNothing, pool, call, history
  <2>. QED
    BY <1>1, <1>4, <2>1, <2>2, MainKept DEF TakeNothing, pool, call
<1>. QED
  BY <1>2, <1>3, <1>4

-----------------------------------------------------------------------------
(* Steps that take, execute, count or submit no task.                        *)

Pushing == place[Main] \in {"push", "uncount"}

Quiet ==
  \/ Call
  \/ PushFull \/ Post \/ Snapshot \/ Joined \/ NotJoined \/ WaitAll
  \/ SetExit \/ Release \/ Reap \/ Create \/ CreateFailed
  \/ \E a \in Actors : Compare(a) \/ Signal(a)
  \/ \E w \in Workers : Wake(w) \/ Look(w) \/ TakeNothing(w)

\* Every step is one of these, or one of seven others.
LEMMA StepKinds ==
  ASSUME Next
  PROVE  \/ Quiet \/ Submit \/ Push \/ Uncount \/ Clear
         \/ \E a \in Actors : Take(a) \/ Run(a) \/ Count(a)
<1>1. Main \in Actors /\ Workers \subseteq Actors
  BY DEF Actors
<1>. QED
  BY <1>1 DEF Next, Queue, Join, Deinit, Work, Process, Quiet

\* Nobody begins or ends a task.
SameTasks ==
  /\ \A a \in Actors : (At(a, "run")' <=> At(a, "run"))
                      /\ (At(a, "count")' <=> At(a, "count"))
  /\ Pushing' <=> Pushing

\* A thread that goes from one place to another that has to do with no task.
LEMMA SameTasksKept ==
  ASSUME TypeOK, NEW a \in Actors, NEW p, Go(a, p),
         place[a] \notin {"run", "count"}, p \notin {"run", "count"},
         a = Main => (Pushing <=> p \in {"push", "uncount"})
  PROVE  SameTasks
  BY DEF TypeOK, PlacesOK, SameTasks, Go, At, Pushing, Actors

\* What a quiet step leaves alone.
LEMMA QuietKeeps ==
  ASSUME TypeOK, MainOK, Quiet
  PROVE  /\ SameTasks
         /\ stack' = stack /\ submitted' = submitted /\ completed' = completed
         /\ held' = held /\ made' = made
         /\ finished' = finished /\ cleared' = cleared
<1>. DEFINE Kept == /\ stack' = stack /\ submitted' = submitted
                    /\ completed' = completed /\ held' = held /\ made' = made
                    /\ finished' = finished /\ cleared' = cleared
<1>. Main \in Actors /\ Workers \subseteq Actors /\ \A w \in Workers : w # Main
  BY DEF Actors, Main, Workers
<1>1. CASE Call
  <2>1. Kept
    BY <1>1 DEF Call, CallQueue, CallJoin, CallInit, CallDeinit, EntersDeinit,
                pool, history
  <2>2. /\ At(Main, "idle")
        /\ Go(Main, "submit") \/ Go(Main, "pop") \/ Go(Main, "clear")
    BY <1>1 DEF Call, CallQueue, CallJoin, CallInit, CallDeinit, EntersDeinit
  <2>. QED
    BY <2>1, <2>2, SameTasksKept DEF At, Pushing
<1>2. CASE PushFull
  BY <1>2, SameTasksKept DEF PushFull, At, Pushing, pool, history
<1>3. CASE Post
  BY <1>3, SameTasksKept DEF Post, At, Pushing, history
<1>4. CASE Snapshot \/ Joined \/ NotJoined \/ WaitAll
  BY <1>4, SameTasksKept
     DEF Snapshot, Joined, NotJoined, WaitAll, At, Pushing, pool, history
<1>5. CASE SetExit \/ Release
  BY <1>5, SameTasksKept DEF SetExit, Release, At, Pushing, history
<1>6. CASE Reap
  <2>1. \A a \in Actors : place[a] \notin {"run", "count"}
    BY <1>6 DEF Reap, TypeOK, PlacesOK, At, Actors, Workers
  <2>2. SameTasks
    BY <1>6, <2>1 DEF Reap, SameTasks, At, Pushing
  <2>. QED
    BY <1>6, <2>2 DEF Reap, history
<1>7. CASE Create
  <2>1. numThreads + 1 \in Workers /\ At(numThreads + 1, "none")
    BY <1>7, PoolAssumption
       DEF Create, TypeOK, MainOK, PlacesOK, At, Workers
  <2>2. SameTasks
    BY <1>7, <2>1 DEF Create, TypeOK, PlacesOK, SameTasks, At, Pushing
  <2>. QED
    BY <1>7, <2>2 DEF Create, history
<1>8. CASE CreateFailed
  <2>1. At(Main, "create") /\ (Go(Main, "pop") \/ Go(Main, "clear"))
    BY <1>8 DEF CreateFailed, EntersDeinit
  <2>. QED
    BY <1>8, <2>1, SameTasksKept
       DEF CreateFailed, EntersDeinit, At, Pushing, pool, history
<1>9. ASSUME NEW a \in Actors, Compare(a) \/ Signal(a)
      PROVE  SameTasks /\ Kept
  <2>1. /\ place[a] \in {"compare", "signal"}
        /\ Go(a, "signal") \/ Go(a, "pop") \/ Go(a, "wait")
    BY <1>9 DEF Compare, Signal, After, At
  <2>2. SameTasks
    BY <2>1, SameTasksKept DEF Pushing
  <2>. QED
    BY <1>9, <2>2 DEF Compare, Signal, pool, history
<1>10. ASSUME NEW w \in Workers, Wake(w) \/ Look(w) \/ TakeNothing(w)
       PROVE  SameTasks /\ Kept
  <2>1. /\ place[w] \in {"wait", "look", "pop"}
        /\ Go(w, "look") \/ Go(w, "exited") \/ Go(w, "pop") \/ Go(w, "wait")
    BY <1>10 DEF Wake, Look, TakeNothing, At
  <2>2. SameTasks
    BY <2>1, SameTasksKept
  <2>. QED
    BY <1>10, <2>2 DEF Wake, Look, TakeNothing, pool, history
<1>. QED
  BY <1>1, <1>2, <1>3, <1>4, <1>5, <1>6, <1>7, <1>8, <1>9, <1>10 DEF Quiet

-----------------------------------------------------------------------------
(* Every task is executed once.                                              *)

\* A thread that runs a task has one.
LEMMA RunsTask ==
  ASSUME TasksOnce, NEW a \in Actors, At(a, "run")
  PROVE  held[a] \in Running /\ held[a] \in 1..made
  BY DEF TasksOnce, Running

\* Steps that leave the tasks alone.
LEMMA OnceKept ==
  ASSUME TasksOnce, stack' = stack, held' = held, made' = made,
         finished' = finished, cleared' = cleared,
         \A a \in Actors : At(a, "run")' <=> At(a, "run")
  PROVE  TasksOnce'
<1>1. Running' = Running /\ InStack' = InStack
  BY DEF Running, InStack
<1>. QED
  BY <1>1 DEF TasksOnce

\* A task is pushed.
LEMMA OncePush ==
  ASSUME TypeOK, TasksOnce, Push
  PROVE  TasksOnce'
<1>. DEFINE n == Len(stack)
<1>1. /\ n \in Nat /\ DOMAIN stack = 1..n /\ DOMAIN stack' = 1..(n + 1)
      /\ stack'[n + 1] = made + 1
      /\ \A i \in 1..n : stack'[i] = stack[i]
  BY StackPushed, LenProperties DEF Push, TypeOK, StackOK
<1>2. made \in Nat /\ made' = made + 1 /\ 1..made' = 1..made \union {made + 1}
  BY DEF Push, TypeOK
<1>3. \A a \in Actors : At(a, "run")' <=> At(a, "run")
  BY DEF Push, TypeOK, PlacesOK, Go, At, Actors
<1>4. Running' = Running
  BY <1>3 DEF Running, Push
<1>5. InStack' = InStack \union {made + 1}
  <2>1. 1..(n + 1) = 1..n \union {n + 1}
    BY <1>1
  <2>. QED
    BY <1>1, <2>1 DEF InStack
<1>6. made + 1 \notin 1..made
  BY <1>2
<1>7. \A i, j \in DOMAIN stack' : stack'[i] = stack'[j] => i = j
  <2>1. \A i \in 1..n : stack[i] \in 1..made
    BY <1>1 DEF TasksOnce, InStack
  <2>. QED
    BY <1>1, <1>6, <2>1 DEF TasksOnce
<1>8. \A a, b \in Actors : At(a, "run")' /\ At(b, "run")' /\ a # b =>
                             held'[a] # held'[b]
  BY <1>3 DEF TasksOnce, Push
<1>9. finished' = finished /\ cleared' = cleared
  BY DEF Push
<1>10. /\ InStack \subseteq 1..made /\ Running \subseteq 1..made
       /\ finished \subseteq 1..made /\ cleared \subseteq 1..made
  BY DEF TasksOnce
<1>. QED
  BY <1>2, <1>4, <1>5, <1>6, <1>7, <1>8, <1>9, <1>10 DEF TasksOnce

\* A task goes from the top of the stack to a thread.
LEMMA OnceTake ==
  ASSUME TypeOK, TasksOnce, NEW a \in Actors, Take(a)
  PROVE  TasksOnce'
<1>. DEFINE n == Len(stack)
            top == stack[n]
<1>1. /\ n \in Nat \ {0} /\ DOMAIN stack = 1..n /\ DOMAIN stack' = 1..(n - 1)
      /\ \A i \in 1..(n - 1) : stack'[i] = stack[i]
      /\ top \in 1..made
  BY StackTaken, LenProperties DEF Take, Takes, TypeOK, StackOK
<1>2. 1..n = 1..(n - 1) \union {n} /\ n \notin 1..(n - 1)
  BY <1>1
<1>3. InStack = InStack' \union {top} /\ top \notin InStack'
  BY <1>1, <1>2 DEF InStack, TasksOnce
<1>4. /\ held'[a] = top /\ \A b \in Actors \ {a} : held'[b] = held[b]
      /\ ~At(a, "run") /\ At(a, "run")'
      /\ \A b \in Actors \ {a} : At(b, "run")' <=> At(b, "run")
  BY DEF Take, Takes, TypeOK, PlacesOK, Go, At
<1>5. Running' = Running \union {top}
  BY <1>4 DEF Running
<1>6. \A i, j \in DOMAIN stack' : stack'[i] = stack'[j] => i = j
  BY <1>1, <1>2 DEF TasksOnce
<1>7. \A b \in Actors : At(b, "run") => held[b] # top
  BY <1>3 DEF TasksOnce, Running
<1>8. \A b, c \in Actors : At(b, "run")' /\ At(c, "run")' /\ b # c =>
                             held'[b] # held'[c]
  BY <1>4, <1>7 DEF TasksOnce
<1>9. finished' = finished /\ cleared' = cleared /\ made' = made
  BY DEF Take, history
<1>. QED
  BY <1>3, <1>5, <1>6, <1>8, <1>9 DEF TasksOnce

\* A task is executed.
LEMMA OnceRun ==
  ASSUME TypeOK, TasksOnce, NEW a \in Actors, Run(a)
  PROVE  TasksOnce'
<1>1. At(a, "run") /\ held[a] \in Running
  BY RunsTask DEF Run
<1>2. /\ \A b \in Actors \ {a} : held'[b] = held[b]
      /\ ~At(a, "run")'
      /\ \A b \in Actors \ {a} : At(b, "run")' <=> At(b, "run")
  BY DEF Run, TypeOK, PlacesOK, Go, At
<1>3. Running' = Running \ {held[a]}
  BY <1>1, <1>2 DEF Running, TasksOnce
<1>4. /\ finished' = finished \union {held[a]}
      /\ cleared' = cleared /\ made' = made /\ stack' = stack
      /\ InStack' = InStack
  BY DEF Run, pool, InStack
<1>5. \A b, c \in Actors : At(b, "run")' /\ At(c, "run")' /\ b # c =>
                             held'[b] # held'[c]
  BY <1>2 DEF TasksOnce
<1>. QED
  BY <1>1, <1>3, <1>4, <1>5 DEF TasksOnce

\* deinit clears the stack.
LEMMA OnceClear ==
  ASSUME TypeOK, TasksOnce, Clear
  PROVE  TasksOnce'
<1>1. \A a \in Actors : At(a, "run")' <=> At(a, "run")
  BY DEF Clear, TypeOK, PlacesOK, Go, At, Actors
<1>2. held' = held /\ Running' = Running
  BY <1>1 DEF Running, Clear
<1>3. /\ InStack' = {} /\ DOMAIN stack' = {}
      /\ cleared' = cleared \union InStack
      /\ finished' = finished /\ made' = made
  BY DEF Clear, InStack
<1>. QED
  BY <1>1, <1>2, <1>3 DEF TasksOnce

\* Every step.
LEMMA OnceStep ==
  ASSUME TypeOK, MainOK, TasksOnce, Next
  PROVE  TasksOnce'
<1>1. CASE Quiet
  BY <1>1, QuietKeeps, OnceKept DEF SameTasks
<1>2. CASE Submit \/ Uncount
  <2>1. \A a \in Actors : At(a, "run")' <=> At(a, "run")
    BY <1>2 DEF Submit, Uncount, TypeOK, PlacesOK, Go, At, Actors
  <2>. QED
    BY <1>2, <2>1, OnceKept DEF Submit, Uncount, history
<1>3. CASE Push
  BY <1>3, OncePush
<1>4. CASE Clear
  BY <1>4, OnceClear
<1>5. ASSUME NEW a \in Actors, Take(a) \/ Run(a)
      PROVE  TasksOnce'
  BY <1>5, OnceTake, OnceRun
<1>6. ASSUME NEW a \in Actors, Count(a)
      PROVE  TasksOnce'
  <2>1. \A b \in Actors : At(b, "run")' <=> At(b, "run")
    BY <1>6 DEF Count, TypeOK, PlacesOK, Go, At
  <2>. QED
    BY <1>6, <2>1, OnceKept DEF Count, history
<1>. QED
  BY <1>1, <1>2, <1>3, <1>4, <1>5, <1>6, StepKinds

-----------------------------------------------------------------------------
(* The counters.                                                             *)

\* There are finitely many threads.
LEMMA BusyFinite ==
  /\ IsFiniteSet(Busy) /\ Cardinality(Busy) \in Nat
  /\ IsFiniteSet(Awake) /\ Cardinality(Awake) \in Nat
<1>1. IsFiniteSet(Workers)
  BY FS_Interval, PoolAssumption DEF Workers
<1>2. IsFiniteSet(Actors)
  BY <1>1, FS_Singleton, FS_Union DEF Actors
<1>3. Busy \subseteq Actors /\ Awake \subseteq Workers
  BY DEF Busy, Awake
<1>. QED
  BY <1>1, <1>2, <1>3, FS_Subset, FS_CardinalityType

\* The stack's length.
LEMMA StackLength == TypeOK => Len(stack) \in Nat
  BY LenProperties DEF TypeOK, StackOK

\* Every step keeps the counters matched.
LEMMA CountsStep ==
  ASSUME TypeOK, MainOK, CountsMatch, Next
  PROVE  CountsMatch'
<1>. Main \in Actors
  BY DEF Actors
<1>1. /\ Cardinality(Busy) \in Nat /\ IsFiniteSet(Busy) /\ Len(stack) \in Nat
      /\ submitted \in Nat /\ completed \in Nat
  BY BusyFinite, StackLength DEF TypeOK
<1>2. CASE Quiet
  <2>1. Busy' = Busy
    BY <1>2, QuietKeeps DEF SameTasks, Busy, At
  <2>. QED
    BY <1>2, <2>1, QuietKeeps DEF CountsMatch, SameTasks, Pushing
<1>3. CASE Submit
  <2>1. Busy' = Busy /\ place'[Main] = "push" /\ place[Main] = "submit"
    BY <1>3 DEF Submit, Busy, TypeOK, PlacesOK, Go, At, Actors
  <2>. QED
    BY <1>1, <1>3, <2>1 DEF CountsMatch, Submit
<1>4. CASE Push
  <2>1. Busy' = Busy /\ place[Main] = "push" /\ place'[Main] \in {"post", "submit"}
    BY <1>4 DEF Push, Busy, TypeOK, PlacesOK, Go, At
  <2>2. Len(stack') = Len(stack) + 1
    BY <1>4, StackPushed DEF Push
  <2>. QED
    BY <1>1, <1>4, <2>1, <2>2 DEF CountsMatch, Push
<1>5. CASE Uncount
  <2>1. /\ Busy' = Busy /\ place[Main] = "uncount"
        /\ place'[Main] \in {"post", "idle"}
    BY <1>5 DEF Uncount, Busy, TypeOK, PlacesOK, Go, At
  <2>. QED
    BY <1>1, <1>5, <2>1 DEF CountsMatch, Uncount
<1>6. CASE Clear
  <2>1. \A a \in Actors : place'[a] \notin {"run", "count"}
    BY <1>6 DEF Clear, MainOK, TypeOK, PlacesOK, Go, At, Actors, Workers
  <2>2. Busy' = {} /\ place'[Main] \in {"create", "idle"}
    BY <1>6, <2>1 DEF Busy, Clear, TypeOK, PlacesOK, Go
  <2>. QED
    BY <1>6, <2>2, FS_EmptySet DEF CountsMatch, Clear
<1>7. ASSUME NEW a \in Actors, Take(a)
      PROVE  CountsMatch'
  <2>1. Busy' = Busy \union {a} /\ a \notin Busy /\ (Pushing' <=> Pushing)
    BY <1>7 DEF Take, Busy, Pushing, TypeOK, PlacesOK, Go, At
  <2>2. Cardinality(Busy') = Cardinality(Busy) + 1
    BY <1>1, <2>1, FS_AddElement
  <2>3. Len(stack') = Len(stack) - 1
    BY <1>7, StackTaken DEF Take, Takes
  <2>. QED
    BY <1>1, <1>7, <2>1, <2>2, <2>3 DEF CountsMatch, Pushing, Take
<1>8. ASSUME NEW a \in Actors, Run(a)
      PROVE  CountsMatch'
  <2>1. Busy' = Busy /\ (Pushing' <=> Pushing)
    BY <1>8 DEF Run, Busy, Pushing, TypeOK, PlacesOK, Go, At
  <2>. QED
    BY <1>8, <2>1 DEF CountsMatch, Pushing, Run, pool
<1>9. ASSUME NEW a \in Actors, Count(a)
      PROVE  CountsMatch'
  <2>1. Busy' = Busy \ {a} /\ a \in Busy /\ (Pushing' <=> Pushing)
    BY <1>9 DEF Count, Busy, Pushing, TypeOK, PlacesOK, Go, At
  <2>2. Cardinality(Busy') = Cardinality(Busy) - 1
    BY <1>1, <2>1, FS_RemoveElement
  <2>. QED
    BY <1>1, <1>9, <2>1, <2>2 DEF CountsMatch, Pushing, Count
<1>. QED
  BY <1>2, <1>3, <1>4, <1>5, <1>6, <1>7, <1>8, <1>9, StepKinds

-----------------------------------------------------------------------------
(* Wake-ups.                                                                 *)

\* With an empty stack nobody needs to wake up.
LEMMA EmptyWakes ==
  ASSUME TypeOK', stack' = <<>>
  PROVE  WakesEnough'
<1>1. IsFiniteSet(Workers) /\ Awake' \subseteq Workers
  BY FS_Interval, PoolAssumption DEF Workers, Awake
<1>2. Cardinality(Awake') \in Nat
  BY <1>1, FS_Subset, FS_CardinalityType
<1>3. Len(stack') = 0 /\ available' \in Nat /\ posts' \in Nat
  BY DEF TypeOK
<1>. QED
  BY <1>2, <1>3 DEF WakesEnough, Awake

\* Adding up.
LEMMA NoneDropped ==
  ASSUME NEW n \in Nat, NEW c \in Nat, NEW a \in Nat, NEW b \in Nat,
         NEW d \in Nat, NEW e \in Nat, n <= a + b + c, a + b <= d + e
  PROVE  n <= d + e + c
  OBVIOUS

\* Steps that change neither the stack nor who is awake, and drop no post.
LEMMA WakesKept ==
  ASSUME TypeOK, TypeOK', WakesEnough, Len(stack') = Len(stack), Awake' = Awake,
         available + posts <= available' + posts'
  PROVE  WakesEnough'
<1>1. Cardinality(Awake) \in Nat /\ Len(stack) \in Nat
  BY BusyFinite, StackLength
<1>2. Len(stack) <= available + posts + Cardinality(Awake)
  BY DEF WakesEnough, Awake
<1>3. Cardinality(Awake') = Cardinality(Awake)
  OBVIOUS
<1>4. /\ available \in Nat /\ posts \in Nat
      /\ available' \in Nat /\ posts' \in Nat
  BY DEF TypeOK
<1>5. Len(stack') <= available' + posts' + Cardinality(Awake')
  BY <1>1, <1>2, <1>3, <1>4, NoneDropped
<1>. QED
  BY <1>5 DEF WakesEnough, Awake

\* Moves that do not wake a worker, or send it to sleep.
LEMMA AwakeKept ==
  ASSUME TypeOK, NEW a \in Actors, NEW p, Go(a, p),
         a # Main => /\ p \notin {"look", "pop"}
                     /\ place[a] \notin {"look", "pop"}
  PROVE  Awake' = Awake
<1>1. \A w \in Workers : place'[w] = IF w = a THEN p ELSE place[w]
  BY DEF TypeOK, PlacesOK, Go, Actors
<1>2. \A w \in Workers : w # Main
  BY DEF Workers, Main
<1>. QED
  BY <1>1, <1>2 DEF Awake

\* Every step leaves as many wake-ups as there are tasks on the stack.
LEMMA WakesStep ==
  ASSUME TypeOK, TypeOK', MainOK, WakesEnough, Next
  PROVE  WakesEnough'
<1>. Main \in Actors /\ Workers \subseteq Actors /\ \A w \in Workers : w # Main
  BY DEF Actors, Main, Workers
<1>1. /\ available \in Nat /\ posts \in Nat /\ Len(stack) \in Nat
      /\ Cardinality(Awake) \in Nat /\ IsFiniteSet(Awake)
      /\ Len(stack) <= available + posts + Cardinality(Awake)
  BY BusyFinite, StackLength DEF TypeOK, WakesEnough, Awake
<1>2. CASE Call \/ CreateFailed
  <2>1. /\ Go(Main, "submit") \/ Go(Main, "pop") \/ Go(Main, "clear")
        /\ stack' = stack /\ available' = available /\ posts' = posts
    BY <1>2 DEF Call, CallQueue, CallJoin, CallInit, CallDeinit, CreateFailed,
                EntersDeinit, pool
  <2>. QED
    BY <1>1, <2>1, AwakeKept, WakesKept
<1>3. CASE Submit \/ PushFull \/ Uncount
  <2>1. /\ \/ Go(Main, "push") \/ Go(Main, "uncount") \/ Go(Main, "post")
           \/ Go(Main, "idle")
        /\ stack' = stack /\ available' = available /\ posts' = posts
    BY <1>3 DEF Submit, PushFull, Uncount, pool, call
  <2>. QED
    BY <1>1, <2>1, AwakeKept, WakesKept
<1>4. CASE Post
  <2>1. Awake' = Awake
    BY <1>4, AwakeKept DEF Post
  <2>2. stack' = stack /\ available + posts <= available' + posts'
    BY <1>1, <1>4 DEF Post
  <2>. QED
    BY <2>1, <2>2, WakesKept
<1>5. CASE Push
  <2>1. Awake' = Awake
    BY <1>5, AwakeKept DEF Push
  <2>2. Cardinality(Awake') = Cardinality(Awake)
    BY <2>1
  <2>3. Len(stack') = Len(stack) + 1 /\ posts' = posts + 1 /\ available' = available
    BY <1>5, StackPushed DEF Push
  <2>4. Len(stack') <= available' + posts' + Cardinality(Awake')
    BY <1>1, <2>2, <2>3
  <2>. QED
    BY <2>4 DEF WakesEnough, Awake
<1>6. CASE Snapshot \/ Joined \/ NotJoined \/ WaitAll \/ SetExit \/ Release \/ Reap
           \/ Clear
  BY <1>6, EmptyWakes
     DEF Snapshot, Joined, NotJoined, WaitAll, SetExit, Release, Reap, Clear,
         MainOK, At, pool
<1>7. CASE Create
  <2>1. numThreads + 1 \in Workers /\ At(numThreads + 1, "none")
    BY <1>7, PoolAssumption DEF Create, TypeOK, MainOK, PlacesOK, At, Workers
  <2>2. Awake' = Awake
    BY <1>7, <2>1 DEF Create, TypeOK, PlacesOK, At, Awake
  <2>3. stack' = stack /\ available' = available /\ posts' = posts
    BY <1>7 DEF Create
  <2>. QED
    BY <1>1, <2>2, <2>3, WakesKept
<1>8. ASSUME NEW a \in Actors, Run(a) \/ Count(a) \/ Compare(a) \/ Signal(a)
      PROVE  WakesEnough'
  <2>1. /\ place[a] \in {"run", "count", "compare", "signal"}
        /\ \/ Go(a, "count") \/ Go(a, "compare") \/ Go(a, "signal")
           \/ a # Main /\ Go(a, "wait")
           \/ a = Main /\ Go(a, "pop")
    BY <1>8 DEF Run, Count, Compare, Signal, After, At
  <2>2. Awake' = Awake
    BY <2>1, AwakeKept
  <2>3. stack' = stack /\ available' = available /\ posts' = posts
    BY <1>8 DEF Run, Count, Compare, Signal, pool, call
  <2>. QED
    BY <1>1, <2>2, <2>3, WakesKept
<1>9. ASSUME NEW a \in Actors, Take(a)
      PROVE  WakesEnough'
  <2>1. /\ Len(stack') = Len(stack) - 1
        /\ available' = available /\ posts' = posts
    BY <1>9, StackTaken DEF Take, Takes, call
  <2>2. \/ Awake' = Awake
        \/ Awake' = Awake \ {a} /\ a \in Awake
    <3>1. CASE a = Main
      BY <1>9, <3>1, AwakeKept DEF Take
    <3>2. CASE a # Main
      BY <1>9, <3>2 DEF Take, Awake, TypeOK, PlacesOK, Go, At, Actors
    <3>. QED
      BY <3>1, <3>2
  <2>3. Cardinality(Awake') \in {Cardinality(Awake), Cardinality(Awake) - 1}
    BY <1>1, <2>2, FS_RemoveElement
  <2>4. Len(stack') <= available' + posts' + Cardinality(Awake')
    BY <1>1, <2>1, <2>3
  <2>. QED
    BY <2>4 DEF WakesEnough, Awake
<1>10. ASSUME NEW w \in Workers, Wake(w)
       PROVE  WakesEnough'
  <2>1. Awake' = Awake \union {w} /\ w \notin Awake
    BY <1>10 DEF Wake, Awake, TypeOK, PlacesOK, Go, At
  <2>2. Cardinality(Awake') = Cardinality(Awake) + 1
    BY <1>1, <2>1, FS_AddElement
  <2>3. stack' = stack /\ available' = available - 1 /\ posts' = posts
    BY <1>10 DEF Wake, call
  <2>4. Len(stack') <= available' + posts' + Cardinality(Awake')
    BY <1>1, <2>2, <2>3
  <2>. QED
    BY <2>4 DEF WakesEnough, Awake
<1>11. ASSUME NEW w \in Workers, Look(w)
       PROVE  WakesEnough'
  <2>1. CASE exiting
    BY <1>11, <2>1, EmptyWakes DEF Look, MainOK, pool
  <2>2. CASE ~exiting
    <3>1. Awake' = Awake
      BY <1>11, <2>2 DEF Look, Awake, TypeOK, PlacesOK, Go, At
    <3>. QED
      BY <1>1, <1>11, <3>1, WakesKept DEF Look, pool, call
  <2>. QED
    BY <2>1, <2>2
<1>12. ASSUME NEW w \in Workers, TakeNothing(w)
       PROVE  WakesEnough'
  BY <1>12, EmptyWakes DEF TakeNothing, pool
<1>. QED
  BY <1>2, <1>3, <1>4, <1>5, <1>6, <1>7, <1>8, <1>9, <1>10, <1>11, <1>12
     DEF Next, Queue, Join, Deinit, Work, Process

-----------------------------------------------------------------------------
(* The invariant and the theorems.                                           *)

\* Initially there is no task.
LEMMA PoolInit == Init => PoolInv
<1>. SUFFICES ASSUME Init PROVE PoolInv
  OBVIOUS
<1>1. TypeOK /\ MainOK
  BY TypeInit
<1>2. \A a \in Actors : place[a] \notin {"run", "count", "look", "pop", "push", "uncount"}
  BY DEF Init
<1>3. /\ InStack = {} /\ Running = {} /\ Busy = {} /\ Awake = {} /\ 1..made = {}
      /\ Len(stack) = 0
  BY <1>2 DEF Init, InStack, Running, Busy, Awake, At, Actors
<1>4. TasksOnce
  BY <1>2, <1>3 DEF Init, TasksOnce, At
<1>5. CountsMatch
  BY <1>2, <1>3, FS_EmptySet DEF Init, CountsMatch, Actors
<1>6. WakesEnough
  <2>1. Cardinality(Awake) = 0
    BY <1>3, FS_EmptySet
  <2>. QED
    BY <1>3, <2>1 DEF Init, WakesEnough, Awake
<1>. QED
  BY <1>1, <1>4, <1>5, <1>6 DEF PoolInv

\* Every step keeps the invariant.
LEMMA PoolStep == PoolInv /\ [Next]_vars => PoolInv'
<1>. SUFFICES ASSUME PoolInv, [Next]_vars PROVE PoolInv'
  OBVIOUS
<1>1. CASE Next
  <2>1. TypeOK' /\ MainOK'
    <3>1. \A a \in Actors : At(a, "run") => held[a] \in 1..made
      BY RunsTask DEF PoolInv
    <3>2. CASE Process(Main) \/ \E w \in Workers : Process(w)
      BY <3>1, <3>2, TypeProcess DEF PoolInv, Actors
    <3>. QED
      BY <1>1, <3>2, TypeCall, TypeQueue, TypePoll, TypeEnd, TypeWorker
         DEF PoolInv, Next, Join, Work
  <2>. QED
    BY <1>1, <2>1, OnceStep, CountsStep, WakesStep DEF PoolInv
<1>2. CASE UNCHANGED vars
  <2>1. TypeOK'
    BY <1>2 DEF vars, pool, call, history, PoolInv, TypeOK, StackOK, PlacesOK, At
  <2>2. MainOK'
    BY <1>2 DEF vars, pool, call, history, PoolInv, MainOK, At
  <2>3. TasksOnce'
    BY <1>2, OnceKept DEF vars, pool, history, PoolInv, At
  <2>4. CountsMatch' /\ WakesEnough'
    BY <1>2 DEF vars, pool, call, PoolInv, CountsMatch, Busy, WakesEnough
  <2>. QED
    BY <2>1, <2>2, <2>3, <2>4 DEF PoolInv
<1>. QED
  BY <1>1, <1>2

\* The invariant holds throughout.
LEMMA PoolAlways == Spec => []PoolInv
  BY PoolInit, PoolStep, PTL DEF Spec

\* The stack keeps to its capacity and every variable to its type.
THEOREM TypeCorrect == Spec => []TypeOK
<1>1. PoolInv => TypeOK
  BY DEF PoolInv
<1>. QED
  BY <1>1, PoolAlways, PTL

\* The counters of submitted and completed tasks differ by what is on the
\* stack, in a thread's hands or about to be pushed or refused.
THEOREM CountsCorrect == Spec => []CountsMatch
<1>1. PoolInv => CountsMatch
  BY DEF PoolInv
<1>. QED
  BY <1>1, PoolAlways, PTL

\* No task is lost or executed twice.
THEOREM OnceCorrect == Spec => []TasksOnce
<1>1. PoolInv => TasksOnce
  BY DEF PoolInv
<1>. QED
  BY <1>1, PoolAlways, PTL

\* No wake-up is lost.
THEOREM WakesCorrect == Spec => []WakesEnough
<1>1. PoolInv => WakesEnough
  BY DEF PoolInv
<1>. QED
  BY <1>1, PoolAlways, PTL

\* With matched and equal counters nothing is pending when join finds the
\* stack empty.
LEMMA JoinedAll ==
  ASSUME PoolInv, At(Main, "check"), completed = target
  PROVE  1..made \subseteq finished \union cleared
<1>1. /\ Cardinality(Busy) \in Nat /\ IsFiniteSet(Busy) /\ Len(stack) \in Nat
      /\ completed \in Nat
  BY BusyFinite, StackLength DEF PoolInv, TypeOK
<1>2. submitted = completed + Len(stack) + Cardinality(Busy)
  BY <1>1 DEF PoolInv, CountsMatch, At
<1>3. submitted = completed /\ stack = <<>>
  BY DEF PoolInv, MainOK, At
<1>4. Cardinality(Busy) = 0
  BY <1>1, <1>2, <1>3
<1>5. Busy = {}
  BY <1>1, <1>4, FS_EmptySet
<1>6. Running = {} /\ InStack = {}
  BY <1>3, <1>5 DEF Running, Busy, At, InStack
<1>. QED
  BY <1>6 DEF PoolInv, TasksOnce

\* join does not return while the counters differ.
LEMMA NotJoinedStays ==
  ASSUME PoolInv, [Next]_vars, At(Main, "check"), completed # target
  PROVE  place'[Main] \in {"check", "wait_all"}
<1>. Main \in Actors /\ Workers \subseteq Actors /\ \A w \in Workers : w # Main
  BY DEF Actors, Main, Workers
<1>1. ASSUME NEW w \in Workers, Work(w)
      PROVE  place'[Main] = "check"
  <2>1. \E p : Go(w, p)
    BY <1>1 DEF Work, Process, Wake, Look, TakeNothing, Take, Run, Count, Compare,
                Signal
  <2>. QED
    BY <2>1 DEF Go, At, PoolInv, TypeOK, PlacesOK
<1>2. CASE NotJoined
  BY <1>2 DEF NotJoined, Go, PoolInv, TypeOK, PlacesOK
<1>3. CASE UNCHANGED vars
  BY <1>3 DEF vars, At
<1>4. ~Call /\ ~Queue /\ ~Deinit /\ ~Process(Main) /\ ~Snapshot /\ ~Joined /\ ~WaitAll
  BY DEF Call, CallQueue, CallJoin, CallInit, CallDeinit, Queue, Submit, Push,
         PushFull, Uncount, Post, Deinit, SetExit, Release, Reap, Clear, Create,
         CreateFailed, Process, Take, Run, Count, Compare, Signal, Snapshot, Joined,
         WaitAll, At
<1>. QED
  BY <1>1, <1>2, <1>3, <1>4 DEF Next, Join

\* join returns only when every task was executed.
THEOREM JoinCorrect == Spec => JoinWaits
<1>1. ASSUME PoolInv, [Next]_vars, At(Main, "check"), place'[Main] \in {"idle", "exit"}
      PROVE  1..made \subseteq finished \union cleared
  <2>1. CASE completed = target
    BY <1>1, <2>1, JoinedAll
  <2>2. CASE completed # target
    BY <1>1, <2>2, NotJoinedStays
  <2>. QED
    BY <2>1, <2>2
<1>. QED
  BY <1>1, PoolAlways, PTL DEF Spec, JoinWaits

\* While join waits, the worker that completes the last task signals.
LEMMA SignalStep ==
  ASSUME PoolInv, SignalComes, [Next]_vars
  PROVE  SignalComes'
<1>. SUFFICES ASSUME At(Main, "wait_all")', completed' = target'
              PROVE  \/ signals' > 0
                     \/ \E w \in Workers :
                          \/ At(w, "signal")'
                          \/ At(w, "compare")' /\ count'[w] = submitted'
  BY DEF SignalComes
<1>. Main \in Actors /\ Workers \subseteq Actors /\ \A w \in Workers : w # Main
  BY DEF Actors, Main, Workers
<1>. TypeOK /\ MainOK
  BY DEF PoolInv
<1>1. CASE UNCHANGED vars
  BY <1>1 DEF vars, pool, call, SignalComes, At
<1>2. CASE NotJoined
  BY <1>2 DEF NotJoined, pool, call
<1>3. CASE Call \/ Queue \/ Deinit \/ Process(Main) \/ Snapshot \/ Joined \/ WaitAll
  <2>1. \/ \E p \in MainPlaces \ {"wait_all"} : Go(Main, p)
        \/ Reap \/ Create
    BY <1>3
       DEF Call, CallQueue, CallJoin, CallInit, CallDeinit, EntersDeinit, Queue,
           Submit, Push, PushFull, Uncount, Post, Deinit, SetExit, Release, Clear,
           CreateFailed, Process, Take, Run, Count, Compare, Signal, After,
           Snapshot, Joined, WaitAll, MainPlaces
  <2>2. place'[Main] # "wait_all"
    BY <2>1 DEF Go, Reap, Create, TypeOK, PlacesOK, Workers, Main
  <2>. QED
    BY <2>2 DEF At
<1>4. ASSUME NEW w \in Workers, Work(w)
      PROVE  \/ signals' > 0
             \/ \E v \in Workers :
                  \/ At(v, "signal")'
                  \/ At(v, "compare")' /\ count'[v] = submitted'
  <2>1. /\ \E p : Go(w, p)
        /\ submitted' = submitted /\ target' = target
    BY <1>4 DEF Work, Process, Wake, Look, TakeNothing, Take, Run, Count, Compare,
                Signal, pool, call
  <2>2. /\ At(Main, "wait_all")
        /\ \A v \in Workers \ {w} : place'[v] = place[v]
    BY <2>1 DEF Go, At, TypeOK, PlacesOK
  <2>3. target = submitted /\ submitted \in Nat /\ completed \in Nat /\ signals \in Nat
    BY <2>2 DEF MainOK, TypeOK, At
  <2>4. CASE Count(w)
    <3>1. place'[w] = "compare" /\ count'[w] = completed'
      BY <2>4 DEF Count, TypeOK, PlacesOK, Go
    <3>. QED
      BY <2>1, <2>3, <3>1 DEF At
  <2>5. CASE Signal(w)
    BY <2>3, <2>5 DEF Signal
  <2>6. CASE Compare(w) \/ Wake(w) \/ Look(w) \/ TakeNothing(w) \/ Take(w) \/ Run(w)
    <3>1. completed' = completed /\ signals' = signals
      BY <2>6 DEF Compare, Wake, Look, TakeNothing, Take, Run, pool
    <3>2. \/ signals > 0
          \/ \E v \in Workers : \/ At(v, "signal")
                                \/ At(v, "compare") /\ count[v] = submitted
      BY <2>1, <2>2, <3>1 DEF SignalComes
    <3>3. ASSUME NEW v \in Workers \ {w},
                 At(v, "signal") \/ (At(v, "compare") /\ count[v] = submitted)
          PROVE  At(v, "signal")' \/ (At(v, "compare")' /\ count'[v] = submitted')
      <4>1. count'[v] = count[v]
        <5>1. CASE Compare(w)
          BY <5>1 DEF Compare, TypeOK
        <5>2. CASE Wake(w) \/ Look(w) \/ TakeNothing(w) \/ Take(w) \/ Run(w)
          BY <5>2 DEF Wake, Look, TakeNothing, Take, Run
        <5>. QED
          BY <2>6, <5>1, <5>2
      <4>. QED
        BY <2>1, <2>2, <3>3, <4>1 DEF At
    <3>4. ASSUME At(w, "signal") \/ (At(w, "compare") /\ count[w] = submitted)
          PROVE  At(w, "signal")'
      <4>1. Compare(w) /\ count[w] = submitted
        BY <2>6, <3>4 DEF Compare, Wake, Look, TakeNothing, Take, Run, At
      <4>. QED
        BY <4>1 DEF Compare, Go, At, TypeOK, PlacesOK
    <3>5. CASE signals > 0
      BY <3>1, <3>5
    <3>6. CASE At(w, "signal") \/ (At(w, "compare") /\ count[w] = submitted)
      BY <3>4, <3>6
    <3>7. CASE \E v \in Workers \ {w} :
                 At(v, "signal") \/ (At(v, "compare") /\ count[v] = submitted)
      BY <3>3, <3>7
    <3>8. CASE ~(signals > 0)
      <4>1. PICK v \in Workers :
              At(v, "signal") \/ (At(v, "compare") /\ count[v] = submitted)
        BY <3>2, <3>8, Zenon
      <4>2. v = w \/ v \in Workers \ {w}
        OBVIOUS
      <4>. QED
        BY <3>6, <3>7, <4>1, <4>2
    <3>. QED
      BY <3>5, <3>8
  <2>. QED
    BY <1>4, <2>4, <2>5, <2>6 DEF Work, Process
<1>. QED
  BY <1>1, <1>2, <1>3, <1>4 DEF Next, Join

\* A join that waits for the last task gets its signal.
THEOREM SignalCorrect == Spec => []SignalComes
<1>1. Init => SignalComes
  BY DEF Init, SignalComes, At, Actors
<1>2. PoolInv /\ SignalComes /\ [Next]_vars => SignalComes'
  BY SignalStep
<1>. QED
  BY <1>1, <1>2, PoolAlways, PTL DEF Spec

=============================================================================

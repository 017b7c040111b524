---------------------------- MODULE MtQueueProofs ----------------------------
(***************************************************************************)
(* Proofs about MtQueue for rings of every size and any number of threads, *)
(* tries and messages: the ring's invariant, and that the queue implements *)
(* the bounded first-in first-out queue.                                   *)
(***************************************************************************)
EXTENDS MtQueue, SequenceTheorems, TLAPS

\* The ring and the ring's types, which every step preserves together.
RingInv == TypeOK /\ RingHoldsMessages

\* The next slot wraps around at the end of the ring.
LEMMA SuccWraps ==
  ASSUME NEW i \in Slots
  PROVE  Succ(i) = IF i = nElementCount THEN 0 ELSE i + 1
  BY QueueAssumption DEF Succ, cElements, Slots

\* Adding at the head leaves the messages in place and takes the next slot.
LEMMA HeadMoves ==
  ASSUME head \in Slots, tail \in Slots, ~IsFull,
         head' = Succ(head), tail' = tail
  PROVE  /\ Count' = Count + 1 /\ Count \in 0..nElementCount - 1
         /\ SlotOf(Count) = head
         /\ \A i \in Nat : SlotOf(i)' = SlotOf(i)
         /\ \A i \in 0..nElementCount : i < Count => SlotOf(i) # head
  BY SuccWraps, QueueAssumption DEF Count, SlotOf, IsFull, cElements, Slots

\* Taking at the tail moves every message one place towards the front.
LEMMA TailMoves ==
  ASSUME head \in Slots, tail \in Slots, ~IsEmpty,
         head' = head, tail' = Succ(tail)
  PROVE  /\ Count' = Count - 1 /\ Count \in 1..nElementCount
         /\ SlotOf(0) = tail
         /\ \A i \in Nat : i < Count' => SlotOf(i)' = SlotOf(i + 1)
  BY SuccWraps, QueueAssumption DEF Count, SlotOf, IsEmpty, cElements, Slots

\* A return, and another turn of the loop, leave well-typed calls and answers.
LEMMA ReturnType ==
  ASSUME TypeOK, NEW u, NEW a \in Answers, Returns(u, a)
  PROVE  call' \in [Users -> Calls] /\ answer' \in [Users -> Answers]
  BY DEF TypeOK, Returns, Idle, Calls

\* The loop over the tries is type correct.
LEMMA LoopType ==
  ASSUME TypeOK, NEW u, NEW op \in {"Enqueue", "Dequeue"}, NEW c \in Nat,
         NEW n \in Nat, TryOrGiveUp(u, op, c, n)
  PROVE  call' \in [Users -> Calls] /\ answer' \in [Users -> Answers]
<1>1. \A m \in {"none", "MTQ_FULL", "MTQ_EMPTY"} : Code(m) \in Answers
  BY DEF Code, Answers
<1>2. CASE c < n
  BY <1>1, <1>2 DEF TypeOK, TryOrGiveUp, Calls
<1>3. CASE ~(c < n)
  BY <1>1, <1>3, ReturnType DEF TryOrGiveUp
<1>. QED
  BY <1>2, <1>3

-----------------------------------------------------------------------------
(* The ring's invariant.                                                     *)

\* Initially the ring is empty.
LEMMA RingInit == Init => RingInv
<1>. SUFFICES ASSUME Init PROVE RingInv
  OBVIOUS
<1>1. Idle \in Calls /\ Code("none") \in Answers
  BY DEF Idle, Calls, Code, Answers
<1>2. list \in [Slots -> Nat] /\ head \in Slots /\ tail \in Slots
  BY QueueAssumption DEF Init, Slots
<1>3. TypeOK
  BY <1>1, <1>2 DEF Init, TypeOK
<1>4. RingHoldsMessages
  BY QueueAssumption DEF Init, RingHoldsMessages, Count
<1>. QED
  BY <1>3, <1>4 DEF RingInv

\* A step that leaves the ring alone: a call, a try that changes nothing.
LEMMA RingKept ==
  ASSUME RingInv, UNCHANGED <<list, head, tail, deleted, put, out, freed>>,
         call' \in [Users -> Calls], answer' \in [Users -> Answers]
  PROVE  RingInv'
  BY DEF RingInv, TypeOK, RingHoldsMessages, Count, SlotOf

\* A message that is enqueued becomes the youngest one.
LEMMA EnqueueRing ==
  ASSUME RingInv, NEW u \in Users, Enqueue(u), ~deleted
  PROVE  RingInv'
<1>1. call' \in [Users -> Calls] /\ answer' \in [Users -> Answers]
  BY ReturnType DEF Enqueue, Code, Answers, RingInv
<1>2. head' \in Slots /\ list' \in [Slots -> Nat] /\ put' \in Nat
  BY SuccWraps, QueueAssumption DEF Enqueue, RingInv, TypeOK, Slots
<1>3. TypeOK'
  BY <1>1, <1>2 DEF Enqueue, RingInv, TypeOK
<1>4. /\ Count' = Count + 1 /\ Count \in 0..nElementCount - 1
      /\ SlotOf(Count) = head
      /\ \A i \in Nat : SlotOf(i)' = SlotOf(i)
      /\ \A i \in 0..nElementCount : i < Count => SlotOf(i) # head
  BY HeadMoves DEF Enqueue, RingInv, TypeOK
<1>5. put' = out' + Count' /\ Count' <= nElementCount
  BY <1>4, QueueAssumption DEF Enqueue, RingInv, TypeOK, RingHoldsMessages
<1>6. ASSUME NEW i \in 0..nElementCount, i < Count'
      PROVE  list'[SlotOf(i)'] = out' + i + 1
  <2>1. SlotOf(i)' = SlotOf(i) /\ SlotOf(i) \in Slots
    BY <1>4, <1>6, QueueAssumption
       DEF RingInv, TypeOK, SlotOf, Slots, cElements
  <2>2. CASE i = Count
    BY <1>4, <2>1, <2>2 DEF Enqueue, RingInv, TypeOK, RingHoldsMessages
  <2>3. CASE i # Count
    <3>1. i < Count
      BY <1>4, <1>6, <2>3, QueueAssumption
    <3>2. list'[SlotOf(i)] = list[SlotOf(i)]
      BY <1>4, <2>1, <3>1 DEF Enqueue, RingInv, TypeOK
    <3>. QED
      BY <2>1, <3>1, <3>2 DEF Enqueue, RingInv, RingHoldsMessages
  <2>. QED
    BY <2>2, <2>3
<1>. QED
  BY <1>3, <1>5, <1>6 DEF RingInv, RingHoldsMessages

\* The message that is dequeued is the oldest one, and the second oldest takes
\* its place.
LEMMA DequeueRing ==
  ASSUME RingInv, NEW u \in Users, Dequeue(u), ~deleted
  PROVE  RingInv' /\ list[tail] = out + 1
<1>1. /\ Count' = Count - 1 /\ Count \in 1..nElementCount
      /\ SlotOf(0) = tail
      /\ \A i \in Nat : i < Count' => SlotOf(i)' = SlotOf(i + 1)
  BY TailMoves DEF Dequeue, RingInv, TypeOK
<1>2. list[tail] = out + 1
  BY <1>1, QueueAssumption DEF RingInv, TypeOK, RingHoldsMessages
<1>3. call' \in [Users -> Calls] /\ answer' \in [Users -> Answers]
  BY <1>2, ReturnType DEF Dequeue, Answers, RingInv, TypeOK
<1>4. TypeOK'
  BY <1>3, SuccWraps, QueueAssumption DEF Dequeue, RingInv, TypeOK, Slots
<1>5. put' = out' + Count' /\ Count' <= nElementCount
  BY <1>1, QueueAssumption DEF Dequeue, RingInv, TypeOK, RingHoldsMessages
<1>6. ASSUME NEW i \in 0..nElementCount, i < Count'
      PROVE  list'[SlotOf(i)'] = out' + i + 1
  <2>1. SlotOf(i)' = SlotOf(i + 1) /\ i + 1 \in 0..nElementCount /\ i + 1 < Count
    BY <1>1, <1>6, QueueAssumption
  <2>. QED
    BY <2>1 DEF Dequeue, RingInv, TypeOK, RingHoldsMessages
<1>. QED
  BY <1>2, <1>4, <1>5, <1>6 DEF RingInv, RingHoldsMessages

\* After the destructor only the types matter.
LEMMA DeleteRing ==
  ASSUME RingInv, Delete
  PROVE  RingInv'
<1>1. CASE IsEmpty
  BY <1>1 DEF RingInv, TypeOK, RingHoldsMessages, Delete, Purge
<1>2. CASE ~IsEmpty
  <2>1. list' \in [Slots -> Nat]
    <3>1. list' = [i \in Slots |-> IF i \in Behind THEN 0 ELSE list[i]]
      BY <1>2 DEF Delete, Purge
    <3>. QED
      BY <3>1 DEF RingInv, TypeOK
  <2>2. freed' \subseteq Nat
    <3>1. freed' = freed \union {list[i] : i \in Behind}
      BY <1>2 DEF Delete, Purge
    <3>2. \A i \in Behind : list[i] \in Nat
      BY DEF Behind, RingInv, TypeOK
    <3>. QED
      BY <3>1, <3>2 DEF RingInv, TypeOK
  <2>3. head' = tail
    BY <1>2 DEF Delete, Purge
  <2>. QED
    BY <2>1, <2>2, <2>3 DEF RingInv, TypeOK, RingHoldsMessages, Delete
<1>. QED
  BY <1>1, <1>2

\* A thread that is in a call has not seen the queue deleted.
NoCallAfterDelete == deleted => \A u \in Users : call[u] = Idle

QueueInv == RingInv /\ NoCallAfterDelete

\* Calls begin before the queue is deleted, and it is deleted between calls.
LEMMA CallsEnd ==
  ASSUME QueueInv, [Next]_vars
  PROVE  NoCallAfterDelete'
<1>1. CASE Delete
  BY <1>1 DEF Delete, QueueInv, NoCallAfterDelete
<1>2. ASSUME NEW u \in Users, CallEnqueue(u) \/ CallDequeue(u)
      PROVE  NoCallAfterDelete'
  BY <1>2 DEF CallEnqueue, CallDequeue, Enters, NoCallAfterDelete
<1>3. ASSUME NEW u \in Users, Try(u)
      PROVE  NoCallAfterDelete'
  <2>1. ~deleted
    BY <1>3 DEF Try, Enqueue, EnqueueNoMemory, EnqueueFull, Dequeue,
                DequeueEmpty, QueueInv, NoCallAfterDelete, Idle
  <2>2. deleted' = deleted
    BY <1>3 DEF Try, Enqueue, EnqueueNoMemory, EnqueueFull, Dequeue,
                DequeueEmpty
  <2>. QED
    BY <2>1, <2>2 DEF NoCallAfterDelete
<1>4. CASE UNCHANGED vars
  BY <1>4 DEF vars, QueueInv, NoCallAfterDelete
<1>. QED
  BY <1>1, <1>2, <1>3, <1>4 DEF Next

\* The loop and the calls that come back to it leave the ring alone.
LEMMA TryRing ==
  ASSUME QueueInv, NEW u \in Users,
         CallEnqueue(u) \/ CallDequeue(u) \/ Try(u)
  PROVE  RingInv'
<1>. USE DEF QueueInv
<1>1. CASE Enqueue(u) \/ Dequeue(u)
  <2>1. ~deleted
    BY <1>1 DEF Enqueue, Dequeue, NoCallAfterDelete, Idle
  <2>. QED
    BY <1>1, <2>1, EnqueueRing, DequeueRing
<1>2. CASE EnqueueNoMemory(u)
  <2>1. Code("MTQ_MEMERROR") \in Answers
    BY DEF Code, Answers
  <2>. QED
    BY <1>2, <2>1, ReturnType, RingKept DEF EnqueueNoMemory, RingInv
<1>3. CASE CallEnqueue(u) \/ CallDequeue(u)
  <2>1. PICK op \in {"Enqueue", "Dequeue"}, n \in Nat : TryOrGiveUp(u, op, 0, n)
    BY <1>3, QueueAssumption DEF CallEnqueue, CallDequeue, Enters, AtLeastOne
  <2>2. call' \in [Users -> Calls] /\ answer' \in [Users -> Answers]
    BY <2>1, LoopType DEF RingInv
  <2>. QED
    BY <1>3, <2>2, RingKept DEF CallEnqueue, CallDequeue, Enters
<1>4. CASE EnqueueFull(u) \/ DequeueEmpty(u)
  <2>1. /\ call[u].op \in {"Enqueue", "Dequeue"}
        /\ call[u].cTries + 1 \in Nat /\ call[u].nRetries \in Nat
    BY <1>4 DEF EnqueueFull, DequeueEmpty, RingInv, TypeOK, Calls
  <2>2. call' \in [Users -> Calls] /\ answer' \in [Users -> Answers]
    BY <1>4, <2>1, LoopType DEF EnqueueFull, DequeueEmpty, TryAgain, RingInv
  <2>. QED
    BY <1>4, <2>2, RingKept DEF EnqueueFull, DequeueEmpty
<1>. QED
  BY <1>1, <1>2, <1>3, <1>4 DEF Try

\* The queue's invariant is inductive.
LEMMA QueueNext == QueueInv /\ [Next]_vars => QueueInv'
<1>. SUFFICES ASSUME QueueInv, [Next]_vars PROVE RingInv'
  BY CallsEnd DEF QueueInv
<1>1. CASE UNCHANGED vars
  BY <1>1 DEF vars, QueueInv, RingInv, TypeOK, RingHoldsMessages, Count, SlotOf
<1>2. CASE Delete
  BY <1>2, DeleteRing DEF QueueInv
<1>. QED
  BY <1>1, <1>2, TryRing DEF Next

\* The queue's invariant holds initially.
LEMMA QueueInit == Init => QueueInv
  BY RingInit DEF QueueInv, NoCallAfterDelete, Init

\* Whatever the size of the ring and however many threads use it, the indices
\* stay inside it and it holds exactly the messages enqueued and not dequeued,
\* oldest first.
THEOREM RingCorrect == Spec => [](TypeOK /\ RingHoldsMessages)
<1>1. QueueInv => TypeOK /\ RingHoldsMessages
  BY DEF QueueInv, RingInv
<1>. QED
  BY QueueInit, QueueNext, <1>1, PTL DEF Spec

-----------------------------------------------------------------------------
(* The queue implements the bounded first-in first-out queue.                *)

\* The ring read from the tail on is a sequence of Count messages.
LEMMA QueueIsSeq ==
  ASSUME QueueInv
  PROVE  /\ Queue \in Seq(Nat)
         /\ ~deleted => Len(Queue) = Count /\ Count \in 0..nElementCount
         /\ deleted => Queue = <<>>
<1>1. Count \in Nat /\ (~deleted => Count \in 0..nElementCount)
  BY QueueAssumption
     DEF QueueInv, RingInv, TypeOK, RingHoldsMessages, Count, Slots, cElements
<1>2. ASSUME NEW i \in 1..(IF deleted THEN 0 ELSE Count)
      PROVE  list[SlotOf(i - 1)] \in Nat
  <2>1. SlotOf(i - 1) \in Slots
    BY <1>1, <1>2, QueueAssumption
       DEF QueueInv, RingInv, TypeOK, SlotOf, Slots, cElements
  <2>. QED
    BY <2>1 DEF QueueInv, RingInv, TypeOK
<1>3. Queue \in Seq(Nat)
  BY <1>1, <1>2 DEF Queue
<1>4. Len(Queue) = IF deleted THEN 0 ELSE Count
  BY <1>1, <1>2 DEF Queue
<1>. QED
  BY <1>1, <1>3, <1>4

\* A step that does not touch the ring does not touch the abstract queue.
LEMMA QueueKept ==
  ASSUME UNCHANGED <<list, head, tail, deleted>>
  PROVE  UNCHANGED Queue
  BY DEF Queue, Count, SlotOf

\* The numbers after k, as a sequence.
Numbers(k, n) == [i \in 1..n |-> k + i]

\* Appending the next number, and taking the first one, give such sequences.
LEMMA NumbersFacts ==
  ASSUME NEW k \in Nat, NEW n \in Nat
  PROVE  /\ Len(Numbers(k, n)) = n
         /\ Append(Numbers(k, n), k + n + 1) = Numbers(k, n + 1)
         /\ n # 0 => /\ Numbers(k, n) # <<>>
                     /\ Head(Numbers(k, n)) = k + 1
                     /\ Tail(Numbers(k, n)) = Numbers(k + 1, n - 1)
<1>. DEFINE s == Numbers(k, n)
<1>1. \A j, m \in Nat : Numbers(j, m) \in Seq(Nat) /\ Len(Numbers(j, m)) = m
  BY DEF Numbers
<1>2. Append(s, k + n + 1) = Numbers(k, n + 1)
  <2>. DEFINE t == Append(s, k + n + 1)
              w == Numbers(k, n + 1)
  <2>1. s \in Seq(Nat) /\ Len(s) = n /\ k + n + 1 \in Nat
    BY <1>1
  <2>2. w \in Seq(Nat) /\ Len(w) = n + 1
    BY <1>1
  <2>3. \A i \in 1..n + 1 : w[i] = IF i <= n THEN s[i] ELSE k + n + 1
    BY DEF Numbers
  <2>. HIDE DEF s, w
  <2>4. /\ t \in Seq(Nat) /\ Len(t) = n + 1
        /\ \A i \in 1..n : t[i] = s[i]
        /\ t[n + 1] = k + n + 1
    BY <2>1, AppendProperties
  <2>5. \A i \in 1..Len(t) : t[i] = w[i]
    BY <2>3, <2>4
  <2>. HIDE DEF t
  <2>6. t = w
    BY <2>2, <2>4, <2>5, SeqEqual
  <2>. QED
    BY <2>6 DEF t, w
<1>3. ASSUME n # 0
      PROVE  s # <<>> /\ Head(s) = k + 1 /\ Tail(s) = Numbers(k + 1, n - 1)
  <2>1. s # <<>>
    BY <1>1, <1>3
  <2>2. /\ Tail(s) \in Seq(Nat) /\ Len(Tail(s)) = n - 1
        /\ \A i \in 1..n - 1 : Tail(s)[i] = s[i + 1]
    BY <1>1, <2>1, HeadTailProperties
  <2>3. \A i \in 1..n - 1 : Tail(s)[i] = Numbers(k + 1, n - 1)[i]
    BY <2>2 DEF Numbers
  <2>4. Head(s) = k + 1
    BY <1>3 DEF Numbers
  <2>5. Numbers(k + 1, n - 1) \in Seq(Nat) /\ Len(Numbers(k + 1, n - 1)) = n - 1
    BY <1>1, <1>3
  <2>. DEFINE t == Tail(s)
              w == Numbers(k + 1, n - 1)
  <2>6. /\ t \in Seq(Nat) /\ w \in Seq(Nat) /\ Len(t) = Len(w)
        /\ \A i \in 1..Len(t) : t[i] = w[i]
    BY <2>2, <2>3, <2>5
  <2>. HIDE DEF t, w
  <2>7. t = w
    BY <2>6, SeqEqual
  <2>. QED
    BY <2>1, <2>4, <2>7 DEF t, w
<1>. QED
  BY <1>1, <1>2, <1>3

\* The abstract queue holds the messages after those that were dequeued.
LEMMA QueueElements ==
  ASSUME QueueInv, ~deleted
  PROVE  Queue = Numbers(out, Count) /\ Count \in Nat /\ put = out + Count
<1>1. ASSUME NEW i \in 1..Count
      PROVE  list[SlotOf(i - 1)] = out + i
  BY QueueIsSeq, QueueAssumption
     DEF QueueInv, RingInv, TypeOK, RingHoldsMessages
<1>. QED
  BY <1>1, QueueIsSeq DEF Queue, Numbers, QueueInv, RingInv, RingHoldsMessages

\* The same of the state after a step.
LEMMA QueueElementsNext ==
  ASSUME QueueInv', ~deleted'
  PROVE  Queue' = Numbers(out', Count')
<1>1. Count' \in 0..nElementCount
  <2>1. head' \in 0..nElementCount /\ tail' \in 0..nElementCount
    BY DEF QueueInv, RingInv, TypeOK, Slots
  <2>2. Count' <= nElementCount
    BY DEF QueueInv, RingInv, RingHoldsMessages
  <2>3. Count' = IF tail' <= head' THEN head' - tail'
                                   ELSE head' + (nElementCount + 1) - tail'
    BY DEF Count, cElements
  <2>4. \A h, t \in 0..nElementCount :
          (IF t <= h THEN h - t ELSE h + (nElementCount + 1) - t) \in Nat
    BY QueueAssumption
  <2>5. Count' \in Nat
    BY <2>1, <2>3, <2>4
  <2>. QED
    BY <2>2, <2>5, QueueAssumption
<1>2. ASSUME NEW i \in 1..Count'
      PROVE  list'[SlotOf(i - 1)'] = out' + i
  BY <1>1, <1>2, QueueAssumption
     DEF QueueInv, RingInv, TypeOK, RingHoldsMessages
<1>. QED
  BY <1>2 DEF Queue, Numbers

\* Enqueue appends to the abstract queue, which has room.
LEMMA EnqueueImplements ==
  ASSUME QueueInv, QueueInv', NEW u \in Users, Enqueue(u)
  PROVE  Fifo!Put(u)
<1>1. ~deleted /\ ~deleted'
  BY DEF Enqueue, QueueInv, NoCallAfterDelete, Idle
<1>2. Count' = Count + 1 /\ Count \in 0..nElementCount - 1
  BY HeadMoves DEF Enqueue, QueueInv, RingInv, TypeOK
<1>3. Queue = Numbers(out, Count) /\ Queue' = Numbers(out, Count + 1)
  BY <1>1, <1>2, QueueElements, QueueElementsNext DEF Enqueue
<1>4. Len(Queue) < nElementCount /\ Queue' = Append(Queue, put + 1)
  <2>1. out \in Nat /\ Count \in Nat /\ put = out + Count
    BY <1>1, <1>2, QueueElements DEF QueueInv, RingInv, TypeOK
  <2>2. /\ Len(Numbers(out, Count)) = Count
        /\ Append(Numbers(out, Count), out + Count + 1) = Numbers(out, Count + 1)
    BY <2>1, NumbersFacts
  <2>3. Count < nElementCount
    BY <1>2, QueueAssumption
  <2>. QED
    BY <1>3, <2>1, <2>2, <2>3
<1>. QED
  BY <1>4 DEF Fifo!Put, Fifo!Returns, Fifo!Code, Enqueue, Returns, Code

\* Dequeue takes the head of the abstract queue.
LEMMA DequeueImplements ==
  ASSUME QueueInv, QueueInv', NEW u \in Users, Dequeue(u)
  PROVE  Fifo!Get(u)
<1>1. ~deleted /\ ~deleted'
  BY DEF Dequeue, QueueInv, NoCallAfterDelete, Idle
<1>2. Count' = Count - 1 /\ Count \in 1..nElementCount
  BY TailMoves DEF Dequeue, QueueInv, RingInv, TypeOK
<1>3. Queue = Numbers(out, Count) /\ Queue' = Numbers(out + 1, Count - 1)
  BY <1>1, <1>2, QueueElements, QueueElementsNext DEF Dequeue
<1>4. list[tail] = out + 1
  BY <1>1, DequeueRing DEF QueueInv
<1>5. Queue # <<>> /\ Queue' = Tail(Queue) /\ Head(Queue) = list[tail]
  <2>1. out \in Nat /\ Count \in Nat /\ Count # 0
    BY <1>2, QueueAssumption DEF QueueInv, RingInv, TypeOK
  <2>2. /\ Numbers(out, Count) # <<>>
        /\ Head(Numbers(out, Count)) = out + 1
        /\ Tail(Numbers(out, Count)) = Numbers(out + 1, Count - 1)
    BY <2>1, NumbersFacts
  <2>. QED
    BY <1>3, <1>4, <2>2
<1>. QED
  BY <1>5 DEF Fifo!Get, Fifo!Returns, Dequeue, Returns

\* A full ring is a full abstract queue, and an empty one an empty one.
LEMMA FullAndEmpty ==
  ASSUME QueueInv, ~deleted
  PROVE  /\ IsFull <=> Len(Queue) = nElementCount
         /\ IsEmpty <=> Queue = <<>>
<1>1. /\ IsFull <=> Count = nElementCount
      /\ IsEmpty <=> Count = 0
  BY SuccWraps, QueueAssumption
     DEF QueueInv, RingInv, TypeOK, IsFull, IsEmpty, Count, Slots, cElements
<1>. QED
  BY <1>1, QueueIsSeq

\* A call that begins, or that changes nothing, is a call or a refusal.
LEMMA OtherImplements ==
  ASSUME QueueInv, NEW u \in Users,
         \/ CallEnqueue(u) \/ CallDequeue(u) \/ EnqueueNoMemory(u)
         \/ EnqueueFull(u) \/ DequeueEmpty(u)
  PROVE  Fifo!Call(u) \/ Fifo!Refuse(u)
<1>1. UNCHANGED <<list, head, tail, deleted, put>>
  BY DEF CallEnqueue, CallDequeue, Enters, EnqueueNoMemory, EnqueueFull,
         DequeueEmpty
<1>2. UNCHANGED <<Queue, put>>
  BY <1>1, QueueKept
<1>3. call[u] # Idle => ~deleted
  BY DEF QueueInv, NoCallAfterDelete
<1>4. CASE CallEnqueue(u) \/ CallDequeue(u)
  <2>1. PICK op \in {"Enqueue", "Dequeue"}, n \in Nat \ {0} :
          TryOrGiveUp(u, op, 0, n)
    BY <1>4, QueueAssumption DEF CallEnqueue, CallDequeue, Enters, AtLeastOne
  <2>. QED
    BY <1>2, <2>1 DEF TryOrGiveUp, Code, Fifo!Call, Fifo!Returns, Fifo!Code
<1>5. CASE EnqueueNoMemory(u)
  <2>1. Len(Queue) < nElementCount
    BY <1>3, <1>5, FullAndEmpty, QueueIsSeq, QueueAssumption
       DEF EnqueueNoMemory, Idle
  <2>. QED
    BY <1>2, <1>5, <2>1
       DEF EnqueueNoMemory, Returns, Code, Fifo!Refuse, Fifo!Returns, Fifo!Code
<1>6. CASE EnqueueFull(u)
  <2>1. Len(Queue) = nElementCount
    BY <1>3, <1>6, FullAndEmpty DEF EnqueueFull, Idle
  <2>. QED
    BY <1>2, <1>6, <2>1
       DEF EnqueueFull, TryAgain, TryOrGiveUp, Returns, Code, Fifo!Call,
           Fifo!Refuse, Fifo!Returns, Fifo!Code
<1>7. CASE DequeueEmpty(u)
  <2>1. Queue = <<>>
    BY <1>3, <1>7, FullAndEmpty DEF DequeueEmpty, Idle
  <2>. QED
    BY <1>2, <1>7, <2>1
       DEF DequeueEmpty, TryAgain, TryOrGiveUp, Returns, Code, Fifo!Call,
           Fifo!Refuse, Fifo!Returns, Fifo!Code
<1>. QED
  BY <1>4, <1>5, <1>6, <1>7

\* The queue that is deleted is cleared.
LEMMA DeleteImplements ==
  ASSUME QueueInv, Delete
  PROVE  Fifo!Clear
<1>1. Queue' = <<>>
  BY DEF Delete, Queue
<1>. QED
  BY <1>1 DEF Fifo!Clear, Delete

\* Every step of the ring is a step of the queue.
LEMMA StepImplements ==
  ASSUME QueueInv, QueueInv', [Next]_vars
  PROVE  [Fifo!Next]_(Fifo!fvars)
<1>1. CASE UNCHANGED vars
  BY <1>1, QueueKept DEF vars, Fifo!fvars
<1>2. CASE Delete
  BY <1>2, DeleteImplements DEF Fifo!Next
<1>3. ASSUME NEW u \in Users, CallEnqueue(u) \/ CallDequeue(u) \/ Try(u)
      PROVE  Fifo!Next
  BY <1>3, EnqueueImplements, DequeueImplements, OtherImplements
     DEF Try, Fifo!Next, Users
<1>. QED
  BY <1>1, <1>2, <1>3 DEF Next

\* For rings of every size and any number of threads, retries and messages the
\* queue is a bounded first-in first-out queue whose answers are true.
THEOREM FifoCorrect == Spec => FifoSpec
<1>1. Init => Fifo!Init
  <2>. SUFFICES ASSUME Init PROVE Fifo!Init
    OBVIOUS
  <2>1. Queue = <<>>
    BY DEF Init, Queue, Count
  <2>. QED
    BY <2>1 DEF Init, Code, Fifo!Init, Fifo!Code
<1>. QED
  BY <1>1, QueueInit, QueueNext, StepImplements, PTL DEF Spec, FifoSpec, Fifo!Spec

=============================================================================

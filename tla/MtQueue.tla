------------------------------- MODULE MtQueue -------------------------------
(***************************************************************************)
(* The message queue of src/src/common/mtqueue.cpp: a ring of pointers to  *)
(* copies of the messages, under one mutex.  Enqueue and Dequeue try for   *)
(* the ring a number of times; each try is one critical section, and other *)
(* threads run while the caller sleeps between two tries.  The destructor  *)
(* purges the queue and frees the ring.                                    *)
(*                                                                         *)
(* A message stands for the heap block that holds its copy; messages are   *)
(* numbered in the order in which they are copied.                         *)
(*                                                                         *)
(* An operator named Wrong... is not part of the model: it is the operator *)
(* below it with a mistake in it, kept to show that a property notices.    *)
(***************************************************************************)
EXTENDS Naturals

CONSTANTS
  Producers,      \* threads that call Enqueue
  Consumers,      \* threads that call Dequeue
  nElementCount,  \* argument of Initialize
  MaxRetries,     \* bound: calls ask for 0..MaxRetries tries
  MaxMessages,    \* bound on the messages that are enqueued
  MallocFails     \* TRUE: malloc may return NULL

ASSUME QueueAssumption ==
  /\ nElementCount \in Nat
  /\ MaxRetries \in Nat
  /\ MaxMessages \in Nat
  /\ MallocFails \in BOOLEAN

VARIABLES
  list,     \* m_pbDataList: the message each slot points to; 0 before a slot is
            \* first written (the pointer is then uninitialised) and once purged
  head,     \* m_iHead
  tail,     \* m_iTail
  call,     \* each thread's call: cTries and nRetries of Enqueue or Dequeue
  answer,   \* what each thread's last call returned
  deleted,  \* the destructor has run
  put,      \* how many messages were enqueued
  out,      \* how many messages were dequeued
  freed     \* what Purge has passed to free()

vars == <<list, head, tail, call, answer, deleted, put, out, freed>>

Users == Producers \union Consumers

cElements == nElementCount + 1

Slots == 0..nElementCount

Idle == [op |-> "none", cTries |-> 0, nRetries |-> 0]

Code(c) == [code |-> c, message |-> 0]

\* The next slot of the ring.
Succ(i) == (i + 1) % cElements

WrongIsFull == head = nElementCount /\ tail = 0

IsFull == Succ(head) = tail

WrongIsEmpty == head = tail \/ head = Succ(tail)

IsEmpty == head = tail

Init ==
  /\ list = [i \in Slots |-> 0]
  /\ head = 0 /\ tail = 0
  /\ call = [u \in Users |-> Idle]
  /\ answer = [u \in Users |-> Code("none")]
  /\ deleted = FALSE
  /\ put = 0 /\ out = 0 /\ freed = {}

-----------------------------------------------------------------------------
(* Calls.                                                                    *)

WrongAtLeastOne(n) == n

\* Both functions make one try if asked for none.
AtLeastOne(n) == IF n = 0 THEN 1 ELSE n

Returns(u, a) ==
  /\ call' = [call EXCEPT ![u] = Idle]
  /\ answer' = [answer EXCEPT ![u] = a]

\* The condition of the loop over the tries: what the function returns when it
\* has used them all up.
TryOrGiveUp(u, op, cTries, nRetries) ==
  IF cTries < nRetries
  THEN /\ call' = [call EXCEPT ![u] =
                     [op |-> op, cTries |-> cTries, nRetries |-> nRetries]]
       /\ answer' = [answer EXCEPT ![u] = Code("none")]
  ELSE Returns(u, Code(IF op = "Enqueue" THEN "MTQ_FULL" ELSE "MTQ_EMPTY"))

TryAgain(u) ==
  TryOrGiveUp(u, call[u].op, call[u].cTries + 1, call[u].nRetries)

Enters(u, op) ==
  /\ ~deleted
  /\ call[u] = Idle
  /\ \E n \in 0..MaxRetries : TryOrGiveUp(u, op, 0, AtLeastOne(n))
  /\ UNCHANGED <<list, head, tail, deleted, put, out, freed>>

CallEnqueue(u) == u \in Producers /\ put < MaxMessages /\ Enters(u, "Enqueue")

CallDequeue(u) == u \in Consumers /\ Enters(u, "Dequeue")

\* The ring has room and the message can be copied.
Enqueue(u) ==
  /\ call[u].op = "Enqueue"
  /\ ~IsFull
  /\ list' = [list EXCEPT ![head] = put + 1]
  /\ head' = Succ(head)
  /\ put' = put + 1
  /\ Returns(u, Code("MTQ_NONE"))
  /\ UNCHANGED <<tail, deleted, out, freed>>

EnqueueNoMemory(u) ==
  /\ call[u].op = "Enqueue"
  /\ ~IsFull
  /\ MallocFails
  /\ Returns(u, Code("MTQ_MEMERROR"))
  /\ UNCHANGED <<list, head, tail, deleted, put, out, freed>>

EnqueueFull(u) ==
  /\ call[u].op = "Enqueue"
  /\ IsFull
  /\ TryAgain(u)
  /\ UNCHANGED <<list, head, tail, deleted, put, out, freed>>

\* The slot keeps the pointer, the caller owns the block from here on.
Dequeue(u) ==
  /\ call[u].op = "Dequeue"
  /\ ~IsEmpty
  /\ tail' = Succ(tail)
  /\ out' = out + 1
  /\ Returns(u, [code |-> "MTQ_NONE", message |-> list[tail]])
  /\ UNCHANGED <<list, head, deleted, put, freed>>

DequeueEmpty(u) ==
  /\ call[u].op = "Dequeue"
  /\ IsEmpty
  /\ TryAgain(u)
  /\ UNCHANGED <<list, head, tail, deleted, put, out, freed>>

-----------------------------------------------------------------------------
(* The end of the queue.                                                     *)

\* What lies from m_iHead on to m_iTail: Purge walks over these slots, whose
\* pointers are stale or were never set.
Behind == {i \in Slots : IF head <= tail THEN head <= i /\ i < tail
                                         ELSE head <= i \/ i < tail}

Purge ==
  IF IsEmpty THEN UNCHANGED <<list, head, freed>>
  ELSE /\ freed' = freed \union {list[i] : i \in Behind}
       /\ list' = [i \in Slots |-> IF i \in Behind THEN 0 ELSE list[i]]
       /\ head' = tail

\* The destructor: its caller sees to it that no thread is in a call.
Delete ==
  /\ ~deleted
  /\ \A u \in Users : call[u] = Idle
  /\ Purge
  /\ deleted' = TRUE
  /\ UNCHANGED <<tail, call, answer, put, out>>

Try(u) == \/ Enqueue(u) \/ EnqueueNoMemory(u) \/ EnqueueFull(u)
          \/ Dequeue(u) \/ DequeueEmpty(u)

Next ==
  \/ \E u \in Users : CallEnqueue(u) \/ CallDequeue(u) \/ Try(u)
  \/ Delete

Spec == Init /\ [][Next]_vars

\* Threads are scheduled, and the consumers are loops around Dequeue.
Fairness ==
  /\ \A u \in Users : WF_vars(Try(u))
  /\ \A u \in Consumers : WF_vars(CallDequeue(u))

FairSpec == Spec /\ Fairness

-----------------------------------------------------------------------------
(* Properties.                                                               *)

\* How many messages the ring holds, and the slot of the i-th oldest, from 0.
Count == IF tail <= head THEN head - tail ELSE head + cElements - tail

SlotOf(i) == IF tail + i < cElements THEN tail + i ELSE tail + i - cElements

Calls == [op : {"none", "Enqueue", "Dequeue"}, cTries : Nat, nRetries : Nat]

Answers ==
  [code : {"none", "MTQ_NONE", "MTQ_FULL", "MTQ_EMPTY", "MTQ_MEMERROR"},
   message : Nat]

\* Type invariant: the indices stay inside the ring.
TypeOK ==
  /\ list \in [Slots -> Nat]
  /\ head \in Slots /\ tail \in Slots
  /\ call \in [Users -> Calls]
  /\ answer \in [Users -> Answers]
  /\ deleted \in BOOLEAN
  /\ put \in Nat /\ out \in Nat
  /\ freed \subseteq Nat

\* The ring holds the messages that were enqueued and not dequeued, oldest
\* first, whatever the number of times head and tail went around it, and never
\* more than it was initialized for.
RingHoldsMessages ==
  ~deleted => /\ put = out + Count
              /\ Count <= nElementCount
              /\ \A i \in 0..nElementCount :
                   i < Count => list[SlotOf(i)] = out + i + 1

\* Every message that is enqueued is dequeued, by one of the consumers, as long
\* as they keep asking and the queue is not deleted.
Delivered ==
  \A m \in 1..MaxMessages : put >= m ~> out >= m \/ deleted

\* The destructor frees the messages that are still queued, and nothing else
\* ("Should delete whatever is remaining in the queue").
PurgeFreesQueued == deleted => freed = (out + 1)..put

-----------------------------------------------------------------------------
(* What a user of the queue sees, see BoundedFifo.                           *)

Queue == [i \in 1..(IF deleted THEN 0 ELSE Count) |-> list[SlotOf(i - 1)]]

Fifo == INSTANCE BoundedFifo
          WITH Capacity <- nElementCount, queue <- Queue, added <- put

\* The ring and its retries implement a bounded first-in first-out queue whose
\* answers are true at the moment of the last try.
FifoSpec == Fifo!Spec
=============================================================================

----------------------------- MODULE BoundedFifo -----------------------------
(***************************************************************************)
(* What src/src/common/mtqueue.h promises the threads that share a queue:  *)
(* a message is enqueued once or refused, messages come out in the order   *)
(* they went in, and "full" or "empty" is answered only when it is true.   *)
(* Messages are numbered in the order in which they are accepted.          *)
(***************************************************************************)
EXTENDS Naturals, Sequences

CONSTANTS Users, Capacity

VARIABLES
  queue,    \* the messages in the queue, oldest first
  added,    \* how many messages were accepted
  answer    \* what each thread's last call returned

fvars == <<queue, added, answer>>

\* No call has returned, or the last one stored no message.
Code(c) == [code |-> c, message |-> 0]

Init == /\ queue = <<>>
        /\ added = 0
        /\ answer = [u \in Users |-> Code("none")]

Returns(u, a) == answer' = [answer EXCEPT ![u] = a]

Call(u) == Returns(u, Code("none")) /\ UNCHANGED <<queue, added>>

Put(u) == /\ Len(queue) < Capacity
          /\ queue' = Append(queue, added + 1)
          /\ added' = added + 1
          /\ Returns(u, Code("MTQ_NONE"))

Get(u) == /\ queue # <<>>
          /\ queue' = Tail(queue)
          /\ Returns(u, [code |-> "MTQ_NONE", message |-> Head(queue)])
          /\ UNCHANGED added

\* A call that changes nothing: the queue is full, is empty, or there is no
\* memory for the copy of the message.
Refuse(u) == /\ \/ Len(queue) = Capacity /\ Returns(u, Code("MTQ_FULL"))
                \/ queue = <<>> /\ Returns(u, Code("MTQ_EMPTY"))
                \/ Len(queue) < Capacity /\ Returns(u, Code("MTQ_MEMERROR"))
             /\ UNCHANGED <<queue, added>>

\* The queue is purged and deleted.
Clear == queue' = <<>> /\ UNCHANGED <<added, answer>>

Next == \/ \E u \in Users : Call(u) \/ Put(u) \/ Get(u) \/ Refuse(u)
        \/ Clear

Spec == Init /\ [][Next]_fvars
=============================================================================

-------------------------- MODULE ChannelLinkProofs --------------------------
(***************************************************************************)
(* Proofs about ChannelLink: whatever connections are reset or given up    *)
(* and whatever clients leave, messages are delivered whole, in order and  *)
(* once, for any numbers of messages, connections, tries and faults and    *)
(* any sizes of the queue and the network's buffers.                       *)
(***************************************************************************)
EXTENDS ChannelLink, SequenceTheorems, WellFoundedInduction, TLAPS

-----------------------------------------------------------------------------
(* The inductive invariant.                                                  *)

\* The messages that the sending thread is done with: those it has taken from the
\* queue, before the one it holds.
Done ==
  {m \in Messages :
     /\ \E k \in 1..(Len(accepted) - Len(queue)) : accepted[k] = m
     /\ message # None => m < message}

\* The accepted messages are numbered upwards, the queue holds the last of them
\* and the sending thread one from before these.
QueueInv ==
  /\ \A k \in DOMAIN accepted : accepted[k] <= next
  /\ \A j, k \in DOMAIN accepted : j < k => accepted[j] < accepted[k]
  /\ Len(queue) <= Len(accepted)
  /\ \A i \in DOMAIN queue : queue[i] = accepted[Len(accepted) - Len(queue) + i]
  /\ message # None =>
       \E k \in 1..(Len(accepted) - Len(queue)) : accepted[k] = message
  /\ spc \in Halves <=> message # None

\* The receiver has read the size of a message from connection c, and not its data.
Half(c) == c = in /\ rpc = "data"

Body(c, i) == i \in DOMAIN conns[c].data /\ conns[c].data[i].half = "data"

\* Where the sockets of the two ends are: the end that connects uses the last
\* connection that was made, the other one the last that it has taken.
SocketInv ==
  /\ client = "sender" => in \in {0, taken} /\ out \in {0, Len(conns)}
  /\ client = "receiver" => out \in {0, taken} /\ in \in {0, Len(conns)}
  /\ out # 0 => ~conns[out].closed
  /\ out = 0 => spc \in {"start", "size"}
  /\ out # 0 => spc # "start"
  /\ rpc \in {"data", "drop"} => in # 0
  /\ rpc = "connect" => in = 0
  /\ rpc = "data" <=> size # None
  /\ rpc # "lost"

\* What connection c holds: a message's data follow its size, and before them
\* only those that the receiver has the size of; a broken connection holds
\* nothing, nor does one that the receiver has left or the sender has not taken.
HoldsPairs(c) ==
  LET data == conns[c].data
  IN /\ \A i \in 1..(Len(data) - 1) :
          IF data[i].half = "size"
          THEN data[i + 1] = [half |-> "data", of |-> data[i].of]
          ELSE data[i + 1].half = "size"
     /\ data # <<>> =>
          IF Half(c) THEN data[1] = [half |-> "data", of |-> size]
          ELSE data[1].half = "size"
     /\ conns[c].broken => data = <<>>
     /\ c # in /\ (client = "receiver" \/ c <= taken) => conns[c].broken
     /\ client = "receiver" /\ c > taken =>
          data = <<>> /\ ~conns[c].closed /\ ~Half(c)

\* The last half in the sender's connection, or the last one that the receiver
\* has read from it, is the one that the sender has written before.
SenderMatches ==
  out # 0 /\ ~conns[out].broken =>
    LET data == conns[out].data
    IN IF spc = "data"
       THEN IF data = <<>> THEN Half(out) /\ size = message
            ELSE data[Len(data)] = [half |-> "size", of |-> message]
       ELSE IF data = <<>> THEN ~Half(out)
            ELSE data[Len(data)].half = "data"

\* The messages in the connections and the delivered ones are those that the
\* sender is done with, each before those that are later on their way.
OrderInv ==
  /\ \A i \in DOMAIN delivered : delivered[i] \in Done
  /\ \A i, j \in DOMAIN delivered : i < j => delivered[i] < delivered[j]
  /\ \A c \in DOMAIN conns : \A i \in DOMAIN conns[c].data :
       Body(c, i) =>
         /\ conns[c].data[i].of \in Done
         /\ \A k \in DOMAIN delivered : delivered[k] < conns[c].data[i].of
         /\ \A j \in DOMAIN conns[c].data :
              i < j /\ Body(c, j) => conns[c].data[i].of < conns[c].data[j].of
         /\ \A b \in DOMAIN conns : \A j \in DOMAIN conns[b].data :
              c < b /\ Body(b, j) => conns[c].data[i].of < conns[b].data[j].of

StreamInv ==
  /\ TypeOK /\ QueueInv /\ SocketInv /\ SenderMatches /\ OrderInv
  /\ \A c \in DOMAIN conns : HoldsPairs(c)

\* The messages that the sender has written whole, while none was dropped.
Sent == Len(accepted) - Len(queue) - Len(Hand(message))

\* Half a message that the receiver has taken from the connection.
Behind == IF rpc = "data" THEN 1 ELSE 0

\* The k-th body of data is at its place, 2 * k or one before it, and no other.
Alternates(data, behind, n) ==
  /\ \A k \in 1..n : 2 * k - behind \in DOMAIN data /\ data[2 * k - behind].half = "data"
  /\ \A i \in DOMAIN data : data[i].half = "data" =>
       \E k \in 1..n : i = 2 * k - behind

\* Those of them that the receiver has not read whole.
Underway == Sent - Len(delivered)

\* Without interruptions there is one connection at most, and nobody leaves it.
OneConn ==
  /\ Len(conns) <= 1
  /\ \A c \in DOMAIN conns : ~conns[c].broken /\ ~conns[c].closed
  /\ conns # <<>> => IF client = "sender" THEN out # 0 ELSE in # 0
  /\ spc = "size" => out # 0
  /\ rpc \in Halves

\* The accepted messages are those delivered, those in the connection, the one in
\* hand and the queue.
Accounts ==
  /\ Underway \in Nat
  /\ \A k \in DOMAIN delivered : delivered[k] = accepted[k]
  /\ conns = <<>> => Underway = 0
  /\ conns # <<>> =>
       /\ Alternates(conns[1].data, Behind, Underway)
       /\ \A k \in 1..Underway :
            conns[1].data[2 * k - Behind].of = accepted[Len(delivered) + k]
  /\ message # None => accepted[Sent + 1] = message

Lossless == resets = 0 /\ leaves = 0 => OneConn /\ Accounts

LinkInv == StreamInv /\ Lossless

-----------------------------------------------------------------------------
(* Connections.                                                              *)

Packets == [half : Halves, of : Messages]
Conns == [data : Seq(Packets), broken : BOOLEAN, closed : BOOLEAN]

\* A connection is a record with a sequence of halves.
LEMMA ConnType ==
  ASSUME TypeOK, NEW c \in DOMAIN conns
  PROVE  /\ conns[c] \in Conns /\ conns[c].data \in Seq(Packets)
         /\ conns[c].broken \in BOOLEAN /\ conns[c].closed \in BOOLEAN
         /\ Len(conns[c].data) \in Nat /\ DOMAIN conns[c].data = 1..Len(conns[c].data)
         /\ \A i \in DOMAIN conns[c].data : conns[c].data[i] \in Packets
         /\ c \in 1..Len(conns) /\ Len(conns) \in Nat
<1>1. conns \in Seq(Conns) /\ Len(conns) \in Nat /\ c \in 1..Len(conns)
  BY DEF TypeOK, Conns, Packets
<1>2. conns[c] \in Conns
  BY <1>1
<1>3. conns[c].data \in Seq(Packets) /\ conns[c].broken \in BOOLEAN /\ conns[c].closed \in BOOLEAN
  BY <1>2 DEF Conns
<1>. QED
  BY <1>1, <1>2, <1>3

\* The records that the actions make of a connection.
LEMMA ConnRecords ==
  ASSUME NEW r \in Conns
  PROVE  /\ \A d \in Seq(Packets) :
              [r EXCEPT !.data = d] = [data |-> d, broken |-> r.broken, closed |-> r.closed]
         /\ \A b \in BOOLEAN :
              [r EXCEPT !.broken = b] = [data |-> r.data, broken |-> b, closed |-> r.closed]
         /\ \A b \in BOOLEAN :
              [r EXCEPT !.closed = b] = [data |-> r.data, broken |-> r.broken, closed |-> b]
BY DEF Conns

\* One connection changes.
LEMMA ConnChanges ==
  ASSUME TypeOK, NEW c \in DOMAIN conns, NEW v \in Conns,
         NEW after, after = [conns EXCEPT ![c] = v]
  PROVE  /\ after \in Seq(Conns) /\ Len(after) = Len(conns)
         /\ DOMAIN after = DOMAIN conns /\ after[c] = v
         /\ \A b \in DOMAIN conns : b # c => after[b] = conns[b]
<1>1. conns \in Seq(Conns)
  BY DEF TypeOK, Conns, Packets
<1>. QED
  BY <1>1

\* A connection breaks.
LEMMA BreakFacts ==
  ASSUME TypeOK, NEW c \in DOMAIN conns, NEW after, after = Break(c)
  PROVE  /\ after \in Seq(Conns) /\ Len(after) = Len(conns)
         /\ DOMAIN after = DOMAIN conns
         /\ after[c] = [data |-> <<>>, broken |-> TRUE, closed |-> conns[c].closed]
         /\ \A b \in DOMAIN conns : b # c => after[b] = conns[b]
<1>. DEFINE v == [data |-> <<>>, broken |-> TRUE, closed |-> conns[c].closed]
            u == [data |-> <<>>, broken |-> conns[c].broken, closed |-> conns[c].closed]
<1>1. <<>> \in Seq(Packets)
  OBVIOUS
<1>2. conns[c] \in Conns /\ conns \in Seq(Conns)
  BY ConnType DEF TypeOK, Conns, Packets
<1>3. v \in Conns /\ u \in Conns
  BY <1>1, <1>2 DEF Conns
<1>4. [conns[c] EXCEPT !.data = <<>>] = u
  BY <1>1, <1>2, ConnRecords
<1>5. [u EXCEPT !.broken = TRUE] = v
  <2>1. [u EXCEPT !.broken = TRUE] = [data |-> u.data, broken |-> TRUE, closed |-> u.closed]
    <3>. HIDE DEF u
    <3>. QED
      BY <1>3, ConnRecords
  <2>. QED
    BY <2>1
<1>6. after = [conns EXCEPT ![c] = v]
  <2>. HIDE DEF u, v
  <2>1. [[conns[c] EXCEPT !.data = <<>>] EXCEPT !.broken = TRUE] = v
    BY <1>4, <1>5
  <2>. QED
    BY <1>2, <2>1 DEF Break
<1>7. /\ after \in Seq(Conns) /\ Len(after) = Len(conns)
      /\ DOMAIN after = DOMAIN conns /\ after[c] = v
      /\ \A b \in DOMAIN conns : b # c => after[b] = conns[b]
  <2>. HIDE DEF u, v
  <2>. QED
    BY <1>3, <1>6, ConnChanges
<1>. QED
  BY <1>7

\* The sender closes its connection.
LEMMA CloseFacts ==
  ASSUME TypeOK, NEW c \in DOMAIN conns, NEW after,
         after = [conns EXCEPT ![c].closed = TRUE]
  PROVE  /\ after \in Seq(Conns) /\ Len(after) = Len(conns)
         /\ DOMAIN after = DOMAIN conns
         /\ after[c] = [data |-> conns[c].data, broken |-> conns[c].broken, closed |-> TRUE]
         /\ \A b \in DOMAIN conns : b # c => after[b] = conns[b]
<1>. DEFINE v == [data |-> conns[c].data, broken |-> conns[c].broken, closed |-> TRUE]
<1>1. conns[c] \in Conns /\ conns \in Seq(Conns)
  BY ConnType DEF TypeOK, Conns, Packets
<1>2. v \in Conns
  BY <1>1 DEF Conns
<1>3. [conns[c] EXCEPT !.closed = TRUE] = v
  BY <1>1, ConnRecords
<1>. HIDE DEF v
<1>4. after = [conns EXCEPT ![c] = v]
  BY <1>1, <1>3
<1>5. /\ after \in Seq(Conns) /\ Len(after) = Len(conns)
      /\ DOMAIN after = DOMAIN conns /\ after[c] = v
      /\ \A b \in DOMAIN conns : b # c => after[b] = conns[b]
  BY <1>2, <1>4, ConnChanges
<1>. QED
  BY <1>5 DEF v

\* The data of one connection change.
WithData(c, d) == [conns EXCEPT ![c].data = d]

\* What that changes.
LEMMA DataFacts ==
  ASSUME TypeOK, NEW c \in DOMAIN conns, NEW d \in Seq(Packets), NEW after,
         after = WithData(c, d)
  PROVE  /\ after \in Seq(Conns) /\ Len(after) = Len(conns)
         /\ DOMAIN after = DOMAIN conns
         /\ after[c] = [data |-> d, broken |-> conns[c].broken, closed |-> conns[c].closed]
         /\ \A b \in DOMAIN conns : b # c => after[b] = conns[b]
<1>. DEFINE v == [data |-> d, broken |-> conns[c].broken, closed |-> conns[c].closed]
<1>1. conns[c] \in Conns /\ conns \in Seq(Conns)
  BY ConnType DEF TypeOK, Conns, Packets
<1>2. v \in Conns
  BY <1>1 DEF Conns
<1>3. [conns[c] EXCEPT !.data = d] = v
  BY <1>1, ConnRecords
<1>. HIDE DEF v
<1>4. after = [conns EXCEPT ![c] = v]
  BY <1>1, <1>3 DEF WithData
<1>5. /\ after \in Seq(Conns) /\ Len(after) = Len(conns)
      /\ DOMAIN after = DOMAIN conns /\ after[c] = v
      /\ \A b \in DOMAIN conns : b # c => after[b] = conns[b]
  BY <1>2, <1>4, ConnChanges
<1>. QED
  BY <1>5 DEF v

\* A connection is made.
LEMMA ConnMade ==
  ASSUME TypeOK, NEW after, after = Append(conns, NewConn)
  PROVE  /\ after \in Seq(Conns) /\ Len(after) = Len(conns) + 1
         /\ DOMAIN after = 1..(Len(conns) + 1)
         /\ after[Len(conns) + 1] = [data |-> <<>>, broken |-> FALSE, closed |-> FALSE]
         /\ \A b \in DOMAIN conns : after[b] = conns[b]
<1>1. conns \in Seq(Conns) /\ Len(conns) \in Nat
  BY DEF TypeOK, Conns, Packets
<1>2. <<>> \in Seq(Packets)
  OBVIOUS
<1>3. NewConn \in Conns
  BY <1>2 DEF NewConn, Conns
<1>. QED
  BY <1>1, <1>3 DEF NewConn

-----------------------------------------------------------------------------
(* What steps leave as it is.                                                *)

\* The messages of the sender are the same.
LEMMA QueueKept ==
  ASSUME QueueInv, UNCHANGED <<next, accepted, queue, message>>,
         spc' \in Halves <=> spc \in Halves
  PROVE  QueueInv' /\ Done \subseteq Done'
BY DEF QueueInv, Done

\* No message is added anywhere, connections may be made or emptied.
LEMMA OrderKept ==
  ASSUME OrderInv, Done \subseteq Done', delivered' = delivered,
         \A c \in DOMAIN conns' :
           \/ conns'[c].data = <<>>
           \/ c \in DOMAIN conns /\ conns'[c].data = conns[c].data
  PROVE  OrderInv'
<1>1. \A c \in DOMAIN conns' : \A i \in DOMAIN conns'[c].data :
        /\ c \in DOMAIN conns /\ i \in DOMAIN conns[c].data
        /\ conns'[c].data = conns[c].data
  OBVIOUS
<1>2. \A i \in DOMAIN delivered' : delivered'[i] \in Done'
  BY DEF OrderInv
<1>3. \A i, j \in DOMAIN delivered' : i < j => delivered'[i] < delivered'[j]
  BY DEF OrderInv
<1>4. ASSUME NEW c \in DOMAIN conns', NEW i \in DOMAIN conns'[c].data, Body(c, i)'
      PROVE  /\ conns'[c].data[i].of \in Done'
             /\ \A k \in DOMAIN delivered' : delivered'[k] < conns'[c].data[i].of
             /\ \A j \in DOMAIN conns'[c].data :
                  i < j /\ Body(c, j)' => conns'[c].data[i].of < conns'[c].data[j].of
             /\ \A b \in DOMAIN conns' : \A j \in DOMAIN conns'[b].data :
                  c < b /\ Body(b, j)' => conns'[c].data[i].of < conns'[b].data[j].of
  <2>1. \A b \in DOMAIN conns' : \A j \in DOMAIN conns'[b].data : Body(b, j)' => Body(b, j)
    BY <1>1 DEF Body
  <2>. QED
    BY <1>1, <1>4, <2>1 DEF OrderInv
<1>. QED
  BY <1>2, <1>3, <1>4 DEF OrderInv

\* A connection and its ends are the same.
LEMMA PairsKept ==
  ASSUME NEW c, HoldsPairs(c), conns'[c] = conns[c], client' = client, taken' = taken,
         in' = in, rpc' = rpc \/ (rpc # "data" /\ rpc' # "data"), size' = size
  PROVE  HoldsPairs(c)'
BY DEF HoldsPairs, Half

-----------------------------------------------------------------------------
(* The steps of the sender.                                                  *)

\* The client gives the sender a message.
LEMMA SendDataStep ==
  ASSUME StreamInv, SendData
  PROVE  StreamInv'
<1>1. /\ UNCHANGED <<client, message, spc, receiver, sockets, faults>>
      /\ next' = next + 1 /\ next < MaxMsgs /\ next \in Nat /\ MaxMsgs \in Nat
      /\ accepted \in Seq(Messages) /\ queue \in Seq(Messages)
      /\ Len(accepted) \in Nat /\ Len(queue) \in Nat
  BY LinkAssumption DEF SendData, StreamInv, TypeOK
<1>2. CASE Len(queue) < QCap
  <2>1. accepted' = Append(accepted, next') /\ queue' = Append(queue, next')
    BY <1>2 DEF SendData
  <2>2. next' \in Messages
    BY <1>1 DEF Messages
  <2>3. /\ accepted' \in Seq(Messages) /\ queue' \in Seq(Messages)
        /\ Len(accepted') = Len(accepted) + 1 /\ Len(queue') = Len(queue) + 1
        /\ DOMAIN accepted' = 1..(Len(accepted) + 1) /\ DOMAIN queue' = 1..(Len(queue) + 1)
        /\ \A k \in 1..Len(accepted) : accepted'[k] = accepted[k]
        /\ \A k \in 1..Len(queue) : queue'[k] = queue[k]
        /\ accepted'[Len(accepted) + 1] = next' /\ queue'[Len(queue) + 1] = next'
        /\ DOMAIN accepted = 1..Len(accepted) /\ DOMAIN queue = 1..Len(queue)
        /\ \A k \in 1..Len(accepted) : accepted[k] \in Nat
    BY <1>1, <2>1, <2>2 DEF Messages
  <2>4. Len(accepted') - Len(queue') = Len(accepted) - Len(queue)
    BY <1>1, <2>3
  <2>5. QueueInv'
    <3>1. \A k \in DOMAIN accepted' : accepted'[k] <= next'
      <4>. TAKE k \in DOMAIN accepted'
      <4>1. CASE k = Len(accepted) + 1
        BY <1>1, <2>3, <4>1
      <4>2. CASE k # Len(accepted) + 1
        <5>1. k \in 1..Len(accepted)
          BY <1>1, <2>3, <4>2
        <5>2. accepted[k] <= next /\ accepted'[k] = accepted[k] /\ accepted[k] \in Nat
          BY <2>3, <5>1 DEF StreamInv, QueueInv
        <5>. QED
          BY <1>1, <5>2
      <4>. QED
        BY <4>1, <4>2
    <3>2. \A j, k \in DOMAIN accepted' : j < k => accepted'[j] < accepted'[k]
      <4>. TAKE j, k \in DOMAIN accepted'
      <4>. HAVE j < k
      <4>1. j \in 1..Len(accepted)
        BY <1>1, <2>3
      <4>2. CASE k = Len(accepted) + 1
        BY <1>1, <2>3, <4>1, <4>2 DEF StreamInv, QueueInv
      <4>3. CASE k # Len(accepted) + 1
        BY <1>1, <2>3, <4>1, <4>3 DEF StreamInv, QueueInv
      <4>. QED
        BY <4>2, <4>3
    <3>3. \A i \in DOMAIN queue' : queue'[i] = accepted'[Len(accepted') - Len(queue') + i]
      <4>. TAKE i \in DOMAIN queue'
      <4>1. CASE i = Len(queue) + 1
        BY <1>1, <2>3, <2>4, <4>1
      <4>2. CASE i # Len(queue) + 1
        <5>1. i \in 1..Len(queue) /\ Len(queue) <= Len(accepted)
          BY <1>1, <2>3, <4>2 DEF StreamInv, QueueInv
        <5>2. Len(accepted) - Len(queue) + i \in 1..Len(accepted)
          BY <1>1, <5>1
        <5>. QED
          BY <2>3, <2>4, <5>1, <5>2 DEF StreamInv, QueueInv
      <4>. QED
        BY <4>1, <4>2
    <3>4. \A k \in 1..(Len(accepted) - Len(queue)) : accepted'[k] = accepted[k]
      BY <1>1, <2>3
    <3>. QED
      BY <1>1, <2>3, <2>4, <3>1, <3>2, <3>3, <3>4 DEF StreamInv, QueueInv
  <2>6. Done \subseteq Done'
    <3>1. \A k \in 1..(Len(accepted) - Len(queue)) : accepted'[k] = accepted[k]
      BY <1>1, <2>3
    <3>. QED
      BY <1>1, <2>4, <3>1 DEF Done
  <2>7. OrderInv'
    BY <1>1, <2>6, OrderKept DEF StreamInv, receiver, sockets
  <2>8. TypeOK'
    BY <1>1, <2>3 DEF StreamInv, TypeOK, receiver, sockets, faults
  <2>9. \A c \in DOMAIN conns' : HoldsPairs(c)'
    BY <1>1, PairsKept DEF StreamInv, receiver, sockets
  <2>. QED
    BY <1>1, <2>5, <2>7, <2>8, <2>9
       DEF StreamInv, SocketInv, SenderMatches, Half, receiver, sockets
<1>3. CASE ~(Len(queue) < QCap)
  <2>1. UNCHANGED <<accepted, queue>>
    BY <1>3 DEF SendData
  <2>2. QueueInv' /\ Done \subseteq Done'
    <3>1. \A k \in DOMAIN accepted : accepted[k] \in Nat
      BY <1>1 DEF Messages
    <3>. QED
      BY <1>1, <2>1, <3>1 DEF StreamInv, QueueInv, Done
  <2>3. OrderInv'
    BY <1>1, <2>2, OrderKept DEF StreamInv, receiver, sockets
  <2>4. TypeOK'
    BY <1>1, <2>1 DEF StreamInv, TypeOK, receiver, sockets, faults
  <2>5. \A c \in DOMAIN conns' : HoldsPairs(c)'
    BY <1>1, PairsKept DEF StreamInv, receiver, sockets
  <2>. QED
    BY <1>1, <2>2, <2>3, <2>4, <2>5
       DEF StreamInv, SocketInv, SenderMatches, Half, receiver, sockets
<1>. QED
  BY <1>2, <1>3

\* The sending thread takes a message from the queue.
LEMMA DequeueStep ==
  ASSUME StreamInv, Dequeue
  PROVE  StreamInv'
<1>1. /\ UNCHANGED <<client, next, accepted, receiver, sockets, faults>>
      /\ spc = "idle" /\ spc' = "size" /\ message = None
      /\ message' = Head(queue) /\ queue' = Tail(queue) /\ queue # <<>>
      /\ accepted \in Seq(Messages) /\ queue \in Seq(Messages)
      /\ Len(accepted) \in Nat /\ Len(queue) \in Nat /\ next \in Nat
  BY DEF Dequeue, StreamInv, TypeOK, QueueInv, Halves
<1>2. /\ message' = queue[1] /\ message' \in Messages /\ message' \in Nat
      /\ message' # None
      /\ queue' \in Seq(Messages) /\ Len(queue') = Len(queue) - 1 /\ Len(queue) > 0
      /\ \A i \in 1..Len(queue') : queue'[i] = queue[i + 1]
      /\ DOMAIN queue' = 1..Len(queue') /\ DOMAIN queue = 1..Len(queue)
      /\ DOMAIN accepted = 1..Len(accepted)
      /\ \A k \in 1..Len(accepted) : accepted[k] \in Nat
      /\ Len(queue) <= Len(accepted)
  <2>1. /\ Len(queue) > 0 /\ 1 \in DOMAIN queue /\ message' = queue[1]
        /\ DOMAIN queue = 1..Len(queue) /\ DOMAIN accepted = 1..Len(accepted)
    BY <1>1
  <2>2. queue[1] \in Messages /\ \A k \in 1..Len(accepted) : accepted[k] \in Messages
    BY <1>1, <2>1
  <2>3. /\ queue' \in Seq(Messages) /\ Len(queue') = Len(queue) - 1
        /\ \A i \in 1..Len(queue') : queue'[i] = queue[i + 1]
        /\ DOMAIN queue' = 1..Len(queue')
    BY <1>1
  <2>4. \A m \in Messages : m \in Nat /\ m # None
    BY LinkAssumption DEF Messages, None
  <2>5. Len(queue) <= Len(accepted)
    BY DEF StreamInv, QueueInv
  <2>. QED
    BY <2>1, <2>2, <2>3, <2>4, <2>5
<1>. DEFINE n == Len(accepted) - Len(queue)
<1>3. /\ n \in Nat /\ n + 1 \in 1..Len(accepted)
      /\ Len(accepted') - Len(queue') = n + 1
      /\ accepted[n + 1] = message'
  <2>1. /\ n \in Nat /\ n + 1 \in 1..Len(accepted)
        /\ Len(accepted') - Len(queue') = n + 1 /\ 1 \in DOMAIN queue
    BY <1>1, <1>2
  <2>2. queue[1] = accepted[n + 1]
    BY <2>1 DEF StreamInv, QueueInv
  <2>. QED
    BY <1>2, <2>1, <2>2
<1>4. QueueInv'
  <2>1. \A i \in DOMAIN queue' : queue'[i] = accepted'[Len(accepted') - Len(queue') + i]
    <3>. TAKE i \in DOMAIN queue'
    <3>1. i + 1 \in DOMAIN queue /\ queue'[i] = queue[i + 1] /\ n + 1 + i = n + (i + 1)
      <4>1. i \in 1..(Len(queue) - 1)
        BY <1>2
      <4>2. n + 1 + i = n + (i + 1)
        BY <1>3, <4>1
      <4>3. i + 1 \in 1..Len(queue) /\ i \in 1..Len(queue')
        BY <1>1, <1>2, <4>1
      <4>. QED
        BY <1>2, <4>2, <4>3
    <3>2. queue[i + 1] = accepted[n + (i + 1)]
      BY <3>1 DEF StreamInv, QueueInv
    <3>. QED
      BY <1>1, <1>3, <3>1, <3>2
  <2>2. \E k \in 1..(n + 1) : accepted'[k] = message'
    BY <1>1, <1>3
  <2>3. Len(queue') <= Len(accepted')
    BY <1>1, <1>2
  <2>. HIDE DEF n
  <2>. QED
    BY <1>1, <1>2, <1>3, <2>1, <2>2, <2>3 DEF StreamInv, QueueInv, Halves
<1>5. Done \subseteq Done'
  <2>. SUFFICES ASSUME NEW m \in Done
               PROVE  m \in Done'
    OBVIOUS
  <2>1. PICK k \in 1..n : accepted[k] = m
    BY DEF Done
  <2>2. k \in 1..(n + 1) /\ k < n + 1 /\ k \in DOMAIN accepted /\ n + 1 \in DOMAIN accepted
    BY <1>2, <1>3
  <2>3. m < message'
    BY <1>3, <2>1, <2>2 DEF StreamInv, QueueInv
  <2>. HIDE DEF n
  <2>. QED
    BY <1>1, <1>3, <2>1, <2>2, <2>3 DEF Done
<1>6. OrderInv'
  BY <1>1, <1>5, OrderKept DEF StreamInv, receiver, sockets
<1>7. TypeOK'
  BY <1>1, <1>2 DEF StreamInv, TypeOK, receiver, sockets, faults, Halves
<1>8. \A c \in DOMAIN conns' : HoldsPairs(c)'
  BY <1>1, PairsKept DEF StreamInv, receiver, sockets
<1>9. SocketInv' /\ SenderMatches'
  BY <1>1 DEF StreamInv, SocketInv, SenderMatches, Half, receiver, sockets
<1>. QED
  BY <1>4, <1>6, <1>7, <1>8, <1>9 DEF StreamInv

\* The sender makes or takes a connection.
LEMMA SenderConnectsStep ==
  ASSUME StreamInv, SenderConnects
  PROVE  StreamInv'
<1>1. /\ UNCHANGED <<client, next, accepted, queue, message, receiver, in, faults>>
      /\ out = 0 /\ spc \in {"start", "size"}
      /\ spc' = (IF spc = "start" THEN "idle" ELSE spc)
      /\ taken \in 0..Len(conns) /\ Len(conns) \in Nat /\ in \in {0} \cup 1..Len(conns)
      /\ conns \in Seq(Conns) /\ DOMAIN conns = 1..Len(conns)
  BY DEF SenderConnects, StreamInv, SocketInv, TypeOK, Conns, Packets, receiver
<1>2. QueueInv' /\ Done \subseteq Done'
  BY <1>1, QueueKept DEF StreamInv, Halves
<1>3. CASE client = "sender"
  <2>1. conns' = Append(conns, NewConn) /\ out' = Len(conns) + 1 /\ taken' = taken
    BY <1>3 DEF SenderConnects, NewSocket
  <2>2. /\ conns' \in Seq(Conns) /\ Len(conns') = Len(conns) + 1
        /\ DOMAIN conns' = 1..(Len(conns) + 1)
        /\ conns'[Len(conns) + 1] = [data |-> <<>>, broken |-> FALSE, closed |-> FALSE]
        /\ \A b \in DOMAIN conns : conns'[b] = conns[b]
    BY <2>1, ConnMade DEF StreamInv
  <2>3. \A c \in DOMAIN conns' : c = Len(conns) + 1 \/ c \in DOMAIN conns
    BY <1>1, <2>2
  <2>4. OrderInv'
    BY <1>1, <1>2, <2>2, <2>3, OrderKept DEF StreamInv, receiver
  <2>5. TypeOK'
    BY <1>1, <2>1, <2>2 DEF StreamInv, TypeOK, receiver, faults, Conns, Packets, Halves
  <2>6. ASSUME NEW c \in DOMAIN conns' PROVE HoldsPairs(c)'
    <3>1. CASE c \in DOMAIN conns
      BY <1>1, <2>1, <2>2, <3>1, PairsKept DEF StreamInv, receiver
    <3>2. CASE c = Len(conns) + 1
      BY <1>1, <1>3, <2>1, <2>2, <3>2 DEF HoldsPairs, receiver
    <3>. QED
      BY <2>3, <3>1, <3>2
  <2>7. SocketInv' /\ SenderMatches'
    <3>1. in # out' /\ ~conns'[out'].closed /\ conns'[out'].data = <<>>
      BY <1>1, <2>1, <2>2
    <3>. QED
      BY <1>1, <1>3, <2>1, <2>2, <3>1
         DEF StreamInv, SocketInv, SenderMatches, Half, receiver
  <2>. QED
    BY <1>2, <2>4, <2>5, <2>6, <2>7 DEF StreamInv
<1>4. CASE client = "receiver"
  <2>1. taken < Len(conns) /\ conns' = conns /\ out' = taken + 1 /\ taken' = taken + 1
    BY <1>4 DEF SenderConnects, NewSocket
  <2>2. OrderInv'
    BY <1>1, <1>2, <2>1, OrderKept DEF StreamInv, receiver
  <2>3. TypeOK'
    BY <1>1, <2>1 DEF StreamInv, TypeOK, receiver, faults, Halves
  <2>4. ASSUME NEW c \in DOMAIN conns' PROVE HoldsPairs(c)'
    <3>1. HoldsPairs(c) /\ (c > taken' => c > taken)
      BY <1>1, <2>1 DEF StreamInv
    <3>. QED
      BY <1>1, <1>4, <2>1, <3>1 DEF HoldsPairs, Half, receiver
  <2>5. out' \in DOMAIN conns /\ out' > taken /\ out' # 0 /\ HoldsPairs(out')
    BY <1>1, <2>1 DEF StreamInv
  <2>6. conns[out'].data = <<>> /\ ~conns[out'].closed /\ ~(out' = in /\ rpc = "data")
    BY <1>4, <2>5 DEF HoldsPairs, Half
  <2>7. SocketInv' /\ SenderMatches'
    BY <1>1, <1>4, <2>1, <2>5, <2>6 DEF StreamInv, SocketInv, SenderMatches, Half, receiver
  <2>. QED
    BY <1>2, <2>2, <2>3, <2>4, <2>7 DEF StreamInv
<1>. QED
  BY <1>3, <1>4 DEF StreamInv, TypeOK, Ends

\* The sender closes its connection, with what is in it, whatever it does next.
LEMMA SenderCloses ==
  ASSUME StreamInv, out # 0, out' = 0, spc' \in {"start", "size"},
         conns' = [conns EXCEPT ![out].closed = TRUE],
         UNCHANGED <<client, receiver, taken, in>>,
         QueueInv', Done \subseteq Done',
         next' = next, accepted' = accepted, queue' \in Seq(Messages),
         message' \in Messages \union {None}, resets' = resets, leaves' \in 0..MaxLeaves
  PROVE  StreamInv'
<1>1. /\ out \in DOMAIN conns /\ Len(conns) \in Nat /\ taken \in Nat
      /\ client \in Ends
  BY DEF StreamInv, TypeOK
<1>2. /\ conns' \in Seq(Conns) /\ Len(conns') = Len(conns) /\ DOMAIN conns' = DOMAIN conns
      /\ conns'[out] = [data |-> conns[out].data, broken |-> conns[out].broken, closed |-> TRUE]
      /\ \A b \in DOMAIN conns : b # out => conns'[b] = conns[b]
  BY <1>1, CloseFacts DEF StreamInv
<1>3. OrderInv'
  BY <1>1, <1>2, OrderKept DEF StreamInv, receiver
<1>4. TypeOK'
  BY <1>1, <1>2 DEF StreamInv, TypeOK, receiver, Conns, Packets, Halves
<1>5. ASSUME NEW c \in DOMAIN conns' PROVE HoldsPairs(c)'
  <2>1. CASE c # out
    BY <1>2, <2>1, PairsKept DEF StreamInv, receiver
  <2>2. CASE c = out
    <3>1. /\ conns'[c].data = conns[c].data /\ conns'[c].broken = conns[c].broken
          /\ HoldsPairs(c)
      BY <1>2, <2>2 DEF StreamInv
    <3>2. ~(client = "receiver" /\ c > taken)
      BY <1>1, <2>2 DEF StreamInv, SocketInv
    <3>. QED
      BY <3>1, <3>2 DEF HoldsPairs, Half, receiver
  <2>. QED
    BY <2>1, <2>2
<1>6. SocketInv' /\ SenderMatches'
  BY <1>1, <1>2 DEF StreamInv, SocketInv, SenderMatches, receiver
<1>. QED
  BY <1>3, <1>4, <1>5, <1>6 DEF StreamInv

\* The sender finds its connection broken.
LEMMA SendErrorStep ==
  ASSUME StreamInv, SendError
  PROVE  StreamInv'
<1>1. /\ spc' = "size" /\ out # 0 /\ out' = 0 /\ spc \in Halves
      /\ conns' = [conns EXCEPT ![out].closed = TRUE]
      /\ UNCHANGED <<client, next, accepted, queue, message, receiver, taken, in, faults>>
  BY DEF SendError
<1>2. QueueInv' /\ Done \subseteq Done'
  BY <1>1, QueueKept DEF StreamInv, Halves
<1>3. /\ queue' \in Seq(Messages) /\ message' \in Messages \union {None}
      /\ resets' = resets /\ leaves' \in 0..MaxLeaves
  BY <1>1 DEF StreamInv, TypeOK, faults
<1>. QED
  BY <1>1, <1>2, <1>3, SenderCloses

\* A client that sends goes away.
LEMMA SenderLeavesStep ==
  ASSUME StreamInv, SenderLeaves
  PROVE  StreamInv'
<1>1. /\ queue' = <<>> /\ message' = None /\ out' = 0 /\ spc' = "start"
      /\ UNCHANGED <<client, next, accepted, receiver, taken, in, resets>>
      /\ leaves' = leaves + 1 /\ leaves < MaxLeaves
      /\ accepted \in Seq(Messages) /\ queue \in Seq(Messages)
      /\ Len(accepted) \in Nat /\ Len(queue) \in Nat /\ DOMAIN accepted = 1..Len(accepted)
  BY DEF SenderLeaves, StreamInv, TypeOK
<1>2. Len(queue') = 0 /\ DOMAIN queue' = {} /\ queue' \in Seq(Messages)
  BY <1>1
<1>3. \A k \in 1..(Len(accepted) - Len(queue)) : k \in 1..(Len(accepted') - Len(queue'))
  BY <1>1, <1>2
<1>4. Done \subseteq Done'
  BY <1>1, <1>3 DEF Done
<1>5. QueueInv'
  BY <1>1, <1>2 DEF StreamInv, QueueInv, Halves
<1>6. leaves' \in 0..MaxLeaves
  BY <1>1, LinkAssumption DEF StreamInv, TypeOK
<1>7. CASE out # 0
  <2>1. conns' = [conns EXCEPT ![out].closed = TRUE]
    BY <1>7 DEF SenderLeaves
  <2>. QED
    BY <1>1, <1>2, <1>4, <1>5, <1>6, <1>7, <2>1, SenderCloses
<1>8. CASE out = 0
  <2>1. conns' = conns
    BY <1>8 DEF SenderLeaves
  <2>2. OrderInv'
    BY <1>1, <1>4, <2>1, OrderKept DEF StreamInv, receiver
  <2>3. \A c \in DOMAIN conns' : HoldsPairs(c)'
    BY <1>1, <2>1, PairsKept DEF StreamInv, receiver
  <2>4. TypeOK'
    BY <1>1, <1>2, <1>6, <1>8, <2>1 DEF StreamInv, TypeOK, receiver
  <2>5. SocketInv' /\ SenderMatches'
    BY <1>1, <1>8, <2>1 DEF StreamInv, SocketInv, SenderMatches, receiver
  <2>. QED
    BY <1>5, <2>2, <2>3, <2>4, <2>5 DEF StreamInv
<1>. QED
  BY <1>7, <1>8

\* A half of a message is put into the sender's connection.
Puts(h) == conns' = [conns EXCEPT ![out].data = Append(@, h)]

\* What that changes.
LEMMA Written ==
  ASSUME StreamInv, out # 0, NEW h \in Packets, Puts(h)
  PROVE  LET n == Len(conns[out].data)
             data == conns'[out].data
         IN /\ out \in DOMAIN conns /\ n \in Nat
            /\ conns' \in Seq(Conns) /\ Len(conns') = Len(conns)
            /\ DOMAIN conns' = DOMAIN conns
            /\ \A b \in DOMAIN conns : b # out => conns'[b] = conns[b]
            /\ conns'[out].broken = conns[out].broken
            /\ conns'[out].closed = conns[out].closed
            /\ Len(data) = n + 1 /\ DOMAIN data = 1..(n + 1) /\ data # <<>>
            /\ DOMAIN conns[out].data = 1..n /\ (n = 0 <=> conns[out].data = <<>>)
            /\ data[n + 1] = h
            /\ \A i \in 1..n : data[i] = conns[out].data[i]
<1>. DEFINE d == conns[out].data
            e == Append(d, h)
<1>1. out \in DOMAIN conns /\ TypeOK
  BY DEF StreamInv, TypeOK
<1>2. d \in Seq(Packets) /\ Len(d) \in Nat
  BY <1>1, ConnType
<1>3. /\ e \in Seq(Packets) /\ Len(e) = Len(d) + 1 /\ DOMAIN e = 1..(Len(d) + 1) /\ e # <<>>
      /\ DOMAIN d = 1..Len(d) /\ (Len(d) = 0 <=> d = <<>>)
      /\ e[Len(d) + 1] = h /\ \A i \in 1..Len(d) : e[i] = d[i]
  BY <1>2
<1>4. conns' = WithData(out, e)
  BY DEF Puts, WithData
<1>. HIDE DEF e
<1>5. /\ conns' \in Seq(Conns) /\ Len(conns') = Len(conns) /\ DOMAIN conns' = DOMAIN conns
      /\ conns'[out] = [data |-> e, broken |-> conns[out].broken, closed |-> conns[out].closed]
      /\ \A b \in DOMAIN conns : b # out => conns'[b] = conns[b]
  <2>1. e \in Seq(Packets)
    BY <1>3
  <2>. QED
    BY <1>1, <1>4, <2>1, DataFacts
<1>6. /\ conns'[out].data = e /\ conns'[out].broken = conns[out].broken
      /\ conns'[out].closed = conns[out].closed
  BY <1>5
<1>. QED
  BY <1>1, <1>2, <1>3, <1>5, <1>6

\* Which half may follow those that the sender has written.
Follows(h) ==
  LET data == conns[out].data
  IN IF data = <<>>
     THEN IF Half(out) THEN h = [half |-> "data", of |-> size] ELSE h.half = "size"
     ELSE IF data[Len(data)].half = "size"
          THEN h = [half |-> "data", of |-> data[Len(data)].of]
          ELSE h.half = "size"

\* The halves stay in pairs.
LEMMA WrittenPairs ==
  ASSUME StreamInv, out # 0, ~conns[out].broken, NEW h \in Packets, Follows(h),
         Puts(h), UNCHANGED <<client, receiver, taken, in>>
  PROVE  \A c \in DOMAIN conns' : HoldsPairs(c)'
<1>. DEFINE n == Len(conns[out].data)
            data == conns'[out].data
<1>1. /\ out \in DOMAIN conns /\ n \in Nat
      /\ conns' \in Seq(Conns) /\ Len(conns') = Len(conns)
      /\ DOMAIN conns' = DOMAIN conns
      /\ \A b \in DOMAIN conns : b # out => conns'[b] = conns[b]
      /\ conns'[out].broken = conns[out].broken
      /\ conns'[out].closed = conns[out].closed
      /\ Len(data) = n + 1 /\ DOMAIN data = 1..(n + 1) /\ data # <<>>
      /\ DOMAIN conns[out].data = 1..n /\ (n = 0 <=> conns[out].data = <<>>)
      /\ data[n + 1] = h
      /\ \A i \in 1..n : data[i] = conns[out].data[i]
  BY Written
<1>2. ASSUME NEW c \in DOMAIN conns', c # out
      PROVE  HoldsPairs(c)'
  BY <1>1, <1>2, PairsKept DEF StreamInv, receiver
<1>3. HoldsPairs(out)
  BY <1>1 DEF StreamInv
<1>4. \A i \in 1..n :
        IF data[i].half = "size"
        THEN data[i + 1] = [half |-> "data", of |-> data[i].of]
        ELSE data[i + 1].half = "size"
  <2>. TAKE i \in 1..n
  <2>1. CASE i = n
    <3>1. conns[out].data # <<>> /\ data[i] = conns[out].data[n] /\ data[i + 1] = h
      BY <1>1, <2>1
    <3>2. IF conns[out].data[n].half = "size"
          THEN h = [half |-> "data", of |-> conns[out].data[n].of]
          ELSE h.half = "size"
      BY <3>1 DEF Follows
    <3>. QED
      BY <3>1, <3>2
  <2>2. CASE i # n
    <3>1. i \in 1..(n - 1) /\ i + 1 \in 1..n
      BY <1>1, <2>2
    <3>2. data[i] = conns[out].data[i] /\ data[i + 1] = conns[out].data[i + 1]
      BY <1>1, <3>1
    <3>. QED
      BY <1>3, <3>1, <3>2 DEF HoldsPairs
  <2>. QED
    BY <2>1, <2>2
<1>5. IF Half(out) THEN data[1] = [half |-> "data", of |-> size] ELSE data[1].half = "size"
  <2>1. CASE n = 0
    BY <1>1, <2>1 DEF Follows
  <2>2. CASE n # 0
    BY <1>1, <1>3, <2>2 DEF HoldsPairs
  <2>. QED
    BY <2>1, <2>2
<1>6. client = "receiver" => ~(out > taken)
  <2>1. taken \in Nat /\ (client = "receiver" => out \in {0, taken})
    BY DEF StreamInv, SocketInv, TypeOK
  <2>. QED
    BY <2>1
<1>7. ASSUME NEW c \in DOMAIN conns', c = out
      PROVE  HoldsPairs(c)'
  <2>1. Half(c)' = Half(out) /\ size' = size
    BY <1>7 DEF Half, receiver
  <2>2. \A i \in 1..(Len(data) - 1) :
          IF data[i].half = "size"
          THEN data[i + 1] = [half |-> "data", of |-> data[i].of]
          ELSE data[i + 1].half = "size"
    BY <1>1, <1>4
  <2>. HIDE DEF n
  <2>3. ~conns'[c].broken
    BY <1>1, <1>7
  <2>4. c # in' /\ (client' = "receiver" \/ c <= taken') => conns'[c].broken
    BY <1>1, <1>3, <1>7 DEF HoldsPairs
  <2>. QED
    BY <1>1, <1>4, <1>5, <1>6, <1>7, <2>1, <2>2, <2>3, <2>4 DEF HoldsPairs
<1>. QED
  BY <1>2, <1>7

\* The size of a message is written.
LEMMA WriteSizeStep ==
  ASSUME StreamInv, WriteHalf, spc = "size"
  PROVE  StreamInv'
<1>. DEFINE h == [half |-> "size", of |-> message]
            n == Len(conns[out].data)
            data == conns'[out].data
<1>1. /\ UNCHANGED <<client, next, accepted, queue, message, receiver, taken, out, in, faults>>
      /\ out # 0 /\ ~conns[out].broken /\ spc' = "data"
      /\ message \in Messages
      /\ Puts(h)
  BY DEF Puts, WriteHalf, StreamInv, TypeOK, QueueInv, Halves
<1>2. h \in Packets
  BY <1>1 DEF Packets, Halves
<1>3. Follows(h)
  BY <1>1 DEF StreamInv, SenderMatches, Follows
<1>4. h.half = "size"
  OBVIOUS
<1>. HIDE DEF h
<1>5. /\ out \in DOMAIN conns /\ n \in Nat
      /\ conns' \in Seq(Conns) /\ Len(conns') = Len(conns)
      /\ DOMAIN conns' = DOMAIN conns
      /\ \A b \in DOMAIN conns : b # out => conns'[b] = conns[b]
      /\ conns'[out].broken = conns[out].broken
      /\ conns'[out].closed = conns[out].closed
      /\ Len(data) = n + 1 /\ DOMAIN data = 1..(n + 1) /\ data # <<>>
      /\ DOMAIN conns[out].data = 1..n /\ (n = 0 <=> conns[out].data = <<>>)
      /\ data[n + 1] = h
      /\ \A i \in 1..n : data[i] = conns[out].data[i]
  BY <1>1, <1>2, Written
<1>6. QueueInv' /\ Done \subseteq Done'
  BY <1>1, QueueKept DEF StreamInv, Halves
<1>7. TypeOK'
  BY <1>1, <1>5 DEF StreamInv, TypeOK, receiver, faults, Conns, Packets, Halves
<1>8. \A c \in DOMAIN conns' : \A i \in DOMAIN conns'[c].data : Body(c, i)' =>
        /\ Body(c, i) /\ i \in DOMAIN conns[c].data
        /\ conns'[c].data[i] = conns[c].data[i]
  <2>. TAKE c \in DOMAIN conns'
  <2>. TAKE i \in DOMAIN conns'[c].data
  <2>. HAVE Body(c, i)'
  <2>1. CASE c # out
    BY <1>5, <2>1 DEF Body
  <2>2. CASE c = out
    <3>1. i # n + 1
      BY <1>4, <1>5, <2>2 DEF Body
    <3>2. i \in 1..n
      BY <1>5, <2>2, <3>1
    <3>. QED
      BY <1>5, <2>2, <3>2 DEF Body
  <2>. QED
    BY <2>1, <2>2
<1>9. OrderInv'
  <2>1. /\ \A i \in DOMAIN delivered' : delivered'[i] \in Done'
        /\ \A i, j \in DOMAIN delivered' : i < j => delivered'[i] < delivered'[j]
    BY <1>1, <1>6 DEF StreamInv, OrderInv, receiver
  <2>2. ASSUME NEW c \in DOMAIN conns', NEW i \in DOMAIN conns'[c].data, Body(c, i)'
        PROVE  /\ conns'[c].data[i].of \in Done'
               /\ \A k \in DOMAIN delivered' : delivered'[k] < conns'[c].data[i].of
               /\ \A j \in DOMAIN conns'[c].data :
                    i < j /\ Body(c, j)' => conns'[c].data[i].of < conns'[c].data[j].of
               /\ \A b \in DOMAIN conns' : \A j \in DOMAIN conns'[b].data :
                    c < b /\ Body(b, j)' => conns'[c].data[i].of < conns'[b].data[j].of
    BY <1>1, <1>5, <1>6, <1>8, <2>2 DEF StreamInv, OrderInv, receiver
  <2>. QED
    BY <2>1, <2>2 DEF OrderInv
<1>10. \A c \in DOMAIN conns' : HoldsPairs(c)'
  BY <1>1, <1>2, <1>3, WrittenPairs
<1>11. SenderMatches'
  BY <1>1, <1>5 DEF SenderMatches, h
<1>12. SocketInv'
  BY <1>1, <1>5 DEF StreamInv, SocketInv, receiver
<1>. QED
  BY <1>6, <1>7, <1>9, <1>10, <1>11, <1>12 DEF StreamInv

\* The data of a message are written, and the sending thread is done with it.
LEMMA WriteDataStep ==
  ASSUME StreamInv, WriteHalf, spc = "data"
  PROVE  StreamInv'
<1>. DEFINE h == [half |-> "data", of |-> message]
            n == Len(conns[out].data)
            data == conns'[out].data
<1>1. /\ UNCHANGED <<client, next, accepted, queue, receiver, taken, out, in, faults>>
      /\ out # 0 /\ ~conns[out].broken /\ spc' = "idle" /\ message' = None
      /\ message \in Messages /\ message # None
      /\ Puts(h)
  BY DEF Puts, WriteHalf, StreamInv, TypeOK, QueueInv, Halves
<1>2. h \in Packets
  BY <1>1 DEF Packets, Halves
<1>3. Follows(h)
  <2>1. IF conns[out].data = <<>> THEN Half(out) /\ size = message
        ELSE conns[out].data[Len(conns[out].data)] = [half |-> "size", of |-> message]
    BY <1>1 DEF StreamInv, SenderMatches
  <2>. QED
    BY <2>1 DEF Follows
<1>4. h.half = "data" /\ h.of = message
  OBVIOUS
<1>. HIDE DEF h
<1>5. /\ out \in DOMAIN conns /\ n \in Nat
      /\ conns' \in Seq(Conns) /\ Len(conns') = Len(conns)
      /\ DOMAIN conns' = DOMAIN conns
      /\ \A b \in DOMAIN conns : b # out => conns'[b] = conns[b]
      /\ conns'[out].broken = conns[out].broken
      /\ conns'[out].closed = conns[out].closed
      /\ Len(data) = n + 1 /\ DOMAIN data = 1..(n + 1) /\ data # <<>>
      /\ DOMAIN conns[out].data = 1..n /\ (n = 0 <=> conns[out].data = <<>>)
      /\ data[n + 1] = h
      /\ \A i \in 1..n : data[i] = conns[out].data[i]
  BY <1>1, <1>2, Written
<1>6. QueueInv'
  BY <1>1 DEF StreamInv, QueueInv, Halves
<1>7. Done \subseteq Done' /\ message \in Done' /\ \A m \in Done : m < message
  BY <1>1 DEF StreamInv, QueueInv, Done
<1>8. TypeOK'
  BY <1>1, <1>5 DEF StreamInv, TypeOK, receiver, faults, Conns, Packets, Halves
<1>9. \A c \in DOMAIN conns' : \A i \in DOMAIN conns'[c].data : Body(c, i)' =>
        \/ c = out /\ i = n + 1 /\ conns'[c].data[i].of = message
        \/ /\ Body(c, i) /\ i \in DOMAIN conns[c].data
           /\ conns'[c].data[i] = conns[c].data[i]
           /\ c = out => i <= n
  <2>. TAKE c \in DOMAIN conns'
  <2>. TAKE i \in DOMAIN conns'[c].data
  <2>. HAVE Body(c, i)'
  <2>1. CASE c # out
    BY <1>5, <2>1 DEF Body
  <2>2. CASE c = out /\ i # n + 1
    <3>1. i \in 1..n
      BY <1>5, <2>2
    <3>. QED
      BY <1>5, <2>2, <3>1 DEF Body
  <2>3. CASE c = out /\ i = n + 1
    BY <1>4, <1>5, <2>3
  <2>. QED
    BY <2>1, <2>2, <2>3
<1>10. \A b \in DOMAIN conns : b > out => conns[b].data = <<>>
  <2>. TAKE b \in DOMAIN conns
  <2>. HAVE b > out
  <2>1. HoldsPairs(b) /\ b <= Len(conns) /\ b \in Nat /\ Len(conns) \in Nat
    BY ConnType DEF StreamInv
  <2>2. client = "receiver" /\ out = taken
    BY <1>1, <2>1 DEF StreamInv, SocketInv, TypeOK, Ends
  <2>. QED
    BY <2>1, <2>2 DEF HoldsPairs
<1>11. OrderInv'
  <2>1. /\ \A i \in DOMAIN delivered' : delivered'[i] \in Done'
        /\ \A i, j \in DOMAIN delivered' : i < j => delivered'[i] < delivered'[j]
    BY <1>1, <1>7 DEF StreamInv, OrderInv, receiver
  <2>2. ASSUME NEW c \in DOMAIN conns', NEW i \in DOMAIN conns'[c].data, Body(c, i)'
        PROVE  /\ conns'[c].data[i].of \in Done'
               /\ \A k \in DOMAIN delivered' : delivered'[k] < conns'[c].data[i].of
               /\ \A j \in DOMAIN conns'[c].data :
                    i < j /\ Body(c, j)' => conns'[c].data[i].of < conns'[c].data[j].of
               /\ \A b \in DOMAIN conns' : \A j \in DOMAIN conns'[b].data :
                    c < b /\ Body(b, j)' => conns'[c].data[i].of < conns'[b].data[j].of
    <3>1. CASE c = out /\ i = n + 1
      <4>1. conns'[c].data[i].of = message
        BY <1>4, <1>5, <3>1
      <4>2. \A k \in DOMAIN delivered' : delivered'[k] < message
        BY <1>1, <1>7 DEF StreamInv, OrderInv, receiver
      <4>3. \A j \in DOMAIN conns'[c].data : ~(i < j)
        BY <1>5, <3>1
      <4>4. \A b \in DOMAIN conns' : c < b => conns'[b].data = <<>>
        BY <1>1, <1>5, <1>10, <3>1, ConnType DEF StreamInv
      <4>. QED
        BY <1>7, <4>1, <4>2, <4>3, <4>4
    <3>2. CASE ~(c = out /\ i = n + 1)
      <4>1. /\ Body(c, i) /\ c \in DOMAIN conns /\ i \in DOMAIN conns[c].data
            /\ conns'[c].data[i] = conns[c].data[i]
        BY <1>5, <1>9, <2>2, <3>2
      <4>2. conns[c].data[i].of \in Done
        BY <4>1 DEF StreamInv, OrderInv
      <4>3. \A b \in DOMAIN conns' : \A j \in DOMAIN conns'[b].data : Body(b, j)' =>
              \/ conns'[b].data[j].of = message
              \/ /\ Body(b, j) /\ b \in DOMAIN conns /\ j \in DOMAIN conns[b].data
                 /\ conns'[b].data[j] = conns[b].data[j]
        BY <1>5, <1>9
      <4>4. conns'[c].data[i].of \in Done' /\ conns'[c].data[i].of < message
        BY <1>7, <4>1, <4>2
      <4>5. \A k \in DOMAIN delivered' : delivered'[k] < conns'[c].data[i].of
        BY <1>1, <4>1 DEF StreamInv, OrderInv, receiver
      <4>6. ASSUME NEW j \in DOMAIN conns'[c].data, i < j, Body(c, j)'
            PROVE  conns'[c].data[i].of < conns'[c].data[j].of
        BY <4>1, <4>3, <4>4, <4>6 DEF StreamInv, OrderInv
      <4>7. ASSUME NEW b \in DOMAIN conns', NEW j \in DOMAIN conns'[b].data, c < b, Body(b, j)'
            PROVE  conns'[c].data[i].of < conns'[b].data[j].of
        BY <4>1, <4>3, <4>4, <4>7 DEF StreamInv, OrderInv
      <4>. QED
        BY <4>4, <4>5, <4>6, <4>7
    <3>. QED
      BY <3>1, <3>2
  <2>. QED
    BY <2>1, <2>2 DEF OrderInv
<1>12. \A c \in DOMAIN conns' : HoldsPairs(c)'
  BY <1>1, <1>2, <1>3, WrittenPairs
<1>13. SenderMatches'
  BY <1>1, <1>4, <1>5 DEF SenderMatches
<1>14. SocketInv'
  BY <1>1, <1>5 DEF StreamInv, SocketInv, receiver
<1>. QED
  BY <1>6, <1>8, <1>11, <1>12, <1>13, <1>14 DEF StreamInv

-----------------------------------------------------------------------------
(* The steps of the network and of the receiver.                             *)

\* The network resets a connection.
LEMMA ResetStep ==
  ASSUME StreamInv, Reset
  PROVE  StreamInv'
<1>1. PICK b \in DOMAIN conns : conns' = Break(b)
  BY DEF Reset
<1>2. /\ UNCHANGED <<client, sender, receiver, taken, out, in, leaves>>
      /\ resets' = resets + 1 /\ resets < MaxResets
  BY DEF Reset
<1>3. /\ conns' \in Seq(Conns) /\ Len(conns') = Len(conns) /\ DOMAIN conns' = DOMAIN conns
      /\ conns'[b] = [data |-> <<>>, broken |-> TRUE, closed |-> conns[b].closed]
      /\ \A c \in DOMAIN conns : c # b => conns'[c] = conns[c]
  BY <1>1, BreakFacts DEF StreamInv
<1>4. QueueInv' /\ Done \subseteq Done'
  BY <1>2, QueueKept DEF StreamInv, sender
<1>5. OrderInv'
  BY <1>2, <1>3, <1>4, OrderKept DEF StreamInv, receiver
<1>6. TypeOK'
  BY <1>2, <1>3, LinkAssumption
     DEF StreamInv, TypeOK, sender, receiver, Conns, Packets
<1>7. ASSUME NEW c \in DOMAIN conns' PROVE HoldsPairs(c)'
  <2>1. CASE c # b
    BY <1>2, <1>3, <2>1, PairsKept DEF StreamInv, receiver
  <2>2. CASE c = b
    <3>1. HoldsPairs(c)
      BY <1>3 DEF StreamInv
    <3>2. conns'[c].data = <<>> /\ conns'[c].broken /\ conns'[c].closed = conns[c].closed
      BY <1>3, <2>2
    <3>3. DOMAIN conns'[c].data = {} /\ Len(conns'[c].data) = 0
      BY <3>2
    <3>. QED
      BY <1>2, <3>1, <3>2, <3>3 DEF HoldsPairs, Half, receiver
  <2>. QED
    BY <2>1, <2>2
<1>8. SocketInv'
  <2>1. out # 0 => out \in DOMAIN conns
    BY DEF StreamInv, TypeOK
  <2>. QED
    BY <1>2, <1>3, <2>1 DEF StreamInv, SocketInv, sender, receiver
<1>9. SenderMatches'
  <2>1. out # 0 => out \in DOMAIN conns
    BY DEF StreamInv, TypeOK
  <2>2. CASE out = b
    BY <1>2, <1>3, <2>2 DEF SenderMatches
  <2>3. CASE out # b
    BY <1>2, <1>3, <2>1, <2>3 DEF StreamInv, SenderMatches, Half, sender, receiver
  <2>. QED
    BY <2>2, <2>3
<1>. QED
  BY <1>4, <1>5, <1>6, <1>7, <1>8, <1>9 DEF StreamInv

\* The receiver gives its connection up, with what is in it.
LEMMA ReceiverDrops ==
  ASSUME StreamInv, in # 0, in' = 0, conns' = Break(in),
         rpc' \in {"size", "connect"}, size' = None, tries' \in 0..Tries,
         UNCHANGED <<client, sender, delivered, taken, out>>,
         resets' = resets, leaves' \in 0..MaxLeaves
  PROVE  StreamInv'
<1>1. in \in DOMAIN conns /\ TypeOK
  BY DEF StreamInv, TypeOK
<1>2. /\ conns' \in Seq(Conns) /\ Len(conns') = Len(conns) /\ DOMAIN conns' = DOMAIN conns
      /\ conns'[in] = [data |-> <<>>, broken |-> TRUE, closed |-> conns[in].closed]
      /\ \A c \in DOMAIN conns : c # in => conns'[c] = conns[c]
  BY <1>1, BreakFacts
<1>3. QueueInv' /\ Done \subseteq Done'
  BY QueueKept DEF StreamInv, sender
<1>4. OrderInv'
  BY <1>2, <1>3, OrderKept DEF StreamInv
<1>5. TypeOK'
  BY <1>1, <1>2 DEF TypeOK, sender, Conns, Packets, Halves
<1>6. ASSUME NEW c \in DOMAIN conns' PROVE HoldsPairs(c)'
  <2>1. HoldsPairs(c) /\ c # 0
    BY <1>1, <1>2, ConnType DEF StreamInv
  <2>2. CASE c # in
    <3>1. conns'[c] = conns[c] /\ ~Half(c) /\ ~Half(c)'
      BY <1>2, <2>1, <2>2 DEF Half
    <3>. QED
      BY <2>1, <2>2, <3>1 DEF HoldsPairs
  <2>3. CASE c = in
    <3>1. conns'[c].data = <<>> /\ conns'[c].broken /\ conns'[c].closed = conns[c].closed
      BY <1>2, <2>3
    <3>2. DOMAIN conns'[c].data = {} /\ Len(conns'[c].data) = 0
      BY <3>1
    <3>. QED
      BY <2>1, <3>1, <3>2 DEF HoldsPairs, Half
  <2>. QED
    BY <2>2, <2>3
<1>7. SocketInv'
  <2>1. out # 0 => out \in DOMAIN conns
    BY DEF StreamInv, TypeOK
  <2>. QED
    BY <1>2, <2>1 DEF StreamInv, SocketInv, sender
<1>8. SenderMatches'
  <2>1. out # 0 => out \in DOMAIN conns
    BY DEF StreamInv, TypeOK
  <2>2. CASE out = in
    BY <1>2, <2>2 DEF SenderMatches
  <2>3. CASE out # in
    BY <1>2, <2>1, <2>3 DEF StreamInv, SenderMatches, Half, sender
  <2>. QED
    BY <2>2, <2>3
<1>. QED
  BY <1>3, <1>4, <1>5, <1>6, <1>7, <1>8 DEF StreamInv

\* The receiver makes or takes a connection.
LEMMA ReceiverTakes ==
  ASSUME StreamInv, in = 0, NewSocket("receiver", in'),
         rpc' \in {"size", "drop"}, size = None, size' = None, tries' \in 0..Tries,
         UNCHANGED <<client, sender, delivered, out, faults>>
  PROVE  StreamInv'
<1>1. /\ taken \in 0..Len(conns) /\ Len(conns) \in Nat /\ out \in 0..Len(conns)
      /\ conns \in Seq(Conns) /\ DOMAIN conns = 1..Len(conns) /\ client \in Ends
  BY DEF StreamInv, TypeOK, Conns, Packets
<1>2. QueueInv' /\ Done \subseteq Done'
  BY QueueKept DEF StreamInv, sender
<1>3. rpc # "data" /\ rpc' # "data"
  BY DEF StreamInv, SocketInv
<1>4. CASE client = "receiver"
  <2>1. conns' = Append(conns, NewConn) /\ in' = Len(conns) + 1 /\ taken' = taken
    BY <1>4 DEF NewSocket
  <2>2. /\ conns' \in Seq(Conns) /\ Len(conns') = Len(conns) + 1
        /\ DOMAIN conns' = 1..(Len(conns) + 1)
        /\ conns'[Len(conns) + 1] = [data |-> <<>>, broken |-> FALSE, closed |-> FALSE]
        /\ \A b \in DOMAIN conns : conns'[b] = conns[b]
    BY <2>1, ConnMade DEF StreamInv
  <2>3. \A c \in DOMAIN conns' : c = Len(conns) + 1 \/ c \in DOMAIN conns
    BY <1>1, <2>2
  <2>4. OrderInv'
    BY <1>2, <2>2, <2>3, OrderKept DEF StreamInv
  <2>5. TypeOK'
    BY <1>1, <2>1, <2>2 DEF StreamInv, TypeOK, sender, faults, Conns, Packets, Halves
  <2>6. ASSUME NEW c \in DOMAIN conns' PROVE HoldsPairs(c)'
    <3>1. CASE c \in DOMAIN conns
      <4>1. HoldsPairs(c) /\ c # 0 /\ conns'[c] = conns[c] /\ c # in'
        BY <1>1, <2>1, <2>2, <3>1 DEF StreamInv
      <4>2. conns[c].broken
        BY <1>4, <4>1 DEF HoldsPairs
      <4>. QED
        BY <1>3, <1>4, <2>1, <4>1, <4>2 DEF HoldsPairs, Half
    <3>2. CASE c = Len(conns) + 1
      <4>1. /\ conns'[c].data = <<>> /\ ~conns'[c].broken /\ ~conns'[c].closed
            /\ c = in' /\ Len(conns'[c].data) = 0
        BY <2>1, <2>2, <3>2
      <4>. QED
        BY <1>3, <4>1 DEF HoldsPairs, Half
    <3>. QED
      BY <2>3, <3>1, <3>2
  <2>7. SocketInv' /\ SenderMatches'
    <3>1. out # 0 => out \in DOMAIN conns /\ conns'[out] = conns[out] /\ out # in'
      BY <1>1, <2>1, <2>2
    <3>. QED
      BY <1>1, <1>3, <1>4, <2>1, <2>2, <3>1
         DEF StreamInv, SocketInv, SenderMatches, Half, sender
  <2>. QED
    BY <1>2, <2>4, <2>5, <2>6, <2>7 DEF StreamInv
<1>5. CASE client = "sender"
  <2>1. taken < Len(conns) /\ conns' = conns /\ in' = taken + 1 /\ taken' = taken + 1
    BY <1>5 DEF NewSocket
  <2>2. OrderInv'
    BY <1>2, <2>1, OrderKept DEF StreamInv
  <2>3. TypeOK'
    BY <1>1, <2>1 DEF StreamInv, TypeOK, sender, faults, Halves
  <2>4. ASSUME NEW c \in DOMAIN conns' PROVE HoldsPairs(c)'
    <3>1. HoldsPairs(c) /\ c # 0 /\ (c # in' /\ c <= taken' => c <= taken)
      BY <1>1, <2>1 DEF StreamInv
    <3>. QED
      BY <1>3, <1>5, <2>1, <3>1 DEF HoldsPairs, Half
  <2>5. SocketInv'
    <3>1. in' \in {0, taken'} /\ out' \in {0, Len(conns')} /\ in' # 0
      <4>1. in' = taken' /\ in' # 0
        BY <1>1, <2>1
      <4>2. out \in {0, Len(conns)}
        BY <1>5 DEF StreamInv, SocketInv
      <4>. QED
        BY <2>1, <4>1, <4>2
    <3>2. /\ out' # 0 => ~conns'[out'].closed
          /\ out' = 0 => spc' \in {"start", "size"}
          /\ out' # 0 => spc' # "start"
      BY <2>1 DEF StreamInv, SocketInv, sender
    <3>3. rpc' # "connect" /\ rpc' # "lost"
      OBVIOUS
    <3>. QED
      BY <1>3, <1>5, <3>1, <3>2, <3>3 DEF SocketInv
  <2>6. SenderMatches'
    <3>1. ~(out = in /\ rpc = "data") /\ ~(out = in' /\ rpc' = "data")
      BY <1>3
    <3>. QED
      BY <2>1, <3>1 DEF StreamInv, SenderMatches, Half, sender
  <2>. QED
    BY <1>2, <2>2, <2>3, <2>4, <2>5, <2>6 DEF StreamInv
<1>. QED
  BY <1>1, <1>4, <1>5 DEF Ends

\* The receiver loses a client for an error it has not made.
LEMMA StaleErrnoStep ==
  ASSUME StreamInv, StaleErrno
  PROVE  StreamInv'
<1>1. /\ UNCHANGED <<client, sender, tries, delivered, sockets, faults>>
      /\ rpc' = "drop" /\ size' = None /\ in # 0
      /\ conns[in].data = <<>> /\ conns[in].closed
  BY DEF StaleErrno, AtEnd
<1>2. QueueInv' /\ Done \subseteq Done'
  BY <1>1, QueueKept DEF StreamInv, sender
<1>3. OrderInv'
  BY <1>1, <1>2, OrderKept DEF StreamInv, sockets
<1>4. TypeOK'
  BY <1>1 DEF StreamInv, TypeOK, sender, sockets, faults
<1>5. ASSUME NEW c \in DOMAIN conns' PROVE HoldsPairs(c)'
  <2>1. HoldsPairs(c)
    BY <1>1 DEF StreamInv, sockets
  <2>2. CASE c = in
    BY <1>1, <2>1, <2>2 DEF HoldsPairs, Half, sockets
  <2>3. CASE c # in
    BY <1>1, <2>1, <2>3 DEF HoldsPairs, Half, sockets
  <2>. QED
    BY <2>2, <2>3
<1>6. SocketInv' /\ SenderMatches'
  <2>1. out # 0 => out # in
    BY <1>1 DEF StreamInv, SocketInv
  <2>. QED
    BY <1>1, <2>1 DEF StreamInv, SocketInv, SenderMatches, Half, sender, sockets
<1>. QED
  BY <1>2, <1>3, <1>4, <1>5, <1>6 DEF StreamInv

\* What is left of a sequence without its first element.
LEMMA TailFacts ==
  ASSUME NEW S, NEW s \in Seq(S), s # <<>>
  PROVE  /\ Tail(s) \in Seq(S) /\ Len(Tail(s)) = Len(s) - 1
         /\ DOMAIN Tail(s) = 1..(Len(s) - 1)
         /\ DOMAIN s = 1..Len(s) /\ Len(s) \in Nat /\ Len(s) > 0
         /\ (Len(s) = 1 <=> Tail(s) = <<>>)
         /\ \A i \in 1..(Len(s) - 1) : Tail(s)[i] = s[i + 1]
         /\ s[1] \in S /\ Head(s) = s[1]
<1>1. Len(s) > 0 /\ 1 \in DOMAIN s /\ Tail(s) \in Seq(S) /\ Len(Tail(s)) = Len(s) - 1
  OBVIOUS
<1>2. Len(s) = 1 <=> Tail(s) = <<>>
  <2>1. Tail(s) = <<>> <=> Len(Tail(s)) = 0
    BY <1>1, EmptySeq
  <2>. QED
    BY <1>1, <2>1
<1>. QED
  BY <1>1, <1>2

\* The receiver takes a half out of its connection.
Takes == conns' = [conns EXCEPT ![in].data = Tail(@)]

\* What that changes.
LEMMA Taken ==
  ASSUME StreamInv, in # 0, conns[in].data # <<>>, Takes
  PROVE  LET n == Len(conns[in].data)
             data == conns'[in].data
         IN /\ in \in DOMAIN conns /\ n \in Nat /\ n > 0
            /\ conns' \in Seq(Conns) /\ Len(conns') = Len(conns)
            /\ DOMAIN conns' = DOMAIN conns
            /\ \A b \in DOMAIN conns : b # in => conns'[b] = conns[b]
            /\ conns'[in].broken = conns[in].broken
            /\ conns'[in].closed = conns[in].closed
            /\ Len(data) = n - 1 /\ DOMAIN data = 1..(n - 1)
            /\ DOMAIN conns[in].data = 1..n /\ (n = 1 <=> data = <<>>)
            /\ \A i \in 1..(n - 1) : data[i] = conns[in].data[i + 1]
            /\ conns[in].data[1] \in Packets /\ Head(conns[in].data) = conns[in].data[1]
            /\ ~conns[in].broken
<1>. DEFINE d == conns[in].data
            e == Tail(d)
<1>1. in \in DOMAIN conns /\ TypeOK
  BY DEF StreamInv, TypeOK
<1>2. d \in Seq(Packets) /\ Len(d) \in Nat
  BY <1>1, ConnType
<1>3. /\ e \in Seq(Packets) /\ Len(e) = Len(d) - 1 /\ DOMAIN e = 1..(Len(d) - 1)
      /\ DOMAIN d = 1..Len(d) /\ Len(d) > 0 /\ (Len(d) = 1 <=> e = <<>>)
      /\ \A i \in 1..(Len(d) - 1) : e[i] = d[i + 1]
      /\ d[1] \in Packets /\ Head(d) = d[1]
  <2>. HIDE DEF d
  <2>1. d # <<>>
    BY DEF d
  <2>. QED
    BY <1>2, <2>1, TailFacts
<1>4. conns' = WithData(in, e)
  BY DEF Takes, WithData
<1>. HIDE DEF d, e
<1>5. /\ conns' \in Seq(Conns) /\ Len(conns') = Len(conns) /\ DOMAIN conns' = DOMAIN conns
      /\ conns'[in] = [data |-> e, broken |-> conns[in].broken, closed |-> conns[in].closed]
      /\ \A b \in DOMAIN conns : b # in => conns'[b] = conns[b]
  <2>1. e \in Seq(Packets)
    BY <1>3
  <2>. QED
    BY <1>1, <1>4, <2>1, DataFacts
<1>6. /\ conns'[in].data = e /\ conns'[in].broken = conns[in].broken
      /\ conns'[in].closed = conns[in].closed
  BY <1>5
<1>7. ~conns[in].broken
  BY <1>1 DEF StreamInv, HoldsPairs
<1>. QED
  BY <1>1, <1>2, <1>3, <1>5, <1>6, <1>7 DEF d

\* The halves stay in pairs when the receiver takes the one it waits for.
LEMMA TakenPairs ==
  ASSUME StreamInv, in # 0, conns[in].data # <<>>, Takes,
         UNCHANGED <<client, taken, in>>,
         \/ /\ rpc = "size" /\ rpc' = "data"
            /\ conns[in].data[1].half = "size" /\ size' = conns[in].data[1].of
         \/ /\ rpc = "data" /\ rpc' = "size"
            /\ conns[in].data[1].half = "data"
  PROVE  \A c \in DOMAIN conns' : HoldsPairs(c)'
<1>. DEFINE n == Len(conns[in].data)
            data == conns'[in].data
<1>1. /\ in \in DOMAIN conns /\ n \in Nat /\ n > 0
      /\ conns' \in Seq(Conns) /\ Len(conns') = Len(conns)
      /\ DOMAIN conns' = DOMAIN conns
      /\ \A b \in DOMAIN conns : b # in => conns'[b] = conns[b]
      /\ conns'[in].broken = conns[in].broken
      /\ conns'[in].closed = conns[in].closed
      /\ Len(data) = n - 1 /\ DOMAIN data = 1..(n - 1)
      /\ DOMAIN conns[in].data = 1..n /\ (n = 1 <=> data = <<>>)
      /\ \A i \in 1..(n - 1) : data[i] = conns[in].data[i + 1]
      /\ conns[in].data[1] \in Packets /\ Head(conns[in].data) = conns[in].data[1]
      /\ ~conns[in].broken
  BY Taken
<1>2. ASSUME NEW c \in DOMAIN conns', c # in
      PROVE  HoldsPairs(c)'
  <2>1. HoldsPairs(c) /\ conns'[c] = conns[c] /\ ~Half(c) /\ ~Half(c)'
    BY <1>1, <1>2 DEF StreamInv, Half
  <2>. QED
    BY <2>1 DEF HoldsPairs
<1>3. HoldsPairs(in)
  BY <1>1 DEF StreamInv
<1>4. \A i \in 1..(n - 1) :
        IF conns[in].data[i].half = "size"
        THEN conns[in].data[i + 1] = [half |-> "data", of |-> conns[in].data[i].of]
        ELSE conns[in].data[i + 1].half = "size"
  BY <1>3 DEF HoldsPairs
<1>5. \A i \in 1..(Len(data) - 1) :
        IF data[i].half = "size"
        THEN data[i + 1] = [half |-> "data", of |-> data[i].of]
        ELSE data[i + 1].half = "size"
  <2>. TAKE i \in 1..(Len(data) - 1)
  <2>1. i + 1 \in 1..(n - 1) /\ i \in 1..(n - 1)
    BY <1>1
  <2>2. data[i] = conns[in].data[i + 1] /\ data[i + 1] = conns[in].data[(i + 1) + 1]
    BY <1>1, <2>1
  <2>. QED
    BY <1>4, <2>1, <2>2
<1>6. data # <<>> =>
        IF rpc' = "data" THEN data[1] = [half |-> "data", of |-> size']
        ELSE data[1].half = "size"
  <2>. HAVE data # <<>>
  <2>1. 1 \in 1..(n - 1) /\ data[1] = conns[in].data[1 + 1]
    BY <1>1
  <2>. QED
    BY <1>4, <2>1
<1>7. ASSUME NEW c \in DOMAIN conns', c = in
      PROVE  HoldsPairs(c)'
  <2>1. Half(c)' <=> rpc' = "data"
    BY <1>7 DEF Half
  <2>2. ~(client = "receiver" /\ c > taken)
    BY <1>3, <1>7 DEF HoldsPairs
  <2>. HIDE DEF n
  <2>. QED
    BY <1>1, <1>5, <1>6, <1>7, <2>1, <2>2 DEF HoldsPairs
<1>. QED
  BY <1>2, <1>7

\* So does what the sender has written last.
LEMMA TakenMatches ==
  ASSUME StreamInv, in # 0, conns[in].data # <<>>, Takes,
         UNCHANGED <<out, in, spc, message>>,
         \/ /\ rpc = "size" /\ rpc' = "data"
            /\ conns[in].data[1].half = "size" /\ size' = conns[in].data[1].of
         \/ /\ rpc = "data" /\ rpc' = "size"
            /\ conns[in].data[1].half = "data"
  PROVE  SenderMatches'
<1>. DEFINE n == Len(conns[in].data)
            data == conns'[in].data
<1>1. /\ in \in DOMAIN conns /\ n \in Nat /\ n > 0
      /\ conns' \in Seq(Conns) /\ Len(conns') = Len(conns)
      /\ DOMAIN conns' = DOMAIN conns
      /\ \A b \in DOMAIN conns : b # in => conns'[b] = conns[b]
      /\ conns'[in].broken = conns[in].broken
      /\ conns'[in].closed = conns[in].closed
      /\ Len(data) = n - 1 /\ DOMAIN data = 1..(n - 1)
      /\ DOMAIN conns[in].data = 1..n /\ (n = 1 <=> data = <<>>)
      /\ \A i \in 1..(n - 1) : data[i] = conns[in].data[i + 1]
      /\ conns[in].data[1] \in Packets /\ Head(conns[in].data) = conns[in].data[1]
      /\ ~conns[in].broken
  BY Taken
<1>2. CASE out # in
  <2>1. out # 0 => out \in DOMAIN conns
    BY DEF StreamInv, TypeOK
  <2>. QED
    BY <1>1, <1>2, <2>1 DEF StreamInv, SenderMatches, Half
<1>3. CASE out = in
  <2>1. IF spc = "data" THEN conns[in].data[n] = [half |-> "size", of |-> message]
        ELSE conns[in].data[n].half = "data"
    BY <1>1, <1>3 DEF StreamInv, SenderMatches
  <2>2. CASE n = 1
    <3>1. data = <<>>
      BY <1>1, <2>2
    <3>2. Half(out)' <=> rpc' = "data"
      BY <1>3 DEF Half
    <3>3. IF spc = "data" THEN rpc' = "data" /\ size' = message ELSE rpc' # "data"
      BY <2>1, <2>2
    <3>4. conns'[out'].data = <<>>
      BY <1>3, <3>1
    <3>. QED
      BY <1>3, <3>2, <3>3, <3>4 DEF SenderMatches, Half
  <2>3. CASE n # 1
    <3>1. n - 1 \in 1..(n - 1) /\ (n - 1) + 1 = n
      BY <1>1, <2>3
    <3>2. data # <<>> /\ data[Len(data)] = conns[in].data[n]
      BY <1>1, <2>3, <3>1
    <3>3. /\ conns'[out'].data # <<>>
          /\ conns'[out'].data[Len(conns'[out'].data)] = conns[in].data[n]
      BY <1>3, <3>2
    <3>. QED
      BY <2>1, <3>3 DEF SenderMatches
  <2>. QED
    BY <2>2, <2>3
<1>. QED
  BY <1>2, <1>3

\* A body in the receiver's connection moves up by one, the others stay.
LEMMA TakenBodies ==
  ASSUME StreamInv, in # 0, conns[in].data # <<>>, Takes,
         NEW c \in DOMAIN conns', NEW i \in DOMAIN conns'[c].data, Body(c, i)'
  PROVE  LET j == IF c = in THEN i + 1 ELSE i
         IN /\ c \in DOMAIN conns /\ j \in DOMAIN conns[c].data /\ Body(c, j)
            /\ conns'[c].data[i] = conns[c].data[j] /\ i \in Nat /\ i > 0
<1>. DEFINE n == Len(conns[in].data)
            data == conns'[in].data
<1>1. /\ in \in DOMAIN conns /\ n \in Nat /\ n > 0
      /\ conns' \in Seq(Conns) /\ Len(conns') = Len(conns)
      /\ DOMAIN conns' = DOMAIN conns
      /\ \A b \in DOMAIN conns : b # in => conns'[b] = conns[b]
      /\ conns'[in].broken = conns[in].broken
      /\ conns'[in].closed = conns[in].closed
      /\ Len(data) = n - 1 /\ DOMAIN data = 1..(n - 1)
      /\ DOMAIN conns[in].data = 1..n /\ (n = 1 <=> data = <<>>)
      /\ \A k \in 1..(n - 1) : data[k] = conns[in].data[k + 1]
      /\ conns[in].data[1] \in Packets /\ Head(conns[in].data) = conns[in].data[1]
      /\ ~conns[in].broken
  BY Taken
<1>2. CASE c # in
  <2>1. conns'[c] = conns[c] /\ c \in DOMAIN conns
    BY <1>1, <1>2
  <2>2. DOMAIN conns[c].data = 1..Len(conns[c].data)
    BY <2>1, ConnType DEF StreamInv
  <2>. QED
    BY <1>2, <2>1, <2>2 DEF Body
<1>3. CASE c = in
  <2>1. i \in 1..(n - 1) /\ i + 1 \in 1..n
    BY <1>1, <1>3
  <2>2. conns'[c].data[i] = conns[c].data[i + 1]
    BY <1>1, <1>3, <2>1
  <2>. QED
    BY <1>1, <1>3, <2>1, <2>2 DEF Body
<1>. QED
  BY <1>2, <1>3

\* The receiver reads the size of a message.
LEMMA ReadSizeStep ==
  ASSUME StreamInv, ReadHalf, rpc = "size"
  PROVE  StreamInv'
<1>1. /\ in # 0 /\ conns[in].data # <<>> /\ Takes
      /\ UNCHANGED <<client, sender, taken, out, in, faults>>
  BY DEF ReadHalf, Takes
<1>2. /\ in \in DOMAIN conns /\ conns' \in Seq(Conns) /\ Len(conns') = Len(conns)
      /\ DOMAIN conns' = DOMAIN conns
      /\ \A b \in DOMAIN conns : b # in => conns'[b] = conns[b]
      /\ conns'[in].broken = conns[in].broken
      /\ conns'[in].closed = conns[in].closed
      /\ conns[in].data[1] \in Packets /\ Head(conns[in].data) = conns[in].data[1]
  BY <1>1, Taken
<1>3. conns[in].data[1].half = "size"
  BY <1>1, <1>2 DEF StreamInv, HoldsPairs, Half
<1>4. rpc' = "data" /\ size' = conns[in].data[1].of /\ UNCHANGED <<tries, delivered>>
  BY <1>2, <1>3 DEF ReadHalf
<1>5. size' \in Messages /\ size' # None
  BY <1>2, <1>4, LinkAssumption DEF Packets, Messages, None
<1>6. QueueInv' /\ Done \subseteq Done'
  BY <1>1, QueueKept DEF StreamInv, sender
<1>7. TypeOK'
  BY <1>1, <1>2, <1>4, <1>5 DEF StreamInv, TypeOK, sender, faults, Conns, Packets, Halves
<1>8. SocketInv'
  <2>1. out # 0 => conns'[out].closed = conns[out].closed
    <3>1. out # 0 => out \in DOMAIN conns
      BY DEF StreamInv, TypeOK
    <3>2. CASE out = in
      BY <1>2, <3>2
    <3>3. CASE out # in
      BY <1>2, <3>1, <3>3
    <3>. QED
      BY <3>2, <3>3
  <2>. QED
    BY <1>1, <1>2, <1>4, <1>5, <2>1 DEF StreamInv, SocketInv, sender
<1>9. \A c \in DOMAIN conns' : HoldsPairs(c)'
  BY <1>1, <1>3, <1>4, TakenPairs
<1>10. SenderMatches'
  BY <1>1, <1>3, <1>4, TakenMatches DEF sender
<1>11. OrderInv'
  <2>1. /\ \A i \in DOMAIN delivered' : delivered'[i] \in Done'
        /\ \A i, j \in DOMAIN delivered' : i < j => delivered'[i] < delivered'[j]
    BY <1>4, <1>6 DEF StreamInv, OrderInv
  <2>2. ASSUME NEW c \in DOMAIN conns', NEW i \in DOMAIN conns'[c].data, Body(c, i)'
        PROVE  /\ conns'[c].data[i].of \in Done'
               /\ \A k \in DOMAIN delivered' : delivered'[k] < conns'[c].data[i].of
               /\ \A j \in DOMAIN conns'[c].data :
                    i < j /\ Body(c, j)' => conns'[c].data[i].of < conns'[c].data[j].of
               /\ \A b \in DOMAIN conns' : \A j \in DOMAIN conns'[b].data :
                    c < b /\ Body(b, j)' => conns'[c].data[i].of < conns'[b].data[j].of
    <3>1. PICK k : /\ k = IF c = in THEN i + 1 ELSE i
                   /\ c \in DOMAIN conns /\ k \in DOMAIN conns[c].data /\ Body(c, k)
                   /\ conns'[c].data[i] = conns[c].data[k] /\ i \in Nat
      BY <1>1, <2>2, TakenBodies
    <3>2. /\ conns'[c].data[i].of \in Done'
          /\ \A l \in DOMAIN delivered' : delivered'[l] < conns'[c].data[i].of
      BY <1>4, <1>6, <3>1 DEF StreamInv, OrderInv
    <3>3. ASSUME NEW j \in DOMAIN conns'[c].data, i < j, Body(c, j)'
          PROVE  conns'[c].data[i].of < conns'[c].data[j].of
      <4>1. PICK l : /\ l = IF c = in THEN j + 1 ELSE j
                     /\ l \in DOMAIN conns[c].data /\ Body(c, l)
                     /\ conns'[c].data[j] = conns[c].data[l] /\ j \in Nat
        BY <1>1, <3>3, TakenBodies
      <4>2. k < l
        BY <3>1, <3>3, <4>1
      <4>. QED
        BY <3>1, <4>1, <4>2 DEF StreamInv, OrderInv
    <3>4. ASSUME NEW b \in DOMAIN conns', NEW j \in DOMAIN conns'[b].data, c < b, Body(b, j)'
          PROVE  conns'[c].data[i].of < conns'[b].data[j].of
      <4>1. PICK l : /\ b \in DOMAIN conns /\ l \in DOMAIN conns[b].data /\ Body(b, l)
                     /\ conns'[b].data[j] = conns[b].data[l]
        BY <1>1, <3>4, TakenBodies
      <4>. QED
        BY <3>1, <3>4, <4>1 DEF StreamInv, OrderInv
    <3>. QED
      BY <3>2, <3>3, <3>4
  <2>. QED
    BY <2>1, <2>2 DEF OrderInv
<1>. QED
  BY <1>6, <1>7, <1>8, <1>9, <1>10, <1>11 DEF StreamInv

\* The receiver reads the data of a message and delivers it.
LEMMA ReadDataStep ==
  ASSUME StreamInv, ReadHalf, rpc = "data"
  PROVE  StreamInv'
<1>. DEFINE m == conns[in].data[1].of
<1>1. /\ in # 0 /\ conns[in].data # <<>> /\ Takes
      /\ UNCHANGED <<client, sender, taken, out, in, faults>>
  BY DEF ReadHalf, Takes
<1>2. /\ in \in DOMAIN conns /\ conns' \in Seq(Conns) /\ Len(conns') = Len(conns)
      /\ DOMAIN conns' = DOMAIN conns
      /\ \A b \in DOMAIN conns : b # in => conns'[b] = conns[b]
      /\ conns'[in].broken = conns[in].broken
      /\ conns'[in].closed = conns[in].closed
      /\ conns[in].data[1] \in Packets /\ Head(conns[in].data) = conns[in].data[1]
      /\ 1 \in DOMAIN conns[in].data
  BY <1>1, Taken
<1>3. conns[in].data[1].half = "data" /\ m = size
  BY <1>1, <1>2 DEF StreamInv, HoldsPairs, Half
<1>4. /\ rpc' = "size" /\ size' = None /\ tries' = 0
      /\ delivered' = Append(delivered, m)
  BY <1>2, <1>3 DEF ReadHalf
<1>5. Body(in, 1) /\ m \in Done /\ m \in Messages
  <2>1. Body(in, 1)
    BY <1>2, <1>3 DEF Body
  <2>. QED
    BY <1>2, <2>1 DEF StreamInv, OrderInv, Packets
<1>. DEFINE n == Len(delivered)
<1>6. /\ n \in Nat /\ DOMAIN delivered = 1..n /\ DOMAIN delivered' = 1..(n + 1)
      /\ delivered' \in Seq(Messages \union {Corrupt}) /\ delivered'[n + 1] = m
      /\ \A i \in 1..n : delivered'[i] = delivered[i]
  <2>1. delivered \in Seq(Messages \union {Corrupt}) /\ m \in Messages \union {Corrupt}
    BY <1>5 DEF StreamInv, TypeOK
  <2>. HIDE DEF m
  <2>. QED
    BY <1>4, <2>1
<1>. HIDE DEF n
<1>7. QueueInv' /\ Done \subseteq Done'
  BY <1>1, QueueKept DEF StreamInv, sender
<1>8. TypeOK'
  BY <1>1, <1>2, <1>4, <1>6, LinkAssumption
     DEF StreamInv, TypeOK, sender, faults, Conns, Packets, Halves
<1>9. SocketInv'
  <2>1. out # 0 => conns'[out].closed = conns[out].closed
    <3>1. out # 0 => out \in DOMAIN conns
      BY DEF StreamInv, TypeOK
    <3>2. CASE out = in
      BY <1>2, <3>2
    <3>3. CASE out # in
      BY <1>2, <3>1, <3>3
    <3>. QED
      BY <3>2, <3>3
  <2>. QED
    BY <1>1, <1>2, <1>4, <2>1 DEF StreamInv, SocketInv, sender
<1>10. \A c \in DOMAIN conns' : HoldsPairs(c)'
  BY <1>1, <1>3, <1>4, TakenPairs
<1>11. SenderMatches'
  BY <1>1, <1>3, <1>4, TakenMatches DEF sender
\* What is left in the connections comes after this message.
<1>12. ASSUME NEW c \in DOMAIN conns, NEW k \in DOMAIN conns[c].data, Body(c, k),
              c = in => k > 1
       PROVE  m < conns[c].data[k].of
  <2>1. CASE c = in
    BY <1>2, <1>5, <1>12, <2>1 DEF StreamInv, OrderInv
  <2>2. CASE c # in
    <3>1. ~conns[c].broken
      BY <1>12 DEF StreamInv, HoldsPairs
    <3>2. client = "sender" /\ ~(c <= taken) /\ in = taken
      BY <1>1, <2>2, <3>1 DEF StreamInv, HoldsPairs, SocketInv, TypeOK, Ends
    <3>3. in < c
      BY <3>2, ConnType DEF StreamInv, TypeOK
    <3>. QED
      BY <1>2, <1>5, <1>12, <3>3 DEF StreamInv, OrderInv
  <2>. QED
    BY <2>1, <2>2
<1>13. OrderInv'
  <2>1. \A i \in DOMAIN delivered' : delivered'[i] \in Done'
    <3>. TAKE i \in DOMAIN delivered'
    <3>1. CASE i = n + 1
      BY <1>5, <1>6, <1>7, <3>1
    <3>2. CASE i # n + 1
      <4>1. i \in 1..n
        BY <1>6, <3>2
      <4>. QED
        BY <1>6, <1>7, <4>1 DEF StreamInv, OrderInv
    <3>. QED
      BY <3>1, <3>2
  <2>2. \A k \in 1..n : delivered[k] < m
    BY <1>2, <1>5, <1>6 DEF StreamInv, OrderInv
  <2>3. \A i, j \in DOMAIN delivered' : i < j => delivered'[i] < delivered'[j]
    <3>. TAKE i, j \in DOMAIN delivered'
    <3>. HAVE i < j
    <3>1. i \in 1..n
      BY <1>6
    <3>2. CASE j = n + 1
      BY <1>6, <2>2, <3>1, <3>2
    <3>3. CASE j # n + 1
      <4>1. j \in 1..n
        BY <1>6, <3>3
      <4>. QED
        BY <1>6, <3>1, <4>1 DEF StreamInv, OrderInv
    <3>. QED
      BY <3>2, <3>3
  <2>4. ASSUME NEW c \in DOMAIN conns', NEW i \in DOMAIN conns'[c].data, Body(c, i)'
        PROVE  /\ conns'[c].data[i].of \in Done'
               /\ \A k \in DOMAIN delivered' : delivered'[k] < conns'[c].data[i].of
               /\ \A j \in DOMAIN conns'[c].data :
                    i < j /\ Body(c, j)' => conns'[c].data[i].of < conns'[c].data[j].of
               /\ \A b \in DOMAIN conns' : \A j \in DOMAIN conns'[b].data :
                    c < b /\ Body(b, j)' => conns'[c].data[i].of < conns'[b].data[j].of
    <3>1. PICK k : /\ k = IF c = in THEN i + 1 ELSE i
                   /\ c \in DOMAIN conns /\ k \in DOMAIN conns[c].data /\ Body(c, k)
                   /\ conns'[c].data[i] = conns[c].data[k] /\ i \in Nat /\ i > 0
      BY <1>1, <2>4, TakenBodies
    <3>2. conns'[c].data[i].of \in Done'
      BY <1>7, <3>1 DEF StreamInv, OrderInv
    <3>3. \A l \in DOMAIN delivered' : delivered'[l] < conns'[c].data[i].of
      <4>. TAKE l \in DOMAIN delivered'
      <4>1. CASE l = n + 1
        <5>1. c = in => k > 1
          BY <3>1
        <5>2. m < conns[c].data[k].of
          BY <1>12, <3>1, <5>1
        <5>. QED
          BY <1>6, <3>1, <4>1, <5>2
      <4>2. CASE l # n + 1
        <5>1. l \in 1..n
          BY <1>6, <4>2
        <5>. QED
          BY <1>6, <3>1, <5>1 DEF StreamInv, OrderInv
      <4>. QED
        BY <4>1, <4>2
    <3>4. ASSUME NEW j \in DOMAIN conns'[c].data, i < j, Body(c, j)'
          PROVE  conns'[c].data[i].of < conns'[c].data[j].of
      <4>1. PICK l : /\ l = IF c = in THEN j + 1 ELSE j
                     /\ l \in DOMAIN conns[c].data /\ Body(c, l)
                     /\ conns'[c].data[j] = conns[c].data[l] /\ j \in Nat
        BY <1>1, <3>4, TakenBodies
      <4>2. k < l
        BY <3>1, <3>4, <4>1
      <4>. QED
        BY <3>1, <4>1, <4>2 DEF StreamInv, OrderInv
    <3>5. ASSUME NEW b \in DOMAIN conns', NEW j \in DOMAIN conns'[b].data, c < b, Body(b, j)'
          PROVE  conns'[c].data[i].of < conns'[b].data[j].of
      <4>1. PICK l : /\ b \in DOMAIN conns /\ l \in DOMAIN conns[b].data /\ Body(b, l)
                     /\ conns'[b].data[j] = conns[b].data[l]
        BY <1>1, <3>5, TakenBodies
      <4>. QED
        BY <3>1, <3>5, <4>1 DEF StreamInv, OrderInv
    <3>. QED
      BY <3>2, <3>3, <3>4, <3>5
  <2>. QED
    BY <2>1, <2>3, <2>4 DEF OrderInv
<1>. QED
  BY <1>7, <1>8, <1>9, <1>10, <1>11, <1>13 DEF StreamInv

-----------------------------------------------------------------------------
(* Order.                                                                    *)

\* The invariant holds when nothing has happened.
LEMMA StreamInit == Init => StreamInv
<1>. SUFFICES ASSUME Init
              PROVE  StreamInv
  OBVIOUS
<1>1. /\ <<>> \in Seq(Messages) /\ <<>> \in Seq(Messages \union {Corrupt})
      /\ <<>> \in Seq(Conns) /\ Len(<<>>) = 0 /\ DOMAIN <<>> = {}
  OBVIOUS
<1>2. TypeOK
  BY <1>1, LinkAssumption DEF Init, TypeOK, Conns, Packets, Halves
<1>3. QueueInv
  BY <1>1 DEF Init, QueueInv, Halves
<1>4. SocketInv /\ SenderMatches
  BY <1>1 DEF Init, SocketInv, SenderMatches, Halves
<1>5. OrderInv /\ \A c \in DOMAIN conns : HoldsPairs(c)
  BY <1>1 DEF Init, OrderInv
<1>. QED
  BY <1>2, <1>3, <1>4, <1>5 DEF StreamInv

\* Every step keeps it.
LEMMA StreamStep == StreamInv /\ [Next]_vars => StreamInv'
<1>. SUFFICES ASSUME StreamInv, [Next]_vars
              PROVE  StreamInv'
  OBVIOUS
<1>1. CASE SendData
  BY <1>1, SendDataStep
<1>2. CASE DriveSendLoop
  <2>1. CASE WriteHalf
    <3>1. spc \in {"size", "data"}
      BY <2>1 DEF WriteHalf, Halves
    <3>. QED
      BY <2>1, <3>1, WriteSizeStep, WriteDataStep
  <2>. QED
    BY <1>2, <2>1, DequeueStep, SenderConnectsStep, SendErrorStep DEF DriveSendLoop
<1>3. CASE DriveRecvLoop
  <2>1. CASE ReceiverConnects
    <3>1. size = None /\ tries \in 0..Tries
      BY <2>1 DEF ReceiverConnects, StreamInv, SocketInv, TypeOK
    <3>. QED
      BY <2>1, <3>1, ReceiverTakes DEF ReceiverConnects
  <2>2. CASE ReadHalf
    <3>1. rpc \in {"size", "data"}
      BY <2>2 DEF ReadHalf, Halves
    <3>. QED
      BY <2>2, <3>1, ReadSizeStep, ReadDataStep
  <2>3. CASE ReadError
    <3>1. in # 0 /\ tries \in 0..Tries /\ resets' = resets /\ leaves' \in 0..MaxLeaves
      BY <2>3 DEF ReadError, AtEnd, StreamInv, TypeOK, faults
    <3>. QED
      BY <2>3, <3>1, ReceiverDrops DEF ReadError
  <2>4. CASE Reconnect
    <3>1. size = None /\ in = 0
      BY <2>4 DEF Reconnect, StreamInv, SocketInv
    <3>2. tries' \in 0..Tries /\ rpc' \in {"size", "drop"} /\ size' = size
      BY <2>4, LinkAssumption DEF Reconnect, StreamInv, TypeOK
    <3>. QED
      BY <2>4, <3>1, <3>2, ReceiverTakes DEF Reconnect
  <2>5. CASE StaleErrno
    BY <2>5, StaleErrnoStep
  <2>6. CASE Drop
    <3>1. in # 0 /\ tries' \in 0..Tries /\ resets' = resets /\ leaves' \in 0..MaxLeaves
      BY <2>6, LinkAssumption DEF Drop, StreamInv, SocketInv, TypeOK, faults
    <3>2. size' = None
      BY <2>6 DEF Drop, StreamInv, SocketInv
    <3>. QED
      BY <2>6, <3>1, <3>2, ReceiverDrops DEF Drop
  <2>. QED
    BY <1>3, <2>1, <2>2, <2>3, <2>4, <2>5, <2>6 DEF DriveRecvLoop
<1>4. CASE Reset
  BY <1>4, ResetStep
<1>5. CASE SenderLeaves
  BY <1>5, SenderLeavesStep
<1>6. CASE ReceiverLeaves
  <2>1. tries' \in 0..Tries /\ leaves' \in 0..MaxLeaves
    BY <1>6, LinkAssumption DEF ReceiverLeaves, StreamInv, TypeOK
  <2>. QED
    BY <1>6, <2>1, ReceiverDrops DEF ReceiverLeaves
<1>7. CASE UNCHANGED vars
  <2>1. QueueInv' /\ Done \subseteq Done'
    BY <1>7, QueueKept DEF StreamInv, vars, sender
  <2>2. OrderInv'
    BY <1>7, <2>1, OrderKept DEF StreamInv, vars, receiver, sockets
  <2>3. TypeOK'
    BY <1>7 DEF StreamInv, TypeOK, vars, sender, receiver, sockets, faults
  <2>4. \A c \in DOMAIN conns' : HoldsPairs(c)'
    BY <1>7, PairsKept DEF StreamInv, vars, receiver, sockets
  <2>5. SocketInv' /\ SenderMatches'
    BY <1>7 DEF StreamInv, SocketInv, SenderMatches, Half, vars, sender, receiver, sockets
  <2>. QED
    BY <2>1, <2>2, <2>3, <2>4, <2>5 DEF StreamInv
<1>. QED
  BY <1>1, <1>2, <1>3, <1>4, <1>5, <1>6, <1>7 DEF Next

-----------------------------------------------------------------------------
(* Nothing is lost while nothing is interrupted.                             *)

\* How many messages the sender has written.
LEMMA SentFacts ==
  ASSUME TypeOK, QueueInv
  PROVE  /\ Sent \in Nat /\ Sent <= Len(accepted)
         /\ Len(accepted) \in Nat /\ Len(queue) \in Nat /\ Len(delivered) \in Nat
         /\ DOMAIN accepted = 1..Len(accepted) /\ DOMAIN queue = 1..Len(queue)
         /\ DOMAIN delivered = 1..Len(delivered)
         /\ message = None => Sent = Len(accepted) - Len(queue)
         /\ message # None => Sent = Len(accepted) - Len(queue) - 1
<1>1. /\ Len(accepted) \in Nat /\ Len(queue) \in Nat /\ Len(delivered) \in Nat
      /\ DOMAIN accepted = 1..Len(accepted) /\ DOMAIN queue = 1..Len(queue)
      /\ DOMAIN delivered = 1..Len(delivered)
  BY DEF TypeOK
<1>2. Len(Hand(message)) = IF message = None THEN 0 ELSE 1
  BY DEF Hand
<1>3. message # None => Len(accepted) - Len(queue) >= 1
  BY <1>1 DEF QueueInv
<1>4. Len(queue) <= Len(accepted)
  BY DEF QueueInv
<1>5. message = None => Sent = Len(accepted) - Len(queue)
  BY <1>1, <1>2 DEF Sent
<1>6. message # None => Sent = Len(accepted) - Len(queue) - 1
  BY <1>2 DEF Sent
<1>7. Sent \in Nat /\ Sent <= Len(accepted)
  BY <1>1, <1>3, <1>4, <1>5, <1>6
<1>. QED
  BY <1>1, <1>5, <1>6, <1>7

\* Sequence e is d, of l halves, and one more.
Longer(d, e, l) ==
  DOMAIN d = 1..l /\ DOMAIN e = 1..(l + 1) /\ \A i \in 1..l : e[i] = d[i]

\* The messages stay where they are.
LEMMA BodiesKept ==
  ASSUME NEW d, NEW e, NEW l \in Nat, Longer(d, e, l), NEW b, NEW n, Alternates(d, b, n)
  PROVE  \A k \in 1..n : /\ 2 * k - b \in 1..l /\ 2 * k - b \in DOMAIN e
                         /\ e[2 * k - b] = d[2 * k - b] /\ e[2 * k - b].half = "data"
<1>1. \A k \in 1..n : 2 * k - b \in 1..l /\ d[2 * k - b].half = "data"
  BY DEF Alternates, Longer
<1>2. \A k \in 1..n : 2 * k - b \in 1..(l + 1) /\ e[2 * k - b] = d[2 * k - b]
  BY <1>1 DEF Longer
<1>. QED
  BY <1>1, <1>2 DEF Longer

\* A size at the end adds no message.
LEMMA SizeAppended ==
  ASSUME NEW d, NEW e, NEW l \in Nat, Longer(d, e, l), e[l + 1].half # "data",
         NEW b, NEW n, Alternates(d, b, n)
  PROVE  Alternates(e, b, n)
<1>1. ASSUME NEW i \in DOMAIN e, e[i].half = "data"
      PROVE  \E k \in 1..n : i = 2 * k - b
  BY <1>1 DEF Alternates, Longer
<1>. QED
  BY <1>1, BodiesKept DEF Alternates

\* The data of a message at the end come one place after its size.
LEMMA DataAppended ==
  ASSUME NEW d, NEW e, NEW l \in Nat, Longer(d, e, l), e[l + 1].half = "data",
         NEW b \in Int, NEW n \in Nat, Alternates(d, b, n), l + 1 = 2 * (n + 1) - b
  PROVE  Alternates(e, b, n + 1)
<1>1. \A k \in 1..(n + 1) : k \in 1..n \/ k = n + 1
  OBVIOUS
<1>2. DOMAIN e = 1..(l + 1) /\ DOMAIN d = 1..l /\ \A i \in 1..l : e[i] = d[i]
  BY DEF Longer
<1>3. ASSUME NEW i \in DOMAIN e, e[i].half = "data"
      PROVE  \E k \in 1..(n + 1) : i = 2 * k - b
  <2>1. CASE i \in 1..l
    <3>1. PICK k \in 1..n : i = 2 * k - b
      BY <1>2, <1>3, <2>1 DEF Alternates
    <3>. QED
      BY <3>1
  <2>2. CASE i = l + 1
    BY <2>2
  <2>. QED
    BY <1>2, <2>1, <2>2
<1>4. ASSUME NEW k \in 1..(n + 1)
      PROVE  2 * k - b \in DOMAIN e /\ e[2 * k - b].half = "data"
  <2>1. CASE k \in 1..n
    <3>1. 2 * k - b \in 1..l /\ d[2 * k - b].half = "data"
      BY <1>2, <2>1 DEF Alternates
    <3>. QED
      BY <1>2, <3>1
  <2>2. CASE k = n + 1
    <3>1. 2 * k - b = l + 1
      BY <2>2
    <3>. QED
      BY <1>2, <3>1
  <2>. QED
    BY <1>1, <2>1, <2>2
<1>. QED
  BY <1>3, <1>4 DEF Alternates

\* A size at the front is taken.
LEMMA SizeTaken ==
  ASSUME NEW d, NEW e, NEW l \in Nat, DOMAIN d = 1..l, DOMAIN e = 1..(l - 1),
         \A i \in 1..(l - 1) : e[i] = d[i + 1], NEW n \in Nat, Alternates(d, 0, n)
  PROVE  Alternates(e, 1, n) /\ \A k \in 1..n : e[2 * k - 1] = d[2 * k - 0]
<1>1. \A k \in 1..n : 2 * k - 0 \in 1..l /\ d[2 * k - 0].half = "data"
  BY DEF Alternates
<1>2. \A k \in 1..n : 2 * k - 1 \in 1..(l - 1) /\ e[2 * k - 1] = d[2 * k - 0]
  <2>. TAKE k \in 1..n
  <2>1. 2 * k - 1 \in 1..(l - 1) /\ (2 * k - 1) + 1 = 2 * k - 0
    BY <1>1
  <2>. QED
    BY <2>1
<1>3. ASSUME NEW i \in DOMAIN e, e[i].half = "data"
      PROVE  \E k \in 1..n : i = 2 * k - 1
  <2>1. i + 1 \in DOMAIN d /\ d[i + 1].half = "data" /\ i \in Nat
    BY <1>3
  <2>2. PICK k \in 1..n : i + 1 = 2 * k - 0
    BY <2>1 DEF Alternates
  <2>. QED
    BY <2>1, <2>2
<1>. QED
  BY <1>1, <1>2, <1>3 DEF Alternates

\* The data of the first message are taken.
LEMMA DataTaken ==
  ASSUME NEW d, NEW e, NEW l \in Nat, l > 0, DOMAIN d = 1..l, DOMAIN e = 1..(l - 1),
         \A i \in 1..(l - 1) : e[i] = d[i + 1], d[1].half = "data",
         NEW n \in Nat, Alternates(d, 1, n)
  PROVE  /\ n > 0 /\ Alternates(e, 0, n - 1)
         /\ \A k \in 1..(n - 1) : e[2 * k - 0] = d[2 * (k + 1) - 1]
<1>1. n > 0
  BY DEF Alternates
<1>2. \A k \in 1..n : 2 * k - 1 \in 1..l /\ d[2 * k - 1].half = "data"
  BY DEF Alternates
<1>3. ASSUME NEW k \in 1..(n - 1)
      PROVE  /\ 2 * k - 0 \in 1..(l - 1) /\ e[2 * k - 0] = d[2 * (k + 1) - 1]
             /\ e[2 * k - 0].half = "data"
  <2>1. k + 1 \in 1..n
    OBVIOUS
  <2>2. 2 * (k + 1) - 1 \in 1..l /\ d[2 * (k + 1) - 1].half = "data"
    BY <1>2, <2>1
  <2>3. 2 * k - 0 \in 1..(l - 1) /\ (2 * k - 0) + 1 = 2 * (k + 1) - 1
    BY <2>2
  <2>. QED
    BY <2>2, <2>3
<1>4. ASSUME NEW i \in DOMAIN e, e[i].half = "data"
      PROVE  \E k \in 1..(n - 1) : i = 2 * k - 0
  <2>1. i + 1 \in DOMAIN d /\ d[i + 1].half = "data" /\ i \in Nat /\ i > 0
    BY <1>4
  <2>2. PICK k \in 1..n : i + 1 = 2 * k - 1
    BY <2>1 DEF Alternates
  <2>3. k > 1 /\ k \in Nat /\ k <= n
    BY <2>1, <2>2
  <2>4. k - 1 \in 1..(n - 1)
    BY <2>3
  <2>5. 2 * (k - 1) - 0 = 2 * k - 2 /\ i = 2 * k - 2
    BY ONLY <2>1, <2>2, <2>3
  <2>. QED
    BY <2>4, <2>5
<1>. QED
  BY <1>1, <1>3, <1>4 DEF Alternates

\* The queue and the ends change, the connection does not.
LEMMA AccountsKept ==
  ASSUME StreamInv, StreamInv', Accounts, conns' = conns, delivered' = delivered,
         rpc' = rpc, Sent' = Sent, \A k \in 1..Sent : accepted'[k] = accepted[k],
         message' # None => accepted'[Sent + 1] = message'
  PROVE  Accounts'
<1>1. /\ Sent \in Nat /\ Len(delivered) \in Nat /\ DOMAIN delivered = 1..Len(delivered)
  BY SentFacts DEF StreamInv
<1>2. Underway' = Underway /\ Behind' = Behind /\ Underway = Sent - Len(delivered)
  BY DEF Underway, Behind
<1>3. Underway \in Nat
  BY DEF Accounts
<1>4. \A k \in DOMAIN delivered : accepted'[k] = accepted[k]
  BY <1>1, <1>2, <1>3
<1>5. \A k \in 1..Underway : accepted'[Len(delivered) + k] = accepted[Len(delivered) + k]
  BY <1>1, <1>2, <1>3
<1>. QED
  BY <1>2, <1>3, <1>4, <1>5 DEF Accounts

\* The connection is made.
LEMMA AccountsStart ==
  ASSUME StreamInv, StreamInv', Accounts, conns = <<>>, conns' = Append(conns, NewConn),
         UNCHANGED <<delivered, rpc, accepted, queue, message>>
  PROVE  Accounts'
<1>1. Underway' = Underway /\ Sent' = Sent /\ Underway = 0
  BY DEF Underway, Sent, Hand, Accounts
<1>2. rpc # "data"
  BY DEF StreamInv, SocketInv, TypeOK
<1>3. conns'[1].data = <<>>
  BY DEF NewConn
<1>4. Alternates(conns'[1].data, Behind', 0)
  BY <1>3 DEF Alternates
<1>. QED
  BY <1>1, <1>4 DEF Accounts

\* In the first connection, with nothing interrupted.
LEMMA OneConnFacts ==
  ASSUME StreamInv, OneConn
  PROVE  /\ in \in {0, 1} /\ out \in {0, 1} /\ Len(conns) \in {0, 1}
         /\ in # 0 \/ out # 0 => conns # <<>>
         /\ conns = <<>> <=> Len(conns) = 0
         /\ conns # <<>> => Len(conns) = 1 /\ DOMAIN conns = {1}
         /\ DOMAIN conns = 1..Len(conns) /\ conns \in Seq(Conns)
<1>1. /\ conns \in Seq(Conns) /\ Len(conns) \in Nat /\ DOMAIN conns = 1..Len(conns)
      /\ out \in 0..Len(conns) /\ in \in 0..Len(conns)
  BY DEF StreamInv, TypeOK, Conns, Packets
<1>2. Len(conns) \in {0, 1}
  BY <1>1 DEF OneConn
<1>3. conns = <<>> <=> Len(conns) = 0
  BY <1>1, EmptySeq
<1>. QED
  BY <1>1, <1>2, <1>3

\* SendData.
LEMMA SendDataLossless ==
  ASSUME StreamInv, StreamInv', OneConn, Accounts, SendData
  PROVE  OneConn' /\ Accounts'
<1>1. /\ UNCHANGED <<client, message, spc, receiver, sockets, faults>>
      /\ \/ queue' = Append(queue, next') /\ accepted' = Append(accepted, next')
         \/ UNCHANGED <<queue, accepted>>
  BY DEF SendData
<1>2. OneConn'
  BY <1>1 DEF OneConn, receiver, sockets
<1>3. /\ Sent \in Nat /\ Sent <= Len(accepted) /\ Len(accepted) \in Nat /\ Len(queue) \in Nat
      /\ message # None => Sent = Len(accepted) - Len(queue) - 1
  BY SentFacts DEF StreamInv
<1>4. /\ \A k \in 1..Len(accepted) : accepted'[k] = accepted[k]
      /\ Sent' = Sent
  <2>1. CASE UNCHANGED <<queue, accepted>>
    BY <1>1, <2>1 DEF Sent
  <2>2. CASE queue' = Append(queue, next') /\ accepted' = Append(accepted, next')
    <3>1. accepted \in Seq(Messages) /\ queue \in Seq(Messages)
      BY DEF StreamInv, TypeOK
    <3>2. Len(accepted') = Len(accepted) + 1 /\ Len(queue') = Len(queue) + 1
      BY <2>2, <3>1
    <3>3. Hand(message') = Hand(message) /\ Len(Hand(message)) \in Nat
      BY <1>1 DEF Hand
    <3>4. Sent' = Sent
      BY <1>3, <3>2, <3>3 DEF Sent
    <3>. QED
      BY <2>2, <3>1, <3>4
  <2>. QED
    BY <1>1, <2>1, <2>2
<1>5. message # None => Sent + 1 \in 1..Len(accepted)
  BY <1>3
<1>6. \A k \in 1..Sent : accepted'[k] = accepted[k]
  BY <1>3, <1>4
<1>7. message' # None => accepted'[Sent + 1] = message'
  BY <1>1, <1>4, <1>5 DEF Accounts
<1>. QED
  BY <1>1, <1>2, <1>4, <1>6, <1>7, AccountsKept DEF receiver, sockets

\* The sending thread takes a message.
LEMMA DequeueLossless ==
  ASSUME StreamInv, StreamInv', OneConn, Accounts, Dequeue
  PROVE  OneConn' /\ Accounts'
<1>1. /\ UNCHANGED <<client, next, accepted, receiver, sockets, faults>>
      /\ spc = "idle" /\ queue # <<>> /\ message' = Head(queue) /\ queue' = Tail(queue)
  BY DEF Dequeue
<1>2. message = None /\ out # 0
  BY <1>1 DEF StreamInv, QueueInv, SocketInv, Halves
<1>3. OneConn'
  BY <1>1, <1>2 DEF OneConn, receiver, sockets
<1>4. /\ Sent \in Nat /\ Len(accepted) \in Nat /\ Len(queue) \in Nat
      /\ DOMAIN queue = 1..Len(queue) /\ Sent = Len(accepted) - Len(queue)
  BY <1>2, SentFacts DEF StreamInv
<1>5. Len(queue') = Len(queue) - 1 /\ Head(queue) = queue[1] /\ 1 \in DOMAIN queue
  BY <1>1, <1>4, TailFacts DEF StreamInv, TypeOK
<1>6. message' # None
  <2>1. queue[1] \in Messages
    <3>1. queue \in Seq(Messages)
      BY DEF StreamInv, TypeOK
    <3>. QED
      BY <1>5, <3>1
  <2>. QED
    BY <1>1, <1>5, <2>1, LinkAssumption DEF Messages, None
<1>7. Sent' = Sent
  <2>1. Len(Hand(message')) = 1
    BY <1>6 DEF Hand
  <2>2. Sent' = Len(accepted') - Len(queue') - Len(Hand(message'))
    BY DEF Sent
  <2>. QED
    BY <1>1, <1>4, <1>5, <2>1, <2>2
<1>8. accepted'[Sent + 1] = message'
  BY <1>1, <1>4, <1>5 DEF StreamInv, QueueInv
<1>. QED
  BY <1>1, <1>3, <1>7, <1>8, AccountsKept DEF receiver, sockets

\* The sender's first connection.
LEMMA SenderConnectsLossless ==
  ASSUME StreamInv, StreamInv', OneConn, Accounts, SenderConnects
  PROVE  OneConn' /\ Accounts'
<1>1. /\ UNCHANGED <<client, next, accepted, queue, message, receiver, in, faults>>
      /\ out = 0 /\ spc = "start" /\ spc' = "idle"
  BY DEF SenderConnects, StreamInv, SocketInv, OneConn
<1>2. CASE client = "sender"
  <2>1. conns = <<>> /\ conns' = Append(conns, NewConn) /\ out' = Len(conns) + 1
    BY <1>1, <1>2 DEF OneConn, SenderConnects, NewSocket
  <2>2. Accounts'
    BY <1>1, <2>1, AccountsStart DEF receiver
  <2>3. Len(conns') = 1 /\ DOMAIN conns' = {1} /\ conns'[1] = NewConn /\ out' = 1
    BY <2>1
  <2>. QED
    BY <1>1, <1>2, <2>2, <2>3 DEF OneConn, receiver, NewConn
<1>3. CASE client = "receiver"
  <2>1. conns' = conns
    BY <1>3 DEF SenderConnects, NewSocket
  <2>2. OneConn'
    BY <1>1, <1>3, <2>1 DEF OneConn, receiver
  <2>3. Sent' = Sent
    BY <1>1 DEF Sent
  <2>4. message' # None => accepted'[Sent + 1] = message'
    BY <1>1 DEF Accounts
  <2>. QED
    BY <1>1, <2>1, <2>2, <2>3, <2>4, AccountsKept DEF receiver
<1>. QED
  BY <1>2, <1>3 DEF StreamInv, TypeOK, Ends

\* The receiver's first connection.
LEMMA ReceiverConnectsLossless ==
  ASSUME StreamInv, StreamInv', OneConn, Accounts, ReceiverConnects
  PROVE  OneConn' /\ Accounts'
<1>1. /\ UNCHANGED <<client, sender, rpc, tries, size, delivered, out, faults>>
      /\ in = 0
  BY DEF ReceiverConnects
<1>2. CASE client = "receiver"
  <2>1. conns = <<>> /\ conns' = Append(conns, NewConn) /\ in' = Len(conns) + 1
    BY <1>1, <1>2 DEF OneConn, ReceiverConnects, NewSocket
  <2>2. Accounts'
    BY <1>1, <2>1, AccountsStart DEF sender
  <2>3. Len(conns') = 1 /\ DOMAIN conns' = {1} /\ conns'[1] = NewConn /\ in' = 1
    BY <2>1
  <2>. QED
    BY <1>1, <1>2, <2>2, <2>3 DEF OneConn, sender, NewConn
<1>3. CASE client = "sender"
  <2>1. conns' = conns
    BY <1>3 DEF ReceiverConnects, NewSocket
  <2>2. OneConn'
    BY <1>1, <1>3, <2>1 DEF OneConn, sender
  <2>3. Sent' = Sent
    BY <1>1 DEF Sent, sender
  <2>4. message' # None => accepted'[Sent + 1] = message'
    BY <1>1 DEF Accounts, sender
  <2>. QED
    BY <1>1, <2>1, <2>2, <2>3, <2>4, AccountsKept DEF sender
<1>. QED
  BY <1>2, <1>3 DEF StreamInv, TypeOK, Ends

\* The sender writes the size of its message.
LEMMA WriteSizeLossless ==
  ASSUME StreamInv, StreamInv', OneConn, Accounts, WriteHalf, spc = "size"
  PROVE  OneConn' /\ Accounts'
<1>. DEFINE h == [half |-> "size", of |-> message]
            d == conns[1].data
            e == conns'[1].data
<1>1. /\ UNCHANGED <<client, next, accepted, queue, message, receiver, taken, out, in, faults>>
      /\ spc' = "data" /\ Puts(h) /\ out # 0
  BY DEF WriteHalf, Puts
<1>2. h \in Packets
  BY DEF StreamInv, QueueInv, TypeOK, Packets, Halves
<1>3. out = 1 /\ conns # <<>> /\ DOMAIN conns = {1} /\ Len(conns) = 1
  BY <1>1, OneConnFacts
<1>4. PICK l \in Nat :
        /\ DOMAIN d = 1..l /\ DOMAIN e = 1..(l + 1)
        /\ e[l + 1] = h /\ \A i \in 1..l : e[i] = d[i]
        /\ conns'[1].broken = conns[1].broken /\ conns'[1].closed = conns[1].closed
        /\ Len(conns') = 1 /\ DOMAIN conns' = {1} /\ conns' # <<>>
  <2>. HIDE DEF h
  <2>. QED
    BY <1>1, <1>2, <1>3, Written
<1>5. OneConn'
  BY <1>1, <1>3, <1>4 DEF OneConn, receiver
<1>6. Underway' = Underway /\ Sent' = Sent /\ Behind' = Behind
  BY <1>1 DEF Underway, Sent, Behind, receiver
<1>7. /\ Alternates(e, Behind, Underway)
      /\ \A k \in 1..Underway : e[2 * k - Behind] = d[2 * k - Behind]
  <2>1. Alternates(d, Behind, Underway)
    BY <1>3 DEF Accounts
  <2>2. Longer(d, e, l) /\ e[l + 1].half # "data"
    BY <1>4 DEF Longer
  <2>. HIDE DEF d, e
  <2>3. Alternates(e, Behind, Underway)
    BY <2>1, <2>2, SizeAppended
  <2>4. \A k \in 1..Underway : e[2 * k - Behind] = d[2 * k - Behind]
    BY <2>1, <2>2, BodiesKept
  <2>. QED
    BY <2>3, <2>4
<1>8. \A k \in 1..Underway : e[2 * k - Behind].of = accepted[Len(delivered) + k]
  BY <1>3, <1>7 DEF Accounts
<1>. QED
  BY <1>1, <1>4, <1>5, <1>6, <1>7, <1>8 DEF Accounts, receiver

\* Where the sender writes the data of its message.
LEMMA NextBody ==
  ASSUME StreamInv, OneConn, Accounts, out = 1, spc = "data",
         NEW l \in Nat, DOMAIN conns[1].data = 1..l, Len(conns[1].data) = l
  PROVE  l + 1 = 2 * (Underway + 1) - Behind
<1>. DEFINE d == conns[1].data
            b == Behind
            n == Underway
<1>1. /\ conns # <<>> /\ ~conns[1].broken /\ in \in {0, 1} /\ HoldsPairs(1)
  BY OneConnFacts DEF OneConn, StreamInv
<1>2. Alternates(d, b, n) /\ n \in Nat /\ b \in {0, 1}
  BY <1>1 DEF Accounts, Behind
<1>3. \A k \in 1..n : 2 * k - b \in 1..l /\ d[2 * k - b].half = "data"
  BY <1>2 DEF Alternates
<1>4. \A i \in 1..l : d[i].half = "data" => \E k \in 1..n : i = 2 * k - b
  BY <1>2 DEF Alternates
<1>5. rpc = "data" => in = 1
  BY <1>1 DEF StreamInv, SocketInv
<1>6. CASE l = 0
  <2>1. d = <<>> /\ rpc = "data"
    <3>1. d = <<>>
      BY <1>6, EmptySeq, ConnType, <1>1, OneConnFacts DEF StreamInv
    <3>. QED
      BY <1>1, <3>1 DEF StreamInv, SenderMatches, Half
  <2>2. b = 1
    BY <2>1 DEF Behind
  <2>3. n = 0
    BY <1>2, <1>3, <1>6
  <2>. QED
    BY <1>6, <2>2, <2>3
<1>7. CASE l > 0
  <2>1. d # <<>> /\ d[l].half = "size"
    BY <1>1, <1>7 DEF StreamInv, SenderMatches
  <2>2. CASE l = 1
    <3>1. b = 0
      BY <1>1, <1>5, <2>1, <2>2 DEF HoldsPairs, Half, Behind
    <3>2. n = 0
      BY <1>2, <1>3, <2>2, <3>1
    <3>. QED
      BY <2>2, <3>1, <3>2
  <2>3. CASE l > 1
    <3>1. l - 1 \in 1..(l - 1) /\ l - 1 \in 1..l /\ (l - 1) + 1 = l
      BY <2>3
    <3>2. d[l - 1].half # "size"
      <4>1. IF d[l - 1].half = "size"
            THEN d[(l - 1) + 1] = [half |-> "data", of |-> d[l - 1].of]
            ELSE d[(l - 1) + 1].half = "size"
        BY <1>1, <3>1 DEF HoldsPairs
      <4>. QED
        BY <2>1, <3>1, <4>1
    <3>3. d[l - 1].half = "data"
      <4>1. d[l - 1] \in Packets
        BY <1>1, <3>1, OneConnFacts, ConnType DEF StreamInv
      <4>. QED
        BY <3>2, <4>1 DEF Packets, Halves
    <3>4. PICK k \in 1..n : l - 1 = 2 * k - b
      BY <1>4, <3>1, <3>3
    <3>5. 2 * n - b \in 1..l /\ d[2 * n - b].half = "data"
      BY <1>2, <1>3, <3>4
    <3>6. 2 * n - b # l
      BY <2>1, <3>5
    <3>7. 2 * n - b <= l - 1
      BY <1>2, <3>5, <3>6
    <3>8. k = n
      BY <1>2, <3>4, <3>7
    <3>. QED
      BY <1>2, <3>4, <3>8
  <2>. QED
    BY <1>7, <2>2, <2>3
<1>. QED
  BY <1>6, <1>7

\* The sender writes the data of its message, and is done with it.
LEMMA WriteDataLossless ==
  ASSUME StreamInv, StreamInv', OneConn, Accounts, WriteHalf, spc = "data"
  PROVE  OneConn' /\ Accounts'
<1>. DEFINE h == [half |-> "data", of |-> message]
            d == conns[1].data
            e == conns'[1].data
            b == Behind
            n == Underway
<1>1. /\ UNCHANGED <<client, next, accepted, queue, receiver, taken, out, in, faults>>
      /\ spc' = "idle" /\ message' = None /\ Puts(h) /\ out # 0
  BY DEF WriteHalf, Puts
<1>2. h \in Packets /\ message # None
  BY DEF StreamInv, QueueInv, TypeOK, Packets, Halves
<1>3. out = 1 /\ conns # <<>> /\ DOMAIN conns = {1} /\ Len(conns) = 1
  BY <1>1, OneConnFacts
<1>4. PICK l \in Nat :
        /\ l = Len(d) /\ DOMAIN d = 1..l /\ DOMAIN e = 1..(l + 1)
        /\ e[l + 1] = h /\ \A i \in 1..l : e[i] = d[i]
        /\ conns'[1].broken = conns[1].broken /\ conns'[1].closed = conns[1].closed
        /\ Len(conns') = 1 /\ DOMAIN conns' = {1} /\ conns' # <<>>
  <2>. HIDE DEF h
  <2>. QED
    BY <1>1, <1>2, <1>3, Written
<1>5. OneConn'
  BY <1>1, <1>3, <1>4 DEF OneConn, receiver
<1>6. /\ Sent \in Nat /\ Sent' = Sent + 1 /\ n' = n + 1 /\ b' = b /\ n \in Nat
      /\ Sent = Len(delivered) + n /\ Len(delivered) \in Nat
  <2>1. Hand(message') = <<>> /\ Len(Hand(message)) = 1
    BY <1>1, <1>2 DEF Hand
  <2>2. Sent \in Nat /\ Len(accepted) \in Nat /\ Len(queue) \in Nat /\ Len(delivered) \in Nat
    BY SentFacts DEF StreamInv
  <2>3. Sent' = Sent + 1
    BY <1>1, <2>1, <2>2 DEF Sent
  <2>4. n \in Nat
    BY DEF Accounts
  <2>. QED
    BY <1>1, <2>2, <2>3, <2>4 DEF Underway, Behind, receiver
<1>7. l + 1 = 2 * (n + 1) - b
  BY <1>3, <1>4, NextBody
<1>8. Alternates(e, b, n + 1) /\ \A k \in 1..n : e[2 * k - b] = d[2 * k - b]
  <2>1. Alternates(d, b, n)
    BY <1>3 DEF Accounts
  <2>2. e[l + 1].half = "data"
    BY <1>4
  <2>. HIDE DEF d, e, b, n
  <2>3. Longer(d, e, l) /\ n \in Nat
    BY <1>4, <1>6 DEF Longer
  <2>4. PICK v \in Int, m \in Nat : v = b /\ m = n
    BY <1>6 DEF b, Behind
  <2>5. Alternates(d, v, m) /\ l + 1 = 2 * (m + 1) - v /\ Longer(d, e, l)
    BY <1>7, <2>1, <2>3, <2>4
  <2>6. Alternates(e, v, m + 1)
    BY ONLY l \in Nat, v \in Int, m \in Nat, <2>2, <2>5, DataAppended
  <2>7. \A k \in 1..n : e[2 * k - b] = d[2 * k - b]
    BY <2>1, <2>3, BodiesKept
  <2>. QED
    BY <2>4, <2>6, <2>7
<1>9. \A k \in 1..(n + 1) : e[2 * k - b].of = accepted[Len(delivered) + k]
  <2>. TAKE k \in 1..(n + 1)
  <2>1. CASE k \in 1..n
    BY <1>3, <1>8, <2>1 DEF Accounts
  <2>2. CASE k = n + 1
    <3>1. e[2 * k - b].of = message
      BY <1>4, <1>7, <2>2
    <3>2. accepted[Sent + 1] = message
      BY <1>2 DEF Accounts
    <3>3. Len(delivered) + k = Sent + 1
      BY <1>6, <2>2
    <3>. QED
      BY <3>1, <3>2, <3>3
  <2>. QED
    BY <1>6, <2>1, <2>2
<1>10. \A k \in DOMAIN delivered' : delivered'[k] = accepted'[k]
  BY <1>1 DEF Accounts, receiver
<1>. HIDE DEF h, d
<1>. QED
  BY <1>1, <1>4, <1>5, <1>6, <1>8, <1>9, <1>10 DEF Accounts, receiver

\* The receiver reads the size of a message.
LEMMA ReadSizeLossless ==
  ASSUME StreamInv, StreamInv', OneConn, Accounts, ReadHalf, rpc = "size"
  PROVE  OneConn' /\ Accounts'
<1>. DEFINE d == conns[1].data
            e == conns'[1].data
            n == Underway
<1>1. /\ in # 0 /\ conns[in].data # <<>> /\ Takes
      /\ UNCHANGED <<client, sender, taken, out, in, faults>>
  BY DEF ReadHalf, Takes
<1>2. in = 1 /\ conns # <<>> /\ DOMAIN conns = {1} /\ Len(conns) = 1
  BY <1>1, OneConnFacts
<1>3. PICK l \in Nat :
        /\ DOMAIN d = 1..l /\ DOMAIN e = 1..(l - 1)
        /\ \A i \in 1..(l - 1) : e[i] = d[i + 1]
        /\ Head(d) = d[1]
        /\ conns'[1].broken = conns[1].broken /\ conns'[1].closed = conns[1].closed
        /\ Len(conns') = 1 /\ DOMAIN conns' = {1} /\ conns' # <<>>
  BY <1>1, <1>2, Taken
<1>4. d[1].half = "size"
  BY <1>1, <1>2, <1>3 DEF StreamInv, HoldsPairs, Half
<1>5. rpc' = "data" /\ delivered' = delivered
  BY <1>2, <1>3, <1>4 DEF ReadHalf
<1>6. OneConn'
  BY <1>1, <1>2, <1>3, <1>5 DEF OneConn, sender, Halves
<1>7. n' = n /\ Sent' = Sent /\ Behind = 0 /\ Behind' = 1 /\ n \in Nat
  BY <1>1, <1>5 DEF Underway, Sent, Behind, sender, Accounts
<1>8. Alternates(e, 1, n) /\ \A k \in 1..n : e[2 * k - 1] = d[2 * k - 0]
  <2>1. Alternates(d, 0, n)
    BY <1>2, <1>7 DEF Accounts
  <2>. HIDE DEF d, e, n
  <2>2. /\ DOMAIN d = 1..l /\ DOMAIN e = 1..(l - 1) /\ n \in Nat
        /\ \A i \in 1..(l - 1) : e[i] = d[i + 1]
    BY <1>3, <1>7
  <2>. QED
    BY ONLY l \in Nat, <2>1, <2>2, SizeTaken
<1>9. \A k \in 1..n : e[2 * k - 1].of = accepted[Len(delivered) + k]
  BY <1>2, <1>7, <1>8 DEF Accounts
<1>. QED
  BY <1>1, <1>3, <1>5, <1>6, <1>7, <1>8, <1>9 DEF Accounts, sender

\* The receiver reads the data of a message: it is the next accepted one.
LEMMA ReadDataLossless ==
  ASSUME StreamInv, StreamInv', OneConn, Accounts, ReadHalf, rpc = "data"
  PROVE  OneConn' /\ Accounts'
<1>. DEFINE d == conns[1].data
            e == conns'[1].data
            n == Underway
            m == Len(delivered)
<1>1. /\ in # 0 /\ conns[in].data # <<>> /\ Takes
      /\ UNCHANGED <<client, sender, taken, out, in, faults>>
  BY DEF ReadHalf, Takes
<1>2. in = 1 /\ conns # <<>> /\ DOMAIN conns = {1} /\ Len(conns) = 1
  BY <1>1, OneConnFacts
<1>3. PICK l \in Nat :
        /\ l > 0 /\ DOMAIN d = 1..l /\ DOMAIN e = 1..(l - 1)
        /\ \A i \in 1..(l - 1) : e[i] = d[i + 1]
        /\ Head(d) = d[1]
        /\ conns'[1].broken = conns[1].broken /\ conns'[1].closed = conns[1].closed
        /\ Len(conns') = 1 /\ DOMAIN conns' = {1} /\ conns' # <<>>
  BY <1>1, <1>2, Taken
<1>4. d[1] = [half |-> "data", of |-> size]
  BY <1>1, <1>2, <1>3 DEF StreamInv, HoldsPairs, Half
<1>5. d[1].half = "data" /\ d[1].of = size
  BY <1>4
<1>6. rpc' = "size" /\ delivered' = Append(delivered, d[1].of)
  BY <1>2, <1>3, <1>5 DEF ReadHalf
<1>7. OneConn'
  BY <1>1, <1>2, <1>3, <1>6 DEF OneConn, sender, Halves
<1>8. n \in Nat /\ Behind = 1 /\ Behind' = 0 /\ Sent' = Sent
  BY <1>1, <1>6 DEF Sent, Behind, sender, Accounts
<1>9. /\ Alternates(d, 1, n)
      /\ \A k \in 1..n : d[2 * k - 1].of = accepted[m + k]
  BY <1>2, <1>8 DEF Accounts
<1>10. /\ n > 0 /\ Alternates(e, 0, n - 1)
       /\ \A k \in 1..(n - 1) : e[2 * k - 0] = d[2 * (k + 1) - 1]
  <2>. HIDE DEF d, e, n
  <2>1. /\ DOMAIN d = 1..l /\ DOMAIN e = 1..(l - 1) /\ n \in Nat /\ l > 0
        /\ \A i \in 1..(l - 1) : e[i] = d[i + 1]
        /\ d[1].half = "data" /\ Alternates(d, 1, n)
    BY <1>3, <1>5, <1>8, <1>9
  <2>. QED
    BY ONLY l \in Nat, <2>1, DataTaken
<1>11. /\ m \in Nat /\ Len(delivered') = m + 1 /\ delivered'[m + 1] = d[1].of
       /\ DOMAIN delivered = 1..m /\ DOMAIN delivered' = 1..(m + 1)
       /\ \A k \in 1..m : delivered'[k] = delivered[k]
  <2>1. delivered \in Seq(Messages \union {Corrupt})
    BY DEF StreamInv, TypeOK
  <2>. HIDE DEF d
  <2>. QED
    BY <1>6, <2>1
<1>12. n' = n - 1
  BY <1>1, <1>8, <1>11, SentFacts DEF Underway, StreamInv
<1>13. d[1].of = accepted[m + 1]
  <2>1. 1 \in 1..n /\ 2 * 1 - 1 = 1
    BY <1>8, <1>10
  <2>2. d[2 * 1 - 1].of = accepted[m + 1]
    BY <1>9, <2>1
  <2>. QED
    BY <2>1, <2>2
<1>14. \A k \in 1..(n - 1) : e[2 * k - 0].of = accepted[(m + 1) + k]
  <2>. TAKE k \in 1..(n - 1)
  <2>1. k + 1 \in 1..n /\ m + (k + 1) = (m + 1) + k
    BY <1>8, <1>11
  <2>2. d[2 * (k + 1) - 1].of = accepted[m + (k + 1)]
    BY <1>9, <2>1
  <2>. QED
    BY <1>10, <2>1, <2>2
<1>15. \A k \in DOMAIN delivered' : delivered'[k] = accepted[k]
  <2>1. \A k \in 1..(m + 1) : k \in 1..m \/ k = m + 1
    BY <1>11
  <2>2. \A k \in 1..m : delivered[k] = accepted[k]
    BY <1>11 DEF Accounts
  <2>. QED
    BY <1>11, <1>13, <2>1, <2>2
<1>16. n - 1 \in Nat
  BY <1>8, <1>10
<1>17. accepted' = accepted /\ message' = message
  BY <1>1 DEF sender
<1>18. message' # None => accepted'[Sent' + 1] = message'
  BY <1>8, <1>17 DEF Accounts
<1>. HIDE DEF d, e, n, m
<1>19. Underway' = n - 1 /\ conns'[1].data = e /\ Len(delivered') = m + 1
  BY <1>11, <1>12 DEF n, m, e
<1>20. /\ Alternates(conns'[1].data, Behind', Underway')
       /\ \A k \in 1..Underway' :
            conns'[1].data[2 * k - Behind'].of = accepted'[Len(delivered') + k]
  BY <1>8, <1>10, <1>14, <1>17, <1>19
<1>. QED
  BY <1>3, <1>7, <1>15, <1>16, <1>17, <1>18, <1>19, <1>20 DEF Accounts

\* Every step without an interruption keeps what is accounted for.
LEMMA LosslessStep == StreamInv /\ StreamInv' /\ Lossless /\ [Next]_vars => Lossless'
<1>. SUFFICES ASSUME StreamInv, StreamInv', Lossless, [Next]_vars, resets' = 0, leaves' = 0
              PROVE  OneConn' /\ Accounts'
  BY DEF Lossless
<1>1. resets \in Nat /\ leaves \in Nat
  BY LinkAssumption DEF StreamInv, TypeOK
<1>2. ~Reset /\ ~SenderLeaves /\ ~ReceiverLeaves
  BY <1>1 DEF Reset, SenderLeaves, ReceiverLeaves
<1>3. CASE SendData
  <2>1. OneConn /\ Accounts
    BY <1>3 DEF Lossless, SendData, faults
  <2>. QED
    BY <1>3, <2>1, SendDataLossless
<1>4. CASE DriveSendLoop
  <2>1. OneConn /\ Accounts
    BY <1>4 DEF Lossless, DriveSendLoop, Dequeue, SenderConnects, SendError, WriteHalf, faults
  <2>2. ~SendError
    <3>1. out # 0 => out \in DOMAIN conns
      BY <2>1, OneConnFacts
    <3>. QED
      BY <2>1, <3>1 DEF SendError, OneConn
  <2>3. CASE WriteHalf
    <3>1. spc \in {"size", "data"}
      BY <2>3 DEF WriteHalf, Halves
    <3>. QED
      BY <2>1, <2>3, <3>1, WriteSizeLossless, WriteDataLossless
  <2>. QED
    BY <1>4, <2>1, <2>2, <2>3, DequeueLossless, SenderConnectsLossless DEF DriveSendLoop
<1>5. CASE DriveRecvLoop
  <2>1. OneConn /\ Accounts
    BY <1>5 DEF Lossless, DriveRecvLoop, ReceiverConnects, ReadHalf, ReadError, Reconnect,
                StaleErrno, Drop, faults
  <2>2. ~AtEnd
    <3>1. in # 0 => in \in DOMAIN conns
      BY <2>1, OneConnFacts
    <3>. QED
      BY <2>1, <3>1 DEF AtEnd, OneConn
  <2>3. ~ReadError /\ ~Reconnect /\ ~StaleErrno /\ ~Drop
    BY <2>1, <2>2 DEF ReadError, Reconnect, StaleErrno, Drop, OneConn, Halves
  <2>4. CASE ReadHalf
    <3>1. rpc \in {"size", "data"}
      BY <2>4 DEF ReadHalf, Halves
    <3>. QED
      BY <2>1, <2>4, <3>1, ReadSizeLossless, ReadDataLossless
  <2>. QED
    BY <1>5, <2>1, <2>3, <2>4, ReceiverConnectsLossless DEF DriveRecvLoop
<1>6. CASE UNCHANGED vars
  <2>1. OneConn /\ Accounts
    BY <1>6 DEF Lossless, vars, faults
  <2>2. OneConn'
    BY <1>6, <2>1 DEF OneConn, vars, sender, receiver, sockets
  <2>3. Sent' = Sent
    BY <1>6 DEF Sent, vars, sender
  <2>4. message' # None => accepted'[Sent + 1] = message'
    BY <1>6, <2>1 DEF Accounts, vars, sender
  <2>. QED
    BY <1>6, <2>1, <2>2, <2>3, <2>4, AccountsKept DEF vars, sender, receiver, sockets
<1>. QED
  BY <1>2, <1>3, <1>4, <1>5, <1>6 DEF Next

\* At the start there is nothing to account for.
LEMMA LosslessInit == Init => Lossless
<1>. SUFFICES ASSUME Init
              PROVE  OneConn /\ Accounts
  BY DEF Lossless
<1>1. Len(<<>>) = 0 /\ DOMAIN <<>> = {}
  OBVIOUS
<1>2. Len(Hand(message)) = 0
  BY DEF Init, Hand
<1>3. Sent = 0 /\ Underway = 0
  <2>1. Len(accepted) = 0 /\ Len(queue) = 0 /\ Len(delivered) = 0
    BY <1>1 DEF Init
  <2>. QED
    BY <1>2, <2>1 DEF Sent, Underway
<1>4. OneConn
  BY <1>1 DEF Init, OneConn, Halves
<1>5. Accounts
  BY <1>1, <1>3 DEF Init, Accounts
<1>. QED
  BY <1>4, <1>5

-----------------------------------------------------------------------------
(* The messages that a connection holds.                                     *)

\* A set of natural numbers has a least one.
LEMMA Least ==
  ASSUME NEW S \in SUBSET Nat, S # {}
  PROVE  \E n \in S : \A m \in S : n <= m
<1>1. PICK x \in S : \A y \in S : ~(<<y, x>> \in OpToRel(<, Nat))
  BY NatLessThanWellFounded, WFMin, Zenon
<1>2. \A y \in S : ~(y < x)
  BY <1>1 DEF OpToRel
<1>3. \A y \in S : y \in Nat
  OBVIOUS
<1>. QED
  BY <1>2, <1>3

\* Induction, for a set of numbers.
LEMMA Induct ==
  ASSUME NEW S, 0 \in S, \A n \in Nat : n \in S => n + 1 \in S
  PROVE  \A n \in Nat : n \in S
<1>. SUFFICES ASSUME NEW x \in Nat, x \notin S
              PROVE  FALSE
  OBVIOUS
<1>. DEFINE T == {n \in Nat : n \notin S}
<1>1. PICK n \in T : \A m \in T : n <= m
  <2>1. T \in SUBSET Nat /\ T # {}
    OBVIOUS
  <2>. QED
    BY <2>1, Least
<1>2. n # 0 /\ n - 1 \in Nat
  BY <1>1
<1>3. n - 1 \in S
  BY <1>1, <1>2
<1>4. (n - 1) + 1 \in S
  BY <1>2, <1>3
<1>. QED
  BY <1>1, <1>4

\* The function that Bodies is computed by, on the first n halves of d.
UpTo(f, d, n) ==
  f = [i \in 0..n |->
         IF i = 0 THEN <<>>
         ELSE IF d[i].half = "data" THEN Append(f[i - 1], d[i].of)
         ELSE f[i - 1]]

\* There is one.
LEMMA UpToExists ==
  ASSUME NEW d, NEW l \in Nat
  PROVE  \E f : UpTo(f, d, l)
<1>. DEFINE S == {n \in Nat : \E f : UpTo(f, d, n)}
<1>1. 0 \in S
  <2>. DEFINE g == [i \in 0..0 |-> <<>>]
  <2>1. UpTo(g, d, 0)
    BY DEF UpTo
  <2>. QED
    BY <2>1
<1>2. ASSUME NEW n \in Nat, n \in S
      PROVE  n + 1 \in S
  <2>1. PICK f : UpTo(f, d, n)
    BY <1>2
  <2>. DEFINE g == [i \in 0..(n + 1) |->
                      IF i = 0 THEN <<>>
                      ELSE IF d[i].half = "data" THEN Append(f[i - 1], d[i].of)
                      ELSE f[i - 1]]
  <2>2. \A i \in 0..n : g[i] = f[i]
    <3>. TAKE i \in 0..n
    <3>1. f[i] = IF i = 0 THEN <<>>
                 ELSE IF d[i].half = "data" THEN Append(f[i - 1], d[i].of)
                 ELSE f[i - 1]
      BY <2>1 DEF UpTo
    <3>2. i \in 0..(n + 1)
      OBVIOUS
    <3>. QED
      BY <3>1, <3>2
  <2>3. \A i \in 0..(n + 1) : i # 0 => g[i - 1] = f[i - 1]
    <3>. TAKE i \in 0..(n + 1)
    <3>. HAVE i # 0
    <3>1. i - 1 \in 0..n
      OBVIOUS
    <3>. HIDE DEF g
    <3>. QED
      BY <2>2, <3>1
  <2>4. UpTo(g, d, n + 1)
    <3>1. \A i \in 0..(n + 1) :
            g[i] = IF i = 0 THEN <<>>
                   ELSE IF d[i].half = "data" THEN Append(g[i - 1], d[i].of)
                   ELSE g[i - 1]
      <4>. TAKE i \in 0..(n + 1)
      <4>1. g[i] = IF i = 0 THEN <<>>
                   ELSE IF d[i].half = "data" THEN Append(f[i - 1], d[i].of)
                   ELSE f[i - 1]
        OBVIOUS
      <4>. HIDE DEF g
      <4>. QED
        BY <2>3, <4>1
    <3>2. g = [i \in 0..(n + 1) |-> g[i]]
      OBVIOUS
    <3>. HIDE DEF g
    <3>. QED
      BY <3>1, <3>2 DEF UpTo
  <2>. HIDE DEF g
  <2>. QED
    BY <2>4
<1>. HIDE DEF S
<1>3. l \in S
  BY <1>1, <1>2, Induct
<1>. QED
  BY <1>3 DEF S

\* The messages at the places where Alternates says that they are.
At(d, b, k) == d[2 * k - b].of
Places(d, b, n) == [k \in 1..n |-> At(d, b, k)]

\* They are a sequence.
LEMMA PlacesType ==
  ASSUME NEW d, NEW b, NEW n \in Nat, \A k \in 1..n : At(d, b, k) \in Messages
  PROVE  Places(d, b, n) \in Seq(Messages) /\ Len(Places(d, b, n)) = n
<1>. DEFINE s == [k \in 1..n |-> At(d, b, k)]
<1>1. s \in [1..n -> Messages]
  OBVIOUS
<1>2. s \in Seq(Messages)
  <2>. HIDE DEF s
  <2>. QED
    BY <1>1
<1>3. Len(s) = n
  BY <1>2
<1>. QED
  BY <1>2, <1>3 DEF Places

\* One more.
LEMMA PlacesAppended ==
  ASSUME NEW d, NEW b, NEW n \in Nat,
         \A k \in 1..(n + 1) : At(d, b, k) \in Messages
  PROVE  Append(Places(d, b, n), At(d, b, n + 1)) = Places(d, b, n + 1)
<1>. DEFINE s == Places(d, b, n)
            x == At(d, b, n + 1)
            t == Places(d, b, n + 1)
<1>1. s \in Seq(Messages) /\ Len(s) = n /\ t \in Seq(Messages) /\ Len(t) = n + 1
  BY PlacesType
<1>2. \A k \in 1..n : s[k] = t[k]
  BY DEF Places
<1>3. t[n + 1] = x
  BY DEF Places
<1>. HIDE DEF s, x, t
<1>4. Append(s, x) = t
  BY <1>1, <1>2, <1>3
<1>. QED
  BY <1>4 DEF s, x, t

\* Up to place i there are m of the n messages.
Counted(i, m, b, n) ==
  m \in 0..n /\ (m = 0 \/ 2 * m - b <= i) /\ (m < n => i < 2 * (m + 1) - b)

\* What the function computes.
LEMMA UpToPlaces ==
  ASSUME NEW d, NEW l \in Nat, DOMAIN d = 1..l, \A i \in 1..l : d[i].of \in Messages,
         NEW f, UpTo(f, d, l), NEW b \in {0, 1}, NEW n \in Nat, Alternates(d, b, n)
  PROVE  f[l] = Places(d, b, n)
<1>. DEFINE Q == {i \in Nat : i <= l =>
                    \E m \in 0..n : Counted(i, m, b, n) /\ f[i] = Places(d, b, m)}
<1>1. \A k \in 1..n : 2 * k - b \in 1..l /\ d[2 * k - b].half = "data"
  BY DEF Alternates
<1>2. \A i \in 0..l : f[i] = IF i = 0 THEN <<>>
                             ELSE IF d[i].half = "data" THEN Append(f[i - 1], d[i].of)
                             ELSE f[i - 1]
  BY DEF UpTo
<1>3. 0 \in Q
  <2>1. f[0] = <<>> /\ Places(d, b, 0) = <<>>
    BY <1>2 DEF Places
  <2>2. Counted(0, 0, b, n) /\ 0 \in 0..n
    BY DEF Counted
  <2>. QED
    BY <2>1, <2>2
<1>4. ASSUME NEW i \in Nat, i \in Q
      PROVE  i + 1 \in Q
  <2>. SUFFICES ASSUME i + 1 <= l
                PROVE  \E m \in 0..n : Counted(i + 1, m, b, n) /\ f[i + 1] = Places(d, b, m)
    OBVIOUS
  <2>1. PICK m \in 0..n : Counted(i, m, b, n) /\ f[i] = Places(d, b, m)
    BY <1>4
  <2>2. i + 1 \in 0..l /\ i + 1 # 0 /\ (i + 1) - 1 = i /\ i + 1 \in DOMAIN d
    OBVIOUS
  <2>3. CASE d[i + 1].half = "data"
    <3>1. PICK k \in 1..n : i + 1 = 2 * k - b
      BY <2>2, <2>3 DEF Alternates
    <3>2. k > m
      BY <2>1, <3>1 DEF Counted
    <3>3. k = m + 1
      BY <2>1, <3>1, <3>2 DEF Counted
    <3>4. f[i + 1] = Append(Places(d, b, m), At(d, b, m + 1))
      BY <1>2, <2>1, <2>2, <2>3, <3>1, <3>3 DEF At
    <3>5. m \in Nat /\ \A j \in 1..(m + 1) : At(d, b, j) \in Messages
      BY <1>1, <3>3 DEF At
    <3>6. f[i + 1] = Places(d, b, m + 1)
      BY <3>4, <3>5, PlacesAppended
    <3>7. Counted(i + 1, m + 1, b, n) /\ m + 1 \in 0..n
      BY <3>1, <3>3 DEF Counted
    <3>. QED
      BY <3>6, <3>7
  <2>4. CASE d[i + 1].half # "data"
    <3>1. f[i + 1] = Places(d, b, m)
      BY <1>2, <2>1, <2>2, <2>4
    <3>2. m < n => i + 1 # 2 * (m + 1) - b
      <4>1. m < n => m + 1 \in 1..n
        OBVIOUS
      <4>. QED
        BY <1>1, <2>4, <4>1
    <3>3. Counted(i + 1, m, b, n)
      BY <2>1, <3>2 DEF Counted
    <3>. QED
      BY <3>1, <3>3
  <2>. QED
    BY <2>3, <2>4
<1>5. l \in Q
  <2>. HIDE DEF Q
  <2>. QED
    BY <1>3, <1>4, Induct
<1>6. PICK m \in 0..n : Counted(l, m, b, n) /\ f[l] = Places(d, b, m)
  BY <1>5
<1>7. ~(m < n)
  <2>1. m < n => m + 1 \in 1..n
    OBVIOUS
  <2>2. m < n => l < 2 * (m + 1) - b
    BY <1>6 DEF Counted
  <2>. QED
    BY <1>1, <2>1, <2>2
<1>8. m = n
  BY <1>7
<1>. QED
  BY <1>6, <1>8

\* The messages that connection c holds.
LEMMA BodiesFacts ==
  ASSUME TypeOK, NEW c \in DOMAIN conns, NEW b \in {0, 1}, NEW n \in Nat,
         Alternates(conns[c].data, b, n)
  PROVE  Bodies(c) = Places(conns[c].data, b, n)
<1>. DEFINE d == conns[c].data
            l == Len(d)
<1>1. d \in Seq(Packets) /\ l \in Nat /\ DOMAIN d = 1..l
  BY ConnType
<1>2. \A i \in 1..l : d[i].of \in Messages
  <2>1. \A i \in 1..l : d[i] \in Packets
    BY <1>1
  <2>. QED
    BY <2>1 DEF Packets
<1>3. PICK f : UpTo(f, d, l)
  BY <1>1, UpToExists
<1>. DEFINE g == CHOOSE g : UpTo(g, d, l)
<1>4. UpTo(g, d, l)
  BY <1>3
<1>5. Bodies(c) = g[l]
  BY DEF Bodies, UpTo
<1>6. g[l] = Places(d, b, n)
  <2>1. Alternates(d, b, n)
    OBVIOUS
  <2>. HIDE DEF g, d, l
  <2>. QED
    BY <1>1, <1>2, <1>4, <2>1, UpToPlaces
<1>. QED
  BY <1>5, <1>6

-----------------------------------------------------------------------------
(* The theorem.                                                              *)

\* The first m of a sequence's elements.
FirstOf(s, m) == [k \in 1..m |-> s[k]]

\* The elements from m to n are those of sequence t.
Continues(s, m, t, n) ==
  /\ m \in Nat /\ n \in Nat /\ n = m + Len(t) /\ n <= Len(s)
  /\ \A k \in 1..Len(t) : t[k] = s[m + k]

\* The first ones and the next ones.
LEMMA FirstAndNext ==
  ASSUME NEW s \in Seq(Int), NEW t \in Seq(Int), NEW m, NEW n, Continues(s, m, t, n)
  PROVE  FirstOf(s, m) \o t = FirstOf(s, n)
<1>. DEFINE u == FirstOf(s, m)
            v == FirstOf(s, n)
<1>1. /\ Len(t) \in Nat /\ Len(s) \in Nat /\ m <= n
      /\ m \in Nat /\ n \in Nat /\ n = m + Len(t) /\ n <= Len(s)
      /\ \A k \in 1..Len(t) : t[k] = s[m + k]
  BY DEF Continues
<1>2. u \in Seq(Int) /\ Len(u) = m /\ v \in Seq(Int) /\ Len(v) = n
  <2>1. \A k \in Nat : k <= Len(s) => FirstOf(s, k) \in Seq(Int) /\ Len(FirstOf(s, k)) = k
    <3>. SUFFICES ASSUME NEW k \in Nat, k <= Len(s)
                  PROVE  FirstOf(s, k) \in Seq(Int) /\ Len(FirstOf(s, k)) = k
      OBVIOUS
    <3>. DEFINE w == [i \in 1..k |-> s[i]]
    <3>1. w \in [1..k -> Int]
      BY <1>1
    <3>2. w \in Seq(Int)
      <4>. HIDE DEF w
      <4>. QED
        BY <3>1
    <3>3. Len(w) = k
      BY <3>2
    <3>. QED
      BY <3>2, <3>3 DEF FirstOf
  <2>2. m <= Len(s)
    BY <1>1
  <2>. QED
    BY <1>1, <2>1, <2>2
<1>3. /\ \A k \in 1..m : u[k] = v[k]
      /\ \A k \in 1..Len(t) : t[k] = v[m + k]
  BY <1>1 DEF FirstOf
<1>. HIDE DEF u, v
<1>4. /\ u \o t \in Seq(Int) /\ Len(u \o t) = n
      /\ \A k \in 1..n : (u \o t)[k] = IF k <= m THEN u[k] ELSE t[k - m]
  <2>1. /\ u \o t \in Seq(Int) /\ Len(u \o t) = Len(u) + Len(t)
        /\ \A k \in 1..Len(u) + Len(t) :
             (u \o t)[k] = IF k <= Len(u) THEN u[k] ELSE t[k - Len(u)]
    BY ONLY <1>2, t \in Seq(Int), ConcatProperties
  <2>. QED
    BY <1>1, <1>2, <2>1
<1>5. \A k \in 1..n : (u \o t)[k] = v[k]
  <2>. TAKE k \in 1..n
  <2>1. CASE k <= m
    BY <1>1, <1>3, <1>4, <2>1
  <2>2. CASE ~(k <= m)
    <3>1. k - m \in 1..Len(t) /\ m + (k - m) = k
      BY <1>1, <2>2
    <3>2. t[k - m] = v[k]
      BY <1>3, <3>1
    <3>3. (u \o t)[k] = t[k - m]
      BY <1>1, <1>4, <2>2
    <3>. QED
      BY <3>2, <3>3
  <2>. QED
    BY <2>1, <2>2
<1>6. u \o t = v
  BY <1>2, <1>4, <1>5, SeqEqual
<1>. QED
  BY <1>6 DEF u, v

\* Without interruptions the accepted messages are on their way.
LEMMA AllAccounted ==
  ASSUME StreamInv, OneConn, Accounts
  PROVE  accepted = delivered \o (IF in = 0 /\ out = 0 THEN <<>> ELSE Bodies(1))
                    \o Hand(message) \o queue
<1>. DEFINE b == IF in = 0 /\ out = 0 THEN <<>> ELSE Bodies(1)
            h == Hand(message)
            m == Len(delivered)
<1>1. /\ Sent \in Nat /\ Sent <= Len(accepted) /\ Len(accepted) \in Nat /\ m \in Nat
      /\ DOMAIN delivered = 1..m /\ DOMAIN queue = 1..Len(queue) /\ Len(queue) \in Nat
      /\ Sent = m + Underway /\ Underway \in Nat
  <2>1. Underway \in Nat /\ Underway = Sent - m
    BY DEF Accounts, Underway
  <2>. QED
    BY <2>1, SentFacts DEF StreamInv
<1>2. accepted \in Seq(Int) /\ queue \in Seq(Int) /\ DOMAIN accepted = 1..Len(accepted)
  <2>1. accepted \in Seq(Messages) /\ queue \in Seq(Messages)
    BY DEF StreamInv, TypeOK
  <2>2. Messages \subseteq Int
    BY LinkAssumption DEF Messages
  <2>. HIDE DEF Messages
  <2>3. ASSUME NEW s \in Seq(Messages)
        PROVE  s \in Seq(Int)
    <3>1. Len(s) \in Nat /\ s \in [1..Len(s) -> Messages]
      BY LenProperties
    <3>2. s \in [1..Len(s) -> Int]
      BY <2>2, <3>1
    <3>. QED
      BY <3>1, <3>2
  <2>. QED
    BY <2>1, <2>3
<1>3. delivered = FirstOf(accepted, m)
  <2>1. delivered \in Seq(Messages \union {Corrupt})
    BY DEF StreamInv, TypeOK
  <2>2. delivered = [k \in 1..m |-> delivered[k]]
    BY <2>1
  <2>3. \A k \in 1..m : delivered[k] = accepted[k]
    BY <1>1 DEF Accounts
  <2>. HIDE DEF m
  <2>. QED
    BY <2>2, <2>3 DEF FirstOf
<1>4. b \in Seq(Int) /\ Len(b) = Underway /\ \A k \in 1..Len(b) : b[k] = accepted[m + k]
  <2>1. CASE in = 0 /\ out = 0
    <3>1. conns = <<>>
      BY <2>1 DEF OneConn
    <3>. QED
      BY <2>1, <3>1 DEF Accounts
  <2>2. CASE in # 0 \/ out # 0
    <3>1. conns # <<>> /\ 1 \in DOMAIN conns
      BY <2>2, OneConnFacts
    <3>2. Alternates(conns[1].data, Behind, Underway) /\ Behind \in {0, 1}
      BY <3>1 DEF Accounts, Behind
    <3>3. b = Places(conns[1].data, Behind, Underway)
      <4>1. PICK x \in {0, 1} : x = Behind
        BY <3>2
      <4>. QED
        BY <1>1, <2>2, <3>1, <3>2, <4>1, BodiesFacts DEF StreamInv
    <3>4. \A k \in 1..Underway :
            At(conns[1].data, Behind, k) = accepted[m + k] /\ m + k \in 1..Len(accepted)
      BY <1>1, <3>1 DEF Accounts, At
    <3>5. b \in [1..Underway -> Int] /\ \A k \in 1..Underway : b[k] = accepted[m + k]
      <4>. HIDE DEF b, m
      <4>. QED
        BY <1>1, <1>2, <3>3, <3>4 DEF Places
    <3>6. b \in Seq(Int) /\ Len(b) = Underway
      <4>. HIDE DEF b
      <4>. QED
        BY <1>1, <3>5
    <3>. QED
      BY <3>5, <3>6
  <2>. QED
    BY <2>1, <2>2
<1>5. h \in Seq(Int) /\ \A k \in 1..Len(h) : h[k] = accepted[Sent + k]
  <2>1. CASE message = None
    BY <2>1 DEF Hand
  <2>2. CASE message # None
    <3>1. message \in Int /\ accepted[Sent + 1] = message
      BY <2>2 DEF StreamInv, TypeOK, Messages, Accounts
    <3>. QED
      BY <2>2, <3>1 DEF Hand
  <2>. QED
    BY <2>1, <2>2
<1>6. Sent + Len(h) \in Nat /\ Sent + Len(h) + Len(queue) = Len(accepted)
  <2>1. Len(h) \in Nat /\ Sent = Len(accepted) - Len(queue) - Len(h)
    BY <1>5 DEF Sent
  <2>. QED
    BY <1>1, <2>1
<1>7. \A k \in 1..Len(queue) : queue[k] = accepted[(Sent + Len(h)) + k]
  <2>1. Sent + Len(h) = Len(accepted) - Len(queue)
    BY <1>1, <1>6
  <2>. HIDE DEF h
  <2>. QED
    BY <1>1, <2>1 DEF StreamInv, QueueInv
<1>. HIDE DEF b, h, m
<1>8. delivered \o b = FirstOf(accepted, Sent)
  <2>1. Continues(accepted, m, b, Sent)
    BY <1>1, <1>4 DEF Continues
  <2>. QED
    BY <1>2, <1>3, <1>4, <2>1, FirstAndNext
<1>9. FirstOf(accepted, Sent) \o h = FirstOf(accepted, Sent + Len(h))
  <2>1. Continues(accepted, Sent, h, Sent + Len(h))
    BY <1>1, <1>5, <1>6 DEF Continues
  <2>. QED
    BY <1>2, <1>5, <2>1, FirstAndNext
<1>10. FirstOf(accepted, Sent + Len(h)) \o queue = FirstOf(accepted, Len(accepted))
  <2>1. Continues(accepted, Sent + Len(h), queue, Len(accepted))
    BY <1>1, <1>6, <1>7 DEF Continues
  <2>. QED
    BY <1>2, <2>1, FirstAndNext
<1>11. FirstOf(accepted, Len(accepted)) = accepted
  BY <1>2 DEF FirstOf
<1>12. accepted = delivered \o b \o h \o queue
  BY <1>8, <1>9, <1>10, <1>11
<1>. QED
  BY <1>12 DEF b, h

\* The inductive invariant holds in every reachable state.
LEMMA LinkInvHolds == Spec => []LinkInv
<1>1. Init => LinkInv
  BY StreamInit, LosslessInit DEF LinkInv
<1>2. LinkInv /\ [Next]_vars => LinkInv'
  BY StreamStep, LosslessStep DEF LinkInv
<1>. QED
  BY <1>1, <1>2, PTL DEF Spec

\* Whatever connections are reset or given up and whatever clients leave: the
\* receiver's callback is called with whole messages, in the order in which SendData
\* has accepted them, with none twice; and as long as nothing of that has happened
\* no message is lost.
THEOREM StreamCorrect == Spec => []StreamIsRight
<1>1. LinkInv => StreamIsRight
  <2>. SUFFICES ASSUME LinkInv
                PROVE  StreamIsRight
    OBVIOUS
  <2>1. StreamInv /\ Lossless
    BY DEF LinkInv
  <2>2. /\ Len(accepted) \in Nat /\ Len(queue) \in Nat /\ DOMAIN accepted = 1..Len(accepted)
        /\ DOMAIN delivered = 1..Len(delivered) /\ Len(delivered) \in Nat
    BY <2>1, SentFacts DEF StreamInv
  <2>3. ASSUME NEW i \in DOMAIN delivered
        PROVE  /\ \E k \in DOMAIN accepted : delivered[i] = accepted[k]
               /\ \A j \in 1..(i - 1) : delivered[j] < delivered[i]
    <3>1. delivered[i] \in Done
      BY <2>1 DEF StreamInv, OrderInv
    <3>2. PICK k \in 1..(Len(accepted) - Len(queue)) : accepted[k] = delivered[i]
      BY <3>1 DEF Done
    <3>3. k \in DOMAIN accepted
      BY <2>2, <3>2
    <3>4. \A j \in 1..(i - 1) : j \in DOMAIN delivered /\ j < i
      BY <2>2
    <3>5. \A j \in 1..(i - 1) : delivered[j] < delivered[i]
      BY <2>1, <3>4 DEF StreamInv, OrderInv
    <3>. QED
      BY <3>2, <3>3, <3>5
  <2>4. resets = 0 /\ leaves = 0 =>
          accepted = delivered \o (IF in = 0 /\ out = 0 THEN <<>> ELSE Bodies(1))
                     \o Hand(message) \o queue
    BY <2>1, AllAccounted DEF Lossless
  <2>. QED
    BY <2>1, <2>3, <2>4 DEF StreamIsRight, StreamInv
<1>. QED
  BY <1>1, LinkInvHolds, PTL

==============================================================================

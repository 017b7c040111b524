----------------------------- MODULE ChannelLink -----------------------------
(***************************************************************************)
(* One asynchronous stream of messages between two channel managers:       *)
(*   src/src/common/channelmgr.cpp, SendData, the loop of the thread that  *)
(*     sends and the loop of the thread that receives;                     *)
(*   src/src/common/channel.cpp, which writes each message as its size and *)
(*     then its data, reads it back, and connects again after an error.    *)
(* vogltrace and voglcmd connect, voglserver accepts; each of the two      *)
(* managers of a pair sends on one such stream and receives on another.    *)
(*                                                                         *)
(* A message is its number.  The network may reset a connection, whatever  *)
(* is still in it is lost.  The queue is the one of module MtQueue, here   *)
(* with its effect only.                                                   *)
(***************************************************************************)
EXTENDS Integers, Sequences

CONSTANTS
  MaxMsgs,    \* bound on the calls of SendData
  QCap,       \* m_pSendQueue's size: 1000
  WireCap,    \* halves of messages that a connection holds
  Tries,      \* nRetries of DriveRecvLoop: 5
  Backlog,    \* connections that wait to be accepted: listen(0) allows one
  MaxResets,  \* bound on the resets
  MaxLeaves   \* bound on the clients that disconnect

ASSUME LinkAssumption ==
  /\ MaxMsgs \in Nat /\ MaxResets \in Nat /\ MaxLeaves \in Nat
  /\ QCap \in Nat \ {0} /\ WireCap \in Nat \ {0} /\ Tries \in Nat \ {0}
  /\ Backlog \in Nat \ {0}

VARIABLES
  client,    \* the end that connects; the other one accepts
  next,      \* the calls of SendData so far
  accepted,  \* history: the messages it has accepted
  queue,     \* m_pSendQueue
  message,   \* the message DriveSendLoop has taken from it, or 0
  spc,       \* the place the sending thread has reached
  rpc,       \* the place the receiving thread has reached
  tries,     \* iTry of the receiver's ReadMsg
  size,      \* the size it has read: that of this message, or 0
  delivered, \* history: the messages that m_recvCallbackfn was called with
  conns,     \* the connections made so far
  taken,     \* how many of them were accepted
  out, in,   \* m_socket of the two channels, 0 if there is none
  resets,    \* history: the connections that the network has reset
  leaves     \* history: the clients that have disconnected

sender == <<next, accepted, queue, message, spc>>
receiver == <<rpc, tries, size, delivered>>
sockets == <<conns, taken, out, in>>
faults == <<resets, leaves>>
vars == <<client, sender, receiver, sockets, faults>>

Ends == {"sender", "receiver"}
None == 0
Corrupt == -1

Halves == {"size", "data"}

\* A connection: the halves of messages in it, whether the network or the
\* receiver has broken it, and whether the sender has closed it.
NewConn == [data |-> <<>>, broken |-> FALSE, closed |-> FALSE]

Init ==
  /\ client \in Ends
  /\ next = 0 /\ accepted = <<>> /\ queue = <<>> /\ message = None
  /\ spc = "start"
  /\ rpc = "size" /\ tries = 0 /\ size = None /\ delivered = <<>>
  /\ conns = <<>> /\ taken = 0 /\ out = 0 /\ in = 0
  /\ resets = 0 /\ leaves = 0

-----------------------------------------------------------------------------
(* Sockets.                                                                  *)

\* connectConnection makes a connection, acceptConnection waits for the next.
NewSocket(end, socket) ==
  IF end = client
  THEN /\ Len(conns) < taken + Backlog
       /\ conns' = Append(conns, NewConn)
       /\ socket = Len(conns) + 1
       /\ UNCHANGED taken
  ELSE /\ taken < Len(conns)
       /\ taken' = taken + 1
       /\ socket = taken + 1
       /\ UNCHANGED conns

Break(c) == [conns EXCEPT ![c].data = <<>>, ![c].broken = TRUE]

Reset ==
  /\ resets < MaxResets
  /\ \E c \in DOMAIN conns : ~conns[c].broken /\ conns' = Break(c)
  /\ resets' = resets + 1
  /\ UNCHANGED <<client, sender, receiver, taken, out, in, leaves>>

-----------------------------------------------------------------------------
(* The sender.                                                               *)

\* SendData.  Connect and Accept have waited for the thread's first connection.
SendData ==
  /\ spc # "start" /\ next < MaxMsgs
  /\ next' = next + 1
  /\ IF Len(queue) < QCap
     THEN queue' = Append(queue, next') /\ accepted' = Append(accepted, next')
     ELSE UNCHANGED <<queue, accepted>>
  /\ UNCHANGED <<client, message, spc, receiver, sockets, faults>>

Dequeue ==
  /\ spc = "idle" /\ queue # <<>>
  /\ message' = Head(queue) /\ queue' = Tail(queue)
  /\ spc' = "size"
  /\ UNCHANGED <<client, next, accepted, receiver, sockets, faults>>

\* The first connection, and the one after an error.
SenderConnects ==
  /\ spc # "idle" /\ out = 0
  /\ NewSocket("sender", out')
  /\ spc' = IF spc = "start" THEN "idle" ELSE spc
  /\ UNCHANGED <<client, next, accepted, queue, message, receiver, in, faults>>

WrongSendError ==
  /\ spc \in Halves /\ out # 0 /\ conns[out].broken
  /\ conns' = [conns EXCEPT ![out].closed = TRUE]
  /\ out' = 0
  /\ UNCHANGED <<client, next, accepted, queue, message, spc, receiver, taken, in, faults>>

\* DriveSendLoop keeps the message until WriteMsg has written all of it, and
\* writeMsgLoop begins again with its size.
SendError ==
  /\ spc \in Halves /\ out # 0 /\ conns[out].broken
  /\ conns' = [conns EXCEPT ![out].closed = TRUE]
  /\ out' = 0
  /\ spc' = "size"
  /\ UNCHANGED <<client, next, accepted, queue, message, receiver, taken, in, faults>>

WriteHalf ==
  /\ spc \in Halves /\ out # 0
  /\ ~conns[out].broken /\ Len(conns[out].data) < WireCap
  /\ conns' = [conns EXCEPT
       ![out].data = Append(@, [half |-> spc, of |-> message])]
  /\ IF spc = "size" THEN spc' = "data" /\ UNCHANGED message
     ELSE spc' = "idle" /\ message' = None
  /\ UNCHANGED <<client, next, accepted, queue, receiver, taken, out, in, faults>>

\* The connection is full for longer than the timeout, with the size in it.
SendTimeout ==
  /\ spc = "data" /\ out # 0
  /\ ~conns[out].broken /\ Len(conns[out].data) = WireCap
  /\ spc' = "size"
  /\ UNCHANGED <<client, next, accepted, queue, message, receiver, sockets, faults>>

\* A client disconnects or exits, and another is started.
SenderLeaves ==
  /\ client = "sender" /\ spc # "start" /\ leaves < MaxLeaves
  /\ leaves' = leaves + 1
  /\ queue' = <<>> /\ message' = None
  /\ IF out = 0 THEN UNCHANGED conns
     ELSE conns' = [conns EXCEPT ![out].closed = TRUE]
  /\ out' = 0
  /\ spc' = "start"
  /\ UNCHANGED <<client, next, accepted, receiver, taken, in, resets>>

ReceiverLeaves ==
  /\ client = "receiver" /\ in # 0 /\ leaves < MaxLeaves
  /\ leaves' = leaves + 1
  /\ conns' = Break(in) /\ in' = 0
  /\ rpc' = "size" /\ size' = None /\ tries' = 0
  /\ UNCHANGED <<client, sender, delivered, taken, out, resets>>

-----------------------------------------------------------------------------
(* The receiver.                                                             *)

ReceiverConnects ==
  /\ rpc = "size" /\ in = 0
  /\ NewSocket("receiver", in')
  /\ UNCHANGED <<client, sender, rpc, tries, size, delivered, out, faults>>

\* readMsgLoop.  A half in the wrong place is taken for a size, or for the data
\* of another message, and nothing after it is understood.
ReadHalf ==
  /\ rpc \in Halves /\ in # 0 /\ conns[in].data # <<>>
  /\ LET h == Head(conns[in].data)
     IN \/ /\ rpc = "size" /\ h.half = "size"
           /\ rpc' = "data" /\ size' = h.of
           /\ UNCHANGED <<tries, delivered>>
        \/ /\ rpc = "data" /\ h.half = "data" /\ h.of = size
           /\ rpc' = "size" /\ size' = None /\ tries' = 0
           /\ delivered' = Append(delivered, h.of)
        \/ /\ h.half # rpc \/ (rpc = "data" /\ h.of # size)
           /\ rpc' = "lost"
           /\ delivered' = Append(delivered, Corrupt)
           /\ UNCHANGED <<tries, size>>
  /\ conns' = [conns EXCEPT ![in].data = Tail(@)]
  /\ UNCHANGED <<client, sender, taken, out, in, faults>>

AtEnd == in # 0 /\ conns[in].data = <<>> /\ (conns[in].broken \/ conns[in].closed)

WrongReadError ==
  /\ rpc \in Halves /\ AtEnd
  /\ rpc' = "size" /\ size' = None
  /\ UNCHANGED <<client, sender, tries, delivered, sockets, faults>>

\* An error disconnects; what was read of a message is dropped.
ReadError ==
  /\ rpc \in Halves /\ AtEnd
  /\ conns' = Break(in) /\ in' = 0
  /\ rpc' = "connect" /\ size' = None
  /\ UNCHANGED <<client, sender, tries, delivered, taken, out, faults>>

\* Connecting again counts as a timeout, and a server gives the connection up
\* after as many of them as it tries.
Reconnect ==
  /\ rpc = "connect"
  /\ NewSocket("receiver", in')
  /\ IF tries + 1 < Tries THEN rpc' = "size" /\ tries' = tries + 1
     ELSE rpc' = (IF client = "sender" THEN "drop" ELSE "size") /\ tries' = 0
  /\ UNCHANGED <<client, sender, size, delivered, out, faults>>

\* At the end of the stream recv returns 0 and leaves errno alone: if it is
\* EAGAIN, a server's ReadMsg times out until it has no tries left.
StaleErrno ==
  /\ client = "sender"
  /\ rpc \in Halves /\ AtEnd /\ conns[in].closed /\ ~conns[in].broken
  /\ rpc' = "drop" /\ size' = None
  /\ UNCHANGED <<client, sender, tries, delivered, sockets, faults>>

\* DriveRecvLoop of a server.
Drop ==
  /\ rpc = "drop"
  /\ conns' = Break(in) /\ in' = 0
  /\ rpc' = "size" /\ tries' = 0
  /\ UNCHANGED <<client, sender, size, delivered, taken, out, faults>>

\* A client's recv does not block, and what it has read of a message is gone
\* when the rest does not come in time.
ReadTimeout ==
  /\ client = "receiver"
  /\ rpc = "data" /\ in # 0 /\ conns[in].data = <<>>
  /\ rpc' = "size" /\ size' = None
  /\ UNCHANGED <<client, sender, tries, delivered, sockets, faults>>

DriveSendLoop == Dequeue \/ SenderConnects \/ SendError \/ WriteHalf
DriveRecvLoop == ReceiverConnects \/ ReadHalf \/ ReadError \/ Reconnect
                 \/ StaleErrno \/ Drop

Next ==
  \/ SendData \/ DriveSendLoop \/ DriveRecvLoop
  \/ Reset \/ SenderLeaves \/ ReceiverLeaves

\* The threads run.
Spec == Init /\ [][Next]_vars /\ WF_vars(DriveSendLoop) /\ WF_vars(DriveRecvLoop)

\* The same with connections so slow that timeouts strike in the middle of a message.
SlowSpec == Init /\ [][Next \/ SendTimeout \/ ReadTimeout]_vars

-----------------------------------------------------------------------------
(* Properties.                                                               *)

Messages == 1..MaxMsgs

\* Type invariant.
TypeOK ==
  /\ client \in Ends
  /\ next \in 0..MaxMsgs /\ accepted \in Seq(Messages) /\ queue \in Seq(Messages)
  /\ message \in Messages \union {None} /\ spc \in Halves \union {"start", "idle"}
  /\ rpc \in Halves \union {"connect", "drop", "lost"} /\ tries \in 0..Tries
  /\ size \in Messages \union {None}
  /\ delivered \in Seq(Messages \union {Corrupt})
  /\ conns \in Seq([data : Seq([half : Halves, of : Messages]),
                    broken : BOOLEAN, closed : BOOLEAN])
  /\ taken \in 0..Len(conns) /\ out \in 0..Len(conns) /\ in \in 0..Len(conns)
  /\ resets \in 0..MaxResets /\ leaves \in 0..MaxLeaves

\* The messages of which a connection still holds the data.
Bodies(c) ==
  LET data == conns[c].data
      upTo[i \in 0..Len(data)] ==
        IF i = 0 THEN <<>>
        ELSE IF data[i].half = "data" THEN Append(upTo[i - 1], data[i].of)
        ELSE upTo[i - 1]
  IN upTo[Len(data)]

Hand(m) == IF m = None THEN <<>> ELSE <<m>>

\* Whatever connections are reset or given up and whatever clients leave, in the
\* middle of a message or between two: messages are delivered whole, in the order
\* in which they were accepted, none twice; and while nothing of that has
\* happened, every accepted message is delivered, in the connection, in hand or
\* in the queue.
StreamIsRight ==
  /\ TypeOK
  /\ \A i \in DOMAIN delivered :
       /\ \E k \in DOMAIN accepted : delivered[i] = accepted[k]
       /\ \A j \in 1..(i - 1) : delivered[j] < delivered[i]
  /\ resets = 0 /\ leaves = 0 =>
       accepted = delivered \o (IF in = 0 /\ out = 0 THEN <<>> ELSE Bodies(1))
                  \o Hand(message) \o queue

\* After the last interruption the two ends find each other again, whichever of
\* them connects and whoever has noticed: what is in the queue gets sent, and
\* what was sent over a connection that lasts gets delivered.
StreamRecovers ==
  <>[](/\ queue = <<>> /\ message = None
       /\ out # 0 /\ conns[out].data = <<>>)

=============================================================================

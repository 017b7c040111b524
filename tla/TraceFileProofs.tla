--------------------------- MODULE TraceFileProofs ---------------------------
(***************************************************************************)
(* Proofs about TraceFile: what a start of file packet says of the archive *)
(* is true, the reader knows its place, and its calls return what the file *)
(* has, for any number of packets, when no room is made on a disk that was *)
(* full: with room the torn run shows that the first of these is false.    *)
(***************************************************************************)
EXTENDS TraceFile, FiniteSetTheorems, SequenceTheorems, TLAPS

-----------------------------------------------------------------------------
(* The invariant of the writer.                                              *)

SwapsIn(s, n) == Cardinality({i \in 1..n : s[i] = "swap"})

\* What is in the file, followed by what is in the buffer.
Stream == disk \o buf

\* A trace, as far as it goes: a start, packets and swaps, the end of file packet
\* and the archive.  Only the last item may be torn.
WellFormed(s) ==
  /\ s # <<>> => s[1] \in {"sof", "torn"}
  /\ \A i \in 1..Len(s) :
       /\ s[i] = "sof" => i = 1
       /\ s[i] = "swap" => i \in 3..(MaxPackets + 2)
       /\ s[i] = "torn" => i = Len(s)
       /\ s[i] = "eof" => \A j \in 1..Len(s) : j > i => s[j] \in {"archive", "torn"}
       /\ s[i] = "archive" => i = Len(s) /\ i > 1 /\ s[i - 1] = "eof"

NoneTorn(s) == \A i \in 1..Len(s) : s[i] # "torn"

\* e holds where the frames of s end, and the first one begins.
EndsRight(s, e) ==
  /\ \A i \in 1..Len(e) : /\ e[i] \in 1..Len(s)
                          /\ SwapsIn(s, e[i]) = i - 1
                          /\ s[e[i]] \in {"sof", "swap"}
  /\ Len(e) = SwapsIn(s, Len(s)) + 1

Over == wpc \in {"done", "killed"}

\* What the writer believes of the file, as long as no write has failed.
Believed ==
  /\ NoneTorn(Stream)
  /\ wpc # "close" =>
       /\ Len(Stream) = size /\ size > 1 /\ Stream[1] = "sof"
       /\ EndsRight(Stream, ends)
  /\ wpc = "open" => \A i \in 1..Len(Stream) : Stream[i] \in {"sof", "packet", "swap"}
  /\ wpc = "archive" =>
       /\ Stream[size] = "eof"
       /\ \A i \in 1..(size - 1) : Stream[i] \in {"sof", "packet", "swap"}
  /\ wpc \in {"sof", "rewrite"} =>
       archive + 1 = size /\ Stream[size] = "archive" /\ index = ends
  /\ wpc = "rewrite" => buf = <<>>

Whole ==
  /\ disk # <<>> /\ disk[1] = "sof" /\ NoneTorn(disk)
  /\ Len(disk) = sof + 1 /\ disk[sof + 1] = "archive"
  /\ EndsRight(disk, index)

WriterInv ==
  /\ WriterTypeOK
  /\ WellFormed(Stream)
  /\ full => buf = <<>> /\ wpc # "rewrite"
  /\ Over => buf = <<>>
  /\ ~full /\ ~Over => Believed
  /\ wpc = "open" => size <= MaxPackets + 2
  /\ wpc = "close" => ~success
  /\ wpc = "done" /\ success => sof # 0
  /\ sof # 0 => Over /\ Whole

-----------------------------------------------------------------------------
(* The invariant of the reader.                                              *)

\* The swaps before each offset.
Count == [n \in 0..Len(disk) |-> Swaps(n)]
Total == Count[Len(disk)]

\* A place of the reader: behind an item, or inside one that is not whole.
Place(place) ==
  /\ place.pos \in 1..Len(disk)
  /\ place.cur = Count[place.pos]
  /\ place.inside => /\ place.pos < Len(disk)
                     /\ disk[place.pos + 1] \in {"torn", "archive"}

Here == [pos |-> pos, inside |-> inside, cur |-> cur]

Begins(f, offset) ==
  /\ offset \in 1..Len(disk)
  /\ Count[offset] = f
  /\ disk[offset] \in {"sof", "swap"}

Known ==
  /\ Len(offsets) > 0
  /\ \A i \in 1..Len(offsets) : Begins(i - 1, offsets[i])
  /\ cur < Len(offsets)
  /\ max # -1 => max = Total

\* What the reader knows, without the call that it is in.
ReaderKnows ==
  /\ pos \in 0..Len(disk) /\ inside \in BOOLEAN /\ cur \in Nat
  /\ max \in Nat \union {-1} /\ offsets \in Seq(Nat)
  /\ Place(Here) /\ Known

\* The call, by the place that the reader has reached in it.
InCall ==
  /\ rpc = "idle" => call = NoCall
  /\ rpc # "idle" => call.op # "none"
  /\ rpc # "idle" => result.call.op = "none"
  /\ call.op \in {"max", "frames"} => Place(saved) /\ saved.cur < Len(offsets)
  /\ call.op = "max" => call.frame = LastFrame /\ rpc \in {"seek", "scan", "failed"}
  /\ call.op = "frames" => call.count > 0
  /\ rpc = "scan" => /\ ~inside /\ disk[pos] \in {"sof", "packet", "swap"}
                     /\ call.frame >= Len(offsets)
  /\ rpc = "found" => call.frame < Len(offsets)
  /\ rpc = "failed" => /\ call.frame > Total
                       /\ call.op = "max" /\ max = -1 => disk[Len(disk)] = "torn"
  /\ rpc \in {"seek", "scan", "found"} => call.got = 0
  /\ rpc \in {"frames", "return"} =>
       /\ call.op = "frames" /\ call.frame <= Total
       /\ Begins(call.frame, call.from)
       /\ call.got = Count[pos] - call.frame
  /\ rpc = "frames" => call.got < call.count
  /\ rpc = "return" =>
       call.got = IF Total - call.frame < call.count THEN Total - call.frame ELSE call.count

\* What the last call returned.
ResultRight ==
  /\ result.call.op = "seek" =>
       /\ result.ok <=> result.call.frame <= Total
       /\ result.ok => Begins(cur, pos) /\ cur = result.call.frame
  /\ result.call.op = "max" =>
       /\ max = -1 => disk[Len(disk)] = "torn"
       /\ Here = result.was
  /\ result.call.op = "frames" =>
       /\ result.ok <=> result.call.frame <= Total
       /\ result.ok =>
            LET left == Total - result.call.frame
            IN /\ Begins(result.call.frame, result.call.from)
               /\ result.at \in 0..Len(disk)
               /\ result.call.got = Count[result.at] - result.call.frame
               /\ result.call.got = IF left < result.call.count THEN left
                                    ELSE result.call.count
       /\ Here = result.was

ReaderInv ==
  /\ rpc # "closed" =>
       /\ Over /\ disk # <<>> /\ disk[1] = "sof"
       /\ ReaderTypeOK /\ ReaderKnows /\ InCall /\ ResultRight
  /\ rpc = "closed" => call = NoCall /\ saved = NoPlace /\ result = NoResult

FileInv == WriterInv /\ ReaderInv

-----------------------------------------------------------------------------
(* Counting swaps.                                                           *)

\* There are not more swaps than items.
LEMMA SwapsType ==
  ASSUME NEW s, NEW n \in Nat
  PROVE  /\ IsFiniteSet({i \in 1..n : s[i] = "swap"})
         /\ SwapsIn(s, n) \in Nat
<1>1. IsFiniteSet(1..n)
  BY FS_Interval
<1>2. IsFiniteSet({i \in 1..n : s[i] = "swap"})
  <2>1. {i \in 1..n : s[i] = "swap"} \in SUBSET (1..n)
    OBVIOUS
  <2>. QED
    BY <1>1, <2>1, FS_Subset
<1>. QED
  BY <1>2, FS_CardinalityType DEF SwapsIn

\* An item counts if it is a swap.
LEMMA SwapsNext ==
  ASSUME NEW s, NEW n \in Nat
  PROVE  SwapsIn(s, n + 1) = SwapsIn(s, n) + (IF s[n + 1] = "swap" THEN 1 ELSE 0)
<1>. DEFINE S == {i \in 1..n : s[i] = "swap"}
            T == {i \in 1..(n + 1) : s[i] = "swap"}
<1>1. IsFiniteSet(S) /\ Cardinality(S) \in Nat
  BY SwapsType, FS_CardinalityType
<1>2. CASE s[n + 1] = "swap"
  <2>1. T = S \cup {n + 1} /\ n + 1 \notin S
    BY <1>2
  <2>. HIDE DEF S, T
  <2>2. Cardinality(T) = Cardinality(S) + 1
    BY <1>1, <2>1, FS_AddElement
  <2>. QED
    BY <1>2, <2>2 DEF SwapsIn, S, T
<1>3. CASE s[n + 1] # "swap"
  <2>1. T = S
    BY <1>3
  <2>. QED
    BY <1>1, <1>3, <2>1 DEF SwapsIn
<1>. QED
  BY <1>2, <1>3

\* Before the first item there is no swap.
LEMMA SwapsZero ==
  ASSUME NEW s
  PROVE  SwapsIn(s, 0) = 0
<1>1. {i \in 1..0 : s[i] = "swap"} = {}
  OBVIOUS
<1>. QED
  BY <1>1, FS_EmptySet DEF SwapsIn

\* The count depends on nothing but the items before the position.
LEMMA SwapsAlike ==
  ASSUME NEW s, NEW t, NEW n \in Nat, \A i \in 1..n : s[i] = t[i]
  PROVE  SwapsIn(s, n) = SwapsIn(t, n)
<1>1. {i \in 1..n : s[i] = "swap"} = {i \in 1..n : t[i] = "swap"}
  OBVIOUS
<1>. QED
  BY <1>1 DEF SwapsIn

\* The count grows with the position, and stays where there is no swap.
LEMMA SwapsGrow ==
  ASSUME NEW s, NEW a \in Nat, NEW b \in Nat, a <= b
  PROVE  /\ SwapsIn(s, a) <= SwapsIn(s, b)
         /\ (\A i \in (a + 1)..b : s[i] # "swap") => SwapsIn(s, a) = SwapsIn(s, b)
         /\ a < b /\ s[b] = "swap" => SwapsIn(s, a) < SwapsIn(s, b)
<1>. DEFINE S == {i \in 1..a : s[i] = "swap"}
            T == {i \in 1..b : s[i] = "swap"}
<1>1. IsFiniteSet(T) /\ Cardinality(S) \in Nat /\ Cardinality(T) \in Nat
  BY SwapsType DEF SwapsIn
<1>2. S \in SUBSET T
  OBVIOUS
<1>3. ASSUME \A i \in (a + 1)..b : s[i] # "swap" PROVE S = T
  BY <1>3
<1>4. ASSUME a < b, s[b] = "swap" PROVE b \in T /\ b \notin S
  BY <1>4
<1>. HIDE DEF S, T
<1>5. Cardinality(S) <= Cardinality(T) /\ (Cardinality(T) = Cardinality(S) => T = S)
  BY <1>1, <1>2, FS_Subset
<1>6. SwapsIn(s, a) = Cardinality(S) /\ SwapsIn(s, b) = Cardinality(T)
  BY DEF SwapsIn, S, T
<1>7. (\A i \in (a + 1)..b : s[i] # "swap") => SwapsIn(s, a) = SwapsIn(s, b)
  BY <1>3, <1>6
<1>8. a < b /\ s[b] = "swap" => SwapsIn(s, a) < SwapsIn(s, b)
  <2>. SUFFICES ASSUME a < b, s[b] = "swap" PROVE Cardinality(S) < Cardinality(T)
    BY <1>6
  <2>1. T # S
    BY <1>4
  <2>. QED
    BY <1>1, <1>5, <2>1
<1>. QED
  BY <1>5, <1>6, <1>7, <1>8

\* The tracer writes at most MaxPackets swaps.
LEMMA SwapsBound ==
  ASSUME NEW s, NEW n \in Nat, MaxPackets \in Nat,
         \A i \in 1..n : s[i] = "swap" => i \in 3..(MaxPackets + 2)
  PROVE  SwapsIn(s, n) <= MaxPackets
<1>. DEFINE S == {i \in 1..n : s[i] = "swap"}
<1>1. IsFiniteSet(3..(MaxPackets + 2)) /\ Cardinality(3..(MaxPackets + 2)) = MaxPackets
  BY FS_Interval
<1>2. S \in SUBSET (3..(MaxPackets + 2))
  OBVIOUS
<1>3. Cardinality(S) <= MaxPackets
  <2>. HIDE DEF S
  <2>. QED
    BY <1>1, <1>2, FS_Subset
<1>. QED
  BY <1>3 DEF SwapsIn

-----------------------------------------------------------------------------
(* What is in the stream.                                                    *)

\* One more item in the buffer is one more item in the stream.
LEMMA StreamAppend ==
  ASSUME NEW d \in Seq(Kinds), NEW b \in Seq(Kinds), NEW k \in Kinds
  PROVE  d \o Append(b, k) = Append(d \o b, k)
<1>. DEFINE s == d \o Append(b, k)
            t == Append(d \o b, k)
<1>1. s \in Seq(Kinds) /\ t \in Seq(Kinds) /\ Len(s) = Len(t)
  OBVIOUS
<1>2. \A i \in 1..Len(s) : s[i] = t[i]
  OBVIOUS
<1>. QED
  BY <1>1, <1>2, SeqEqual

\* Empty buffers add nothing.
LEMMA StreamEmpty ==
  ASSUME NEW d \in Seq(Kinds)
  PROVE  d \o <<>> = d
BY ConcatEmptySeq

\* What is cut off leaves the first items, and perhaps a torn one.
LEMMA CutItems ==
  ASSUME disk \in Seq(Kinds), NEW items \in Seq(Kinds), NEW d \in Cut(items)
  PROVE  \E n \in 0..Len(items) :
           /\ d \in Seq(Kinds)
           /\ Len(d) \in {Len(disk) + n, Len(disk) + n + 1}
           /\ Len(d) = Len(disk) + n + 1 =>
                n < Len(items) /\ d[Len(disk) + n + 1] = "torn"
           /\ \A i \in 1..(Len(disk) + n) : d[i] = (disk \o items)[i]
<1>1. PICK n \in 0..Len(items) :
        \/ d = disk \o SubSeq(items, 1, n)
        \/ n < Len(items) /\ d = Append(disk \o SubSeq(items, 1, n), "torn")
  <2>1. \/ \E n \in 0..Len(items) : d = disk \o SubSeq(items, 1, n)
        \/ \E n \in 0..(Len(items) - 1) : d = Append(disk \o SubSeq(items, 1, n), "torn")
    BY Zenon DEF Cut
  <2>2. \A n \in 0..(Len(items) - 1) : n \in 0..Len(items) /\ n < Len(items)
    OBVIOUS
  <2>. QED
    BY <2>1, <2>2
<1>. DEFINE b == SubSeq(items, 1, n)
<1>2. b \in Seq(Kinds) /\ Len(b) = n /\ \A i \in 1..n : b[i] = items[i]
  <2>1. \A i \in 1..n : items[i] \in Kinds
    BY ElementOfSeq
  <2>. QED
    BY <2>1, SubSeqProperties
<1>. HIDE DEF b
<1>3. "torn" \in Kinds
  BY DEF Kinds
<1>4. d = disk \o b \/ (n < Len(items) /\ d = Append(disk \o b, "torn"))
  BY <1>1 DEF b
<1>5. /\ disk \o b \in Seq(Kinds) /\ Len(disk \o b) = Len(disk) + n
      /\ \A i \in 1..(Len(disk) + n) : (disk \o b)[i] = (disk \o items)[i]
  BY <1>2
<1>. HIDE DEF Kinds
<1>6. /\ d \in Seq(Kinds)
      /\ Len(d) \in {Len(disk) + n, Len(disk) + n + 1}
      /\ Len(d) = Len(disk) + n + 1 => n < Len(items) /\ d[Len(disk) + n + 1] = "torn"
      /\ \A i \in 1..(Len(disk) + n) : d[i] = (disk \o items)[i]
  <2>1. CASE d = disk \o b
    BY <1>5, <2>1
  <2>2. CASE n < Len(items) /\ d = Append(disk \o b, "torn")
    BY <1>3, <1>5, <2>2
  <2>. QED
    BY <1>4, <2>1, <2>2
<1>. QED
  BY <1>6

\* Nothing can be cut off an empty buffer.
LEMMA CutNothing ==
  ASSUME disk \in Seq(Kinds), NEW d \in Cut(<<>>)
  PROVE  d = disk
<1>1. <<>> \in Seq(Kinds) /\ Len(<<>>) = 0
  OBVIOUS
<1>2. PICK n \in 0..Len(<<>>) :
           /\ d \in Seq(Kinds)
           /\ Len(d) \in {Len(disk) + n, Len(disk) + n + 1}
           /\ Len(d) = Len(disk) + n + 1 =>
                n < Len(<<>>) /\ d[Len(disk) + n + 1] = "torn"
           /\ \A i \in 1..(Len(disk) + n) : d[i] = (disk \o <<>>)[i]
  BY <1>1, CutItems
<1>3. Len(d) = Len(disk) /\ \A i \in 1..Len(d) : d[i] = disk[i]
  BY <1>1, <1>2, StreamEmpty
<1>. QED
  BY <1>2, <1>3, SeqEqual

\* What is left of a trace is a trace, as far as it goes.
LEMMA CutWellFormed ==
  ASSUME disk \in Seq(Kinds), NEW items \in Seq(Kinds), NEW d \in Cut(items),
         WellFormed(disk \o items), NoneTorn(disk \o items)
  PROVE  d \in Seq(Kinds) /\ WellFormed(d)
<1>. DEFINE s == disk \o items
<1>1. s \in Seq(Kinds) /\ Len(s) = Len(disk) + Len(items)
  OBVIOUS
<1>2. WellFormed(s) /\ NoneTorn(s)
  OBVIOUS
<1>3. PICK n \in 0..Len(items) :
           /\ d \in Seq(Kinds)
           /\ Len(d) \in {Len(disk) + n, Len(disk) + n + 1}
           /\ Len(d) = Len(disk) + n + 1 =>
                n < Len(items) /\ d[Len(disk) + n + 1] = "torn"
           /\ \A i \in 1..(Len(disk) + n) : d[i] = s[i]
  BY CutItems
<1>. HIDE DEF s
<1>. DEFINE m == Len(disk) + n
<1>4. /\ m \in Nat /\ m <= Len(s)
      /\ \A i \in 1..m : d[i] = s[i]
      /\ Len(d) = m \/ (Len(d) = m + 1 /\ m < Len(s) /\ d[m + 1] = "torn")
  BY <1>1, <1>3
<1>. HIDE DEF m
<1>5. d # <<>> => d[1] \in {"sof", "torn"}
  <2>. SUFFICES ASSUME d # <<>> PROVE d[1] \in {"sof", "torn"}
    OBVIOUS
  <2>1. Len(d) >= 1
    BY <1>3
  <2>2. CASE m = 0
    BY <1>4, <2>1, <2>2
  <2>3. CASE m >= 1
    <3>1. s # <<>> /\ d[1] = s[1]
      BY <1>1, <1>4, <2>3
    <3>. QED
      BY <1>2, <3>1 DEF WellFormed
  <2>. QED
    BY <1>4, <2>2, <2>3
<1>6. ASSUME NEW i \in 1..Len(d), d[i] # "torn"
      PROVE  i \in 1..m /\ i \in 1..Len(s) /\ d[i] = s[i]
  BY <1>1, <1>4, <1>6
<1>7. ASSUME NEW i \in 1..Len(d), d[i] = "torn"
      PROVE  i = Len(d)
  BY <1>1, <1>2, <1>4, <1>7 DEF NoneTorn
<1>8. ASSUME NEW i \in 1..Len(d), d[i] = "archive"
      PROVE  i = Len(d) /\ i > 1 /\ d[i - 1] = "eof"
  <2>1. i \in 1..m /\ i \in 1..Len(s) /\ s[i] = "archive"
    BY <1>6, <1>8
  <2>2. i = Len(s) /\ i > 1 /\ s[i - 1] = "eof"
    BY <1>2, <2>1 DEF WellFormed
  <2>3. i = m /\ m = Len(s) /\ i - 1 \in 1..m
    BY <1>4, <2>1, <2>2
  <2>. QED
    BY <1>4, <2>2, <2>3
<1>9. ASSUME NEW i \in 1..Len(d), d[i] = "eof", NEW j \in 1..Len(d), j > i
      PROVE  d[j] \in {"archive", "torn"}
  <2>1. i \in 1..Len(s) /\ s[i] = "eof"
    BY <1>6, <1>9
  <2>2. CASE d[j] # "torn"
    <3>1. j \in 1..Len(s) /\ d[j] = s[j]
      BY <1>6, <2>2
    <3>. QED
      BY <1>2, <1>9, <2>1, <3>1 DEF WellFormed
  <2>. QED
    BY <2>2
<1>10. ASSUME NEW i \in 1..Len(d)
       PROVE  (d[i] = "sof" => i = 1) /\ (d[i] = "swap" => i \in 3..(MaxPackets + 2))
  BY <1>2, <1>6 DEF WellFormed
<1>. QED
  BY <1>3, <1>5, <1>7, <1>8, <1>9, <1>10 DEF WellFormed

-----------------------------------------------------------------------------
(* The writer.                                                               *)

\* No room is made on a disk that was full.
NoRoom == "room" \notin Faults

\* A stream that has no item too many yet takes one more.
LEMMA AppendWellFormed ==
  ASSUME NEW s \in Seq(Kinds), NEW k \in {"packet", "swap", "eof", "archive"},
         WellFormed(s), NoneTorn(s), MaxPackets \in Nat,
         Len(s) > 1, s[1] = "sof",
         \A i \in 1..(Len(s) - 1) : s[i] \in {"sof", "packet", "swap"},
         k = "archive" => s[Len(s)] = "eof",
         k # "archive" => s[Len(s)] \in {"sof", "packet", "swap"},
         k = "swap" => Len(s) < MaxPackets + 2
  PROVE  WellFormed(Append(s, k)) /\ NoneTorn(Append(s, k))
<1>. DEFINE t == Append(s, k)
<1>1. /\ k \in Kinds /\ t \in Seq(Kinds) /\ Len(s) \in Nat /\ Len(t) = Len(s) + 1
      /\ t[Len(t)] = k /\ \A i \in 1..Len(s) : t[i] = s[i]
  BY DEF Kinds
<1>. HIDE DEF t
<1>2. NoneTorn(t)
  <2>1. \A i \in 1..Len(t) : i \in 1..Len(s) \/ i = Len(t)
    BY <1>1
  <2>. QED
    BY <1>1, <2>1 DEF NoneTorn
<1>3. t[1] = "sof"
  BY <1>1
<1>4. ASSUME NEW i \in 1..Len(t), i # Len(t)
      PROVE  i \in 1..Len(s) /\ t[i] = s[i]
  BY <1>1, <1>4
<1>5. ASSUME NEW i \in 1..Len(t)
      PROVE  /\ t[i] = "sof" => i = 1
             /\ t[i] = "swap" => i \in 3..(MaxPackets + 2)
             /\ t[i] = "torn" => i = Len(t)
             /\ t[i] = "eof" => \A j \in 1..Len(t) : j > i => t[j] \in {"archive", "torn"}
             /\ t[i] = "archive" => i = Len(t) /\ i > 1 /\ t[i - 1] = "eof"
  <2>1. CASE i = Len(t)
    <3>1. k = "archive" => t[i - 1] = "eof"
      BY <1>1, <2>1
    <3>2. k = "swap" => i \in 3..(MaxPackets + 2)
      BY <1>1, <2>1
    <3>. QED
      BY <1>1, <2>1, <3>1, <3>2
  <2>2. CASE i # Len(t)
    <3>1. i \in 1..Len(s) /\ t[i] = s[i]
      BY <1>4, <2>2
    <3>2. CASE i = Len(s)
      <4>1. s[i] = "eof" => k = "archive"
        BY <3>2
      <4>2. s[i] # "archive"
        BY <3>2
      <4>3. \A j \in 1..Len(t) : j > i => t[j] = k
        BY <1>1, <3>1, <3>2
      <4>. QED
        BY <1>1, <3>1, <4>1, <4>2, <4>3 DEF WellFormed, NoneTorn
    <3>3. CASE i # Len(s)
      <4>1. s[i] \in {"sof", "packet", "swap"}
        BY <3>1, <3>3
      <4>. QED
        BY <3>1, <4>1 DEF WellFormed
    <3>. QED
      BY <3>2, <3>3
  <2>. QED
    BY <2>1, <2>2
<1>6. WellFormed(t)
  BY <1>3, <1>5 DEF WellFormed
<1>. QED
  BY <1>2, <1>6 DEF t

\* A frame ends with a swap, and with nothing else.
LEMMA EndsAppend ==
  ASSUME NEW s \in Seq(Kinds), NEW e \in Seq(Nat), NEW k \in Kinds, EndsRight(s, e)
  PROVE  /\ k # "swap" => EndsRight(Append(s, k), e)
         /\ k = "swap" => EndsRight(Append(s, k), Append(e, Len(s) + 1))
<1>. DEFINE t == Append(s, k)
            n == Len(s)
<1>1. /\ t \in Seq(Kinds) /\ n \in Nat /\ Len(t) = n + 1
      /\ t[n + 1] = k /\ \A i \in 1..n : t[i] = s[i]
  OBVIOUS
<1>. HIDE DEF t, n
<1>2. \A m \in 0..n : SwapsIn(t, m) = SwapsIn(s, m)
  <2>. TAKE m \in 0..n
  <2>1. m \in Nat /\ \A i \in 1..m : t[i] = s[i]
    BY <1>1
  <2>. QED
    BY <2>1, SwapsAlike
<1>3. SwapsIn(t, n + 1) = SwapsIn(s, n) + (IF k = "swap" THEN 1 ELSE 0)
  <2>1. n \in 0..n
    BY <1>1
  <2>. QED
    BY <1>1, <1>2, <2>1, SwapsNext
<1>4. SwapsIn(s, n) \in Nat /\ Len(e) = SwapsIn(s, n) + 1
  BY <1>1, SwapsType DEF EndsRight, n
<1>5. \A i \in 1..Len(e) : /\ e[i] \in 1..n /\ e[i] \in 1..(n + 1)
                           /\ SwapsIn(t, e[i]) = i - 1
                           /\ t[e[i]] \in {"sof", "swap"}
  <2>. TAKE i \in 1..Len(e)
  <2>1. e[i] \in 1..n /\ SwapsIn(s, e[i]) = i - 1 /\ s[e[i]] \in {"sof", "swap"}
    BY DEF EndsRight, n
  <2>2. e[i] \in 0..n /\ e[i] \in 1..(n + 1)
    BY <1>1, <2>1
  <2>. QED
    BY <1>1, <1>2, <2>1, <2>2
<1>6. CASE k # "swap"
  BY <1>1, <1>3, <1>4, <1>5, <1>6 DEF EndsRight, t
<1>7. CASE k = "swap"
  <2>. DEFINE f == Append(e, n + 1)
  <2>1. /\ f \in Seq(Nat) /\ Len(f) = Len(e) + 1 /\ Len(e) \in Nat
        /\ f[Len(e) + 1] = n + 1 /\ \A i \in 1..Len(e) : f[i] = e[i]
    BY <1>1
  <2>. HIDE DEF f
  <2>2. \A i \in 1..Len(f) : /\ f[i] \in 1..Len(t)
                             /\ SwapsIn(t, f[i]) = i - 1
                             /\ t[f[i]] \in {"sof", "swap"}
    <3>. TAKE i \in 1..Len(f)
    <3>1. CASE i \in 1..Len(e)
      BY <1>1, <1>5, <2>1, <3>1
    <3>2. CASE i = Len(e) + 1
      BY <1>1, <1>3, <1>4, <1>7, <2>1, <3>2
    <3>. QED
      BY <2>1, <3>1, <3>2
  <2>3. Len(f) = SwapsIn(t, Len(t)) + 1
    BY <1>1, <1>3, <1>4, <1>7, <2>1
  <2>. QED
    BY <1>7, <2>2, <2>3 DEF EndsRight, f, t, n
<1>. QED
  BY <1>6, <1>7 DEF t, n

\* Init
LEMMA WriterInit == Init => WriterInv
<1>. SUFFICES ASSUME Init PROVE WriterInv
  OBVIOUS
<1>. DEFINE s == <<"sof", "packet">>
<1>1. Stream = s /\ s \in Seq(Kinds) /\ Len(s) = 2 /\ s[1] = "sof" /\ s[2] = "packet"
  BY DEF Init, Stream, Kinds
<1>2. ends \in Seq(Nat) /\ Len(ends) = 1 /\ ends[1] = 1
  BY DEF Init
<1>3. WellFormed(s) /\ NoneTorn(s)
  <2>. HIDE DEF s
  <2>. QED
    BY <1>1 DEF WellFormed, NoneTorn
<1>4. EndsRight(s, ends)
  <2>. HIDE DEF s
  <2>1. SwapsIn(s, 1) = 0 /\ SwapsIn(s, 2) = 0
    <3>1. \A i \in (0 + 1)..2 : s[i] # "swap"
      BY <1>1
    <3>2. \A i \in (0 + 1)..1 : s[i] # "swap"
      BY <3>1
    <3>3. SwapsIn(s, 0) = SwapsIn(s, 1)
      BY <3>2, SwapsGrow
    <3>4. SwapsIn(s, 0) = SwapsIn(s, 2)
      BY <3>1, SwapsGrow
    <3>. QED
      BY <3>3, <3>4, SwapsZero
  <2>. QED
    BY <1>1, <1>2, <2>1 DEF EndsRight
<1>5. WriterTypeOK
  <2>1. disk \in Seq(Kinds) /\ buf \in Seq(Kinds) /\ index \in Seq(Nat)
    BY <1>1 DEF Init
  <2>. QED
    BY <1>2, <2>1 DEF Init, WriterTypeOK
<1>. HIDE DEF s
<1>6. Believed
  BY <1>1, <1>3, <1>4 DEF Init, Believed
<1>. QED
  BY <1>1, <1>3, <1>5, <1>6, TraceFileAssumption DEF Init, WriterInv, Over

\* A write that fails leaves a trace, as far as it goes, and an empty buffer.
LEMMA WriterRefused ==
  ASSUME WriterInv, NoRoom, ~Over, NEW items \in Seq(Kinds),
         ~full => WellFormed(disk \o items) /\ NoneTorn(disk \o items),
         Refused(items)
  PROVE  /\ disk' \in Seq(Kinds) /\ buf' = <<>> /\ buf' \in Seq(Kinds) /\ full' = TRUE
         /\ size' = size /\ WellFormed(Stream')
<1>1. disk \in Seq(Kinds) /\ full \in BOOLEAN
  BY DEF WriterInv, WriterTypeOK
<1>2. buf' = <<>> /\ full' = TRUE /\ size' = size /\ <<>> \in Seq(Kinds)
  BY DEF Refused
<1>3. disk' \in Seq(Kinds) /\ WellFormed(disk')
  <2>1. CASE full
    <3>1. disk' = disk
      BY <2>1 DEF Refused, Lost, NoRoom
    <3>2. Stream = disk
      BY <1>1, <2>1, StreamEmpty DEF Stream, WriterInv
    <3>. QED
      BY <1>1, <3>1, <3>2 DEF WriterInv
  <2>2. CASE ~full
    <3>1. disk' \in Cut(items)
      BY <2>2 DEF Refused, Lost
    <3>. QED
      BY <1>1, <2>2, <3>1, CutWellFormed
  <2>. QED
    BY <2>1, <2>2
<1>4. Stream' = disk'
  BY <1>2, <1>3, StreamEmpty DEF Stream
<1>. QED
  BY <1>2, <1>3, <1>4

\* What the buffer holds may be flushed at any time.
LEMMA WriterFlushed ==
  ASSUME WriterInv, NoRoom, Flushed
  PROVE  /\ ~full /\ full' = full /\ size' = size
         /\ disk' = Stream /\ disk' \in Seq(Kinds) /\ buf' = <<>> /\ buf' \in Seq(Kinds)
         /\ Stream' = Stream
<1>1. ~full /\ full' = full /\ size' = size /\ disk' = disk \o buf /\ buf' = <<>>
  BY DEF Flushed, Lost, NoRoom
<1>2. disk \o buf \in Seq(Kinds) /\ <<>> \in Seq(Kinds)
  BY DEF WriterInv, WriterTypeOK
<1>. QED
  BY <1>1, <1>2, StreamEmpty DEF Stream

\* An item is taken, or lost if the disk is full.
LEMMA WriterAccepted ==
  ASSUME WriterInv, NoRoom, NEW k \in Kinds, Accepted(k)
  PROVE  /\ disk' = disk /\ full' = full /\ size' = size + 1
         /\ full => buf' = buf /\ Stream' = Stream
         /\ ~full => buf' = Append(buf, k) /\ Stream' = Append(Stream, k)
         /\ buf' \in Seq(Kinds)
<1>1. disk \in Seq(Kinds) /\ buf \in Seq(Kinds) /\ full \in BOOLEAN
  BY DEF WriterInv, WriterTypeOK
<1>2. /\ disk' = disk /\ full' = full /\ size' = size + 1
      /\ buf' = IF full THEN buf ELSE Append(buf, k)
  BY DEF Accepted, Lost, NoRoom
<1>3. Append(buf, k) \in Seq(Kinds)
  BY <1>1
<1>4. disk \o Append(buf, k) = Append(disk \o buf, k)
  BY <1>1, StreamAppend
<1>. QED
  BY <1>1, <1>2, <1>3, <1>4 DEF Stream

\* What may be written next, while nothing has failed.
LEMMA WriterNext ==
  ASSUME WriterInv, ~full,
         NEW k \in {"packet", "swap", "eof", "archive"},
         k = "archive" => wpc = "archive",
         k # "archive" => wpc = "open",
         k = "swap" => size < MaxPackets + 2
  PROVE  /\ k \in Kinds /\ Append(buf, k) \in Seq(Kinds)
         /\ WellFormed(Append(Stream, k)) /\ NoneTorn(Append(Stream, k))
         /\ disk \o Append(buf, k) = Append(Stream, k)
<1>1. /\ disk \in Seq(Kinds) /\ buf \in Seq(Kinds) /\ k \in Kinds
      /\ Append(buf, k) \in Seq(Kinds)
  BY DEF WriterInv, WriterTypeOK, Kinds
<1>2. disk \o Append(buf, k) = Append(Stream, k)
  BY <1>1, StreamAppend DEF Stream
<1>3. Stream \in Seq(Kinds) /\ Len(Stream) \in Nat
  BY <1>1 DEF Stream
<1>4. /\ WellFormed(Stream) /\ NoneTorn(Stream) /\ Len(Stream) = size
      /\ size > 1 /\ Stream[1] = "sof"
      /\ wpc = "open" => \A i \in 1..Len(Stream) : Stream[i] \in {"sof", "packet", "swap"}
      /\ wpc = "archive" =>
           /\ Stream[size] = "eof"
           /\ \A i \in 1..(size - 1) : Stream[i] \in {"sof", "packet", "swap"}
  BY DEF WriterInv, Believed, Over
<1>5. \A i \in 1..(Len(Stream) - 1) : Stream[i] \in {"sof", "packet", "swap"}
  <2>1. \A i \in 1..(Len(Stream) - 1) : i \in 1..Len(Stream)
    BY <1>3
  <2>. QED
    BY <1>4, <2>1
<1>6. /\ k = "archive" => Stream[Len(Stream)] = "eof"
      /\ k # "archive" => Stream[Len(Stream)] \in {"sof", "packet", "swap"}
      /\ k = "swap" => Len(Stream) < MaxPackets + 2
  <2>1. Len(Stream) \in 1..Len(Stream)
    BY <1>3, <1>4
  <2>. QED
    BY <1>4, <2>1
<1>7. WellFormed(Append(Stream, k)) /\ NoneTorn(Append(Stream, k))
  BY <1>3, <1>4, <1>5, <1>6, AppendWellFormed, TraceFileAssumption
<1>. QED
  BY <1>1, <1>2, <1>7

\* write_packet
LEMMA WriterWritePacket ==
  ASSUME WriterInv, NoRoom, WritePacket
  PROVE  WriterInv'
<1>1. PICK k \in {"packet", "swap"} :
        \/ Accepted(k) /\ ends' = NewEnds(k)
        \/ Refused(Append(buf, k)) /\ UNCHANGED ends
  BY DEF WritePacket
<1>2. /\ wpc = "open" /\ size < MaxPackets + 2 /\ WriterTypeOK /\ MaxPackets \in Nat
      /\ UNCHANGED <<wpc, success, archive, sof, index>> /\ ~Over /\ sof = 0
  BY TraceFileAssumption DEF WritePacket, WriterInv, Over
<1>3. /\ k \in Kinds /\ Append(buf, k) \in Seq(Kinds)
      /\ ~full => /\ WellFormed(Append(Stream, k)) /\ NoneTorn(Append(Stream, k))
                  /\ disk \o Append(buf, k) = Append(Stream, k)
  <2>1. k \in Kinds /\ buf \in Seq(Kinds)
    BY <1>2 DEF WriterTypeOK, Kinds
  <2>. QED
    BY <1>2, <2>1, WriterNext
<1>4. CASE Refused(Append(buf, k)) /\ UNCHANGED ends
  <2>1. /\ disk' \in Seq(Kinds) /\ buf' = <<>> /\ buf' \in Seq(Kinds) /\ full' = TRUE
        /\ size' = size
        /\ WellFormed(Stream')
    BY <1>2, <1>3, <1>4, WriterRefused
  <2>2. WriterTypeOK'
    BY <1>2, <1>4, <2>1 DEF WriterTypeOK
  <2>. QED
    BY <1>2, <2>1, <2>2 DEF WriterInv, Over, WriterTypeOK
<1>5. CASE Accepted(k) /\ ends' = NewEnds(k)
  <2>1. /\ disk' = disk /\ full' = full /\ size' = size + 1
        /\ full => buf' = buf /\ Stream' = Stream
        /\ ~full => buf' = Append(buf, k) /\ Stream' = Append(Stream, k)
        /\ buf' \in Seq(Kinds)
    BY <1>3, <1>5, WriterAccepted
  <2>2. ends' \in Seq(Nat)
    BY <1>2, <1>5 DEF NewEnds, WriterTypeOK
  <2>3. WriterTypeOK' /\ size' <= MaxPackets + 2
    BY <1>2, <2>1, <2>2 DEF WriterTypeOK
  <2>4. CASE full
    BY <1>2, <2>1, <2>3, <2>4 DEF WriterInv, Over
  <2>5. CASE ~full
    <3>. DEFINE s == Stream
                t == Append(s, k)
    <3>1. /\ s \in Seq(Kinds) /\ Len(s) = size /\ EndsRight(s, ends) /\ size > 1
          /\ s[1] = "sof" /\ \A i \in 1..Len(s) : s[i] \in {"sof", "packet", "swap"}
      BY <1>2, <2>5 DEF WriterInv, Believed, WriterTypeOK, Stream
    <3>2. Stream' = t /\ WellFormed(t) /\ NoneTorn(t)
      BY <1>3, <2>1, <2>5
    <3>. HIDE DEF s
    <3>3. /\ t \in Seq(Kinds) /\ Len(t) = size + 1 /\ t[1] = "sof"
          /\ \A i \in 1..Len(t) : t[i] \in {"sof", "packet", "swap"}
      BY <1>3, <3>1
    <3>4. EndsRight(t, ends')
      BY <1>2, <1>3, <1>5, <3>1, EndsAppend DEF NewEnds, WriterTypeOK
    <3>. HIDE DEF t
    <3>5. Believed'
      BY <1>2, <2>1, <3>1, <3>2, <3>3, <3>4 DEF Believed
    <3>. QED
      BY <1>2, <2>1, <2>3, <2>5, <3>2, <3>5 DEF WriterInv, Over
  <2>. QED
    BY <1>2, <2>4, <2>5 DEF WriterTypeOK
<1>. QED
  BY <1>1, <1>4, <1>5

\* The flush after a swap or a call.
LEMMA WriterFlush ==
  ASSUME WriterInv, NoRoom, Flush
  PROVE  WriterInv'
<1>1. /\ wpc = "open" /\ ~Over /\ WriterTypeOK /\ Stream \in Seq(Kinds) /\ sof = 0
      /\ UNCHANGED <<wpc, ends, success, archive, sof, index>>
      /\ size <= MaxPackets + 2
  BY DEF Flush, WriterInv, Over, WriterTypeOK, Stream
<1>2. CASE Refused(buf)
  <2>1. ~full => WellFormed(disk \o buf) /\ NoneTorn(disk \o buf)
    BY <1>1 DEF WriterInv, Believed, Stream
  <2>2. /\ disk' \in Seq(Kinds) /\ buf' = <<>> /\ buf' \in Seq(Kinds) /\ full' = TRUE
        /\ size' = size
        /\ WellFormed(Stream')
    BY <1>1, <1>2, <2>1, WriterRefused DEF WriterTypeOK
  <2>3. WriterTypeOK'
    BY <1>1, <2>2 DEF WriterTypeOK
  <2>. QED
    BY <1>1, <2>2, <2>3 DEF WriterInv, Over
<1>3. CASE Flushed
  <2>1. /\ ~full /\ full' = full /\ size' = size
        /\ disk' = Stream /\ disk' \in Seq(Kinds) /\ buf' = <<>> /\ buf' \in Seq(Kinds)
        /\ Stream' = Stream
    BY <1>3, WriterFlushed
  <2>2. WriterTypeOK'
    BY <1>1, <2>1 DEF WriterTypeOK
  <2>3. Believed'
    BY <1>1, <2>1 DEF Believed, WriterInv
  <2>. QED
    BY <1>1, <2>1, <2>2, <2>3 DEF WriterInv, Over
<1>. QED
  BY <1>2, <1>3 DEF Flush

\* The end of file packet of close
LEMMA WriterWriteEof ==
  ASSUME WriterInv, NoRoom, WriteEof
  PROVE  WriterInv'
<1>1. /\ wpc = "open" /\ ~Over /\ WriterTypeOK /\ sof = 0
      /\ UNCHANGED <<ends, archive, sof, index>>
  BY DEF WriteEof, WriterInv, Over
<1>2. /\ "eof" \in Kinds /\ Append(buf, "eof") \in Seq(Kinds)
      /\ ~full => /\ WellFormed(Append(Stream, "eof")) /\ NoneTorn(Append(Stream, "eof"))
                  /\ disk \o Append(buf, "eof") = Append(Stream, "eof")
  <2>1. "eof" \in Kinds /\ buf \in Seq(Kinds)
    BY <1>1 DEF WriterTypeOK, Kinds
  <2>. QED
    BY <1>1, <2>1, WriterNext
<1>3. CASE Refused(Append(buf, "eof")) /\ wpc' = "close" /\ success' = FALSE
  <2>1. /\ disk' \in Seq(Kinds) /\ buf' = <<>> /\ buf' \in Seq(Kinds) /\ full' = TRUE
        /\ size' = size
        /\ WellFormed(Stream')
    BY <1>1, <1>2, <1>3, WriterRefused
  <2>2. WriterTypeOK'
    BY <1>1, <1>3, <2>1 DEF WriterTypeOK
  <2>. QED
    BY <1>1, <1>3, <2>1, <2>2 DEF WriterInv, Over
<1>4. CASE Accepted("eof") /\ wpc' = "archive" /\ UNCHANGED success
  <2>1. /\ disk' = disk /\ full' = full /\ size' = size + 1
        /\ full => buf' = buf /\ Stream' = Stream
        /\ ~full => buf' = Append(buf, "eof") /\ Stream' = Append(Stream, "eof")
        /\ buf' \in Seq(Kinds)
    BY <1>2, <1>4, WriterAccepted
  <2>2. WriterTypeOK'
    BY <1>1, <1>4, <2>1 DEF WriterTypeOK
  <2>3. CASE full
    BY <1>1, <1>4, <2>1, <2>2, <2>3 DEF WriterInv, Over
  <2>4. CASE ~full
    <3>. DEFINE s == Stream
                t == Append(s, "eof")
    <3>1. /\ s \in Seq(Kinds) /\ Len(s) = size /\ EndsRight(s, ends) /\ size > 1
          /\ s[1] = "sof" /\ \A i \in 1..Len(s) : s[i] \in {"sof", "packet", "swap"}
      BY <1>1, <2>4 DEF WriterInv, Believed, WriterTypeOK, Stream
    <3>2. Stream' = t /\ WellFormed(t) /\ NoneTorn(t)
      BY <1>2, <2>1, <2>4
    <3>. HIDE DEF s
    <3>3. /\ t \in Seq(Kinds) /\ Len(t) = size + 1 /\ t[1] = "sof" /\ t[size + 1] = "eof"
          /\ \A i \in 1..size : t[i] \in {"sof", "packet", "swap"}
      BY <1>2, <3>1
    <3>4. EndsRight(t, ends)
      BY <1>1, <1>2, <3>1, EndsAppend DEF WriterTypeOK
    <3>. HIDE DEF t
    <3>5. Believed'
      BY <1>1, <1>4, <2>1, <3>1, <3>2, <3>3, <3>4 DEF Believed
    <3>. QED
      BY <1>1, <1>4, <2>1, <2>2, <2>4, <3>2, <3>5 DEF WriterInv, Over
  <2>. QED
    BY <1>1, <2>3, <2>4 DEF WriterTypeOK
<1>. QED
  BY <1>3, <1>4 DEF WriteEof

\* The archive is copied behind the packets.
LEMMA WriterCopyArchive ==
  ASSUME WriterInv, NoRoom, CopyArchive
  PROVE  WriterInv'
<1>1. /\ wpc = "archive" /\ ~Over /\ WriterTypeOK /\ sof = 0
      /\ archive' = size /\ index' = ends /\ UNCHANGED <<ends, sof>>
      /\ wpc' = IF success' THEN "sof" ELSE "close"
  BY DEF CopyArchive, WriterInv, Over
<1>2. /\ "archive" \in Kinds /\ Append(buf, "archive") \in Seq(Kinds)
      /\ ~full => /\ WellFormed(Append(Stream, "archive"))
                  /\ NoneTorn(Append(Stream, "archive"))
                  /\ disk \o Append(buf, "archive") = Append(Stream, "archive")
  <2>1. "archive" \in Kinds /\ buf \in Seq(Kinds)
    BY <1>1 DEF WriterTypeOK, Kinds
  <2>. QED
    BY <1>1, <2>1, WriterNext
<1>3. CASE Refused(Append(buf, "archive")) /\ success' = FALSE
  <2>1. /\ disk' \in Seq(Kinds) /\ buf' = <<>> /\ buf' \in Seq(Kinds) /\ full' = TRUE
        /\ size' = size
        /\ WellFormed(Stream')
    BY <1>1, <1>2, <1>3, WriterRefused
  <2>2. WriterTypeOK'
    BY <1>1, <1>3, <2>1 DEF WriterTypeOK
  <2>. QED
    BY <1>1, <1>3, <2>1, <2>2 DEF WriterInv, Over
<1>4. CASE Accepted("archive") /\ UNCHANGED success
  <2>1. /\ disk' = disk /\ full' = full /\ size' = size + 1
        /\ full => buf' = buf /\ Stream' = Stream
        /\ ~full => buf' = Append(buf, "archive") /\ Stream' = Append(Stream, "archive")
        /\ buf' \in Seq(Kinds)
    BY <1>2, <1>4, WriterAccepted
  <2>2. WriterTypeOK'
    BY <1>1, <1>4, <2>1 DEF WriterTypeOK
  <2>3. wpc' = "close" => ~success'
    BY <1>1, <1>4
  <2>4. CASE full
    BY <1>1, <2>1, <2>2, <2>3, <2>4 DEF WriterInv, Over
  <2>5. CASE ~full
    <3>. DEFINE s == Stream
                t == Append(s, "archive")
    <3>1. /\ s \in Seq(Kinds) /\ Len(s) = size /\ EndsRight(s, ends) /\ size > 1
          /\ s[1] = "sof"
      BY <1>1, <2>5 DEF WriterInv, Believed, WriterTypeOK, Stream
    <3>2. Stream' = t /\ WellFormed(t) /\ NoneTorn(t)
      BY <1>2, <2>1, <2>5
    <3>. HIDE DEF s
    <3>3. t \in Seq(Kinds) /\ Len(t) = size + 1 /\ t[1] = "sof" /\ t[size + 1] = "archive"
      BY <1>2, <3>1
    <3>4. EndsRight(t, ends)
      BY <1>1, <1>2, <3>1, EndsAppend DEF WriterTypeOK
    <3>. HIDE DEF t
    <3>5. Believed'
      BY <1>1, <2>1, <3>1, <3>2, <3>3, <3>4 DEF Believed
    <3>. QED
      BY <1>1, <2>1, <2>2, <2>3, <2>5, <3>2, <3>5 DEF WriterInv, Over
  <2>. QED
    BY <1>1, <2>4, <2>5 DEF WriterTypeOK
<1>. QED
  BY <1>3, <1>4 DEF CopyArchive

\* The archive cannot be written.
LEMMA WriterArchiveFails ==
  ASSUME WriterInv, ArchiveFails
  PROVE  WriterInv'
<1>1. /\ wpc = "archive" /\ wpc' = "close" /\ ~success' /\ success' \in BOOLEAN
      /\ UNCHANGED <<size, ends, archive, full, disk, buf, sof, index>> /\ Stream' = Stream
  BY DEF ArchiveFails, Stream
<1>2. WriterTypeOK'
  BY <1>1 DEF WriterInv, WriterTypeOK
<1>3. ~full => Believed'
  BY <1>1 DEF WriterInv, Believed, Over
<1>. QED
  BY <1>1, <1>2, <1>3 DEF WriterInv, Over

\* The flush before the start of file packet is written again.
LEMMA WriterSeekToSof ==
  ASSUME WriterInv, NoRoom, SeekToSof
  PROVE  WriterInv'
<1>1. /\ wpc = "sof" /\ ~Over /\ WriterTypeOK /\ sof = 0
      /\ UNCHANGED <<ends, archive, sof, index>>
  BY DEF SeekToSof, WriterInv, Over
<1>2. CASE Refused(buf) /\ wpc' = "close" /\ success' = FALSE
  <2>1. ~full => WellFormed(disk \o buf) /\ NoneTorn(disk \o buf)
    BY <1>1 DEF WriterInv, Believed, Stream
  <2>2. /\ disk' \in Seq(Kinds) /\ buf' = <<>> /\ buf' \in Seq(Kinds) /\ full' = TRUE
        /\ size' = size
        /\ WellFormed(Stream')
    BY <1>1, <1>2, <2>1, WriterRefused DEF WriterTypeOK
  <2>3. WriterTypeOK'
    BY <1>1, <1>2, <2>2 DEF WriterTypeOK
  <2>. QED
    BY <1>1, <1>2, <2>2, <2>3 DEF WriterInv, Over
<1>3. CASE Flushed /\ wpc' = "rewrite" /\ UNCHANGED success
  <2>1. /\ ~full /\ full' = full /\ size' = size
        /\ disk' = Stream /\ disk' \in Seq(Kinds) /\ buf' = <<>> /\ buf' \in Seq(Kinds)
        /\ Stream' = Stream
    BY <1>3, WriterFlushed
  <2>2. WriterTypeOK'
    BY <1>1, <1>3, <2>1 DEF WriterTypeOK
  <2>3. Believed'
    BY <1>1, <1>3, <2>1 DEF Believed, WriterInv
  <2>. QED
    BY <1>1, <1>3, <2>1, <2>2, <2>3 DEF WriterInv, Over
<1>. QED
  BY <1>2, <1>3 DEF SeekToSof

\* Before the start of file packet is written again, the file is whole.
LEMMA WholeBefore ==
  ASSUME WriterInv, wpc = "rewrite"
  PROVE  /\ ~full /\ buf = <<>> /\ Stream = disk /\ archive \in Nat \ {0}
         /\ NoneTorn(disk) /\ disk # <<>> /\ disk[1] = "sof"
         /\ Len(disk) = archive + 1 /\ disk[archive + 1] = "archive"
         /\ EndsRight(disk, index)
<1>1. ~full /\ buf = <<>> /\ Stream = disk
  BY StreamEmpty DEF WriterInv, Believed, Over, Stream, WriterTypeOK
<1>2. /\ NoneTorn(disk) /\ Len(disk) = size /\ size > 1 /\ disk[1] = "sof"
      /\ EndsRight(disk, ends) /\ index = ends
      /\ archive + 1 = size /\ disk[size] = "archive"
  BY <1>1 DEF WriterInv, Believed, Over
<1>. QED
  BY <1>1, <1>2 DEF WriterInv, WriterTypeOK

\* The stream is closed.
LEMMA WriterCloseStream ==
  ASSUME WriterInv, NoRoom, CloseStream
  PROVE  WriterInv'
<1>1. /\ wpc \in {"rewrite", "close"} /\ ~Over /\ WriterTypeOK /\ sof = 0 /\ wpc' = "done"
      /\ UNCHANGED <<ends, archive, index>> /\ Stream \in Seq(Kinds)
      /\ wpc = "close" => ~success
  BY DEF CloseStream, WriterInv, Over, WriterTypeOK, Stream
<1>2. ~full => WellFormed(disk \o buf) /\ NoneTorn(disk \o buf)
  BY <1>1 DEF WriterInv, Believed, Stream
<1>3. /\ disk' \in Seq(Kinds) /\ buf' = <<>> /\ WellFormed(Stream')
      /\ size' = size /\ full' \in BOOLEAN /\ success' \in BOOLEAN
      /\ wpc = "close" => ~success'
  <2>1. CASE Flushed /\ UNCHANGED success
    BY <1>1, <2>1, WriterFlushed DEF WriterInv, WriterTypeOK
  <2>2. CASE Refused(buf) /\ success' = FALSE
    BY <1>1, <1>2, <2>2, WriterRefused DEF WriterTypeOK
  <2>. QED
    BY <2>1, <2>2 DEF CloseStream
<1>4. CASE wpc = "close"
  <2>1. sof' = 0
    BY <1>1, <1>4 DEF CloseStream
  <2>2. WriterTypeOK'
    BY <1>1, <1>3, <2>1 DEF WriterTypeOK
  <2>. QED
    BY <1>1, <1>3, <1>4, <2>1, <2>2 DEF WriterInv, Over
<1>5. CASE wpc = "rewrite"
  <2>1. /\ ~full /\ buf = <<>> /\ Stream = disk /\ archive \in Nat \ {0}
        /\ NoneTorn(disk) /\ disk # <<>> /\ disk[1] = "sof"
        /\ Len(disk) = archive + 1 /\ disk[archive + 1] = "archive"
        /\ EndsRight(disk, index)
    BY <1>5, WholeBefore
  <2>2. disk' = disk
    <3>1. CASE Flushed
      BY <2>1, <3>1, WriterFlushed
    <3>2. CASE Refused(buf)
      <4>1. disk' \in Cut(<<>>)
        BY <2>1, <3>2 DEF Refused, Lost
      <4>. QED
        BY <1>1, <4>1, CutNothing DEF WriterTypeOK
    <3>. QED
      BY <3>1, <3>2 DEF CloseStream
  <2>3. sof' \in {0, archive} /\ (success' => sof' = archive)
    BY <1>1, <1>5 DEF CloseStream
  <2>4. WriterTypeOK'
    BY <1>1, <1>3, <2>1, <2>3 DEF WriterTypeOK
  <2>5. sof' # 0 => Whole'
    BY <1>1, <2>1, <2>2, <2>3 DEF Whole
  <2>. QED
    BY <1>1, <1>3, <2>1, <2>3, <2>4, <2>5 DEF WriterInv, Over
<1>. QED
  BY <1>1, <1>4, <1>5

\* The writer is killed.
LEMMA WriterKill ==
  ASSUME WriterInv, NoRoom, Kill
  PROVE  WriterInv'
<1>1. /\ ~Over /\ WriterTypeOK /\ sof = 0 /\ wpc' = "killed" /\ buf' = <<>>
      /\ size' = 0 /\ ends' = <<>> /\ archive' = 0 /\ success' = FALSE /\ full' = FALSE
      /\ index' = index
      /\ disk' \in IF full THEN {disk} ELSE Cut(buf)
  BY DEF Kill, WriterInv, Over, Lost, NoRoom
<1>2. disk' \in Seq(Kinds) /\ WellFormed(disk')
  <2>1. CASE full
    <3>1. disk' = disk /\ Stream = disk
      BY <1>1, <2>1, StreamEmpty DEF WriterInv, Stream, WriterTypeOK
    <3>. QED
      BY <1>1, <3>1 DEF WriterInv, WriterTypeOK
  <2>2. CASE ~full
    <3>1. WellFormed(disk \o buf) /\ NoneTorn(disk \o buf)
      BY <1>1, <2>2 DEF WriterInv, Believed, Stream
    <3>. QED
      BY <1>1, <2>2, <3>1, CutWellFormed DEF WriterTypeOK
  <2>. QED
    BY <2>1, <2>2
<1>3. WellFormed(Stream')
  BY <1>1, <1>2, StreamEmpty DEF Stream
<1>4. ends' \in Seq(Nat)
  BY <1>1
<1>5. sof' \in Nat /\ (sof' # 0 => Whole')
  <2>1. CASE wpc # "rewrite"
    BY <1>1, <2>1 DEF Kill
  <2>2. CASE wpc = "rewrite"
    <3>1. /\ ~full /\ buf = <<>> /\ Stream = disk /\ archive \in Nat \ {0}
          /\ NoneTorn(disk) /\ disk # <<>> /\ disk[1] = "sof"
          /\ Len(disk) = archive + 1 /\ disk[archive + 1] = "archive"
          /\ EndsRight(disk, index)
      BY <2>2, WholeBefore
    <3>2. disk' = disk
      BY <1>1, <3>1, CutNothing DEF WriterTypeOK
    <3>3. sof' \in {0, archive}
      BY <1>1, <2>2 DEF Kill
    <3>4. sof' # 0 => Whole'
      BY <1>1, <3>1, <3>2, <3>3 DEF Whole
    <3>. QED
      BY <3>1, <3>3, <3>4
  <2>. QED
    BY <2>1, <2>2
<1>6. WriterTypeOK'
  <2>1. buf' \in Seq(Kinds)
    BY <1>1
  <2>. QED
    BY <1>1, <1>2, <1>4, <1>5, <2>1 DEF WriterTypeOK
<1>. QED
  BY <1>1, <1>3, <1>5, <1>6 DEF WriterInv, Over

\* A step of the reader leaves what the writer has done.
LEMMA WriterKept ==
  ASSUME WriterInv, UNCHANGED writer
  PROVE  WriterInv'
<1>1. /\ UNCHANGED <<wpc, size, ends, success, archive, full, disk, buf, sof, index>>
      /\ Stream' = Stream
  BY DEF writer, Stream
<1>2. WriterTypeOK' /\ (Whole => Whole') /\ (Believed => Believed') /\ (Over' <=> Over)
  BY <1>1 DEF WriterInv, WriterTypeOK, Whole, Believed, Over
<1>. QED
  BY <1>1, <1>2 DEF WriterInv

\* Every step keeps what the writer and the file say of each other.
LEMMA WriterStep == WriterInv /\ NoRoom /\ [Next]_vars => WriterInv'
<1>. SUFFICES ASSUME WriterInv, NoRoom, [Next]_vars PROVE WriterInv'
  OBVIOUS
<1>1. CASE Write
  BY <1>1, WriterWritePacket, WriterFlush, WriterWriteEof, WriterCopyArchive,
     WriterArchiveFails, WriterSeekToSof, WriterCloseStream, WriterKill DEF Write
<1>2. CASE UNCHANGED writer
  BY <1>2, WriterKept
<1>3. CASE Open \/ Close \/ Read \/ CallSeek \/ Seek
  <2>1. UNCHANGED writer
    BY <1>3 DEF Open, Close, Read, CallSeek, Seek, SeekToKnown, Scan, SeekFails, Found,
       ReadFrames, FramesReturn
  <2>. QED
    BY <1>2, <2>1
<1>. QED
  BY <1>1, <1>2, <1>3 DEF Next, vars

\* What the invariant says of the start of file packet.
LEMMA WriterImplies == WriterInv => ArchiveIsWhole
<1>. SUFFICES ASSUME WriterInv PROVE ArchiveIsWhole
  OBVIOUS
<1>1. ASSUME sof # 0
      PROVE  /\ OpenWorks /\ Len(disk) = sof + 1
             /\ \A i \in DOMAIN index : Swaps(index[i]) = i - 1
             /\ Len(index) = Swaps(Len(disk)) + 1
  <2>1. Whole /\ disk \in Seq(Kinds) /\ index \in Seq(Nat) /\ sof \in Nat
    BY <1>1 DEF WriterInv, WriterTypeOK
  <2>2. OpenWorks
    BY <2>1 DEF OpenWorks, Whole, NoneTorn
  <2>3. DOMAIN index = 1..Len(index)
    BY <2>1
  <2>. QED
    BY <2>1, <2>2, <2>3 DEF Whole, EndsRight, Swaps, SwapsIn
<1>. QED
  BY <1>1 DEF WriterInv, ArchiveIsWhole

\* On a disk on which no room is made again: whenever the writer is killed and
\* whichever of its writes fails, a start of file packet that names an archive
\* names one that is whole and holds the end of every frame.
THEOREM ArchiveCorrect ==
  ASSUME NoRoom
  PROVE  Spec => []ArchiveIsWhole
<1>1. Init => WriterInv
  BY WriterInit
<1>2. WriterInv /\ [Next]_vars => WriterInv'
  BY WriterStep
<1>3. WriterInv => ArchiveIsWhole
  BY WriterImplies
<1>. QED
  BY <1>1, <1>2, <1>3, PTL DEF Spec

-----------------------------------------------------------------------------
(* The reader.                                                               *)

\* The file that a reader finds, and the swaps in it.
LEMMA FileFacts ==
  ASSUME WriterInv, Over
  PROVE  /\ disk \in Seq(Kinds) /\ Len(disk) \in Nat /\ WellFormed(disk)
         /\ Count \in [0..Len(disk) -> Nat]
         /\ Total \in Nat /\ Total <= MaxPackets
         /\ \A i \in 0..(Len(disk) - 1) :
              Count[i + 1] = Count[i] + (IF disk[i + 1] = "swap" THEN 1 ELSE 0)
         /\ \A i \in 0..Len(disk) :
              /\ Count[i] <= Total
              /\ (\A j \in 1..Len(disk) : j > i => disk[j] # "swap") => Count[i] = Total
         /\ \A i \in 0..Len(disk) : Count[i] = Swaps(i)
         /\ Count[0] = 0
<1>. DEFINE n == Len(disk)
<1>1. disk \in Seq(Kinds) /\ n \in Nat /\ WellFormed(disk)
  <2>1. disk \in Seq(Kinds) /\ Stream = disk
    BY StreamEmpty DEF WriterInv, WriterTypeOK, Stream
  <2>. QED
    BY <2>1 DEF WriterInv
<1>2. \A i \in 0..n : Count[i] = SwapsIn(disk, i) /\ Count[i] = Swaps(i)
  BY DEF Count, Swaps, SwapsIn
<1>3. \A i \in 0..n : Count[i] \in Nat
  <2>. TAKE i \in 0..n
  <2>1. i \in Nat
    BY <1>1
  <2>. QED
    BY <1>2, <2>1, SwapsType
<1>4. Count \in [0..n -> Nat]
  <2>1. DOMAIN Count = 0..n /\ Count = [i \in 0..n |-> Count[i]]
    BY DEF Count
  <2>. QED
    BY <1>3, <2>1
<1>5. \A i \in 0..(n - 1) :
        Count[i + 1] = Count[i] + (IF disk[i + 1] = "swap" THEN 1 ELSE 0)
  <2>. TAKE i \in 0..(n - 1)
  <2>1. i \in Nat /\ i \in 0..n /\ i + 1 \in 0..n
    BY <1>1
  <2>2. SwapsIn(disk, i + 1) = SwapsIn(disk, i) + (IF disk[i + 1] = "swap" THEN 1 ELSE 0)
    BY <2>1, SwapsNext
  <2>3. Count[i + 1] = SwapsIn(disk, i + 1) /\ Count[i] = SwapsIn(disk, i)
    BY <1>2, <2>1
  <2>. QED
    BY <2>2, <2>3
<1>6. \A i \in 0..n :
        /\ Count[i] <= Count[n]
        /\ (\A j \in 1..n : j > i => disk[j] # "swap") => Count[i] = Count[n]
  <2>. TAKE i \in 0..n
  <2>1. i \in Nat /\ i <= n /\ n \in 0..n
    BY <1>1
  <2>2. Count[n] = SwapsIn(disk, n) /\ Count[i] = SwapsIn(disk, i)
    BY <1>2, <2>1
  <2>3. /\ SwapsIn(disk, i) <= SwapsIn(disk, n)
        /\ (\A j \in (i + 1)..n : disk[j] # "swap") => SwapsIn(disk, i) = SwapsIn(disk, n)
    BY <1>1, <2>1, SwapsGrow
  <2>4. ASSUME \A j \in 1..n : j > i => disk[j] # "swap"
        PROVE  \A j \in (i + 1)..n : disk[j] # "swap"
    <3>1. \A j \in (i + 1)..n : j \in 1..n /\ j > i
      BY <1>1, <2>1
    <3>. QED
      BY <2>4, <3>1
  <2>. HIDE DEF n
  <2>. QED
    BY <2>2, <2>3, <2>4
<1>7. Count[n] <= MaxPackets
  <2>1. \A i \in 1..n : disk[i] = "swap" => i \in 3..(MaxPackets + 2)
    BY <1>1 DEF WellFormed
  <2>2. SwapsIn(disk, n) <= MaxPackets
    BY <1>1, <2>1, SwapsBound, TraceFileAssumption
  <2>3. n \in 0..n
    BY <1>1
  <2>. QED
    BY <1>2, <2>2, <2>3
<1>8. Count[0] = 0
  <2>1. 0 \in 0..n
    BY <1>1
  <2>. QED
    BY <1>2, <2>1, SwapsZero
<1>. QED
  BY <1>1, <1>2, <1>4, <1>5, <1>6, <1>7, <1>8 DEF Total

\* Reading leaves the file as it is.
LEMMA FileSame ==
  ASSUME UNCHANGED writer
  PROVE  /\ disk' = disk /\ Count' = Count /\ Total' = Total /\ (Over' <=> Over)
BY DEF writer, Count, Total, Swaps, Over

\* What it finds out by reading one packet.
FindsOut(kind) ==
  /\ cur' = cur + (IF kind = "swap" THEN 1 ELSE 0)
  /\ kind # "swap" => offsets' = offsets
  /\ Len(offsets') >= Len(offsets)
  /\ kind \in {"eof", "bad"} => cur' = Total
  /\ kind = "eof" => max' # -1
  /\ kind \in {"packet", "swap"} =>
       ~inside' /\ disk[pos'] \in {"sof", "packet", "swap"}
  /\ kind = "bad" /\ ~inside /\ disk[pos] \in {"sof", "packet", "swap"} =>
       disk[Len(disk)] = "torn"

\* What the reader knows, as facts about numbers.
LEMMA KnowsFacts ==
  ASSUME WriterInv, Over, ReaderKnows
  PROVE  /\ pos \in 1..Len(disk) /\ pos \in 0..Len(disk)
         /\ cur = Count[pos] /\ cur \in Nat /\ inside \in BOOLEAN
         /\ inside => pos < Len(disk) /\ disk[pos + 1] \in {"torn", "archive"}
         /\ offsets \in Seq(Nat) /\ Len(offsets) \in Nat /\ Len(offsets) > 0
         /\ cur < Len(offsets) /\ Len(offsets) <= Total + 1
         /\ max \in Nat \union {-1} /\ (max # -1 => max = Total)
<1>1. /\ pos \in 1..Len(disk) /\ cur = Count[pos]
      /\ inside => pos < Len(disk) /\ disk[pos + 1] \in {"torn", "archive"}
  BY DEF ReaderKnows, Place, Here
<1>2. /\ Len(disk) \in Nat /\ Total \in Nat
      /\ \A i \in 0..Len(disk) : Count[i] <= Total
  BY FileFacts
<1>3. offsets \in Seq(Nat) /\ Len(offsets) \in Nat /\ Len(offsets) > 0
  BY DEF ReaderKnows, Known
<1>4. Len(offsets) <= Total + 1
  <2>1. Begins(Len(offsets) - 1, offsets[Len(offsets)])
    BY <1>3 DEF ReaderKnows, Known
  <2>. QED
    BY <1>2, <1>3, <2>1 DEF Begins
<1>. QED
  BY <1>1, <1>2, <1>3, <1>4 DEF ReaderKnows, Known

\* The same after a step.
LEMMA KnowsFactsAfter ==
  (WriterInv /\ Over /\ ReaderKnows)'
    => (Len(offsets) \in Nat /\ Len(offsets) <= Total + 1)'
<1>1. WriterInv /\ Over /\ ReaderKnows => Len(offsets) \in Nat /\ Len(offsets) <= Total + 1
  BY KnowsFacts
<1>. QED
  BY <1>1, PTL

\* read_next_packet finds a whole packet.
LEMMA ReadWholeRight ==
  ASSUME WriterInv, Over, UNCHANGED writer, ReaderKnows,
         NEW kind \in PacketKinds, ReadWhole(kind)
  PROVE  ReaderKnows' /\ FindsOut(kind)
<1>. DEFINE n == Len(disk)
<1>1. /\ disk \in Seq(Kinds) /\ n \in Nat /\ WellFormed(disk) /\ disk' = disk
      /\ Count \in [0..n -> Nat] /\ Count' = Count /\ Total' = Total /\ Total \in Nat
      /\ \A i \in 0..(n - 1) :
           Count[i + 1] = Count[i] + (IF disk[i + 1] = "swap" THEN 1 ELSE 0)
      /\ \A i \in 0..n : (\A j \in 1..n : j > i => disk[j] # "swap") => Count[i] = Total
  BY FileFacts, FileSame
<1>2. /\ pos \in 1..n /\ cur = Count[pos] /\ cur \in Nat
      /\ offsets \in Seq(Nat) /\ Len(offsets) \in Nat /\ Len(offsets) > 0
      /\ cur < Len(offsets)
      /\ max \in Nat \union {-1} /\ (max # -1 => max = Total)
  BY KnowsFacts
<1>3. /\ ~inside /\ inside' = inside /\ pos < n /\ kind = disk[pos + 1]
      /\ kind \in {"packet", "swap", "eof"} /\ pos' = pos + 1
      /\ pos + 1 \in 1..n
  BY <1>1, <1>2 DEF ReadWhole
<1>4. Count[pos + 1] = cur + (IF kind = "swap" THEN 1 ELSE 0)
  <2>1. pos \in 0..(n - 1)
    BY <1>1, <1>2, <1>3
  <2>. QED
    BY <1>1, <1>2, <1>3, <2>1
<1>5. cur' = cur + (IF kind = "swap" THEN 1 ELSE 0)
  <2>1. CASE kind = "swap"
    BY <2>1 DEF ReadWhole
  <2>2. CASE kind # "swap"
    BY <1>2, <2>2 DEF ReadWhole
  <2>. QED
    BY <2>1, <2>2
<1>6. cur' \in Nat /\ cur' = Count[pos'] /\ pos' \in 1..n
  BY <1>2, <1>3, <1>4, <1>5
<1>7. Place(Here)'
  BY <1>1, <1>3, <1>6 DEF Place, Here
<1>8. kind = "eof" => cur = Total /\ cur' = Total
  <2>. SUFFICES ASSUME kind = "eof" PROVE Count[pos + 1] = Total
    BY <1>2, <1>4, <1>5
  <2>1. \A j \in 1..n : j > pos + 1 => disk[j] # "swap"
    BY <1>1, <1>3 DEF WellFormed
  <2>2. pos + 1 \in 0..n
    BY <1>3
  <2>. QED
    BY <1>1, <2>1, <2>2
<1>9. /\ max' \in Nat \union {-1} /\ (max' # -1 => max' = Total)
      /\ kind = "eof" => max' # -1
  <2>1. CASE kind = "eof"
    <3>1. max' = (IF max < 0 THEN cur ELSE max)
      BY <2>1 DEF ReadWhole, MaxIsCur
    <3>. QED
      BY <1>1, <1>2, <1>8, <2>1, <3>1
  <2>2. CASE kind # "eof"
    BY <1>2, <2>2 DEF ReadWhole
  <2>. QED
    BY <2>1, <2>2
<1>10. \A i \in 1..Len(offsets) : Begins(i - 1, offsets[i])
  BY DEF ReaderKnows, Known
<1>11. /\ offsets' \in Seq(Nat) /\ Len(offsets') \in Nat
       /\ Len(offsets') >= Len(offsets) /\ cur' < Len(offsets')
       /\ kind # "swap" => offsets' = offsets
       /\ \A i \in 1..Len(offsets') : Begins(i - 1, offsets'[i])
  <2>1. CASE kind # "swap"
    <3>1. offsets' = offsets /\ cur' = cur
      BY <2>1 DEF ReadWhole
    <3>. QED
      BY <1>2, <1>10, <3>1
  <2>2. CASE kind = "swap" /\ cur' < Len(offsets)
    <3>1. offsets' = offsets
      BY <2>2 DEF ReadWhole
    <3>. QED
      BY <1>2, <1>10, <2>2, <3>1
  <2>3. CASE kind = "swap" /\ ~(cur' < Len(offsets))
    <3>1. Len(offsets) = cur' /\ offsets' = Append(offsets, pos')
      BY <1>2, <1>5, <1>6, <2>3 DEF ReadWhole
    <3>2. /\ pos' \in Nat /\ offsets' \in Seq(Nat) /\ Len(offsets') = Len(offsets) + 1
          /\ offsets'[Len(offsets) + 1] = pos'
          /\ \A i \in 1..Len(offsets) : offsets'[i] = offsets[i]
      BY <1>2, <1>3, <3>1
    <3>3. Begins(Len(offsets), pos')
      BY <1>3, <1>6, <2>3, <3>1 DEF Begins
    <3>4. \A i \in 1..Len(offsets') : Begins(i - 1, offsets'[i])
      <4>. TAKE i \in 1..Len(offsets')
      <4>1. CASE i \in 1..Len(offsets)
        BY <1>10, <3>2, <4>1
      <4>2. CASE i = Len(offsets) + 1
        <5>1. i - 1 = Len(offsets)
          BY <1>2, <4>2
        <5>. QED
          BY <3>2, <3>3, <4>2, <5>1
      <4>. QED
        BY <1>2, <3>2, <4>1, <4>2
    <3>. QED
      BY <1>2, <2>3, <3>1, <3>2, <3>4
  <2>. QED
    BY <2>1, <2>2, <2>3
<1>12. Known'
  BY <1>1, <1>2, <1>9, <1>11 DEF Known, Begins
<1>13. ReaderKnows'
  BY <1>1, <1>3, <1>6, <1>7, <1>9, <1>11, <1>12 DEF ReaderKnows
<1>14. FindsOut(kind)
  BY <1>3, <1>5, <1>8, <1>9, <1>11 DEF FindsOut
<1>. QED
  BY <1>13, <1>14

\* It finds the end of the file.
LEMMA ReadEndRight ==
  ASSUME WriterInv, Over, UNCHANGED writer, ReaderKnows, ReadEnd
  PROVE  ReaderKnows' /\ FindsOut("eof")
<1>1. /\ disk' = disk /\ UNCHANGED <<pos, inside, cur, offsets>>
      /\ pos = Len(disk) /\ max' = (IF max < 0 THEN cur ELSE max)
      /\ Count' = Count /\ Total' = Total /\ Total \in Nat
  BY FileFacts, FileSame DEF ReadEnd, position, MaxIsCur
<1>2. /\ cur = Total /\ cur \in Nat /\ Len(offsets) \in Nat
      /\ max \in Nat \union {-1} /\ (max # -1 => max = Total)
  BY <1>1, KnowsFacts DEF Total
<1>3. max' \in Nat \union {-1} /\ max' = Total /\ max' # -1
  BY <1>1, <1>2
<1>4. Place(Here)' /\ Known'
  BY <1>1, <1>3 DEF ReaderKnows, Place, Here, Known, Begins
<1>5. ReaderKnows'
  BY <1>1, <1>3, <1>4 DEF ReaderKnows
<1>6. FindsOut("eof")
  BY <1>1, <1>2, <1>3 DEF FindsOut
<1>. QED
  BY <1>5, <1>6

\* It finds no whole packet: there is no swap behind.
LEMMA ReadBadRight ==
  ASSUME WriterInv, Over, UNCHANGED writer, ReaderKnows, ReadBad
  PROVE  ReaderKnows' /\ FindsOut("bad")
<1>. DEFINE n == Len(disk)
<1>1. /\ n \in Nat /\ WellFormed(disk) /\ disk' = disk
      /\ Count' = Count /\ Total' = Total
      /\ \A i \in 0..n : (\A j \in 1..n : j > i => disk[j] # "swap") => Count[i] = Total
  BY FileFacts, FileSame
<1>2. /\ pos \in 1..n /\ cur = Count[pos] /\ cur \in Nat /\ Len(offsets) \in Nat
      /\ pos < n /\ disk[pos + 1] \in {"torn", "archive"}
  BY KnowsFacts DEF ReadBad
<1>3. /\ UNCHANGED <<cur, max, offsets>>
      /\ \/ inside' = TRUE /\ pos' = pos
         \/ inside' = FALSE /\ pos' = n
  BY DEF ReadBad
<1>4. pos + 1 = n /\ (disk[pos] \in {"sof", "packet", "swap"} => disk[n] = "torn")
  <2>1. pos + 1 \in 1..n /\ pos + 1 - 1 = pos
    BY <1>1, <1>2
  <2>. QED
    BY <1>1, <1>2, <2>1 DEF WellFormed
<1>5. cur = Total /\ Count[n] = Total
  <2>1. \A j \in 1..n : j > pos => disk[j] # "swap"
    BY <1>1, <1>2, <1>4
  <2>2. pos \in 0..n
    BY <1>2
  <2>. QED
    BY <1>1, <1>2, <2>1, <2>2 DEF Total
<1>6. pos' \in 1..n /\ Count[pos'] = cur /\ (inside' => pos' = pos) /\ inside' \in BOOLEAN
  <2>1. CASE inside' = TRUE /\ pos' = pos
    BY <1>2, <2>1
  <2>2. CASE inside' = FALSE /\ pos' = n
    <3>1. n \in 1..n
      BY <1>1, <1>2
    <3>. QED
      BY <1>5, <2>2, <3>1
  <2>. QED
    BY <1>3, <2>1, <2>2
<1>7. Place(Here)'
  BY <1>1, <1>2, <1>3, <1>6 DEF Place, Here
<1>8. Known'
  BY <1>1, <1>3 DEF ReaderKnows, Known, Begins
<1>9. ReaderKnows'
  BY <1>1, <1>3, <1>6, <1>7, <1>8 DEF ReaderKnows
<1>10. FindsOut("bad")
  BY <1>2, <1>3, <1>4, <1>5 DEF FindsOut
<1>. QED
  BY <1>9, <1>10

\* Whatever is read next, the reader knows its place afterwards.
LEMMA NextPacketRight ==
  ASSUME WriterInv, Over, UNCHANGED writer, ReaderKnows,
         NEW kind \in PacketKinds, NextPacket(kind)
  PROVE  ReaderKnows' /\ FindsOut(kind)
BY ReadWholeRight, ReadEndRight, ReadBadRight DEF NextPacket

\* What remains to be shown of a step of the reader.
LEMMA ReaderMoves ==
  ASSUME WriterInv, UNCHANGED writer, ReaderInv, rpc # "closed",
         rpc' \in {"idle", "seek", "scan", "found", "failed", "frames", "return"},
         ReaderKnows', InCall', ResultRight', call' \in Calls, saved' \in Places,
         result' \in [call : Calls, ok : BOOLEAN, at : Nat, was : Places]
  PROVE  ReaderInv'
<1>1. /\ disk' = disk /\ Over' /\ disk # <<>> /\ disk[1] = "sof"
  BY FileSame DEF ReaderInv
<1>2. Places' = Places
  BY <1>1 DEF Places
<1>3. ReaderTypeOK'
  BY <1>1, <1>2 DEF ReaderTypeOK, ReaderKnows
<1>. QED
  BY <1>1, <1>3 DEF ReaderInv

\* Nothing is claimed of a call that has not returned.
LEMMA NoResultRight ==
  ASSUME WriterInv, ReaderInv, rpc # "closed",
         result' = NoResult \/ (rpc # "idle" /\ result' = result)
  PROVE  /\ ResultRight' /\ result'.call.op = "none"
         /\ result' \in [call : Calls, ok : BOOLEAN, at : Nat, was : Places]
<1>1. ReaderTypeOK /\ InCall
  BY DEF ReaderInv
<1>2. result'.call.op = "none"
  BY <1>1 DEF InCall, NoResult, NoCall
<1>3. ResultRight'
  BY <1>2 DEF ResultRight
<1>4. NoResult \in [call : Calls, ok : BOOLEAN, at : Nat, was : Places]
  <2>1. 0 \in 0..Len(disk)
    BY <1>1 DEF ReaderTypeOK
  <2>. QED
    BY <2>1 DEF NoResult, NoCall, NoPlace, Calls, Places
<1>. QED
  BY <1>1, <1>2, <1>3, <1>4 DEF ReaderTypeOK

\* Going to a place at which a frame begins.
LEMMA GoToRight ==
  ASSUME WriterInv, UNCHANGED writer, ReaderKnows, UNCHANGED <<max, offsets>>,
         NEW p \in [pos : Nat, inside : BOOLEAN, cur : Nat],
         Place(p), p.cur < Len(offsets), GoTo(p)
  PROVE  ReaderKnows'
<1>1. disk' = disk /\ Count' = Count /\ Total' = Total
  BY FileSame
<1>2. pos' = p.pos /\ inside' = p.inside /\ cur' = p.cur
  BY DEF GoTo
<1>3. Place(Here)'
  BY <1>1, <1>2 DEF Place, Here
<1>4. Known'
  BY <1>1, <1>2 DEF ReaderKnows, Known, Begins
<1>5. pos' \in 0..Len(disk)
  BY <1>2 DEF Place
<1>. QED
  BY <1>1, <1>2, <1>3, <1>4, <1>5 DEF ReaderKnows

\* The call reads, or seeks a frame that the reader knows or does not know.
LEMMA ReaderSeekToKnown ==
  ASSUME WriterInv, ReaderInv, SeekToKnown
  PROVE  ReaderInv'
<1>1. /\ rpc = "seek" /\ UNCHANGED <<call, max, offsets, saved, result>> /\ UNCHANGED writer
      /\ rpc # "closed" /\ rpc # "idle"
  BY DEF SeekToKnown
<1>2. /\ Over /\ ReaderTypeOK /\ ReaderKnows /\ InCall
      /\ disk' = disk /\ Count' = Count /\ Total' = Total
  BY <1>1, FileSame DEF ReaderInv
<1>3. /\ Len(offsets) \in Nat /\ Len(offsets) > 0 /\ Len(offsets) <= Total + 1
      /\ max \in Nat \union {-1} /\ (max # -1 => max = Total)
      /\ Total \in Nat /\ Total <= MaxPackets
  BY <1>2, KnowsFacts, FileFacts
<1>4. /\ ResultRight' /\ result'.call.op = "none"
      /\ result' \in [call : Calls, ok : BOOLEAN, at : Nat, was : Places]
  BY <1>1, NoResultRight
<1>5. /\ call \in Calls /\ saved \in Places /\ call.frame \in Nat /\ call.op # "none"
      /\ call.got = 0
      /\ call.op \in {"max", "frames"} => Place(saved) /\ saved.cur < Len(offsets)
      /\ call.op = "max" => call.frame = LastFrame
      /\ call.op = "frames" => call.count > 0
  BY <1>1, <1>2 DEF ReaderTypeOK, InCall, Calls
<1>6. Place(saved)' <=> Place(saved)
  BY <1>1, <1>2 DEF Place
<1>7. CASE call.frame < Len(offsets)
  <2>1. rpc' = "found" /\ UNCHANGED <<pos, inside, cur>>
    BY <1>7 DEF SeekToKnown, position
  <2>2. call.op # "max"
    BY <1>3, <1>5, <1>7, TraceFileAssumption DEF LastFrame
  <2>3. ReaderKnows'
    BY <1>1, <1>2, <2>1 DEF ReaderKnows, Place, Here, Known, Begins
  <2>4. InCall'
    BY <1>1, <1>2, <1>4, <1>5, <1>6, <1>7, <2>1, <2>2 DEF InCall
  <2>. QED
    BY <1>1, <1>4, <1>5, <2>1, <2>3, <2>4, ReaderMoves
<1>8. CASE ~(call.frame < Len(offsets)) /\ max >= 0 /\ call.frame > max
  <2>1. rpc' = "failed" /\ UNCHANGED <<pos, inside, cur>>
    BY <1>8 DEF SeekToKnown, position
  <2>2. call.frame > Total /\ max # -1
    BY <1>3, <1>8
  <2>3. ReaderKnows'
    BY <1>1, <1>2, <2>1 DEF ReaderKnows, Place, Here, Known, Begins
  <2>4. InCall'
    BY <1>1, <1>2, <1>4, <1>5, <1>6, <2>1, <2>2 DEF InCall
  <2>. QED
    BY <1>1, <1>4, <1>5, <2>1, <2>3, <2>4, ReaderMoves
<1>9. CASE ~(call.frame < Len(offsets)) /\ ~(max >= 0 /\ call.frame > max)
  <2>. DEFINE p == [pos |-> offsets[Len(offsets)], inside |-> FALSE, cur |-> Len(offsets) - 1]
  <2>1. rpc' = "scan" /\ GoTo(p)
    BY <1>9 DEF SeekToKnown
  <2>2. Begins(Len(offsets) - 1, offsets[Len(offsets)])
    BY <1>2, <1>3 DEF ReaderKnows, Known
  <2>3. /\ p \in [pos : Nat, inside : BOOLEAN, cur : Nat] /\ Place(p) /\ p.cur < Len(offsets)
        /\ ~p.inside /\ disk[p.pos] \in {"sof", "swap"}
    BY <1>3, <2>2 DEF Place, Begins
  <2>. HIDE DEF p
  <2>4. ReaderKnows'
    BY <1>1, <1>2, <2>1, <2>3, GoToRight
  <2>5. ~inside' /\ disk[pos'] \in {"sof", "packet", "swap"}
    BY <2>1, <2>3 DEF GoTo
  <2>6. call.frame >= Len(offsets)
    BY <1>3, <1>5, <1>9
  <2>7. InCall'
    BY <1>1, <1>2, <1>4, <1>5, <1>6, <2>1, <2>5, <2>6 DEF InCall
  <2>. QED
    BY <1>1, <1>4, <1>5, <2>1, <2>4, <2>7, ReaderMoves
<1>. QED
  BY <1>7, <1>8, <1>9

\* The search for a frame reads on.
LEMMA ReaderScan ==
  ASSUME WriterInv, ReaderInv, Scan
  PROVE  ReaderInv'
<1>1. PICK kind \in PacketKinds :
        /\ NextPacket(kind)
        /\ rpc' = IF kind = "bad" THEN "failed"
                  ELSE IF call.frame < Len(offsets') THEN "found"
                  ELSE IF kind = "eof" THEN "failed"
                  ELSE "scan"
  BY DEF Scan
<1>2. /\ rpc = "scan" /\ UNCHANGED <<call, saved, result>> /\ UNCHANGED writer
      /\ rpc # "closed" /\ rpc # "idle"
  BY DEF Scan
<1>3. /\ Over /\ ReaderTypeOK /\ ReaderKnows /\ InCall
      /\ disk' = disk /\ Count' = Count /\ Total' = Total
  BY <1>2, FileSame DEF ReaderInv
<1>4. ReaderKnows' /\ FindsOut(kind)
  BY <1>1, <1>2, <1>3, NextPacketRight
<1>5. /\ Len(offsets) \in Nat /\ cur \in Nat /\ cur < Len(offsets)
      /\ Total \in Nat /\ Total <= MaxPackets
  BY <1>3, KnowsFacts, FileFacts
<1>6. Len(offsets') \in Nat /\ Len(offsets') <= Total + 1 /\ Len(offsets') >= Len(offsets)
  <2>1. WriterInv' /\ Over'
    BY <1>2, <1>3, FileSame, WriterKept
  <2>2. Len(offsets') \in Nat /\ Len(offsets') <= Total' + 1
    BY <1>4, <2>1, KnowsFactsAfter
  <2>. QED
    BY <1>3, <1>4, <2>2 DEF FindsOut
<1>7. /\ ResultRight' /\ result'.call.op = "none"
      /\ result' \in [call : Calls, ok : BOOLEAN, at : Nat, was : Places]
  BY <1>2, NoResultRight
<1>8. /\ call \in Calls /\ saved \in Places /\ call.frame \in Nat /\ call.op # "none"
      /\ call.got = 0 /\ call.frame >= Len(offsets)
      /\ ~inside /\ disk[pos] \in {"sof", "packet", "swap"}
      /\ call.op \in {"max", "frames"} => Place(saved) /\ saved.cur < Len(offsets)
      /\ call.op = "max" => call.frame = LastFrame
      /\ call.op = "frames" => call.count > 0
  BY <1>2, <1>3 DEF ReaderTypeOK, InCall, Calls
<1>9. call.op \in {"max", "frames"} => Place(saved)' /\ saved.cur < Len(offsets')
  <2>. SUFFICES ASSUME call.op \in {"max", "frames"}
                PROVE  Place(saved)' /\ saved.cur < Len(offsets')
    OBVIOUS
  <2>1. Place(saved)'
    BY <1>2, <1>3, <1>8 DEF Place
  <2>2. saved.cur \in Nat
    BY <1>8 DEF Places
  <2>. QED
    BY <1>5, <1>6, <1>8, <2>1, <2>2
<1>10. CASE kind = "bad"
  <2>1. rpc' = "failed"
    BY <1>1, <1>10
  <2>2. call.frame > Total /\ disk[Len(disk)] = "torn"
    BY <1>4, <1>5, <1>8, <1>10 DEF FindsOut
  <2>3. InCall'
    BY <1>2, <1>3, <1>7, <1>8, <1>9, <2>1, <2>2 DEF InCall
  <2>. QED
    BY <1>2, <1>4, <1>7, <1>8, <2>1, <2>3, ReaderMoves
<1>11. CASE kind # "bad" /\ call.frame < Len(offsets')
  <2>1. rpc' = "found"
    BY <1>1, <1>11
  <2>2. call.op # "max"
    BY <1>5, <1>6, <1>8, <1>11, TraceFileAssumption DEF LastFrame
  <2>3. InCall'
    BY <1>2, <1>3, <1>7, <1>8, <1>9, <1>11, <2>1, <2>2 DEF InCall
  <2>. QED
    BY <1>2, <1>4, <1>7, <1>8, <2>1, <2>3, ReaderMoves
<1>12. CASE kind = "eof" /\ ~(call.frame < Len(offsets'))
  <2>1. rpc' = "failed"
    BY <1>1, <1>12
  <2>2. call.frame > Total /\ max' # -1
    BY <1>4, <1>5, <1>8, <1>12 DEF FindsOut
  <2>3. InCall'
    BY <1>2, <1>3, <1>7, <1>8, <1>9, <2>1, <2>2 DEF InCall
  <2>. QED
    BY <1>2, <1>4, <1>7, <1>8, <2>1, <2>3, ReaderMoves
<1>13. CASE kind \in {"packet", "swap"} /\ ~(call.frame < Len(offsets'))
  <2>1. rpc' = "scan"
    BY <1>1, <1>13
  <2>2. /\ call.frame >= Len(offsets')
        /\ ~inside' /\ disk[pos'] \in {"sof", "packet", "swap"}
    BY <1>4, <1>6, <1>8, <1>13 DEF FindsOut
  <2>3. InCall'
    BY <1>2, <1>3, <1>7, <1>8, <1>9, <2>1, <2>2 DEF InCall
  <2>. QED
    BY <1>2, <1>4, <1>7, <1>8, <2>1, <2>3, ReaderMoves
<1>. QED
  BY <1>10, <1>11, <1>12, <1>13 DEF PacketKinds

\* read_next_packet, called by the application.
LEMMA ReaderRead ==
  ASSUME WriterInv, ReaderInv, Read
  PROVE  ReaderInv'
<1>1. PICK kind \in PacketKinds : NextPacket(kind)
  BY DEF Read
<1>2. /\ rpc = "idle" /\ rpc' = "idle" /\ result' = NoResult
      /\ UNCHANGED <<call, saved>> /\ UNCHANGED writer /\ rpc # "closed"
  BY DEF Read
<1>3. Over /\ ReaderTypeOK /\ ReaderKnows /\ InCall
  BY <1>2 DEF ReaderInv
<1>4. ReaderKnows'
  BY <1>1, <1>2, <1>3, NextPacketRight
<1>5. /\ ResultRight' /\ result'.call.op = "none"
      /\ result' \in [call : Calls, ok : BOOLEAN, at : Nat, was : Places]
  BY <1>2, NoResultRight
<1>6. call = NoCall /\ call.op = "none" /\ call \in Calls /\ saved \in Places
  BY <1>2, <1>3 DEF InCall, ReaderTypeOK, NoCall
<1>7. InCall'
  BY <1>2, <1>5, <1>6 DEF InCall
<1>. QED
  BY <1>2, <1>4, <1>5, <1>6, <1>7, ReaderMoves

\* A call begins.
LEMMA ReaderCallSeek ==
  ASSUME WriterInv, ReaderInv, CallSeek
  PROVE  ReaderInv'
<1>1. /\ rpc = "idle" /\ rpc' = "seek" /\ result' = NoResult
      /\ UNCHANGED <<pos, inside, cur, max, offsets>> /\ UNCHANGED writer /\ rpc # "closed"
      /\ saved' = IF call'.op = "seek" THEN saved ELSE Here
  BY DEF CallSeek, position, Here
<1>2. /\ Over /\ ReaderTypeOK /\ ReaderKnows /\ InCall
      /\ disk' = disk /\ Count' = Count /\ Total' = Total
  BY <1>1, FileSame DEF ReaderInv
<1>3. ReaderKnows'
  BY <1>1, <1>2 DEF ReaderKnows, Place, Here, Known, Begins
<1>4. /\ ResultRight' /\ result'.call.op = "none"
      /\ result' \in [call : Calls, ok : BOOLEAN, at : Nat, was : Places]
  BY <1>1, NoResultRight
<1>5. /\ call' \in Calls /\ call'.got = 0
      /\ call'.op \in {"seek", "max", "frames"}
      /\ call'.op = "max" => call'.frame = LastFrame
      /\ call'.op = "frames" => call'.count > 0
  <2>1. LastFrame \in Nat /\ \A f \in 0..LastFrame : f \in Nat
    BY TraceFileAssumption DEF LastFrame
  <2>2. CASE \E f \in 0..LastFrame : call' = [NoCall EXCEPT !.op = "seek", !.frame = f]
    <3>1. PICK f \in 0..LastFrame :
            call' = [op |-> "seek", frame |-> f, from |-> 0, count |-> 0, got |-> 0]
      BY <2>2 DEF NoCall
    <3>. QED
      BY <2>1, <3>1 DEF Calls
  <2>3. CASE call' = [NoCall EXCEPT !.op = "max", !.frame = LastFrame]
    BY <2>1, <2>3 DEF NoCall, Calls
  <2>4. CASE \E f \in 0..LastFrame, n \in 1..2 :
               call' = [NoCall EXCEPT !.op = "frames", !.frame = f, !.count = n]
    <3>1. PICK f \in 0..LastFrame, n \in 1..2 :
            call' = [op |-> "frames", frame |-> f, from |-> 0, count |-> n, got |-> 0]
      BY <2>4 DEF NoCall
    <3>. QED
      BY <2>1, <3>1 DEF Calls
  <2>. QED
    BY <2>2, <2>3, <2>4 DEF CallSeek
<1>6. Here \in Places /\ Place(Here) /\ Here.cur < Len(offsets)
  BY <1>2 DEF ReaderKnows, Known, Here, Places
<1>7. saved' \in Places /\ (call'.op # "seek" => saved' = Here)
  BY <1>1, <1>2, <1>6 DEF ReaderTypeOK
<1>8. call'.op # "seek" => Place(saved)' /\ saved'.cur < Len(offsets')
  BY <1>1, <1>2, <1>6, <1>7 DEF Place
<1>9. InCall'
  BY <1>1, <1>4, <1>5, <1>8 DEF InCall
<1>. QED
  BY <1>1, <1>3, <1>4, <1>5, <1>7, <1>9, ReaderMoves

\* A call returns; NoCall follows.
LEMMA ReturnsRight ==
  ASSUME WriterInv, ReaderInv, UNCHANGED writer, NEW ok \in BOOLEAN, Returns(ok),
         rpc \notin {"closed", "idle"}, ReaderKnows', ResultRight'
  PROVE  ReaderInv'
<1>1. /\ result' = [call |-> call, ok |-> ok, at |-> pos, was |-> saved]
      /\ call' = NoCall /\ saved' = NoPlace /\ rpc' = "idle"
  BY DEF Returns
<1>2. ReaderTypeOK
  BY DEF ReaderInv
<1>3. result' \in [call : Calls, ok : BOOLEAN, at : Nat, was : Places]
  <2>1. pos \in Nat
    BY <1>2 DEF ReaderTypeOK
  <2>. QED
    BY <1>1, <1>2, <2>1 DEF ReaderTypeOK
<1>4. call' \in Calls /\ saved' \in Places /\ call'.op = "none"
  <2>1. 0 \in 0..Len(disk)
    BY <1>2 DEF ReaderTypeOK
  <2>. QED
    BY <1>1, <2>1 DEF NoCall, NoPlace, Calls, Places
<1>5. InCall'
  BY <1>1, <1>4 DEF InCall
<1>. QED
  BY <1>1, <1>3, <1>4, <1>5, ReaderMoves

\* The reader goes back to the place that it has saved.
LEMMA GoBackRight ==
  ASSUME WriterInv, ReaderInv, UNCHANGED writer, UNCHANGED <<max, offsets>>,
         rpc # "closed", call.op \in {"max", "frames"}, GoTo(saved)
  PROVE  ReaderKnows' /\ Here' = saved
<1>1. ReaderTypeOK /\ ReaderKnows /\ InCall
  BY DEF ReaderInv
<1>2. saved \in [pos : Nat, inside : BOOLEAN, cur : Nat]
      /\ Place(saved) /\ saved.cur < Len(offsets)
  BY <1>1 DEF ReaderTypeOK, InCall, Places
<1>3. Here' = saved
  BY <1>2 DEF GoTo, Here
<1>. QED
  BY <1>1, <1>2, <1>3, GoToRight

\* A call fails.
LEMMA ReaderSeekFails ==
  ASSUME WriterInv, ReaderInv, SeekFails
  PROVE  ReaderInv'
<1>1. /\ rpc = "failed" /\ rpc \notin {"closed", "idle"} /\ Returns(FALSE)
      /\ UNCHANGED <<max, offsets>> /\ UNCHANGED writer
      /\ IF call.op = "seek" THEN UNCHANGED <<pos, inside, cur>> ELSE GoTo(saved)
  BY DEF SeekFails, position
<1>2. /\ Over /\ ReaderTypeOK /\ ReaderKnows /\ InCall
      /\ disk' = disk /\ Count' = Count /\ Total' = Total
  BY <1>1, FileSame DEF ReaderInv
<1>3. /\ call \in Calls /\ call.op \in {"seek", "max", "frames"} /\ call.frame > Total
      /\ call.op = "max" /\ max = -1 => disk[Len(disk)] = "torn"
      /\ call.frame \in Nat
  BY <1>1, <1>2 DEF ReaderTypeOK, InCall, Calls
<1>4. Total \in Nat /\ ~(call.frame <= Total)
  BY <1>2, <1>3, FileFacts
<1>5. result' = [call |-> call, ok |-> FALSE, at |-> pos, was |-> saved]
  BY <1>1 DEF Returns
<1>6. CASE call.op = "seek"
  <2>1. ReaderKnows'
    BY <1>1, <1>2, <1>6 DEF ReaderKnows, Place, Here, Known, Begins
  <2>2. ResultRight'
    BY <1>2, <1>4, <1>5, <1>6 DEF ResultRight
  <2>. QED
    BY <1>1, <2>1, <2>2, ReturnsRight
<1>7. CASE call.op # "seek"
  <2>1. ReaderKnows' /\ Here' = saved
    BY <1>1, <1>3, <1>7, GoBackRight
  <2>2. ResultRight'
    BY <1>1, <1>2, <1>3, <1>4, <1>5, <1>7, <2>1 DEF ResultRight
  <2>. QED
    BY <1>1, <2>1, <2>2, ReturnsRight
<1>. QED
  BY <1>6, <1>7

\* A frame was found.
LEMMA ReaderFound ==
  ASSUME WriterInv, ReaderInv, Found
  PROVE  ReaderInv'
<1>. DEFINE p == [pos |-> offsets[call.frame + 1], inside |-> FALSE, cur |-> call.frame]
<1>1. /\ rpc = "found" /\ rpc \notin {"closed", "idle"} /\ GoTo(p)
      /\ UNCHANGED <<max, offsets>> /\ UNCHANGED writer
  BY DEF Found
<1>2. /\ Over /\ ReaderTypeOK /\ ReaderKnows /\ InCall
      /\ disk' = disk /\ Count' = Count /\ Total' = Total
  BY <1>1, FileSame DEF ReaderInv
<1>3. /\ call \in Calls /\ call.op \in {"seek", "frames"} /\ call.frame \in Nat
      /\ call.frame < Len(offsets) /\ call.got = 0
      /\ call.op = "frames" => call.count > 0 /\ Place(saved) /\ saved.cur < Len(offsets)
  BY <1>1, <1>2 DEF ReaderTypeOK, InCall, Calls
<1>4. Len(offsets) \in Nat /\ Total \in Nat /\ Len(offsets) <= Total + 1
  BY <1>2, KnowsFacts, FileFacts
<1>5. Begins(call.frame, offsets[call.frame + 1])
  <2>1. call.frame + 1 \in 1..Len(offsets)
    BY <1>3, <1>4
  <2>2. \A i \in 1..Len(offsets) : Begins(i - 1, offsets[i])
    BY <1>2 DEF ReaderKnows, Known
  <2>3. PICK i \in 1..Len(offsets) : i = call.frame + 1
    BY <2>1
  <2>4. Begins(i - 1, offsets[i]) /\ i - 1 = call.frame
    BY <1>3, <2>2, <2>3
  <2>. QED
    BY <2>3, <2>4
<1>6. p \in [pos : Nat, inside : BOOLEAN, cur : Nat] /\ Place(p) /\ p.cur < Len(offsets)
  BY <1>3, <1>5 DEF Place, Begins
<1>7. /\ pos' = offsets[call.frame + 1] /\ cur' = call.frame /\ Begins(call.frame, pos')
      /\ pos' \in Nat /\ Count[pos'] = call.frame
  BY <1>1, <1>5 DEF GoTo, Begins
<1>. HIDE DEF p
<1>8. ReaderKnows'
  BY <1>1, <1>2, <1>6, GoToRight
<1>9. call.frame <= Total
  BY <1>3, <1>4
<1>10. CASE call.op = "seek"
  <2>1. Returns(TRUE)
    BY <1>10 DEF Found
  <2>2. result' = [call |-> call, ok |-> TRUE, at |-> pos, was |-> saved]
    BY <2>1 DEF Returns
  <2>3. Begins(cur, pos)' /\ cur' = call.frame
    BY <1>2, <1>7 DEF Begins
  <2>4. ResultRight'
    BY <1>2, <1>9, <1>10, <2>2, <2>3 DEF ResultRight, Begins
  <2>. QED
    BY <1>1, <1>8, <2>1, <2>4, ReturnsRight
<1>11. CASE call.op = "frames"
  <2>1. /\ rpc' = "frames" /\ call' = [call EXCEPT !.from = pos']
        /\ UNCHANGED <<saved, result>>
    BY <1>11 DEF Found
  <2>2. /\ call' \in Calls /\ call'.op = "frames" /\ call'.frame = call.frame
        /\ call'.from = pos' /\ call'.got = 0 /\ call'.count = call.count
    BY <1>3, <1>7, <1>11, <2>1 DEF Calls
  <2>3. /\ ResultRight' /\ result'.call.op = "none"
        /\ result' \in [call : Calls, ok : BOOLEAN, at : Nat, was : Places]
    BY <1>1, <2>1, NoResultRight
  <2>4. Place(saved)' /\ saved' \in Places /\ saved'.cur < Len(offsets')
    BY <1>1, <1>2, <1>3, <1>11, <2>1 DEF Place, ReaderTypeOK
  <2>5. call'.got < call'.count /\ call'.got = Count'[pos'] - call'.frame
    BY <1>2, <1>3, <1>7, <1>11, <2>2
  <2>6. Begins(call.frame, call.from)' /\ call'.frame <= Total'
    BY <1>2, <1>7, <1>9, <2>2 DEF Begins
  <2>7. InCall'
    BY <1>3, <1>11, <2>1, <2>2, <2>3, <2>4, <2>5, <2>6 DEF InCall, Begins
  <2>. QED
    BY <1>1, <1>8, <2>1, <2>2, <2>3, <2>4, <2>7, ReaderMoves
<1>. QED
  BY <1>3, <1>10, <1>11

\* read_frame_packets reads on.
LEMMA ReaderReadFrames ==
  ASSUME WriterInv, ReaderInv, ReadFrames
  PROVE  ReaderInv'
<1>. DEFINE got(kind) == call.got + (IF kind = "swap" THEN 1 ELSE 0)
<1>1. PICK kind \in PacketKinds :
        /\ NextPacket(kind)
        /\ call' = [call EXCEPT !.got = got(kind)]
        /\ rpc' = IF kind = "bad" \/ kind = "eof" \/ got(kind) = call.count
                  THEN "return" ELSE "frames"
  BY DEF ReadFrames
<1>2. /\ rpc = "frames" /\ UNCHANGED <<saved, result>> /\ UNCHANGED writer
      /\ rpc \notin {"closed", "idle"}
  BY DEF ReadFrames
<1>3. /\ Over /\ ReaderTypeOK /\ ReaderKnows /\ InCall
      /\ disk' = disk /\ Count' = Count /\ Total' = Total
  BY <1>2, FileSame DEF ReaderInv
<1>4. ReaderKnows' /\ FindsOut(kind)
  BY <1>1, <1>2, <1>3, NextPacketRight
<1>5. /\ Len(offsets) \in Nat /\ cur \in Nat /\ cur = Count[pos]
      /\ Total \in Nat /\ \A i \in 0..Len(disk) : Count[i] <= Total
  BY <1>3, KnowsFacts, FileFacts
<1>6. /\ call \in Calls /\ call.op = "frames" /\ call.frame \in Nat /\ call.count \in Nat
      /\ call.frame <= Total /\ Begins(call.frame, call.from)
      /\ call.got \in Nat /\ call.got = cur - call.frame /\ call.got < call.count
      /\ call.count > 0
      /\ saved \in Places /\ Place(saved) /\ saved.cur < Len(offsets) /\ saved.cur \in Nat
  BY <1>2, <1>3, <1>5 DEF ReaderTypeOK, InCall, Calls, Places
<1>7. /\ call' \in Calls /\ call'.op = "frames" /\ call'.frame = call.frame
      /\ call'.count = call.count /\ call'.from = call.from /\ call'.got = got(kind)
  BY <1>1, <1>6 DEF Calls
<1>8. /\ cur' = cur + (IF kind = "swap" THEN 1 ELSE 0) /\ Len(offsets') >= Len(offsets)
      /\ kind \in {"eof", "bad"} => cur' = Total
  BY <1>4 DEF FindsOut
<1>9. cur' = Count[pos'] /\ cur' \in Nat /\ cur' <= Total
  <2>1. pos' \in 0..Len(disk) /\ cur' = Count[pos'] /\ cur' \in Nat
    BY <1>3, <1>4 DEF ReaderKnows, Place, Here
  <2>. QED
    BY <1>5, <2>1
<1>10. got(kind) = cur' - call.frame /\ got(kind) <= call.count
  BY <1>5, <1>6, <1>8
<1>. HIDE DEF got
<1>11. /\ ResultRight' /\ result'.call.op = "none"
       /\ result' \in [call : Calls, ok : BOOLEAN, at : Nat, was : Places]
  BY <1>2, NoResultRight
<1>12. Place(saved)' /\ saved'.cur < Len(offsets')
  <2>1. Len(offsets') \in Nat
    BY <1>4 DEF ReaderKnows
  <2>. QED
    BY <1>2, <1>3, <1>5, <1>6, <1>8, <2>1 DEF Place
<1>13. Begins(call.frame, call.from)' /\ call'.frame <= Total'
  BY <1>3, <1>6, <1>7 DEF Begins
<1>14. call'.got = Count'[pos'] - call'.frame
  BY <1>3, <1>7, <1>9, <1>10
<1>15. CASE kind = "bad" \/ kind = "eof" \/ got(kind) = call.count
  <2>1. rpc' = "return"
    BY <1>1, <1>15
  <2>2. call'.got = IF Total' - call'.frame < call'.count THEN Total' - call'.frame
                    ELSE call'.count
    <3>1. CASE got(kind) = call.count
      BY <1>3, <1>5, <1>6, <1>7, <1>9, <1>10, <3>1
    <3>2. CASE kind \in {"bad", "eof"}
      <4>1. got(kind) = call.got /\ got(kind) = Total - call.frame
        BY <1>6, <1>8, <1>10, <3>2 DEF got
      <4>. QED
        BY <1>3, <1>6, <1>7, <4>1
    <3>. QED
      BY <1>15, <3>1, <3>2
  <2>3. InCall'
    BY <1>7, <1>11, <1>12, <1>13, <1>14, <1>6, <2>1, <2>2 DEF InCall
  <2>. QED
    BY <1>2, <1>4, <1>6, <1>7, <1>11, <2>1, <2>3, ReaderMoves
<1>16. CASE ~(kind = "bad" \/ kind = "eof" \/ got(kind) = call.count)
  <2>1. rpc' = "frames"
    BY <1>1, <1>16
  <2>2. call'.got < call'.count
    BY <1>5, <1>6, <1>7, <1>9, <1>10, <1>16
  <2>3. InCall'
    BY <1>7, <1>11, <1>12, <1>13, <1>14, <1>6, <2>1, <2>2 DEF InCall
  <2>. QED
    BY <1>2, <1>4, <1>6, <1>7, <1>11, <2>1, <2>3, ReaderMoves
<1>. QED
  BY <1>15, <1>16

\* read_frame_packets returns, and goes back to where it was.
LEMMA ReaderFramesReturn ==
  ASSUME WriterInv, ReaderInv, FramesReturn
  PROVE  ReaderInv'
<1>1. /\ rpc = "return" /\ rpc \notin {"closed", "idle"} /\ Returns(TRUE) /\ GoTo(saved)
      /\ UNCHANGED <<max, offsets>> /\ UNCHANGED writer
  BY DEF FramesReturn
<1>2. /\ Over /\ ReaderTypeOK /\ ReaderKnows /\ InCall
      /\ disk' = disk /\ Count' = Count /\ Total' = Total
  BY <1>1, FileSame DEF ReaderInv
<1>3. /\ call.op = "frames" /\ call.frame <= Total
      /\ Begins(call.frame, call.from) /\ call.got = Count[pos] - call.frame
      /\ call.got = IF Total - call.frame < call.count THEN Total - call.frame
                    ELSE call.count
      /\ pos \in 0..Len(disk)
  BY <1>1, <1>2 DEF InCall, ReaderTypeOK
<1>4. result' = [call |-> call, ok |-> TRUE, at |-> pos, was |-> saved]
  BY <1>1 DEF Returns
<1>5. ReaderKnows' /\ Here' = saved
  BY <1>1, <1>3, GoBackRight
<1>6. /\ result'.call = call /\ result'.ok = TRUE /\ result'.at = pos /\ result'.was = saved
      /\ Begins(call.frame, call.from) => Begins(result.call.frame, result.call.from)'
  BY <1>2, <1>4 DEF Begins
<1>7. ResultRight'
  BY <1>2, <1>3, <1>5, <1>6 DEF ResultRight
<1>. QED
  BY <1>1, <1>5, <1>7, ReturnsRight

\* A reader is closed.
LEMMA ReaderClose ==
  ASSUME WriterInv, ReaderInv, Close
  PROVE  ReaderInv'
<1>1. /\ rpc = "idle" /\ rpc' = "closed" /\ saved' = NoPlace /\ result' = NoResult
      /\ call' = call
  BY DEF Close
<1>2. call = NoCall
  BY <1>1 DEF ReaderInv, InCall
<1>. QED
  BY <1>1, <1>2 DEF ReaderInv

\* A file is opened: with an archive the reader knows every frame, without one
\* only the first.
LEMMA ReaderOpen ==
  ASSUME WriterInv, ReaderInv, Open
  PROVE  ReaderInv'
<1>1. /\ rpc = "closed" /\ rpc' = "idle" /\ Over /\ OpenWorks
      /\ pos' = 1 /\ inside' = FALSE /\ cur' = 0
      /\ UNCHANGED <<call, saved, result>> /\ UNCHANGED writer
      /\ call = NoCall /\ saved = NoPlace /\ result = NoResult
  BY DEF Open, GoTo, Over, ReaderInv
<1>2. /\ disk \in Seq(Kinds) /\ Len(disk) \in Nat /\ disk # <<>> /\ disk[1] = "sof"
      /\ disk' = disk /\ Count' = Count /\ Total' = Total /\ Over'
      /\ Total \in Nat /\ Count \in [0..Len(disk) -> Nat]
  BY <1>1, FileFacts, FileSame DEF OpenWorks
<1>3. 1 \in 1..Len(disk) /\ Count[1] = 0
  <2>1. Len(disk) >= 1
    BY <1>2
  <2>2. 0 \in 0..(Len(disk) - 1) /\ disk[0 + 1] = "sof"
    BY <1>2, <2>1
  <2>3. Count[0 + 1] = Count[0] + (IF disk[0 + 1] = "swap" THEN 1 ELSE 0)
    BY <1>1, <2>2, FileFacts
  <2>4. Count[0] = 0
    BY <1>1, FileFacts
  <2>. QED
    BY <2>1, <2>2, <2>3, <2>4
<1>4. Place(Here)'
  BY <1>1, <1>2, <1>3 DEF Place, Here
<1>5. /\ offsets' \in Seq(Nat) /\ Len(offsets') \in Nat /\ Len(offsets') > 0
      /\ \A i \in 1..Len(offsets') : Begins(i - 1, offsets'[i])
      /\ max' \in Nat \union {-1} /\ (max' # -1 => max' = Total)
  <2>1. CASE sof = 0
    <3>1. offsets' = <<1>> /\ max' = -1
      BY <2>1 DEF Open
    <3>2. Begins(0, 1)
      BY <1>2, <1>3 DEF Begins
    <3>. QED
      BY <3>1, <3>2
  <2>2. CASE sof # 0
    <3>1. offsets' = index /\ max' = Len(index) - 1
      BY <2>2 DEF Open
    <3>2. EndsRight(disk, index) /\ index \in Seq(Nat)
      BY <2>2 DEF WriterInv, Whole, WriterTypeOK
    <3>3. \A n \in 0..Len(disk) : Count[n] = SwapsIn(disk, n)
      BY DEF Count, Swaps, SwapsIn
    <3>4. Total = SwapsIn(disk, Len(disk))
      BY <1>2, <3>3 DEF Total
    <3>5. \A i \in 1..Len(index) : Begins(i - 1, index[i])
      <4>. TAKE i \in 1..Len(index)
      <4>1. /\ index[i] \in 1..Len(disk) /\ SwapsIn(disk, index[i]) = i - 1
            /\ disk[index[i]] \in {"sof", "swap"}
        BY <3>2 DEF EndsRight
      <4>2. index[i] \in 0..Len(disk)
        BY <1>2, <4>1
      <4>3. Count[index[i]] = i - 1
        BY <3>3, <4>1, <4>2
      <4>. QED
        BY <4>1, <4>3 DEF Begins
    <3>6. Len(index) = Total + 1
      BY <3>2, <3>4 DEF EndsRight
    <3>. QED
      BY <1>2, <3>1, <3>2, <3>5, <3>6
  <2>. QED
    BY <2>1, <2>2
<1>6. Known'
  BY <1>1, <1>2, <1>5 DEF Known, Begins
<1>7. ReaderKnows'
  <2>1. pos' \in 0..Len(disk)' /\ inside' \in BOOLEAN /\ cur' \in Nat
    BY <1>1, <1>2, <1>3
  <2>. QED
    BY <1>4, <1>5, <1>6, <2>1 DEF ReaderKnows
<1>8. InCall' /\ ResultRight'
  BY <1>1 DEF InCall, ResultRight, NoCall, NoResult
<1>9. ReaderTypeOK'
  <2>1. 0 \in 0..Len(disk)
    BY <1>2
  <2>2. NoCall \in Calls /\ NoPlace \in Places /\ Places' = Places
    BY <1>2, <2>1 DEF NoCall, NoPlace, Calls, Places
  <2>3. NoResult \in [call : Calls, ok : BOOLEAN, at : Nat, was : Places]
    BY <2>2 DEF NoResult
  <2>. QED
    BY <1>1, <1>2, <1>7, <2>2, <2>3 DEF ReaderTypeOK, ReaderKnows
<1>. QED
  BY <1>1, <1>2, <1>7, <1>8, <1>9 DEF ReaderInv

\* While a file is open, nobody writes to it.
LEMMA ReaderIgnoresWriter ==
  ASSUME ReaderInv, Write \/ UNCHANGED vars
  PROVE  ReaderInv'
<1>1. CASE Write
  <2>1. UNCHANGED reader
    BY <1>1 DEF Write, WritePacket, Flush, WriteEof, CopyArchive, ArchiveFails, SeekToSof,
       CloseStream, Kill
  <2>2. ~Over
    BY <1>1 DEF Write, WritePacket, Flush, WriteEof, CopyArchive, ArchiveFails, SeekToSof,
       CloseStream, Kill, Over
  <2>3. rpc = "closed"
    BY <2>2 DEF ReaderInv
  <2>. QED
    BY <2>1, <2>3 DEF ReaderInv, reader
<1>2. CASE UNCHANGED vars
  <2>1. UNCHANGED writer /\ UNCHANGED <<rpc, call, pos, inside, cur, max, offsets, saved, result>>
    BY <1>2 DEF vars, reader, position
  <2>2. disk' = disk /\ Count' = Count /\ Total' = Total /\ (Over' <=> Over)
    BY <2>1, FileSame
  <2>3. /\ ReaderTypeOK => ReaderTypeOK'
        /\ ReaderKnows => ReaderKnows'
        /\ InCall => InCall'
        /\ ResultRight => ResultRight'
    <3>1. ReaderTypeOK => ReaderTypeOK'
      BY <2>1, <2>2 DEF ReaderTypeOK, Places
    <3>2. ReaderKnows => ReaderKnows'
      BY <2>1, <2>2 DEF ReaderKnows, Place, Here, Known, Begins
    <3>3. InCall => InCall'
      BY <2>1, <2>2 DEF InCall, Place, Begins
    <3>4. ResultRight => ResultRight'
      BY <2>1, <2>2 DEF ResultRight, Here, Begins
    <3>. QED
      BY <3>1, <3>2, <3>3, <3>4
  <2>. QED
    BY <2>1, <2>2, <2>3 DEF ReaderInv
<1>. QED
  BY <1>1, <1>2

\* Every step keeps what the reader knows.
LEMMA FileStep == NoRoom /\ FileInv /\ [Next]_vars => FileInv'
<1>. SUFFICES ASSUME NoRoom, WriterInv, ReaderInv, [Next]_vars PROVE WriterInv' /\ ReaderInv'
  BY DEF FileInv
<1>1. WriterInv'
  BY WriterStep
<1>2. ReaderInv'
  BY ReaderIgnoresWriter, ReaderOpen, ReaderClose, ReaderRead, ReaderCallSeek,
     ReaderSeekToKnown, ReaderScan, ReaderSeekFails, ReaderFound, ReaderReadFrames,
     ReaderFramesReturn DEF Next, Seek
<1>. QED
  BY <1>1, <1>2

\* What the invariant says of the place of the reader.
LEMMA PlaceImplies == FileInv => PlaceIsKnown
<1>. SUFFICES ASSUME WriterInv, ReaderInv, rpc # "closed"
              PROVE  /\ ReaderTypeOK
                     /\ cur = Swaps(pos)
                     /\ cur < Len(offsets)
                     /\ \A i \in DOMAIN offsets :
                          Swaps(offsets[i]) = i - 1 /\ disk[offsets[i]] \in {"sof", "swap"}
                     /\ max # -1 => max = Swaps(Len(disk))
  BY DEF FileInv, PlaceIsKnown
<1>1. Over /\ ReaderTypeOK /\ ReaderKnows
  BY DEF ReaderInv
<1>2. Len(disk) \in Nat /\ \A i \in 0..Len(disk) : Count[i] = Swaps(i)
  BY <1>1, FileFacts
<1>3. /\ pos \in 0..Len(disk) /\ cur = Count[pos] /\ cur < Len(offsets)
      /\ max # -1 => max = Total
  BY <1>1, KnowsFacts
<1>4. cur = Swaps(pos) /\ (max # -1 => max = Swaps(Len(disk)))
  <2>1. Len(disk) \in 0..Len(disk)
    BY <1>2
  <2>. QED
    BY <1>2, <1>3, <2>1 DEF Total
<1>5. ASSUME NEW i \in DOMAIN offsets
      PROVE  Swaps(offsets[i]) = i - 1 /\ disk[offsets[i]] \in {"sof", "swap"}
  <2>1. i \in 1..Len(offsets)
    BY <1>1 DEF ReaderKnows
  <2>2. Begins(i - 1, offsets[i])
    BY <1>1, <2>1 DEF ReaderKnows, Known
  <2>3. offsets[i] \in 0..Len(disk)
    BY <1>2, <2>2 DEF Begins
  <2>4. Count[offsets[i]] = Swaps(offsets[i])
    BY <1>2, <2>3
  <2>. QED
    BY <2>2, <2>4 DEF Begins
<1>. QED
  BY <1>1, <1>3, <1>4, <1>5

\* What it says of the calls.
LEMMA CallsImplies == FileInv => CallsAreRight
<1>. SUFFICES ASSUME WriterInv, ReaderInv PROVE CallsAreRight
  BY DEF FileInv
<1>1. CASE rpc = "closed"
  BY <1>1 DEF ReaderInv, CallsAreRight, NoResult, NoCall
<1>2. CASE rpc # "closed"
  <2>1. Over /\ ReaderTypeOK /\ ReaderKnows /\ ResultRight
    BY <1>2 DEF ReaderInv
  <2>2. /\ Len(disk) \in Nat /\ Count \in [0..Len(disk) -> Nat] /\ Total \in Nat
        /\ \A i \in 0..Len(disk) : Count[i] = Swaps(i)
    BY <2>1, FileFacts
  <2>3. /\ Total = Swaps(Len(disk)) /\ Len(disk) \in 0..Len(disk)
        /\ pos \in 0..Len(disk) /\ cur = Count[pos] /\ cur = Swaps(pos)
    BY <2>1, <2>2, KnowsFacts DEF Total
  <2>4. result.call.op = "seek" =>
          /\ result.ok <=> result.call.frame <= Swaps(Len(disk))
          /\ result.ok => /\ cur = result.call.frame /\ cur = Swaps(pos)
                          /\ disk[pos] \in {"sof", "swap"}
    BY <2>1, <2>3 DEF ResultRight, Begins
  <2>5. result.call.op = "max" =>
          /\ max = -1 => disk[Len(disk)] = "torn"
          /\ [pos |-> pos, inside |-> inside, cur |-> cur] = result.was
    BY <2>1 DEF ResultRight, Here
  <2>6. ASSUME result.call.op = "frames"
        PROVE  LET left == Swaps(Len(disk)) - result.call.frame
               IN /\ result.ok <=> left >= 0
                  /\ result.ok =>
                       /\ Swaps(result.call.from) = result.call.frame
                       /\ disk[result.call.from] \in {"sof", "swap"}
                       /\ result.call.got = Swaps(result.at) - result.call.frame
                       /\ result.call.got = IF left < result.call.count THEN left
                                            ELSE result.call.count
                  /\ [pos |-> pos, inside |-> inside, cur |-> cur] = result.was
    <3>. DEFINE left == Total - result.call.frame
    <3>1. result.call.frame \in Nat
      BY <2>1 DEF ReaderTypeOK, Calls
    <3>2. result.ok <=> left >= 0
      BY <2>1, <2>2, <2>6, <3>1 DEF ResultRight
    <3>3. ASSUME result.ok
          PROVE  /\ Begins(result.call.frame, result.call.from)
                 /\ result.at \in 0..Len(disk)
                 /\ result.call.got = Count[result.at] - result.call.frame
                 /\ result.call.got = IF left < result.call.count THEN left
                                      ELSE result.call.count
      BY <2>1, <2>6, <3>3 DEF ResultRight
    <3>4. ASSUME result.ok
          PROVE  /\ Swaps(result.call.from) = result.call.frame
                 /\ disk[result.call.from] \in {"sof", "swap"}
                 /\ Swaps(result.at) = Count[result.at]
      <4>1. result.call.from \in 0..Len(disk)
        BY <2>2, <3>3, <3>4 DEF Begins
      <4>2. Count[result.call.from] = Swaps(result.call.from)
        BY <2>2, <4>1
      <4>. QED
        BY <2>2, <3>3, <3>4, <4>2 DEF Begins
    <3>5. [pos |-> pos, inside |-> inside, cur |-> cur] = result.was
      BY <2>1, <2>6 DEF ResultRight, Here
    <3>. QED
      BY <2>3, <3>2, <3>3, <3>4, <3>5
  <2>. QED
    BY <2>4, <2>5, <2>6 DEF CallsAreRight
<1>. QED
  BY <1>1, <1>2

\* The invariant of the file, its writer and its reader.
THEOREM FileCorrect ==
  ASSUME NoRoom
  PROVE  Spec => []FileInv
<1>1. Init => FileInv
  BY WriterInit DEF Init, FileInv, ReaderInv
<1>2. FileInv /\ [Next]_vars => FileInv'
  BY FileStep
<1>. QED
  BY <1>1, <1>2, PTL DEF Spec

\* Every offset the reader knows is the one at which its frame begins, and the
\* index of the current frame is the number of swaps before the position, in any
\* file that a killed or failing writer leaves.
THEOREM PlaceCorrect ==
  ASSUME NoRoom
  PROVE  Spec => []PlaceIsKnown
<1>1. Spec => []FileInv
  BY FileCorrect
<1>2. FileInv => PlaceIsKnown
  BY PlaceImplies
<1>. QED
  BY <1>1, <1>2, PTL

\* A seek finds a frame exactly if the file has it, and read_frame_packets reads
\* from its start the frames that there are of those asked for, in any such file.
THEOREM CallsCorrect ==
  ASSUME NoRoom
  PROVE  Spec => []CallsAreRight
<1>1. Spec => []FileInv
  BY FileCorrect
<1>2. FileInv => CallsAreRight
  BY CallsImplies
<1>. QED
  BY <1>1, <1>2, PTL

=============================================================================

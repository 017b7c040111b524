------------------------------ MODULE TraceFile ------------------------------
(***************************************************************************)
(* A binary trace file from its writer to its reader:                      *)
(*   src/src/voglcommon/vogl_trace_file_writer.cpp, which appends packets, *)
(*     remembers where each frame ends and closes the file with an end of  *)
(*     file packet, an archive that holds these offsets, and a new start   *)
(*     of file packet that names the archive;                              *)
(*   src/src/voglcommon/vogl_trace_file_reader.cpp, which seeks to frames  *)
(*     with the offsets of the archive or, in a file whose writer was      *)
(*     killed or ran out of space, with those it finds while it reads;     *)
(*   the buffered stream of src/src/voglcore/vogl_cfile_stream.h.          *)
(*                                                                         *)
(* A file is a sequence of items: packets, swaps, the end of file packet   *)
(* and the archive; an offset is the number of items before it.  An item   *)
(* that did not reach the file as a whole is "torn".                       *)
(***************************************************************************)
EXTENDS Integers, Sequences, FiniteSets

CONSTANTS
  MaxPackets,  \* bound on the packets that the tracer writes
  Faults       \* what may happen to the writer: "kill", "full", "room"

ASSUME TraceFileAssumption ==
  /\ MaxPackets \in Nat
  /\ Faults \subseteq {"kill", "full", "room"}

VARIABLES
  \* the writer
  wpc,      \* the place it has reached in open, write_packet and close
  size,     \* m_stream.m_size: the items it believes to be in the file
  ends,     \* m_frame_file_offsets
  success,  \* the local variable of close
  archive,  \* archive offset in m_sof_packet; 0 is none
  full,     \* a write has failed
  \* the file
  disk,     \* the items in the file
  buf,      \* the items in the stdio buffer
  sof,      \* archive offset in the start of file packet of the file
  index,    \* the offsets that were put into the archive
  \* the reader
  rpc,      \* the place it has reached in open, seek_to_frame and the others
  call,     \* the call it is in
  pos,      \* the items before the position of m_trace_stream
  inside,   \* the position is inside the next item
  cur,      \* m_cur_frame_index
  max,      \* m_max_frame_index
  offsets,  \* m_frame_file_offsets
  saved,    \* m_saved_location_stack, of which no call uses more than one
  result    \* history: what the last call returned

writer == <<wpc, size, ends, success, archive, full, disk, buf, sof, index>>
position == <<pos, inside, cur>>
reader == <<rpc, call, position, max, offsets, saved, result>>
vars == <<writer, reader>>

NoCall == [op |-> "none", frame |-> 0, from |-> 0, count |-> 0, got |-> 0]
PacketKinds == {"packet", "swap", "eof", "bad"}
NoPlace == [pos |-> 0, inside |-> FALSE, cur |-> 0]
NoResult == [call |-> NoCall, ok |-> FALSE, at |-> 0, was |-> NoPlace]

\* The argument 0xFFFFFFFF of get_max_frame_index's seek.
LastFrame == MaxPackets + 1

Init ==
  /\ wpc = "open" /\ size = 2 /\ ends = <<1>>
  /\ success = TRUE /\ archive = 0 /\ full = FALSE
  /\ disk = <<>> /\ buf = <<"sof", "packet">> /\ sof = 0
  /\ index = <<>>
  /\ rpc = "closed" /\ call = NoCall /\ pos = 0 /\ inside = FALSE /\ cur = 0
  /\ max = -1 /\ offsets = <<>> /\ saved = NoPlace
  /\ result = NoResult

-----------------------------------------------------------------------------
(* The stream.                                                               *)

\* What a writer that is killed, or whose disk is full, leaves of the items in
\* the buffer: some of them, and a part of the next.
Cut(items) ==
  {disk \o SubSeq(items, 1, n) : n \in 0..Len(items)} \union
  {Append(disk \o SubSeq(items, 1, n), "torn") : n \in 0..(Len(items) - 1)}

\* Items that stay in the buffer of a full disk will be lost.
Lost == full /\ "room" \notin Faults

Accepted(item) ==
  /\ buf' = IF Lost THEN buf ELSE Append(buf, item)
  /\ size' = size + 1
  /\ UNCHANGED <<disk, full>>

Refused(items) ==
  /\ "full" \in Faults
  /\ disk' \in (IF Lost THEN {disk} ELSE Cut(items))
  /\ buf' = <<>>
  /\ full' = TRUE
  /\ UNCHANGED size

Flushed ==
  /\ ~Lost
  /\ disk' = disk \o buf
  /\ buf' = <<>>
  /\ UNCHANGED <<full, size>>

-----------------------------------------------------------------------------
(* The writer: vogl_trace_file_writer::open has written two start-up packets, *)
(* which count as one.                                                       *)

NewEnds(kind) == IF kind = "swap" THEN Append(ends, size + 1) ELSE ends

\* write_packet.  After a failure the tracer exits, which closes the file, but
\* other threads may write in between.
WritePacket ==
  /\ wpc = "open"
  /\ size < MaxPackets + 2
  /\ \E kind \in {"packet", "swap"} :
       \/ /\ Accepted(kind)
          /\ ends' = NewEnds(kind)
       \/ /\ Refused(Append(buf, kind))
          /\ UNCHANGED ends
  /\ UNCHANGED <<wpc, success, archive, sof, index, reader>>

\* The tracer flushes after a swap or after each call, if told to; it does not
\* look at the result.
Flush ==
  /\ wpc = "open"
  /\ buf # <<>>
  /\ Flushed \/ Refused(buf)
  /\ UNCHANGED <<wpc, ends, success, archive, sof, index, reader>>

WriteEof ==
  /\ wpc = "open"
  /\ \/ Accepted("eof") /\ wpc' = "archive" /\ UNCHANGED success
     \/ Refused(Append(buf, "eof")) /\ wpc' = "close" /\ success' = FALSE
  /\ UNCHANGED <<ends, archive, sof, index, reader>>

\* The offsets are put into the archive, which is copied behind the packets.
CopyArchive ==
  /\ wpc = "archive"
  /\ archive' = size
  /\ index' = ends
  /\ \/ Accepted("archive") /\ UNCHANGED success
     \/ Refused(Append(buf, "archive")) /\ success' = FALSE
  /\ wpc' = IF success' THEN "sof" ELSE "close"
  /\ UNCHANGED <<ends, sof, reader>>

\* The offsets cannot be added to the archive, or its file cannot be closed.
ArchiveFails ==
  /\ wpc = "archive"
  /\ "full" \in Faults
  /\ success' = FALSE
  /\ wpc' = "close"
  /\ UNCHANGED <<size, ends, archive, full, disk, buf, sof, index, reader>>

WrongSeekToSof ==
  /\ wpc = "sof"
  /\ wpc' = "rewrite"
  /\ UNCHANGED <<size, full, disk, buf, success, ends, archive, sof, index, reader>>

\* Seeking to the start of the file flushes the stream.
SeekToSof ==
  /\ wpc = "sof"
  /\ \/ Flushed /\ wpc' = "rewrite" /\ UNCHANGED success
     \/ Refused(buf) /\ wpc' = "close" /\ success' = FALSE
  /\ UNCHANGED <<ends, archive, sof, index, reader>>

\* The stream is closed with the new start of file packet in its buffer, or,
\* when closing has failed before, with what else it holds.
CloseStream ==
  /\ wpc \in {"rewrite", "close"}
  /\ \/ Flushed /\ UNCHANGED success
     \/ Refused(buf) /\ success' = FALSE
  /\ sof' \in IF wpc = "close" THEN {sof}
              ELSE IF success' THEN {archive} ELSE {sof, archive}
  /\ wpc' = "done"
  /\ UNCHANGED <<ends, archive, index, reader>>

\* A start of file packet in the buffer reaches the file whole or not at all.
Kill ==
  /\ "kill" \in Faults
  /\ wpc \notin {"done", "killed"}
  /\ disk' \in IF Lost THEN {disk} ELSE Cut(buf)
  /\ buf' = <<>>
  /\ sof' \in IF wpc = "rewrite" THEN {sof, archive} ELSE {sof}
  /\ wpc' = "killed"
  /\ size' = 0 /\ ends' = <<>> /\ archive' = 0
  /\ success' = FALSE /\ full' = FALSE
  /\ UNCHANGED <<index, reader>>

-----------------------------------------------------------------------------
(* The reader.                                                               *)

GoTo(place) == pos' = place.pos /\ inside' = place.inside /\ cur' = place.cur

Returns(ok) ==
  /\ result' = [call |-> call, ok |-> ok, at |-> pos, was |-> saved]
  /\ call' = NoCall
  /\ saved' = NoPlace
  /\ rpc' = "idle"

\* The archive is looked for at its offset, which is one of bytes.
OpenWorks ==
  /\ disk # <<>> /\ disk[1] = "sof"
  /\ sof # 0 => /\ sof < Len(disk) /\ disk[sof + 1] = "archive"
                /\ \A i \in 1..sof : disk[i] # "torn"

\* Without an archive only the offset of the first frame is known.
Open ==
  /\ rpc = "closed"
  /\ wpc \in {"done", "killed"}
  /\ OpenWorks
  /\ rpc' = "idle"
  /\ GoTo([pos |-> 1, inside |-> FALSE, cur |-> 0])
  /\ IF sof = 0 THEN offsets' = <<1>> /\ max' = -1
     ELSE offsets' = index /\ max' = Len(index) - 1
  /\ UNCHANGED <<call, saved, result, writer>>

Close ==
  /\ rpc = "idle"
  /\ rpc' = "closed"
  /\ GoTo(NoPlace) /\ saved' = NoPlace
  /\ max' = -1 /\ offsets' = <<>>
  /\ result' = NoResult
  /\ UNCHANGED <<call, writer>>

\* At the end of the file or at the end of file packet the last frame is known.
MaxIsCur == max' = IF max < 0 THEN cur ELSE max

WrongReadWhole(kind) ==
  /\ ~inside /\ pos < Len(disk)
  /\ kind = disk[pos + 1] /\ kind \in {"packet", "swap", "eof"}
  /\ pos' = pos + 1
  /\ IF kind = "swap"
     THEN /\ cur' = cur + 1
          /\ offsets' = IF cur < Len(offsets) THEN offsets
                        ELSE Append(offsets, pos')
     ELSE UNCHANGED <<cur, offsets>>
  /\ IF kind = "eof" THEN MaxIsCur ELSE UNCHANGED max
  /\ UNCHANGED inside

\* read_next_packet.  The swap that ends the last known frame finds another.
ReadWhole(kind) ==
  /\ ~inside /\ pos < Len(disk)
  /\ kind = disk[pos + 1] /\ kind \in {"packet", "swap", "eof"}
  /\ pos' = pos + 1
  /\ IF kind = "swap"
     THEN /\ cur' = cur + 1
          /\ offsets' = IF cur' < Len(offsets) THEN offsets
                        ELSE Append(offsets, pos')
     ELSE UNCHANGED <<cur, offsets>>
  /\ IF kind = "eof" THEN MaxIsCur ELSE UNCHANGED max
  /\ UNCHANGED inside

ReadEnd ==
  /\ ~inside /\ pos = Len(disk)
  /\ MaxIsCur
  /\ UNCHANGED <<position, offsets>>

\* A torn packet, or what is behind the end of file packet: the stream is left
\* somewhere in it or at the end.
ReadBad ==
  /\ inside \/ (pos < Len(disk) /\ disk[pos + 1] \in {"torn", "archive"})
  /\ \/ inside' = TRUE /\ UNCHANGED pos
     \/ inside' = FALSE /\ pos' = Len(disk)
  /\ UNCHANGED <<cur, max, offsets>>

\* A reader at the end of the file pretends that it has read an end of file
\* packet.
NextPacket(kind) ==
  \/ ReadWhole(kind)
  \/ kind = "eof" /\ ReadEnd
  \/ kind = "bad" /\ ReadBad

Read ==
  /\ rpc = "idle"
  /\ \E kind \in PacketKinds : NextPacket(kind)
  /\ result' = NoResult
  /\ UNCHANGED <<rpc, call, saved, writer>>

\* seek_to_frame, get_max_frame_index and read_frame_packets; the last two save
\* the location and put it back.
CallSeek ==
  /\ rpc = "idle"
  /\ \/ \E f \in 0..LastFrame : call' = [NoCall EXCEPT !.op = "seek", !.frame = f]
     \/ /\ max < 0
        /\ call' = [NoCall EXCEPT !.op = "max", !.frame = LastFrame]
     \/ \E f \in 0..LastFrame, n \in 1..2 :
          call' = [NoCall EXCEPT !.op = "frames", !.frame = f, !.count = n]
  /\ saved' = IF call'.op = "seek" THEN saved
              ELSE [pos |-> pos, inside |-> inside, cur |-> cur]
  /\ rpc' = "seek"
  /\ result' = NoResult
  /\ UNCHANGED <<position, max, offsets, writer>>

\* To find a frame that is not known yet, the reader goes to the last one that
\* is and reads from there.
SeekToKnown ==
  /\ rpc = "seek"
  /\ IF call.frame < Len(offsets)
     THEN rpc' = "found" /\ UNCHANGED position
     ELSE IF max >= 0 /\ call.frame > max
     THEN rpc' = "failed" /\ UNCHANGED position
     ELSE /\ rpc' = "scan"
          /\ GoTo([pos |-> offsets[Len(offsets)], inside |-> FALSE,
                   cur |-> Len(offsets) - 1])
  /\ UNCHANGED <<call, max, offsets, saved, result, writer>>

WrongScan ==
  /\ rpc = "scan"
  /\ \E kind \in PacketKinds :
       /\ NextPacket(kind)
       /\ rpc' = IF kind = "bad" THEN "failed"
                 ELSE IF call.frame < Len(offsets') THEN "found"
                 ELSE "scan"
  /\ UNCHANGED <<call, saved, result, writer>>

Scan ==
  /\ rpc = "scan"
  /\ \E kind \in PacketKinds :
       /\ NextPacket(kind)
       /\ rpc' = IF kind = "bad" THEN "failed"
                 ELSE IF call.frame < Len(offsets') THEN "found"
                 ELSE IF kind = "eof" THEN "failed"
                 ELSE "scan"
  /\ UNCHANGED <<call, saved, result, writer>>

WrongSeekFails ==
  /\ rpc = "failed"
  /\ Returns(FALSE)
  /\ UNCHANGED <<position, max, offsets, writer>>

\* get_max_frame_index ignores the result of the seek.
SeekFails ==
  /\ rpc = "failed"
  /\ IF call.op = "seek" THEN UNCHANGED position ELSE GoTo(saved)
  /\ Returns(FALSE)
  /\ UNCHANGED <<max, offsets, writer>>

Found ==
  /\ rpc = "found"
  /\ GoTo([pos |-> offsets[call.frame + 1], inside |-> FALSE, cur |-> call.frame])
  /\ IF call.op = "seek" THEN Returns(TRUE)
     ELSE /\ rpc' = "frames"
          /\ call' = [call EXCEPT !.from = pos']
          /\ UNCHANGED <<saved, result>>
  /\ UNCHANGED <<max, offsets, writer>>

\* The loop of read_frame_packets, which reports what it has read when a packet
\* is bad, too.
ReadFrames ==
  /\ rpc = "frames"
  /\ \E kind \in PacketKinds :
       /\ NextPacket(kind)
       /\ LET got == call.got + (IF kind = "swap" THEN 1 ELSE 0)
          IN /\ call' = [call EXCEPT !.got = got]
             /\ rpc' = IF kind = "bad" \/ kind = "eof" \/ got = call.count
                       THEN "return" ELSE "frames"
  /\ UNCHANGED <<saved, result, writer>>

FramesReturn ==
  /\ rpc = "return"
  /\ Returns(TRUE)
  /\ GoTo(saved)
  /\ UNCHANGED <<max, offsets, writer>>

Write == WritePacket \/ Flush \/ WriteEof \/ CopyArchive \/ ArchiveFails
         \/ SeekToSof \/ CloseStream \/ Kill
Seek == SeekToKnown \/ Scan \/ SeekFails \/ Found \/ ReadFrames \/ FramesReturn
Next == Write \/ Open \/ Close \/ Read \/ CallSeek \/ Seek

\* A call of the reader runs to its end.
Spec == Init /\ [][Next]_vars /\ WF_vars(Seek)

-----------------------------------------------------------------------------
(* Properties.                                                               *)

Swaps(n) == Cardinality({i \in 1..n : disk[i] = "swap"})

Kinds == {"sof", "packet", "swap", "eof", "archive", "torn"}
Calls == [op : {"none", "seek", "max", "frames"}, frame : Nat, from : Nat,
          count : Nat, got : Nat]

Places == [pos : 0..Len(disk), inside : BOOLEAN, cur : Nat]

\* Type invariant of the writer and the file.
WriterTypeOK ==
  /\ wpc \in {"open", "archive", "sof", "rewrite", "close", "done", "killed"}
  /\ size \in Nat /\ archive \in Nat /\ sof \in Nat
  /\ ends \in Seq(Nat) /\ index \in Seq(Nat)
  /\ disk \in Seq(Kinds) /\ buf \in Seq(Kinds)
  /\ success \in BOOLEAN /\ full \in BOOLEAN

\* Type invariant of the reader.
ReaderTypeOK ==
  /\ rpc \in {"closed", "idle", "seek", "scan", "found", "failed", "frames", "return"}
  /\ call \in Calls
  /\ pos \in 0..Len(disk) /\ inside \in BOOLEAN /\ cur \in Nat
  /\ max \in Nat \union {-1} /\ offsets \in Seq(Nat)
  /\ saved \in Places
  /\ result \in [call : Calls, ok : BOOLEAN, at : Nat, was : Places]

\* What a start of file packet says is true, whenever the writer is killed and
\* whichever of its writes fails: if it names an archive, the archive is whole,
\* behind every packet, and holds the end of each frame.  In particular a file
\* that was closed with success can be opened.
ArchiveIsWhole ==
  /\ WriterTypeOK
  /\ sof # 0 =>
       /\ OpenWorks /\ Len(disk) = sof + 1
       /\ \A i \in DOMAIN index : Swaps(index[i]) = i - 1
       /\ Len(index) = Swaps(Len(disk)) + 1
  /\ wpc = "done" /\ success => sof # 0

\* Every offset the reader knows, from the archive or from what it has read, is
\* the one at which its frame begins; the index of the current frame is the
\* number of swaps before the position, after any sequence of reads, seeks that
\* succeed or fail and queries; and the last frame is the number of swaps in
\* the file once it is known.  The assertions of read_next_packet follow.
PlaceIsKnown ==
  rpc # "closed" =>
    /\ ReaderTypeOK
    /\ cur = Swaps(pos)
    /\ cur < Len(offsets)
    /\ \A i \in DOMAIN offsets :
         Swaps(offsets[i]) = i - 1 /\ disk[offsets[i]] \in {"sof", "swap"}
    /\ max # -1 => max = Swaps(Len(disk))

\* Whatever was left of the trace, a seek finds a frame exactly if the swap
\* before it is in the file, and read_frame_packets reads from its start as many
\* frames as the file has of those that were asked for; get_max_frame_index
\* fails only on a file with a torn end, and leaves the position alone.
CallsAreRight ==
  /\ result.call.op = "seek" =>
       /\ result.ok <=> result.call.frame <= Swaps(Len(disk))
       /\ result.ok => /\ cur = result.call.frame /\ cur = Swaps(pos)
                       /\ disk[pos] \in {"sof", "swap"}
  /\ result.call.op = "max" =>
       /\ max = -1 => disk[Len(disk)] = "torn"
       /\ [pos |-> pos, inside |-> inside, cur |-> cur] = result.was
  /\ result.call.op = "frames" =>
       LET left == Swaps(Len(disk)) - result.call.frame
       IN /\ result.ok <=> left >= 0
          /\ result.ok =>
               /\ Swaps(result.call.from) = result.call.frame
               /\ disk[result.call.from] \in {"sof", "swap"}
               /\ result.call.got = Swaps(result.at) - result.call.frame
               /\ result.call.got = IF left < result.call.count THEN left
                                    ELSE result.call.count
          /\ [pos |-> pos, inside |-> inside, cur |-> cur] = result.was

\* A file whose writer says that it closed it with success can be opened.
SuccessIsReadable == wpc = "done" /\ success => OpenWorks

\* A call of the reader returns: looking for a frame that does not exist ends at
\* the end of the file, at its end of file packet or at a torn packet.
CallsReturn == (rpc = "seek") ~> (rpc = "idle")

=============================================================================

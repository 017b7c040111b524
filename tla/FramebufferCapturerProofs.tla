---------------------- MODULE FramebufferCapturerProofs ----------------------
(***************************************************************************)
(* Proofs about FramebufferCapturer for any number of pixel buffers, sizes *)
(* and frames, with failures, and with signal handlers that strike outside *)
(* of the windows the code leaves open.                                    *)
(***************************************************************************)
EXTENDS FramebufferCapturer, SequenceTheorems, TLAPS

\* The successor of a slot is a slot: one more, or 0 after the last.
LEMMA SuccWraps ==
  ASSUME NEW i \in Slots
  PROVE  /\ Succ(i) = IF i + 1 < NumBufs THEN i + 1 ELSE 0
         /\ Succ(i) \in Slots
<1>1. CASE i + 1 < NumBufs
  BY <1>1, CapturerAssumption DEF Succ, Slots
<1>2. CASE i + 1 = NumBufs
  BY <1>2, CapturerAssumption DEF Succ, Slots
<1>. QED
  BY <1>1, <1>2, CapturerAssumption DEF Slots

\* The slots from the tail on are different slots, and all of them.
LEMMA SlotsDiffer ==
  ASSUME tail \in Slots
  PROVE  /\ \A i \in 0..NumBufs : SlotOf(i) \in Slots
         /\ SlotOf(0) = tail /\ SlotOf(NumBufs) = tail
         /\ \A i, j \in 0..(NumBufs - 1) : SlotOf(i) = SlotOf(j) => i = j
         /\ \A s \in Slots : \E i \in 0..(NumBufs - 1) : SlotOf(i) = s
<1>1. ASSUME NEW s \in Slots
      PROVE  \E i \in 0..(NumBufs - 1) : SlotOf(i) = s
  <2>1. CASE s >= tail
    <3>1. s - tail \in 0..(NumBufs - 1) /\ SlotOf(s - tail) = s
      BY <2>1, CapturerAssumption DEF SlotOf, Slots
    <3>. QED
      BY <3>1
  <2>2. CASE s < tail
    <3>1. s + NumBufs - tail \in 0..(NumBufs - 1) /\ SlotOf(s + NumBufs - tail) = s
      BY <2>2, CapturerAssumption DEF SlotOf, Slots
    <3>. QED
      BY <3>1
  <2>. QED
    BY <2>1, <2>2 DEF Slots
<1>. QED
  BY <1>1, CapturerAssumption DEF SlotOf, Slots

\* Moving the tail moves every slot one place towards the front.
LEMMA TailMoves ==
  ASSUME tail \in Slots, tail' = Succ(tail)
  PROVE  /\ tail' \in Slots
         /\ \A i \in 0..(NumBufs - 1) : SlotOf(i)' = SlotOf(i + 1)
         /\ SlotOf(NumBufs - 1)' = tail
BY SuccWraps, CapturerAssumption DEF SlotOf, Slots

\* Moving the head takes the next slot.
LEMMA HeadMoves ==
  ASSUME tail \in Slots, NEW n \in 0..(NumBufs - 1)
  PROVE  Succ(SlotOf(n)) = SlotOf(n + 1)
<1>1. SlotOf(n) \in Slots
  BY SlotsDiffer, CapturerAssumption
<1>. QED
  BY <1>1, SuccWraps, CapturerAssumption DEF SlotOf, Slots

-----------------------------------------------------------------------------
(* Types, wherever a handler strikes.                                        *)

\* What the variables hold at the start is well typed.
LEMMA ClearedType == Cleared \in Buffers
BY DEF Cleared, Buffers, Frames, NoFrame

\* The absence of a call is one of the values a call may have.
LEMMA NoCallType == NoCall \in Calls
BY DEF NoCall, Calls

\* deinit leaves an empty ring.
LEMMA DeinitType ==
  ASSUME Deinit
  PROVE  /\ up' \in BOOLEAN /\ pbos' \in [Slots -> Buffers]
         /\ head' \in Slots /\ tail' \in Slots /\ numBusy' \in 0..UINT32_MAX
         /\ size' \in Sizes \union {NoSize}
         /\ \A i \in Slots : ~pbos'[i].busy
<1>1. 0 \in Slots /\ 0 \in 0..UINT32_MAX
  BY CapturerAssumption DEF Slots
<1>2. pbos' \in [Slots -> Buffers] /\ \A i \in Slots : ~pbos'[i].busy
  <2>1. pbos' = [i \in Slots |-> Cleared] /\ ~Cleared.busy
    BY DEF Deinit, Cleared
  <2>. QED
    BY <2>1, ClearedType
<1>. QED
  BY <1>1, <1>2 DEF Deinit

\* recreate_buffers leaves buffers that are free.
LEMMA CreatedType ==
  ASSUME Create
  PROVE  pbos' \in [Slots -> Buffers] /\ \A i \in Slots : ~pbos'[i].busy
<1>1. \E n \in 0..NumBufs, b \in {"none", "empty"} : pbos' = Created(n, b)
  <2>1. NumBufs \in 0..NumBufs /\ \A n \in Slots : n \in 0..NumBufs
    BY CapturerAssumption DEF Slots
  <2>. QED
    BY <2>1 DEF Create
<1>2. PICK n \in 0..NumBufs, b \in {"none", "empty"} : pbos' = Created(n, b)
  BY <1>1
<1>3. \A i \in Slots : Created(n, b)[i] \in Buffers /\ ~Created(n, b)[i].busy
  BY ClearedType DEF Created, Cleared, Buffers
<1>. QED
  BY <1>2, <1>3 DEF Created

\* The indices stay in the ring and the counters in their width in every step.
LEMMA TypeStep == TypeOK /\ [Next]_vars => TypeOK'
<1>. SUFFICES ASSUME TypeOK, [Next]_vars PROVE TypeOK'
  OBVIOUS
<1>. USE NoCallType DEF Places, CapturePlaces, FlushPlaces
<1>1. CASE Swap
  <2>1. call' \in Calls /\ pc' \in Places /\ swaps' \in Nat
    BY <1>1 DEF Swap, TypeOK, Calls
  <2>. QED
    BY <1>1, <2>1 DEF Swap, TypeOK, ringVars, locals
<1>2. CASE Release \/ EndCapture
  <2>1. call' \in Calls /\ pc' \in Places
    BY <1>2 DEF Release, EndCapture, Calls, NoCall
  <2>. QED
    BY <1>2, <2>1 DEF Release, EndCapture, TypeOK, ringVars, locals, appVars
<1>3. CASE Switch \/ MakeCurrent
  BY <1>3 DEF Switch, MakeCurrent, TypeOK, ringVars, locals
<1>4. CASE Destroy
  <2>1. CASE current /\ up
    <3>1. call' \in Calls
      BY <1>4, <2>1 DEF Destroy, Calls, NoCall
    <3>. QED
      BY <1>4, <2>1, <3>1 DEF Destroy, TypeOK, ringVars, locals
  <2>2. CASE ~(current /\ up)
    <3>1. Deinit
      BY <1>4, <2>2 DEF Destroy
    <3>. QED
      BY <1>4, <2>2, <3>1, DeinitType DEF Destroy, TypeOK, locals
  <2>. QED
    BY <2>1, <2>2
<1>5. CASE FlushDeinit
  BY <1>5, DeinitType DEF FlushDeinit, Return, TypeOK, locals, appVars
<1>6. CASE Flushed
  BY <1>6 DEF Flushed, AfterFlush, Return, TypeOK, ringVars, locals, appVars
<1>7. CASE FlushPbo
  BY <1>7 DEF FlushPbo, AfterFlush, Return, TypeOK, ringVars, locals, appVars
<1>8. CASE Take \/ Write \/ LoadTail \/ LoadCount \/ MakeRoom
  <2>1. tail \in 0..UINT32_MAX
    BY CapturerAssumption DEF TypeOK, Slots
  <2>. QED
    BY <1>8, <2>1
       DEF Take, Write, LoadTail, LoadCount, MakeRoom, TypeOK, ringVars, appVars, locals
<1>9. CASE Clear
  BY <1>9 DEF Clear, TypeOK, locals, appVars, Buffers
<1>10. CASE StoreTail
  <2>1. Succ(reg) \in Slots
    BY CapturerAssumption DEF Succ, Slots, TypeOK
  <2>. QED
    BY <1>10, <2>1 DEF StoreTail, TypeOK, locals, appVars
<1>11. CASE StoreLess \/ StoreMore
  <2>1. numBusy' \in 0..UINT32_MAX
    BY <1>11, CapturerAssumption DEF StoreLess, StoreMore, TypeOK
  <2>2. UNCHANGED <<up, pbos, head, tail, size, locals, appVars>>
    BY <1>11 DEF StoreLess, StoreMore
  <2>3. call' \in Calls /\ pc' \in Places
    BY <1>11 DEF StoreLess, StoreMore, Return, TypeOK
  <2>. QED
    BY <2>1, <2>2, <2>3 DEF TypeOK, locals, appVars
<1>12. CASE Signal
  <2>1. PICK n \in 1..NumBufs :
          /\ n <= numBusy
          /\ pbos' = [s \in Slots |->
               [pbos[s] EXCEPT !.busy = @ /\ \A i \in 0..(n - 1) : s # SlotOf(i)]]
          /\ tail' = SlotOf(n) /\ numBusy' = numBusy - n
    BY <1>12 DEF Signal
  <2>2. tail' \in Slots /\ numBusy' \in 0..UINT32_MAX
    BY <2>1, SlotsDiffer, CapturerAssumption DEF TypeOK
  <2>3. pbos' \in [Slots -> Buffers]
    BY <2>1 DEF TypeOK, Buffers
  <2>. QED
    BY <1>12, <2>2, <2>3 DEF Signal, TypeOK, locals, appVars
<1>13. CASE Create
  <2>1. pbos' \in [Slots -> Buffers]
    BY <1>13, CreatedType
  <2>2. call' \in Calls /\ call.size \in Sizes \union {NoSize} /\ 0 \in 0..UINT32_MAX
        /\ pc' \in Places
    BY <1>13, CapturerAssumption DEF Create, Return, TypeOK, Calls
  <2>. QED
    BY <1>13, <2>1, <2>2 DEF Create, TypeOK, locals, appVars
<1>14. CASE Read \/ ReadFails \/ ReadNowhere
  BY <1>14 DEF Read, ReadFails, ReadNowhere, Return, TypeOK, ringVars, locals, appVars
<1>15. CASE Fill
  <2>1. [index |-> swaps, size |-> size, current |-> current] \in Frames
    BY DEF TypeOK, Frames
  <2>2. pbos' \in [Slots -> Buffers]
    BY <1>15, <2>1 DEF Fill, TypeOK, Buffers
  <2>. QED
    BY <1>15, <2>2 DEF Fill, TypeOK, locals, appVars
<1>16. CASE StoreHead
  BY <1>16, SuccWraps DEF StoreHead, TypeOK, locals, appVars
<1>17. CASE UNCHANGED vars
  BY <1>17 DEF vars, TypeOK, ringVars, locals, appVars
<1>. QED
  BY <1>1, <1>2, <1>3, <1>4, <1>5, <1>6, <1>7, <1>8, <1>9, <1>10, <1>11, <1>12,
     <1>13, <1>14, <1>15, <1>16, <1>17 DEF Next

\* The initial states are well typed.
LEMMA TypeInit == Init => TypeOK
BY ClearedType, NoCallType, CapturerAssumption DEF Init, TypeOK, Slots, Places

\* Wherever signal handlers strike, in the windows too, head and tail are slots of
\* the ring: no capture or flush accesses a buffer outside of it.
THEOREM TypeCorrect == Spec => []TypeOK
<1>. QED
  BY TypeInit, TypeStep, PTL DEF Spec

-----------------------------------------------------------------------------
(* The ring.                                                                 *)

\* RingInv but for types and locals: the busy buffers, from the tail to the head.
Ring ==
  /\ numBusy \in 0..NumBufs /\ Held \in 0..NumBufs
  /\ InHand => numBusy > 0
  /\ head = SlotOf(IF pc = "head" THEN numBusy ELSE Held)
  /\ \A i \in 0..(NumBufs - 1) :
       pbos[SlotOf(i)].busy <=> i < Held /\ ~(i = 0 /\ InHand)
  /\ \A i \in Slots : pbos[i].busy => pbos[i].buffer = "storage"

\* The ring is right in the initial states, where it is empty.
LEMMA RingInit == Init => RingInv
<1>. SUFFICES ASSUME Init PROVE RingInv
  OBVIOUS
<1>1. TypeOK
  BY TypeInit
<1>2. \A i \in Slots : ~pbos[i].busy
  BY DEF Init, Cleared
<1>3. Held = 0 /\ ~InHand /\ LocalsOK /\ pc = "app" /\ up = FALSE /\ numBusy = 0
  BY DEF Init, Held, InHand, LocalsOK
<1>4. tail = 0 /\ head = 0
  BY DEF Init
<1>. QED
  BY <1>1, <1>2, <1>3, <1>4, SlotsDiffer, CapturerAssumption
     DEF RingInv, TypeOK, SlotOf, Slots

\* A step that leaves the ring alone and what counts as held.
LEMMA RingKept ==
  ASSUME Ring, UNCHANGED ringVars, Held' = Held, InHand' = InHand,
         (pc = "head") = (pc' = "head")
  PROVE  Ring'
BY DEF Ring, ringVars, SlotOf

\* The calls leave the ring alone, or to deinit, which empties it.
LEMMA RingCalls ==
  ASSUME RingInv, TypeOK',
         Swap \/ Release \/ Switch \/ MakeCurrent \/ EndCapture \/ Destroy
              \/ FlushDeinit
  PROVE  RingInv'
<1>1. CASE Deinit /\ pc' = "app"
  <2>1. Held' = 0 /\ ~InHand' /\ numBusy' = 0 /\ LocalsOK' /\ head' = 0 /\ tail' = 0
    BY <1>1 DEF Deinit, Held, InHand, LocalsOK
  <2>2. \A i \in Slots : ~pbos'[i].busy
    BY <1>1, DeinitType
  <2>3. \A i \in 0..(NumBufs - 1) : SlotOf(i)' \in Slots
    BY <2>1, CapturerAssumption DEF SlotOf, Slots
  <2>4. head' = SlotOf(0)'
    BY <2>1, CapturerAssumption DEF SlotOf
  <2>. QED
    BY <1>1, <2>1, <2>2, <2>3, <2>4, CapturerAssumption DEF RingInv
<1>2. CASE UNCHANGED ringVars /\ ~(Deinit /\ pc' = "app")
  <2>1. /\ pc \in {"app", "switch"} /\ pc' \in {"app", "switch", "flush", "room"}
        /\ pc' = "switch" => numBusy = 0
        /\ pc' \in {"flush", "room"} => up'
        /\ up' = up \/ up'
    BY <1>2 DEF Swap, Release, Switch, MakeCurrent, EndCapture, Destroy, FlushDeinit,
       Return, RingInv
  <2>2. Held' = Held /\ InHand' = InHand /\ numBusy' = numBusy
    BY <1>2, <2>1 DEF Held, InHand, ringVars
  <2>3. Ring'
    BY <1>2, <2>1, <2>2, RingKept DEF RingInv, Ring
  <2>4. LocalsOK'
    BY <2>1, <2>2 DEF LocalsOK, InHand
  <2>. QED
    BY <2>1, <2>2, <2>3, <2>4 DEF RingInv, Ring
<1>. QED
  BY <1>1, <1>2 DEF Swap, Release, Switch, MakeCurrent, EndCapture, Destroy,
     FlushDeinit, Return

\* The loads and tests leave the ring alone, and what they find holds as long as
\* no handler strikes.
LEMMA RingTests ==
  ASSUME RingInv, TypeOK',
         \/ Flushed \/ Take \/ FlushPbo \/ Write \/ LoadTail \/ LoadCount
         \/ MakeRoom \/ Read \/ ReadFails \/ ReadNowhere
  PROVE  RingInv' /\ Held' = Held /\ InHand' = InHand
<1>1. /\ UNCHANGED <<ringVars, up>> /\ up /\ tail \in Slots /\ numBusy \in 0..NumBufs
      /\ numBusy' = numBusy /\ tail' = tail
  BY DEF Flushed, Take, FlushPbo, Write, LoadTail, LoadCount, MakeRoom, Read,
     ReadFails, ReadNowhere, RingInv, TypeOK, ringVars
<1>2. numBusy > 0 /\ ~InHand /\ pc \notin {"count", "count_store"} =>
        pbos[tail].busy /\ pbos[tail].buffer = "storage"
  <2>1. SlotOf(0) = tail /\ 0 \in 0..(NumBufs - 1)
    BY <1>1, SlotsDiffer, CapturerAssumption
  <2>. QED
    BY <1>1, <2>1, CapturerAssumption DEF RingInv, Held
<1>3. Held' = Held /\ InHand' = InHand /\ (pc = "head") = (pc' = "head") /\ LocalsOK'
  <2>1. CASE Flushed
    BY <1>1, <2>1 DEF Flushed, AfterFlush, Return, Held, InHand, LocalsOK
  <2>2. CASE Take
    BY <1>1, <2>2 DEF Take, Held, InHand, LocalsOK
  <2>3. CASE FlushPbo
    <3>1. CASE pc' = "clear" /\ pbos[buf].busy
      <4>1. numBusy > 0
        <5>. SUFFICES ASSUME numBusy = 0 PROVE FALSE
          BY <1>1
        <5>1. \A i \in 0..(NumBufs - 1) : ~pbos[SlotOf(i)].busy
          BY <2>3 DEF FlushPbo, RingInv, Held
        <5>2. buf \in Slots
          BY DEF RingInv, TypeOK
        <5>. QED
          BY <1>1, <3>1, <5>1, <5>2, SlotsDiffer
      <4>. QED
        BY <1>1, <2>3, <3>1, <4>1 DEF FlushPbo, Held, InHand, LocalsOK, RingInv, locals
    <3>2. CASE AfterFlush(FALSE)
      <4>1. numBusy = 0 \/ pc' = "clear"
        <5>. SUFFICES ASSUME numBusy # 0 PROVE pc' = "clear"
          OBVIOUS
        <5>1. pc = "test" /\ numBusy > 0 /\ buf = tail
          BY <1>1, <2>3 DEF FlushPbo, RingInv, LocalsOK
        <5>2. pbos[buf].busy /\ pbos[buf].buffer = "storage"
          BY <1>2, <5>1 DEF InHand
        <5>. QED
          BY <2>3, <5>2 DEF FlushPbo
      <4>2. pc' \in {"app", "switch", "deinit"}
        BY <3>2 DEF AfterFlush, Return
      <4>. QED
        BY <1>1, <2>3, <4>1, <4>2 DEF FlushPbo, Held, InHand, LocalsOK
    <3>. QED
      BY <2>3, <3>1, <3>2 DEF FlushPbo
  <2>4. CASE Write
    BY <1>1, <2>4 DEF Write, Held, InHand, LocalsOK, RingInv, locals
  <2>5. CASE LoadTail
    BY <1>1, <2>5 DEF LoadTail, Held, InHand, LocalsOK, RingInv
  <2>6. CASE LoadCount
    BY <1>1, <2>6 DEF LoadCount, Held, InHand, LocalsOK
  <2>7. CASE MakeRoom
    <3>1. pc' \in {"full", "read", "check", "test"}
      BY <1>1, <1>2, <2>7, CapturerAssumption DEF MakeRoom, RingInv, LocalsOK, InHand
    <3>2. pc \in {"room", "full", "check"} /\ (pc' = "read" => numBusy < NumBufs)
      BY <1>1, <2>7, CapturerAssumption DEF MakeRoom
    <3>3. /\ pc' \in {"full", "check"} => numBusy = NumBufs
          /\ pc' = "check" \/ pc' = "test" => buf' = tail
      BY <2>7, <3>1 DEF MakeRoom, RingInv, LocalsOK
    <3>. QED
      BY <1>1, <3>1, <3>2, <3>3 DEF Held, InHand, LocalsOK
  <2>8. CASE Read
    BY <1>1, <2>8 DEF Read, Held, InHand, LocalsOK, RingInv, ringVars
  <2>9. CASE ReadFails \/ ReadNowhere
    BY <1>1, <2>9 DEF ReadFails, ReadNowhere, Return, Held, InHand, LocalsOK
  <2>. QED
    BY <2>1, <2>2, <2>3, <2>4, <2>5, <2>6, <2>7, <2>8, <2>9
<1>4. Ring'
  BY <1>1, <1>3, RingKept DEF RingInv, Ring
<1>. QED
  BY <1>1, <1>3, <1>4 DEF RingInv, Ring

\* flush_pbo clears the flag of the oldest buffer.
LEMMA RingClear ==
  ASSUME RingInv, TypeOK', Clear
  PROVE  RingInv'
<1>1. /\ numBusy \in 1..NumBufs /\ buf = tail /\ tail \in Slots /\ up /\ up'
      /\ pc = "clear" /\ pc' = "write" /\ tail' = tail /\ numBusy' = numBusy
      /\ head' = head /\ buf' = buf
      /\ pbos' = [pbos EXCEPT ![tail].busy = FALSE] /\ pbos \in [Slots -> Buffers]
  BY DEF Clear, RingInv, TypeOK, LocalsOK, locals
<1>2. Held = numBusy /\ Held' = numBusy /\ ~InHand /\ InHand' /\ LocalsOK'
  BY <1>1 DEF Held, InHand, LocalsOK
<1>3. SlotOf(0) = tail /\ 0 \in 0..(NumBufs - 1)
      /\ \A i \in 0..(NumBufs - 1) : SlotOf(i)' = SlotOf(i) /\ SlotOf(i) \in Slots
  BY <1>1, SlotsDiffer, CapturerAssumption DEF SlotOf
<1>4. ASSUME NEW i \in 0..(NumBufs - 1)
      PROVE  pbos'[SlotOf(i)'].busy <=> i < Held' /\ ~(i = 0 /\ InHand')
  <2>1. CASE i = 0
    BY <1>1, <1>2, <1>3, <2>1 DEF Buffers
  <2>2. CASE i # 0
    <3>1. SlotOf(i) # tail
      BY <1>1, <1>3, <2>2, SlotsDiffer
    <3>. QED
      BY <1>1, <1>2, <1>3, <2>2, <3>1 DEF RingInv
  <2>. QED
    BY <2>1, <2>2
<1>5. \A i \in Slots : pbos'[i].busy => pbos'[i].buffer = "storage"
  BY <1>1 DEF RingInv, Buffers
<1>6. head' = SlotOf(Held)' /\ pc' # "head"
  BY <1>1, <1>2 DEF RingInv, SlotOf
<1>. QED
  BY <1>1, <1>2, <1>4, <1>5, <1>6 DEF RingInv

\* The buffer in hand leaves the ring with the tail, before the count.
LEMMA RingStoreTail ==
  ASSUME RingInv, TypeOK', StoreTail
  PROVE  RingInv'
<1>1. /\ numBusy \in 1..NumBufs /\ tail \in Slots /\ up /\ up' /\ InHand
      /\ pc = "tail_store" /\ pc' = "count" /\ numBusy' = numBusy /\ head' = head
      /\ tail' = Succ(tail) /\ pbos' = pbos
  BY DEF StoreTail, RingInv, TypeOK, LocalsOK, InHand
<1>2. Held = numBusy /\ Held' = numBusy - 1 /\ ~InHand' /\ LocalsOK'
  BY <1>1 DEF Held, InHand, LocalsOK
<1>3. /\ \A i \in 0..(NumBufs - 1) : SlotOf(i)' = SlotOf(i + 1)
      /\ SlotOf(NumBufs - 1)' = tail
  BY <1>1, TailMoves
<1>4. head' = SlotOf(Held)' /\ pc' # "head"
  <2>1. PICK n \in 0..(NumBufs - 1) : numBusy = n + 1
    <3>1. numBusy - 1 \in 0..(NumBufs - 1) /\ numBusy = (numBusy - 1) + 1
      BY <1>1, CapturerAssumption
    <3>. QED
      BY <3>1
  <2>2. SlotOf(n)' = head
    BY <1>1, <1>2, <1>3, <2>1 DEF RingInv
  <2>. QED
    BY <1>1, <1>2, <2>1, <2>2 DEF SlotOf
<1>5. ASSUME NEW i \in 0..(NumBufs - 1)
      PROVE  pbos'[SlotOf(i)'].busy <=> i < Held' /\ ~(i = 0 /\ InHand')
  <2>1. CASE i < NumBufs - 1
    <3>1. i + 1 \in 0..(NumBufs - 1) /\ i + 1 # 0
      BY <2>1, CapturerAssumption
    <3>2. pbos[SlotOf(i + 1)].busy <=> i + 1 < Held
      BY <3>1 DEF RingInv
    <3>. QED
      BY <1>1, <1>2, <1>3, <3>2
  <2>2. CASE i = NumBufs - 1
    <3>1. ~pbos[tail].busy
      BY <1>1, SlotsDiffer, CapturerAssumption DEF RingInv
    <3>. QED
      BY <1>1, <1>2, <1>3, <2>2, <3>1, CapturerAssumption
  <2>. QED
    BY <2>1, <2>2, CapturerAssumption
<1>6. Held' \in 0..NumBufs
  BY <1>1, <1>2, CapturerAssumption
<1>. QED
  BY <1>1, <1>2, <1>4, <1>5, <1>6 DEF RingInv

\* The counts follow the tail and the head, and the head follows the flag.
LEMMA RingStores ==
  ASSUME RingInv, TypeOK', StoreLess \/ StoreMore \/ StoreHead
  PROVE  RingInv' /\ Held' = Held
<1>1. /\ tail \in Slots /\ head \in Slots /\ up /\ up' /\ tail' = tail /\ pbos' = pbos
      /\ numBusy \in 0..NumBufs /\ Held \in 0..NumBufs /\ ~InHand /\ ~InHand'
  BY DEF StoreLess, StoreMore, StoreHead, Return, RingInv, TypeOK, InHand
<1>2. Held' = Held /\ numBusy' \in 0..NumBufs /\ LocalsOK'
  <2>1. CASE StoreLess
    <3>1. Held = numBusy - 1 /\ reg = numBusy /\ pc' \in {"read", "flush"}
      BY <2>1 DEF StoreLess, Held, RingInv, LocalsOK
    <3>2. numBusy' = Held /\ Held < NumBufs
      BY <1>1, <2>1, <3>1, CapturerAssumption DEF StoreLess
    <3>. QED
      BY <1>1, <3>1, <3>2 DEF Held, LocalsOK, InHand
  <2>2. CASE StoreMore
    <3>1. Held = numBusy + 1 /\ reg = numBusy /\ pc' = "app"
      BY <2>2 DEF StoreMore, Return, Held, RingInv, LocalsOK
    <3>2. numBusy' = Held
      BY <1>1, <2>2, <3>1, CapturerAssumption DEF StoreMore
    <3>. QED
      BY <1>1, <3>1, <3>2 DEF Held, LocalsOK, InHand
  <2>3. CASE StoreHead
    BY <1>1, <2>3 DEF StoreHead, Held, LocalsOK, InHand
  <2>. QED
    BY <2>1, <2>2, <2>3
<1>3. head' = SlotOf(Held)' /\ pc' # "head"
  <2>1. SlotOf(Held)' = SlotOf(Held)
    BY <1>1, <1>2 DEF SlotOf
  <2>2. CASE StoreLess \/ StoreMore
    <3>1. pc # "head" /\ head' = head /\ pc' # "head"
      BY <2>2 DEF StoreLess, StoreMore, Return
    <3>. QED
      BY <2>1, <3>1 DEF RingInv
  <2>3. CASE StoreHead
    <3>1. head' = Succ(head) /\ head = SlotOf(numBusy) /\ Held = numBusy + 1
          /\ pc' # "head"
      BY <2>3 DEF StoreHead, RingInv, Held
    <3>2. numBusy \in 0..(NumBufs - 1)
      BY <1>1, <3>1, CapturerAssumption
    <3>. QED
      BY <1>1, <2>1, <3>1, <3>2, HeadMoves
  <2>. QED
    BY <2>2, <2>3
<1>4. \A i \in 0..(NumBufs - 1) : SlotOf(i)' = SlotOf(i)
  BY <1>1 DEF SlotOf
<1>. QED
  BY <1>1, <1>2, <1>3, <1>4 DEF RingInv

\* New buffers are free.
LEMMA RingCreate ==
  ASSUME RingInv, TypeOK', Create
  PROVE  RingInv'
<1>1. /\ numBusy' = 0 /\ numBusy = 0 /\ UNCHANGED <<up, head, tail>> /\ up
      /\ pc = "create" /\ pc' \in {"app", "room"} /\ tail \in Slots
  BY DEF Create, RingInv, LocalsOK, TypeOK, Return
<1>2. Held = 0 /\ Held' = 0 /\ ~InHand /\ ~InHand' /\ LocalsOK'
  BY <1>1, CapturerAssumption DEF Held, InHand, LocalsOK
<1>3. \A i \in Slots : ~pbos'[i].busy
  BY CreatedType
<1>4. \A i \in 0..(NumBufs - 1) : SlotOf(i)' \in Slots
  BY <1>1, SlotsDiffer, CapturerAssumption DEF SlotOf
<1>5. head' = SlotOf(Held)' /\ pc' # "head"
  BY <1>1, <1>2 DEF RingInv, SlotOf
<1>. QED
  BY <1>1, <1>2, <1>3, <1>4, <1>5, CapturerAssumption DEF RingInv

\* A frame is read into the first free buffer.
LEMMA RingFill ==
  ASSUME RingInv, TypeOK', Fill
  PROVE  RingInv'
<1>1. /\ pc = "fill" /\ pc' = "head" /\ up /\ up' /\ numBusy \in 0..(NumBufs - 1)
      /\ tail \in Slots /\ head \in Slots /\ UNCHANGED <<tail, head, numBusy>>
      /\ pbos[head].buffer = "storage"
  BY CapturerAssumption DEF Fill, RingInv, LocalsOK, TypeOK
<1>2. Held = numBusy /\ Held' = numBusy + 1 /\ ~InHand /\ ~InHand' /\ LocalsOK'
  BY <1>1 DEF Held, InHand, LocalsOK
<1>3. head = SlotOf(numBusy)
  BY <1>1, <1>2 DEF RingInv
<1>4. \A i \in Slots : /\ pbos'[i].busy <=> i = head \/ pbos[i].busy
                       /\ pbos'[i].buffer = pbos[i].buffer
  BY <1>1 DEF Fill, RingInv, TypeOK, Buffers
<1>5. ASSUME NEW i \in 0..(NumBufs - 1)
      PROVE  pbos'[SlotOf(i)'].busy <=> i < Held' /\ ~(i = 0 /\ InHand')
  <2>1. SlotOf(i)' = SlotOf(i) /\ SlotOf(i) \in Slots
    BY <1>1, SlotsDiffer, CapturerAssumption DEF SlotOf
  <2>2. SlotOf(i) = head <=> i = numBusy
    BY <1>1, <1>3, SlotsDiffer
  <2>3. pbos[SlotOf(i)].busy <=> i < numBusy
    BY <1>2 DEF RingInv
  <2>. QED
    BY <1>1, <1>2, <1>4, <2>1, <2>2, <2>3
<1>6. \A i \in Slots : pbos'[i].busy => pbos'[i].buffer = "storage"
  BY <1>1, <1>4 DEF RingInv
<1>7. head' = SlotOf(numBusy)'
  BY <1>1, <1>3 DEF SlotOf
<1>8. numBusy' \in 0..NumBufs /\ Held' \in 0..NumBufs
  BY <1>1, <1>2, CapturerAssumption
<1>. QED
  BY <1>1, <1>2, <1>5, <1>6, <1>7, <1>8 DEF RingInv

\* Moving the tail by n slots at once.
LEMMA TailMovesBy ==
  ASSUME tail \in Slots, NEW n \in 1..NumBufs, tail' = SlotOf(n)
  PROVE  \A i \in 0..NumBufs :
           SlotOf(i)' = IF n + i <= NumBufs THEN SlotOf(n + i)
                        ELSE SlotOf(n + i - NumBufs)
BY CapturerAssumption DEF SlotOf, Slots

\* A handler that strikes outside of the windows flushes frames that count as
\* held, all that are counted but the one that the interrupted code is at.
LEMMA SignalFlushes ==
  ASSUME RingInv, Signal, Strikes \cap Windows = {}
  PROVE  /\ pc \notin Windows /\ ~InHand /\ up
         /\ UNCHANGED <<up, head, size, pc, call, buf, reg, appVars, shot>>
         /\ \E n \in 1..NumBufs :
              /\ n <= numBusy /\ n <= Held /\ (pc = "test" => n = numBusy)
              /\ \E lost \in SUBSET (IF GLFails THEN 1..n ELSE {}) :
                   done' = done \o [i \in 1..n |->
                     [frame |-> pbos[SlotOf(i - 1)].frame,
                      how |-> IF i \in lost THEN "unmapped" ELSE "written"]]
              /\ pbos' = [s \in Slots |->
                   [pbos[s] EXCEPT !.busy = @ /\ \A i \in 0..(n - 1) : s # SlotOf(i)]]
              /\ tail' = SlotOf(n) /\ numBusy' = numBusy - n /\ Held' = Held - n
<1>1. /\ pc \notin Windows /\ numBusy \in 0..NumBufs /\ Held \in 0..NumBufs
      /\ UNCHANGED <<up, head, size, pc, call, buf, reg, appVars, shot>> /\ up
  BY DEF Signal, RingInv, locals
<1>2. PICK n \in 1..NumBufs :
        /\ n <= numBusy
        /\ \A i \in 0..(n - 1) : pbos[SlotOf(i)].busy
        /\ n = numBusy \/ n = NumBufs \/ ~pbos[SlotOf(n)].busy
        /\ \E lost \in SUBSET (IF GLFails THEN 1..n ELSE {}) :
             done' = done \o [i \in 1..n |->
               [frame |-> pbos[SlotOf(i - 1)].frame,
                how |-> IF i \in lost THEN "unmapped" ELSE "written"]]
        /\ pbos' = [s \in Slots |->
             [pbos[s] EXCEPT !.busy = @ /\ \A i \in 0..(n - 1) : s # SlotOf(i)]]
        /\ tail' = SlotOf(n) /\ numBusy' = numBusy - n
  BY DEF Signal
<1>3. \A i \in 0..(n - 1) : i < Held /\ ~(i = 0 /\ InHand)
  <2>1. \A i \in 0..(n - 1) : i \in 0..(NumBufs - 1)
    BY CapturerAssumption
  <2>. QED
    BY <1>2, <2>1 DEF RingInv
<1>4. n <= Held /\ ~InHand
  <2>1. n - 1 \in 0..(n - 1) /\ 0 \in 0..(n - 1)
    BY CapturerAssumption
  <2>. QED
    BY <1>1, <1>3, <2>1, CapturerAssumption
<1>5. pc = "test" => n = numBusy
  <2>. SUFFICES ASSUME pc = "test", n # numBusy PROVE FALSE
    OBVIOUS
  <2>1. Held = numBusy /\ n \in 0..(NumBufs - 1) /\ n < numBusy /\ n # 0
    BY <1>1, <1>2, CapturerAssumption DEF Held
  <2>2. pbos[SlotOf(n)].busy
    BY <2>1 DEF RingInv
  <2>. QED
    BY <1>2, <2>1, <2>2, CapturerAssumption
<1>6. Held' = Held - n
  BY <1>1, <1>2, CapturerAssumption DEF Held
<1>. QED
  BY <1>1, <1>2, <1>4, <1>5, <1>6

\* A handler that strikes outside of the windows leaves the ring right.
LEMMA RingSignal ==
  ASSUME RingInv, TypeOK', Signal, Strikes \cap Windows = {}
  PROVE  RingInv'
<1>1. /\ pc \notin Windows /\ ~InHand /\ up /\ up' /\ pc' = pc /\ head' = head
      /\ buf' = buf /\ reg' = reg
      /\ tail \in Slots /\ numBusy \in 0..NumBufs /\ Held \in 0..NumBufs
      /\ pbos \in [Slots -> Buffers]
  BY SignalFlushes DEF RingInv, TypeOK
<1>2. PICK n \in 1..NumBufs :
        /\ n <= numBusy /\ n <= Held /\ (pc = "test" => n = numBusy)
        /\ pbos' = [s \in Slots |->
             [pbos[s] EXCEPT !.busy = @ /\ \A i \in 0..(n - 1) : s # SlotOf(i)]]
        /\ tail' = SlotOf(n) /\ numBusy' = numBusy - n /\ Held' = Held - n
  BY SignalFlushes
<1>3. /\ ~InHand' /\ numBusy' \in 0..NumBufs /\ Held' \in 0..NumBufs
      /\ numBusy' < NumBufs
  BY <1>1, <1>2, CapturerAssumption DEF InHand
<1>4. \A s \in Slots : /\ pbos'[s].buffer = pbos[s].buffer
                       /\ pbos'[s].busy <=> pbos[s].busy
                                            /\ \A i \in 0..(n - 1) : s # SlotOf(i)
  BY <1>1, <1>2 DEF Buffers
<1>5. \A i \in 0..NumBufs :
        SlotOf(i)' = IF n + i <= NumBufs THEN SlotOf(n + i)
                     ELSE SlotOf(n + i - NumBufs)
  BY <1>1, <1>2, TailMovesBy
<1>6. LocalsOK'
  <2>1. pc \notin {"full", "check", "clear", "count_store", "add_store"}
    BY <1>1 DEF Windows
  <2>2. pc \notin {"create", "switch", "deinit"}
    BY <1>1, <1>2, CapturerAssumption DEF RingInv, LocalsOK
  <2>3. pc = "test" => numBusy' = 0
    BY <1>1, <1>2
  <2>4. pc = "fill" => pbos'[head].buffer = "storage"
    BY <1>4 DEF RingInv, LocalsOK, TypeOK
  <2>. QED
    BY <1>1, <1>3, <2>1, <2>2, <2>3, <2>4 DEF LocalsOK, InHand
<1>7. head' = SlotOf(IF pc = "head" THEN numBusy ELSE Held)'
  <2>1. head = SlotOf(IF pc = "head" THEN numBusy ELSE Held)
    BY DEF RingInv
  <2>2. CASE pc = "head"
    <3>1. PICK m \in 0..NumBufs : m = numBusy'
      BY <1>3
    <3>2. SlotOf(m)' = SlotOf(numBusy)
      BY <1>1, <1>2, <1>5, <3>1, CapturerAssumption
    <3>. QED
      BY <1>1, <2>1, <2>2, <3>1, <3>2 DEF SlotOf
  <2>3. CASE pc # "head"
    <3>1. PICK m \in 0..NumBufs : m = Held'
      BY <1>3
    <3>2. SlotOf(m)' = SlotOf(Held)
      BY <1>1, <1>2, <1>5, <3>1, CapturerAssumption
    <3>. QED
      BY <1>1, <2>1, <2>3, <3>1, <3>2 DEF SlotOf
  <2>. QED
    BY <2>2, <2>3
<1>8. ASSUME NEW i \in 0..(NumBufs - 1)
      PROVE  pbos'[SlotOf(i)'].busy <=> i < Held' /\ ~(i = 0 /\ InHand')
  <2>1. CASE n + i < NumBufs
    <3>1. n + i \in 0..(NumBufs - 1) /\ n + i # 0 /\ SlotOf(i)' = SlotOf(n + i)
      BY <1>5, <2>1, CapturerAssumption
    <3>2. \A j \in 0..(n - 1) : SlotOf(n + i) # SlotOf(j)
      <4>1. \A j \in 0..(n - 1) : j \in 0..(NumBufs - 1) /\ j # n + i
        BY <3>1, CapturerAssumption
      <4>. QED
        BY <1>1, <3>1, <4>1, SlotsDiffer
    <3>3. pbos[SlotOf(n + i)].busy <=> n + i < Held
      BY <3>1 DEF RingInv
    <3>4. SlotOf(n + i) \in Slots
      BY <1>1, <3>1, SlotsDiffer, CapturerAssumption
    <3>. QED
      BY <1>1, <1>2, <1>3, <1>4, <3>1, <3>2, <3>3, <3>4, CapturerAssumption
  <2>2. CASE n + i >= NumBufs
    <3>1. n + i - NumBufs \in 0..(n - 1) /\ n + i - NumBufs \in 0..NumBufs
      BY <2>2, CapturerAssumption
    <3>2. SlotOf(i)' = SlotOf(n + i - NumBufs)
      <4>1. CASE n + i > NumBufs
        BY <1>5, <4>1, CapturerAssumption
      <4>2. CASE n + i = NumBufs
        <5>1. SlotOf(i)' = SlotOf(NumBufs) /\ n + i - NumBufs = 0
          BY <1>5, <4>2, CapturerAssumption
        <5>. QED
          BY <1>1, <5>1, SlotsDiffer
      <4>. QED
        BY <2>2, <4>1, <4>2, CapturerAssumption
    <3>3. ~pbos'[SlotOf(n + i - NumBufs)].busy
      BY <1>1, <1>4, <3>1, SlotsDiffer
    <3>4. ~(i < Held')
      BY <1>1, <1>2, <2>2, CapturerAssumption
    <3>. QED
      BY <3>2, <3>3, <3>4
  <2>. QED
    BY <2>1, <2>2, CapturerAssumption
<1>9. \A i \in Slots : pbos'[i].busy => pbos'[i].buffer = "storage"
  BY <1>4 DEF RingInv
<1>. QED
  BY <1>1, <1>3, <1>6, <1>7, <1>8, <1>9, CapturerAssumption DEF RingInv

\* Every step keeps the ring right, a handler's included.
LEMMA RingStep ==
  ASSUME Strikes \cap Windows = {}, RingInv, [Next]_vars
  PROVE  RingInv'
<1>1. TypeOK'
  BY TypeStep DEF RingInv
<1>2. CASE UNCHANGED vars
  <2>1. Held' = Held /\ InHand' = InHand /\ UNCHANGED <<pc, up, numBusy, ringVars>>
    BY <1>2 DEF vars, Held, InHand, ringVars
  <2>2. Ring' /\ LocalsOK'
    BY <1>2, <2>1, RingKept DEF vars, RingInv, Ring, LocalsOK, InHand, ringVars, locals
  <2>. QED
    BY <1>1, <2>1, <2>2 DEF RingInv, Ring
<1>. QED
  BY <1>1, <1>2, RingCalls, RingTests, RingClear, RingStoreTail, RingStores,
     RingCreate, RingFill, RingSignal DEF Next

\* For rings of every size, as long as no handler strikes in one of the windows:
\* head, tail, count and flags agree in every state of a capture, a flush, a
\* failure and a handler's flush.
THEOREM RingCorrect ==
  ASSUME Strikes \cap Windows = {}
  PROVE  Spec => []RingInv
<1>1. Init => RingInv
  BY RingInit
<1>2. RingInv /\ [Next]_vars => RingInv'
  BY RingStep
<1>. QED
  BY <1>1, <1>2, PTL DEF Spec

-----------------------------------------------------------------------------
(* The order of the frames.                                                  *)

\* How many frames are pending, and the i-th oldest of them, from 1.
First == IF pc \in {"tail", "tail_store"} THEN 1 ELSE 0
Owed == Held - First
OwedFrame(i) == pbos[SlotOf(First + i - 1)].frame

Outcomes == [frame : Frames, how : {"written", "unmapped", "dropped"}]

\* On the way to a frame of the swap under way, and past it.
Filling == {"room", "full", "check", "create", "read", "fill"}
Filled == pc \in {"head", "add", "add_store"}

\* FramesInOrder frame by frame, with the types of the history and with what it
\* takes to be preserved: the frame of the swap under way is newer than all.
OrderInv ==
  /\ RingInv
  /\ shot \in Seq(Frames) /\ done \in Seq(Outcomes)
  /\ Len(shot) = Len(done) + Owed
  /\ \A i \in 1..Len(done) : done[i].frame = shot[i]
  /\ \A i \in 1..Owed : OwedFrame(i) = shot[Len(done) + i]
  /\ \A i \in 1..Owed : OwedFrame(i).size = size
  /\ \A i, j \in 1..Len(shot) : i < j => shot[i].index < shot[j].index
  /\ \A i \in 1..Len(shot) :
       /\ shot[i].index <= swaps
       /\ call.op = "capture" /\ ~Filled => shot[i].index < swaps
  /\ pc \in Filling => call.op = "capture"

\* Initially no frame was read and none was written out.
LEMMA OrderInit == Init => OrderInv
<1>. SUFFICES ASSUME Init PROVE OrderInv
  OBVIOUS
<1>1. RingInv
  BY RingInit
<1>2. Owed = 0 /\ Len(shot) = 0 /\ Len(done) = 0
  BY DEF Init, Owed, First, Held
<1>. QED
  BY <1>1, <1>2 DEF Init, OrderInv, Filling, Filled

\* A step that keeps what is pending and what was done.
LEMMA OrderKept ==
  ASSUME OrderInv, RingInv', UNCHANGED <<shot, done>>, Owed' = Owed,
         \A i \in 1..Owed : OwedFrame(i)' = OwedFrame(i),
         Owed = 0 \/ size' = size,
         \/ swaps' = swaps /\ (call'.op = "capture" /\ ~Filled'
                                 => call.op = "capture" /\ ~Filled)
         \/ swaps' = swaps + 1,
         pc' \in Filling => call'.op = "capture"
  PROVE  OrderInv'
<1>1. swaps \in Nat /\ \A i \in 1..Len(shot) : shot[i].index \in Nat
  <2>1. swaps \in Nat
    BY DEF OrderInv, RingInv, TypeOK
  <2>2. \A i \in 1..Len(shot) : shot[i] \in Frames
    BY DEF OrderInv
  <2>3. \A g \in Frames : g.index \in Nat
    BY DEF Frames
  <2>. QED
    BY <2>1, <2>2, <2>3
<1>2. \A i \in 1..Len(shot) :
        /\ shot[i].index <= swaps'
        /\ call'.op = "capture" /\ ~Filled' => shot[i].index < swaps'
  BY <1>1 DEF OrderInv
<1>3. \A i \in 1..Owed : OwedFrame(i)'.size = size'
  BY DEF OrderInv
<1>. QED
  BY <1>2, <1>3 DEF OrderInv

\* The steps that leave the frames alone and what is pending.
LEMMA OrderSame ==
  ASSUME OrderInv, RingInv', UNCHANGED <<pbos, tail, size, shot, done>>,
         Held' = Held, First' = First,
         \/ swaps' = swaps /\ (call'.op = "capture" /\ ~Filled'
                                 => call.op = "capture" /\ ~Filled)
         \/ swaps' = swaps + 1,
         pc' \in Filling => call'.op = "capture"
  PROVE  OrderInv'
<1>1. Owed' = Owed
  BY DEF Owed
<1>2. \A i \in 1..Owed : OwedFrame(i)' = OwedFrame(i)
  BY DEF OwedFrame, SlotOf
<1>. QED
  BY <1>1, <1>2, OrderKept

\* A step that takes some of the oldest frames from what is pending, and says of
\* each what became of it.
LEMMA OrderTaken ==
  ASSUME OrderInv, RingInv', UNCHANGED <<shot, swaps>>,
         NEW out \in Seq(Outcomes), done' = done \o out,
         Len(out) <= Owed, Owed' = Owed - Len(out),
         \A i \in 1..Len(out) : out[i].frame = OwedFrame(i),
         \A i \in 1..Owed' : OwedFrame(i)' = OwedFrame(Len(out) + i),
         Owed' = 0 \/ size' = size,
         call'.op = "capture" /\ ~Filled' => call.op = "capture" /\ ~Filled,
         pc' \in Filling => call'.op = "capture"
  PROVE  OrderInv'
<1>1. /\ done' \in Seq(Outcomes) /\ Len(done') = Len(done) + Len(out)
      /\ Len(out) \in Nat /\ Len(done) \in Nat /\ Owed \in Int
      /\ Len(shot) = Len(done) + Owed
      /\ \A i \in 1..Len(done') :
           done'[i] = IF i <= Len(done) THEN done[i] ELSE out[i - Len(done)]
  <2>1. done \in Seq(Outcomes) /\ Held \in 0..NumBufs /\ Len(shot) = Len(done) + Owed
    BY DEF OrderInv, RingInv
  <2>2. Owed \in Int
    BY <2>1, CapturerAssumption DEF Owed, First
  <2>. QED
    BY <2>1, <2>2
<1>2. ASSUME NEW i \in 1..Len(done')
      PROVE  done'[i].frame = shot[i]
  <2>1. CASE i <= Len(done)
    BY <1>1, <2>1 DEF OrderInv
  <2>2. CASE i > Len(done)
    <3>1. i - Len(done) \in 1..Len(out) /\ i - Len(done) \in 1..Owed
          /\ done'[i] = out[i - Len(done)]
      BY <1>1, <2>2
    <3>2. OwedFrame(i - Len(done)) = shot[Len(done) + (i - Len(done))]
      BY <3>1 DEF OrderInv
    <3>3. Len(done) + (i - Len(done)) = i
      BY <1>1
    <3>. QED
      BY <3>1, <3>2, <3>3
  <2>. QED
    BY <1>1, <2>1, <2>2
<1>3. ASSUME NEW i \in 1..Owed'
      PROVE  OwedFrame(i)' = shot[Len(done') + i] /\ OwedFrame(i)'.size = size'
  <2>1. PICK k \in 1..Owed : k = Len(out) + i
    <3>1. Len(out) + i \in 1..Owed
      BY <1>1
    <3>. QED
      BY <3>1
  <2>2. /\ OwedFrame(i)' = OwedFrame(k) /\ OwedFrame(k) = shot[Len(done) + k]
        /\ OwedFrame(k).size = size /\ Len(done') + i = Len(done) + k
    BY <1>1, <2>1 DEF OrderInv
  <2>3. size' = size
    BY <1>1
  <2>. QED
    BY <2>2, <2>3
<1>4. Len(shot') = Len(done') + Owed'
  BY <1>1
<1>. QED
  BY <1>1, <1>2, <1>3, <1>4 DEF OrderInv


\* What is pending is what FramesInOrder and deinit call so.
LEMMA PendingOwed ==
  ASSUME OrderInv
  PROVE  /\ Pending = [i \in 1..Owed |-> OwedFrame(i)]
         /\ Owed \in 0..NumBufs /\ tail \in Slots
         /\ \A i \in 1..Owed : First + i - 1 \in 0..(NumBufs - 1)
         /\ \A i \in 1..Owed : OwedFrame(i) \in Frames
<1>1. /\ Held \in 0..NumBufs /\ tail \in Slots /\ First \in 0..1
      /\ First = 1 => Held > 0
      /\ pbos \in [Slots -> Buffers]
  BY DEF OrderInv, RingInv, TypeOK, First, InHand, Held
<1>2. Owed \in 0..NumBufs
  BY <1>1, CapturerAssumption DEF Owed
<1>3. \A i \in 1..Owed : First + i - 1 \in 0..(NumBufs - 1)
  BY <1>1, CapturerAssumption DEF Owed
<1>4. \A i \in 1..Owed : OwedFrame(i) \in Frames
  <2>1. \A i \in 1..Owed : First + i - 1 \in 0..NumBufs
    BY <1>3, CapturerAssumption
  <2>2. \A i \in 1..Owed : SlotOf(First + i - 1) \in Slots
    BY <1>1, <2>1, SlotsDiffer
  <2>. QED
    BY <1>1, <2>2 DEF OwedFrame, Buffers
<1>5. Pending = [i \in 1..Owed |-> OwedFrame(i)]
  BY <1>1 DEF Pending, Owed, OwedFrame, First
<1>. QED
  BY <1>1, <1>2, <1>3, <1>4, <1>5

\* Clearing the flag of a buffer leaves its frame pending.
LEMMA OrderClear ==
  ASSUME OrderInv, RingInv', Clear
  PROVE  OrderInv'
<1>1. /\ pc = "clear" /\ pc' = "write" /\ tail \in Slots
      /\ UNCHANGED <<tail, numBusy, size, call, swaps, shot, done>>
      /\ pbos' = [pbos EXCEPT ![buf].busy = FALSE] /\ pbos \in [Slots -> Buffers]
  BY DEF Clear, OrderInv, RingInv, TypeOK, appVars
<1>2. \A s \in Slots : pbos'[s].frame = pbos[s].frame
  BY <1>1 DEF Buffers
<1>3. Held' = Held /\ First' = First /\ Owed' = Owed
  BY <1>1 DEF Held, First, Owed
<1>4. \A i \in 1..Owed : OwedFrame(i)' = OwedFrame(i)
  <2>1. \A i \in 1..Owed : First + i - 1 \in 0..NumBufs
    BY PendingOwed, CapturerAssumption
  <2>2. \A i \in 1..Owed : SlotOf(First + i - 1) \in Slots
    BY <1>1, <2>1, SlotsDiffer
  <2>. QED
    BY <1>1, <1>2, <1>3, <2>2 DEF OwedFrame, SlotOf
<1>. QED
  BY <1>1, <1>3, <1>4, OrderKept DEF Filling, Filled

\* The frame that is written out is the oldest one that is pending.
LEMMA OrderWrite ==
  ASSUME OrderInv, RingInv', Write
  PROVE  OrderInv' /\ \E how \in {"written", "unmapped"} :
                        done' = done \o <<[frame |-> pbos[tail].frame, how |-> how]>>
<1>1. /\ pc = "write" /\ pc' = "tail" /\ numBusy \in 1..NumBufs
      /\ UNCHANGED <<pbos, tail, numBusy, size, call, swaps, shot>>
      /\ tail \in Slots /\ buf = tail /\ pbos \in [Slots -> Buffers]
  BY DEF Write, OrderInv, RingInv, TypeOK, LocalsOK, InHand, ringVars, appVars
<1>2. /\ First = 0 /\ First' = 1 /\ Owed = numBusy /\ Owed' = numBusy - 1
      /\ OwedFrame(1) = pbos[tail].frame
  <2>1. Held = numBusy /\ Held' = numBusy /\ First = 0 /\ First' = 1
    BY <1>1 DEF Held, First
  <2>2. SlotOf(0) = tail
    BY <1>1, SlotsDiffer
  <2>. QED
    BY <1>1, <2>1, <2>2, CapturerAssumption DEF Owed, OwedFrame
<1>3. PICK how \in {"written", "unmapped"} :
        done' = done \o Becomes(how, <<pbos[tail].frame>>)
  BY <1>1 DEF Write
<1>. DEFINE d == [frame |-> pbos[tail].frame, how |-> how]
<1>4. Becomes(how, <<pbos[tail].frame>>) = <<d>> /\ d \in Outcomes
  BY <1>1 DEF Becomes, Outcomes, Buffers
<1>5. d.frame = pbos[tail].frame /\ done' = done \o <<d>>
  BY <1>3, <1>4
<1>6. <<d>> \in Seq(Outcomes) /\ Len(<<d>>) = 1 /\ <<d>>[1] = d
  BY <1>4
<1>7. \A i \in 1..Owed' : OwedFrame(i)' = OwedFrame(1 + i)
  BY <1>1, <1>2, CapturerAssumption DEF OwedFrame, SlotOf
<1>8. pc' \notin Filling /\ Filled' = Filled
  BY <1>1 DEF Filling, Filled
<1>. DEFINE out == <<d>>
<1>9. /\ out \in Seq(Outcomes) /\ done' = done \o out
      /\ Len(out) <= Owed /\ Owed' = Owed - Len(out)
      /\ \A i \in 1..Len(out) : out[i].frame = OwedFrame(i)
      /\ \A i \in 1..Owed' : OwedFrame(i)' = OwedFrame(Len(out) + i)
  BY <1>1, <1>2, <1>5, <1>6, <1>7, CapturerAssumption
<1>. HIDE DEF out
<1>10. OrderInv'
  BY <1>1, <1>8, <1>9, OrderTaken
<1>. QED
  BY <1>5, <1>10

\* The tail goes past a buffer whose frame was written out already.
LEMMA OrderStoreTail ==
  ASSUME OrderInv, RingInv', StoreTail
  PROVE  OrderInv'
<1>1. /\ pc = "tail_store" /\ pc' = "count" /\ numBusy \in 1..NumBufs /\ tail \in Slots
      /\ UNCHANGED <<pbos, numBusy, size, call, swaps, shot, done>>
      /\ tail' = Succ(tail)
  BY DEF StoreTail, OrderInv, RingInv, TypeOK, LocalsOK, InHand, appVars
<1>2. First = 1 /\ First' = 0 /\ Owed' = Owed /\ Owed \in 0..(NumBufs - 1)
  <2>1. Held = numBusy /\ Held' = numBusy - 1 /\ First = 1 /\ First' = 0
    BY <1>1 DEF Held, First
  <2>. QED
    BY <1>1, <2>1, CapturerAssumption DEF Owed
<1>3. \A i \in 1..Owed : OwedFrame(i)' = OwedFrame(i)
  <2>. TAKE i \in 1..Owed
  <2>1. i - 1 \in 0..(NumBufs - 1) /\ First + i - 1 = (i - 1) + 1
        /\ First' + i - 1 = i - 1
    BY <1>2, CapturerAssumption
  <2>2. PICK n \in 0..(NumBufs - 1) : n = i - 1
    BY <2>1
  <2>3. SlotOf(n)' = SlotOf(n + 1)
    BY <1>1, TailMoves
  <2>4. OwedFrame(i) = pbos[SlotOf(n + 1)].frame
    BY <2>1, <2>2 DEF OwedFrame
  <2>5. OwedFrame(i)' = pbos'[SlotOf(n)'].frame
    BY <2>1, <2>2 DEF OwedFrame
  <2>. QED
    BY <1>1, <2>3, <2>4, <2>5
<1>. QED
  BY <1>1, <1>2, <1>3, OrderKept DEF Filling, Filled

\* A handler writes out the oldest frames that are pending, in their order.
LEMMA OrderSignal ==
  ASSUME OrderInv, RingInv', Signal, Strikes \cap Windows = {}
  PROVE  /\ OrderInv'
         /\ \E out \in Seq(Outcomes) :
              done' = done \o out /\ \A i \in 1..Len(out) : out[i].how # "dropped"
<1>1. /\ pc' = pc /\ ~InHand /\ UNCHANGED <<call, swaps, shot, size>>
      /\ tail \in Slots /\ Held \in 0..NumBufs /\ pbos \in [Slots -> Buffers]
  BY SignalFlushes DEF OrderInv, RingInv, TypeOK, appVars
<1>2. PICK n \in 1..NumBufs :
        /\ n <= Held
        /\ \E lost \in SUBSET (IF GLFails THEN 1..n ELSE {}) :
             done' = done \o [i \in 1..n |->
               [frame |-> pbos[SlotOf(i - 1)].frame,
                how |-> IF i \in lost THEN "unmapped" ELSE "written"]]
        /\ pbos' = [s \in Slots |->
             [pbos[s] EXCEPT !.busy = @ /\ \A i \in 0..(n - 1) : s # SlotOf(i)]]
        /\ tail' = SlotOf(n) /\ Held' = Held - n
  BY SignalFlushes DEF OrderInv
<1>3. PICK lost : done' = done \o [i \in 1..n |->
               [frame |-> pbos[SlotOf(i - 1)].frame,
                how |-> IF i \in lost THEN "unmapped" ELSE "written"]]
  BY <1>2
<1>. DEFINE out == [i \in 1..n |->
               [frame |-> pbos[SlotOf(i - 1)].frame,
                how |-> IF i \in lost THEN "unmapped" ELSE "written"]]
<1>4. First = 0 /\ First' = 0 /\ Owed = Held /\ Owed' = Held - n
  <2>1. First = 0 /\ First' = 0
    BY <1>1 DEF First, InHand
  <2>. QED
    BY <1>1, <1>2, <2>1, CapturerAssumption DEF Owed
<1>5. \A i \in 1..n : out[i].frame = OwedFrame(i) /\ out[i].how # "dropped"
                      /\ out[i] \in Outcomes
  <2>1. \A i \in 1..n : i \in 1..Owed /\ First + i - 1 = i - 1
    BY <1>1, <1>2, <1>4, CapturerAssumption
  <2>2. \A i \in 1..n : OwedFrame(i) = pbos[SlotOf(i - 1)].frame
                        /\ OwedFrame(i) \in Frames
    BY <2>1, PendingOwed DEF OwedFrame
  <2>. QED
    BY <2>2 DEF Outcomes
<1>6. done' = done \o out /\ out \in Seq(Outcomes) /\ Len(out) = n
  BY <1>3, <1>5, CapturerAssumption
<1>7. \A s \in Slots : pbos'[s].frame = pbos[s].frame
  BY <1>1, <1>2 DEF Buffers
<1>8. ASSUME NEW i \in 1..Owed'
      PROVE  OwedFrame(i)' = OwedFrame(n + i)
  <2>1. PICK k \in 0..(NumBufs - 1) : k = i - 1
    <3>1. i - 1 \in 0..(NumBufs - 1)
      BY <1>1, <1>2, <1>4, CapturerAssumption
    <3>. QED
      BY <3>1
  <2>2. /\ n + k \in 0..NumBufs /\ k \in 0..NumBufs /\ First' + i - 1 = k
        /\ First + (n + i) - 1 = n + k
    BY <1>1, <1>2, <1>4, <2>1, CapturerAssumption
  <2>3. SlotOf(k)' = SlotOf(n + k) /\ SlotOf(n + k) \in Slots
    BY <1>1, <1>2, <2>2, TailMovesBy, SlotsDiffer, CapturerAssumption
  <2>4. OwedFrame(i)' = pbos'[SlotOf(k)'].frame
    BY <2>2 DEF OwedFrame
  <2>5. OwedFrame(n + i) = pbos[SlotOf(n + k)].frame
    BY <2>2 DEF OwedFrame
  <2>. QED
    BY <1>7, <2>3, <2>4, <2>5
<1>. HIDE DEF out
<1>9. Filled' = Filled /\ (pc' \in Filling => call'.op = "capture")
  BY <1>1 DEF Filled, OrderInv
<1>10. Len(out) <= Owed /\ Owed' = Owed - Len(out)
       /\ (\A i \in 1..Len(out) : out[i].frame = OwedFrame(i))
       /\ (\A i \in 1..Owed' : OwedFrame(i)' = OwedFrame(Len(out) + i))
  BY <1>2, <1>4, <1>5, <1>6, <1>8
<1>11. OrderInv'
  BY <1>1, <1>6, <1>9, <1>10, OrderTaken
<1>. QED
  BY <1>5, <1>6, <1>11

\* A frame that is read is the youngest one that is pending.
LEMMA OrderFill ==
  ASSUME OrderInv, RingInv', Fill
  PROVE  OrderInv'
<1>. DEFINE f == [index |-> swaps, size |-> size, current |-> current]
<1>1. /\ pc = "fill" /\ pc' = "head" /\ numBusy \in 0..(NumBufs - 1)
      /\ head \in Slots /\ tail \in Slots /\ pbos \in [Slots -> Buffers]
      /\ pbos' = [pbos EXCEPT ![head].busy = TRUE, ![head].frame = f]
      /\ shot' = Append(shot, f) /\ UNCHANGED <<tail, numBusy, size, call, swaps, done>>
  BY CapturerAssumption DEF Fill, OrderInv, RingInv, TypeOK, LocalsOK, appVars
<1>2. f \in Frames /\ f.size = size /\ f.index = swaps
  BY DEF OrderInv, RingInv, TypeOK, Frames
<1>. HIDE DEF f
<1>3. /\ First = 0 /\ First' = 0 /\ Owed = numBusy /\ Owed' = numBusy + 1
      /\ head = SlotOf(numBusy)
  <2>1. First = 0 /\ First' = 0 /\ Held = numBusy /\ Held' = numBusy + 1
    BY <1>1 DEF First, Held
  <2>. QED
    BY <1>1, <2>1, CapturerAssumption DEF Owed, OrderInv, RingInv
<1>4. ASSUME NEW i \in 1..Owed'
      PROVE  OwedFrame(i)' = (IF i = Owed' THEN f ELSE OwedFrame(i))
  <2>1. PICK n \in 0..(NumBufs - 1) : n = i - 1
    <3>1. i - 1 \in 0..(NumBufs - 1)
      BY <1>1, <1>3, CapturerAssumption
    <3>. QED
      BY <3>1
  <2>2. First + i - 1 = n /\ First' + i - 1 = n /\ (i = Owed' <=> n = numBusy)
    BY <1>1, <1>3, <2>1, CapturerAssumption
  <2>3. SlotOf(n)' = SlotOf(n) /\ SlotOf(n) \in Slots
    BY <1>1, SlotsDiffer, CapturerAssumption DEF SlotOf
  <2>4. OwedFrame(i)' = pbos'[SlotOf(n)].frame /\ OwedFrame(i) = pbos[SlotOf(n)].frame
    BY <2>2, <2>3 DEF OwedFrame
  <2>5. CASE n = numBusy
    BY <1>1, <1>3, <2>2, <2>3, <2>4, <2>5 DEF Buffers
  <2>6. CASE n # numBusy
    <3>1. SlotOf(n) # head
      BY <1>1, <1>3, <2>6, SlotsDiffer
    <3>. QED
      BY <1>1, <2>2, <2>3, <2>4, <2>6, <3>1
  <2>. QED
    BY <2>5, <2>6
<1>5. /\ shot' \in Seq(Frames) /\ Len(shot') = Len(shot) + 1
      /\ shot'[Len(shot) + 1] = f
      /\ \A i \in 1..Len(shot) : shot'[i] = shot[i]
  BY <1>1, <1>2 DEF OrderInv
<1>6. Len(shot) = Len(done) + numBusy /\ Len(done) \in Nat /\ Len(shot) \in Nat
  BY <1>3 DEF OrderInv
<1>7. \A i \in 1..Len(done) : done[i].frame = shot'[i]
  <2>. TAKE i \in 1..Len(done)
  <2>1. i \in 1..Len(shot)
    BY <1>1, <1>6, CapturerAssumption
  <2>. QED
    BY <1>5, <2>1 DEF OrderInv
<1>8. ASSUME NEW i \in 1..Owed'
      PROVE  OwedFrame(i)' = shot'[Len(done) + i] /\ OwedFrame(i)'.size = size
  <2>1. CASE i = Owed'
    BY <1>2, <1>3, <1>4, <1>5, <1>6, <1>1, <2>1, CapturerAssumption
  <2>2. CASE i # Owed'
    <3>1. i \in 1..Owed /\ Len(done) + i \in 1..Len(shot)
      BY <1>1, <1>3, <1>6, <2>2, CapturerAssumption
    <3>. QED
      BY <1>4, <1>5, <2>2, <3>1 DEF OrderInv
  <2>. QED
    BY <2>1, <2>2
<1>9. (\A i \in 1..Len(shot) : shot[i].index < swaps) /\ swaps \in Nat
  BY <1>1 DEF OrderInv, RingInv, TypeOK, Filling, Filled
<1>10. \A i, j \in 1..Len(shot') : i < j => shot'[i].index < shot'[j].index
  <2>. SUFFICES ASSUME NEW i \in 1..Len(shot'), NEW j \in 1..Len(shot'), i < j
                PROVE  shot'[i].index < shot'[j].index
    OBVIOUS
  <2>1. i \in 1..Len(shot)
    BY <1>5, <1>6
  <2>2. CASE j = Len(shot) + 1
    BY <1>2, <1>5, <1>9, <2>1, <2>2
  <2>3. CASE j # Len(shot) + 1
    <3>1. j \in 1..Len(shot)
      BY <1>5, <1>6, <2>3
    <3>. QED
      BY <1>5, <2>1, <3>1 DEF OrderInv
  <2>. QED
    BY <2>2, <2>3
<1>11. \A i \in 1..Len(shot') : shot'[i].index <= swaps
  <2>. TAKE i \in 1..Len(shot')
  <2>1. CASE i = Len(shot) + 1
    BY <1>2, <1>5, <1>9, <2>1
  <2>2. CASE i # Len(shot) + 1
    <3>1. i \in 1..Len(shot)
      BY <1>5, <1>6, <2>2
    <3>. QED
      BY <1>5, <3>1 DEF OrderInv
  <2>. QED
    BY <2>1, <2>2
<1>12. Len(shot') = Len(done') + Owed'
  BY <1>1, <1>3, <1>5, <1>6, CapturerAssumption
<1>13. Filled' /\ pc' \notin Filling
  BY <1>1 DEF Filled, Filling
<1>. QED
  BY <1>1, <1>5, <1>7, <1>8, <1>10, <1>11, <1>12, <1>13 DEF OrderInv

\* deinit finds nothing pending, or drops all that is.
LEMMA OrderDeinit ==
  ASSUME OrderInv, RingInv', Deinit, pc' = "app", UNCHANGED <<shot, swaps>>,
         \/ pc = "deinit" /\ done' = done /\ call' = NoCall
         \/ pc = "app" /\ done' = done \o Becomes("dropped", Pending) /\ call' = call
  PROVE  OrderInv' /\ (pc = "app" => /\ Becomes("dropped", Pending) \in Seq(Outcomes)
                                     /\ Len(Becomes("dropped", Pending)) = Owed
                                     /\ \A i \in 1..Owed :
                                          Becomes("dropped", Pending)[i].frame
                                            = OwedFrame(i))
<1>1. Owed' = 0 /\ ~Filled' /\ pc' \notin Filling /\ ~Filled
      /\ Owed \in 0..NumBufs
  <2>1. Held' = 0 /\ First' = 0
    BY DEF Deinit, Held, First
  <2>. QED
    BY <2>1, PendingOwed DEF Owed, Filled, Filling
<1>2. CASE pc = "deinit" /\ done' = done /\ call' = NoCall
  <2>1. Owed = 0
    BY <1>2, CapturerAssumption DEF Owed, Held, First, OrderInv, RingInv, LocalsOK
  <2>2. call'.op # "capture"
    BY <1>2 DEF NoCall
  <2>. QED
    BY <1>1, <1>2, <2>1, <2>2, OrderKept
<1>3. CASE pc = "app" /\ done' = done \o Becomes("dropped", Pending) /\ call' = call
  <2>. DEFINE out == Becomes("dropped", Pending)
  <2>1. out = [i \in 1..Owed |-> [frame |-> OwedFrame(i), how |-> "dropped"]]
    BY PendingOwed DEF Becomes
  <2>2. out \in Seq(Outcomes) /\ Len(out) = Owed
        /\ \A i \in 1..Owed : out[i].frame = OwedFrame(i)
    <3>. HIDE DEF out
    <3>1. \A i \in 1..Owed : out[i] \in Outcomes /\ out[i].frame = OwedFrame(i)
      BY <2>1, PendingOwed DEF Outcomes
    <3>. QED
      BY <1>1, <2>1, <3>1, CapturerAssumption
  <2>3. done' = done \o out
    BY <1>3
  <2>4. OrderInv'
    <3>. HIDE DEF out
    <3>1. Len(out) <= Owed /\ Owed' = Owed - Len(out)
      BY <1>1, <2>2, CapturerAssumption
    <3>. QED
      BY <1>1, <1>3, <2>2, <2>3, <3>1, OrderTaken
  <2>. QED
    BY <2>2, <2>4
<1>. QED
  BY <1>2, <1>3

\* The calls, the loads, the tests and the counts leave the frames alone.
LEMMA OrderRest ==
  ASSUME OrderInv, RingInv',
         \/ Swap \/ Release \/ Switch \/ MakeCurrent \/ EndCapture
         \/ Destroy /\ current /\ up
         \/ Flushed \/ Take \/ FlushPbo \/ LoadTail \/ LoadCount
         \/ MakeRoom \/ Read \/ ReadFails \/ ReadNowhere
         \/ StoreLess \/ StoreMore \/ StoreHead
         \/ Create \/ UNCHANGED vars
  PROVE  /\ OrderInv'
         /\ UNCHANGED <<shot, done>>
         /\ current' = current \/ current' \/ Switch
<1>. USE DEF Filling, Filled
<1>1. RingInv /\ TypeOK'
  BY DEF OrderInv, RingInv
<1>2. CASE \/ Swap \/ Release \/ Switch \/ MakeCurrent \/ EndCapture
           \/ Destroy /\ current /\ up
  <2>1. /\ pc \in {"app", "switch"} /\ pc' \in {"app", "switch", "flush", "room"}
        /\ UNCHANGED <<pbos, tail, numBusy, size, shot, done>>
        /\ current' = current \/ current' \/ Switch
    BY <1>2 DEF Swap, Release, Switch, MakeCurrent, EndCapture, Destroy, ringVars, appVars
  <2>2. Held' = Held /\ First' = First
    BY <2>1 DEF Held, First
  <2>3. /\ \/ swaps' = swaps /\ (call'.op = "capture" => call.op = "capture")
           \/ swaps' = swaps + 1
        /\ pc' = "room" => call'.op = "capture"
    BY <1>2 DEF Swap, Release, Switch, MakeCurrent, EndCapture, Destroy, NoCall, appVars
  <2>. QED
    BY <2>1, <2>2, <2>3, OrderSame
<1>3. CASE \/ Flushed \/ Take \/ FlushPbo \/ LoadTail \/ LoadCount
           \/ MakeRoom \/ Read \/ ReadFails \/ ReadNowhere
  <2>1. UNCHANGED <<pbos, tail, numBusy, size, current, swaps, shot, done>>
    BY <1>3 DEF Flushed, Take, FlushPbo, LoadTail, LoadCount, MakeRoom, Read,
       ReadFails, ReadNowhere, ringVars, appVars
  <2>2. Held' = Held /\ InHand' = InHand
    BY <1>1, <1>3, RingTests
  <2>3. First' = First
    <3>1. CASE LoadTail
      BY <3>1 DEF LoadTail, First
    <3>2. CASE ~LoadTail
      <4>1. ~InHand
        BY <1>3, <3>2 DEF Flushed, Take, FlushPbo, LoadTail, LoadCount, MakeRoom, Read,
           ReadFails, ReadNowhere, InHand
      <4>. QED
        BY <2>2, <4>1 DEF First, InHand
    <3>. QED
      BY <3>1, <3>2
  <2>4. call' = call \/ call' = NoCall
    BY <1>3 DEF Flushed, Take, FlushPbo, LoadTail, LoadCount, MakeRoom, Read,
       ReadFails, ReadNowhere, AfterFlush, Return
  <2>5. Filled => Filled'
    BY <1>3 DEF Flushed, Take, FlushPbo, LoadTail, LoadCount, MakeRoom, Read,
       ReadFails, ReadNowhere
  <2>6. pc' \in Filling => call'.op = "capture"
    <3>1. CASE Flushed \/ FlushPbo
      BY <3>1 DEF Flushed, FlushPbo, AfterFlush, Return
    <3>2. CASE MakeRoom \/ Read
      BY <3>2 DEF MakeRoom, Read, OrderInv
    <3>3. CASE Take \/ LoadTail \/ LoadCount \/ ReadFails \/ ReadNowhere
      BY <3>3 DEF Take, LoadTail, LoadCount, ReadFails, ReadNowhere, Return
    <3>. QED
      BY <1>3, <3>1, <3>2, <3>3
  <2>7. call'.op = "capture" /\ ~Filled' => call.op = "capture" /\ ~Filled
    BY <2>4, <2>5 DEF NoCall
  <2>. QED
    BY <2>1, <2>2, <2>3, <2>6, <2>7, OrderSame
<1>4. CASE StoreLess \/ StoreMore \/ StoreHead
  <2>1. /\ UNCHANGED <<pbos, tail, size, current, swaps, shot, done>>
        /\ pc \in {"count_store", "add_store", "head"}
        /\ pc' \in {"read", "flush", "app", "add"}
    BY <1>4 DEF StoreLess, StoreMore, StoreHead, Return, appVars
  <2>2. Held' = Held /\ First' = First
    BY <1>1, <1>4, <2>1, RingStores DEF First
  <2>3. /\ call'.op = "capture" /\ ~Filled' => call.op = "capture" /\ ~Filled
        /\ pc' \in Filling => call'.op = "capture"
    BY <1>4 DEF StoreLess, StoreMore, StoreHead, Return, NoCall
  <2>. QED
    BY <2>1, <2>2, <2>3, OrderSame
<1>5. CASE Create
  <2>1. /\ UNCHANGED <<current, swaps, shot, done>> /\ numBusy = 0 /\ numBusy' = 0
        /\ pc = "create" /\ pc' \in {"app", "room"}
        /\ call' = call \/ call' = NoCall
        /\ pc' = "room" => call'.op = "capture"
    BY <1>5 DEF Create, Return, OrderInv, RingInv, LocalsOK, appVars
  <2>2. Owed = 0 /\ Owed' = 0
    BY <2>1, CapturerAssumption DEF Owed, Held, First
  <2>3. call'.op = "capture" => call.op = "capture"
    BY <2>1 DEF NoCall
  <2>. QED
    BY <2>1, <2>2, <2>3, OrderKept
<1>6. CASE UNCHANGED vars
  <2>1. UNCHANGED <<pbos, tail, size, shot, done, swaps, call, pc, current>>
    BY <1>6 DEF vars, ringVars, appVars
  <2>2. Held' = Held /\ First' = First
    BY <1>6 DEF vars, ringVars, Held, First
  <2>3. pc' \in Filling => call'.op = "capture"
    BY <2>1 DEF OrderInv
  <2>. QED
    BY <2>1, <2>2, <2>3, OrderSame
<1>. QED
  BY <1>2, <1>3, <1>4, <1>5, <1>6

\* A step that deinit takes.
LEMMA DeinitSteps ==
  ASSUME OrderInv, FlushDeinit \/ (Destroy /\ ~(current /\ up))
  PROVE  /\ Deinit /\ pc' = "app" /\ UNCHANGED <<shot, swaps, current>>
         /\ \/ pc = "deinit" /\ done' = done /\ call' = NoCall
            \/ /\ pc = "app" /\ done' = done \o Becomes("dropped", Pending)
               /\ call' = call /\ Destroy /\ ~(current /\ up)
BY DEF FlushDeinit, Destroy, Return, appVars

\* Every step keeps the frames in order.
LEMMA OrderStep ==
  ASSUME Strikes \cap Windows = {}, OrderInv, [Next]_vars
  PROVE  OrderInv'
<1>1. RingInv'
  BY RingStep DEF OrderInv
<1>2. CASE FlushDeinit \/ (Destroy /\ ~(current /\ up))
  BY <1>1, <1>2, DeinitSteps, OrderDeinit
<1>. QED
  BY <1>1, <1>2, OrderRest, OrderClear, OrderWrite, OrderStoreTail, OrderSignal,
     OrderFill DEF Next

\* Frame by frame is the same as the sequences of FramesInOrder.
LEMMA OrderImplies == OrderInv => FramesInOrder
<1>. SUFFICES ASSUME OrderInv PROVE FramesInOrder
  OBVIOUS
<1>. DEFINE d == [i \in DOMAIN done |-> done[i].frame]
<1>1. Pending = [i \in 1..Owed |-> OwedFrame(i)] /\ Owed \in Nat
  BY PendingOwed, CapturerAssumption
<1>2. Pending \in Seq(Frames) /\ Len(Pending) = Owed
  BY <1>1, PendingOwed
<1>3. done \in Seq(Outcomes) /\ DOMAIN done = 1..Len(done) /\ Len(done) \in Nat
  BY DEF OrderInv
<1>4. d \in Seq(Frames) /\ Len(d) = Len(done)
  <2>1. \A i \in 1..Len(done) : done[i].frame \in Frames
    <3>1. \A i \in 1..Len(done) : done[i] \in Outcomes
      BY <1>3, ElementOfSeq
    <3>. QED
      BY <3>1 DEF Outcomes
  <2>. QED
    BY <1>3, <2>1
<1>5. \A i \in 1..Len(done) : d[i] = shot[i]
  BY <1>3 DEF OrderInv
<1>6. \A i \in 1..Owed : Pending[i] = shot[Len(done) + i]
  BY <1>1 DEF OrderInv
<1>. HIDE DEF d
<1>7. d \o Pending = shot
  <2>1. /\ shot \in Seq(Frames) /\ Len(shot) = Len(done) + Owed
    BY DEF OrderInv
  <2>2. d \o Pending \in Seq(Frames) /\ Len(d \o Pending) = Len(shot)
    BY <1>2, <1>4, <2>1
  <2>3. ASSUME NEW i \in 1..Len(shot) PROVE (d \o Pending)[i] = shot[i]
    <3>1. CASE i <= Len(done)
      BY <1>2, <1>3, <1>4, <1>5, <2>1, <3>1
    <3>2. CASE i > Len(done)
      <4>1. i - Len(done) \in 1..Owed /\ Len(done) + (i - Len(done)) = i
        BY <1>1, <1>3, <2>1, <3>2
      <4>2. (d \o Pending)[i] = Pending[i - Len(done)]
        BY <1>2, <1>3, <1>4, <2>1, <3>2, <4>1
      <4>. QED
        BY <1>6, <4>1, <4>2
    <3>3. i <= Len(done) \/ i > Len(done)
      BY <1>3
    <3>. QED
      BY <3>1, <3>2, <3>3
  <2>. QED
    BY <2>1, <2>2, <2>3, SeqEqual
<1>8. DOMAIN shot = 1..Len(shot)
  BY DEF OrderInv
<1>9. \A i \in 1..Len(Pending) : Pending[i].size = size
  BY <1>1, <1>2 DEF OrderInv
<1>. QED
  BY <1>7, <1>8, <1>9 DEF FramesInOrder, OrderInv, d

\* For any number of buffers, frames, sizes and failures, as long as no handler
\* strikes in one of the windows: frames come out in order, each once, with the
\* size they were read with.
THEOREM OrderCorrect ==
  ASSUME Strikes \cap Windows = {}
  PROVE  Spec => []FramesInOrder
<1>1. Init => OrderInv
  BY OrderInit
<1>2. OrderInv /\ [Next]_vars => OrderInv'
  BY OrderStep
<1>3. OrderInv => FramesInOrder
  BY OrderImplies
<1>. QED
  BY <1>1, <1>2, <1>3, PTL DEF Spec

-----------------------------------------------------------------------------
(* What a context that is not current owes.                                  *)

\* ReleasedIsFlushed over the history: what is pending is what was read and is
\* not done.
ReleasedInv ==
  /\ OrderInv
  /\ ~current => \A i \in 1..Len(shot) : i > Len(done) => ~shot[i].current
  /\ \A i \in 1..Len(done) : done[i].how = "dropped" => ~done[i].frame.current

\* A step that only says of more frames what became of them, and drops none that
\* was read while the context was current.
LEMMA ReleasedMore ==
  ASSUME ReleasedInv, OrderInv', shot' = shot, current' = current \/ current',
         NEW out \in Seq(Outcomes), done' = done \o out,
         \A i \in 1..Len(out) : out[i].how = "dropped" => ~out[i].frame.current
  PROVE  ReleasedInv'
<1>1. /\ done \in Seq(Outcomes) /\ done' \in Seq(Outcomes)
      /\ Len(done') = Len(done) + Len(out) /\ Len(out) \in Nat /\ Len(done) \in Nat
      /\ \A i \in 1..Len(done') :
           done'[i] = IF i <= Len(done) THEN done[i] ELSE out[i - Len(done)]
  BY DEF ReleasedInv, OrderInv
<1>2. ASSUME NEW i \in 1..Len(done'), done'[i].how = "dropped"
      PROVE  ~done'[i].frame.current
  <2>1. CASE i <= Len(done)
    BY <1>1, <1>2, <2>1 DEF ReleasedInv
  <2>2. CASE i > Len(done)
    <3>1. i - Len(done) \in 1..Len(out) /\ done'[i] = out[i - Len(done)]
      BY <1>1, <2>2
    <3>. QED
      BY <1>2, <3>1
  <2>. QED
    BY <1>1, <2>1, <2>2
<1>3. \A i \in 1..Len(shot) : i > Len(done') => i > Len(done)
  BY <1>1 DEF ReleasedInv, OrderInv
<1>. QED
  BY <1>2, <1>3 DEF ReleasedInv

\* A step after which nothing was read, and nothing done, that was not before.
LEMMA ReleasedKept ==
  ASSUME ReleasedInv, OrderInv', UNCHANGED <<shot, done>>, current' = current \/ current'
  PROVE  ReleasedInv'
BY DEF ReleasedInv

\* Before glXMakeCurrent asks the driver, nothing is pending.
LEMMA ReleasedSwitch ==
  ASSUME ReleasedInv, OrderInv', Switch
  PROVE  ReleasedInv'
<1>1. UNCHANGED <<shot, done>>
  BY DEF Switch
<1>2. Owed = 0
  BY DEF Switch, Owed, Held, First, ReleasedInv, OrderInv, RingInv, LocalsOK
<1>3. Len(shot) = Len(done) /\ Len(done) \in Nat
  BY <1>2 DEF ReleasedInv, OrderInv
<1>. QED
  BY <1>1, <1>3 DEF ReleasedInv

\* A frame is read with what the context is at that time.
LEMMA ReleasedFill ==
  ASSUME ReleasedInv, OrderInv', Fill
  PROVE  ReleasedInv'
<1>. DEFINE f == [index |-> swaps, size |-> size, current |-> current]
<1>1. shot' = Append(shot, f) /\ UNCHANGED <<done, current>> /\ f.current = current
  BY DEF Fill, appVars
<1>5. f \in Frames
  BY DEF ReleasedInv, OrderInv, RingInv, TypeOK, Frames
<1>. HIDE DEF f
<1>2. shot \in Seq(Frames) /\ shot' \in Seq(Frames)
  BY DEF ReleasedInv, OrderInv
<1>3. /\ Len(shot') = Len(shot) + 1 /\ shot'[Len(shot) + 1] = f
      /\ \A i \in 1..Len(shot) : shot'[i] = shot[i]
  BY <1>1, <1>2, <1>5
<1>4. ASSUME ~current', NEW i \in 1..Len(shot'), i > Len(done)
      PROVE  ~shot'[i].current
  <2>1. CASE i \in 1..Len(shot)
    BY <1>1, <1>3, <1>4, <2>1 DEF ReleasedInv
  <2>2. CASE i = Len(shot) + 1
    BY <1>1, <1>3, <1>4, <2>2
  <2>. QED
    BY <1>2, <1>3, <2>1, <2>2
<1>. QED
  BY <1>1, <1>4 DEF ReleasedInv

\* What flush_pbo or a handler writes out or gives up is not dropped.
LEMMA ReleasedWritten ==
  ASSUME ReleasedInv, OrderInv', RingInv', Strikes \cap Windows = {}, Write \/ Signal
  PROVE  ReleasedInv'
<1>1. PICK out \in Seq(Outcomes) :
        done' = done \o out /\ \A i \in 1..Len(out) : out[i].how # "dropped"
  <2>1. CASE Write
    <3>1. PICK how \in {"written", "unmapped"} :
            done' = done \o <<[frame |-> pbos[tail].frame, how |-> how]>>
      BY <2>1, OrderWrite DEF ReleasedInv
    <3>. DEFINE d == [frame |-> pbos[tail].frame, how |-> how]
    <3>2. d \in Outcomes /\ d.how # "dropped" /\ done' = done \o <<d>>
      BY <3>1 DEF Outcomes, Buffers, ReleasedInv, OrderInv, RingInv, TypeOK
    <3>. HIDE DEF d
    <3>3. /\ <<d>> \in Seq(Outcomes)
          /\ \A i \in 1..Len(<<d>>) : <<d>>[i].how # "dropped"
      BY <3>2
    <3>. QED
      BY <3>2, <3>3
  <2>2. CASE Signal
    BY <2>2, OrderSignal DEF ReleasedInv
  <2>. QED
    BY <2>1, <2>2
<1>2. UNCHANGED <<shot, current>>
  BY DEF Write, Signal, appVars
<1>. QED
  BY <1>1, <1>2, ReleasedMore

\* The frames that are dropped with a context were read while it was not current.
LEMMA ReleasedDestroy ==
  ASSUME ReleasedInv, OrderInv', RingInv',
         FlushDeinit \/ (Destroy /\ ~(current /\ up))
  PROVE  ReleasedInv'
<1>1. /\ OrderInv /\ Deinit /\ pc' = "app" /\ UNCHANGED <<shot, swaps, current>>
      /\ \/ pc = "deinit" /\ done' = done /\ call' = NoCall
         \/ /\ pc = "app" /\ done' = done \o Becomes("dropped", Pending)
            /\ call' = call /\ Destroy /\ ~(current /\ up)
  BY DeinitSteps DEF ReleasedInv
<1>2. CASE pc = "deinit" /\ done' = done
  BY <1>1, <1>2, ReleasedKept
<1>3. CASE /\ pc = "app" /\ done' = done \o Becomes("dropped", Pending)
           /\ call' = call /\ ~(current /\ up)
  <2>. DEFINE out == Becomes("dropped", Pending)
  <2>1. /\ out \in Seq(Outcomes) /\ Len(out) = Owed
        /\ \A i \in 1..Owed : out[i].frame = OwedFrame(i)
    BY <1>1, <1>3, OrderDeinit
  <2>2. \A i \in 1..Owed : ~OwedFrame(i).current
    <3>1. /\ Len(shot) = Len(done) + Owed /\ Len(done) \in Nat /\ Owed \in 0..NumBufs
          /\ \A i \in 1..Owed : OwedFrame(i) = shot[Len(done) + i]
      BY <1>1, PendingOwed DEF OrderInv
    <3>2. CASE ~current
      <4>1. \A i \in 1..Owed : Len(done) + i \in 1..Len(shot)
                               /\ Len(done) + i > Len(done)
        BY <3>1, CapturerAssumption
      <4>. QED
        BY <3>1, <3>2, <4>1 DEF ReleasedInv
    <3>3. CASE ~up
      <4>1. Owed = 0
        BY <1>3, <3>3 DEF Owed, Held, First, ReleasedInv, OrderInv, RingInv
      <4>. QED
        BY <4>1
    <3>. QED
      BY <1>3, <3>2, <3>3
  <2>3. done' = done \o out
    BY <1>3
  <2>. HIDE DEF out
  <2>. QED
    BY <1>1, <2>1, <2>2, <2>3, ReleasedMore
<1>. QED
  BY <1>1, <1>2, <1>3

\* Every step keeps what a context that is not current owes.
LEMMA ReleasedStep ==
  ASSUME Strikes \cap Windows = {}, ReleasedInv, [Next]_vars
  PROVE  ReleasedInv'
<1>1. OrderInv /\ OrderInv' /\ RingInv'
  BY OrderStep DEF ReleasedInv, OrderInv
<1>2. CASE Switch
  BY <1>1, <1>2, ReleasedSwitch
<1>3. CASE \/ Swap \/ Release \/ MakeCurrent \/ EndCapture
           \/ Destroy /\ current /\ up
           \/ Flushed \/ Take \/ FlushPbo \/ LoadTail \/ LoadCount
           \/ MakeRoom \/ Read \/ ReadFails \/ ReadNowhere
           \/ StoreLess \/ StoreMore \/ StoreHead
           \/ Create \/ UNCHANGED vars
  <2>1. CASE Switch
    BY <1>2, <2>1
  <2>2. UNCHANGED <<shot, done>> /\ (current' = current \/ current' \/ Switch)
    BY <1>1, <1>3, OrderRest
  <2>. QED
    BY <1>1, <2>1, <2>2, <1>2, ReleasedKept
<1>4. CASE Clear \/ StoreTail
  BY <1>1, <1>4, ReleasedKept DEF Clear, StoreTail, appVars
<1>. QED
  BY <1>1, <1>2, <1>3, <1>4, ReleasedFill, ReleasedWritten, ReleasedDestroy DEF Next

\* For any number of buffers, frames, sizes and failures, as long as no handler
\* strikes in one of the windows: a context that is not current owes no frame of a
\* swap that was made while it was, and no such frame is dropped when a context is
\* destroyed.
THEOREM ReleasedCorrect ==
  ASSUME Strikes \cap Windows = {}
  PROVE  Spec => []ReleasedIsFlushed
<1>1. Init => ReleasedInv
  BY OrderInit DEF Init, ReleasedInv
<1>2. ReleasedInv /\ [Next]_vars => ReleasedInv'
  BY ReleasedStep
<1>3. ReleasedInv => ReleasedIsFlushed
  <2>. SUFFICES ASSUME ReleasedInv PROVE ReleasedIsFlushed
    OBVIOUS
  <2>1. Pending = [i \in 1..Owed |-> OwedFrame(i)] /\ Owed \in Nat
    BY PendingOwed, CapturerAssumption DEF ReleasedInv
  <2>2. Len(Pending) = Owed
    BY <2>1
  <2>3. \A i \in 1..Owed : /\ Pending[i] = shot[Len(done) + i]
                           /\ Len(done) + i \in 1..Len(shot)
                           /\ Len(done) + i > Len(done)
    <3>1. Len(shot) = Len(done) + Owed /\ Len(done) \in Nat
      BY DEF ReleasedInv, OrderInv
    <3>2. \A i \in 1..Owed : Pending[i] = OwedFrame(i)
      BY <2>1
    <3>. QED
      BY <2>1, <3>1, <3>2 DEF ReleasedInv, OrderInv
  <2>4. DOMAIN done = 1..Len(done)
    BY DEF ReleasedInv, OrderInv
  <2>. QED
    BY <2>2, <2>3, <2>4 DEF ReleasedIsFlushed, ReleasedInv
<1>. QED
  BY <1>1, <1>2, <1>3, PTL DEF Spec

=============================================================================

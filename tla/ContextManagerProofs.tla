------------------------- MODULE ContextManagerProofs -------------------------
(***************************************************************************)
(* Proofs about ContextManager for any number of threads, handles and      *)
(* contexts, and for every behaviour of the application and the driver:    *)
(* type correctness, the counting of references in share groups, what      *)
(* handles and pointers lead to, and that the tracer follows the driver.   *)
(***************************************************************************)
EXTENDS ContextManager, FiniteSetTheorems, TLAPS

\* Objects that a call in progress is about to allocate.
Pending == {call[t].p : t \in {u \in Threads : At(u, "create")}}

\* Objects are allocated once, each by one call.
PendingFresh ==
  /\ \A o \in live \union Pending : o \in 1..made
  /\ live \intersect Pending = {}
  /\ \A t, u \in Threads : At(t, "create") /\ At(u, "create") /\ t # u =>
                             call[t].p # call[u].p
  /\ \A t \in Threads : At(t, "create") => call[t].h \in Handles

\* What the map knows is allocated, under its own handle, and what contexts
\* share with can be found in the map.
MapOK ==
  /\ \A h \in Handles : map[h] # 0 => map[h] \in live /\ ctx[map[h]].handle = h
  /\ \A o \in live : Sharing(o) # {} =>
       ctx[o].handle \in Handles /\ map[ctx[o].handle] = o

\* A call that destroys a context frees it under the handle it was found by.
DestroyOK ==
  \A t \in Threads : At(t, "destroy") \/ At(t, "destroy_book") =>
    /\ call[t].h \in Handles
    /\ call[t].p \in (1..made) \union {0}
    /\ call[t].p \notin Pending
    /\ call[t].p \in live => map[call[t].h] = call[t].p

\* The inductive invariant.
CountInv == TypeOK /\ SharesAreCounted /\ PendingFresh /\ MapOK /\ DestroyOK

\* The shares of an object are finitely many.
LEMMA SharingFinite ==
  ASSUME TypeOK, NEW r
  PROVE  IsFiniteSet(Sharing(r)) /\ Cardinality(Sharing(r)) \in Nat
<1>1. IsFiniteSet(1..MaxContexts)
  BY FS_Interval, ContextAssumption
<1>2. Sharing(r) \subseteq 1..MaxContexts
  BY DEF Sharing, TypeOK, Objects
<1>. QED
  BY <1>1, <1>2, FS_Subset, FS_CardinalityType

\* A thread that is in no call, and what a lookup returns, are well typed.
LEMMA IdleType ==
  /\ Idle \in CallsOK /\ 0 \in Pointers
  /\ TypeOK => \A h \in Handles \union {NoHandle} : Lookup(h) \in Pointers
  BY ContextAssumption DEF Idle, CallsOK, Places, Pointers, Lookup, TypeOK

\* Initially nothing is allocated.
LEMMA CountInit == Init => CountInv
<1>. SUFFICES ASSUME Init PROVE CountInv
  OBVIOUS
<1>1. TypeOK
  BY ContextAssumption
     DEF Init, TypeOK, Pointers, Objs, CallsOK, Places, Idle, Unused
<1>2. SharesAreCounted /\ MapOK
  BY DEF Init, SharesAreCounted, MapOK
<1>3. Pending = {}
  BY DEF Init, Pending, At, Idle
<1>4. PendingFresh /\ DestroyOK
  BY <1>3 DEF Init, PendingFresh, DestroyOK, At, Idle
<1>. QED
  BY <1>1, <1>2, <1>4 DEF CountInv

\* A step that keeps the map, the allocated objects and what they share with
\* keeps the counts.
LEMMA CountKept ==
  ASSUME CountInv, live' = live, map' = map, ctx' \in [Objects -> Objs],
         \A o \in Objects : /\ ctx'[o].handle = ctx[o].handle
                            /\ ctx'[o].ref = ctx[o].ref
                            /\ ctx'[o].deleted = ctx[o].deleted
                            /\ ctx'[o].shared = ctx[o].shared
  PROVE  SharesAreCounted' /\ MapOK'
<1>1. live \subseteq Objects
  BY DEF CountInv, TypeOK
<1>2. \A o \in live : Sharing(o)' = Sharing(o) /\ (IsRoot(o)' <=> IsRoot(o))
  BY <1>1 DEF Sharing, IsRoot
<1>3. SharesAreCounted'
  BY <1>1, <1>2 DEF CountInv, SharesAreCounted, Counted, IsRoot
<1>4. MapOK'
  BY <1>1, <1>2 DEF CountInv, MapOK
<1>. QED
  BY <1>3, <1>4

\* A call that is not about to allocate does not when it moves on.
LEMMA PendingKept ==
  ASSUME CountInv, NEW t \in Threads, call' \in [Threads -> CallsOK],
         \A u \in Threads \ {t} : call'[u] = call[u],
         ~At(t, "create"), ~At(t, "create")', live' \subseteq live, made' = made
  PROVE  PendingFresh' /\ Pending' = Pending
<1>1. \A u \in Threads : At(u, "create")' <=> At(u, "create")
  BY DEF At
<1>2. \A u \in Threads : At(u, "create") => call'[u] = call[u]
  OBVIOUS
<1>3. Pending' = Pending
  BY <1>1, <1>2 DEF Pending
<1>4. PendingFresh'
  BY <1>1, <1>2, <1>3 DEF CountInv, PendingFresh
<1>. QED
  BY <1>3, <1>4

-----------------------------------------------------------------------------
(* The steps that only read the map.                                         *)

\* The driver creates a context: the next object is reserved.
LEMMA CreateCounts ==
  ASSUME CountInv, NEW t \in Threads, Create(t)
  PROVE  CountInv'
<1>1. PICK h \in Handles \ alive, s \in {NoHandle} \union {x \in alive : Usable(x)} :
        /\ group' = [group EXCEPT ![h] = IF s = NoHandle THEN made + 1 ELSE group[s]]
        /\ alive' = alive \union {h}
        /\ call' = [call EXCEPT ![t] = [Idle EXCEPT !.at = "create", !.h = h,
                                          !.share = s, !.p = made + 1]]
  BY DEF Create
<1>2. made < MaxContexts /\ made' = made + 1 /\ made \in Nat
      /\ made' \in 1..MaxContexts /\ ~At(t, "create")
  BY ContextAssumption DEF Create, CountInv, TypeOK, Pointers, At
<1>3. call' \in [Threads -> CallsOK]
  <2>1. s \in Handles \union {NoHandle} /\ made + 1 \in Pointers
    BY <1>2, ContextAssumption DEF CountInv, TypeOK, Pointers
  <2>2. [Idle EXCEPT !.at = "create", !.h = h, !.share = s, !.p = made + 1]
          \in CallsOK
    BY <2>1, IdleType DEF CallsOK, Idle, Places
  <2>. QED
    BY <1>1, <2>2 DEF CountInv, TypeOK
<1>4. TypeOK'
  BY <1>1, <1>2, <1>3 DEF Create, CountInv, TypeOK, Pointers, shadow
<1>5. SharesAreCounted' /\ MapOK'
  BY CountKept DEF Create, shadow, CountInv, TypeOK
<1>6. /\ call'[t].p = made + 1 /\ call'[t].h = h /\ call'[t].at = "create"
      /\ \A u \in Threads \ {t} : call'[u] = call[u]
  BY <1>1 DEF CountInv, TypeOK, Idle
<1>7. Pending' = Pending \union {made + 1}
  BY <1>2, <1>6 DEF Pending, At
<1>8. \A o \in live \union Pending : o \in 1..made
  BY DEF CountInv, PendingFresh
<1>9. PendingFresh'
  <2>1. \A o \in live' \union Pending' : o \in 1..made'
    BY <1>2, <1>7, <1>8 DEF Create, shadow
  <2>2. live' \intersect Pending' = {}
    BY <1>2, <1>7, <1>8 DEF Create, shadow, CountInv, PendingFresh
  <2>3. \A u \in Threads \ {t} : At(u, "create") => call[u].p \in 1..made
    BY <1>8 DEF Pending
  <2>. QED
    BY <1>2, <1>6, <2>1, <2>2, <2>3 DEF At, CountInv, PendingFresh
<1>10. DestroyOK'
  BY <1>2, <1>6, <1>7 DEF DestroyOK, CountInv, At, Create, shadow
<1>. QED
  BY <1>4, <1>5, <1>9, <1>10 DEF CountInv

\* A call that moves on without touching an object.
LEMMA MoveCounts ==
  ASSUME CountInv, NEW t \in Threads,
         MakeCurrent(t) \/ MCDriver(t) \/ Destroy(t) \/ DestroyDriver(t)
  PROVE  CountInv'
<1>1. /\ call' \in [Threads -> CallsOK]
      /\ \A u \in Threads \ {t} : call'[u] = call[u]
      /\ ~At(t, "create") /\ ~At(t, "create")'
      /\ UNCHANGED shadow /\ made' = made
      /\ \/ call'[t].at \in {"mc_driver", "mc_book"}
         \/ DestroyDriver(t)
         \/ \E h \in alive : call'[t].h = h /\ call'[t].p = Lookup(h)
  <2>1. CASE MakeCurrent(t)
    <3>1. PICK h \in Handles \union {NoHandle} :
            call' = [call EXCEPT ![t] = [Idle EXCEPT !.at = "mc_driver", !.h = h,
                       !.was = current[t], !.p = Lookup(h), !.cur = tls[t]]]
      BY <2>1 DEF MakeCurrent, CountInv, TypeOK
    <3>2. /\ [Idle EXCEPT !.at = "mc_driver", !.h = h, !.was = current[t],
                          !.p = Lookup(h), !.cur = tls[t]] \in CallsOK
          /\ call'[t].at = "mc_driver"
      BY <3>1, IdleType DEF CountInv, TypeOK, CallsOK, Idle, Places
    <3>. QED
      BY <2>1, <3>1, <3>2 DEF MakeCurrent, At, CountInv, TypeOK, driver
  <2>2. CASE MCDriver(t)
    <3>1. PICK ok \in BOOLEAN :
            call' = [call EXCEPT ![t] = [@ EXCEPT !.at = "mc_book", !.ok = ok]]
      BY <2>2 DEF MCDriver
    <3>2. /\ [call[t] EXCEPT !.at = "mc_book", !.ok = ok] \in CallsOK
          /\ call'[t].at = "mc_book"
      BY <3>1 DEF CountInv, TypeOK, CallsOK, Places
    <3>. QED
      BY <2>2, <3>1, <3>2 DEF MCDriver, At, CountInv, TypeOK, driver
  <2>3. CASE Destroy(t)
    <3>1. PICK h \in alive :
            call' = [call EXCEPT ![t] = [Idle EXCEPT !.at = "destroy", !.h = h,
                                                     !.p = Lookup(h)]]
      BY <2>3 DEF Destroy, CountInv, TypeOK
    <3>2. /\ [Idle EXCEPT !.at = "destroy", !.h = h, !.p = Lookup(h)] \in CallsOK
          /\ call'[t].at = "destroy"
          /\ call'[t].h = h /\ call'[t].p = Lookup(h)
      BY <3>1, IdleType DEF CountInv, TypeOK, CallsOK, Idle, Places
    <3>. QED
      BY <2>3, <3>1, <3>2 DEF Destroy, At, CountInv, TypeOK, driver
  <2>4. CASE DestroyDriver(t)
    BY <2>4, SMTT(30) DEF DestroyDriver, At, CountInv, TypeOK, CallsOK, Places
  <2>. QED
    BY <2>1, <2>2, <2>3, <2>4
<1>2. TypeOK'
  BY <1>1, ZenonT(60) DEF MakeCurrent, MCDriver, Destroy, DestroyDriver, CountInv, TypeOK,
              CallsOK, shadow, driver
<1>3. SharesAreCounted' /\ MapOK'
  BY <1>1, CountKept DEF CountInv, TypeOK, shadow
<1>4. PendingFresh' /\ Pending' = Pending
  BY <1>1, PendingKept DEF shadow
<1>5. ASSUME At(t, "destroy")' \/ At(t, "destroy_book")'
      PROVE  /\ call'[t].h \in Handles
             /\ call'[t].p \in (1..made) \union {0}
             /\ call'[t].p \notin Pending
             /\ call'[t].p \in live => map[call'[t].h] = call'[t].p
  <2>1. ASSUME NEW h \in alive, call'[t].h = h, call'[t].p = Lookup(h)
        PROVE  /\ call'[t].h \in Handles
               /\ call'[t].p \in (1..made) \union {0}
               /\ call'[t].p \notin Pending
               /\ call'[t].p \in live => map[call'[t].h] = call'[t].p
    <3>2. h \in Handles /\ Lookup(h) = map[h]
      BY ContextAssumption DEF CountInv, TypeOK, Lookup
    <3>3. map[h] \in Pointers
      BY <3>2 DEF CountInv, TypeOK
    <3>4. map[h] # 0 => map[h] \in live /\ map[h] \in 1..made
      BY <3>2 DEF CountInv, MapOK, PendingFresh
    <3>5. 0 \notin Pending
      BY DEF Pending, CountInv, PendingFresh
    <3>. QED
      BY <2>1, <3>2, <3>4, <3>5 DEF CountInv, PendingFresh
  <2>2. CASE DestroyDriver(t)
    BY <2>2 DEF DestroyDriver, CountInv, DestroyOK, TypeOK, At
  <2>3. CASE call'[t].at \in {"mc_driver", "mc_book"}
    BY <1>5, <2>3 DEF At
  <2>. QED
    BY <1>1, <2>1, <2>2, <2>3
<1>6. DestroyOK'
  BY <1>1, <1>4, <1>5 DEF DestroyOK, CountInv, At, shadow
<1>. QED
  BY <1>2, <1>3, <1>4, <1>6 DEF CountInv

\* glXMakeCurrent's bookkeeping marks objects, and counts nothing.
LEMMA MCBookCounts ==
  ASSUME CountInv, NEW t \in Threads, MCBook(t)
  PROVE  CountInv'
<1>1. /\ call' \in [Threads -> CallsOK]
      /\ \A u \in Threads \ {t} : call'[u] = call[u]
      /\ ~At(t, "create") /\ call'[t].at = "idle"
  <2>1. call' = [call EXCEPT ![t] = Idle] /\ At(t, "mc_book")
    BY DEF MCBook, Return
  <2>2. Idle.at = "idle"
    BY DEF Idle
  <2>. QED
    BY <2>1, <2>2, IdleType DEF At, CountInv, TypeOK
<1>2. /\ ctx' \in [Objects -> Objs]
      /\ \A o \in Objects : /\ ctx'[o].handle = ctx[o].handle
                            /\ ctx'[o].ref = ctx[o].ref
                            /\ ctx'[o].deleted = ctx[o].deleted
                            /\ ctx'[o].shared = ctx[o].shared
  BY DEF MCBook, CountInv, TypeOK, Objs
<1>3. tls' \in [Threads -> Pointers]
  BY DEF MCBook, CountInv, TypeOK, CallsOK
<1>4. TypeOK'
  BY <1>1, <1>2, <1>3 DEF MCBook, CountInv, TypeOK, driver
<1>5. SharesAreCounted' /\ MapOK'
  BY <1>2, CountKept DEF MCBook
<1>6. PendingFresh' /\ Pending' = Pending
  BY <1>1, PendingKept DEF MCBook, driver, At
<1>7. DestroyOK'
  BY <1>1, <1>6 DEF DestroyOK, CountInv, At, MCBook, driver
<1>. QED
  BY <1>4, <1>5, <1>6, <1>7 DEF CountInv

-----------------------------------------------------------------------------
(* The steps that allocate, count and free.                                  *)

\* What a context being created shares with is the root of a group, in the map.
LEMMA RootOfGroup ==
  ASSUME CountInv, NEW h \in Handles \union {NoHandle}, Lookup(h) # 0
  PROVE  LET r == Root(Lookup(h))
         IN  /\ r \in live /\ IsRoot(r) /\ r \in Objects
             /\ ctx[r].handle \in Handles /\ map[ctx[r].handle] = r
<1>. DEFINE s == Lookup(h)
<1>1. h \in Handles /\ s = map[h] /\ s \in live /\ ctx[s].handle = h
  BY DEF Lookup, CountInv, MapOK
<1>2. live \subseteq Objects
  BY DEF CountInv, TypeOK
<1>3. CASE IsRoot(s)
  BY <1>1, <1>2, <1>3 DEF Root
<1>4. CASE ~IsRoot(s)
  <2>1. Root(s) = ctx[s].shared /\ Root(s) \in live /\ IsRoot(Root(s))
    BY <1>1, <1>4 DEF Root, CountInv, SharesAreCounted, Counted
  <2>2. s \in Sharing(Root(s))
    BY <1>1, <1>4, <2>1 DEF Sharing, IsRoot
  <2>. QED
    BY <1>2, <2>1, <2>2 DEF CountInv, MapOK
<1>. QED
  BY <1>3, <1>4

\* A new context is a root of its own or one more share of a root.
LEMMA CreateBookCounts ==
  ASSUME CountInv, NEW t \in Threads, CreateBook(t)
  PROVE  CountInv'
<1>0. PICK h, o, s, r : /\ h = call[t].h /\ o = call[t].p
                       /\ s = Lookup(call[t].share) /\ r = Root(s)
  OBVIOUS
<1>1. /\ At(t, "create") /\ h \in Handles /\ o \in Pending /\ o \notin live
      /\ o \in 1..made /\ o \in Objects /\ o # 0
      /\ live \subseteq Objects /\ o \in Nat
  <2>1. At(t, "create") /\ live \subseteq Objects
    BY DEF CreateBook, CountInv, TypeOK
  <2>2. o \in Pending
    BY <1>0, <2>1 DEF Pending
  <2>3. h \in Handles /\ o \notin live /\ o \in 1..made
    BY <1>0, <2>1, <2>2 DEF CountInv, PendingFresh
  <2>4. made \in Nat /\ made <= MaxContexts
    BY ContextAssumption DEF CountInv, TypeOK, Pointers
  <2>. QED
    BY <2>1, <2>2, <2>3, <2>4, ContextAssumption DEF Objects
<1>2. call[t].share \in Handles \union {NoHandle}
  BY DEF CountInv, TypeOK, CallsOK
<1>3. /\ live' = live \union {o} /\ made' = made /\ tls' = tls
      /\ map' = [map EXCEPT ![h] = IF @ = 0 THEN o ELSE @]
      /\ call' = [call EXCEPT ![t] = Idle]
  BY <1>0 DEF CreateBook, Return, driver
<1>4. /\ Fresh(o, h) \in Objs /\ Fresh(o, h).handle = h /\ Fresh(o, h).ref = 1
      /\ Fresh(o, h).shared = o /\ ~Fresh(o, h).deleted
  BY <1>1 DEF Fresh, Objs, Pointers, Objects
<1>5. s # 0 => /\ r \in live /\ IsRoot(r) /\ r \in Objects /\ r # o
               /\ ctx[r].handle \in Handles /\ map[ctx[r].handle] = r
  BY <1>0, <1>1, <1>2, RootOfGroup
<1>6. /\ ctx' \in [Objects -> Objs]
      /\ ctx'[o].handle = h /\ ctx'[o].ref = 1 /\ ~ctx'[o].deleted
      /\ ctx'[o].shared = IF s = 0 THEN o ELSE r
      /\ \A x \in live : /\ ctx'[x].handle = ctx[x].handle
                         /\ ctx'[x].deleted = ctx[x].deleted
                         /\ ctx'[x].shared = ctx[x].shared
                         /\ ctx'[x].ref = IF s # 0 /\ x = r THEN ctx[x].ref + 1
                                                           ELSE ctx[x].ref
  <2>1. CASE s = 0
    <3>1. ctx' = [ctx EXCEPT ![o] = Fresh(o, h)]
      BY <1>0, <2>1 DEF CreateBook
    <3>. QED
      BY <1>1, <1>4, <2>1, <3>1 DEF CountInv, TypeOK
  <2>2. CASE s # 0
    <3>1. ctx' = [ctx EXCEPT ![o] = [Fresh(o, h) EXCEPT !.shared = r],
                             ![r].ref = @ + 1]
      BY <1>0, <2>2 DEF CreateBook
    <3>2. /\ [Fresh(o, h) EXCEPT !.shared = r] \in Objs
          /\ [ctx[r] EXCEPT !.ref = @ + 1] \in Objs
      <4>1. r \in Pointers /\ ctx[r] \in Objs
        BY <1>5, <2>2, ContextAssumption DEF CountInv, TypeOK, Pointers, Objects
      <4>. QED
        BY <1>4, <4>1 DEF Objs
    <3>3. ctx' = [x \in Objects |->
                    IF x = o THEN [Fresh(o, h) EXCEPT !.shared = r]
                    ELSE IF x = r THEN [ctx[r] EXCEPT !.ref = @ + 1]
                    ELSE ctx[x]]
      BY <1>1, <1>5, <2>2, <3>1 DEF CountInv, TypeOK
    <3>4. ctx' \in [Objects -> Objs]
      BY <3>2, <3>3 DEF CountInv, TypeOK
    <3>5. ctx'[o] = [Fresh(o, h) EXCEPT !.shared = r]
      BY <1>1, <3>3
    <3>6. /\ ctx'[o].handle = h /\ ctx'[o].ref = 1 /\ ~ctx'[o].deleted
          /\ ctx'[o].shared = r
      BY <3>5 DEF Fresh
    <3>7. ASSUME NEW x \in live
          PROVE  /\ ctx'[x].handle = ctx[x].handle
                 /\ ctx'[x].deleted = ctx[x].deleted
                 /\ ctx'[x].shared = ctx[x].shared
                 /\ ctx'[x].ref = IF x = r THEN ctx[x].ref + 1 ELSE ctx[x].ref
      <4>1. x \in Objects /\ x # o /\ ctx[x] \in Objs
        BY <1>1 DEF CountInv, TypeOK
      <4>. QED
        BY <3>3, <4>1 DEF Objs
    <3>. QED
      BY <2>2, <3>4, <3>6, <3>7
  <2>. QED
    BY <2>1, <2>2
<1>7. /\ Sharing(o)' = {}
      /\ s # 0 => Sharing(r)' = Sharing(r) \union {o} /\ o \notin Sharing(r)
      /\ \A x \in live : s = 0 \/ x # r => Sharing(x)' = Sharing(x)
  <2>1. \A x \in live : ctx'[x].shared \in live /\ ctx'[x].shared = ctx[x].shared
    BY <1>6 DEF CountInv, SharesAreCounted, Counted
  <2>2. \A x : Sharing(x)' = {y \in live' \ {x} : ctx'[y].shared = x}
    BY DEF Sharing
  <2>3. Sharing(o)' = {}
    BY <1>1, <1>3, <2>1, <2>2
  <2>4. ASSUME NEW x \in live, s = 0 \/ x # r
        PROVE  Sharing(x)' = Sharing(x)
    <3>1. ctx'[o].shared # x
      BY <1>1, <1>6, <2>4
    <3>. QED
      BY <1>3, <2>1, <2>2, <3>1 DEF Sharing
  <2>5. s # 0 => Sharing(r)' = Sharing(r) \union {o} /\ o \notin Sharing(r)
    <3>1. s # 0 => ctx'[o].shared = r /\ r # o /\ r \in live
      BY <1>5, <1>6
    <3>. QED
      BY <1>1, <1>3, <2>1, <2>2, <3>1 DEF Sharing
  <2>. QED
    BY <2>3, <2>4, <2>5
<1>8. /\ \A x \in live : IsRoot(x)' <=> IsRoot(x)
      /\ IsRoot(o)' <=> s = 0
  BY <1>1, <1>5, <1>6 DEF IsRoot
<1>9. SharesAreCounted'
  <2>1. CASE s = 0
    <3>1. ctx'[o].ref = Cardinality(Sharing(o)') + 1
      BY <1>6, <1>7, FS_EmptySet
    <3>2. ASSUME NEW x \in live
          PROVE  Counted(x)'
      <4>1. ctx'[x].shared = ctx[x].shared /\ Counted(x)
        BY <1>6 DEF CountInv, SharesAreCounted
      <4>2. IsRoot(ctx[x].shared)' /\ (IsRoot(x)' <=> IsRoot(x))
        BY <1>8, <4>1 DEF Counted
      <4>. QED
        BY <1>3, <1>6, <1>7, <2>1, <4>1, <4>2 DEF Counted
    <3>3. Counted(o)'
      BY <1>3, <1>6, <1>8, <2>1, <3>1 DEF Counted
    <3>. QED
      BY <1>3, <3>2, <3>3 DEF SharesAreCounted
  <2>2. CASE s # 0
    <3>1. Cardinality(Sharing(r)') = Cardinality(Sharing(r)) + 1
      BY <1>7, <2>2, SharingFinite, FS_AddElement DEF CountInv
    <3>2. Cardinality(Sharing(r)) \in Nat
      BY SharingFinite DEF CountInv
    <3>3. ASSUME NEW x \in live
          PROVE  Counted(x)'
      <4>1. ctx'[x].shared = ctx[x].shared /\ Counted(x)
        BY <1>6 DEF CountInv, SharesAreCounted
      <4>2. IsRoot(ctx[x].shared)' /\ (IsRoot(x)' <=> IsRoot(x))
        BY <1>8, <4>1 DEF Counted
      <4>3. CASE x # r
        BY <1>3, <1>6, <1>7, <4>1, <4>2, <4>3 DEF Counted
      <4>4. CASE x = r
        <5>1. /\ IsRoot(r)' /\ IsRoot(r) /\ r \in live
              /\ ctx'[r].ref = ctx[r].ref + 1 /\ ctx'[r].deleted = ctx[r].deleted
          BY <1>5, <1>6, <1>8, <2>2
        <5>2. ctx[r].ref = Cardinality(Sharing(r)) + IF ctx[r].deleted THEN 0 ELSE 1
          BY <5>1 DEF CountInv, SharesAreCounted, Counted
        <5>3. ctx'[r].ref = Cardinality(Sharing(r)')
                              + IF ctx'[r].deleted THEN 0 ELSE 1
          BY <3>1, <3>2, <5>1, <5>2
        <5>. QED
          BY <1>3, <4>1, <4>2, <4>4, <5>1, <5>3 DEF Counted
      <4>. QED
        BY <4>3, <4>4
    <3>4. Counted(o)'
      BY <1>3, <1>5, <1>6, <1>8, <2>2 DEF Counted
    <3>. QED
      BY <1>3, <3>3, <3>4 DEF SharesAreCounted
  <2>. QED
    BY <2>1, <2>2
<1>10. MapOK'
  <2>1. /\ \A x \in Handles : map[x] # 0 => map'[x] = map[x]
        /\ \A x \in Handles : map'[x] # 0 => map'[x] = map[x] \/ (x = h /\ map'[x] = o)
    BY <1>1, <1>3 DEF CountInv, TypeOK
  <2>2. ASSUME NEW x \in Handles, map'[x] # 0
        PROVE  map'[x] \in live' /\ ctx'[map'[x]].handle = x
    BY <1>3, <1>6, <2>1, <2>2 DEF CountInv, MapOK
  <2>3. ASSUME NEW x \in live', Sharing(x)' # {}
        PROVE  ctx'[x].handle \in Handles /\ map'[ctx'[x].handle] = x
    <3>1. x \in live /\ x \in Nat /\ x # 0
      BY <1>1, <1>3, <1>7, <2>3 DEF Objects
    <3>2. ctx[x].handle \in Handles /\ map[ctx[x].handle] = x
      BY <1>5, <1>7, <2>3, <3>1 DEF CountInv, MapOK
    <3>. QED
      BY <1>6, <2>1, <3>1, <3>2
  <2>. QED
    BY <2>2, <2>3 DEF MapOK
<1>11. call' \in [Threads -> CallsOK] /\ call'[t].at = "idle"
  BY <1>3, IdleType DEF CountInv, TypeOK, Idle
<1>12. TypeOK'
  <2>1. map' \in [Handles -> Pointers]
    BY <1>1, <1>3 DEF CountInv, TypeOK, Pointers, Objects
  <2>. QED
    BY <1>1, <1>3, <1>6, <1>11, <2>1 DEF CreateBook, CountInv, TypeOK, driver
<1>13. Pending' = Pending \ {o}
  <2>1. \A u \in Threads \ {t} : call'[u] = call[u]
    BY <1>3 DEF CountInv, TypeOK
  <2>2. \A u \in Threads \ {t} : At(u, "create") => call[u].p # o
    BY <1>0, <1>1 DEF CountInv, PendingFresh
  <2>. QED
    BY <1>0, <1>11, <2>1, <2>2 DEF Pending, At
<1>14. PendingFresh'
  BY <1>1, <1>3, <1>11, <1>13 DEF PendingFresh, At, CountInv, TypeOK
<1>15. DestroyOK'
  <2>. SUFFICES ASSUME NEW u \in Threads,
                       At(u, "destroy")' \/ At(u, "destroy_book")'
                PROVE  /\ call'[u].h \in Handles
                       /\ call'[u].p \in (1..made) \union {0}
                       /\ call'[u].p \notin Pending'
                       /\ call'[u].p \in live' => map'[call'[u].h] = call'[u].p
    BY <1>3 DEF DestroyOK
  <2>1. u # t /\ call'[u] = call[u] /\ (At(u, "destroy") \/ At(u, "destroy_book"))
    BY <1>3, <1>11 DEF At, CountInv, TypeOK
  <2>2. call[u].p # o
    BY <1>1, <2>1 DEF CountInv, DestroyOK
  <2>3. call[u].p \in live => map'[call[u].h] = call[u].p
    BY <1>1, <1>3, <2>1 DEF CountInv, DestroyOK, TypeOK, Objects
  <2>. QED
    BY <1>3, <1>13, <2>1, <2>2, <2>3 DEF CountInv, DestroyOK
<1>. QED
  BY <1>9, <1>10, <1>12, <1>14, <1>15 DEF CountInv

\* What the steps that free contexts keep of the map: entries go with their
\* objects, and no object is allocated.
Shrinks ==
  /\ ctx' \in [Objects -> Objs]
  /\ live' \subseteq live
  /\ map' \in [Handles -> Pointers] /\ tls' \in [Threads -> Pointers]
  /\ \A x \in Handles : map'[x] = map[x] \/ (map'[x] = 0 /\ map[x] \notin live')
  /\ \A u \in Threads : tls'[u] = tls[u] \/ tls[u] \notin live' \union {0}

\* What happens to p and its group when its handle is given up: p is freed or it is
\* a root that stays for others; and with the last of them goes the root.
Drops(p) ==
  /\ \A x \in live' :
       /\ ctx'[x].shared = ctx[x].shared /\ ctx'[x].handle = ctx[x].handle
       /\ x # p => ctx'[x].deleted = ctx[x].deleted
       /\ ctx[x].deleted /\ Sharing(x) # {} => Sharing(x)' # {}
  /\ p \in live' => ctx'[p].deleted /\ Sharing(p)' # {}
  /\ \A x \in live \ live' : x = p \/ ctx[x].deleted

\* Each object is in the map once.
LEMMA MapInjective ==
  ASSUME CountInv, NEW h \in Handles, NEW k \in Handles, map[h] = map[k], map[h] # 0
  PROVE  h = k
  BY DEF CountInv, MapOK

\* Destroying contexts by their handles, as a set of objects.
LEMMA DestroyContextsShrinks ==
  ASSUME CountInv, NEW t \in Threads, NEW hs \in SUBSET Handles, NEW dead,
         DestroyContexts(t, hs), dead = {map[h] : h \in hs},
         ctx' \in [Objects -> Objs]
  PROVE  Shrinks /\ live' = live \ dead
<1>1. /\ live' = live \ dead
      /\ map' = [h \in Handles |-> IF h \in hs THEN 0 ELSE map[h]]
      /\ tls' = [tls EXCEPT ![t] = IF @ \in dead THEN 0 ELSE @]
  BY DEF DestroyContexts
<1>2. map' \in [Handles -> Pointers] /\ tls' \in [Threads -> Pointers]
  BY <1>1, IdleType DEF CountInv, TypeOK
<1>3. \A h \in hs : map[h] \in dead
  OBVIOUS
<1>. QED
  BY <1>1, <1>2, <1>3 DEF Shrinks, CountInv, TypeOK

\* After a step that shrinks, the map knows what is still allocated.
LEMMA MapShrinks ==
  ASSUME CountInv, Shrinks,
         \A x \in live' : ctx'[x].handle = ctx[x].handle,
         \A x \in live' : Sharing(x)' \subseteq Sharing(x),
         \A x \in Handles : map'[x] = map[x] /\ map[x] # 0 => map[x] \in live'
  PROVE  MapOK'
<1>1. live \subseteq Objects /\ 0 \notin live
  BY DEF CountInv, TypeOK, Objects
<1>2. ASSUME NEW x \in Handles, map'[x] # 0
      PROVE  map'[x] \in live' /\ ctx'[map'[x]].handle = x
  <2>1. map'[x] = map[x] /\ map[x] \in live'
    BY <1>2 DEF Shrinks
  <2>. QED
    BY <1>2, <2>1 DEF CountInv, MapOK
<1>3. ASSUME NEW x \in live', Sharing(x)' # {}
      PROVE  ctx'[x].handle \in Handles /\ map'[ctx'[x].handle] = x
  <2>1. x \in live /\ Sharing(x) # {}
    BY <1>3 DEF Shrinks
  <2>2. ctx[x].handle \in Handles /\ map[ctx[x].handle] = x
    BY <2>1 DEF CountInv, MapOK
  <2>. QED
    BY <1>1, <2>1, <2>2 DEF Shrinks
<1>. QED
  BY <1>2, <1>3 DEF MapOK

\* A root whose handle is destroyed stays for its shares.
LEMMA DropKeepsRoot ==
  ASSUME CountInv, NEW t \in Threads, NEW p \in live, ~ctx[p].deleted,
         ~LastReference(p), DestroyContexts(t, {}),
         ctx' = [ctx EXCEPT ![p].deleted = TRUE, ![p].ref = @ - 1]
  PROVE  Shrinks /\ SharesAreCounted' /\ MapOK' /\ Drops(p)
<1>1. /\ p \in Objects /\ ctx[p] \in Objs /\ ctx[p].ref \in Nat /\ ctx[p].ref >= 2
      /\ live \subseteq Objects /\ 0 \notin live
  BY DEF CountInv, TypeOK, Objs, LastReference, Objects
<1>2. ctx' = [x \in Objects |->
                IF x = p THEN [ctx[p] EXCEPT !.deleted = TRUE, !.ref = @ - 1]
                         ELSE ctx[x]]
  BY <1>1 DEF CountInv, TypeOK
<1>3. ctx' \in [Objects -> Objs]
  BY <1>1, <1>2 DEF CountInv, TypeOK, Objs
<1>4. Shrinks /\ live' = live
  <2>1. {} \in SUBSET Handles /\ {} = {map[x] : x \in {}}
    OBVIOUS
  <2>2. Shrinks /\ live' = live \ {}
    BY <1>3, <2>1, DestroyContextsShrinks
  <2>. QED
    BY <2>2
<1>5. \A x \in Objects :
        /\ ctx'[x].shared = ctx[x].shared /\ ctx'[x].handle = ctx[x].handle
        /\ ctx'[x].deleted = IF x = p THEN TRUE ELSE ctx[x].deleted
        /\ ctx'[x].ref = IF x = p THEN ctx[x].ref - 1 ELSE ctx[x].ref
  BY <1>1, <1>2 DEF CountInv, TypeOK, Objs
<1>6. \A x \in live : Sharing(x)' = Sharing(x) /\ (IsRoot(x)' <=> IsRoot(x))
  BY <1>1, <1>4, <1>5 DEF Sharing, IsRoot
<1>7. IsRoot(p) /\ Cardinality(Sharing(p)) \in Nat /\ Counted(p)
  BY <1>1, SharingFinite DEF CountInv, SharesAreCounted, Counted
<1>8. ASSUME NEW x \in live
      PROVE  Counted(x)'
  <2>1. Counted(x) /\ x \in Objects
    BY <1>1 DEF CountInv, SharesAreCounted
  <2>2. /\ ctx'[x].shared \in live'
        /\ ctx'[ctx'[x].shared].shared = ctx'[x].shared
    <3>1. PICK y : y = ctx[x].shared
      OBVIOUS
    <3>2. y \in live /\ ctx[y].shared = y
      BY <2>1, <3>1 DEF Counted, IsRoot
    <3>3. ctx'[x].shared = y /\ ctx'[y].shared = y
      BY <1>1, <1>5, <2>1, <3>1, <3>2
    <3>. QED
      BY <1>4, <3>2, <3>3
  <2>3. CASE x = p
    <3>1. ctx[p].ref = Cardinality(Sharing(p)) + 1
      BY <1>7 DEF Counted
    <3>2. ctx'[p].ref = Cardinality(Sharing(p)') + 0
      <4>1. Sharing(p)' = Sharing(p) /\ ctx'[p].ref = ctx[p].ref - 1
        BY <1>1, <1>5, <1>6
      <4>. QED
        BY <1>1, <1>7, <3>1, <4>1
    <3>3. IsRoot(p)' /\ ctx'[p].deleted /\ ctx'[p].shared = ctx[p].shared
      BY <1>1, <1>5, <1>6, <1>7
    <3>. QED
      BY <2>2, <2>3, <3>2, <3>3 DEF Counted, IsRoot
  <2>4. CASE x # p
    <3>1. /\ ctx'[x].ref = ctx[x].ref /\ ctx'[x].deleted = ctx[x].deleted
          /\ ctx'[x].shared = ctx[x].shared
      BY <1>5, <2>1, <2>4
    <3>. QED
      BY <1>6, <2>1, <2>2, <3>1 DEF Counted, IsRoot
  <2>. QED
    BY <2>3, <2>4
<1>9. MapOK'
  BY <1>1, <1>4, <1>5, <1>6, MapShrinks DEF CountInv, MapOK
<1>10. Sharing(p) # {}
  <2>1. ctx[p].ref = Cardinality(Sharing(p)) + 1
    BY <1>7 DEF Counted
  <2>2. Cardinality(Sharing(p)) # 0
    BY <1>1, <1>7, <2>1
  <2>. QED
    BY <2>2, FS_EmptySet, Zenon
<1>11. Drops(p)
  BY <1>1, <1>4, <1>5, <1>6, <1>10 DEF Drops
<1>. QED
  BY <1>4, <1>8, <1>9, <1>11 DEF SharesAreCounted

\* A root that nothing shares with is freed.
LEMMA DropFreesRoot ==
  ASSUME CountInv, NEW t \in Threads, NEW p \in live, ~ctx[p].deleted,
         NEW h \in Handles, map[h] = p,
         LastReference(p), IsRoot(p), DestroyContexts(t, {h}),
         ctx' = [ctx EXCEPT ![p].deleted = TRUE, ![p].ref = @ - 1]
  PROVE  Shrinks /\ SharesAreCounted' /\ MapOK' /\ Drops(p)
<1>1. /\ p \in Objects /\ ctx[p] \in Objs /\ ctx[p].ref \in Nat /\ ctx[p].ref <= 1
      /\ live \subseteq Objects /\ 0 \notin live
  BY DEF CountInv, TypeOK, Objs, LastReference, Objects
<1>2. ctx[p].ref = 1 /\ Sharing(p) = {}
  <2>1. Counted(p) /\ IsFiniteSet(Sharing(p)) /\ Cardinality(Sharing(p)) \in Nat
    BY SharingFinite DEF CountInv, SharesAreCounted
  <2>2. ctx[p].ref = Cardinality(Sharing(p)) + 1
    BY <2>1 DEF Counted
  <2>. QED
    BY <1>1, <2>1, <2>2, FS_EmptySet
<1>3. ctx' = [x \in Objects |->
                IF x = p THEN [ctx[p] EXCEPT !.deleted = TRUE, !.ref = @ - 1]
                         ELSE ctx[x]]
  BY <1>1 DEF CountInv, TypeOK
<1>4. ctx' \in [Objects -> Objs]
  BY <1>1, <1>2, <1>3 DEF CountInv, TypeOK, Objs
<1>5. Shrinks /\ live' = live \ {p}
  <2>1. {h} \in SUBSET Handles /\ {p} = {map[x] : x \in {h}}
    OBVIOUS
  <2>. QED
    BY <1>4, <2>1, DestroyContextsShrinks
<1>6. \A x \in live' : ctx'[x] = ctx[x] /\ x # p /\ x \in live
  BY <1>1, <1>3, <1>5
<1>7. \A x \in live' : /\ Sharing(x)' = Sharing(x) /\ (IsRoot(x)' <=> IsRoot(x))
                      /\ ctx[x].shared \in live'
  <2>1. \A x \in live' : ctx[x].shared \in live /\ ctx[x].shared # p
    BY <1>2, <1>5, <1>6 DEF Sharing, CountInv, SharesAreCounted, Counted
  <2>2. \A x \in live' : x \notin {p} /\ (IsRoot(x)' <=> IsRoot(x))
    BY <1>5, <1>6 DEF IsRoot
  <2>3. ASSUME NEW x \in live' PROVE Sharing(x)' = Sharing(x)
    <3>1. p \notin Sharing(x)
      BY <1>6 DEF Sharing, IsRoot
    <3>2. Sharing(x)' = {y \in live' \ {x} : ctx'[y].shared = x}
      BY DEF Sharing
    <3>3. Sharing(x)' = {y \in live' \ {x} : ctx[y].shared = x}
      BY <1>6, <3>2
    <3>4. Sharing(x)' = Sharing(x) \ {p}
      BY <1>5, <3>3 DEF Sharing
    <3>. QED
      BY <3>1, <3>4
  <2>. QED
    BY <1>5, <2>1, <2>2, <2>3
<1>8. ASSUME NEW x \in live'
      PROVE  Counted(x)'
  <2>1. Counted(x) /\ ctx[x].shared \in live' /\ IsRoot(ctx[x].shared)'
    BY <1>6, <1>7 DEF CountInv, SharesAreCounted, Counted
  <2>. QED
    BY <1>6, <1>7, <2>1 DEF Counted
<1>9. \A x \in Handles : map'[x] = map[x] /\ map[x] # 0 => map[x] \in live'
  BY <1>1, <1>5 DEF CountInv, MapOK, DestroyContexts
<1>10. MapOK'
  BY <1>5, <1>6, <1>7, <1>9, MapShrinks
<1>11. Drops(p)
  BY <1>5, <1>6, <1>7 DEF Drops
<1>. QED
  BY <1>5, <1>8, <1>10, <1>11 DEF SharesAreCounted

\* Giving up a reference keeps an object's other fields.
LEMMA RefDown ==
  ASSUME NEW c \in Objs, NEW d, d = [c EXCEPT !.ref = @ - 1]
  PROVE  /\ d.shared = c.shared /\ d.handle = c.handle
         /\ d.deleted = c.deleted /\ d.ref = c.ref - 1
         /\ c.ref - 1 \in Nat => d \in Objs
  BY DEF Objs

\* A context that is given up is an object still.
LEMMA GivenUp ==
  ASSUME NEW c \in Objs, NEW n \in Nat
  PROVE  [c EXCEPT !.deleted = TRUE, !.ref = n, !.shared = 0] \in Objs
  BY IdleType DEF Objs

\* A context that shares is freed, and with it the root if it was the last.
LEMMA DropFreesShare ==
  ASSUME CountInv, NEW t \in Threads, NEW p \in live, ~ctx[p].deleted,
         NEW h \in Handles, map[h] = p, NEW r, r = ctx[p].shared,
         LastReference(p), ~IsRoot(p),
         DestroyContexts(t, IF LastReference(r) THEN {h, ctx[r].handle} ELSE {h}),
         ctx' = [ctx EXCEPT ![p].deleted = TRUE, ![p].ref = @ - 1,
                            ![p].shared = 0, ![r].ref = @ - 1]
  PROVE  Shrinks /\ SharesAreCounted' /\ MapOK' /\ Drops(p)
<1>1. /\ p \in Objects /\ ctx[p] \in Objs /\ live \subseteq Objects /\ 0 \notin live
      /\ Counted(p)
  <2>1. ctx \in [Objects -> Objs] /\ live \subseteq Objects
    BY DEF CountInv, TypeOK
  <2>2. 0 \notin Objects
    BY DEF Objects
  <2>3. Counted(p)
    BY DEF CountInv, SharesAreCounted
  <2>. QED
    BY <2>1, <2>2, <2>3, Zenon
<1>2. /\ r \in live /\ r # p /\ IsRoot(r) /\ r \in Objects /\ ctx[r] \in Objs
      /\ ctx[p].ref = 1 /\ p \in Sharing(r) /\ Counted(r)
  BY <1>1 DEF Counted, IsRoot, Sharing, CountInv, TypeOK, SharesAreCounted
<1>3. /\ ctx[r].handle \in Handles /\ map[ctx[r].handle] = r
  BY <1>2 DEF CountInv, MapOK
<1>4. ctx[r].ref = Cardinality(Sharing(r)) + IF ctx[r].deleted THEN 0 ELSE 1
  BY <1>2 DEF Counted
<1>5. /\ IsFiniteSet(Sharing(r)) /\ Cardinality(Sharing(r)) \in Nat
      /\ Cardinality(Sharing(r)) >= 1
      /\ Cardinality(Sharing(r) \ {p}) = Cardinality(Sharing(r)) - 1
  <2>1. IsFiniteSet(Sharing(r)) /\ Cardinality(Sharing(r)) \in Nat
    BY SharingFinite DEF CountInv
  <2>2. Cardinality(Sharing(r)) # 0
    BY <1>2, <2>1, FS_EmptySet, Zenon
  <2>3. Cardinality(Sharing(r) \ {p}) = Cardinality(Sharing(r)) - 1
    BY <1>2, <2>1, FS_RemoveElement
  <2>. QED
    BY <2>1, <2>2, <2>3
<1>6. LastReference(r) => Sharing(r) = {p}
  <2>1. LastReference(r) => Cardinality(Sharing(r)) = 1
    BY <1>4, <1>5 DEF LastReference
  <2>2. LastReference(r) => \E x : Sharing(r) = {x}
    BY <1>5, <2>1, FS_Singleton
  <2>. QED
    BY <1>2, <2>2
<1>7. ctx' = [x \in Objects |->
                IF x = p THEN [ctx[p] EXCEPT !.deleted = TRUE, !.ref = @ - 1,
                                             !.shared = 0]
                ELSE IF x = r THEN [ctx[r] EXCEPT !.ref = @ - 1]
                ELSE ctx[x]]
  BY <1>1, <1>2 DEF CountInv, TypeOK
<1>8. ctx' \in [Objects -> Objs]
  <2>1. [ctx[p] EXCEPT !.deleted = TRUE, !.ref = @ - 1, !.shared = 0] \in Objs
    <3>1. ctx[p].ref - 1 = 0 /\ 0 \in Pointers /\ 0 \in Nat
      BY <1>2, IdleType
    <3>2. PICK n : n = ctx[p].ref - 1
      OBVIOUS
    <3>3. n \in Nat
      BY <3>1, <3>2
    <3>4. [ctx[p] EXCEPT !.deleted = TRUE, !.ref = n, !.shared = 0] \in Objs
      BY <1>1, <3>3, GivenUp, Zenon
    <3>. QED
      BY <3>2, <3>4
  <2>2. ctx[r].ref - 1 \in Nat
    BY <1>4, <1>5
  <2>3. [ctx[r] EXCEPT !.ref = @ - 1] \in Objs
    BY <1>2, <2>2, RefDown, Zenon
  <2>4. \A x \in Objects : ctx[x] \in Objs
    BY DEF CountInv, TypeOK
  <2>5. ASSUME NEW x \in Objects
        PROVE  ctx'[x] \in Objs
    <3>1. CASE x = p
      BY <1>7, <2>1, <3>1
    <3>2. CASE x # p /\ x = r
      BY <1>7, <2>3, <3>2
    <3>3. CASE x # p /\ x # r
      BY <1>7, <2>4, <3>3
    <3>. QED
      BY <3>1, <3>2, <3>3
  <2>. QED
    BY <1>7, <2>5
<1>9. /\ Shrinks /\ p \notin live'
      /\ live' = IF LastReference(r) THEN live \ {p, r} ELSE live \ {p}
  <2>1. CASE LastReference(r)
    <3>1. {h, ctx[r].handle} \in SUBSET Handles
          /\ {p, r} = {map[x] : x \in {h, ctx[r].handle}}
      BY <1>3
    <3>2. DestroyContexts(t, {h, ctx[r].handle})
      BY <2>1
    <3>3. Shrinks /\ live' = live \ {p, r}
      BY <1>8, <3>1, <3>2, DestroyContextsShrinks
    <3>. QED
      BY <2>1, <3>3
  <2>2. CASE ~LastReference(r)
    <3>1. {h} \in SUBSET Handles /\ {p} = {map[x] : x \in {h}}
      OBVIOUS
    <3>2. DestroyContexts(t, {h})
      BY <2>2
    <3>3. Shrinks /\ live' = live \ {p}
      BY <1>8, <3>1, <3>2, DestroyContextsShrinks
    <3>. QED
      BY <2>2, <3>3
  <2>. QED
    BY <2>1, <2>2
<1>10. \A x \in live' :
         /\ x \in live /\ x \in Objects /\ x # p
         /\ ctx'[x].shared = ctx[x].shared /\ ctx'[x].handle = ctx[x].handle
         /\ ctx'[x].deleted = ctx[x].deleted
         /\ ctx'[x].ref = IF x = r THEN ctx[x].ref - 1 ELSE ctx[x].ref
  <2>. SUFFICES ASSUME NEW x \in live'
                PROVE  /\ x \in live /\ x \in Objects /\ x # p
                       /\ ctx'[x].shared = ctx[x].shared
                       /\ ctx'[x].handle = ctx[x].handle
                       /\ ctx'[x].deleted = ctx[x].deleted
                       /\ ctx'[x].ref = IF x = r THEN ctx[x].ref - 1 ELSE ctx[x].ref
    OBVIOUS
  <2>1. x \in live /\ x \in Objects /\ x # p
    BY <1>1, <1>9
  <2>2. ctx'[x] = IF x = r THEN [ctx[r] EXCEPT !.ref = @ - 1] ELSE ctx[x]
    BY <1>7, <2>1
  <2>. QED
    <3>1. CASE x = r
      <4>1. ctx'[x] = [ctx[r] EXCEPT !.ref = @ - 1]
        BY <2>2, <3>1, Zenon
      <4>2. /\ ctx'[x].shared = ctx[r].shared /\ ctx'[x].handle = ctx[r].handle
            /\ ctx'[x].deleted = ctx[r].deleted /\ ctx'[x].ref = ctx[r].ref - 1
        BY <1>2, <4>1, RefDown, Zenon
      <4>. QED
        BY <2>1, <3>1, <4>2, Zenon
    <3>2. CASE x # r
      <4>1. ctx'[x] = ctx[x]
        BY <2>2, <3>2, Zenon
      <4>2. ctx'[x].ref = IF x = r THEN ctx[x].ref - 1 ELSE ctx[x].ref
        BY <3>2, <4>1
      <4>. QED
        BY <2>1, <4>1, <4>2, Zenon
    <3>. QED
      BY <3>1, <3>2, Zenon
<1>11. ASSUME NEW x \in live'
       PROVE  /\ Sharing(x)' = IF x = r THEN Sharing(r) \ {p} ELSE Sharing(x)
              /\ ctx[x].shared \in live' /\ IsRoot(ctx[x].shared)
              /\ IsRoot(x)' <=> IsRoot(x)
  <2>1. ctx[x].shared \in live /\ IsRoot(ctx[x].shared) /\ x \in live
    BY <1>10 DEF CountInv, SharesAreCounted, Counted
  <2>2. ctx[x].shared # p
    BY <1>2, <2>1 DEF IsRoot
  <2>3. LastReference(r) => ctx[x].shared # r
    <3>. SUFFICES ASSUME LastReference(r), ctx[x].shared = r PROVE FALSE
      BY Zenon
    <3>1. x # r /\ x # p /\ x \in live
      BY <1>9, <1>10, Zenon
    <3>2. x \in Sharing(r)
      BY <3>1, Zenon DEF Sharing
    <3>. QED
      BY <1>6, <3>1, <3>2, Zenon
  <2>4. ctx[x].shared \in live'
    BY <1>9, <2>1, <2>2, <2>3
  <2>5. r \notin Sharing(x)
    BY <1>2 DEF Sharing, IsRoot
  <2>6. Sharing(x)' = {y \in live' \ {x} : ctx[y].shared = x}
    BY <1>10, ZenonT(60) DEF Sharing
  <2>7. Sharing(x)' = Sharing(x) \ {p}
    BY <1>9, <2>5, <2>6, ZenonT(60) DEF Sharing
  <2>8. x # r => p \notin Sharing(x)
    BY DEF Sharing
  <2>9. IsRoot(x)' <=> IsRoot(x)
    BY <1>10 DEF IsRoot
  <2>10. Sharing(x)' = IF x = r THEN Sharing(r) \ {p} ELSE Sharing(x)
    BY <2>7, <2>8
  <2>. QED
    BY <2>1, <2>4, <2>9, <2>10
<1>12. ASSUME NEW x \in live'
       PROVE  Counted(x)'
  <2>1. Counted(x) /\ ctx'[x].shared = ctx[x].shared /\ ctx[x].shared \in live'
    BY <1>10, <1>11 DEF CountInv, SharesAreCounted
  <2>2. ctx'[ctx'[x].shared].shared = ctx'[x].shared
    BY <1>10, <1>11, <2>1, ZenonT(60) DEF IsRoot
  <2>3. CASE x # r
    <3>1. /\ ctx'[x].ref = ctx[x].ref /\ ctx'[x].deleted = ctx[x].deleted
          /\ Sharing(x)' = Sharing(x)
      BY <1>10, <1>11, <2>3
    <3>. QED
      BY <2>1, <2>2, <3>1 DEF Counted, IsRoot
  <2>4. CASE x = r
    <3>1. ctx'[r].ref = Cardinality(Sharing(r)')
                          + IF ctx'[r].deleted THEN 0 ELSE 1
      <4>1. /\ ctx'[r].ref = ctx[r].ref - 1 /\ ctx'[r].deleted = ctx[r].deleted
            /\ Sharing(r)' = Sharing(r) \ {p}
        BY <1>10, <1>11, <2>4
      <4>2. Cardinality(Sharing(r)') = Cardinality(Sharing(r)) - 1
        BY <1>5, <4>1
      <4>3. PICK n, k, d : /\ n = Cardinality(Sharing(r)) /\ k = Cardinality(Sharing(r)')
                           /\ d = IF ctx[r].deleted THEN 0 ELSE 1
        OBVIOUS
      <4>4. ctx[r].ref = n + d /\ k = n - 1 /\ n \in Nat /\ d \in {0, 1}
        BY <1>4, <1>5, <4>2, <4>3
      <4>5. ctx'[r].ref = (n + d) - 1
        BY <4>1, <4>4
      <4>6. (n + d) - 1 = k + d
        BY <4>4
      <4>7. d = IF ctx'[r].deleted THEN 0 ELSE 1
        BY <4>1, <4>3, Zenon
      <4>. QED
        BY <4>3, <4>5, <4>6, <4>7, Zenon
    <3>2. IsRoot(r)'
      BY <1>2, <1>11, <2>4
    <3>. QED
      BY <2>1, <2>2, <2>4, <3>1, <3>2 DEF Counted, IsRoot
  <2>. QED
    BY <2>3, <2>4
<1>13. \A x \in live' : Sharing(x)' \subseteq Sharing(x)
  BY <1>11
<1>14. \A x \in Handles : map'[x] = map[x] /\ map[x] # 0 => map[x] \in live'
  <2>. SUFFICES ASSUME NEW x \in Handles
                PROVE  map'[x] = map[x] /\ map[x] # 0 => map[x] \in live'
    BY Zenon
  <2>1. PICK hs : /\ DestroyContexts(t, hs) /\ h \in hs
                  /\ LastReference(r) => ctx[r].handle \in hs
    <3>1. CASE LastReference(r)
      <4>1. DestroyContexts(t, {h, ctx[r].handle})
        BY <3>1
      <4>2. h \in {h, ctx[r].handle} /\ ctx[r].handle \in {h, ctx[r].handle}
        OBVIOUS
      <4>. WITNESS {h, ctx[r].handle}
      <4>. QED
        BY <4>1, <4>2
    <3>2. CASE ~LastReference(r)
      <4>1. DestroyContexts(t, {h})
        BY <3>2
      <4>. QED
        BY <3>2, <4>1, Zenon
    <3>. QED
      BY <3>1, <3>2, Zenon
  <2>2. map'[x] = IF x \in hs THEN 0 ELSE map[x]
    BY <2>1, Zenon DEF DestroyContexts
  <2>3. map[x] # 0 => map[x] \in live /\ ctx[map[x]].handle = x
    BY Zenon DEF CountInv, MapOK
  <2>4. map'[x] = map[x] /\ map[x] # 0 => x \notin hs
    BY <2>2, Zenon
  <2>5. x \notin hs /\ map[x] # 0 => map[x] \in live'
    <3>. SUFFICES ASSUME x \notin hs, map[x] # 0 PROVE map[x] \in live'
      BY Zenon
    <3>1. map[x] # p
      <4>1. ctx[p].handle = h
        BY <1>1, Zenon DEF CountInv, MapOK
      <4>. QED
        BY <2>1, <2>3, <4>1, Zenon
    <3>2. LastReference(r) => map[x] # r
      BY <2>1, <2>3, Zenon
    <3>. QED
      BY <1>9, <2>3, <3>1, <3>2, Zenon
  <2>. QED
    BY <2>4, <2>5, Zenon
<1>15. MapOK'
  BY <1>9, <1>10, <1>13, <1>14, MapShrinks
<1>16. ctx[r].deleted /\ ~LastReference(r) => Sharing(r) \ {p} # {}
  <2>. SUFFICES ASSUME ctx[r].deleted, ~LastReference(r) PROVE Sharing(r) \ {p} # {}
    OBVIOUS
  <2>1. ctx[r].ref = Cardinality(Sharing(r)) + 0 /\ ctx[r].ref > 1
    BY <1>2, <1>4 DEF LastReference, Objs
  <2>2. Cardinality(Sharing(r) \ {p}) # 0
    BY <1>5, <2>1
  <2>. QED
    BY <2>2, FS_EmptySet, Zenon
<1>17. LastReference(r) => ctx[r].deleted
  <2>. SUFFICES ASSUME LastReference(r), ~ctx[r].deleted PROVE FALSE
    OBVIOUS
  <2>1. ctx[r].ref = Cardinality(Sharing(r)) + 1 /\ ctx[r].ref <= 1
    BY <1>4 DEF LastReference
  <2>. QED
    BY <1>5, <2>1
<1>18. Drops(p)
  <2>1. \A x \in live' : ctx[x].deleted /\ Sharing(x) # {} => Sharing(x)' # {}
    <3>. TAKE x \in live'
    <3>1. CASE x = r
      BY <1>9, <1>11, <1>16, <3>1
    <3>2. CASE x # r
      BY <1>11, <3>2
    <3>. QED
      BY <3>1, <3>2
  <2>2. \A x \in live \ live' : x = p \/ ctx[x].deleted
    BY <1>9, <1>17
  <2>. QED
    BY <1>9, <1>10, <2>1, <2>2 DEF Drops
<1>. QED
  BY <1>9, <1>12, <1>15, <1>18 DEF SharesAreCounted

\* The bookkeeping of glXDestroyContext.
LEMMA DestroyBookCounts ==
  ASSUME CountInv, NEW t \in Threads, DestroyBook(t)
  PROVE  CountInv'
<1>0. PICK p, h : p = call[t].p /\ h = call[t].h
  OBVIOUS
<1>1. /\ At(t, "destroy_book") /\ h \in Handles /\ p \in live \union {0}
      /\ p \in live => map[h] = p
      /\ UNCHANGED <<app, driver>> /\ call' = [call EXCEPT ![t] = Idle]
  BY <1>0 DEF DestroyBook, Return, CountInv, DestroyOK
<1>2. Shrinks /\ SharesAreCounted' /\ MapOK'
  <2>1. CASE p = 0 \/ Gone(p)
    <3>1. UNCHANGED shadow
      BY <1>0, <2>1 DEF DestroyBook
    <3>. QED
      BY <3>1, CountKept DEF shadow, CountInv, TypeOK, Shrinks
  <2>2. CASE ~(p = 0 \/ Gone(p))
    <3>1. DropReference(t, p) /\ p \in live /\ ~ctx[p].deleted /\ map[h] = p
      BY <1>0, <1>1, <2>2 DEF DestroyBook, Gone
    <3>. QED
      BY <1>0, <1>1, <3>1, DropKeepsRoot, DropFreesRoot, DropFreesShare
         DEF DropReference
  <2>. QED
    BY <2>1, <2>2
<1>3. call' \in [Threads -> CallsOK] /\ call'[t].at = "idle"
      /\ (\A u \in Threads \ {t} : call'[u] = call[u])
  BY <1>1, IdleType DEF CountInv, TypeOK, Idle
<1>4. TypeOK'
  BY <1>1, <1>2, <1>3 DEF CountInv, TypeOK, Shrinks, driver
<1>5. PendingFresh' /\ Pending' = Pending
  BY <1>1, <1>2, <1>3, PendingKept DEF Shrinks, At, driver
<1>6. DestroyOK'
  <2>. SUFFICES ASSUME NEW u \in Threads,
                       At(u, "destroy")' \/ At(u, "destroy_book")'
                PROVE  /\ call'[u].h \in Handles
                       /\ call'[u].p \in (1..made) \union {0}
                       /\ call'[u].p \notin Pending
                       /\ call'[u].p \in live' => map'[call'[u].h] = call'[u].p
    BY <1>1, <1>5 DEF DestroyOK, driver
  <2>1. u # t /\ call'[u] = call[u] /\ (At(u, "destroy") \/ At(u, "destroy_book"))
    BY <1>3 DEF At
  <2>. QED
    BY <1>2, <2>1 DEF CountInv, DestroyOK, Shrinks
<1>. QED
  BY <1>2, <1>4, <1>5, <1>6 DEF CountInv

\* The invariant is inductive.
LEMMA CountNext == CountInv /\ [Next]_vars => CountInv'
<1>. SUFFICES ASSUME CountInv, [Next]_vars PROVE CountInv'
  OBVIOUS
<1>1. CASE UNCHANGED vars
  <2>1. /\ UNCHANGED <<app, alive, current, group, made>>
        /\ UNCHANGED <<ctx, live, map, tls, call>>
    BY <1>1 DEF vars, driver, shadow
  <2>2. TypeOK'
    BY <2>1 DEF CountInv, TypeOK
  <2>3. SharesAreCounted' /\ MapOK'
    BY <2>1, CountKept DEF CountInv, TypeOK
  <2>4. Pending' = Pending
    BY <2>1 DEF Pending, At
  <2>5. PendingFresh' /\ DestroyOK'
    BY <2>1, <2>4 DEF CountInv, PendingFresh, DestroyOK, At
  <2>. QED
    BY <2>2, <2>3, <2>5 DEF CountInv
<1>2. CASE Next
  BY <1>2, CreateCounts, MoveCounts, MCBookCounts, CreateBookCounts,
     DestroyBookCounts DEF Next
<1>. QED
  BY <1>1, <1>2

\* Whatever threads create, destroy and share, and whatever handles the driver
\* gives out, every share group counts its contexts and keeps its root.
THEOREM SharesCounted == Spec => [](TypeOK /\ SharesAreCounted)
<1>1. CountInv => TypeOK /\ SharesAreCounted
  BY DEF CountInv
<1>. QED
  BY CountInit, CountNext, <1>1, PTL DEF Spec

-----------------------------------------------------------------------------
(* Handles, objects and the driver's contexts.                               *)

\* A context that exists and is in the map, its creation being over.
Booked(h) == h \in alive /\ \A u \in Threads : At(u, "create") => call[u].h # h

\* It is known by an object that is the driver's share group or in it: objects and
\* the driver's groups have the same numbers.
BookedOK ==
  \A h \in Handles : Booked(h) =>
    map[h] \in live /\ ~ctx[map[h]].deleted /\ ctx[map[h]].shared = group[h]

\* A context that is being created has no object so far, its share context has.
CreatesOK ==
  \A u \in Threads : At(u, "create") =>
    /\ call[u].h \in alive /\ map[call[u].h] = 0
    /\ group[call[u].h] = IF call[u].share = NoHandle THEN call[u].p ELSE group[call[u].share]
    /\ \A k \in Handles : call[u].share = k => Booked(k)

\* The object of a context that is being destroyed is the one the call has found.
DestroysOK ==
  \A u \in Threads :
    /\ At(u, "destroy") => call[u].h \in alive /\ call[u].p = map[call[u].h]
    /\ At(u, "destroy_book") =>
         /\ call[u].h \in Handles \ alive /\ call[u].p = map[call[u].h]
         /\ call[u].p \in live /\ ~ctx[call[u].p].deleted

\* No other call uses a context that is being created or destroyed.
Alone ==
  \A u, v \in Threads : u # v /\ call[u].at \in {"create", "destroy", "destroy_book"} =>
    call[v].h # call[u].h /\ call[v].share # call[u].h

\* What an object is allocated for.
LiveOK ==
  \A o \in live :
    /\ ctx[o].handle \in Handles /\ map[ctx[o].handle] = o
    /\ IF ctx[o].deleted THEN Sharing(o) # {}
       ELSE ctx[o].handle \in alive \/ \E u \in Threads : At(u, "destroy_book") /\ call[u].p = o

SharesIdle == \A u \in Threads : ~At(u, "create") => call[u].share = NoHandle

Handled == BookedOK /\ CreatesOK /\ DestroysOK /\ Alone /\ LiveOK /\ SharesIdle

HandleInv == ~app.reuse => Handled

Held(h) == h = NoHandle \/ Usable(h)

\* No call creates or destroys what is current somewhere, was so before a call or is
\* being made so; and the thread's object is the one of the context that is current,
\* or was when the call began.
ThreadOK(u) ==
  /\ \A x \in Handles : current[u] = x \/ call[u].was = x => Usable(x)
  /\ call[u].at \in {"mc_driver", "mc_book"} =>
       /\ \A x \in Handles : call[u].h = x => Usable(x)
       /\ call[u].p = Lookup(call[u].h)
       /\ tls[u] = Lookup(call[u].was) /\ call[u].cur = tls[u]
       /\ current[u] = IF At(u, "mc_book") /\ call[u].ok THEN call[u].h ELSE call[u].was
  /\ call[u].at \notin {"mc_driver", "mc_book"} =>
       tls[u] = Lookup(current[u]) /\ call[u].cur = 0
  /\ At(u, "idle") => call[u].p = 0

ThreadInv == Careful => \A u \in Threads : ThreadOK(u)

ResolveInv == CountInv /\ HandleInv /\ ThreadInv

\* The states at which a call creates or destroys a context.
Exclusive(u) == call[u].at \in {"create", "destroy", "destroy_book"}

\* The fields of a thread that is in no call.
LEMMA IdleFields ==
  /\ Idle.at = "idle" /\ Idle.h = NoHandle /\ Idle.share = NoHandle
  /\ Idle.was = NoHandle /\ Idle.p = 0 /\ Idle.cur = 0
  BY DEF Idle

\* A step moves one call.
LEMMA CallMoves ==
  ASSUME CountInv, NEW t \in Threads, NEW c, call' = [call EXCEPT ![t] = c]
  PROVE  call'[t] = c /\ \A u \in Threads \ {t} : call'[u] = call[u]
  BY DEF CountInv, TypeOK

\* Initially there is neither an object nor a call.
LEMMA ResolveInit == Init => ResolveInv
<1>. SUFFICES ASSUME Init PROVE ResolveInv
  OBVIOUS
<1>1. \A u \in Threads : call[u] = Idle /\ current[u] = NoHandle /\ tls[u] = 0
  BY DEF Init
<1>2. Handled
  BY <1>1, IdleFields DEF Init, Handled, BookedOK, CreatesOK, DestroysOK, Alone, LiveOK,
     SharesIdle, Booked, At
<1>3. \A u \in Threads : ThreadOK(u)
  BY <1>1, IdleFields, ContextAssumption DEF ThreadOK, Lookup, At
<1>. QED
  BY <1>2, <1>3, CountInit DEF ResolveInv, HandleInv, ThreadInv

\* The handles of calls that create and destroy are contexts' handles.
LEMMA ExclusiveHandle ==
  ASSUME CountInv, Handled, NEW u \in Threads, Exclusive(u)
  PROVE  call[u].h \in Handles /\ call[u].h # NoHandle
<1>1. alive \subseteq Handles /\ NoHandle \notin Handles
  BY ContextAssumption DEF CountInv, TypeOK
<1>2. call[u].h \in Handles
  BY <1>1 DEF Handled, CreatesOK, DestroysOK, Exclusive, At
<1>. QED
  BY <1>1, <1>2

\* What the application may use is booked and in no call that creates or destroys.
LEMMA UsableBooked ==
  ASSUME Handled, NEW h, Usable(h)
  PROVE  Booked(h) /\ \A u \in Threads : Exclusive(u) => call[u].h # h
<1>1. Booked(h)
  BY DEF Usable, Booked, At
<1>2. \A u \in Threads : At(u, "destroy_book") => call[u].h \notin alive
  BY DEF Handled, DestroysOK
<1>. QED
  BY <1>1, <1>2 DEF Usable, Exclusive, At

\* A context that is being destroyed is booked until the driver has destroyed it.
LEMMA DestroyBooked ==
  ASSUME Handled, NEW u \in Threads, At(u, "destroy")
  PROVE  Booked(call[u].h)
<1>1. call[u].h \in alive
  BY DEF Handled, DestroysOK
<1>2. \A v \in Threads : At(v, "create") => call[v].h # call[u].h
  BY DEF Handled, Alone, At
<1>. QED
  BY <1>1, <1>2 DEF Booked

\* A step of a call that neither creates nor destroys keeps what is known of handles.
LEMMA HandlesKept ==
  ASSUME CountInv, Handled, NEW t \in Threads,
         alive' = alive, group' = group, live' = live, map' = map,
         \A o \in Objects : /\ ctx'[o].handle = ctx[o].handle
                            /\ ctx'[o].deleted = ctx[o].deleted
                            /\ ctx'[o].shared = ctx[o].shared,
         \A u \in Threads \ {t} : call'[u] = call[u],
         ~Exclusive(t), ~Exclusive(t)', call'[t].share = NoHandle,
         call'[t].h = call[t].h \/ Held(call'[t].h)
  PROVE  Handled'
<1>1. live \subseteq Objects
  BY DEF CountInv, TypeOK
<1>2. \A u \in Threads : Exclusive(u)' => u # t /\ Exclusive(u) /\ call'[u] = call[u]
  BY DEF Exclusive
<1>3. \A u \in Threads : u # t => call'[u] = call[u]
  OBVIOUS
<1>4. \A h : Booked(h)' <=> Booked(h)
  BY <1>3 DEF Booked, At, Exclusive
<1>5. \A o \in live : Sharing(o)' = Sharing(o)
  BY <1>1 DEF Sharing
<1>6. BookedOK'
  BY <1>1, <1>4, <1>5 DEF Handled, BookedOK
<1>7. CreatesOK'
  BY <1>2, <1>4 DEF Handled, CreatesOK, Exclusive, At
<1>8. DestroysOK'
  BY <1>1, <1>2 DEF Handled, DestroysOK, Exclusive, At
<1>9. ASSUME NEW u \in Threads, NEW v \in Threads, u # v, Exclusive(u)'
      PROVE  call'[v].h # call'[u].h /\ call'[v].share # call'[u].h
  <2>1. u # t /\ Exclusive(u) /\ call'[u] = call[u]
    BY <1>2, <1>9
  <2>2. call[v].h # call[u].h /\ call[v].share # call[u].h
    BY <1>9, <2>1 DEF Handled, Alone, Exclusive
  <2>3. CASE v = t
    <3>1. call[u].h # NoHandle
      BY <2>1, ExclusiveHandle
    <3>2. Held(call'[t].h) => call'[t].h # call[u].h
      BY <2>1, <3>1, UsableBooked DEF Held
    <3>. QED
      BY <2>1, <2>2, <2>3, <3>1, <3>2
  <2>4. CASE v # t
    BY <2>1, <2>2, <2>4, <1>3
  <2>. QED
    BY <2>3, <2>4
<1>10. Alone'
  BY <1>9 DEF Alone, Exclusive
<1>11. \A o : (\E u \in Threads : At(u, "destroy_book") /\ call[u].p = o)
           => (\E u \in Threads : At(u, "destroy_book")' /\ call'[u].p = o)
  BY <1>3 DEF Exclusive, At
<1>12. LiveOK'
  BY <1>1, <1>5, <1>11 DEF Handled, LiveOK
<1>13. SharesIdle'
  BY <1>3 DEF Handled, SharesIdle, At
<1>. QED
  BY <1>6, <1>7, <1>8, <1>10, <1>12, <1>13 DEF Handled

\* The driver's context has a new handle, in the group of its share context.
LEMMA CreateHandles ==
  ASSUME CountInv, Handled, ~app.reuse, NEW t \in Threads, Create(t)
  PROVE  Handled'
<1>1. PICK h \in Handles \ alive, s \in {NoHandle} \union {x \in alive : Usable(x)} :
        /\ map[h] = 0 /\ (\A u \in Threads : call[u].h # h)
        /\ group' = [group EXCEPT ![h] = IF s = NoHandle THEN made + 1 ELSE group[s]]
        /\ alive' = alive \union {h}
        /\ call' = [call EXCEPT ![t] = [Idle EXCEPT !.at = "create", !.h = h,
                                          !.share = s, !.p = made + 1]]
  BY DEF Create
<1>2. /\ call'[t].at = "create" /\ call'[t].h = h /\ call'[t].share = s
      /\ call'[t].p = made + 1 /\ (\A u \in Threads \ {t} : call'[u] = call[u])
  <2>1. [Idle EXCEPT !.at = "create", !.h = h, !.share = s, !.p = made + 1].at = "create"
        /\ [Idle EXCEPT !.at = "create", !.h = h, !.share = s, !.p = made + 1].h = h
        /\ [Idle EXCEPT !.at = "create", !.h = h, !.share = s, !.p = made + 1].share = s
        /\ [Idle EXCEPT !.at = "create", !.h = h, !.share = s, !.p = made + 1].p = made + 1
    BY DEF Idle
  <2>. QED
    BY <1>1, <2>1, CallMoves
<1>3. /\ live' = live /\ map' = map /\ ctx' = ctx /\ call[t].at = "idle"
      /\ alive \subseteq Handles /\ NoHandle \notin Handles /\ h # NoHandle
  BY <1>1, ContextAssumption DEF Create, shadow, CountInv, TypeOK, At
<1>4. \A u \in Threads : u # t => call'[u] = call[u]
  BY <1>2
<1>5. \A x : x # h => (Booked(x)' <=> Booked(x))
  BY <1>1, <1>2, <1>3, <1>4 DEF Booked, At
<1>6. ~Booked(h)' /\ \A x : Booked(x) => x # h
  BY <1>1, <1>2 DEF Booked, At
<1>7. \A x \in Handles : x # h => group'[x] = group[x]
  BY <1>1 DEF CountInv, TypeOK
<1>8. \A x : Sharing(x)' = Sharing(x)
  BY <1>3 DEF Sharing
<1>9. BookedOK'
  BY <1>3, <1>5, <1>6, <1>7, <1>8 DEF Handled, BookedOK
<1>10. group'[h] = IF s = NoHandle THEN made + 1 ELSE group'[s]
  BY <1>1, <1>3, <1>7 DEF CountInv, TypeOK
<1>11. s # NoHandle => Booked(s)' /\ Booked(s)
  BY <1>1, <1>5, <1>6, UsableBooked
<1>12. ASSUME NEW u \in Threads, At(u, "create")'
       PROVE  /\ call'[u].h \in alive' /\ map'[call'[u].h] = 0
              /\ group'[call'[u].h] = IF call'[u].share = NoHandle THEN call'[u].p
                                      ELSE group'[call'[u].share]
              /\ \A k \in Handles : call'[u].share = k => Booked(k)'
  <2>1. CASE u = t
    BY <1>1, <1>2, <1>3, <1>10, <1>11, <2>1
  <2>2. CASE u # t
    <3>1. call'[u] = call[u] /\ At(u, "create") /\ call[u].h # h
      BY <1>1, <1>4, <1>12, <2>2 DEF At
    <3>2. /\ call[u].h \in alive /\ map[call[u].h] = 0
          /\ group[call[u].h] = IF call[u].share = NoHandle THEN call[u].p
                                ELSE group[call[u].share]
          /\ \A k \in Handles : call[u].share = k => Booked(k)
      BY <3>1 DEF Handled, CreatesOK
    <3>3. call[u].share # NoHandle => call[u].share \in Handles /\ call[u].share # h
      BY <1>6, <3>2 DEF CountInv, TypeOK, CallsOK
    <3>. QED
      <4>1. \A k \in Handles : call'[u].share = k => Booked(k)'
        BY <1>5, <1>6, <3>1, <3>2
      <4>2. call[u].h \in Handles /\ map'[call[u].h] = 0
        BY <1>3, <3>2
      <4>3. /\ group'[call[u].h] = group[call[u].h]
            /\ call[u].share # NoHandle => group'[call[u].share] = group[call[u].share]
        BY <1>7, <3>1, <3>3, <4>2
      <4>4. call[u].h \in alive'
        BY <1>1, <3>2
      <4>5. group'[call[u].h] = IF call[u].share = NoHandle THEN call[u].p
                                ELSE group'[call[u].share]
        BY <3>2, <4>3
      <4>6. call'[u] = call[u]
        BY <3>1
      <4>. QED
        BY ONLY <4>1, <4>2, <4>4, <4>5, <4>6
  <2>. QED
    BY <2>1, <2>2
<1>13. CreatesOK'
  BY <1>12 DEF CreatesOK
<1>14. DestroysOK'
  BY <1>1, <1>2, <1>3, <1>4 DEF Handled, DestroysOK, At
<1>15. ASSUME NEW u \in Threads, NEW v \in Threads, u # v, Exclusive(u)'
       PROVE  call'[v].h # call'[u].h /\ call'[v].share # call'[u].h
  <2>1. CASE u = t
    <3>1. call'[v] = call[v] /\ call[v].h # h
      BY <1>1, <1>4, <1>15, <2>1
    <3>2. call[v].share # h
      BY <1>3, <1>6 DEF Handled, CreatesOK, SharesIdle
    <3>. QED
      BY <1>2, <2>1, <3>1, <3>2
  <2>2. CASE u # t
    <3>1. call'[u] = call[u] /\ Exclusive(u)
      BY <1>4, <1>15, <2>2 DEF Exclusive
    <3>2. CASE v = t
      <4>1. call[u].h # NoHandle /\ call[u].h # h
        BY <1>1, <3>1, ExclusiveHandle
      <4>2. s # NoHandle => call[u].h # s
        BY <1>1, <3>1, UsableBooked
      <4>. QED
        BY <1>2, <3>1, <3>2, <4>1, <4>2
    <3>3. CASE v # t
      BY <1>4, <1>15, <3>1, <3>3 DEF Handled, Alone, Exclusive
    <3>. QED
      BY <3>2, <3>3
  <2>. QED
    BY <2>1, <2>2
<1>16. Alone'
  BY <1>15 DEF Alone, Exclusive
<1>17. \A o : (\E u \in Threads : At(u, "destroy_book") /\ call[u].p = o)
           => (\E u \in Threads : At(u, "destroy_book")' /\ call'[u].p = o)
  BY <1>3, <1>4 DEF At
<1>18. LiveOK'
  BY <1>1, <1>3, <1>8, <1>17 DEF Handled, LiveOK
<1>19. SharesIdle'
  BY <1>2, <1>4 DEF Handled, SharesIdle, At
<1>. QED
  BY <1>9, <1>13, <1>14, <1>16, <1>18, <1>19 DEF Handled

\* What the bookkeeping of a creation writes.
LEMMA CreateBookFields ==
  ASSUME CountInv, Handled, NEW t \in Threads, CreateBook(t)
  PROVE  LET h == call[t].h
             o == call[t].p
             s == call[t].share
         IN  /\ h \in Handles /\ h \in alive /\ map[h] = 0
             /\ o \in Objects /\ o \notin live
             /\ live' = live \union {o} /\ map'[h] = o
             /\ \A x \in Handles : x # h => map'[x] = map[x]
             /\ \A x \in Objects : x # o => /\ ctx'[x].handle = ctx[x].handle
                                            /\ ctx'[x].deleted = ctx[x].deleted
                                            /\ ctx'[x].shared = ctx[x].shared
             /\ ctx'[o].handle = h /\ ~ctx'[o].deleted
             /\ ctx'[o].shared = IF s = NoHandle THEN o ELSE Root(map[s])
             /\ s # NoHandle => Root(map[s]) \in live
             /\ \A u \in Threads \ {t} : call'[u] = call[u]
             /\ call'[t] = Idle
<1>. DEFINE h == call[t].h
            o == call[t].p
            s == call[t].share
<1>1. At(t, "create") /\ s \in Handles \union {NoHandle}
  BY DEF CreateBook, CountInv, TypeOK, CallsOK
<1>2. /\ h \in alive /\ map[h] = 0 /\ (s # NoHandle => Booked(s))
  BY <1>1 DEF Handled, CreatesOK
<1>3. h \in Handles /\ o \in Objects /\ o \notin live /\ live \subseteq Objects
  <2>1. o \in Pending
    BY <1>1 DEF Pending
  <2>2. h \in Handles /\ o \notin live /\ o \in 1..made
    BY <1>1, <2>1 DEF CountInv, PendingFresh
  <2>3. made \in Nat /\ made <= MaxContexts
    BY ContextAssumption DEF CountInv, TypeOK, Pointers
  <2>. QED
    BY <2>2, <2>3, ContextAssumption DEF Objects, CountInv, TypeOK
<1>4. /\ s = NoHandle => Lookup(s) = 0
      /\ s # NoHandle => Lookup(s) = map[s] /\ map[s] \in live /\ map[s] # 0
  <2>1. 0 \notin Objects
    BY DEF Objects
  <2>2. s # NoHandle => map[s] \in live
    BY <1>1, <1>2 DEF Handled, BookedOK
  <2>. QED
    BY <1>3, <2>1, <2>2 DEF Lookup
<1>5. s # NoHandle => /\ Root(map[s]) \in live /\ Root(map[s]) \in Objects
                      /\ Root(map[s]) # o
  <2>1. s # NoHandle => Root(Lookup(s)) \in live /\ Root(Lookup(s)) \in Objects
    BY <1>1, <1>4, RootOfGroup
  <2>. QED
    BY <1>3, <1>4, <2>1
<1>6. /\ live' = live \union {o}
      /\ map' = [map EXCEPT ![h] = IF @ = 0 THEN o ELSE @]
      /\ call' = [call EXCEPT ![t] = Idle]
  BY DEF CreateBook, Return
<1>7. map'[h] = o /\ \A x \in Handles : x # h => map'[x] = map[x]
  BY <1>2, <1>3, <1>6 DEF CountInv, TypeOK
<1>8. /\ Fresh(o, h).handle = h /\ Fresh(o, h).shared = o /\ ~Fresh(o, h).deleted
      /\ \A r : /\ [Fresh(o, h) EXCEPT !.shared = r].handle = h
                /\ [Fresh(o, h) EXCEPT !.shared = r].shared = r
                /\ ~[Fresh(o, h) EXCEPT !.shared = r].deleted
  BY DEF Fresh
<1>9. /\ \A x \in Objects : x # o => /\ ctx'[x].handle = ctx[x].handle
                                     /\ ctx'[x].deleted = ctx[x].deleted
                                     /\ ctx'[x].shared = ctx[x].shared
      /\ ctx'[o].handle = h /\ ~ctx'[o].deleted
      /\ ctx'[o].shared = IF s = NoHandle THEN o ELSE Root(map[s])
  <2>1. CASE s = NoHandle
    <3>1. ctx' = [ctx EXCEPT ![o] = Fresh(o, h)]
      BY <1>4, <2>1 DEF CreateBook
    <3>. QED
      BY <1>3, <1>8, <2>1, <3>1 DEF CountInv, TypeOK
  <2>2. CASE s # NoHandle
    <3>. DEFINE r == Root(map[s])
                c == [Fresh(o, h) EXCEPT !.shared = r]
    <3>1. ctx' = [ctx EXCEPT ![o] = c, ![r].ref = @ + 1]
      BY <1>4, <2>2 DEF CreateBook
    <3>2. r \in Objects /\ r # o /\ c.handle = h /\ c.shared = r /\ ~c.deleted
      BY <1>5, <1>8, <2>2
    <3>3. ctx[r] \in Objs
      BY <3>2 DEF CountInv, TypeOK
    <3>4. [ctx[r] EXCEPT !.ref = @ + 1].handle = ctx[r].handle
          /\ [ctx[r] EXCEPT !.ref = @ + 1].deleted = ctx[r].deleted
          /\ [ctx[r] EXCEPT !.ref = @ + 1].shared = ctx[r].shared
      BY <3>3 DEF Objs
    <3>5. ctx \in [Objects -> Objs]
      BY DEF CountInv, TypeOK
    <3>. HIDE DEF c, r
    <3>6. ctx'[o] = c /\ ctx'[r] = [ctx[r] EXCEPT !.ref = @ + 1]
          /\ \A x \in Objects : x # o /\ x # r => ctx'[x] = ctx[x]
      BY <1>3, <3>1, <3>2, <3>5
    <3>7. \A x \in Objects : x # o => /\ ctx'[x].handle = ctx[x].handle
                                     /\ ctx'[x].deleted = ctx[x].deleted
                                     /\ ctx'[x].shared = ctx[x].shared
      BY <3>4, <3>6
    <3>. QED
      BY <2>2, <3>2, <3>6, <3>7 DEF r
  <2>. QED
    BY <2>1, <2>2
<1>10. call'[t] = Idle /\ \A u \in Threads \ {t} : call'[u] = call[u]
  BY <1>6, CallMoves
<1>. QED
  BY <1>2, <1>3, <1>5, <1>6, <1>7, <1>9, <1>10

\* The new object is in the driver's group.
LEMMA CreateBookHandles ==
  ASSUME CountInv, Handled, NEW t \in Threads, CreateBook(t)
  PROVE  Handled'
<1>0. PICK h, o, s : h = call[t].h /\ o = call[t].p /\ s = call[t].share
  OBVIOUS
<1>1. /\ h \in Handles /\ h \in alive /\ map[h] = 0 /\ o \in Objects /\ o \notin live
      /\ live' = live \union {o} /\ map'[h] = o
      /\ \A x \in Handles : x # h => map'[x] = map[x]
  BY <1>0, CreateBookFields
<1>2. \A x \in Objects : x # o => /\ ctx'[x].handle = ctx[x].handle
                                  /\ ctx'[x].deleted = ctx[x].deleted
                                  /\ ctx'[x].shared = ctx[x].shared
  BY <1>0, CreateBookFields
<1>3. /\ ctx'[o].handle = h /\ ~ctx'[o].deleted
      /\ ctx'[o].shared = IF s = NoHandle THEN o ELSE Root(map[s])
      /\ s # NoHandle => Root(map[s]) \in live
  BY <1>0, CreateBookFields
<1>4. /\ \A u \in Threads : u # t => call'[u] = call[u]
      /\ call'[t].at = "idle" /\ call'[t].h = NoHandle /\ call'[t].share = NoHandle
  BY CreateBookFields, IdleFields
<1>5. /\ alive' = alive /\ group' = group /\ At(t, "create") /\ live \subseteq Objects
      /\ 0 \notin Objects /\ alive \subseteq Handles /\ NoHandle \notin Handles
  BY ContextAssumption DEF CreateBook, driver, CountInv, TypeOK, Objects
<1>6. \A x : x # h => (Booked(x)' <=> Booked(x))
  BY <1>0, <1>4, <1>5 DEF Booked, At
<1>7. ~Booked(h)
  BY <1>0, <1>5 DEF Booked
<1>8. \A x \in live : Sharing(x) \subseteq Sharing(x)'
  BY <1>1, <1>2, <1>5 DEF Sharing
<1>9. ctx'[o].shared = group[h]
  <2>1. /\ group[h] = IF s = NoHandle THEN o ELSE group[s]
        /\ s # NoHandle => Booked(s) /\ s \in Handles
    <3>1. /\ group[h] = IF s = NoHandle THEN o ELSE group[s]
          /\ \A k \in Handles : s = k => Booked(k)
      BY <1>0, <1>5 DEF Handled, CreatesOK
    <3>2. s \in Handles \union {NoHandle}
      BY <1>0 DEF CountInv, TypeOK, CallsOK
    <3>. QED
      BY <3>1, <3>2
  <2>2. s # NoHandle => Root(map[s]) = group[s]
    BY <2>1 DEF Handled, BookedOK, Root, IsRoot
  <2>. QED
    BY <1>1, <1>3, <2>1, <2>2
<1>10. ASSUME NEW x \in Handles, Booked(x)'
       PROVE  map'[x] \in live' /\ ~ctx'[map'[x]].deleted /\ ctx'[map'[x]].shared = group[x]
  <2>1. CASE x = h
    <3>1. map'[x] = o
      BY <1>1, <2>1
    <3>. QED
      BY <1>1, <1>3, <1>9, <2>1, <3>1
  <2>2. CASE x # h
    <3>1. map[x] \in live /\ ~ctx[map[x]].deleted /\ ctx[map[x]].shared = group[x]
      BY <1>6, <1>10, <2>2 DEF Handled, BookedOK
    <3>2. map'[x] = map[x] /\ map[x] # o /\ map[x] \in Objects
      BY <1>1, <1>5, <2>2, <3>1
    <3>. QED
      BY <1>1, <1>2, <3>1, <3>2
  <2>. QED
    BY <2>1, <2>2
<1>11. BookedOK'
  BY <1>5, <1>10 DEF BookedOK
<1>12. \A u \in Threads : Exclusive(u)' =>
          u # t /\ Exclusive(u) /\ call'[u] = call[u] /\ call[u].h # h
  BY <1>0, <1>4, <1>5 DEF Exclusive, Handled, Alone, At
<1>13. CreatesOK'
  <2>. SUFFICES ASSUME NEW u \in Threads, At(u, "create")'
                PROVE  /\ call'[u].h \in alive' /\ map'[call'[u].h] = 0
                       /\ group'[call'[u].h] = IF call'[u].share = NoHandle
                                               THEN call'[u].p ELSE group'[call'[u].share]
                       /\ \A k \in Handles : call'[u].share = k => Booked(k)'
    BY DEF CreatesOK
  <2>1. At(u, "create") /\ call'[u] = call[u] /\ call[u].h # h
    BY <1>12 DEF Exclusive, At
  <2>2. /\ call[u].h \in alive /\ map[call[u].h] = 0
        /\ group[call[u].h] = IF call[u].share = NoHandle THEN call[u].p
                              ELSE group[call[u].share]
        /\ \A k \in Handles : call[u].share = k => Booked(k)
    BY <2>1 DEF Handled, CreatesOK
  <2>3. \A k \in Handles : call[u].share = k => Booked(k)'
    BY <1>6, <1>7, <2>2
  <2>. QED
    BY <1>1, <1>5, <2>1, <2>2, <2>3
<1>14. DestroysOK'
  <2>. SUFFICES ASSUME NEW u \in Threads
                PROVE  /\ At(u, "destroy")' =>
                            call'[u].h \in alive /\ call'[u].p = map'[call'[u].h]
                       /\ At(u, "destroy_book")' =>
                            /\ call'[u].h \in Handles \ alive
                            /\ call'[u].p = map'[call'[u].h]
                            /\ call'[u].p \in live' /\ ~ctx'[call'[u].p].deleted
    BY <1>5 DEF DestroysOK
  <2>1. CASE ~Exclusive(u)'
    BY <2>1 DEF Exclusive, At
  <2>2. CASE Exclusive(u)'
    <3>1. call'[u] = call[u] /\ call[u].h # h
      BY <1>12, <2>2
    <3>2. /\ At(u, "destroy") => call[u].h \in alive /\ call[u].p = map[call[u].h]
          /\ At(u, "destroy_book") =>
               /\ call[u].h \in Handles \ alive /\ call[u].p = map[call[u].h]
               /\ call[u].p \in live /\ ~ctx[call[u].p].deleted
      BY DEF Handled, DestroysOK
    <3>. QED
      BY <1>1, <1>2, <1>5, <3>1, <3>2 DEF At
  <2>. QED
    BY <2>1, <2>2
<1>15. ASSUME NEW u \in Threads, NEW v \in Threads, u # v, Exclusive(u)'
       PROVE  call'[v].h # call'[u].h /\ call'[v].share # call'[u].h
  <2>1. call'[u] = call[u] /\ Exclusive(u) /\ call[u].h # NoHandle
    BY <1>12, <1>15, ExclusiveHandle
  <2>. QED
    BY <1>4, <1>15, <2>1 DEF Handled, Alone, Exclusive
<1>16. Alone'
  BY <1>15 DEF Alone, Exclusive
<1>17. ASSUME NEW x \in live'
       PROVE  /\ ctx'[x].handle \in Handles /\ map'[ctx'[x].handle] = x
              /\ IF ctx'[x].deleted THEN Sharing(x)' # {}
                 ELSE \/ ctx'[x].handle \in alive'
                      \/ \E u \in Threads : At(u, "destroy_book")' /\ call'[u].p = x
  <2>1. CASE x = o
    BY <1>1, <1>3, <1>5, <2>1
  <2>2. CASE x # o
    <3>1. x \in live /\ x \in Objects
      BY <1>1, <1>5, <1>17, <2>2
    <3>2. /\ ctx[x].handle \in Handles /\ map[ctx[x].handle] = x
          /\ IF ctx[x].deleted THEN Sharing(x) # {}
             ELSE \/ ctx[x].handle \in alive
                  \/ \E u \in Threads : At(u, "destroy_book") /\ call[u].p = x
      BY <3>1 DEF Handled, LiveOK
    <3>3. ctx[x].handle # h /\ map'[ctx[x].handle] = x
      BY <1>1, <1>5, <3>1, <3>2
    <3>4. \A u \in Threads : At(u, "destroy_book") => At(u, "destroy_book")' /\ call'[u] = call[u]
      BY <1>4, <1>5 DEF At
    <3>. QED
      BY <1>2, <1>5, <1>8, <2>2, <3>1, <3>2, <3>3, <3>4
  <2>. QED
    BY <2>1, <2>2
<1>18. LiveOK'
  BY <1>17 DEF LiveOK
<1>19. SharesIdle'
  BY <1>4 DEF Handled, SharesIdle, At
<1>. QED
  BY <1>11, <1>13, <1>14, <1>16, <1>18, <1>19 DEF Handled

\* A context that no call is using begins to be destroyed.
LEMMA DestroyHandles ==
  ASSUME CountInv, Handled, NEW t \in Threads, Destroy(t)
  PROVE  Handled'
<1>1. PICK h \in {x \in alive : Usable(x)} :
        /\ \A u \in Threads : At(u, "destroy_book") \/ (call[u].h # h /\ call[u].share # h)
        /\ call' = [call EXCEPT ![t] = [Idle EXCEPT !.at = "destroy", !.h = h,
                                                     !.p = Lookup(h)]]
  BY DEF Destroy
<1>2. /\ call'[t].at = "destroy" /\ call'[t].h = h /\ call'[t].share = NoHandle
      /\ call'[t].p = Lookup(h) /\ (\A u \in Threads : u # t => call'[u] = call[u])
  <2>1. LET c == [Idle EXCEPT !.at = "destroy", !.h = h, !.p = Lookup(h)]
        IN  c.at = "destroy" /\ c.h = h /\ c.share = NoHandle /\ c.p = Lookup(h)
    BY DEF Idle
  <2>. QED
    BY <1>1, <2>1, CallMoves
<1>3. /\ live' = live /\ map' = map /\ ctx' = ctx /\ alive' = alive /\ group' = group
      /\ call[t].at = "idle" /\ alive \subseteq Handles /\ NoHandle \notin Handles
  BY ContextAssumption DEF Destroy, driver, shadow, CountInv, TypeOK, At
<1>4. h \in alive /\ Booked(h) /\ (\A u \in Threads : Exclusive(u) => call[u].h # h)
  BY <1>1, UsableBooked
<1>5. Lookup(h) = map[h] /\ h # NoHandle
  BY <1>3, <1>4 DEF Lookup
<1>6. \A x : Booked(x)' <=> Booked(x)
  BY <1>2, <1>3 DEF Booked, At
<1>7. \A x : Sharing(x)' = Sharing(x)
  BY <1>3 DEF Sharing
<1>8. BookedOK'
  BY <1>3, <1>6 DEF Handled, BookedOK
<1>9. \A u \in Threads : At(u, "create")' => At(u, "create") /\ call'[u] = call[u]
  BY <1>2 DEF At
<1>10. CreatesOK'
  BY <1>3, <1>6, <1>9 DEF Handled, CreatesOK
<1>11. DestroysOK'
  BY <1>2, <1>3, <1>4, <1>5 DEF Handled, DestroysOK, At
<1>12. ASSUME NEW u \in Threads, NEW v \in Threads, u # v, Exclusive(u)'
       PROVE  call'[v].h # call'[u].h /\ call'[v].share # call'[u].h
  <2>1. CASE u = t
    <3>1. call'[v] = call[v]
      BY <1>2, <1>12, <2>1
    <3>2. call[v].h # h
      BY <1>1, <1>4 DEF Exclusive, At
    <3>3. call[v].share # h
      BY <1>1, <1>5 DEF Handled, SharesIdle, At
    <3>. QED
      BY <1>2, <2>1, <3>1, <3>2, <3>3
  <2>2. CASE u # t
    <3>1. call'[u] = call[u] /\ Exclusive(u)
      BY <1>2, <1>12, <2>2 DEF Exclusive
    <3>2. CASE v = t
      BY <1>2, <1>4, <3>1, <3>2, ExclusiveHandle
    <3>3. CASE v # t
      BY <1>2, <1>12, <3>1, <3>3 DEF Handled, Alone, Exclusive
    <3>. QED
      BY <3>2, <3>3
  <2>. QED
    BY <2>1, <2>2
<1>13. Alone'
  BY <1>12 DEF Alone, Exclusive
<1>14. \A o : (\E u \in Threads : At(u, "destroy_book") /\ call[u].p = o)
           => (\E u \in Threads : At(u, "destroy_book")' /\ call'[u].p = o)
  BY <1>2, <1>3 DEF At
<1>15. LiveOK'
  BY <1>3, <1>7, <1>14 DEF Handled, LiveOK
<1>16. SharesIdle'
  BY <1>2 DEF Handled, SharesIdle, At
<1>. QED
  BY <1>8, <1>10, <1>11, <1>13, <1>15, <1>16 DEF Handled

\* The driver destroys it; its object is kept for the bookkeeping.
LEMMA DestroyDriverHandles ==
  ASSUME CountInv, Handled, NEW t \in Threads, DestroyDriver(t)
  PROVE  Handled'
<1>0. PICK h, p : h = call[t].h /\ p = call[t].p
  OBVIOUS
<1>1. /\ live' = live /\ map' = map /\ ctx' = ctx /\ alive' = alive \ {h} /\ group' = group
      /\ At(t, "destroy") /\ alive \subseteq Handles /\ NoHandle \notin Handles
  BY <1>0, ContextAssumption DEF DestroyDriver, shadow, CountInv, TypeOK
<1>2. /\ call'[t].at = "destroy_book" /\ call'[t].h = h /\ call'[t].share = NoHandle
      /\ call'[t].p = p /\ (\A u \in Threads : u # t => call'[u] = call[u])
  <2>1. call' = [call EXCEPT ![t] = [call[t] EXCEPT !.at = "destroy_book"]]
    BY DEF DestroyDriver
  <2>2. call[t] \in CallsOK /\ call[t].share = NoHandle
    BY <1>1 DEF CountInv, TypeOK, Handled, SharesIdle, At
  <2>3. LET c == [call[t] EXCEPT !.at = "destroy_book"]
        IN  c.at = "destroy_book" /\ c.h = h /\ c.share = NoHandle /\ c.p = p
    BY <1>0, <2>2 DEF CallsOK
  <2>. QED
    BY <2>1, <2>3, CallMoves
<1>3. h \in alive /\ p = map[h] /\ Booked(h) /\ h # NoHandle /\ h \in Handles
  BY <1>0, <1>1, DestroyBooked DEF Handled, DestroysOK
<1>4. p \in live /\ ~ctx[p].deleted
  BY <1>1, <1>3 DEF Handled, BookedOK
<1>5. \A x : Booked(x)' <=> Booked(x) /\ x # h
  BY <1>1, <1>2 DEF Booked, At
<1>6. \A x : Sharing(x)' = Sharing(x)
  BY <1>1 DEF Sharing
<1>7. BookedOK'
  BY <1>1, <1>5 DEF Handled, BookedOK
<1>8. \A u \in Threads : u # t => call[u].h # h /\ call[u].share # h
  BY <1>0, <1>1 DEF Handled, Alone, At
<1>9. \A u \in Threads : At(u, "create")' =>
         At(u, "create") /\ call'[u] = call[u] /\ call[u].h # h /\ call[u].share # h
  BY <1>2, <1>8 DEF At
<1>10. CreatesOK'
  BY <1>1, <1>5, <1>9 DEF Handled, CreatesOK
<1>11. ASSUME NEW u \in Threads
       PROVE  /\ At(u, "destroy")' => call'[u].h \in alive' /\ call'[u].p = map'[call'[u].h]
              /\ At(u, "destroy_book")' =>
                   /\ call'[u].h \in Handles \ alive' /\ call'[u].p = map'[call'[u].h]
                   /\ call'[u].p \in live' /\ ~ctx'[call'[u].p].deleted
  <2>1. CASE u = t
    BY <1>1, <1>2, <1>3, <1>4, <2>1 DEF At
  <2>2. CASE u # t
    BY <1>1, <1>2, <1>8, <2>2 DEF Handled, DestroysOK, At
  <2>. QED
    BY <2>1, <2>2
<1>12. DestroysOK'
  BY <1>11 DEF DestroysOK
<1>13. \A u \in Threads : /\ Exclusive(u)' => Exclusive(u)
                          /\ call'[u].h = call[u].h /\ call'[u].share = call[u].share
  BY <1>0, <1>1, <1>2 DEF Exclusive, At, Handled, SharesIdle
<1>14. Alone'
  BY <1>13 DEF Handled, Alone, Exclusive
<1>15. ASSUME NEW o \in live
       PROVE  /\ ctx[o].handle \in Handles /\ map[ctx[o].handle] = o
              /\ IF ctx[o].deleted THEN Sharing(o)' # {}
                 ELSE \/ ctx[o].handle \in alive'
                      \/ \E u \in Threads : At(u, "destroy_book")' /\ call'[u].p = o
  <2>1. /\ ctx[o].handle \in Handles /\ map[ctx[o].handle] = o
        /\ IF ctx[o].deleted THEN Sharing(o) # {}
           ELSE \/ ctx[o].handle \in alive
                \/ \E u \in Threads : At(u, "destroy_book") /\ call[u].p = o
    BY DEF Handled, LiveOK
  <2>2. ctx[o].handle = h => At(t, "destroy_book")' /\ call'[t].p = o
    BY <1>2, <1>3, <2>1 DEF At
  <2>3. \A u \in Threads : At(u, "destroy_book") => At(u, "destroy_book")' /\ call'[u] = call[u]
    BY <1>1, <1>2 DEF At
  <2>. QED
    BY <1>1, <1>6, <2>1, <2>2, <2>3
<1>16. LiveOK'
  BY <1>1, <1>15 DEF LiveOK
<1>17. SharesIdle'
  BY <1>2 DEF Handled, SharesIdle, At
<1>. QED
  BY <1>7, <1>10, <1>12, <1>14, <1>16, <1>17 DEF Handled

\* What the bookkeeping of a destruction does to the objects.
LEMMA DestroyBookFields ==
  ASSUME CountInv, Handled, NEW t \in Threads, DestroyBook(t)
  PROVE  LET p == call[t].p
             h == call[t].h
         IN  /\ h \in Handles \ alive /\ p = map[h] /\ p \in live /\ ~ctx[p].deleted
             /\ Shrinks /\ Drops(p)
             /\ call'[t] = Idle /\ \A u \in Threads \ {t} : call'[u] = call[u]
<1>. DEFINE p == call[t].p
            h == call[t].h
<1>1. At(t, "destroy_book") /\ call' = [call EXCEPT ![t] = Idle]
  BY DEF DestroyBook, Return
<1>2. h \in Handles \ alive /\ p = map[h] /\ p \in live /\ ~ctx[p].deleted
  BY <1>1 DEF Handled, DestroysOK
<1>3. p # 0
  BY <1>2 DEF CountInv, TypeOK, Objects
<1>4. DropReference(t, p)
  BY <1>2, <1>3 DEF DestroyBook, Gone
<1>5. Shrinks /\ Drops(p)
  BY <1>2, <1>4, DropKeepsRoot, DropFreesRoot, DropFreesShare DEF DropReference
<1>. QED
  BY <1>1, <1>2, <1>5, CallMoves

\* Objects of other contexts stay, and stay known.
LEMMA DestroyBookHandles ==
  ASSUME CountInv, Handled, NEW t \in Threads, DestroyBook(t)
  PROVE  Handled'
<1>0. PICK h, p : h = call[t].h /\ p = call[t].p
  OBVIOUS
<1>1. /\ h \in Handles \ alive /\ p = map[h] /\ p \in live /\ ~ctx[p].deleted
      /\ Shrinks /\ Drops(p)
  BY <1>0, DestroyBookFields
<1>2. /\ call'[t].at = "idle" /\ call'[t].h = NoHandle /\ call'[t].share = NoHandle
      /\ \A u \in Threads : u # t => call'[u] = call[u]
  BY DestroyBookFields, IdleFields
<1>3. /\ alive' = alive /\ group' = group /\ At(t, "destroy_book")
      /\ live \subseteq Objects /\ 0 \notin Objects /\ 0 \notin live
  BY DEF DestroyBook, driver, CountInv, TypeOK, Objects
<1>4. live' \subseteq live /\ \A x \in Handles : map'[x] = map[x] \/ (map'[x] = 0 /\ map[x] \notin live')
  BY <1>1 DEF Shrinks
<1>5. ASSUME NEW x \in Handles, x # h, map[x] \in live, ~ctx[map[x]].deleted
      PROVE  /\ map'[x] = map[x] /\ map[x] \in live' /\ ~ctx'[map[x]].deleted
             /\ ctx'[map[x]].shared = ctx[map[x]].shared
  <2>1. map[x] # p
    BY <1>1, <1>3, <1>5, MapInjective
  <2>2. map[x] \in live'
    BY <1>1, <1>5, <2>1 DEF Drops
  <2>. QED
    BY <1>1, <1>4, <1>5, <2>1, <2>2 DEF Drops
<1>6. \A x : Booked(x)' <=> Booked(x)
  BY <1>2, <1>3 DEF Booked, At
<1>7. \A x \in Handles : Booked(x) => x # h
  BY <1>1 DEF Booked
<1>8. BookedOK'
  BY <1>3, <1>5, <1>6, <1>7 DEF Handled, BookedOK
<1>9. \A u \in Threads : Exclusive(u)' =>
         u # t /\ Exclusive(u) /\ call'[u] = call[u] /\ call[u].h # h
  BY <1>0, <1>2, <1>3 DEF Exclusive, Handled, Alone, At
<1>10. ASSUME NEW u \in Threads, At(u, "create")'
       PROVE  /\ call'[u].h \in alive /\ map'[call'[u].h] = 0
              /\ group[call'[u].h] = IF call'[u].share = NoHandle THEN call'[u].p
                                     ELSE group[call'[u].share]
              /\ \A k \in Handles : call'[u].share = k => Booked(k)'
  <2>1. At(u, "create") /\ call'[u] = call[u]
    BY <1>9, <1>10 DEF Exclusive, At
  <2>2. /\ call[u].h \in alive /\ map[call[u].h] = 0
        /\ group[call[u].h] = IF call[u].share = NoHandle THEN call[u].p
                              ELSE group[call[u].share]
        /\ \A k \in Handles : call[u].share = k => Booked(k)
    BY <2>1 DEF Handled, CreatesOK
  <2>3. call[u].h \in Handles
    BY <2>2 DEF CountInv, TypeOK
  <2>. QED
    BY <1>4, <1>6, <2>1, <2>2, <2>3
<1>11. CreatesOK'
  BY <1>3, <1>10 DEF CreatesOK
<1>12. ASSUME NEW u \in Threads
       PROVE  /\ At(u, "destroy")' => call'[u].h \in alive /\ call'[u].p = map'[call'[u].h]
              /\ At(u, "destroy_book")' =>
                   /\ call'[u].h \in Handles \ alive /\ call'[u].p = map'[call'[u].h]
                   /\ call'[u].p \in live' /\ ~ctx'[call'[u].p].deleted
  <2>1. CASE ~Exclusive(u)'
    BY <2>1 DEF Exclusive, At
  <2>2. CASE Exclusive(u)'
    <3>1. call'[u] = call[u] /\ call[u].h # h /\ u # t
      BY <1>9, <2>2
    <3>2. CASE At(u, "destroy")
      <4>1. Booked(call[u].h) /\ call[u].p = map[call[u].h] /\ call[u].h \in alive
        BY <3>2, DestroyBooked DEF Handled, DestroysOK
      <4>2. call[u].h \in Handles /\ map[call[u].h] \in live /\ ~ctx[map[call[u].h]].deleted
        BY <4>1 DEF Handled, BookedOK, CountInv, TypeOK
      <4>3. map'[call[u].h] = map[call[u].h]
        BY <1>5, <3>1, <4>2
      <4>. QED
        BY <3>1, <3>2, <4>1, <4>3 DEF At
    <3>3. CASE At(u, "destroy_book")
      <4>1. /\ call[u].h \in Handles \ alive /\ call[u].p = map[call[u].h]
            /\ call[u].p \in live /\ ~ctx[call[u].p].deleted
        BY <3>3 DEF Handled, DestroysOK
      <4>2. /\ map'[call[u].h] = map[call[u].h] /\ map[call[u].h] \in live'
            /\ ~ctx'[map[call[u].h]].deleted
        BY <1>5, <3>1, <4>1
      <4>. QED
        BY <3>1, <3>3, <4>1, <4>2 DEF At
    <3>4. CASE ~At(u, "destroy") /\ ~At(u, "destroy_book")
      BY <3>1, <3>4 DEF At
    <3>. QED
      BY <3>2, <3>3, <3>4
  <2>. QED
    BY <2>1, <2>2
<1>13. DestroysOK'
  BY <1>3, <1>12 DEF DestroysOK
<1>14. ASSUME NEW u \in Threads, NEW v \in Threads, u # v, Exclusive(u)'
       PROVE  call'[v].h # call'[u].h /\ call'[v].share # call'[u].h
  <2>1. call'[u] = call[u] /\ Exclusive(u) /\ call[u].h # NoHandle
    BY <1>9, <1>14, ExclusiveHandle
  <2>. QED
    BY <1>2, <1>14, <2>1 DEF Handled, Alone, Exclusive
<1>15. Alone'
  BY <1>14 DEF Alone, Exclusive
<1>16. ASSUME NEW o \in live'
       PROVE  /\ ctx'[o].handle \in Handles /\ map'[ctx'[o].handle] = o
              /\ IF ctx'[o].deleted THEN Sharing(o)' # {}
                 ELSE \/ ctx'[o].handle \in alive
                      \/ \E u \in Threads : At(u, "destroy_book")' /\ call'[u].p = o
  <2>1. o \in live /\ ctx'[o].handle = ctx[o].handle
        /\ (o # p => ctx'[o].deleted = ctx[o].deleted)
    BY <1>1, <1>4, <1>16 DEF Drops
  <2>2. /\ ctx[o].handle \in Handles /\ map[ctx[o].handle] = o
        /\ IF ctx[o].deleted THEN Sharing(o) # {}
           ELSE \/ ctx[o].handle \in alive
                \/ \E u \in Threads : At(u, "destroy_book") /\ call[u].p = o
    BY <2>1 DEF Handled, LiveOK
  <2>3. map'[ctx[o].handle] = o
    BY <1>4, <1>16, <2>2
  <2>4. CASE o = p
    <3>1. ctx'[o].deleted /\ Sharing(o)' # {}
      BY <1>1, <1>16, <2>4 DEF Drops
    <3>. QED
      BY <2>1, <2>2, <2>3, <3>1
  <2>5. CASE o # p /\ ctx[o].deleted
    <3>1. Sharing(o)' # {} /\ ctx'[o].deleted
      BY <1>1, <1>16, <2>1, <2>2, <2>5 DEF Drops
    <3>. QED
      BY <2>1, <2>2, <2>3, <3>1
  <2>6. CASE o # p /\ ~ctx[o].deleted
    <3>1. \A u \in Threads : At(u, "destroy_book") /\ call[u].p = o
                                => At(u, "destroy_book")' /\ call'[u].p = o
      BY <1>0, <1>2, <2>6 DEF At
    <3>2. ~ctx'[o].deleted
      BY <2>1, <2>6
    <3>. QED
      BY <2>1, <2>2, <2>3, <2>6, <3>1, <3>2
  <2>. QED
    BY <2>4, <2>5, <2>6
<1>17. LiveOK'
  BY <1>3, <1>16 DEF LiveOK
<1>18. SharesIdle'
  BY <1>2 DEF Handled, SharesIdle, At
<1>. QED
  BY <1>8, <1>11, <1>13, <1>15, <1>17, <1>18 DEF Handled

-----------------------------------------------------------------------------
(* The calls that make a context current.                                    *)

\* What glXMakeCurrent notes before the driver is called.
LEMMA MakeCurrentFields ==
  ASSUME CountInv, NEW t \in Threads, MakeCurrent(t)
  PROVE  /\ At(t, "idle") /\ UNCHANGED <<app, driver, shadow>>
         /\ \A u \in Threads : u # t => call'[u] = call[u]
         /\ call'[t].at = "mc_driver" /\ call'[t].share = NoHandle
         /\ Held(call'[t].h) /\ call'[t].p = Lookup(call'[t].h)
         /\ call'[t].was = current[t] /\ call'[t].cur = tls[t]
<1>1. PICK h \in {NoHandle} \union {x \in alive : Usable(x)} :
        call' = [call EXCEPT ![t] = [Idle EXCEPT !.at = "mc_driver", !.h = h,
                      !.was = current[t], !.p = Lookup(h), !.cur = tls[t]]]
  BY DEF MakeCurrent
<1>2. PICK c : c = [Idle EXCEPT !.at = "mc_driver", !.h = h, !.was = current[t],
                                !.p = Lookup(h), !.cur = tls[t]]
  OBVIOUS
<1>3. /\ c.at = "mc_driver" /\ c.h = h /\ c.share = NoHandle /\ c.was = current[t]
      /\ c.p = Lookup(h) /\ c.cur = tls[t]
  BY <1>2 DEF Idle
<1>4. call'[t] = c /\ \A u \in Threads : u # t => call'[u] = call[u]
  BY <1>1, <1>2, CallMoves
<1>5. Held(h)
  BY <1>1 DEF Held
<1>. QED
  BY <1>3, <1>4, <1>5 DEF MakeCurrent

\* What the driver's answer changes.
LEMMA MCDriverFields ==
  ASSUME CountInv, NEW t \in Threads, MCDriver(t)
  PROVE  /\ At(t, "mc_driver") /\ UNCHANGED <<app, alive, group, made, shadow>>
         /\ \A u \in Threads : u # t => call'[u] = call[u] /\ current'[u] = current[u]
         /\ call'[t].at = "mc_book" /\ call'[t].share = call[t].share
         /\ call'[t].h = call[t].h /\ call'[t].p = call[t].p
         /\ call'[t].was = call[t].was /\ call'[t].cur = call[t].cur
         /\ call'[t].ok \in BOOLEAN
         /\ current'[t] = IF call'[t].ok THEN call[t].h ELSE current[t]
<1>1. PICK ok \in BOOLEAN :
        /\ current' = IF ok THEN [current EXCEPT ![t] = call[t].h] ELSE current
        /\ call' = [call EXCEPT ![t] = [call[t] EXCEPT !.at = "mc_book", !.ok = ok]]
  BY DEF MCDriver
<1>2. call[t] \in CallsOK
  BY DEF CountInv, TypeOK
<1>3. PICK c : c = [call[t] EXCEPT !.at = "mc_book", !.ok = ok]
  OBVIOUS
<1>4. /\ c.at = "mc_book" /\ c.share = call[t].share /\ c.h = call[t].h
      /\ c.p = call[t].p /\ c.was = call[t].was /\ c.cur = call[t].cur /\ c.ok = ok
  BY <1>2, <1>3 DEF CallsOK
<1>5. call'[t] = c /\ \A u \in Threads : u # t => call'[u] = call[u]
  BY <1>1, <1>3, CallMoves
<1>6. /\ \A u \in Threads : u # t => current'[u] = current[u]
      /\ current'[t] = IF ok THEN call[t].h ELSE current[t]
  BY <1>1 DEF CountInv, TypeOK
<1>. QED
  BY <1>4, <1>5, <1>6 DEF MCDriver

\* What the bookkeeping changes.
LEMMA MCBookFields ==
  ASSUME CountInv, NEW t \in Threads, MCBook(t)
  PROVE  /\ At(t, "mc_book") /\ UNCHANGED <<app, driver, live, map>>
         /\ \A u \in Threads : u # t => call'[u] = call[u] /\ tls'[u] = tls[u]
         /\ call'[t] = Idle
         /\ tls'[t] = IF Switches(t) THEN call[t].p ELSE tls[t]
         /\ \A o \in Objects : /\ ctx'[o].handle = ctx[o].handle
                               /\ ctx'[o].deleted = ctx[o].deleted
                               /\ ctx'[o].shared = ctx[o].shared
<1>1. call'[t] = Idle /\ \A u \in Threads : u # t => call'[u] = call[u]
  BY CallMoves DEF MCBook, Return
<1>2. \A o \in Objects : /\ ctx'[o].handle = ctx[o].handle
                         /\ ctx'[o].deleted = ctx[o].deleted
                         /\ ctx'[o].shared = ctx[o].shared
  BY DEF MCBook, CountInv, TypeOK, Objs
<1>3. /\ \A u \in Threads : u # t => tls'[u] = tls[u]
      /\ tls'[t] = IF Switches(t) THEN call[t].p ELSE tls[t]
  <2>1. tls' = IF Switches(t) THEN [tls EXCEPT ![t] = call[t].p] ELSE tls
    BY DEF MCBook
  <2>. QED
    BY <2>1 DEF CountInv, TypeOK
<1>. QED
  BY <1>1, <1>2, <1>3 DEF MCBook

\* None of them touches what is known of handles.
LEMMA MoveHandles ==
  ASSUME CountInv, Handled, NEW t \in Threads, MakeCurrent(t) \/ MCDriver(t) \/ MCBook(t)
  PROVE  Handled'
<1>1. CASE MakeCurrent(t)
  BY <1>1, MakeCurrentFields, HandlesKept DEF driver, shadow, Exclusive, At
<1>2. CASE MCDriver(t)
  <2>1. call[t].share = NoHandle
    BY <1>2, MCDriverFields DEF Handled, SharesIdle, At
  <2>. QED
    BY <1>2, <2>1, MCDriverFields, HandlesKept DEF shadow, Exclusive, At
<1>3. CASE MCBook(t)
  BY <1>3, MCBookFields, IdleFields, HandlesKept DEF driver, Exclusive, At, Held
<1>. QED
  BY <1>1, <1>2, <1>3

\* If no handle is reused, every step keeps what is known of handles.
LEMMA HandlesNext ==
  ASSUME CountInv, HandleInv, [Next]_vars
  PROVE  HandleInv'
<1>1. app' = app
  BY DEF Next, Create, CreateBook, MakeCurrent, MCDriver, MCBook, Destroy, DestroyDriver,
         DestroyBook, vars
<1>. SUFFICES ASSUME Handled, ~app.reuse PROVE Handled'
  BY <1>1 DEF HandleInv
<1>2. CASE UNCHANGED vars
  <2>1. /\ UNCHANGED <<app, alive, current, group, made>>
        /\ UNCHANGED <<ctx, live, map, tls, call>>
    BY <1>2 DEF vars, driver, shadow
  <2>2. /\ \A x : Booked(x)' <=> Booked(x)
        /\ \A x : Sharing(x)' = Sharing(x)
    BY <2>1 DEF Booked, At, Sharing
  <2>3. BookedOK' /\ CreatesOK' /\ DestroysOK'
    BY <2>1, <2>2 DEF Handled, BookedOK, CreatesOK, DestroysOK, At
  <2>4. Alone' /\ LiveOK' /\ SharesIdle'
    BY <2>1, <2>2 DEF Handled, Alone, LiveOK, SharesIdle, At
  <2>. QED
    BY <2>3, <2>4 DEF Handled
<1>3. CASE Next
  BY <1>3, CreateHandles, CreateBookHandles, MoveHandles, DestroyHandles,
     DestroyDriverHandles, DestroyBookHandles DEF Next
<1>. QED
  BY <1>2, <1>3

-----------------------------------------------------------------------------
(* What the threads hold.                                                    *)

\* What is held leads to an allocated object, or to none.
LEMMA HeldLive ==
  ASSUME CountInv, Handled, NEW h, Held(h)
  PROVE  /\ Lookup(h) \in live \union {0}
         /\ h # NoHandle => /\ h \in Handles /\ Lookup(h) = map[h] /\ map[h] \in live
                            /\ ~ctx[map[h]].deleted
<1>1. CASE h = NoHandle
  BY <1>1 DEF Lookup
<1>2. CASE h # NoHandle
  <2>1. Booked(h) /\ h \in Handles
    BY <1>2, UsableBooked DEF Held, Booked, CountInv, TypeOK
  <2>. QED
    BY <1>2, <2>1 DEF Lookup, Handled, BookedOK
<1>. QED
  BY <1>1, <1>2

\* A thread that does not move keeps its object if what it holds is kept.
LEMMA ThreadKept ==
  ASSUME CountInv, NEW u \in Threads, ThreadOK(u),
         call'[u] = call[u], current'[u] = current[u], tls'[u] = tls[u],
         \A x \in Handles :
           \/ current[u] = x \/ call[u].was = x
           \/ call[u].h = x /\ call[u].at \in {"mc_driver", "mc_book"}
           => Usable(x)' /\ map'[x] = map[x]
  PROVE  ThreadOK(u)'
<1>. DEFINE moving == call[u].at \in {"mc_driver", "mc_book"}
<1>1. current[u] \in Handles \union {NoHandle} /\ call[u] \in CallsOK
  BY DEF CountInv, TypeOK
<1>2. call[u].was \in Handles \union {NoHandle} /\ call[u].h \in Handles \union {NoHandle}
  BY <1>1 DEF CallsOK
<1>3. \A x \in Handles : current'[u] = x \/ call'[u].was = x => Usable(x)'
  OBVIOUS
<1>4. /\ Lookup(current[u])' = Lookup(current[u])
      /\ Lookup(call[u].was)' = Lookup(call[u].was)
      /\ moving => Lookup(call[u].h)' = Lookup(call[u].h)
  BY <1>1, <1>2 DEF Lookup
<1>5. moving =>
        /\ \A x \in Handles : call'[u].h = x => Usable(x)'
        /\ call'[u].p = Lookup(call[u].h)'
        /\ tls'[u] = Lookup(call[u].was)' /\ call'[u].cur = tls'[u]
        /\ current'[u] = IF call'[u].at = "mc_book" /\ call'[u].ok
                         THEN call'[u].h ELSE call'[u].was
  BY <1>4 DEF ThreadOK, At
<1>6. /\ ~moving => tls'[u] = Lookup(current[u])' /\ call'[u].cur = 0
      /\ call'[u].at = "idle" => call'[u].p = 0
  BY <1>4 DEF ThreadOK, At
<1>. QED
  BY <1>3, <1>5, <1>6 DEF ThreadOK, At

\* A handle that may be used can be used after a step that neither destroys it nor
\* begins a call that creates or destroys it.
LEMMA UsableKept ==
  ASSUME NEW t \in Threads, NEW x, Usable(x), x \in alive',
         \A u \in Threads : u # t => call'[u] = call[u],
         call'[t].h = x => call'[t].at \notin {"create", "destroy"}
  PROVE  Usable(x)'
  BY DEF Usable

\* The creation of another context changes nothing for the threads.
LEMMA CreateThreads ==
  ASSUME CountInv, Handled, ~app.reuse, \A u \in Threads : ThreadOK(u),
         NEW t \in Threads, Create(t)
  PROVE  \A u \in Threads : ThreadOK(u)'
<1>1. PICK h \in Handles \ alive, s \in {NoHandle} \union {x \in alive : Usable(x)} :
        /\ alive' = alive \union {h}
        /\ call' = [call EXCEPT ![t] = [Idle EXCEPT !.at = "create", !.h = h,
                                          !.share = s, !.p = made + 1]]
  BY DEF Create
<1>2. PICK c : c = [Idle EXCEPT !.at = "create", !.h = h, !.share = s, !.p = made + 1]
  OBVIOUS
<1>3. c.at = "create" /\ c.h = h /\ c.was = NoHandle /\ c.cur = 0
  BY <1>2 DEF Idle
<1>4. call'[t] = c /\ \A u \in Threads : u # t => call'[u] = call[u]
  BY <1>1, <1>2, CallMoves
<1>5. /\ current' = current /\ tls' = tls /\ map' = map /\ call[t].at = "idle"
      /\ NoHandle \notin Handles
  BY ContextAssumption DEF Create, shadow, At
<1>6. \A x \in Handles : Usable(x) => Usable(x)'
  <2>. SUFFICES ASSUME NEW x \in Handles, Usable(x) PROVE Usable(x)'
    OBVIOUS
  <2>1. x \in alive' /\ x # h
    BY <1>1 DEF Usable
  <2>. QED
    BY <1>3, <1>4, <2>1, UsableKept
<1>. SUFFICES ASSUME NEW u \in Threads PROVE ThreadOK(u)'
  OBVIOUS
<1>7. ThreadOK(u)
  OBVIOUS
<1>8. CASE u # t
  <2>1. \A x \in Handles :
           \/ current[u] = x \/ call[u].was = x
           \/ call[u].h = x /\ call[u].at \in {"mc_driver", "mc_book"}
           => Usable(x)' /\ map'[x] = map[x]
    BY <1>5, <1>6, <1>7 DEF ThreadOK
  <2>. QED
    BY <1>4, <1>5, <1>7, <1>8, <2>1, ThreadKept
<1>9. CASE u = t
  <2>1. \A x \in Handles : current[t] = x => Usable(x)'
    BY <1>6, <1>7, <1>9 DEF ThreadOK
  <2>2. tls[t] = Lookup(current[t])
    BY <1>5, <1>7, <1>9 DEF ThreadOK
  <2>3. tls'[t] = Lookup(current[t])'
    BY <1>5, <2>2 DEF Lookup
  <2>. QED
    BY <1>3, <1>4, <1>5, <1>9, <2>1, <2>3 DEF ThreadOK, At
<1>. QED
  BY <1>8, <1>9

\* The bookkeeping of a creation changes the map for the new context only.
LEMMA CreateBookThreads ==
  ASSUME CountInv, Handled, \A u \in Threads : ThreadOK(u), NEW t \in Threads, CreateBook(t)
  PROVE  \A u \in Threads : ThreadOK(u)'
<1>1. /\ \A x \in Handles : x # call[t].h => map'[x] = map[x]
      /\ call'[t] = Idle /\ (\A u \in Threads : u # t => call'[u] = call[u])
  BY CreateBookFields
<1>2. /\ current' = current /\ tls' = tls /\ alive' = alive /\ At(t, "create")
      /\ NoHandle \notin Handles
  BY ContextAssumption DEF CreateBook, driver
<1>3. \A x \in Handles : Usable(x) => Usable(x)' /\ map'[x] = map[x]
  <2>. SUFFICES ASSUME NEW x \in Handles, Usable(x) PROVE Usable(x)' /\ map'[x] = map[x]
    OBVIOUS
  <2>1. x \in alive' /\ x # call[t].h
    BY <1>2 DEF Usable, At
  <2>. QED
    BY <1>1, <2>1, UsableKept, IdleFields
<1>. SUFFICES ASSUME NEW u \in Threads PROVE ThreadOK(u)'
  OBVIOUS
<1>4. ThreadOK(u)
  OBVIOUS
<1>5. CASE u # t
  <2>1. \A x \in Handles :
           \/ current[u] = x \/ call[u].was = x
           \/ call[u].h = x /\ call[u].at \in {"mc_driver", "mc_book"}
           => Usable(x)' /\ map'[x] = map[x]
    BY <1>3, <1>4 DEF ThreadOK
  <2>. QED
    BY <1>1, <1>2, <1>4, <1>5, <2>1, ThreadKept
<1>6. CASE u = t
  <2>1. \A x \in Handles : current[t] = x => Usable(x)' /\ map'[x] = map[x]
    BY <1>3, <1>4, <1>6 DEF ThreadOK
  <2>2. tls[t] = Lookup(current[t]) /\ current[t] \in Handles \union {NoHandle}
    BY <1>2, <1>4, <1>6 DEF ThreadOK, At, CountInv, TypeOK
  <2>3. tls'[t] = Lookup(current[t])'
    BY <1>2, <2>1, <2>2 DEF Lookup
  <2>. QED
    BY <1>1, <1>2, <1>6, <2>1, <2>3, IdleFields DEF ThreadOK, At
<1>. QED
  BY <1>5, <1>6

\* A thread that begins to make a context current notes what it has.
LEMMA MakeCurrentThreads ==
  ASSUME CountInv, \A u \in Threads : ThreadOK(u), NEW t \in Threads, MakeCurrent(t)
  PROVE  \A u \in Threads : ThreadOK(u)'
<1>1. /\ At(t, "idle") /\ UNCHANGED <<app, driver, shadow>>
      /\ \A u \in Threads : u # t => call'[u] = call[u]
  BY MakeCurrentFields
<1>2. /\ call'[t].at = "mc_driver" /\ Held(call'[t].h) /\ call'[t].p = Lookup(call'[t].h)
      /\ call'[t].was = current[t] /\ call'[t].cur = tls[t]
  BY MakeCurrentFields
<1>3. current' = current /\ tls' = tls /\ map' = map /\ alive' = alive /\ NoHandle \notin Handles
  BY <1>1, ContextAssumption DEF driver, shadow
<1>4. \A x \in Handles : Usable(x) => Usable(x)'
  <2>. SUFFICES ASSUME NEW x \in Handles, Usable(x) PROVE Usable(x)'
    OBVIOUS
  <2>1. x \in alive'
    BY <1>3 DEF Usable
  <2>. QED
    BY <1>1, <1>2, <2>1, UsableKept
<1>. SUFFICES ASSUME NEW u \in Threads PROVE ThreadOK(u)'
  OBVIOUS
<1>5. ThreadOK(u)
  OBVIOUS
<1>6. CASE u # t
  <2>1. \A x \in Handles :
           \/ current[u] = x \/ call[u].was = x
           \/ call[u].h = x /\ call[u].at \in {"mc_driver", "mc_book"}
           => Usable(x)' /\ map'[x] = map[x]
    BY <1>3, <1>4, <1>5 DEF ThreadOK
  <2>. QED
    BY <1>1, <1>3, <1>5, <1>6, <2>1, ThreadKept
<1>7. CASE u = t
  <2>1. \A x \in Handles : current[t] = x \/ call'[t].h = x => Usable(x)'
    BY <1>2, <1>3, <1>4, <1>5, <1>7 DEF ThreadOK, Held
  <2>2. tls[t] = Lookup(current[t])
    BY <1>1, <1>5, <1>7 DEF ThreadOK, At
  <2>3. tls'[t] = Lookup(call[t].was)' /\ call'[t].p = Lookup(call[t].h)'
    BY <1>2, <1>3, <2>2 DEF Lookup
  <2>. QED
    BY <1>2, <1>3, <1>7, <2>1, <2>3 DEF ThreadOK, At
<1>. QED
  BY <1>6, <1>7

\* The driver makes the context current, or leaves the one that was.
LEMMA MCDriverThreads ==
  ASSUME CountInv, \A u \in Threads : ThreadOK(u), NEW t \in Threads, MCDriver(t)
  PROVE  \A u \in Threads : ThreadOK(u)'
<1>1. /\ At(t, "mc_driver") /\ UNCHANGED <<app, alive, group, made, shadow>>
      /\ \A u \in Threads : u # t => call'[u] = call[u] /\ current'[u] = current[u]
  BY MCDriverFields
<1>2. /\ call'[t].at = "mc_book" /\ call'[t].h = call[t].h /\ call'[t].p = call[t].p
      /\ call'[t].was = call[t].was /\ call'[t].cur = call[t].cur
      /\ current'[t] = IF call'[t].ok THEN call[t].h ELSE current[t]
  BY MCDriverFields
<1>3. tls' = tls /\ map' = map /\ alive' = alive /\ NoHandle \notin Handles
  BY <1>1, ContextAssumption DEF shadow
<1>4. \A x \in Handles : Usable(x) => Usable(x)'
  <2>. SUFFICES ASSUME NEW x \in Handles, Usable(x) PROVE Usable(x)'
    OBVIOUS
  <2>1. x \in alive'
    BY <1>3 DEF Usable
  <2>. QED
    BY <1>1, <1>2, <2>1, UsableKept
<1>. SUFFICES ASSUME NEW u \in Threads PROVE ThreadOK(u)'
  OBVIOUS
<1>5. ThreadOK(u)
  OBVIOUS
<1>6. CASE u # t
  <2>1. \A x \in Handles :
           \/ current[u] = x \/ call[u].was = x
           \/ call[u].h = x /\ call[u].at \in {"mc_driver", "mc_book"}
           => Usable(x)' /\ map'[x] = map[x]
    BY <1>3, <1>4, <1>5 DEF ThreadOK
  <2>. QED
    BY <1>1, <1>3, <1>5, <1>6, <2>1, ThreadKept
<1>7. CASE u = t
  <2>1. \A x \in Handles : current[t] = x \/ call[t].was = x \/ call[t].h = x => Usable(x)'
    BY <1>1, <1>4, <1>5, <1>7 DEF ThreadOK, At
  <2>2. \A x \in Handles : current'[t] = x \/ call'[t].was = x \/ call'[t].h = x => Usable(x)'
    BY <1>2, <2>1
  <2>3. /\ call[t].p = Lookup(call[t].h) /\ tls[t] = Lookup(call[t].was)
        /\ call[t].cur = tls[t] /\ current[t] = call[t].was
    BY <1>1, <1>5, <1>7 DEF ThreadOK, At
  <2>4. tls'[t] = Lookup(call[t].was)' /\ call'[t].p = Lookup(call[t].h)'
    BY <1>2, <1>3, <2>3 DEF Lookup
  <2>. QED
    BY <1>2, <1>3, <1>7, <2>2, <2>3, <2>4 DEF ThreadOK, At
<1>. QED
  BY <1>6, <1>7

\* The bookkeeping gives the thread the object of what is current now.
LEMMA MCBookThreads ==
  ASSUME CountInv, \A u \in Threads : ThreadOK(u), NEW t \in Threads, MCBook(t)
  PROVE  \A u \in Threads : ThreadOK(u)'
<1>1. /\ At(t, "mc_book") /\ UNCHANGED <<app, driver, live, map>>
      /\ \A u \in Threads : u # t => call'[u] = call[u] /\ tls'[u] = tls[u]
      /\ call'[t] = Idle
      /\ tls'[t] = IF Switches(t) THEN call[t].p ELSE tls[t]
  BY MCBookFields
<1>2. current' = current /\ map' = map /\ alive' = alive /\ NoHandle \notin Handles
  BY <1>1, ContextAssumption DEF driver
<1>3. \A x \in Handles : Usable(x) => Usable(x)'
  <2>. SUFFICES ASSUME NEW x \in Handles, Usable(x) PROVE Usable(x)'
    OBVIOUS
  <2>1. x \in alive'
    BY <1>2 DEF Usable
  <2>. QED
    BY <1>1, <2>1, UsableKept, IdleFields
<1>. SUFFICES ASSUME NEW u \in Threads PROVE ThreadOK(u)'
  OBVIOUS
<1>4. ThreadOK(u)
  OBVIOUS
<1>5. CASE u # t
  <2>1. \A x \in Handles :
           \/ current[u] = x \/ call[u].was = x
           \/ call[u].h = x /\ call[u].at \in {"mc_driver", "mc_book"}
           => Usable(x)' /\ map'[x] = map[x]
    BY <1>2, <1>3, <1>4 DEF ThreadOK
  <2>. QED
    BY <1>1, <1>2, <1>4, <1>5, <2>1, ThreadKept
<1>6. CASE u = t
  <2>1. \A x \in Handles : current[t] = x => Usable(x)'
    BY <1>3, <1>4, <1>6 DEF ThreadOK
  <2>2. /\ call[t].p = Lookup(call[t].h) /\ tls[t] = Lookup(call[t].was)
        /\ call[t].cur = tls[t]
        /\ current[t] = IF call[t].ok THEN call[t].h ELSE call[t].was
    BY <1>1, <1>4, <1>6 DEF ThreadOK, At
  <2>3. tls'[t] = Lookup(current[t])
    BY <1>1, <2>2 DEF Switches
  <2>4. tls'[t] = Lookup(current[t])'
    BY <1>2, <2>3 DEF Lookup
  <2>. QED
    BY <1>1, <1>2, <1>6, <2>1, <2>4, IdleFields DEF ThreadOK, At
<1>. QED
  BY <1>5, <1>6

\* A context that is destroyed is current nowhere and in no other call.
LEMMA DestroyThreads ==
  ASSUME CountInv, Handled, ~app.destroyCurrent, \A u \in Threads : ThreadOK(u),
         NEW t \in Threads, Destroy(t)
  PROVE  \A u \in Threads : ThreadOK(u)'
<1>1. PICK h \in {x \in alive : Usable(x)} :
        /\ \A u \in Threads : At(u, "destroy_book") \/ (call[u].h # h /\ call[u].share # h)
        /\ \A u \in Threads : current[u] # h /\ call[u].was # h
        /\ call' = [call EXCEPT ![t] = [Idle EXCEPT !.at = "destroy", !.h = h,
                                                     !.p = Lookup(h)]]
  BY DEF Destroy
<1>2. PICK c : c = [Idle EXCEPT !.at = "destroy", !.h = h, !.p = Lookup(h)]
  OBVIOUS
<1>3. c.at = "destroy" /\ c.h = h /\ c.was = NoHandle /\ c.cur = 0
  BY <1>2 DEF Idle
<1>4. call'[t] = c /\ \A u \in Threads : u # t => call'[u] = call[u]
  BY <1>1, <1>2, CallMoves
<1>5. /\ current' = current /\ tls' = tls /\ map' = map /\ alive' = alive
      /\ call[t].at = "idle" /\ NoHandle \notin Handles
  BY ContextAssumption DEF Destroy, driver, shadow, At
<1>6. \A x \in Handles : Usable(x) /\ x # h => Usable(x)'
  <2>. SUFFICES ASSUME NEW x \in Handles, Usable(x), x # h PROVE Usable(x)'
    OBVIOUS
  <2>1. x \in alive'
    BY <1>5 DEF Usable
  <2>. QED
    BY <1>3, <1>4, <2>1, UsableKept
<1>. SUFFICES ASSUME NEW u \in Threads PROVE ThreadOK(u)'
  OBVIOUS
<1>7. ThreadOK(u)
  OBVIOUS
<1>8. CASE u # t
  <2>1. \A x \in Handles :
           \/ current[u] = x \/ call[u].was = x
           \/ call[u].h = x /\ call[u].at \in {"mc_driver", "mc_book"}
           => x # h /\ Usable(x)
    BY <1>1, <1>7 DEF ThreadOK, At
  <2>2. \A x \in Handles :
           \/ current[u] = x \/ call[u].was = x
           \/ call[u].h = x /\ call[u].at \in {"mc_driver", "mc_book"}
           => Usable(x)' /\ map'[x] = map[x]
    BY <1>5, <1>6, <2>1
  <2>. QED
    BY <1>4, <1>5, <1>7, <1>8, <2>2, ThreadKept
<1>9. CASE u = t
  <2>1. \A x \in Handles : current[t] = x => Usable(x)'
    BY <1>1, <1>6, <1>7, <1>9 DEF ThreadOK
  <2>2. tls[t] = Lookup(current[t])
    BY <1>5, <1>7, <1>9 DEF ThreadOK
  <2>3. tls'[t] = Lookup(current[t])'
    BY <1>5, <2>2 DEF Lookup
  <2>. QED
    BY <1>3, <1>4, <1>5, <1>9, <2>1, <2>3 DEF ThreadOK, At
<1>. QED
  BY <1>8, <1>9

\* Nor when the driver has destroyed it.
LEMMA DestroyDriverThreads ==
  ASSUME CountInv, \A u \in Threads : ThreadOK(u), NEW t \in Threads, DestroyDriver(t)
  PROVE  \A u \in Threads : ThreadOK(u)'
<1>1. /\ current' = current /\ tls' = tls /\ map' = map /\ alive' = alive \ {call[t].h}
      /\ At(t, "destroy")
      /\ call' = [call EXCEPT ![t] = [call[t] EXCEPT !.at = "destroy_book"]]
  BY DEF DestroyDriver, shadow
<1>2. PICK c : c = [call[t] EXCEPT !.at = "destroy_book"]
  OBVIOUS
<1>3. c.at = "destroy_book" /\ c.h = call[t].h /\ c.was = call[t].was /\ c.cur = call[t].cur
  BY <1>2 DEF CountInv, TypeOK, CallsOK
<1>4. call'[t] = c /\ \A u \in Threads : u # t => call'[u] = call[u]
  BY <1>1, <1>2, CallMoves
<1>5. \A x \in Handles : Usable(x) => Usable(x)'
  <2>. SUFFICES ASSUME NEW x \in Handles, Usable(x) PROVE Usable(x)'
    OBVIOUS
  <2>1. x \in alive'
    BY <1>1 DEF Usable, At
  <2>. QED
    BY <1>3, <1>4, <2>1, UsableKept
<1>. SUFFICES ASSUME NEW u \in Threads PROVE ThreadOK(u)'
  OBVIOUS
<1>6. ThreadOK(u)
  OBVIOUS
<1>7. CASE u # t
  <2>1. \A x \in Handles :
           \/ current[u] = x \/ call[u].was = x
           \/ call[u].h = x /\ call[u].at \in {"mc_driver", "mc_book"}
           => Usable(x)' /\ map'[x] = map[x]
    BY <1>1, <1>5, <1>6 DEF ThreadOK
  <2>. QED
    BY <1>1, <1>4, <1>6, <1>7, <2>1, ThreadKept
<1>8. CASE u = t
  <2>1. \A x \in Handles : current[t] = x \/ call[t].was = x => Usable(x)'
    BY <1>5, <1>6, <1>8 DEF ThreadOK
  <2>2. tls[t] = Lookup(current[t]) /\ call[t].cur = 0
    BY <1>1, <1>6, <1>8 DEF ThreadOK, At
  <2>3. tls'[t] = Lookup(current[t])'
    BY <1>1, <2>2 DEF Lookup
  <2>. QED
    BY <1>1, <1>3, <1>4, <1>8, <2>1, <2>2, <2>3 DEF ThreadOK, At
<1>. QED
  BY <1>7, <1>8

\* What the threads hold is not what the bookkeeping frees.
LEMMA DestroyBookThreads ==
  ASSUME CountInv, Handled, \A u \in Threads : ThreadOK(u), NEW t \in Threads, DestroyBook(t)
  PROVE  \A u \in Threads : ThreadOK(u)'
<1>0. PICK h, p : h = call[t].h /\ p = call[t].p
  OBVIOUS
<1>1. /\ h \in Handles \ alive /\ p = map[h] /\ p \in live /\ Shrinks /\ Drops(p)
      /\ call'[t] = Idle /\ (\A u \in Threads : u # t => call'[u] = call[u])
  BY <1>0, DestroyBookFields
<1>2. /\ current' = current /\ alive' = alive /\ At(t, "destroy_book")
      /\ NoHandle \notin Handles /\ 0 \notin live
  BY ContextAssumption DEF DestroyBook, driver, CountInv, TypeOK, Objects
<1>3. ASSUME NEW x \in Handles, Usable(x)
      PROVE  Usable(x)' /\ map[x] \in live' /\ map'[x] = map[x]
  <2>1. x \in alive' /\ x # h
    BY <1>1, <1>2, <1>3 DEF Usable
  <2>2. Usable(x)'
    BY <1>1, <1>3, <2>1, UsableKept, IdleFields
  <2>3. map[x] \in live /\ ~ctx[map[x]].deleted
    BY <1>3, UsableBooked DEF Handled, BookedOK
  <2>4. map[x] # p
    BY <1>1, <1>2, <2>1, <2>3, MapInjective
  <2>5. map[x] \in live'
    BY <1>1, <2>3, <2>4 DEF Drops
  <2>. QED
    BY <1>1, <2>2, <2>5 DEF Shrinks
<1>4. ASSUME NEW x \in Handles \union {NoHandle}, x # NoHandle => Usable(x)
      PROVE  Lookup(x)' = Lookup(x) /\ Lookup(x) \in live' \union {0}
  BY <1>3, <1>4 DEF Lookup
<1>5. ASSUME NEW u \in Threads
      PROVE  tls'[u] = tls[u] /\ Lookup(current[u])' = Lookup(current[u])
  <2>1. ThreadOK(u) /\ current[u] \in Handles \union {NoHandle} /\ call[u] \in CallsOK
    BY DEF CountInv, TypeOK
  <2>2. call[u].was \in Handles \union {NoHandle}
    BY <2>1 DEF CallsOK
  <2>3. /\ current[u] # NoHandle => Usable(current[u])
        /\ call[u].was # NoHandle => Usable(call[u].was)
    BY <2>1, <2>2 DEF ThreadOK
  <2>4. Lookup(current[u]) \in live' \union {0} /\ Lookup(call[u].was) \in live' \union {0}
    BY <1>4, <2>1, <2>2, <2>3
  <2>5. tls[u] = Lookup(current[u]) \/ tls[u] = Lookup(call[u].was)
    BY <2>1 DEF ThreadOK
  <2>6. tls'[u] = tls[u]
    BY <1>1, <2>4, <2>5 DEF Shrinks
  <2>7. \A x \in Handles : x = current[u] => map'[x] = map[x]
    BY <1>3, <2>1 DEF ThreadOK
  <2>. QED
    BY <1>2, <2>1, <2>6, <2>7 DEF Lookup
<1>. SUFFICES ASSUME NEW u \in Threads PROVE ThreadOK(u)'
  OBVIOUS
<1>6. ThreadOK(u)
  OBVIOUS
<1>7. CASE u # t
  <2>1. \A x \in Handles :
           \/ current[u] = x \/ call[u].was = x
           \/ call[u].h = x /\ call[u].at \in {"mc_driver", "mc_book"}
           => Usable(x)' /\ map'[x] = map[x]
    BY <1>3, <1>6 DEF ThreadOK
  <2>. QED
    BY <1>1, <1>2, <1>5, <1>6, <1>7, <2>1, ThreadKept
<1>8. CASE u = t
  <2>1. \A x \in Handles : current[t] = x => Usable(x)'
    BY <1>3, <1>6, <1>8 DEF ThreadOK
  <2>2. tls[t] = Lookup(current[t])
    BY <1>2, <1>6, <1>8 DEF ThreadOK, At
  <2>3. tls'[t] = Lookup(current[t])'
    BY <1>5, <2>2
  <2>. QED
    BY <1>1, <1>2, <1>8, <2>1, <2>3, IdleFields DEF ThreadOK, At
<1>. QED
  BY <1>7, <1>8

\* The invariant is inductive.
LEMMA ResolveNext == ResolveInv /\ [Next]_vars => ResolveInv'
<1>. SUFFICES ASSUME ResolveInv, [Next]_vars PROVE ResolveInv'
  OBVIOUS
<1>1. CountInv /\ CountInv' /\ HandleInv /\ HandleInv'
  BY CountNext, HandlesNext DEF ResolveInv
<1>2. app' = app
  BY DEF Next, Create, CreateBook, MakeCurrent, MCDriver, MCBook, Destroy, DestroyDriver,
         DestroyBook, vars
<1>3. ASSUME Careful PROVE \A u \in Threads : ThreadOK(u)'
  <2>1. Handled /\ ~app.reuse /\ ~app.destroyCurrent /\ (\A u \in Threads : ThreadOK(u))
    BY <1>1, <1>3 DEF HandleInv, ResolveInv, ThreadInv, Careful
  <2>2. CASE UNCHANGED vars
    <3>1. UNCHANGED <<alive, current, map, tls, call>>
      BY <2>2 DEF vars, driver, shadow
    <3>. QED
      BY <2>1, <3>1 DEF ThreadOK, Usable, Lookup, At
  <2>3. CASE Next
    BY <1>1, <2>1, <2>3, CreateThreads, CreateBookThreads, MakeCurrentThreads,
       MCDriverThreads, MCBookThreads, DestroyThreads, DestroyDriverThreads,
       DestroyBookThreads DEF Next
  <2>. QED
    BY <2>2, <2>3
<1>4. ThreadInv'
  BY <1>2, <1>3 DEF ThreadInv, Careful
<1>. QED
  BY <1>1, <1>4 DEF ResolveInv

\* It holds in every state.
LEMMA AlwaysResolves == Spec => []ResolveInv
  BY ResolveInit, ResolveNext, PTL DEF Spec

\* Whatever the threads do, a handle the application may use leads to its own object,
\* and no object outlives what it is kept for, unless the driver gives out handles the
\* tracer still knows.
THEOREM HandlesCorrect == Spec => []HandlesResolve
<1>1. ResolveInv => HandlesResolve
  <2>. SUFFICES ASSUME ResolveInv, ~app.reuse PROVE
           /\ \A h \in Handles :
                Usable(h) => map[h] \in live /\ ctx[map[h]].handle = h /\ ~ctx[map[h]].deleted
           /\ \A o \in live :
                \/ ctx[o].handle \in alive
                \/ \E t \in Threads : At(t, "destroy_book") /\ call[t].p = o
                \/ Sharing(o) # {}
    BY DEF HandlesResolve
  <2>1. CountInv /\ Handled /\ 0 \notin live
    BY DEF ResolveInv, HandleInv, CountInv, TypeOK, Objects
  <2>2. ASSUME NEW h \in Handles, Usable(h)
        PROVE  map[h] \in live /\ ctx[map[h]].handle = h /\ ~ctx[map[h]].deleted
    <3>1. map[h] \in live /\ ~ctx[map[h]].deleted
      BY <2>1, <2>2, UsableBooked DEF Handled, BookedOK
    <3>. QED
      BY <2>1, <3>1 DEF CountInv, MapOK
  <2>3. \A o \in live :
           \/ ctx[o].handle \in alive
           \/ \E t \in Threads : At(t, "destroy_book") /\ call[t].p = o
           \/ Sharing(o) # {}
    BY <2>1 DEF Handled, LiveOK
  <2>. QED
    BY <2>2, <2>3
<1>. QED
  BY AlwaysResolves, <1>1, PTL

\* No thread keeps a pointer to a context that was freed, between calls or in one, if
\* the application destroys no context that is current.
THEOREM PointersCorrect == Spec => []PointersLive
<1>1. ResolveInv => PointersLive
  <2>. SUFFICES ASSUME ResolveInv, Careful, NEW t \in Threads
                PROVE  /\ tls[t] \in live \union {0}
                       /\ ~At(t, "create") => {call[t].p, call[t].cur} \subseteq live \union {0}
    BY DEF PointersLive
  <2>1. CountInv /\ Handled /\ ThreadOK(t)
    BY DEF ResolveInv, HandleInv, ThreadInv, Careful
  <2>2. /\ current[t] \in Handles \union {NoHandle} /\ call[t] \in CallsOK
        /\ alive \subseteq Handles
    BY <2>1 DEF CountInv, TypeOK
  <2>3. /\ call[t].was \in Handles \union {NoHandle} /\ call[t].h \in Handles \union {NoHandle}
        /\ call[t].at \in Places
    BY <2>2 DEF CallsOK
  <2>4. Held(current[t]) /\ Held(call[t].was)
    BY <2>1, <2>2, <2>3 DEF ThreadOK, Held
  <2>5. Lookup(current[t]) \in live \union {0} /\ Lookup(call[t].was) \in live \union {0}
    BY <2>1, <2>4, HeldLive
  <2>6. tls[t] \in live \union {0} /\ call[t].cur \in live \union {0}
    BY <2>1, <2>5 DEF ThreadOK
  <2>7. CASE call[t].at \in {"mc_driver", "mc_book"}
    <3>1. Held(call[t].h) /\ call[t].p = Lookup(call[t].h)
      BY <2>1, <2>3, <2>7 DEF ThreadOK, Held
    <3>2. call[t].p \in live \union {0}
      BY <2>1, <3>1, HeldLive
    <3>. QED
      BY <2>6, <3>2
  <2>8. CASE At(t, "destroy")
    <3>1. Booked(call[t].h) /\ call[t].p = map[call[t].h] /\ call[t].h \in Handles
      BY <2>1, <2>2, <2>8, DestroyBooked DEF Handled, DestroysOK
    <3>2. call[t].p \in live
      BY <2>1, <3>1 DEF Handled, BookedOK
    <3>. QED
      BY <2>6, <3>2
  <2>9. CASE At(t, "destroy_book")
    <3>1. call[t].p \in live
      BY <2>1, <2>9 DEF Handled, DestroysOK
    <3>. QED
      BY <2>6, <3>1
  <2>10. CASE At(t, "idle")
    <3>1. call[t].p = 0
      BY <2>1, <2>10 DEF ThreadOK
    <3>. QED
      BY <2>6, <3>1
  <2>11. CASE At(t, "create")
    BY <2>6, <2>11
  <2>. QED
    BY <2>3, <2>7, <2>8, <2>9, <2>10, <2>11 DEF Places, At
<1>. QED
  BY AlwaysResolves, <1>1, PTL

\* Between calls the tracer and the driver agree on what is current, and always on
\* which contexts share.
THEOREM DriverCorrect == Spec => []FollowsDriver
<1>1. ResolveInv => FollowsDriver
  <2>. SUFFICES ASSUME ResolveInv PROVE FollowsDriver
    OBVIOUS
  <2>1. Careful => \A t \in Threads : At(t, "idle") => tls[t] = Lookup(current[t])
    BY DEF ResolveInv, ThreadInv, ThreadOK, At
  <2>2. ASSUME ~app.reuse, NEW h \in Handles, Usable(h)
        PROVE  Root(map[h]) = group[h]
    <3>1. Handled
      BY <2>2 DEF ResolveInv, HandleInv
    <3>2. Booked(h)
      BY <2>2, <3>1, UsableBooked
    <3>. QED
      BY <3>1, <3>2 DEF Handled, BookedOK, Root, IsRoot
  <2>. QED
    BY <2>1, <2>2 DEF FollowsDriver
<1>. QED
  BY AlwaysResolves, <1>1, PTL

=============================================================================

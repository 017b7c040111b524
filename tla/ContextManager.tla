---------------------------- MODULE ContextManager ----------------------------
(***************************************************************************)
(* The tracer's shadow contexts: vogl_context_manager and the GLX          *)
(* entrypoints that create, make current, release and destroy contexts     *)
(* (src/src/vogltrace/vogl_intercept.cpp).                                 *)
(*                                                                         *)
(* A shadow context is reference counted: one reference for its handle,    *)
(* and in the root of a share group one for every other context of the     *)
(* group.  Every call makes the driver's call outside the map's lock and   *)
(* does its bookkeeping afterwards; other threads run in between.          *)
(*                                                                         *)
(* A context object is a number from 1 on, 0 is NULL; objects are numbered *)
(* in the order in which the driver creates contexts.                      *)
(*                                                                         *)
(* An operator named Wrong... is not part of the model: it is the operator *)
(* below it with a mistake in it, kept to show that a property notices.    *)
(***************************************************************************)
EXTENDS Integers, FiniteSets

CONSTANTS
  Threads,
  Handles,      \* the values a GLXContext can have
  NoHandle,     \* NULL as a GLXContext
  NoThread,     \* 0 as a thread
  MaxContexts,  \* bound on the contexts that are created
  Apps          \* the ways the application and its driver may behave

ASSUME ContextAssumption ==
  /\ MaxContexts \in Nat
  /\ NoHandle \notin Handles
  /\ NoThread \notin Threads
  /\ Apps \subseteq [reuse : BOOLEAN, destroyCurrent : BOOLEAN]

VARIABLES
  app,      \* reuse: the driver may return a handle that the tracer still knows
            \* destroyCurrent: the application destroys contexts that are current
            \* on a thread, or that a thread is just releasing
  alive,    \* driver: contexts that are created and not destroyed
  current,  \* driver: each thread's current context
  group,    \* driver: which contexts share, as the first context of the group
  made,     \* how many contexts were created
  ctx,      \* the context objects
  live,     \* the objects that are allocated
  map,      \* m_glx_context_map, 0 if a handle is unknown
  tls,      \* m_pContext of each thread's vogl_thread_local_data
  call      \* the call each thread is in, with its local variables

driver == <<alive, current, group, made>>
shadow == <<ctx, live, map, tls>>
vars   == <<app, driver, shadow, call>>

Objects == 1..MaxContexts

Pointers == 0..MaxContexts

\* h: the call's handle; share: its share context; was: the context that was
\* current when the call began; p: the object it found or is to fill; cur:
\* pCur_context; ok: what the driver's call returned.
Idle == [at |-> "idle", h |-> NoHandle, share |-> NoHandle, was |-> NoHandle,
         p |-> 0, cur |-> 0, ok |-> FALSE]

Unused == [handle |-> NoHandle, ref |-> 0, deleted |-> FALSE, shared |-> 0,
           thread |-> NoThread]

\* vogl_context::vogl_context: the root of a group of its own.
Fresh(o, h) == [handle |-> h, ref |-> 1, deleted |-> FALSE, shared |-> o,
                thread |-> NoThread]

Init ==
  /\ app \in Apps
  /\ alive = {}
  /\ current = [t \in Threads |-> NoHandle]
  /\ group = [h \in Handles |-> 0]
  /\ made = 0
  /\ ctx = [o \in Objects |-> Unused]
  /\ live = {}
  /\ map = [h \in Handles |-> 0]
  /\ tls = [t \in Threads |-> 0]
  /\ call = [t \in Threads |-> Idle]

At(t, place) == call[t].at = place

Return(t) == call' = [call EXCEPT ![t] = Idle]

Lookup(h) == IF h = NoHandle THEN 0 ELSE map[h]

\* A handle the application holds and no call in progress creates or destroys.
Usable(h) ==
  /\ h \in alive
  /\ \A u \in Threads : call[u].h = h => call[u].at \notin {"create", "destroy"}

-----------------------------------------------------------------------------
(* glXCreateContext, glXCreateNewContext, glXCreateContextAttribsARB.        *)

IsRoot(o) == ctx[o].shared = o

\* The loop towards the root makes one turn at most, see SharesAreCounted.
Root(o) == IF IsRoot(o) THEN o ELSE ctx[o].shared

\* The driver's call.  The handle of a context that is destroyed but still
\* current is in use.
Create(t) ==
  /\ At(t, "idle")
  /\ made < MaxContexts
  /\ \E h \in Handles \ alive, s \in {NoHandle} \union {x \in alive : Usable(x)} :
       /\ \A u \in Threads : current[u] # h
       /\ app.reuse \/ (map[h] = 0 /\ \A u \in Threads : call[u].h # h)
       /\ alive' = alive \union {h}
       /\ group' = [group EXCEPT ![h] = IF s = NoHandle THEN made + 1 ELSE group[s]]
       /\ made' = made + 1
       /\ call' = [call EXCEPT ![t] = [Idle EXCEPT !.at = "create", !.h = h,
                                         !.share = s, !.p = made + 1]]
  /\ UNCHANGED <<app, current, shadow>>

WrongCreateBook(t) ==
  LET h == call[t].h
      o == call[t].p
      s == Lookup(call[t].share)
  IN  /\ At(t, "create")
      /\ live' = live \union {o}
      /\ map' = [map EXCEPT ![h] = IF @ = 0 THEN o ELSE @]
      /\ ctx' = [ctx EXCEPT ![o] = IF s = 0 THEN Fresh(o, h)
                                   ELSE [Fresh(o, h) EXCEPT !.shared = Root(s)]]
      /\ Return(t)
      /\ UNCHANGED <<app, driver, tls>>

\* The bookkeeping, under the map's lock.  The map keeps the value it has for a
\* handle that is already in it.
CreateBook(t) ==
  LET h == call[t].h
      o == call[t].p
      s == Lookup(call[t].share)
  IN  /\ At(t, "create")
      /\ live' = live \union {o}
      /\ map' = [map EXCEPT ![h] = IF @ = 0 THEN o ELSE @]
      /\ ctx' = IF s = 0 THEN [ctx EXCEPT ![o] = Fresh(o, h)]
                ELSE [ctx EXCEPT ![o] = [Fresh(o, h) EXCEPT !.shared = Root(s)],
                                 ![Root(s)].ref = @ + 1]
      /\ Return(t)
      /\ UNCHANGED <<app, driver, tls>>

-----------------------------------------------------------------------------
(* glXMakeCurrent, with a context or with none.                              *)

MakeCurrent(t) ==
  /\ At(t, "idle")
  /\ tls[t] \in live \union {0}
  /\ \E h \in {NoHandle} \union {x \in alive : Usable(x)} :
       call' = [call EXCEPT ![t] = [Idle EXCEPT !.at = "mc_driver", !.h = h,
                      !.was = current[t], !.p = Lookup(h), !.cur = tls[t]]]
  /\ UNCHANGED <<app, driver, shadow>>

\* The driver refuses a context that is current on another thread, and may
\* refuse any.
MCDriver(t) ==
  /\ At(t, "mc_driver")
  /\ \E ok \in BOOLEAN :
       /\ ok => \A u \in Threads \ {t} : call[t].h \in Handles => current[u] # call[t].h
       /\ current' = IF ok THEN [current EXCEPT ![t] = call[t].h] ELSE current
       /\ call' = [call EXCEPT ![t] = [@ EXCEPT !.at = "mc_book", !.ok = ok]]
  /\ UNCHANGED <<app, alive, group, made, shadow>>

WrongSwitches(t) == call[t].cur # call[t].p

WrongFirstOnly(t) == call[t].ok /\ call[t].cur = 0

\* The calls that change the thread's context in the driver.
Switches(t) == call[t].ok /\ call[t].cur # call[t].p

\* release_current: the object that stops being the thread's.
Released(t) == IF call[t].cur = 0 THEN 0 ELSE tls[t]

\* Without an object for a new current context the code dereferences NULL.
MCBook(t) ==
  /\ At(t, "mc_book")
  /\ IF Switches(t)
     THEN /\ Released(t) \in live \union {0}
          /\ call[t].h = NoHandle \/ call[t].p \in live
          /\ ctx' = [o \in Objects |->
                       IF o = call[t].p THEN [ctx[o] EXCEPT !.thread = t]
                       ELSE IF o = Released(t) THEN [ctx[o] EXCEPT !.thread = NoThread]
                       ELSE ctx[o]]
          /\ tls' = [tls EXCEPT ![t] = call[t].p]
     ELSE UNCHANGED <<ctx, tls>>
  /\ Return(t)
  /\ UNCHANGED <<app, driver, live, map>>

-----------------------------------------------------------------------------
(* glXDestroyContext.                                                        *)

\* The application destroys no context that another call is using.
Destroy(t) ==
  /\ At(t, "idle")
  /\ \E h \in {x \in alive : Usable(x)} :
       /\ \A u \in Threads : \/ At(u, "destroy_book")
                             \/ call[u].h # h /\ call[u].share # h
       /\ \/ app.destroyCurrent
          \/ \A u \in Threads : current[u] # h /\ call[u].was # h
       /\ call' = [call EXCEPT ![t] = [Idle EXCEPT !.at = "destroy", !.h = h,
                                                     !.p = Lookup(h)]]
  /\ UNCHANGED <<app, driver, shadow>>

\* The driver keeps a context that is current until it is released.
DestroyDriver(t) ==
  /\ At(t, "destroy")
  /\ alive' = alive \ {call[t].h}
  /\ call' = [call EXCEPT ![t].at = "destroy_book"]
  /\ UNCHANGED <<app, current, group, made, shadow>>

\* vogl_context_manager::destroy_context of these handles.
DestroyContexts(t, hs) ==
  LET dead == {map[h] : h \in hs}
  IN  /\ live' = live \ dead
      /\ map' = [h \in Handles |-> IF h \in hs THEN 0 ELSE map[h]]
      /\ tls' = [tls EXCEPT ![t] = IF @ \in dead THEN 0 ELSE @]

WrongLastReference(o) == ctx[o].ref <= 2

\* del_ref: the reference that is given up is the last one.
LastReference(o) == ctx[o].ref <= 1

\* get_deleted_flag
Gone(o) == ctx[o].deleted

\* The bookkeeping, under the map's lock, of an object that is not yet deleted.
DropReference(t, p) ==
  LET h == call[t].h
      r == ctx[p].shared
  IN  \/ /\ ~LastReference(p)
         /\ ctx' = [ctx EXCEPT ![p].deleted = TRUE, ![p].ref = @ - 1]
         /\ DestroyContexts(t, {})
      \/ /\ LastReference(p) /\ IsRoot(p)
         /\ ctx' = [ctx EXCEPT ![p].deleted = TRUE, ![p].ref = @ - 1]
         /\ DestroyContexts(t, {h})
      \/ /\ LastReference(p) /\ ~IsRoot(p)
         /\ ctx' = [ctx EXCEPT ![p].deleted = TRUE, ![p].ref = @ - 1,
                               ![p].shared = 0, ![r].ref = @ - 1]
         /\ DestroyContexts(t, IF LastReference(r) THEN {h, ctx[r].handle} ELSE {h})

DestroyBook(t) ==
  LET p == call[t].p
  IN  /\ At(t, "destroy_book")
      /\ p \in live \union {0}
      /\ IF p = 0 \/ Gone(p) THEN UNCHANGED shadow
                              ELSE DropReference(t, p)
      /\ Return(t)
      /\ UNCHANGED <<app, driver>>

\* A step that would use an object that was freed, or NULL, is not taken: what
\* follows is undefined.
Next ==
  \E t \in Threads :
    \/ Create(t) \/ CreateBook(t)
    \/ MakeCurrent(t) \/ MCDriver(t) \/ MCBook(t)
    \/ Destroy(t) \/ DestroyDriver(t) \/ DestroyBook(t)

Spec == Init /\ [][Next]_vars

-----------------------------------------------------------------------------
(* Properties.                                                               *)

Objs == [handle : Handles \union {NoHandle}, ref : Nat, deleted : BOOLEAN,
         shared : Pointers, thread : Threads \union {NoThread}]

Places == {"idle", "create", "mc_driver", "mc_book", "destroy", "destroy_book"}

CallsOK == [at : Places, h : Handles \union {NoHandle},
            share : Handles \union {NoHandle},
            was : Handles \union {NoHandle}, p : Pointers, cur : Pointers,
            ok : BOOLEAN]

\* Type invariant; no reference count becomes negative.
TypeOK ==
  /\ app \in Apps
  /\ alive \subseteq Handles
  /\ current \in [Threads -> Handles \union {NoHandle}]
  /\ group \in [Handles -> Pointers]
  /\ made \in Pointers
  /\ ctx \in [Objects -> Objs]
  /\ live \subseteq Objects
  /\ map \in [Handles -> Pointers]
  /\ tls \in [Threads -> Pointers]
  /\ call \in [Threads -> CallsOK]

Sharing(r) == {s \in live \ {r} : ctx[s].shared = r}

Counted(o) ==
  /\ ctx[o].shared \in live /\ IsRoot(ctx[o].shared)
  /\ IF IsRoot(o)
     THEN ctx[o].ref = Cardinality(Sharing(o)) + IF ctx[o].deleted THEN 0 ELSE 1
     ELSE ctx[o].ref = 1 /\ ~ctx[o].deleted

\* In every share group the root is allocated for as long as any context of the
\* group, and its count is one for its own handle, until that is destroyed, and
\* one for each other context; a context that shares is the root of nothing.
SharesAreCounted == \A o \in live : Counted(o)

Careful == ~app.reuse /\ ~app.destroyCurrent

\* No thread is left with a pointer to a freed context, in its thread-local data
\* or in the middle of a call, if no context is destroyed while current and
\* handles of contexts the tracer still knows are not reused.
PointersLive ==
  Careful => \A t \in Threads :
    /\ tls[t] \in live \union {0}
    /\ ~At(t, "create") => {call[t].p, call[t].cur} \subseteq live \union {0}

\* A handle the application may use leads to the object that was created for it,
\* and an object stays allocated only for a context that exists, or is being
\* destroyed, and for the other contexts of the group it is the root of.
HandlesResolve ==
  ~app.reuse =>
    /\ \A h \in Handles :
         Usable(h) => map[h] \in live /\ ctx[map[h]].handle = h /\ ~ctx[map[h]].deleted
    /\ \A o \in live :
         \/ ctx[o].handle \in alive
         \/ \E t \in Threads : At(t, "destroy_book") /\ call[t].p = o
         \/ Sharing(o) # {}

\* The tracer agrees with the driver: between calls each thread's context is the
\* one the driver has current, and two contexts are in one group for the tracer
\* if they share in the driver, also when contexts in between, or the first one,
\* were destroyed.
FollowsDriver ==
  /\ Careful => \A t \in Threads :
       At(t, "idle") => tls[t] = Lookup(current[t])
  /\ ~app.reuse => \A h, k \in Handles :
       Usable(h) /\ Usable(k) =>
         (group[h] = group[k] <=> Root(map[h]) = Root(map[k]))

\* A context that is destroyed was not destroyed before
\* ("VOGL_ASSERT(!pContext->get_deleted_flag())").
DestroyedOnce ==
  \A t \in Threads :
    At(t, "destroy_book") /\ call[t].p \in live => ~ctx[call[t].p].deleted
=============================================================================

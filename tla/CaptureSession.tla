--------------------------- MODULE CaptureSession ---------------------------
(***************************************************************************)
(* What src/src/vogltrace/vogl_intercept.h promises the client of the      *)
(* capture interface: a session is armed by a request, starts at a swap,   *)
(* counts its frames down and closes; one callback belongs to it.          *)
(* TraceCapture implements this with threads, two locks and failures.      *)
(***************************************************************************)
EXTENDS Naturals

CONSTANTS MaxFrames, UINT32_MAX, MaxRequests, FullStream

VARIABLES
  phase,   \* "idle", "armed" (a request is queued) or "capturing"
  left,    \* frames left to capture, UINT32_MAX for all of them
  notify   \* the callback to tell of the outcome, 0 for none

svars == <<phase, left, notify>>

Counts == 1..MaxFrames \union {UINT32_MAX}
Callbacks == 1..MaxRequests

Init == /\ phase \in {"idle"} \union IF FullStream THEN {"capturing"} ELSE {}
        /\ left = 0
        /\ notify = 0

\* A request is accepted unless a capture is in progress; a request that is
\* still queued is replaced, callback and all.
Arm == /\ phase # "capturing"
       /\ phase' = "armed"
       /\ left' \in Counts
       /\ notify' \in Callbacks

\* The queued request starts, for exactly the frames and the callback asked.
Start == /\ phase = "armed"
         /\ phase' = "capturing"
         /\ UNCHANGED <<left, notify>>

Frame == /\ phase = "capturing"
         /\ left \in 1..MaxFrames
         /\ left' = left - 1
         /\ UNCHANGED <<phase, notify>>

\* Stopping with a callback of its own redirects the report.
Redirect == /\ phase = "capturing"
            /\ notify' \in Callbacks
            /\ UNCHANGED <<phase, left>>

Close == /\ phase = "capturing"
         /\ phase' = "idle" /\ left' = 0 /\ notify' = 0

\* A request that cannot start is dropped with its callback.
GiveUp == /\ phase = "armed"
          /\ phase' = "idle" /\ left' = 0 /\ notify' = 0

\* The process is ending: a queued request stays, its callback does not.
Detach == /\ phase = "armed"
          /\ notify' = 0
          /\ UNCHANGED <<phase, left>>

Next == Arm \/ Start \/ Frame \/ Redirect \/ Close \/ GiveUp \/ Detach

Spec == Init /\ [][Next]_svars
=============================================================================

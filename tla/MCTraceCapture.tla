--------------------------- MODULE MCTraceCapture ---------------------------
(* Model values and bounds for TLC.                                          *)
EXTENDS TraceCapture, TLC

CONSTANTS t1, t2

Symmetry == Permutations(Threads)

=============================================================================

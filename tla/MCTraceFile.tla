---------------------------- MODULE MCTraceFile ----------------------------
(* Bounds for TLC.                                                           *)
EXTENDS TraceFile

=============================================================================

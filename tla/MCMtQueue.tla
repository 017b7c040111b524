------------------------------ MODULE MCMtQueue ------------------------------
(* Model values and bounds for TLC.                                          *)
EXTENDS MtQueue, TLC

CONSTANTS p1, p2, c1, c2

=============================================================================

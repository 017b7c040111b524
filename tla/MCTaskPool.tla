------------------------------ MODULE MCTaskPool ------------------------------
(* Bounds for TLC.                                                           *)
EXTENDS TaskPool

=============================================================================

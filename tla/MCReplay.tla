------------------------------ MODULE MCReplay ------------------------------
(* Bounds for TLC.                                                           *)
EXTENDS Replay

\* A loop from the first or the second frame, or one trim file.
MCOptions == {[loop |-> f, trims |-> {}] : f \in {0, 1}} \union {[loop |-> -1, trims |-> {1}]}

\* Two trim files.
MCTrims == {[loop |-> -1, trims |-> {1, 2}]}

=============================================================================

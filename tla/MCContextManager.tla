--------------------------- MODULE MCContextManager ---------------------------
(* Model values and bounds for TLC.                                          *)
EXTENDS ContextManager, TLC

CONSTANTS t1, t2, h1, h2, h3

\* The application and the driver behave in every way.
AllApps == [reuse : BOOLEAN, destroyCurrent : BOOLEAN]

\* Handles are reused, contexts are not destroyed while current.
Reuses == [reuse : {TRUE}, destroyCurrent : {FALSE}]

Symmetry == Permutations(Threads) \union Permutations(Handles)
=============================================================================

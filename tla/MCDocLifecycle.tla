--------------------------- MODULE MCDocLifecycle ---------------------------
(* DocLifecycle for TLC: the symmetry of the ids.                          *)
EXTENDS DocLifecycle, TLC

Symmetry == Permutations(Procs) \cup Permutations(Docs)
=============================================================================

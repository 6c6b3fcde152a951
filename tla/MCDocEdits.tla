----------------------------- MODULE MCDocEdits -----------------------------
(* DocEdits for TLC: the symmetry of the writers.                          *)
EXTENDS DocEdits, TLC

Symmetry == Permutations(Procs)
=============================================================================

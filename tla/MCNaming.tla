------------------------------ MODULE MCNaming ------------------------------
(* Naming for TLC: the symmetry of the inserts and their documents.        *)
EXTENDS Naming, TLC

Symmetry == Permutations(Procs) \cup Permutations(Docs)
=============================================================================

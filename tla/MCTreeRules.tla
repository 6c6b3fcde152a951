---------------------------- MODULE MCTreeRules -----------------------------
(* TreeRules for TLC: the symmetry of the requests, nodes and trees.       *)
EXTENDS TreeRules, TLC

Symmetry == Permutations(Procs) \cup Permutations(Nodes) \cup Permutations(KindSet)
=============================================================================

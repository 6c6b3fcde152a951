---------------------------- MODULE MCReseedLock ----------------------------
(* ReseedLock for TLC: the kinds of write of the runs and the symmetry of  *)
(* the requests and the rows.                                              *)
EXTENDS ReseedLock, TLC

AppWrites == {"app"}
ActionWrites == {"coreAction"}
Symmetry == Permutations(Procs) \cup Permutations(Ids)
=============================================================================

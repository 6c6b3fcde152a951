----------------------------- MODULE MCFileStore -----------------------------
(* FileStore for TLC: the symmetry of the requests, rows and contents.    *)
EXTENDS FileStore, TLC

Symmetry == Permutations(Requests) \cup Permutations(Files) \cup Permutations(Keys)
=============================================================================

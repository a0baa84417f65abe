----------------------------- MODULE MCFileCache ----------------------------
(* Small instances of FileCache: two processes, two values.                 *)
EXTENDS FileCache, TLC

CONSTANTS p1, p2, old, new

Symmetric == Permutations(Procs) \cup Permutations(Values)
=============================================================================

------------------------- MODULE MCFileChangeStore -------------------------
(* Instances of FileChangeStore for TLC.                                   *)
EXTENDS FileChangeStore, TLC

CONSTANTS t1, t2
ThreadSymmetry == Permutations(Threads)
=============================================================================

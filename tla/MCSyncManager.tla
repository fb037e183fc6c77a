--------------------------- MODULE MCSyncManager ---------------------------
(* Instances of SyncManager for TLC.                                       *)
EXTENDS SyncManager, TLC

CONSTANTS t1, t2, c1, c2, p1

\* apply_changes of c1 never moves a counter in use; c2 moves it ahead of the
\* log by more than the log holds.
MCSeqOf == (c1 :> 0) @@ (c2 :> 3)

\* The tasks are interchangeable when every one of them records.
ThreadSymmetry == Permutations(Threads)
=============================================================================

-------------------------- MODULE MCChangeNotifier --------------------------
(* A notifier for TLC.                                                     *)
EXTENDS ChangeNotifier, TLC
CONSTANTS s1, s2, s3, t1, t2
Symmetry == Permutations(Subscriptions) \cup Permutations(Tasks)
=============================================================================

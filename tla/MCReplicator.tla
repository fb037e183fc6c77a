---------------------------- MODULE MCReplicator ----------------------------
(* The replicator and its runner for TLC.                                  *)
EXTENDS ReplicatorRunner
CONSTANTS c1, c2, h1
=============================================================================

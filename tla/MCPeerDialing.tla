--------------------------- MODULE MCPeerDialing ---------------------------
(* A replicator and its peers for TLC.                                     *)
EXTENDS PeerDialing
CONSTANTS c1, k1, p1, p2
=============================================================================

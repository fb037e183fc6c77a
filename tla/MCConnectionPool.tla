-------------------------- MODULE MCConnectionPool --------------------------
(* The connection pool for TLC.                                            *)
EXTENDS ConnectionPool, TLC
CONSTANTS u1, u2, p1, p2, p3
Symmetry == Permutations(Users) \cup Permutations(Peers)
=============================================================================

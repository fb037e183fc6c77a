------------------------ MODULE MCChangeStoreManager ------------------------
(* A manager of an in-memory store for TLC.                                *)
EXTENDS ChangeStoreManager
CONSTANTS t1, t2, k1, k2
=============================================================================

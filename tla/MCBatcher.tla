----------------------------- MODULE MCBatcher -----------------------------
(* Adders, background tasks and owners of the instances of BatcherTask.    *)
EXTENDS BatcherTask
CONSTANTS a1, a2, b1, b2, o1, o2
=============================================================================

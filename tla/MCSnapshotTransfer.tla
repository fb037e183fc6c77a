------------------------- MODULE MCSnapshotTransfer -------------------------
(* An exporter with three changes in two namespaces, and an importer.      *)
EXTENDS SnapshotTransfer, TLC

CONSTANTS a, b, c, t1, t2
MCNamespace == a :> "n" @@ b :> "n" @@ c :> "m"
MCDatabase == a :> "d" @@ b :> "d" @@ c :> "d"
\* The two changes of one database are interchangeable, and so are the tasks.
Symmetry == Permutations(Tasks) \cup Permutations({a, b})
=============================================================================

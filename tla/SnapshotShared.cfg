\* Two exports of up to three changes, two importing tasks and an owner.
SPECIFICATION Spec
CONSTANTS
  a = a
  b = b
  c = c
  t1 = t1
  t2 = t2
  Changes = {a, b, c}
  Namespace <- MCNamespace
  Database <- MCDatabase
  ChunkSize = 3
  Tasks = {t1, t2}
  MaxExports = 2
SYMMETRY Symmetry
INVARIANTS ExportedOnceInOrder AllChunksSuffice
PROPERTIES FinalizeExactOrFails
CHECK_DEADLOCK FALSE

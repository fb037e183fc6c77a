\* Two tasks record, apply, snapshot and crash; the log keeps two changes.
SPECIFICATION Spec
CONSTANTS
  t1 = t1
  p1 = p1
  t2 = t2
  c1 = c1
  c2 = c2
  Threads = {t1, t2}
  Recorders = {t1, t2}
  Changes = {c1, c2}
  Peers = {p1}
  MaxChanges = 2
  SeqOf <- MCSeqOf
  MaxBatch = 1
  MaxOffset = 4
INVARIANTS NeverMisses UniqueOffsets RetainsNewest
  RecordedOffsetNearlyServed
SYMMETRY ThreadSymmetry

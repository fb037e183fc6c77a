\* Two appending threads, two flush tasks.
SPECIFICATION Spec
CONSTANTS
  t1 = t1
  t2 = t2
  k1 = k1
  k2 = k2
  Threads = {t1, t2}
  FlushTasks = {k1, k2}
  MaxAppends = 4
INVARIANTS OffsetFindsChange
PROPERTIES ImplementsAppendLog FlushTasksEnd
CHECK_DEADLOCK FALSE

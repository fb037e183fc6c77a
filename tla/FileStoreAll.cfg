\* Everything that can go wrong, in any order.
SPECIFICATION Spec
CONSTANTS
  t1 = t1
  t2 = t2
  None = None
  Torn = Torn
  Threads = {t1, t2}
  FlushThreshold = 2
  IndexInterval = 2
  Behaviours = {"close", "useClosed", "compact", "diskFull", "torn"}
  MaxAppends = 3
  MaxOpens = 2
INVARIANTS GetSinceNeverMisses
PROPERTIES FileIsAppendLog AckedReachesLog OnlyCompactionLoses
CHECK_DEADLOCK FALSE

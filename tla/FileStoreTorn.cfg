\* A crash in the middle of a record.
SPECIFICATION Spec
CONSTANTS
  t1 = t1
  t2 = t2
  None = None
  Torn = Torn
  Threads = {t1}
  FlushThreshold = 1
  IndexInterval = 3
  Behaviours = {"torn"}
  MaxAppends = 2
  MaxOpens = 2
INVARIANT AckedSurvives

CHECK_DEADLOCK FALSE

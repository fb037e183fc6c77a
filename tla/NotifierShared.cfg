\* Three subscriptions with room for one event each, and two publishers.
SPECIFICATION Spec
CONSTANTS
  s1 = s1
  s2 = s2
  s3 = s3
  t1 = t1
  t2 = t2
  Missed = Missed
  Subscriptions = {s1, s2, s3}
  Tasks = {t1, t2}
  BufferSize = 1
  MaxCalls = 5
SYMMETRY Symmetry
INVARIANTS GapsAreReported SequencesOrderATask LastInFirstOutIsSafe
CHECK_DEADLOCK FALSE

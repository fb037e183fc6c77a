\* Two adders, an owner that starts and stops the background task twice, flushes by size, by hand and by age, a channel that may be full.
SPECIFICATION TaskSpec
CONSTANTS
  a1 = a1
  a2 = a2
  o1 = o1
  o2 = o2
  Owners = {o1}
  b1 = b1
  b2 = b2
  BgTasks = {b1, b2}
  None = None
  Adders = {a1, a2}
  MaxBatchSize = 2
  Capacity = 1
  ReceiverAlive = TRUE
  ForceFlushes = TRUE
  MaxAdds = 3
INVARIANTS EveryChangeOnce BatchNearlyBounded CallsTakeEffect
PROPERTIES SignalledEnds OldBatchFlushedOrLocked
CHECK_DEADLOCK FALSE

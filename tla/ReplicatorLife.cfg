\* Two callers start and shut down twice, record two changes and drop the runner.
CONSTANTS
  c1 = c1
  c2 = c2
  h1 = h1
  Callers = {c1, c2}
  MaxStarts = 2
  Hooks = {h1}
  Capacity = 1
  MaxChanges = 2
SPECIFICATION RunnerSpec
INVARIANTS OneAtATime NoEndpointLost StoppedIsClean
PROPERTIES SignalStops QueuedReachesHooks DropStops
CHECK_DEADLOCK FALSE

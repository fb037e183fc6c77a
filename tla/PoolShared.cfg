\* Two callers share a pool of one connection to three peers.
CONSTANTS
  u1 = u1
  u2 = u2
  p1 = p1
  p2 = p2
  p3 = p3
  Users = {u1, u2}
  Peers = {p1, p2, p3}
  MaxConnections = 1
  MaxUses = 2
  MaxMade = 6
SPECIFICATION Spec
SYMMETRY Symmetry
INVARIANTS InUseIsUsed FreeIsUnused PoolBounded
CHECK_DEADLOCK FALSE

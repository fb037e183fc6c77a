\* A caller starts and shuts down twice while another task connects by ticket to
\* one of two peers.
SPECIFICATION DialSpec
CONSTANTS
  c1 = c1
  k1 = k1
  p1 = p1
  p2 = p2
  NoPeer = NoPeer
  Callers = {c1}
  Connectors = {k1}
  Peers = {p1, p2}
  TicketPeers = {p1}
  MaxStarts = 2
  MaxAddresses = 2
INVARIANT DialsOwnEndpoint
PROPERTIES KnownPeersDialled ShutdownFreesConnect
CHECK_DEADLOCK FALSE

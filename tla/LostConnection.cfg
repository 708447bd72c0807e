\* One attach that the application starts after its connection is lost.
SPECIFICATION Spec
CONSTANTS
  c1 = c1
  c2 = c2
  s1 = s1
  s2 = s2
  Clients <- TwoClients
  Sessions <- TwoSessions
  Scripts <- OneAttach
  Hosts = {TRUE}
  MaxRequests = 1
  MaxCalls = 0
  MaxEnds = 1
CHECK_DEADLOCK FALSE
INVARIANTS
  LostConnectionsHoldNothing

\* Two connections and two Sessions, in applications that answer management calls
\* in turn or at once.  A closed server stays closed.
SPECIFICATION FairSpec
CONSTANTS
  c1 = c1
  c2 = c2
  s1 = s1
  s2 = s2
  Clients <- TwoClients
  Sessions <- TwoSessions
  Scripts <- AllScripts
  Hosts = {TRUE, FALSE}
  MaxRequests = 3
  MaxCalls = 1
  MaxEnds = 1
CHECK_DEADLOCK FALSE
INVARIANTS
  TypeOK
  OneHandlePerSession
  ReleaseWaitsForCalls
  RemovalReleasesFirst
  ClosedServerHoldsNothing
PROPERTIES
  CloseCompletes

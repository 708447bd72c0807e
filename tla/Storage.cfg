\* Three transactions through failures, stops, a repair, an upgrade and a fork.
SPECIFICATION FairSpec
CONSTANTS
  r1 = r1
  r2 = r2
  r3 = r3
  Requests <- ThreeRequests
  Formats = {"v3", "v4"}
  FaultsOnError = TRUE
  MaxFailures = 2
  MaxStops = 2
INVARIANTS
  TypeOK
  MemoryIsFile
  ForkIsSnapshot
PROPERTIES
  KeepsPromise
  CallersHear

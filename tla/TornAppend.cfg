\* Hosts that write through the Session go on after a failed append.
SPECIFICATION Spec
CONSTANTS
  r1 = r1
  r2 = r2
  r3 = r3
  Requests <- TwoRequests
  Formats = {"v4"}
  FaultsOnError = FALSE
  MaxFailures = 1
  MaxStops = 0
SYMMETRY Interchange
INVARIANTS
  TornLineIsLast

\* A new Session: the second run is compacted twice inside its turn.
SPECIFICATION Spec
CONSTANTS
  Stored <- NewSession
  MaxOps = 2
  MaxAttempts = 1
  MaxSummaries = 2
  Targets = {}
  MaxTurns = 1
  MaxIncidents = 0
CHECK_DEADLOCK FALSE
INVARIANT PreviousSummaryIsCarried

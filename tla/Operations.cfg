\* Two operations, one with parallel and one with serial tools, two stops.
SPECIFICATION FairSpec
CONSTANTS
  MaxOps = 2
  MaxItems = 0
  MaxAttempts = 2
  MaxCalls = 2
  MaxTurns = 1
  MaxStops = 2
  Kinds = {}
  Replies = {"stop", "tools", "error", "deferred", "fatal"}
  SteerAll = FALSE
  FollowUpAll = FALSE
  Serial = {2}
  Policies <- MixedPolicies
INVARIANTS
  TypeOK
  NoInvariantFault
  NothingLeftBehind
  GateInvariant
  PlacementIsCurrent
  CancelledEffectsAreSignalled
PROPERTIES
  EffectsOnlyWhileRunning
  EffectsHappenOnce
  SerialToolsFollowResults
  ResultsInSourceOrder
  KeepsLifecycle
  OperationsSettle
  PassesEnd

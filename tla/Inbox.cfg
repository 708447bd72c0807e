\* Two runs and items of every kind, on an idle lane and a busy one, with a stop.
SPECIFICATION Spec
CONSTANTS
  MaxOps = 2
  MaxItems = 2
  MaxAttempts = 2
  MaxCalls = 1
  MaxTurns = 1
  MaxStops = 1
  Kinds = {"steer", "followUp", "nextRun", "write", "note"}
  Replies = {"stop"}
  SteerAll = FALSE
  FollowUpAll = TRUE
  Serial = {}
  Policies <- MixedPolicies
INVARIANT
  NothingLeftBehind
PROPERTIES
  InputEntersInOrder
  CompletionTakesAllInput

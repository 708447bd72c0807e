\* requestAbort and a pass that waits for its retry.
SPECIFICATION Spec
CONSTANTS
  MaxOps = 1
  MaxItems = 0
  MaxAttempts = 2
  MaxCalls = 1
  MaxTurns = 1
  MaxStops = 0
  Kinds = {}
  Replies = {"stop", "error"}
  SteerAll = FALSE
  FollowUpAll = FALSE
  Serial = {}
  Policies <- MixedPolicies
INVARIANTS
  AbortWakesRetryWait

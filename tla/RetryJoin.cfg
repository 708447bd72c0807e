\* A prompt joins the pass of a drive that does not wait for retries.
SPECIFICATION Spec
CONSTANTS
  c1 = c1
  c2 = c2
  c3 = c3
  Callers <- Three
  Mixes <- SomeMixes
  MaxOps = 2
  MaxWaits = 1
  MaxFailures = 0
CHECK_DEADLOCK FALSE
INVARIANT
  JoinersMayDriveAgain

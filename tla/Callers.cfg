\* Three calls of every kind, with waits, a failed commit and a close.
SPECIFICATION FairSpec
CONSTANTS
  c1 = c1
  c2 = c2
  c3 = c3
  Callers <- Three
  Mixes <- SomeMixes
  MaxOps = 2
  MaxWaits = 1
  MaxFailures = 1
CHECK_DEADLOCK FALSE
INVARIANTS
  TypeOK
  CallbackIsAlone
  AnswersAreOwn
PROPERTIES
  ClosedIsQuiet
  CallsReturn

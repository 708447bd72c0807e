\* One operation of any kind with up to two summaries, on a transcript that is
\* new, compacted or navigated, with any abort and an append or a crash.
SPECIFICATION FairSpec
CONSTANTS
  Stored <- Transcripts
  MaxOps = 1
  MaxAttempts = 2
  MaxSummaries = 2
  Targets = {1}
  MaxTurns = 1
  MaxIncidents = 1
CHECK_DEADLOCK FALSE
INVARIANTS
  TypeOK
  SummariesFit
PROPERTIES
  CompactsOncePerCause
  SummariesSettle

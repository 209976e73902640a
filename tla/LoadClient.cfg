\* Three requests over two workers, two attempts each, a series of two.
CONSTANTS
  MaxJobs = 3
  Concurrency = 2
  MaxAttempts = 2
  StopAfterInvalid = 2
SPECIFICATION FairSpec
CHECK_DEADLOCK FALSE
INVARIANTS
  SummaryAddsUp
  ExitCodeTells
  StopsForASeries
PROPERTIES
  RetriesRunOut
  RunEnds

SPECIFICATION FairSpec
CONSTANTS
  Records = {1, 2}
  EveryN = 1
  Deletes = TRUE
  Paged = FALSE
  Ops <- DataOps
  MaxClock = 3
  MaxRequests = 0
  MaxFailures = 0
  MaxAttempts = 2
INVARIANTS TypeOK NothingMissed
PROPERTIES MarkNeverFalls EventuallyMirrored

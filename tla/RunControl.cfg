SPECIFICATION Spec
CONSTANTS
  Records = {1, 2}
  EveryN = 2
  Deletes = TRUE
  Paged = TRUE
  Ops <- ControlOps
  MaxClock = 3
  MaxRequests = 2
  MaxFailures = 1
  MaxAttempts = 2
INVARIANTS NothingMissed FullEveryN EarlyRefreshKept

SPECIFICATION Spec
CONSTANTS
  Records = {1, 2}
  EveryN = 0
  Deletes = TRUE
  Paged = FALSE
  Ops <- OnlyWrites
  MaxClock = 2
  MaxRequests = 0
  MaxFailures = 0
  MaxAttempts = 2
PROPERTY ReadAfterWrite

SPECIFICATION Spec
CONSTANTS
  x1 = x1
  x2 = x2
  p1 = p1
  p2 = p2
  Clients <- TwoClients
  Calls <- TwoCalls
  Policies <- AllPolicies
  Rotating <- RotatingPolicies
  Lifetime = 5
  Threshold = 3
  Delay = 1
  MaxClock = 5
  MaxIssued = 3
  MaxGrants = 1
SYMMETRY Interchangeable
INVARIANTS TypeOK NeverStranded AccessIsLive RefusedOnlyIfWithdrawn

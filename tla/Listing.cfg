SPECIFICATION Spec
CONSTANTS
  Records = {1, 2}
  Policies <- EveryWay
  GivenUp <- OneWay
  PageSize = 1
  SearchLimit = 1
  MaxClock = 3
INVARIANTS TypeOK OnlySlippedAreMissed ListingInv
PROPERTY QuietFullRunRepairs

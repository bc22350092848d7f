SPECIFICATION SettledSpec
CONSTANTS
  c1 = c1
  c2 = c2
  k1 = k1
  k2 = k2
  a = a
  b = b
  e = e
  hubspot = hubspot
  salesforce = salesforce
  w1 = w1
  w2 = w2
  Connections = {c1}
  Objects = {a, b, e}
  SyncConfigs = {k1, k2}
  Attempts = {w1}
  Listings <- ListingsE
  KindOf <- Kinds3
  ProviderOf <- OneProvider
  ProviderOfConfig <- OneConfigProvider
  ApiOps <- OnlyFull
  MaxApiCalls = 3
  MaxCrashes = 0
  Overlap = FALSE
INVARIANT FullRequestKept

SPECIFICATION QuietFairSpec
CONSTANTS
  c1 = c1
  c2 = c2
  k1 = k1
  k2 = k2
  a = a
  b = b
  e = e
  hubspot = hubspot
  salesforce = salesforce
  w1 = w1
  w2 = w2
  Connections = {c1}
  Objects = {a, b}
  SyncConfigs = {k1}
  Attempts = {w1}
  Listings <- Listings2
  KindOf <- Kinds3
  ProviderOf <- OneProvider
  ProviderOfConfig <- OneConfigProvider
  ApiOps <- ClientOps
  MaxApiCalls = 4
  MaxCrashes = 1
  Overlap = FALSE
INVARIANTS TypeOK DriftIsPending OrphansOnlyUnannounced OneSyncPerObject SyncsMatchConfig IndInv
PROPERTIES AckMeansApplied MirrorsSyncs QuietAttemptsSettle Converges

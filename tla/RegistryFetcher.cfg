\* RegistryFetcher with one refresh over two tiers of the network; the first
\* serves a body that is not JSON, then a good one, then one that is no catalog.
SPECIFICATION FairSpec
CONSTANTS
  Refresh = {r1}
  NetworkTiers = 2
  MaxBody = 3
  MaxMirrored = 1
  Malformed = {1}
  NoCatalog = {3}
  HasKey = TRUE
INVARIANTS ShownIsAcceptable
PROPERTIES CatalogCatchesUp

\* RegistryFetcher with the scheduler's refresh and the user's over one tier, which
\* publishes twice: the row of one is marked by the other.
SPECIFICATION Spec
CONSTANTS
  Refresh = {r1, r2}
  NetworkTiers = 1
  MaxBody = 2
  MaxMirrored = 0
  Malformed = {}
  NoCatalog = {}
  HasKey = TRUE
INVARIANTS VerifiedWasSigned

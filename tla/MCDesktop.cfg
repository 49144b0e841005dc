SPECIFICATION Spec
CONSTANTS
  u1 = u1
  u2 = u2
  u3 = u3
  i1 = i1
  i2 = i2
  k1 = k1
  k2 = k2
  c1 = c1
  c2 = c2
  c3 = c3
  d1 = d1
  d2 = d2
  Writers = {u1, u2, u3}
  Items = {i1, i2}
  First = i1
  None = None
  Keys = {k1, k2}
  MaxSecrets = 2
  Ingests = {c1, c2}
  Searches = {c3}
  Docs = {d1, d2}
  Models = {"bge-m3"}
  Known = {"a.db", "b.db"}
  PoolSize = 1
  MaxOpens = 3
  e1 = e1
  e2 = e2
  e3 = e3
  h1 = h1
  h2 = h2
  Events = {e1, e2, e3}
  QueueCap = 2
  MaxPosts = 2
  Checks = {h1, h2}
  MaxScans = 3
  a1 = a1
  a2 = a2
  m1 = m1
  m2 = m2
  r1 = r1
  r2 = r2
  Asks = {a1, a2}
  Entries = {m1, m2}
  Repos = {r1, r2}
  MaxHub = 1
  BroadcastCap = 1
INVARIANTS
  FilesAgree
  StartIsSafe
  SearchIsRight
  EventsAreKept
  PagesAreTold
  CachesFit
  DecidedAsPromised
CHECK_DEADLOCK FALSE

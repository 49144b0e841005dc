SPECIFICATION ServicesSpec
CONSTANTS
  FileVersion = {v1, v2}
  Expected = v1
  NoHash = NoHash
  Size = 3
  MaxRetries = 2
  EofMayTruncate = TRUE
  Request = {r1, r2, r3}
  Permits = 1
  RouterTimeout = 1
  ChatTimeout = 3
  RecentCapacity = 2
  p1 = p1
  p2 = p2
  Poller = {p1, p2}
  Version = {v2, v3}
  UpToDate = UpToDate
  MaxPolls <- MaxPollsDef
INVARIANTS FinalIsVerified SlotIsLive TellsEveryChange
PROPERTIES
  ProgressIsKept CallsEnd
  FirstComeFirstServed SerialisesUpstream QueueDrains
  CancelEnds
CHECK_DEADLOCK FALSE

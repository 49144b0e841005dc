SPECIFICATION FairSpec
CONSTANTS
  i1 = i1
  i2 = i2
  Workspace = {alpha, gamma}
  Known = {alpha}
  Ingest = {i1, i2}
  Content <- ContentDef
  Blank <- BlankDef
  Unreadable <- UnreadableDef
  Folder <- FolderDef
  MaxCrashes = 1
INVARIANTS RegistryIsExact DoneMeansIndexed CancelStopsWriting
PROPERTIES EveryIngestEnds
CHECK_DEADLOCK FALSE

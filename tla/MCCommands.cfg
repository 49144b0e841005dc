SPECIFICATION Spec
CONSTANTS
  c1 = c1
  c2 = c2
  i1 = i1
  i2 = i2
  Calls = {c1, c2}
  Ids = {i1, i2}
  None = None
  Entries = 1
  MaxAttempts = 2
  Prompts = 1
  Packed = 1
INVARIANTS
  LastWordAgrees
  SuccessIsReal
PROPERTIES
  OldIsKept
  CallsEnd
  ImplementsTaskLife
CONSTRAINT IdsInUse
CHECK_DEADLOCK FALSE

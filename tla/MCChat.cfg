SPECIFICATION Spec
CONSTANTS
  c1 = c1
  c2 = c2
  c3 = c3
  m1 = m1
  m2 = m2
  Chats = {c1, c2, c3}
  Models = {m1, m2}
  None = None
INVARIANTS
  OneServer
  LastWordAgrees
PROPERTIES
  CancelEnds
CONSTRAINT FewChats
CHECK_DEADLOCK FALSE

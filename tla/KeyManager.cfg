\* One key and two calls: two verifications overlap the edits of their key, and a
\* second key would share nothing with it.
SPECIFICATION KeySpec
CONSTANTS
  Key = {k1}
  Call = {c1, c2}
  Path = {chat}
  Origin = {site}
  Pipelines = {inherit, listed}
  Expiry = {1, 9}
  MaxTime = 1
  MaxEdits = 1
INVARIANTS AllowedWasInForce
PROPERTIES RevocationIsFinal
CHECK_DEADLOCK FALSE

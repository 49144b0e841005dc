SPECIFICATION ProxySpec
CONSTANTS
  q1 = q1
  q2 = q2
  m1 = m1
  Requests = {q1, q2}
  Callers = {q1, q2}
  Models = {m1}
  Bodies <- MCBodies
  Answers <- MCAnswers
  Saved = {"prompt-sanitize", "pii-redact"}
  Switches = {"pii-redact"}
  KeyPolicies <- MCListedPolicies
  Listed <- MCListed
  Restless = {"ollama"}
  ChannelCap = 2
  LogCap = 2
  None = None
  Nobody = Nobody
INVARIANT KeyPolicyApplies
CHECK_DEADLOCK FALSE

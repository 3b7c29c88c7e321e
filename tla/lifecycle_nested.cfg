SPECIFICATION FairSpec
CONSTANTS
  c1 = c1
  c2 = c2
  None = None
  Calls = {c1, c2}
  Deployments <- LiveCustom
  Policies <- KeyPolicies
  MaxChanges = 0
INVARIANTS
  AuditedOnce
  OneLifecycle
PROPERTIES
  EveryAttemptEnds
CHECK_DEADLOCK FALSE

SPECIFICATION Spec
CONSTANTS
  c1 = c1
  None = None
  Calls = {c1}
  Deployments <- AuditedDeployments
  Policies <- AllPolicies
  MaxChanges = 0
INVARIANTS
  ProviderFailuresAreObserved
CHECK_DEADLOCK FALSE

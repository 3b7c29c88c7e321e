SPECIFICATION Spec
CONSTANTS
  c1 = c1
  None = None
  Calls = {c1}
  Deployments <- AllDeployments
  Policies <- AllPolicies
  MaxChanges = 4
INVARIANTS
  TypeOK
  AuditedOnce
  AuditBeforeObservation
  OneLifecycle
  FreshAuthorization
  NoHelpAfterDenial
  RoutedHelpIsInert
PROPERTIES
  EffectsAreFinal
CHECK_DEADLOCK FALSE

\* A caller with one of five sets of rights, two resources out of four ways to
\* register them, and two changes by others during an attempt: enough to clear the
\* registry and register a name anew.
CONSTANTS
  NoValue = NoValue
  None = NoValue
  Anywhere = NoValue
  Schema <- MCSchema
  PrimaryKey <- MCPrimaryKey
  IllFormedKeys = {"a__b"}
  Zones = {"UTC"}
  Limits <- MCLimits
  ScopeWords <- MCScopeWords
  Identifiers = {"total"}
  Alphabetical <- MCAlphabetical
  Declarations <- MCDeclarations
  DefaultScopeMode = "context_scoped"
  PermissionSets <- MCPermissionSets
  Plans <- MCPlans
  Helps <- MCHelps
  Counts = {1, 5}
  MaxResources = 2
  MaxRaces = 2
SPECIFICATION Spec
INVARIANTS
  TypeOK
  DeclarationsHold
  GuidanceIsExact
  OnlyRightsDiffer
  RevalidationIsStable
  PreparedUnderCurrentRights
  HelpStaysInGuidance

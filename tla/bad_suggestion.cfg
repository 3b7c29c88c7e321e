\* The same callers, providers and registrations as plan_admission, nobody interfering.
CONSTANTS
  NoValue = NoValue
  None = NoValue
  Anywhere = NoValue
  Schema <- MCSchema
  PrimaryKey <- MCPrimaryKey
  IllFormedKeys = {"a__b"}
  Zones = {"UTC"}
  Limits <- MCLimits
  ScopeWords <- MCScopeWords
  Identifiers = {"total"}
  Alphabetical <- MCAlphabetical
  Declarations <- MCDeclarations
  DefaultScopeMode = "context_scoped"
  PermissionSets <- MCPermissionSets
  Plans <- MCPlans
  Helps <- MCHelps
  Counts = {1, 5}
  MaxResources = 2
  MaxRaces = 0
SPECIFICATION Spec
INVARIANTS
  InvalidSuggestionsAreFiltered

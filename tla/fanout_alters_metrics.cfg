\* The databases, plans and registrations of result_window, nobody writing.
CONSTANTS
  NoValue = NoValue
  None = NoValue
  OutOfRange = OutOfRange
  Schema <- MCSchema
  PrimaryKey <- MCPrimaryKey
  IllFormedKeys = {"a__b"}
  Zones = {"West", "Alps"}
  Limits <- MCLimits
  Clocks <- MCClocks
  Declarations <- MCDeclarations
  Permissions = {}
  Plans <- MCPlans
  Instants <- MCInstants
  Databases <- MCDatabases
  Containing <- MCContaining
  Caps <- MCCaps
  MaxWrites = 0
  MaxRuns = 1
SPECIFICATION Spec
INVARIANTS
  RootMetricsCountOnce

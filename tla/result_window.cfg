\* Four databases, one write by others and a reload; two ways of registering the
\* orders and two that must be refused.
CONSTANTS
  NoValue = NoValue
  None = NoValue
  OutOfRange = OutOfRange
  Schema <- MCSchema
  PrimaryKey <- MCPrimaryKey
  IllFormedKeys = {"a__b"}
  Zones = {"West", "Alps"}
  Limits <- MCLimits
  Clocks <- MCClocks
  Declarations <- MCDeclarations
  Permissions = {}
  Plans <- MCPlans
  Instants <- MCInstants
  Databases <- MCDatabases
  Containing <- MCContaining
  Caps <- MCCaps
  MaxWrites = 1
  MaxRuns = 2
SPECIFICATION Spec
INVARIANTS
  TypeOK
  MetricsAreTrue
  ReloadsAgree
  NothingSilentlyMissing
  NullsAreDeclared
  WindowsAgree

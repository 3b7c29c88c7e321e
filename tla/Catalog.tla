------------------------------- MODULE Catalog -------------------------------
(***************************************************************************)
(* What a host declares and what the catalog makes of it                   *)
(* (catalog/resources.py, catalog/introspection.py): resolving private     *)
(* bindings against the host's models, accepting or refusing a declaration *)
(* of a resource, who may see a member, and the public catalog.            *)
(*                                                                         *)
(* A declaration that breaks a rule raises before anything is stored, so   *)
(* the rules are predicates and their order is immaterial.  Labels and     *)
(* descriptions are left out.                                              *)
(*                                                                         *)
(* A scalar of a plan or an enumeration is [py, reads, value, spelling]:   *)
(* its Python type, the notation its text is in ("date", "uuid", ...), the *)
(* value that text denotes and which of its spellings it is (0 canonical). *)
(***************************************************************************)
EXTENDS Naturals, Sequences, FiniteSets, SequencesExt

CONSTANTS
  Schema,         \* the host's models: Schema[model][attribute] is its field
  PrimaryKey,     \* the name of each model's primary key
  IllFormedKeys,  \* names with an empty dotted segment or "__"
  Zones,          \* names of time zones the server knows
  None            \* an option left out

\* One attribute of a model.
\*   kind   "column", "forward" (foreign key), "reverse_one", "reverse_many"
\*          or "many_to_many"
\*   to     the related model, or None
\*   class  the Django field class of a column
\*   null   may be null;  unique  holds an unconditional unique constraint
Kinds == {"column", "forward", "reverse_one", "reverse_many", "many_to_many"}

ASSUME SchemaAssumption ==
  \A m \in DOMAIN Schema :
    /\ PrimaryKey[m] \in DOMAIN Schema[m]
    /\ \A a \in DOMAIN Schema[m] :
         /\ Schema[m][a].kind \in Kinds
         /\ (Schema[m][a].kind = "column") <=> (Schema[m][a].to = None)
         /\ Schema[m][a].to \in DOMAIN Schema \cup {None}

-----------------------------------------------------------------------------
(* introspection.py: private bindings *)

ToMany(column) == column.kind \in {"reverse_many", "many_to_many"}

\* getattr(field, "null", True): reverse relations are nullable.
NullableColumn(column) ==
  column.kind \in {"reverse_one", "reverse_many"} \/ column.null

ClassType ==
  [BooleanField |-> "boolean", DateTimeField |-> "datetime",
   DateField |-> "date", TimeField |-> "time", IntegerField |-> "integer",
   AutoField |-> "integer", DecimalField |-> "decimal",
   FloatField |-> "float", UUIDField |-> "uuid", CharField |-> "string",
   TextField |-> "string", JSONField |-> "jsonfield"]

\* The field classes the model knows.
ASSUME ClassAssumption ==
  \A m \in DOMAIN Schema : \A a \in DOMAIN Schema[m] :
    Schema[m][a].kind = "column" => Schema[m][a].class \in DOMAIN ClassType

GetFieldType(column) ==
  IF column.kind = "column" THEN ClassType[column.class] ELSE "relation"

\* The model each part of a path is looked up on; None once the path is lost.
Owners(model, path) ==
  LET owner[i \in 1..Len(path)] ==
        IF i = 1 THEN model
        ELSE LET from == owner[i - 1] IN
             IF from # None /\ path[i - 1] \in DOMAIN Schema[from]
             THEN Schema[from][path[i - 1]].to
             ELSE None
  IN owner

\* Every part of a path is an attribute of the model it is looked up on.
Leads(owner, path) ==
  \A i \in DOMAIN path :
    owner[i] \in DOMAIN Schema /\ path[i] \in DOMAIN Schema[owner[i]]

\* The joins a binding traverses, as prefixes of its path: every step but the
\* last, and the last when it is not a local column.
ResolveFieldPath(model, path) ==
  LET n == Len(path)
      Resolution(columns, joined) ==
        [found |-> TRUE, column |-> columns[n],
         edges |-> {SubSeq(path, 1, i) : i \in joined},
         many |-> {SubSeq(path, 1, i) : i \in {j \in joined : ToMany(columns[j])}},
         nullable |-> \/ \E i \in 1..n : NullableColumn(columns[i])
                      \/ \E i \in 1..n - 1 : ToMany(columns[i])]
      Along(columns) ==
        Resolution(columns, {i \in 1..n : i < n \/ columns[i].kind \notin {"column", "forward"}})
      From(owner) ==
        IF n > 0 /\ Leads(owner, path)
        THEN Along([i \in 1..n |-> Schema[owner[i]][path[i]]])
        ELSE [found |-> FALSE]
  IN From(Owners(model, path))

-----------------------------------------------------------------------------
(* Sequences *)

IsList(s) == Len(s) \in Nat /\ s = [i \in 1..Len(s) |-> s[i]]

\* The members of s at the positions in K, in the order of s.
AtPositions(s, K) ==
  LET position(n) == CHOOSE i \in K : Cardinality({j \in K : j <= i}) = n
  IN [n \in 1..Cardinality(K) |-> s[position(n)]]

\* Python's [x for x in s if Test(x)]: SelectSeq, by positions.
Those(s, Test(_)) == AtPositions(s, {i \in DOMAIN s : Test(s[i])})

-----------------------------------------------------------------------------
(* Permission tokens *)

\* A token is [form, perm, kind, scope].  form "exact" is the permission itself,
\* "scoped" is <kind>:<scope>:<permission>, "other" any longer text that ends
\* with :<permission>.

PermissionSetAllows(permissions, required) ==
  required = None \/ \E t \in permissions : t.perm = required

-----------------------------------------------------------------------------
(* Fields *)

FieldTypes == {"boolean", "date", "datetime", "decimal", "enum", "float",
               "integer", "string", "time", "uuid"}
NumericTypes == {"decimal", "float", "integer"}
DateTypes == {"date", "datetime"}

OperatorsOf(type) ==
  {"eq", "neq", "in", "isnull"}
    \cup (IF type = "string" THEN {"contains", "icontains"} ELSE {})
    \cup (IF type \in NumericTypes \cup DateTypes \cup {"time"}
          THEN {"gt", "gte", "lt", "lte"} ELSE {})
    \cup (IF type \in DateTypes
          THEN {"date_range", "last_n_days", "last_n_months"} ELSE {})

BindingTypeMatches(type, bindingType) ==
  \/ type = bindingType
  \/ type = "enum" /\ bindingType \in {"integer", "string"}

\* The texts accepted for one value of an enumeration, itself first.
EnumTokens(v) == {v.value} \cup ToSet(v.aliases)

EnumUnambiguous(values) ==
  \A i, j \in DOMAIN values :
    i # j => EnumTokens(values[i]) \cap EnumTokens(values[j]) = {}

EnumAccepted(type, bindingType, enum) ==
  IF type # "enum" THEN enum = None
  ELSE /\ enum # None
       /\ enum.type \in {"string", "integer"} /\ enum.type = bindingType
       /\ enum.values # <<>>
       /\ \A v \in ToSet(enum.values) :
            /\ v.value.py = IF enum.type = "string" THEN "str" ELSE "int"
            /\ \A t \in EnumTokens(v) : t.py \in {"str", "int"} /\ t.reads # "empty"
       /\ EnumUnambiguous(enum.values)

\* Mutant of FieldAccepted: a nullable binding may be declared non-null.
FieldAcceptedAnyNull(model, config) ==
  /\ config.name \notin IllFormedKeys
  /\ config.type \in FieldTypes
  /\ \E binding \in {ResolveFieldPath(model, config.binding)} :
       /\ binding.found
       /\ BindingTypeMatches(config.type, GetFieldType(binding.column))
       /\ EnumAccepted(config.type, GetFieldType(binding.column), config.enum)

FieldAccepted(model, config) ==
  /\ config.name \notin IllFormedKeys
  /\ config.type \in FieldTypes
  /\ \E binding \in {ResolveFieldPath(model, config.binding)} :
       /\ binding.found
       /\ BindingTypeMatches(config.type, GetFieldType(binding.column))
       /\ EnumAccepted(config.type, GetFieldType(binding.column), config.enum)
       /\ binding.nullable => config.nullable

\* What a flag left out means: a mapping hides a sensitive field, a prebuilt
\* FieldSpec (config.prebuilt) keeps the dataclass default.
Flag(config, given) ==
  IF given # None THEN given ELSE config.prebuilt \/ ~config.sensitive

BuildFieldSpec(model, config) ==
  LET Built(binding) ==
        [name |-> config.name, type |-> config.type, nullable |-> config.nullable,
         binding |-> config.binding, edges |-> binding.edges, many |-> binding.many,
         enum |-> config.enum, sensitive |-> config.sensitive,
         llmVisible |-> Flag(config, config.llmVisible),
         resultVisible |-> Flag(config, config.resultVisible),
         filterOnly |-> config.filterOnly, perm |-> config.perm,
         scopeDimension |-> config.scopeDimension]
  IN Built(ResolveFieldPath(model, config.binding))

\* FieldSpec.is_catalog_visible, as the planner and every adapter call it:
\* include_sensitive and include_hidden are False.
FieldCatalogVisible(field, permissions) ==
  LET granted == PermissionSetAllows(permissions, field.perm) IN
  /\ granted
  /\ field.sensitive => field.perm # None
  /\ field.llmVisible \/ field.sensitive

-----------------------------------------------------------------------------
(* Metrics *)

\* A non-null unique concrete column (a foreign key is one too); the path that
\* leads to it may still be empty.
UniqueColumn(column) ==
  column.kind \in {"column", "forward"} /\ ~column.null /\ column.unique

MetricOps == {"count", "sum", "avg", "min", "max"}

\* Metric.__post_init__
MetricWellFormed(metric) ==
  /\ metric.name \notin IllFormedKeys
  /\ metric.op \in MetricOps
  /\ metric.binding # <<>>
  /\ metric.resultType \in FieldTypes
  /\ metric.policy \in {"to_one_only", "count_rows", "count_distinct"}
  /\ metric.distinct # <<>>

MetricResultType(metric, bindingType) ==
  CASE metric.op = "count" -> metric.resultType = "integer"
    [] metric.op \in {"sum", "avg"} ->
         /\ bindingType \in NumericTypes
         /\ metric.resultType =
              IF metric.op = "avg" /\ bindingType = "integer" THEN "float" ELSE bindingType
    [] metric.op \in {"min", "max"} -> metric.resultType = bindingType

MetricCardinality(model, metric, binding) ==
  CASE metric.policy = "to_one_only" ->
         metric.distinct = None /\ binding.many = {}
    [] metric.policy = "count_rows" ->
         /\ metric.op = "count" /\ Cardinality(binding.many) = 1
         /\ metric.distinct = None /\ UniqueColumn(binding.column)
    [] metric.policy = "count_distinct" ->
         /\ metric.op = "count" /\ Cardinality(binding.many) = 1
         /\ metric.distinct # None
         /\ \E key \in {ResolveFieldPath(model, metric.distinct)} :
              key.found /\ key.many = binding.many /\ UniqueColumn(key.column)

MetricAccepted(model, metric) ==
  /\ MetricWellFormed(metric)
  /\ \E binding \in {ResolveFieldPath(model, metric.binding)} :
       /\ binding.found
       /\ MetricResultType(metric, GetFieldType(binding.column))
       /\ MetricCardinality(model, metric, binding)

BuildMetric(model, metric) ==
  LET paths == {metric.binding} \cup
               (IF metric.policy = "count_distinct" THEN {metric.distinct} ELSE {})
      Built(bound) ==
        [name |-> metric.name, op |-> metric.op, binding |-> metric.binding,
         resultType |-> metric.resultType, policy |-> metric.policy,
         distinct |-> metric.distinct, perm |-> metric.perm,
         depth |-> CHOOSE d \in {Cardinality(b.edges) : b \in bound} :
                     \A b \in bound : Cardinality(b.edges) <= d,
         edges |-> UNION {b.edges : b \in bound},
         many |-> UNION {b.many : b \in bound}]
  IN Built({ResolveFieldPath(model, p) : p \in paths})

-----------------------------------------------------------------------------
(* Resources *)

Names(members) == {members[i].name : i \in DOMAIN members}
Named(members, n) == members[CHOOSE i \in DOMAIN members : members[i].name = n]
Distinct(s) == \A i, j \in DOMAIN s : s[i] = s[j] => i = j

\* resolve_scope_mode and validate_scope_policy; default is DEFAULT_SCOPE_MODE.
ScopeMode(mode, default) == IF mode = None THEN default ELSE mode
ScopePolicyAccepted(mode, default, provider) ==
  /\ default \in {None, "context_scoped"}
  /\ \/ ScopeMode(mode, default) = "global" /\ provider = None
     \/ ScopeMode(mode, default) = "context_scoped" /\ provider # None

DefaultOrderAccepted(order, fields) ==
  /\ \A i \in DOMAIN order :
       /\ order[i].field \in Names(fields)
       /\ LET f == Named(fields, order[i].field) IN
          ~f.sensitive /\ f.llmVisible /\ f.resultVisible /\ ~f.filterOnly /\ f.perm = None
       /\ order[i].direction \in {"asc", "desc"}
  /\ Distinct([i \in DOMAIN order |-> order[i].field])

RowIdentity(model, identity) == IF identity = None THEN PrimaryKey[model] ELSE identity
RowIdentityAccepted(model, identity) ==
  /\ RowIdentity(model, identity) \in DOMAIN Schema[model]
  /\ UniqueColumn(Schema[model][RowIdentity(model, identity)])

DefaultDateAccepted(model, date, fields) ==
  date # None =>
    /\ date \in Names(fields)
    /\ LET f == Named(fields, date) IN
       /\ f.type \in DateTypes
       /\ GetFieldType(ResolveFieldPath(model, f.binding).column) \in DateTypes

Fields(decl) == [i \in DOMAIN decl.fields |-> BuildFieldSpec(decl.model, decl.fields[i])]

\* A declaration is refused as a whole: nothing of it is kept.
DeclarationAccepted(decl, default) ==
  /\ decl.model \in DOMAIN Schema
  /\ ScopePolicyAccepted(decl.mode, default, decl.provider)
  /\ decl.timezone \in Zones
  /\ decl.name # None
  /\ decl.fields # <<>>
  /\ \A i \in DOMAIN decl.fields : FieldAccepted(decl.model, decl.fields[i])
  /\ \A i \in DOMAIN decl.metrics : MetricAccepted(decl.model, decl.metrics[i])
  /\ Distinct([i \in DOMAIN decl.metrics |-> decl.metrics[i].name])
  /\ DefaultDateAccepted(decl.model, decl.defaultDate, Fields(decl))
  /\ DefaultOrderAccepted(decl.defaultOrder, Fields(decl))
  /\ RowIdentityAccepted(decl.model, decl.identity)

BuildResource(decl, default) ==
  [name |-> decl.name, model |-> decl.model,
   mode |-> ScopeMode(decl.mode, default), provider |-> decl.provider,
   timezone |-> decl.timezone, fields |-> Fields(decl),
   metrics |-> [i \in DOMAIN decl.metrics |-> BuildMetric(decl.model, decl.metrics[i])],
   defaultDate |-> decl.defaultDate, defaultOrder |-> decl.defaultOrder,
   identity |-> RowIdentity(decl.model, decl.identity),
   perm |-> decl.perm, scopeResource |-> decl.scopeResource,
   examples |-> decl.examples]

\* get_scope_queryset: what the host's provider returns decides; only an
\* unevaluated queryset of the resource's own model is used.
ScopeOutcome(resource, request, returned) ==
  IF resource.mode = "global" \/ (request /\ returned = "queryset")
  THEN "scoped" ELSE "scope"

-----------------------------------------------------------------------------
(* The public catalog: no bindings, edges, scope or permission names *)

FieldItem(f) ==
  [name |-> f.name, type |-> f.type, nullable |-> f.nullable,
   depth |-> Cardinality(f.edges), enum |-> f.enum, sensitive |-> f.sensitive,
   llmVisible |-> f.llmVisible, resultVisible |-> f.resultVisible,
   filterOnly |-> f.filterOnly, scopeDimension |-> f.scopeDimension]

MetricItem(metric) == [name |-> metric.name, resultType |-> metric.resultType]

ResourceItem(resource, permissions) ==
  LET fields == Those(resource.fields, LAMBDA f : FieldCatalogVisible(f, permissions))
      metrics == Those(resource.metrics,
                       LAMBDA k : PermissionSetAllows(permissions, k.perm))
  IN [name |-> resource.name, timezone |-> resource.timezone,
      defaultDate |-> resource.defaultDate, defaultOrder |-> resource.defaultOrder,
      scopeResource |-> resource.scopeResource, examples |-> resource.examples,
      fields |-> [i \in DOMAIN fields |-> FieldItem(fields[i])],
      metrics |-> [i \in DOMAIN metrics |-> MetricItem(metrics[i])]]

\* CatalogRegistry.to_dict over the registered resources, in order.
CatalogSnapshot(resources, permissions) ==
  LET visible == Those(resources, LAMBDA r : PermissionSetAllows(permissions, r.perm))
  IN [i \in DOMAIN visible |-> ResourceItem(visible[i], permissions)]
=============================================================================

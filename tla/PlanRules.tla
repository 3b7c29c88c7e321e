------------------------------ MODULE PlanRules ------------------------------
(***************************************************************************)
(* From an untrusted plan to a validated one (planning/schemas.py,         *)
(* planning/validation.py, planning/temporal.py): what parses, what the    *)
(* budgets allow, which members the caller may use and how, and the        *)
(* canonical form of filter values.                                        *)
(*                                                                         *)
(* A plan is [resource, intent, select, filters, group, metrics, order,    *)
(* limit]; limit is None when left out.  A filter is [field, op, value], a *)
(* value [list, items].  Validation stops at its first failure, named here *)
(* after its exception.                                                    *)
(***************************************************************************)
EXTENDS Catalog, Integers

CONSTANT
  Limits  \* [rows, default, joins, metrics, group, bytes, filters, selected,
          \*  order, edges, inValues, values]

\* get_positive_int
ASSUME LimitAssumption ==
  /\ None \notin Int
  /\ {Limits.rows, Limits.default, Limits.bytes} \subseteq Nat \ {0}

\* get_plan_limits: the default limit never exceeds the most rows.
DefaultLimit == IF Limits.default <= Limits.rows THEN Limits.default ELSE Limits.rows

\* The first check that fails decides.
FirstFailure(codes) ==
  LET failures == {i \in DOMAIN codes : codes[i] # "ok"}
      first == CHOOSE i \in failures : \A j \in failures : i <= j
  IN IF failures = {} THEN "ok" ELSE codes[first]

Check(holds, code) == IF holds THEN "ok" ELSE code

\* exceptions.py: which failures share the public code asklens.member.unavailable
\* and which are of the class PlanValidationError.
MemberUnavailable ==
  {"UnknownResource", "UnknownField", "UnknownMetric", "PermissionDenied"}
PlanValidationErrors == {"PlanInvalid", "BudgetExceeded", "UnknownMetric"}

-----------------------------------------------------------------------------
(* Shapes: what the parameters that hold plans are made of *)

IsScalar(v) ==
  v = [py |-> v.py, reads |-> v.reads, value |-> v.value, spelling |-> v.spelling]

IsFilter(f) ==
  /\ f = [field |-> f.field, op |-> f.op, value |-> f.value]
  /\ f.value = [list |-> f.value.list, items |-> f.value.items]
  /\ f.value.list \in BOOLEAN /\ (f.value.list \/ Len(f.value.items) = 1)
  /\ IsList(f.value.items) /\ \A v \in ToSet(f.value.items) : IsScalar(v)

IsPlan(plan) ==
  /\ plan = [resource |-> plan.resource, intent |-> plan.intent, select |-> plan.select,
             filters |-> plan.filters, group |-> plan.group, metrics |-> plan.metrics,
             order |-> plan.order, limit |-> plan.limit]
  /\ IsList(plan.select) /\ IsList(plan.filters) /\ IsList(plan.group)
  /\ IsList(plan.metrics) /\ IsList(plan.order)
  /\ \A f \in ToSet(plan.filters) : IsFilter(f)
  /\ plan.limit \in Int \cup {None}

-----------------------------------------------------------------------------
(* schemas.py *)

Intents == {"list", "aggregate"}
Operators == {"eq", "neq", "gt", "gte", "lt", "lte", "in", "contains", "icontains",
              "isnull", "date_range", "last_n_days", "last_n_months"}

\* validate_filter_value
ValueParses(op, value) ==
  LET one == value.items[1] IN
  CASE op = "isnull" -> ~value.list /\ one.py = "bool"
    [] op = "in" -> value.list /\ value.items # <<>>
    [] op = "date_range" ->
         /\ value.list /\ Len(value.items) = 2
         /\ \A v \in ToSet(value.items) : v.py = "str" /\ v.reads # "empty"
    [] op \in {"last_n_days", "last_n_months"} ->
         ~value.list /\ one.py = "int" /\ one.value >= 1
    [] op \in {"contains", "icontains"} ->
         ~value.list /\ one.py = "str" /\ one.reads # "empty"
    [] OTHER -> ~value.list /\ one.py # "null"

OrderParses(term) ==
  /\ (term.field = None) # (term.metric = None)
  /\ term.direction \in {"asc", "desc"}

Parses(plan) ==
  /\ plan.intent \in Intents
  /\ \A f \in ToSet(plan.filters) : f.op \in Operators /\ ValueParses(f.op, f.value)
  /\ \A g \in ToSet(plan.group) :
       g.trunc \in {None, "day", "week", "month", "quarter", "year"}
  /\ \A o \in ToSet(plan.order) : OrderParses(o)
  /\ plan.limit = None \/ plan.limit >= 1

\* One unit for every name and value, one more for an explicit limit.
ScalarCount(filter) == IF filter.value.list THEN Len(filter.value.items) ELSE 1
FilterScalars(plan) ==
  Cardinality(UNION {{i} \X (1..ScalarCount(plan.filters[i])) : i \in DOMAIN plan.filters})
Bytes(plan) ==
  Len(plan.select) + 2 * Len(plan.filters) + FilterScalars(plan) + Len(plan.group)
    + Len(plan.metrics) + 2 * Len(plan.order) + (IF plan.limit = None THEN 2 ELSE 3)

-----------------------------------------------------------------------------
(* Shape, duplicates and budgets *)

ShapeAccepted(plan) ==
  IF plan.intent = "list"
  THEN plan.select # <<>> /\ plan.metrics = <<>> /\ plan.group = <<>>
  ELSE plan.select = <<>> /\ plan.metrics # <<>>

NoDuplicates(plan) ==
  /\ Distinct(plan.select)
  /\ Distinct([i \in DOMAIN plan.group |-> plan.group[i].field])
  /\ Distinct([i \in DOMAIN plan.order |-> <<plan.order[i].field, plan.order[i].metric>>])
  /\ Distinct(plan.filters)
  /\ \A f \in ToSet(plan.filters) : f.op = "in" => Distinct(f.value.items)

\* iter_plan_field_references
FieldReferences(plan) ==
  ToSet(plan.select) \cup {f.field : f \in ToSet(plan.filters)}
    \cup {g.field : g \in ToSet(plan.group)}
    \cup ({o.field : o \in ToSet(plan.order)} \ {None})

UsedFields(plan, resource) ==
  {f \in ToSet(resource.fields) : f.name \in FieldReferences(plan)}
UsedMetrics(plan, resource) ==
  {k \in ToSet(resource.metrics) : k.name \in ToSet(plan.metrics)}

\* collect_relationship_edges
RelationshipEdges(plan, resource) ==
  UNION ({f.edges : f \in UsedFields(plan, resource)}
           \cup {k.edges : k \in UsedMetrics(plan, resource)})

LimitsCode(plan, resource) ==
  FirstFailure(<<
    Check(/\ Len(plan.filters) <= Limits.filters
          /\ Len(plan.select) <= Limits.selected
          /\ Len(plan.order) <= Limits.order
          /\ Len(plan.metrics) <= Limits.metrics
          /\ Len(plan.group) <= Limits.group, "BudgetExceeded"),
    Check(plan.limit <= Limits.rows, "BudgetExceeded"),
    Check(\A f \in ToSet(plan.filters) :
            f.op = "in" => Len(f.value.items) <= Limits.inValues, "BudgetExceeded"),
    Check(FilterScalars(plan) <= Limits.values, "BudgetExceeded"),
    Check(Cardinality(RelationshipEdges(plan, resource)) <= Limits.edges, "BudgetExceeded"),
    Check(NoDuplicates(plan), "PlanInvalid") >>)

-----------------------------------------------------------------------------
(* Members: fields, operators, metrics, fan-out, ordering *)

ResultUsages == {"select", "group_by", "order_by"}

\* Mutant of FieldUse: a missing right is told apart from an unknown field.
FieldUseDenied(resource, name, usage, permissions) ==
  IF name \notin Names(resource.fields) THEN "UnknownField" ELSE
  LET f == Named(resource.fields, name) IN
  FirstFailure(<<
    Check(Cardinality(f.edges) <= Limits.joins, "BudgetExceeded"),
    Check(f.filterOnly => usage = "filter", "PlanInvalid"),
    Check(f.sensitive => f.perm # None, "PermissionDenied"),
    Check(PermissionSetAllows(permissions, f.perm), "PlanInvalid"),
    Check(f.llmVisible \/ f.sensitive, "PermissionDenied"),
    Check(usage \in ResultUsages => f.resultVisible, "PermissionDenied") >>)

\* validate_field_usage as every caller of the facade reaches it:
\* allow_sensitive_fields and allow_hidden_fields are False.
FieldUse(resource, name, usage, permissions) ==
  IF name \notin Names(resource.fields) THEN "UnknownField" ELSE
  LET f == Named(resource.fields, name) IN
  FirstFailure(<<
    Check(Cardinality(f.edges) <= Limits.joins, "BudgetExceeded"),
    Check(f.filterOnly => usage = "filter", "PlanInvalid"),
    Check(f.sensitive =>
            f.perm # None /\ PermissionSetAllows(permissions, f.perm), "PermissionDenied"),
    Check(PermissionSetAllows(permissions, f.perm), "PermissionDenied"),
    Check(f.llmVisible \/ f.sensitive, "PermissionDenied"),
    Check(usage \in ResultUsages => f.resultVisible, "PermissionDenied") >>)

FilterUse(resource, filter, permissions) ==
  LET Then(use) ==
        IF use # "ok" THEN use
        ELSE Check(filter.op \in OperatorsOf(Named(resource.fields, filter.field).type),
                   "PlanInvalid")
  IN Then(FieldUse(resource, filter.field, "filter", permissions))

GroupUse(resource, group, permissions) ==
  LET Then(use) ==
        IF use # "ok" THEN use
        ELSE Check(group.trunc # None =>
                     Named(resource.fields, group.field).type \in DateTypes, "PlanInvalid")
  IN Then(FieldUse(resource, group.field, "group_by", permissions))

MetricUse(resource, name, permissions) ==
  IF name \notin Names(resource.metrics) THEN "UnknownMetric" ELSE
  LET metric == Named(resource.metrics, name) IN
  FirstFailure(<<
    Check(metric.depth <= Limits.joins, "PlanInvalid"),
    Check(PermissionSetAllows(permissions, metric.perm), "PermissionDenied") >>)

MetricsCode(plan, resource, permissions) ==
  FirstFailure([i \in DOMAIN plan.metrics |->
    IF \E j \in 1..i - 1 : plan.metrics[j] = plan.metrics[i] THEN "PlanInvalid"
    ELSE MetricUse(resource, plan.metrics[i], permissions)])

\* Mutant of FanOutAccepted: a metric of the root may be split by a to-many field.
FanOutAcceptedAnyMetric(plan, resource) ==
  LET fieldEdges == UNION {f.many : f \in UsedFields(plan, resource)}
      metricEdges == UNION {k.many : k \in UsedMetrics(plan, resource)}
  IN Cardinality(fieldEdges \cup metricEdges) <= 1

\* validate_aggregate_relationship_policy: all of an aggregate plan crosses at
\* most one to-many edge, and when a field does every metric counts that grain.
FanOutAccepted(plan, resource) ==
  LET fieldEdges == UNION {f.many : f \in UsedFields(plan, resource)}
      metrics == UsedMetrics(plan, resource)
  IN plan.intent = "aggregate" =>
       /\ Cardinality(fieldEdges \cup UNION {k.many : k \in metrics}) <= 1
       /\ fieldEdges # {} =>
            \A k \in metrics : k.policy # "to_one_only" /\ k.many = fieldEdges

OrderUse(plan, resource, term, permissions) ==
  IF term.field = None THEN Check(term.metric \in ToSet(plan.metrics), "PlanInvalid")
  ELSE FirstFailure(<<
    FieldUse(resource, term.field, "order_by", permissions),
    Check(\/ term.field \in ToSet(plan.select)
          \/ \E g \in ToSet(plan.group) : g.field = term.field, "PlanInvalid") >>)

\* validate_plan_fields
MembersCode(plan, resource, permissions) ==
  FirstFailure(<<
    FirstFailure([i \in DOMAIN plan.select |->
                    FieldUse(resource, plan.select[i], "select", permissions)]),
    FirstFailure([i \in DOMAIN plan.filters |->
                    FilterUse(resource, plan.filters[i], permissions)]),
    FirstFailure([i \in DOMAIN plan.group |->
                    GroupUse(resource, plan.group[i], permissions)]),
    MetricsCode(plan, resource, permissions),
    Check(FanOutAccepted(plan, resource), "PlanInvalid"),
    FirstFailure([i \in DOMAIN plan.order |->
                    OrderUse(plan, resource, plan.order[i], permissions)]) >>)

-----------------------------------------------------------------------------
(* Canonical filter values *)

EnumValueOf(enum, token) ==
  {v.value : v \in {w \in ToSet(enum.values) : token \in EnumTokens(w)}}

\* temporal.py: a strict date, a local time, or an instant with an offset, as text.
ReadsAs(type, v) == v.py = "str" /\ v.reads = type

\* isoformat() of what was read: Z (spelling 1) becomes +00:00, any other offset
\* (spelling 2 and up) stays.
NormalizeTemporal(type, v) ==
  IF type = "time" \/ (type = "datetime" /\ v.spelling = 1)
  THEN [v EXCEPT !.spelling = 0] ELSE v

\* Which scalars a field type takes, before any normalisation.
ScalarAccepted(field, v) ==
  CASE field.type = "string" -> v.py = "str"
    [] field.type = "boolean" -> v.py = "bool"
    [] field.type = "integer" -> v.py = "int"
    [] field.type = "float" -> v.py \in {"int", "float"}
    [] field.type = "enum" -> EnumValueOf(field.enum, v) # {}
    [] OTHER -> ReadsAs(field.type, v)

\* Python's ==: an integer equals the float of the same value.
PythonEqual(a, b) ==
  \/ a = b
  \/ {a.py, b.py} = {"int", "float"} /\ a.value = b.value

\* What each type makes of an accepted scalar.  A decimal keeps its spelling.
CanonicalScalar(field, v) ==
  CASE field.type = "float" -> [v EXCEPT !.py = "float", !.reads = "number", !.spelling = 0]
    [] field.type = "enum" -> CHOOSE w \in EnumValueOf(field.enum, v) : TRUE
    [] field.type = "uuid" -> [v EXCEPT !.spelling = 0]
    [] field.type \in DateTypes \cup {"time"} -> NormalizeTemporal(field.type, v)
    [] OTHER -> v

\* normalize_date_range_filter: dates are inclusive, instants half open.
RangeAccepted(field, items) ==
  /\ \A v \in ToSet(items) : ReadsAs(field.type, v)
  /\ IF field.type = "date" THEN items[1].value <= items[2].value
     ELSE items[1].value < items[2].value

FilterValueAccepted(field, filter) ==
  CASE filter.op \in {"isnull", "last_n_days", "last_n_months"} -> TRUE
    [] filter.op = "date_range" -> RangeAccepted(field, filter.value.items)
    [] OTHER -> \A v \in ToSet(filter.value.items) : ScalarAccepted(field, v)

\* The filter is kept as given when Python finds the canonical value equal to it.
NormalizeFilter(field, filter) ==
  LET items == filter.value.items
      canonical == [i \in DOMAIN items |-> CanonicalScalar(field, items[i])]
      equal == \A i \in DOMAIN items : PythonEqual(items[i], canonical[i])
  IN IF \/ filter.op \in {"isnull", "last_n_days", "last_n_months"}
        \/ equal /\ filter.op # "date_range"
     THEN filter
     ELSE [filter EXCEPT !.value.items = canonical]

FiltersAccepted(plan, resource) ==
  \A f \in ToSet(plan.filters) : FilterValueAccepted(Named(resource.fields, f.field), f)

NormalizeFilters(plan, resource) ==
  [plan EXCEPT !.filters = [i \in DOMAIN plan.filters |->
     NormalizeFilter(Named(resource.fields, plan.filters[i].field), plan.filters[i])]]

-----------------------------------------------------------------------------
(* Validation as a whole *)

WithLimit(plan) == [plan EXCEPT !.limit = IF @ = None THEN DefaultLimit ELSE @]

\* Every rule on the plan as given, the values of its filters last: their fields
\* are known by then.
AdmissionCode(limited, resource, permissions) ==
  LET Then(code) ==
        IF code # "ok" THEN code
        ELSE Check(FiltersAccepted(limited, resource), "PlanInvalid")
  IN Then(FirstFailure(<<
       Check(PermissionSetAllows(permissions, resource.perm), "PermissionDenied"),
       Check(ShapeAccepted(limited), "PlanInvalid"),
       LimitsCode(limited, resource),
       MembersCode(limited, resource, permissions) >>))

\* Mutant of ValidateForResource: the values are not compared again once they
\* are canonical.
ValidateForResourceOnce(plan, resource, permissions) ==
  LET Limited(limited) ==
        LET Checked(code) ==
              IF code # "ok" THEN [code |-> code, plan |-> plan]
              ELSE [code |-> "ok", plan |-> NormalizeFilters(limited, resource)]
        IN Checked(AdmissionCode(limited, resource, permissions))
  IN Limited(WithLimit(plan))

\* _validate_query_plan, once the resource is found.
ValidateForResource(plan, resource, permissions) ==
  LET Compared(normal) ==
        IF NoDuplicates(normal) THEN [code |-> "ok", plan |-> normal]
        ELSE [code |-> "PlanInvalid", plan |-> plan]
      Limited(limited) ==
        LET Checked(code) ==
              IF code # "ok" THEN [code |-> code, plan |-> plan]
              ELSE Compared(NormalizeFilters(limited, resource))
        IN Checked(AdmissionCode(limited, resource, permissions))
  IN Limited(WithLimit(plan))

\* parse_and_validate_query_plan against the registered resources. A name stands
\* for what slugify makes of it (registry.get), so a plan whose resource name leaves
\* an empty slug is left out; PlanParseError and PlanValidationError are one code.
Validate(plan, resources, permissions) ==
  CASE Bytes(plan) > Limits.bytes -> [code |-> "BudgetExceeded", plan |-> plan]
    [] Bytes(plan) <= Limits.bytes /\ ~Parses(plan) -> [code |-> "PlanInvalid", plan |-> plan]
    [] OTHER ->
         IF plan.resource \notin Names(resources) THEN [code |-> "UnknownResource", plan |-> plan]
         ELSE ValidateForResource(plan, Named(resources, plan.resource), permissions)
=============================================================================

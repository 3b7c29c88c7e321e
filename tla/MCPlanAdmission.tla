---------------------------- MODULE MCPlanAdmission ----------------------------
(***************************************************************************)
(* Constants for checking PlanAdmission: a shop with orders, customers and *)
(* order lines, several ways of registering the orders, and the plans and  *)
(* suggestions of a provider that follows the rules and of one that does   *)
(* not.                                                                    *)
(***************************************************************************)
EXTENDS PlanAdmission

CONSTANT NoValue

Col(class, null, unique) ==
  [kind |-> "column", to |-> NoValue, class |-> class, null |-> null, unique |-> unique]
Rel(kind, to, null) ==
  [kind |-> kind, to |-> to, class |-> NoValue, null |-> null, unique |-> FALSE]

MCSchema ==
  [Order |-> [id |-> Col("AutoField", FALSE, TRUE), status |-> Col("CharField", FALSE, FALSE),
              total |-> Col("DecimalField", FALSE, FALSE),
              weight |-> Col("FloatField", TRUE, FALSE),
              placed |-> Col("DateTimeField", FALSE, FALSE),
              reference |-> Col("UUIDField", TRUE, TRUE),
              customer |-> Rel("forward", "Customer", FALSE),
              lines |-> Rel("reverse_many", "Line", TRUE),
              invoice |-> Rel("reverse_one", "Line", TRUE)],
   Customer |-> [id |-> Col("AutoField", FALSE, TRUE), name |-> Col("CharField", FALSE, FALSE),
                 email |-> Col("CharField", TRUE, FALSE),
                 orders |-> Rel("reverse_many", "Order", TRUE)],
   Line |-> [id |-> Col("AutoField", FALSE, TRUE), sku |-> Col("CharField", FALSE, FALSE),
             price |-> Col("DecimalField", FALSE, FALSE),
             order |-> Rel("forward", "Order", FALSE)]]

MCPrimaryKey == [Order |-> "id", Customer |-> "id", Line |-> "id"]

MCLimits ==
  [rows |-> 100, default |-> 200, joins |-> 1, metrics |-> 2, group |-> 2, bytes |-> 12,
   filters |-> 2, selected |-> 3, order |-> 1, edges |-> 1, inValues |-> 2, values |-> 3]

\* The names of fields, as Python sorts them.
FieldNames ==
  << "a__b", "customer", "email", "far", "gone", "invoice", "line", "mail", "order", "owner",
     "placed", "reference", "secret", "sku", "state", "status", "total", "weight" >>
MCAlphabetical ==
  [name \in ToSet(FieldNames) |-> CHOOSE i \in DOMAIN FieldNames : FieldNames[i] = name]

MCScopeWords == [shop |-> {"shop"}, customer |-> {"customers", "customer"}]

-----------------------------------------------------------------------------
(* Scalars *)

Text(x) == [py |-> "str", reads |-> "text", value |-> x, spelling |-> 0]
Num(py, n) == [py |-> py, reads |-> "number", value |-> n, spelling |-> 0]
Reads(type, n, spelling) ==
  [py |-> "str", reads |-> type, value |-> n, spelling |-> spelling]
One(v) == [list |-> FALSE, items |-> <<v>>]
Many(s) == [list |-> TRUE, items |-> s]

Paid == [value |-> Text("paid"), aliases |-> <<Text("settled"), Num("int", 1)>>]
Open == [value |-> Text("open"), aliases |-> <<>>]
StatusEnum == [type |-> "string", values |-> <<Open, Paid>>]

-----------------------------------------------------------------------------
(* Declarations *)

Field(name, binding, type) ==
  [name |-> name, binding |-> binding, type |-> type, nullable |-> FALSE, enum |-> NoValue,
   sensitive |-> FALSE, llmVisible |-> NoValue, resultVisible |-> NoValue,
   filterOnly |-> FALSE, perm |-> NoValue, scopeDimension |-> FALSE, prebuilt |-> FALSE]

Status == [Field("status", <<"status">>, "enum") EXCEPT !.enum = StatusEnum]
Total == Field("total", <<"total">>, "decimal")
Weight == [Field("weight", <<"weight">>, "float") EXCEPT !.nullable = TRUE]
Placed == Field("placed", <<"placed">>, "datetime")
Reference == [Field("reference", <<"reference">>, "uuid") EXCEPT !.nullable = TRUE,
                                                                !.filterOnly = TRUE]
Customer == [Field("customer", <<"customer", "name">>, "string") EXCEPT !.scopeDimension = TRUE]
Email == [Field("email", <<"customer", "email">>, "string")
            EXCEPT !.nullable = TRUE, !.sensitive = TRUE, !.perm = "pii"]
Secret == [Field("secret", <<"status">>, "string") EXCEPT !.llmVisible = FALSE]
Sku == [Field("sku", <<"lines", "sku">>, "string") EXCEPT !.nullable = TRUE]

Met(name, op, binding, type, policy) ==
  [name |-> name, op |-> op, binding |-> binding, resultType |-> type, policy |-> policy,
   distinct |-> NoValue, perm |-> NoValue]
Revenue == [Met("revenue", "sum", <<"total">>, "decimal", "to_one_only") EXCEPT !.perm = "finance"]
LineCount == Met("lines", "count", <<"lines", "id">>, "integer", "count_rows")
OrderCount == [Met("ordered", "count", <<"lines", "sku">>, "integer", "count_distinct")
                 EXCEPT !.distinct = <<"lines", "id">>]

Orders ==
  [name |-> "orders", model |-> "Order", mode |-> NoValue, provider |-> "provider",
   timezone |-> "UTC", perm |-> "orders", scopeResource |-> FALSE, examples |-> TRUE,
   defaultDate |-> "placed", defaultOrder |-> <<[field |-> "placed", direction |-> "desc"]>>,
   identity |-> NoValue,
   fields |-> <<Customer, Status, Placed, Total, Weight, Reference, Email, Secret, Sku>>,
   metrics |-> <<LineCount, Revenue>>]

Accepted ==
  { Orders,
    [Orders EXCEPT !.perm = NoValue, !.metrics = <<OrderCount, Revenue>>,
                   !.fields = <<Status, Total, Placed,
                                [Email EXCEPT !.prebuilt = TRUE], Sku>>],
    [Orders EXCEPT !.mode = "global", !.provider = NoValue, !.examples = FALSE,
                   !.fields = <<[Placed EXCEPT !.perm = "finance"], Customer,
                                [Status EXCEPT !.type = "string", !.enum = NoValue]>>,
                   !.defaultOrder = <<>>],
    [Orders EXCEPT !.name = "customers", !.model = "Customer", !.identity = "id",
                   !.fields = <<Field("customer", <<"name">>, "string"),
                                [Field("order", <<"orders", "status">>, "string")
                                   EXCEPT !.nullable = TRUE],
                                [Field("far", <<"orders", "lines", "sku">>, "string")
                                   EXCEPT !.nullable = TRUE]>>,
                   !.metrics = <<>>, !.defaultDate = NoValue, !.defaultOrder = <<>>] }

WithField(f) == [Orders EXCEPT !.fields = Append(@, f)]
WithMetric(k) == [Orders EXCEPT !.metrics = Append(@, k)]
Clash == [StatusEnum EXCEPT !.values = <<[Open EXCEPT !.aliases = <<Text("settled")>>], Paid>>]

Refused ==
  { WithField([Email EXCEPT !.name = "mail", !.nullable = FALSE]),
    WithField([Sku EXCEPT !.name = "line", !.nullable = FALSE]),
    WithField(Field("invoice", <<"invoice", "sku">>, "string")),
    WithField([Status EXCEPT !.name = "state", !.enum = Clash]),
    WithField(Field("owner", <<"customer">>, "relation")),
    WithField(Field("gone", <<"customer", "age">>, "integer")),
    WithField(Field("a__b", <<"total">>, "decimal")),
    WithMetric(Met("lost", "sum", <<"lines", "price">>, "decimal", "to_one_only")),
    WithMetric(Met("skus", "count", <<"lines", "sku">>, "integer", "count_rows")),
    WithMetric([OrderCount EXCEPT !.distinct = <<"id">>]),
    WithMetric(LineCount),
    [Orders EXCEPT !.provider = NoValue],
    [Orders EXCEPT !.mode = "global"],
    [Orders EXCEPT !.timezone = "Mars"],
    [Orders EXCEPT !.identity = "reference"],
    [Orders EXCEPT !.defaultDate = "status"],
    [Orders EXCEPT !.defaultOrder = <<[field |-> "secret", direction |-> "asc"]>>] }

-----------------------------------------------------------------------------
(* Rights *)

Token(form, perm, kind, scope) == [form |-> form, perm |-> perm, kind |-> kind, scope |-> scope]
Exact(p) == Token("exact", p, NoValue, NoValue)
MCPermissionSets ==
  { {}, {Token("scoped", "orders", "customer", "7"), Exact("pii")},
    {Exact("orders"), Exact("finance")},
    {Token("scoped", "orders", "shop", "1"), Token("scoped", "orders", "shop", "2"),
     Token("other", "pii", NoValue, NoValue)},
    {Token("scoped", "orders", "shop", NoValue)} }

-----------------------------------------------------------------------------
(* Plans *)

List(select) ==
  [resource |-> "orders", intent |-> "list", select |-> select, filters |-> <<>>,
   group |-> <<>>, metrics |-> <<>>, order |-> <<>>, limit |-> NoValue]
Where(plan, filters) == [plan EXCEPT !.filters = filters]
Is(field, op, value) == [field |-> field, op |-> op, value |-> value]
Aggregate(metrics, group) ==
  [List(<<>>) EXCEPT !.intent = "aggregate", !.metrics = metrics,
     !.group = [i \in DOMAIN group |-> [field |-> group[i], trunc |-> NoValue]]]
By(plan, field, metric) ==
  [plan EXCEPT !.order = <<[field |-> field, metric |-> metric, direction |-> "asc"]>>]

ListPlans ==
  { List(<<"status">>), List(<<"status", "email">>), List(<<"secret">>), List(<<"nobody">>),
    List(<<"reference">>), List(<<"customer", "sku">>), List(<<>>),
    [List(<<"status">>) EXCEPT !.limit = 101], [List(<<"status">>) EXCEPT !.limit = 0],
    [List(<<"customer">>) EXCEPT !.resource = "customers"],
    [List(<<"far">>) EXCEPT !.resource = "customers"],
    List(<<"status", "status">>), By(List(<<"status">>), "total", NoValue),
    By(List(<<"placed">>), "placed", NoValue) }

FilterPlans ==
  { Where(List(<<"total">>), <<f>>) : f \in
      { Is("status", "eq", One(Text("settled"))), Is("status", "eq", One(Text("nothing"))),
        Is("status", "in", Many(<<Text("paid"), Text("settled")>>)),
        Is("status", "contains", One(Text("pa"))),
        Is("weight", "in", Many(<<Num("int", 1), Num("float", 1)>>)),
        Is("weight", "gt", One(Num("bool", 1))),
        Is("placed", "gte", One(Reads("datetime", 3, 1))),
        Is("placed", "date_range", Many(<<Reads("datetime", 3, 1), Reads("datetime", 4, 2)>>)),
        Is("placed", "date_range", Many(<<Reads("datetime", 3, 0), Reads("datetime", 3, 1)>>)),
        Is("placed", "in", Many(<<Reads("datetime", 3, 0), Reads("datetime", 3, 1)>>)),
        Is("total", "in", Many(<<Reads("decimal", 3, 0), Reads("decimal", 3, 1)>>)),
        Is("reference", "eq", One(Reads("uuid", 1, 1))),
        Is("email", "isnull", One(Num("bool", 1))), Is("email", "eq", One(Num("null", 0))) } }
  \cup { Where(List(<<"total">>), <<Is("status", "eq", One(Text("paid"))),
                                    Is("status", "eq", One(Text("settled")))>>) }

AggregatePlans ==
  { Aggregate(<<"lines">>, <<"sku">>), Aggregate(<<"revenue">>, <<"sku">>),
    Aggregate(<<"revenue">>, <<"email">>), By(Aggregate(<<"revenue">>, <<"status">>), NoValue, "revenue"),
    Aggregate(<<"lines", "revenue">>, <<"status">>), Aggregate(<<"ordered">>, <<>>),
    [Aggregate(<<"lines">>, <<"status">>) EXCEPT !.select = <<"status">>],
    Aggregate(<<"none">>, <<>>), Aggregate(<<"revenue">>, <<"placed", "customer">>) }

MCPlans == ListPlans \cup FilterPlans \cup AggregatePlans

Suggest(fields, metrics, dates) == Suggestion("orders", fields, metrics, dates)
MCHelps ==
  { <<>>, <<Suggest(<<"status">>, <<>>, <<>>)>>,
    << [Suggest(<<"total">>, <<>>, <<>>) EXCEPT !.crossScope = TRUE],
       Suggest(<<"nobody">>, <<>>, <<>>), Suggest(<<"total">>, <<>>, <<>>),
       Suggest(<<"sku">>, <<"lines">>, <<>>) >>,
    << [Suggest(<<>>, <<>>, <<>>) EXCEPT !.plan = Where(List(<<"total">>),
         <<Is("status", "eq", One(Text("settled")))>>)],
       Suggest(<<>>, <<"lines">>, <<"placed">>) >>,
    << Suggest(<<"total">>, <<>>, <<>>),
       [Suggest(<<>>, <<>>, <<>>) EXCEPT !.plan = List(<<"nobody">>)] >>,
    << [Suggest(<<"status">>, <<>>, <<>>) EXCEPT !.safe = FALSE] >> }

MCDeclarations == Accepted \cup Refused
=============================================================================

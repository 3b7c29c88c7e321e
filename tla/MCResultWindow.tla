---------------------------- MODULE MCResultWindow ----------------------------
(***************************************************************************)
(* Constants for checking ResultWindow: orders and their lines, a zone     *)
(* with a change of the clocks in spring and one in autumn, and plans that *)
(* filter, group, count and page across the lines.                         *)
(***************************************************************************)
EXTENDS ResultWindow

CONSTANT NoValue

Col(class, null, unique) ==
  [kind |-> "column", to |-> NoValue, class |-> class, null |-> null, unique |-> unique]
Rel(kind, to, null) ==
  [kind |-> kind, to |-> to, class |-> NoValue, null |-> null, unique |-> FALSE]

MCSchema ==
  [Order |-> [id |-> Col("AutoField", FALSE, TRUE), status |-> Col("CharField", FALSE, FALSE),
              total |-> Col("IntegerField", FALSE, FALSE),
              weight |-> Col("IntegerField", TRUE, FALSE),
              placed |-> Col("DateTimeField", FALSE, FALSE),
              day |-> Col("DateField", FALSE, FALSE),
              lines |-> Rel("reverse_many", "Line", TRUE)],
   Line |-> [id |-> Col("AutoField", FALSE, TRUE), sku |-> Col("CharField", TRUE, FALSE),
             price |-> Col("IntegerField", FALSE, FALSE),
             order |-> Rel("forward", "Order", FALSE)]]
MCPrimaryKey == [Order |-> "id", Line |-> "id"]

MCLimits ==
  [rows |-> 3, default |-> 5, joins |-> 1, metrics |-> 2, group |-> 1, bytes |-> 20,
   filters |-> 2, selected |-> 2, order |-> 1, edges |-> 1, inValues |-> 2, values |-> 3]

-----------------------------------------------------------------------------
(* The clock *)

Noon(year, month, day) ==
  24 * DayNumber([year |-> year, month |-> month, day |-> day]) + 12
\* 31 March, 2 o'clock becomes 3; 27 October, 3 o'clock becomes 2.
Spring == Noon(4, 3, 31) - 11
Autumn == Noon(4, 10, 27) - 11
MCClocks ==
  [West |-> [first |-> -5, changes |-> <<>>],
   Alps |-> [first |-> 1, changes |-> <<[at |-> Spring, offset |-> 2],
                                        [at |-> Autumn, offset |-> 1]>>]]

\* Two months before one of them, or one month before another, lies in a change
\* of the clocks or at the end of a shorter month; two days before the last are too
\* early for the dates of the West.
MCInstants ==
  {Noon(4, 5, 31) - 12, Noon(4, 11, 27) - 11, Noon(4, 3, 31) + 12, Noon(1, 1, 3) - 9}

-----------------------------------------------------------------------------
(* The host *)

Text(n) == [py |-> "str", reads |-> "text", value |-> n, spelling |-> 0]
Num(n) == [py |-> "int", reads |-> "number", value |-> n, spelling |-> 0]
Moment(n) == [py |-> "str", reads |-> "datetime", value |-> n, spelling |-> 0]

StatusEnum == [type |-> "string", values |-> <<[value |-> Text(1), aliases |-> <<>>],
                                               [value |-> Text(2), aliases |-> <<Text(3)>>]>>]
MemberOf(name, binding, type, nullable) ==
  [name |-> name, binding |-> binding, type |-> type, nullable |-> nullable, enum |-> NoValue,
   sensitive |-> FALSE, llmVisible |-> NoValue, resultVisible |-> NoValue,
   filterOnly |-> FALSE, perm |-> NoValue, scopeDimension |-> FALSE, prebuilt |-> FALSE]
Measure(name, op, binding, policy, distinct) ==
  [name |-> name, op |-> op, binding |-> binding, resultType |-> "integer",
   policy |-> policy, distinct |-> distinct, perm |-> NoValue]

Fields6 ==
  << [MemberOf("status", <<"status">>, "enum", FALSE) EXCEPT !.enum = StatusEnum],
     MemberOf("total", <<"total">>, "integer", FALSE),
     MemberOf("weight", <<"weight">>, "integer", TRUE),
     MemberOf("placed", <<"placed">>, "datetime", FALSE),
     MemberOf("day", <<"day">>, "date", FALSE) >>
HostMetrics ==
  << Measure("lines", "count", <<"lines", "id">>, "count_rows", NoValue),
     Measure("skus", "count", <<"lines", "sku">>, "count_distinct", <<"lines", "id">>),
     Measure("revenue", "sum", <<"total">>, "to_one_only", NoValue),
     Measure("heaviest", "max", <<"weight">>, "to_one_only", NoValue),
     [Measure("mean", "avg", <<"weight">>, "to_one_only", NoValue) EXCEPT !.resultType = "float"],
     Measure("total", "sum", <<"weight">>, "to_one_only", NoValue) >>
Sku(nullable) == MemberOf("sku", <<"lines", "sku">>, "string", nullable)
Turnover == Measure("turnover", "sum", <<"lines", "price">>, "to_one_only", NoValue)

Orders ==
  [name |-> "orders", model |-> "Order", mode |-> "context_scoped", provider |-> "provider",
   timezone |-> "Alps", perm |-> NoValue, scopeResource |-> FALSE, examples |-> TRUE,
   defaultDate |-> NoValue, defaultOrder |-> <<[field |-> "total", direction |-> "desc"]>>,
   identity |-> NoValue, fields |-> Append(Fields6, Sku(TRUE)), metrics |-> HostMetrics]

\* The last two are refused.
MCDeclarations ==
  { Orders,
    [Orders EXCEPT !.mode = "global", !.provider = NoValue, !.timezone = "West",
                   !.defaultOrder = <<>>],
    [Orders EXCEPT !.fields = Append(Fields6, Sku(FALSE))],
    [Orders EXCEPT !.metrics = Append(HostMetrics, Turnover)] }

-----------------------------------------------------------------------------
(* The database *)

Order(key, mine, status, total, weight, placed) ==
  [key |-> key, mine |-> mine,
   cells |-> (<<"id">> :> key) @@ (<<"status">> :> status) @@ (<<"total">> :> total)
             @@ (<<"weight">> :> weight) @@ (<<"placed">> :> placed)
             @@ (<<"day">> :> placed \div 24)]
Line(key, of, sku, price) ==
  [key |-> key, of |-> of,
   cells |-> (<<"lines", "id">> :> key) @@ (<<"lines", "sku">> :> sku)
             @@ (<<"lines", "price">> :> price)]

Late == Noon(4, 5, 30)
MCDatabases ==
  { [roots |-> {}, children |-> {}],
    [roots |-> {Order(1, TRUE, 1, 5, NoValue, Late), Order(2, TRUE, 1, 5, 1, Late),
                Order(3, TRUE, 2, 5, 2, Spring)},
     children |-> {Line(11, 1, 1, 1), Line(12, 1, 1, 2), Line(13, 2, 2, 1)}],
    [roots |-> {Order(1, TRUE, 2, 7, 3, Autumn), Order(2, FALSE, 1, 5, 1, Late),
                Order(4, TRUE, 1, 5, NoValue, Autumn + 1), Order(5, TRUE, 1, 5, 4, Late)},
     children |-> {Line(11, 1, NoValue, 1), Line(12, 1, 2, 2), Line(14, 4, 1, 1)}],
    [roots |-> {Order(1, TRUE, 9, 5, 1, Late), Order(2, TRUE, 1, 4, 1, Late)},
     children |-> {Line(11, 1, 1, 1)}] }

MCContaining == [t \in 1..3 |-> {t, 2}]

-----------------------------------------------------------------------------
(* Plans *)

One(v) == [list |-> FALSE, items |-> <<v>>]
Many(s) == [list |-> TRUE, items |-> s]
Is(field, op, value) == [field |-> field, op |-> op, value |-> value]
List(select, limit) ==
  [resource |-> "orders", intent |-> "list", select |-> select, filters |-> <<>>,
   group |-> <<>>, metrics |-> <<>>, order |-> <<>>, limit |-> limit]
Where(plan, filters) == [plan EXCEPT !.filters = filters]
By(plan, field, metric, direction) ==
  [plan EXCEPT !.order = <<[field |-> field, metric |-> metric, direction |-> direction]>>]
Per(metrics, field, trunc) ==
  [List(<<>>, 2) EXCEPT !.intent = "aggregate", !.metrics = metrics,
     !.group = IF field = NoValue THEN <<>> ELSE <<[field |-> field, trunc |-> trunc]>>]

SkuFilters ==
  { Is("sku", "eq", One(Text(1))), Is("sku", "neq", One(Text(1))),
    Is("sku", "in", Many(<<Text(1), Text(2)>>)), Is("sku", "contains", One(Text(1))),
    Is("sku", "isnull", One([Num(1) EXCEPT !.py = "bool"])),
    Is("sku", "isnull", One([Num(0) EXCEPT !.py = "bool"])) }
RootFilters ==
  { Is("status", "eq", One(Text(3))), Is("weight", "neq", One(Num(1))),
    Is("weight", "gte", One(Num(2))), Is("total", "lt", One(Num(6))),
    Is("placed", "date_range", Many(<<Moment(Spring), Moment(Late)>>)) }
RelativeFilters ==
  { Is(f, op, One(Num(n))) : f \in {"placed", "day"}, op \in {"last_n_days", "last_n_months"},
                             n \in {1, 2} }

ListPlans ==
  { List(<<"status">>, 1), List(<<"weight">>, NoValue), List(<<"total", "sku">>, 2),
    By(List(<<"weight">>, 2), "weight", NoValue, "desc"),
    By(List(<<"total">>, 2), "total", NoValue, "asc") }
  \cup { Where(List(<<"total">>, 2), <<f>>) : f \in SkuFilters \cup RootFilters \cup RelativeFilters }

AggregatePlans ==
  { Per(<<"lines", "skus">>, "sku", NoValue), Per(<<"revenue">>, "status", NoValue),
    By(Per(<<"revenue">>, "status", NoValue), NoValue, "revenue", "asc"),
    By(Per(<<"heaviest">>, "total", NoValue), NoValue, "heaviest", "desc"),
    By(Per(<<"mean">>, "status", NoValue), NoValue, "mean", "desc"),
    Per(<<"total">>, "total", NoValue),
    Per(<<"revenue">>, "placed", "month"), Per(<<"revenue">>, "day", "week"),
    Per(<<"lines">>, "placed", "quarter"), Per(<<"revenue">>, "sku", NoValue),
    Per(<<"revenue", "heaviest">>, NoValue, NoValue), Per(<<"lines", "revenue">>, NoValue, NoValue),
    Per(<<"turnover">>, NoValue, NoValue), Per(<<"turnover">>, "status", NoValue),
    Where(Per(<<"lines">>, NoValue, NoValue),
          <<Is("sku", "eq", One(Text(1))), Is("sku", "isnull", One([Num(0) EXCEPT !.py = "bool"]))>>) }
  \cup { Where(Per(<<"lines">>, "status", NoValue), <<f>>) : f \in SkuFilters }
  \cup { Where(Per(<<"revenue">>, NoValue, NoValue), <<f>>) : f \in SkuFilters \cup RootFilters }

MCPlans == ListPlans \cup AggregatePlans

\* The setting may be negative, which the adapter reads as no rows.
MCCaps == {-1, 1, 5}
=============================================================================

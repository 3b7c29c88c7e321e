----------------------------- MODULE ResultWindow -----------------------------
(***************************************************************************)
(* From a validated plan to the rows a client gets (compiler/orm.py,       *)
(* compiler/filters.py, compiler/aggregations.py, execution/runner.py,     *)
(* results/, mcp/core.py): the joins that filters, fields and metrics make *)
(* together, the ordering and its ties, the one row more that tells        *)
(* whether more are left, the contract of the cells, and the rows an MCP   *)
(* tool passes on.  Others write to the database meanwhile.                *)
(*                                                                         *)
(* The database holds rows of the resource's model and rows reached from   *)
(* them across one to-many relationship; what a binding reaches through    *)
(* foreign keys is a cell of the row it starts from.  What Django and the  *)
(* database make of the calls of the compiler is external.                 *)
(***************************************************************************)
EXTENDS PlanRules, RelativeDates

CONSTANTS
  Declarations,  \* what the host tries to register
  Permissions,   \* the caller's permission tokens
  Plans,         \* plans, as callers write them
  Instants,      \* values of the request clock
  Databases,     \* what the database may hold: [roots, children]
  Containing,    \* Containing[text]: the texts that contain it
  Caps,          \* values of MCP_MAX_RETURNED_ROWS
  MaxWrites,     \* bound: writes by others
  MaxRuns        \* bound: executions of one plan

\* A root is [key, mine, cells]: mine says whether the caller's scope holds it.  A
\* child is [key, of, cells], of being the key of its root.  Cells are numbered in
\* the order of their type, by binding; a null is None.

\* What a declaration holds, as in PlanAdmission; plans come parsed.
ASSUME DeclarationAssumption ==
  \A decl \in Declarations :
    /\ IsList(decl.fields) /\ IsList(decl.metrics) /\ IsList(decl.defaultOrder)
    /\ Distinct([i \in DOMAIN decl.fields |-> decl.fields[i].name])
    /\ \A i \in DOMAIN decl.fields :
         /\ decl.fields[i].name # None /\ IsList(decl.fields[i].binding)
         /\ decl.fields[i].enum # None =>
              \A v \in ToSet(decl.fields[i].enum.values) : IsScalar(v.value)

\* Plans are parsed, so an int of theirs is a number.
ASSUME PlanAssumption ==
  \A plan \in Plans :
    /\ IsPlan(plan) /\ Parses(plan)
    /\ \A f \in ToSet(plan.filters) : \A v \in ToSet(f.value.items) :
         v.py = "int" => v.value \in Int

\* The clock of a request is past the first day there is, and has zones to show.
ASSUME InstantAssumption ==
  /\ Zones \subseteq DOMAIN Clocks
  /\ \A now \in Instants : now \in Nat /\ now >= 24

\* A null is no fraction.
ASSUME NullAssumption == None \notin Int \X Int

ASSUME BoundAssumption == Caps \subseteq Int /\ MaxWrites \in Nat /\ MaxRuns \in Nat \ {0}

VARIABLES
  database, \* what the database holds now
  writes,   \* writes by others
  registered, \* the registered resource
  query     \* the execution followed

vars == <<database, writes, registered, query>>

\* compiled  limit, ordering and windows of the compiled query
\* snapshot  what the database held when the query was evaluated
\* earlier   the previous execution of the same plan
\* sent      the payload of the MCP tool
Idle == [phase |-> "idle", runs |-> 0, plan |-> None, now |-> 0, compiled |-> None,
         snapshot |-> None, rows |-> <<>>, truncated |-> FALSE, code |-> "ok",
         earlier |-> None, sent |-> None]

Init ==
  /\ database \in Databases
  /\ writes = 0
  /\ registered \in {BuildResource(d, None) :
                       d \in {d \in Declarations : DeclarationAccepted(d, None)}}
  /\ query = Idle

Field(name, resource) == Named(resource.fields, name)
Metric(name, resource) == Named(resource.metrics, name)
CrossesMany(path, resource) == ResolveFieldPath(resource.model, path).many # {}

-----------------------------------------------------------------------------
(* Rows of a query: external, what the joins of Django make *)

\* A row of a query under construction: a root and one child for every join, the
\* last one being what later uses of the relationship read.
NoChild == [key |-> 0, of |-> 0, cells |-> <<>>]
Cell(row, path) ==
  IF path \in DOMAIN row.root.cells THEN row.root.cells[path]
  ELSE LET child == row.joins[Len(row.joins)] IN
       IF child = NoChild THEN None ELSE child.cells[path]

Children(db, root) == {c \in db.children : c.of = root.key}

\* What the tables of a host hold: every binding of a declaration in the rows it
\* starts from, no null where the models have none, no date before the first, and one
\* row for every identity.
BindingsHeld(db, decl) ==
  LET Bound(path) == ResolveFieldPath(decl.model, path) IN
  \A path \in {f.binding : f \in ToSet(decl.fields)}
                \cup {k.binding : k \in ToSet(decl.metrics)}
                \cup ({k.distinct : k \in ToSet(decl.metrics)} \ {None}) :
    Bound(path).found =>
      IF Bound(path).many = {} THEN \A r \in db.roots : path \in DOMAIN r.cells
      ELSE /\ \A r \in db.roots : path \notin DOMAIN r.cells
           /\ \A c \in db.children : path \in DOMAIN c.cells

NullsHeld(db, decl) ==
  \A row \in db.roots \cup db.children : \A path \in DOMAIN row.cells :
    /\ row.cells[path] \in Int \cup {None}
    /\ row.cells[path] = None =>
         \E i \in DOMAIN path :
           \E step \in {Schema[Owners(decl.model, path)[i]][path[i]]} :
             step.null \/ step.kind \notin {"column", "forward"}

DatesHeld(db, decl) ==
  \A row \in db.roots \cup db.children : \A f \in ToSet(decl.fields) :
    f.binding \in DOMAIN row.cells /\ row.cells[f.binding] # None =>
      /\ f.type = "date" => row.cells[f.binding] \in Nat
      /\ f.type = "datetime" => Wall(decl.timezone, row.cells[f.binding]) \in Nat

IdentitiesHeld(db, decl) ==
  LET identity == <<RowIdentity(decl.model, decl.identity)>> IN
  /\ \A r \in db.roots : identity \in DOMAIN r.cells
  /\ \A r, s \in db.roots : r.cells[identity] = s.cells[identity] => r = s

ASSUME DatabaseAssumption ==
  \A db \in Databases :
    /\ IsFiniteSet(db.roots) /\ IsFiniteSet(db.children) /\ NoChild \notin db.children
    /\ \A decl \in Declarations :
         /\ BindingsHeld(db, decl) /\ NullsHeld(db, decl)
         /\ DatesHeld(db, decl) /\ IdentitiesHeld(db, decl)

InnerJoin(db, rows) ==
  UNION {{[row EXCEPT !.joins = Append(@, c)] : c \in Children(db, row.root)} : row \in rows}
OuterJoin(db, rows) ==
  InnerJoin(db, rows) \cup
  {[row EXCEPT !.joins = Append(@, NoChild)] :
     row \in {r \in rows : Children(db, r.root) = {}}}

\* values(), order_by() and the aggregates join once, unless a filter has.
Joined(db, rows, paths, resource) ==
  LET bare == {row \in rows : row.joins = <<>>} IN
  IF \E p \in paths : CrossesMany(p, resource)
  THEN (rows \ bare) \cup OuterJoin(db, bare) ELSE rows

-----------------------------------------------------------------------------
(* filters.py *)

\* build_filter_q, once the cell is known not to be null; window is None unless the
\* operator is relative.
Holds(filter, window, field, cell, resource) ==
  LET one == filter.value.items[1].value
      two == filter.value.items[2].value
  IN CASE filter.op \in {"eq", "neq"} -> cell = one
       [] filter.op = "in" -> \E v \in ToSet(filter.value.items) : cell = v.value
       [] filter.op = "gt" -> cell > one
       [] filter.op = "gte" -> cell >= one
       [] filter.op = "lt" -> cell < one
       [] filter.op = "lte" -> cell <= one
       [] filter.op \in {"contains", "icontains"} -> cell \in Containing[one]
       [] filter.op = "date_range" ->
            /\ one <= cell
            /\ IF field.type = "date" THEN cell <= two ELSE cell < two
       [] filter.op \in {"last_n_days", "last_n_months"} ->
            IF field.type = "date"
            THEN LET dates == DateBounds(window, resource.timezone) IN
                 dates.first <= cell /\ cell <= dates.last
            ELSE window.start <= cell /\ cell < window.end

Matches(filter, window, row, resource) ==
  LET field == Field(filter.field, resource)
      cell == Cell(row, field.binding)
  IN IF filter.op = "isnull" THEN (cell = None) = (filter.value.items[1].value = 1)
     ELSE cell # None /\ Holds(filter, window, field, cell, resource)

\* apply_filter: every filter is a filter() call of its own and so joins the to-many
\* relationship again; a negated one keeps the roots none of whose rows match.
ApplyFilter(db, rows, filter, window, resource) ==
  LET field == Field(filter.field, resource)
      Excluded(row) ==
        \E r \in IF field.many = {} THEN {row}
                 ELSE {[row EXCEPT !.joins = <<c>>] : c \in Children(db, row.root)} :
          Matches(filter, window, r, resource)
      Kept(joined) ==
        IF filter.op = "neq"
        THEN {row \in joined : Cell(row, field.binding) # None /\ ~Excluded(row)}
        ELSE {row \in joined : Matches(filter, window, row, resource)}
  IN Kept(IF field.many = {} THEN rows
          ELSE IF filter.op = "isnull" /\ filter.value.items[1].value = 1
          THEN OuterJoin(db, rows) ELSE InnerJoin(db, rows))

ApplyFilters(db, rows, filters, windows, resource) ==
  LET after[i \in 0..Len(filters)] ==
        IF i = 0 THEN rows ELSE ApplyFilter(db, after[i - 1], filters[i], windows[i], resource)
  IN after[Len(filters)]

\* The windows of the relative filters, with the clock of the request.
Windows(plan, now, resource) ==
  [i \in DOMAIN plan.filters |->
     LET f == plan.filters[i] IN
     IF f.op \in {"last_n_days", "last_n_months"}
     THEN RelativeBounds(f.op, f.value.items[1].value, now, resource.timezone)
     ELSE None]

\* get_scope_queryset: lazy, so it is evaluated with the query.
Scoped(db, resource) ==
  {[root |-> r, joins |-> <<>>] : r \in {r \in db.roots : resource.mode = "global" \/ r.mine}}

-----------------------------------------------------------------------------
(* orm.py, aggregations.py *)

\* Mutant of BuildListOrdering: the identity is not appended.
BuildListOrderingAsAsked(plan, resource) ==
  IF plan.order # <<>> THEN plan.order
  ELSE [i \in DOMAIN resource.defaultOrder |->
          [field |-> resource.defaultOrder[i].field, metric |-> None,
           direction |-> resource.defaultOrder[i].direction]]

\* Caller's or default order, then the identity of the root; a term of the
\* ordering is [field, metric, direction], the identity one has neither.
BuildListOrdering(plan, resource) ==
  LET asked == IF plan.order # <<>> THEN plan.order
               ELSE [i \in DOMAIN resource.defaultOrder |->
                       [field |-> resource.defaultOrder[i].field, metric |-> None,
                        direction |-> resource.defaultOrder[i].direction]]
  IN IF \E t \in ToSet(asked) : Field(t.field, resource).binding = <<resource.identity>>
     THEN asked
     ELSE Append(asked, [field |-> None, metric |-> None, direction |-> "asc"])

\* Caller's order, then every group key that is not in it yet.
BuildGroupedOrdering(plan) ==
  LET keys == Those(plan.group, LAMBDA g : g.field \notin {t.field : t \in ToSet(plan.order)})
  IN plan.order \o [i \in DOMAIN keys |->
                      [field |-> keys[i].field, metric |-> None, direction |-> "asc"]]

\* apply_ordering: nulls come last in either direction; other keys are fractions.
Less(a, b) == a[1] * b[2] < b[1] * a[2]
Precedes(a, b, direction) ==
  /\ a # None
  /\ b = None \/ IF direction = "asc" THEN Less(a, b) ELSE Less(b, a)
Tied(a, b, direction) == ~Precedes(a, b, direction) /\ ~Precedes(b, a, direction)

Before(a, b, ordering) ==
  \E i \in DOMAIN ordering :
    /\ Precedes(a[i], b[i], ordering[i].direction)
    /\ \A j \in 1..i - 1 : Tied(a[j], b[j], ordering[j].direction)

\* What the k first rows by key may be: the database returns ties in any order.
Longer(page, rows, ordering, key) ==
  LET left == rows \ ToSet(page)
      first == {a \in left : \A b \in left : ~Before(key[b], key[a], ordering)}
  IN IF left = {} THEN {page} ELSE {Append(page, a) : a \in first}
FirstRows(rows, k, ordering, key) ==
  LET pages[n \in 0..k] ==
        IF n = 0 THEN {<<>>}
        ELSE UNION {Longer(page, rows, ordering, key) : page \in pages[n - 1]}
  IN pages[k]

\* build_aggregate over the rows of one group, null cells left out; an average is
\* the pair of sum and count.
MetricPath(metric) ==
  IF metric.policy = "count_distinct" THEN metric.distinct ELSE metric.binding
Filled(metric, rows) == {row \in rows : Cell(row, MetricPath(metric)) # None}
SumOf(path, rows) == MapThenSumSet(LAMBDA row : Cell(row, path), rows)

AggregateOf(metric, filled) ==
  LET path == MetricPath(metric)
      cells == {Cell(row, path) : row \in filled}
  IN IF metric.op = "count"
     THEN IF metric.policy = "count_distinct" THEN Cardinality(cells) ELSE Cardinality(filled)
     ELSE IF filled = {} THEN None
     ELSE CASE metric.op = "sum" -> SumOf(path, filled)
            [] metric.op = "avg" -> <<SumOf(path, filled), Cardinality(filled)>>
            [] metric.op = "min" -> CHOOSE c \in cells : \A d \in cells : c <= d
            [] metric.op = "max" -> CHOOSE c \in cells : \A d \in cells : c >= d
Aggregated(metric, rows) == AggregateOf(metric, Filled(metric, rows))

\* The value of a group key, truncated in the time zone of the resource.
GroupKey(group, row, resource) ==
  LET field == Field(group.field, resource)
      cell == Cell(row, field.binding)
  IN IF cell = None \/ group.trunc = None THEN cell
     ELSE Bucket(group.trunc, IF field.type = "datetime" THEN LocalDay(resource.timezone, cell)
                              ELSE cell)

GroupNames(plan) == {g.field : g \in ToSet(plan.group)}
GroupedBy(plan, row, resource) ==
  [n \in GroupNames(plan) |->
     GroupKey(CHOOSE g \in ToSet(plan.group) : g.field = n, row, resource)]
AggregateRow(plan, key, rows, resource) ==
  [key |-> key,
   metrics |-> [n \in ToSet(plan.metrics) |-> Aggregated(Metric(n, resource), rows)]]

\* normalize_row: private aliases become names; a metric hides a key of its name.
PublicRow(plan, row, resource) ==
  IF plan.intent = "list"
  THEN [n \in ToSet(plan.select) |-> Cell(row, Field(n, resource).binding)]
  ELSE [n \in GroupNames(plan) \cup ToSet(plan.metrics) |->
          IF n \in ToSet(plan.metrics) THEN row.metrics[n] ELSE row.key[n]]

\* build_filter_q: a window begins within the dates there are; where local dates are
\* compared, in the zone of the resource too, which nothing there catches.
WindowCode(filter, window, resource) ==
  CASE window = None -> "ok"
    [] window = OutOfRange -> "PlanInvalid"
    [] OTHER -> Check(Field(filter.field, resource).type = "date" =>
                        Wall(resource.timezone, window.start) >= 0, "Compilation")

\* apply_filters: the first filter that fails decides.
WindowsCode(plan, windows, resource) ==
  FirstFailure([i \in DOMAIN plan.filters |->
                  WindowCode(plan.filters[i], windows[i], resource)])

\* _compile_prepared_query: an aggregate without groups is one row and is not cut.
Compile(plan, now, resource) ==
  LET ungrouped == plan.intent = "aggregate" /\ plan.group = <<>> IN
  [windows |-> Windows(plan, now, resource),
   ordering |-> IF plan.intent = "list" THEN BuildListOrdering(plan, resource)
                ELSE BuildGroupedOrdering(plan),
   limit |-> IF ungrouped THEN 1 ELSE plan.limit,
   scope |-> IF plan.intent = "list" THEN "rows" ELSE "groups",
   detectsTruncation |-> ~ungrouped]

\* Rows the query ranges over, every join made.
Ranged(plan, compiled, db, resource) ==
  LET names == ToSet(plan.select) \cup GroupNames(plan)
                 \cup ({t.field : t \in ToSet(compiled.ordering)} \ {None})
      metrics == {Metric(n, resource) : n \in ToSet(plan.metrics)}
  IN Joined(db, ApplyFilters(db, Scoped(db, resource), plan.filters, compiled.windows,
                             resource),
            {Field(n, resource).binding : n \in names} \cup {k.binding : k \in metrics}
              \cup ({k.distinct : k \in metrics} \ {None}), resource)

\* Every row of the result, before ordering and limit: a row of the query, or a
\* group of them.
Answers(plan, compiled, db, resource) ==
  LET Groups(keyed) ==
        {AggregateRow(plan, key, {p[1] : p \in {q \in keyed : q[2] = key}}, resource) :
           key \in {p[2] : p \in keyed} \cup (IF plan.group = <<>> THEN {[n \in {} |-> n]} ELSE {})}
      Of(rows) ==
        IF plan.intent = "list" THEN rows
        ELSE Groups({<<row, GroupedBy(plan, row, resource)>> : row \in rows})
  IN Of(Ranged(plan, compiled, db, resource))

\* What a term of the ordering compares: a number is a fraction over 1.
SortKey(plan, row, term, resource) ==
  LET value ==
        CASE plan.intent = "list" /\ term.field = None ->
               row.root.cells[<<resource.identity>>]
          [] plan.intent = "list" /\ term.field # None ->
               Cell(row, Field(term.field, resource).binding)
          [] OTHER -> IF term.field # None THEN row.key[term.field] ELSE row.metrics[term.metric]
      average == term.metric # None /\ Metric(term.metric, resource).op = "avg"
  IN IF value = None \/ average THEN value ELSE <<value, 1>>

\* Mutant of Asked: nothing more than the limit is asked for.
AskedLimit(compiled) == compiled.limit

\* One row more than the limit tells whether there are more.
Asked(compiled) ==
  IF compiled.detectsTruncation THEN compiled.limit + 1 ELSE compiled.limit

\* What evaluating the query may return.
Fetches(plan, compiled, db, resource) ==
  LET Key(row) ==
        [i \in DOMAIN compiled.ordering |-> SortKey(plan, row, compiled.ordering[i], resource)]
      Pages(rows) == FirstRows(rows, Asked(compiled), compiled.ordering,
                               [row \in rows |-> Key(row)])
  IN {[i \in DOMAIN s |-> PublicRow(plan, s[i], resource)] :
        s \in Pages(Answers(plan, compiled, db, resource))}

-----------------------------------------------------------------------------
(* results/ *)

\* field_column, metric_column
Column(plan, name, resource) ==
  IF name \in ToSet(plan.metrics)
  THEN [key |-> name, type |-> Metric(name, resource).resultType,
        nullable |-> Metric(name, resource).op # "count", enum |-> {}]
  ELSE [key |-> name, type |-> Field(name, resource).type,
        nullable |-> Field(name, resource).nullable,
        enum |-> IF Field(name, resource).enum = None THEN {}
                 ELSE {v.value.value : v \in ToSet(Field(name, resource).enum.values)}]
Columns(plan, resource) ==
  {Column(plan, n, resource) :
     n \in ToSet(plan.select) \cup GroupNames(plan) \cup ToSet(plan.metrics)}

\* normalize_cell_value: a null only where it is declared, an enumeration only
\* what is registered.
CellAccepted(column, cell) ==
  IF cell = None THEN column.nullable
  ELSE column.type = "enum" => cell \in column.enum

\* serialize_rows: the row has the columns' keys, and every cell is accepted.
RowsAccepted(plan, rows, resource) ==
  \A row \in ToSet(rows) :
    /\ DOMAIN row = {c.key : c \in Columns(plan, resource)}
    /\ \A c \in Columns(plan, resource) : CellAccepted(c, row[c.key])

-----------------------------------------------------------------------------
(* mcp/core.py *)

\* Mutant of McpMaxReturnedRows: a negative setting reaches the slice.
McpMaxReturnedRowsRaw(cap) == cap
McpMaxReturnedRows(cap) == IF cap > 0 THEN cap ELSE 0

\* Python's rows[:n].
Slice(s, n) == IF n >= Len(s) THEN s
               ELSE IF n < 0 THEN SubSeq(s, 1, Len(s) + n) ELSE SubSeq(s, 1, n)

\* apply_mcp_row_policy, apply_mcp_row_return_limit
McpPayload(rows, truncated, include, allowed, cap) ==
  LET most == McpMaxReturnedRows(cap) IN
  IF include /\ allowed
  THEN [data |-> Slice(rows, most), rowCount |-> Len(rows), truncated |-> truncated,
        omitted |-> FALSE, denied |-> FALSE, mcpLimit |-> most,
        mcpTruncated |-> Len(rows) > most]
  ELSE [data |-> <<>>, rowCount |-> Len(rows), truncated |-> truncated,
        omitted |-> TRUE, denied |-> include, mcpLimit |-> None, mcpTruncated |-> FALSE]

-----------------------------------------------------------------------------
(* Actions *)

Next1(q) == query' = q /\ UNCHANGED <<database, writes, registered>>

\* An accepted plan arrives and is bound to the clock of its request.
Accept(plan, now) ==
  /\ query.phase = "idle"
  /\ \E answer \in {ValidateForResource(plan, registered, Permissions)} :
       /\ answer.code = "ok"
       /\ Next1([query EXCEPT !.phase = "prepared", !.plan = answer.plan, !.now = now,
                              !.runs = 1])

\* A relative window outside the dates the server can hold is refused.
CompileQuery ==
  /\ query.phase = "prepared"
  /\ \E compiled \in {Compile(query.plan, query.now, registered)} :
       \E code \in {WindowsCode(query.plan, compiled.windows, registered)} :
         Next1(IF code # "ok" THEN [query EXCEPT !.phase = "failed", !.code = code]
               ELSE [query EXCEPT !.phase = "compiled", !.compiled = compiled])

\* _execute_compiled_query: one statement, then the cut, then the check of every
\* cell that is returned.
ExecuteCompiled ==
  /\ query.phase = "compiled"
  /\ \E fetched \in Fetches(query.plan, query.compiled, database, registered) :
       LET limit == query.compiled.limit
           rows == Slice(fetched, limit)
       IN Next1(IF ~RowsAccepted(query.plan, rows, registered)
                THEN [query EXCEPT !.phase = "failed", !.code = "ResultSerialization",
                                   !.snapshot = database]
                ELSE [query EXCEPT !.phase = "succeeded", !.snapshot = database, !.rows = rows,
                        !.truncated = /\ query.compiled.detectsTruncation
                                      /\ Len(fetched) > limit])

\* An MCP tool passes the result on.
Send(include, allowed, cap) ==
  /\ query.phase = "succeeded"
  /\ Next1([query EXCEPT !.phase = "sent",
              !.sent = McpPayload(query.rows, query.truncated, include, allowed, cap)])

\* The caller asks for the same plan again, in a request with a clock of its own.
Reload(now) ==
  /\ query.phase = "sent" /\ query.runs < MaxRuns
  /\ Next1([query EXCEPT !.phase = "prepared", !.runs = @ + 1, !.now = now, !.sent = None,
              !.compiled = None, !.snapshot = None, !.rows = <<>>, !.truncated = FALSE,
              !.earlier = [windows |-> query.compiled.windows, snapshot |-> query.snapshot,
                           rows |-> query.rows, truncated |-> query.truncated]])

\* Others write.
Write(db) ==
  /\ query.phase \in {"prepared", "compiled", "sent"}
  /\ writes < MaxWrites
  /\ db # database
  /\ database' = db
  /\ writes' = writes + 1
  /\ UNCHANGED <<registered, query>>

Finish ==
  /\ query.phase \in {"failed", "sent"}
  /\ query' = Idle
  /\ writes' = 0
  /\ UNCHANGED <<database, registered>>

Next ==
  \/ \E plan \in Plans, now \in Instants : Accept(plan, now)
  \/ CompileQuery
  \/ ExecuteCompiled
  \/ \E include, allowed \in BOOLEAN, cap \in Caps : Send(include, allowed, cap)
  \/ \E now \in Instants : Reload(now)
  \/ \E db \in Databases : Write(db)
  \/ Finish

Spec == Init /\ [][Next]_vars

-----------------------------------------------------------------------------
(* Properties *)

\* The variables have their types; a result obeys its limit, and a payload the cap.
TypeOK ==
  /\ database \in Databases /\ writes \in 0..MaxWrites
  /\ query.phase \in {"idle", "prepared", "compiled", "succeeded", "failed", "sent"}
  /\ query.runs \in 0..MaxRuns
  /\ query.phase \in {"succeeded", "sent"} =>
       /\ Len(query.rows) <= query.compiled.limit /\ query.compiled.limit <= Limits.rows
       /\ query.truncated => Len(query.rows) = query.compiled.limit
  /\ query.phase = "sent" =>
       /\ query.sent.mcpLimit \in Nat \cup {None}
       /\ query.sent.mcpLimit # None => Len(query.sent.data) <= query.sent.mcpLimit

EdgeFilters(plan, resource) ==
  {i \in DOMAIN plan.filters : Field(plan.filters[i].field, resource).many # {}}
MatchingRoots(plan, windows, db, resource) ==
  {row \in Scoped(db, resource) : \A i \in DOMAIN plan.filters \ EdgeFilters(plan, resource) :
     IF plan.filters[i].op = "neq"
     THEN /\ Cell(row, Field(plan.filters[i].field, resource).binding) # None
          /\ ~Matches(plan.filters[i], windows[i], row, resource)
     ELSE Matches(plan.filters[i], windows[i], row, resource)}
MatchingPairs(plan, windows, db, resource) ==
  {row \in InnerJoin(db, MatchingRoots(plan, windows, db, resource)) :
     \A i \in EdgeFilters(plan, resource) :
       Matches(plan.filters[i], windows[i], row, resource)}

\* The value of a metric in a row of the result, computed from the tables alone:
\* every row it counts counts once.
TrueValue(metric, row, plan, windows, db, resource) ==
  LET InGroup(r) == \A n \in GroupNames(plan) : GroupedBy(plan, r, resource)[n] = row[n]
      rows == IF metric.many = {} THEN MatchingRoots(plan, windows, db, resource)
              ELSE MatchingPairs(plan, windows, db, resource)
  IN Aggregated(metric, {r \in rows : InGroup(r)})

Finished == query.phase \in {"succeeded", "sent"}
TrueFor(names) ==
  \A row \in ToSet(query.rows) : \A n \in names :
    row[n] = TrueValue(Metric(n, registered), row, query.plan, query.compiled.windows,
                       query.snapshot, registered)

\* A metric is the aggregate of the rows it was registered for, each counted once,
\* whatever joins fields and filters add.  Plans that mix grains, filter the to-many
\* relationship twice, negate a filter on it, or group by a field that has the name
\* of a metric are left out: see the next property and the README.
\* (validation.py: fan-out; orm.py: joins.)
MetricsAreTrue ==
  LET plan == query.plan
      grains == {Metric(n, registered).many : n \in ToSet(plan.metrics)}
  IN Finished /\ plan.intent = "aggregate" /\ Cardinality(grains) = 1
       /\ Cardinality(EdgeFilters(plan, registered)) <= 1
       /\ (\A i \in EdgeFilters(plan, registered) : plan.filters[i].op # "neq")
       /\ GroupNames(plan) \cap ToSet(plan.metrics) = {}
     => TrueFor(ToSet(plan.metrics))

\* "Reject plan-level fanout that could silently alter registered metrics": a metric
\* of the roots counts every root once in every plan that is admitted.
\* (validation.py, docstring of the fan-out policy.)
RootMetricsCountOnce ==
  Finished /\ query.plan.intent = "aggregate" =>
    TrueFor({n \in ToSet(query.plan.metrics) : Metric(n, registered).many = {}})

\* The same plan over the same tables gives the same page, however the database
\* breaks ties and whatever the clock says, as long as its relative windows are the
\* same; unless a list selects a field across a to-many relationship.
\* (orm.py: tie-breakers.)
ReloadsAgree ==
  /\ Finished /\ query.earlier # None
  /\ query.earlier.snapshot = query.snapshot
  /\ query.earlier.windows = query.compiled.windows
  /\ \A n \in ToSet(query.plan.select) : Field(n, registered).many = {}
  => query.earlier.rows = query.rows /\ query.earlier.truncated = query.truncated

\* Rows are withheld only in sight: a payload that reports neither of the two cuts
\* nor an omission holds every row there was when the query was evaluated, and no
\* rows leave unless the caller asked and the host allows it.  (runner.py, core.py)
NothingSilentlyMissing ==
  query.phase = "sent" =>
    \E all \in {Cardinality(Answers(query.plan, query.compiled, query.snapshot,
                                     registered))} :
      LET payload == query.sent IN
      /\ ~payload.truncated /\ ~payload.mcpTruncated /\ ~payload.omitted =>
           Len(payload.data) = all
      /\ payload.truncated => all > payload.rowCount
      /\ payload.data = Slice(query.rows, Len(payload.data))
      /\ payload.omitted => payload.data = <<>>

\* Over tables that satisfy the host's models, no null of a column or a join makes
\* an accepted plan fail: only an unregistered enumeration value in the tables can.
\* (resources.py: nullability; serialization.py)
NullsAreDeclared ==
  query.phase = "failed" /\ query.code = "ResultSerialization" =>
    \E c \in Columns(query.plan, registered) : c.type = "enum" /\
      \E row \in query.snapshot.roots \cup query.snapshot.children :
        \E p \in DOMAIN row.cells :
          p = Field(c.key, registered).binding /\ row.cells[p] \notin c.enum \cup {None}

\* A relative window ends now; its local dates are those a date field is compared
\* with, and the server can hold them; and n months ago is the same reading of the clock n months earlier, on the
\* last day of a shorter month, at its first occurrence if the clock shows it twice
\* and after the change if it never shows it.  (dates.py, filters.py)
WindowsAgree ==
  query.phase = "compiled" =>
    \A i \in DOMAIN query.plan.filters : query.compiled.windows[i] # None =>
      LET zone == registered.timezone
          window == query.compiled.windows[i]
          months == query.plan.filters[i].value.items[1].value
          dates == DateBounds(window, zone)
          today == DateOf(LocalDay(zone, query.now))
          then == DateOf(LocalDay(zone, window.start))
          Reads(t) == Wall(zone, t) % 24 = Wall(zone, query.now) % 24
      IN /\ window.start < window.end /\ window.end = query.now
         /\ {LocalDay(zone, t) : t \in window.start..window.end - 1} = dates.first..dates.last
         /\ Field(query.plan.filters[i].field, registered).type = "date" => dates.first \in Nat
         /\ query.plan.filters[i].op = "last_n_months" =>
              /\ 12 * then.year + then.month = 12 * today.year + today.month - months
              /\ then.day = today.day \/
                   (then.day < today.day /\ then.day = MonthLength(then.year, then.month))
              /\ IF Reads(window.start)
                 THEN ~\E t \in window.start - 3..window.start - 1 :
                        Reads(t) /\ LocalDay(zone, t) = LocalDay(zone, window.start)
                 ELSE ~\E t \in window.start - 24..window.start + 24 :
                        Reads(t) /\ LocalDay(zone, t) = LocalDay(zone, window.start)
=============================================================================

------------------------------- MODULE Guidance -------------------------------
(***************************************************************************)
(* What a caller is told can be asked (catalog/capabilities.py) and the    *)
(* suggestions of query help with the plans built for them                 *)
(* (planning/help.py), derived from the public catalog alone.              *)
(*                                                                         *)
(* A suggestion is [resource, fields, metrics, dates, plan, safe,          *)
(* crossScope]: the members it names, a plan or None, whether its wording  *)
(* passes validate_suggestion_question_is_safe, and whether it matches     *)
(* question_implies_multi_scope.  Labels and synonyms are left out.        *)
(***************************************************************************)
EXTENDS PlanRules

CONSTANTS
  ScopeWords,   \* per scope kind, the resource and field names that spell it
  Identifiers,  \* field names that read as an identifier
  Alphabetical, \* Alphabetical[name]: the position of a field name among strings
  Anywhere      \* the "*" of a scoped permission token

-----------------------------------------------------------------------------
(* capabilities.py *)

\* Mutant of FieldCapability: whether results show the field is not looked at.
FieldCapabilityAnyResult(item) ==
  [name |-> item.name, depth |-> item.depth, operators |-> OperatorsOf(item.type),
   canSelect |-> ~item.filterOnly,
   canBucket |-> ~item.filterOnly /\ item.type \in DateTypes,
   scopeDimension |-> item.scopeDimension]

\* build_field_capability; can_group and can_order equal can_select, can_filter
\* is always true.
FieldCapability(item) ==
  LET results == ~item.filterOnly /\ item.resultVisible IN
  [name |-> item.name, depth |-> item.depth, operators |-> OperatorsOf(item.type),
   canSelect |-> results, canBucket |-> results /\ item.type \in DateTypes,
   scopeDimension |-> item.scopeDimension]

\* infer_capability_scope: an unscoped token or a wildcard means all scopes, one
\* scoped token a single scope; tokens of another form say nothing.
InferScope(required, permissions) ==
  LET scoped == {t \in permissions : t.form = "scoped" /\ t.perm = required}
      named == {t \in scoped : t.scope # Anywhere}
      FirstKind(S) == CHOOSE k \in {t.kind : t \in S} : TRUE
  IN CASE required = None -> [level |-> "unknown", kind |-> None]
       [] required # None /\ \E t \in permissions : t.form = "exact" /\ t.perm = required ->
            [level |-> "all", kind |-> None]
       [] OTHER ->
            IF scoped # named THEN [level |-> "all", kind |-> FirstKind(scoped \ named)]
            ELSE IF named = {} THEN [level |-> "unknown", kind |-> None]
            ELSE [level |-> IF Cardinality(named) = 1 THEN "single" ELSE "multiple",
                  kind |-> FirstKind(named)]

SingleScope(scope) == scope.level = "single"

SingleScopeResource(item, scope) ==
  SingleScope(scope) /\ (item.scopeResource \/ item.name \in ScopeWords[scope.kind])

ScopeDimension(field, scope) ==
  SingleScope(scope) /\ (field.scopeDimension \/ field.name \in ScopeWords[scope.kind])

\* Mutant of ExampleFields: the scope dimension is offered too.
ExampleFieldsAll(capability) ==
  Those(capability.fields, LAMBDA f : f.canSelect)

\* filter_single_scope_dimension_fields over the selectable fields
ExampleFields(capability) ==
  Those(capability.fields,
        LAMBDA f : f.canSelect /\ ~ScopeDimension(f, capability.scope))

\* group_field_example_sort_key: readable fields first, then the nearest ones, then
\* by name.
GroupRank(f) == (IF f.name \in Identifiers THEN 1000 ELSE 0) + f.depth
NearestGroupFields(fields) ==
  {f \in ToSet(fields) : \A g \in ToSet(fields) : GroupRank(f) <= GroupRank(g)}
FirstGroupField(fields) ==
  CHOOSE f \in NearestGroupFields(fields) :
    \A g \in NearestGroupFields(fields) : Alphabetical[f.name] <= Alphabetical[g.name]

Suggestion(resource, fields, metrics, dates) ==
  [resource |-> resource, fields |-> fields, metrics |-> metrics, dates |-> dates,
   plan |-> None, safe |-> TRUE, crossScope |-> FALSE]

IsSuggestion(s) ==
  /\ IsList(s.fields) /\ IsList(s.metrics) /\ IsList(s.dates)
  /\ s.plan = None \/ IsPlan(s.plan)

\* Python's s[:n]
Take(n, s) == SubSeq(s, 1, IF Len(s) < n THEN Len(s) ELSE n)

\* build_resource_examples, each example with the members its wording names
\* (enrich_deterministic_suggestion_references finds them again).
Examples(capability) ==
  LET FieldNames(s) == [i \in DOMAIN s |-> s[i].name]
      When(holds, example) == IF holds THEN <<example>> ELSE <<>>
      Offered(fields, groups, dates) ==
        When(fields # <<>>,
             Suggestion(capability.name, FieldNames(Take(3, fields)), <<>>, <<>>))
        \o When(capability.metrics # <<>> /\ groups # <<>>,
                Suggestion(capability.name, <<FirstGroupField(groups).name>>,
                           <<capability.metrics[1].name>>, <<>>))
        \o When(capability.metrics # <<>> /\ dates # <<>>,
                Suggestion(capability.name, <<>>, <<capability.metrics[1].name>>,
                           <<dates[1].name>>))
      From(fields) == Offered(fields, Those(fields, LAMBDA f : ~f.canBucket),
                              Those(fields, LAMBDA f : f.canBucket))
  IN IF ~capability.examples \/ SingleScopeResource(capability, capability.scope)
     THEN <<>> ELSE From(ExampleFields(capability))

\* build_resource_capability
ResourceCapability(item, required, permissions) ==
  [name |-> item.name, scopeResource |-> item.scopeResource, examples |-> item.examples,
   fields |-> [i \in DOMAIN item.fields |-> FieldCapability(item.fields[i])],
   metrics |-> item.metrics,
   scope |-> InferScope(required, permissions)]

\* build_query_guidance over the visible catalog
QueryGuidance(resources, permissions) ==
  LET Of(items) ==
        [i \in DOMAIN items |->
           ResourceCapability(items[i], Named(resources, items[i].name).perm, permissions)]
  IN Of(CatalogSnapshot(resources, permissions))

-----------------------------------------------------------------------------
(* help.py: plans built from suggestions *)

DateFields(capability) == Those(capability.fields, LAMBDA f : f.canBucket)
Selectable(capability) == {f.name : f \in {g \in ToSet(capability.fields) : g.canSelect}}
SuggestionLimit == 50

AggregateSuggestionPlan(s, capability) ==
  LET grouped == IF s.dates # <<>> THEN <<s.dates[1]>>
                 ELSE Those(Take(2, s.fields), LAMBDA n : n \in Selectable(capability))
      trunc == IF s.dates # <<>> THEN "month" ELSE None
  IN [resource |-> capability.name, intent |-> "aggregate", select |-> <<>>,
      filters |-> <<>>, metrics |-> s.metrics, limit |-> SuggestionLimit,
      group |-> [i \in DOMAIN grouped |-> [field |-> grouped[i], trunc |-> trunc]],
      order |-> IF s.dates # <<>>
                THEN <<[field |-> grouped[1], metric |-> None, direction |-> "asc"]>>
                ELSE <<[field |-> None, metric |-> s.metrics[1], direction |-> "desc"]>>]

\* The fallback is the first three selectable fields of the resource.
ListSuggestionFields(s, capability) ==
  LET asked == Those(s.fields, LAMBDA n : n \in Selectable(capability))
      all == Those(capability.fields, LAMBDA f : f.canSelect)
  IN IF asked # <<>> THEN Take(8, asked)
     ELSE Take(3, [i \in DOMAIN all |-> all[i].name])

ListSuggestionPlan(s, capability) ==
  [resource |-> capability.name, intent |-> "list",
   select |-> ListSuggestionFields(s, capability), filters |-> <<>>, metrics |-> <<>>,
   group |-> <<>>, order |-> <<>>, limit |-> SuggestionLimit]

SuggestionPlan(s, capability) ==
  IF s.plan # None THEN s.plan
  ELSE IF s.metrics # <<>> THEN AggregateSuggestionPlan(s, capability)
  ELSE ListSuggestionPlan(s, capability)

\* validate_suggestion_respects_scope
RespectsScope(s, capability) ==
  SingleScope(capability.scope) =>
    /\ ~SingleScopeResource(capability, capability.scope)
    /\ \A f \in ToSet(capability.fields) :
         f.name \in ToSet(s.fields) => ~ScopeDimension(f, capability.scope)
    /\ ~s.crossScope

ReferencesKnown(s, capability) ==
  /\ ToSet(s.fields) \subseteq Names(capability.fields)
  /\ ToSet(s.metrics) \subseteq Names(capability.metrics)
  /\ ToSet(s.dates) \subseteq Names(DateFields(capability))

\* validate_plan_uses_capabilities
PlanUsesCapability(plan, capability) ==
  /\ FieldReferences(plan) \subseteq Names(capability.fields)
  /\ {g.field : g \in {h \in ToSet(plan.group) : h.trunc # None}}
       \subseteq Names(DateFields(capability))
  /\ ToSet(plan.metrics) \subseteq Names(capability.metrics)

ValidateSuggestionPlan(s, capability, resources, permissions) ==
  LET Then(answer) ==
        IF answer.code # "ok" THEN answer
        ELSE [answer EXCEPT !.code =
                Check(/\ answer.plan.resource = capability.name
                      /\ PlanUsesCapability(answer.plan, capability), "PlanInvalid")]
  IN Then(Validate(SuggestionPlan(s, capability), resources, permissions))

\* validate_query_help_suggestion with require_plan
ValidateSuggestion(s, guidance, resources, permissions) ==
  IF s.resource \notin Names(guidance) THEN [code |-> "PlanInvalid", plan |-> None] ELSE
  LET capability == Named(guidance, s.resource) IN
  IF s.safe /\ RespectsScope(s, capability) /\ ReferencesKnown(s, capability)
  THEN ValidateSuggestionPlan(s, capability, resources, permissions)
  ELSE [code |-> "PlanInvalid", plan |-> None]

\* The plans of the answers that are accepted, in order.
AcceptedPlans(answers) ==
  LET Of(kept) == [i \in DOMAIN kept |-> kept[i].plan]
  IN Of(Those(answers, LAMBDA a : a.code = "ok"))

\* validate_query_help: a suggestion that raises a PlanValidationError is
\* dropped; any other error, and losing every suggestion, ends the help.  At
\* most the requested number of suggestions is kept.
ValidateHelp(suggestions, count, guidance, resources, permissions) ==
  LET Result(raised, plans) ==
        CASE raised # <<>> -> [code |-> raised[1].code, plans |-> <<>>]
          [] raised = <<>> /\ plans = <<>> /\ suggestions # <<>> ->
               [code |-> "PlanInvalid", plans |-> <<>>]
          [] OTHER -> [code |-> "ok", plans |-> Take(count, plans)]
      From(answers) ==
        Result(Those(answers, LAMBDA a : a.code \notin PlanValidationErrors \cup {"ok"}),
               AcceptedPlans(answers))
  IN From([i \in DOMAIN suggestions |->
             ValidateSuggestion(suggestions[i], guidance, resources, permissions)])

\* build_deterministic_query_help: the first examples are shown, as many as asked
\* for, those whose plan is not accepted without one.
DeterministicPlans(count, guidance, resources, permissions) ==
  LET Of(examples) ==
        AcceptedPlans([i \in DOMAIN examples |->
          ValidateSuggestionPlan(examples[i], Named(guidance, examples[i].resource),
                                 resources, permissions)])
  IN Of(Take(count, FlattenSeq([i \in DOMAIN guidance |-> Examples(guidance[i])])))
=============================================================================

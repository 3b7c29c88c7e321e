---------------------------- MODULE PlanAdmission ----------------------------
(***************************************************************************)
(* The life of a plan from the catalog to a prepared query: the host       *)
(* registers resources and changes rights (catalog/registry.py), a caller  *)
(* is shown what can be asked, a provider answers with a plan or with help *)
(* (planning/planner.py, planning/help.py), or a caller submits a saved    *)
(* plan; the facade then validates the plan again under the rights of that *)
(* moment and prepares it (execution/runner.py).                           *)
(*                                                                         *)
(* Registry and rights are shared with other requests, so they may change  *)
(* between any two steps of the attempt that is followed here.             *)
(***************************************************************************)
EXTENDS Guidance

CONSTANTS
  Declarations,     \* what hosts try to register
  DefaultScopeMode, \* DEFAULT_SCOPE_MODE
  PermissionSets,   \* sets of permission tokens a caller may have
  Plans,            \* plans of providers and callers
  Helps,            \* sequences of suggestions of providers
  Counts,           \* numbers of suggestions asked for
  MaxResources,     \* bound: resources registered at once
  MaxRaces          \* bound: changes by others during one attempt

\* A declaration holds its fields in a mapping by name, each bound by a path, and
\* what an enumeration compares with are scalars.
ASSUME DeclarationAssumption ==
  \A decl \in Declarations :
    /\ IsList(decl.fields) /\ IsList(decl.metrics)
    /\ Distinct([i \in DOMAIN decl.fields |-> decl.fields[i].name])
    /\ \A i \in DOMAIN decl.fields :
         /\ IsList(decl.fields[i].binding) /\ Alphabetical[decl.fields[i].name] \in Nat
         /\ decl.fields[i].enum # None =>
              \A v \in ToSet(decl.fields[i].enum.values) : IsScalar(v.value)

ASSUME AnswerAssumption ==
  /\ \A plan \in Plans : IsPlan(plan)
  /\ \A help \in Helps : IsList(help) /\ \A s \in ToSet(help) : IsSuggestion(s)

ASSUME BoundAssumption == Counts \subseteq Nat /\ MaxResources \in Nat /\ MaxRaces \in Nat

VARIABLES
  resources,   \* CatalogRegistry._resources, in registration order
  permissions, \* what get_request_permissions answers now
  races,       \* changes by others during the attempt
  cleared,     \* history: the registry was cleared during the attempt
  attempt      \* the request followed

vars == <<resources, permissions, races, cleared, attempt>>

Phases == {"idle", "asked", "planned", "helped", "validated", "prepared", "refused"}

\* guidance   what the provider is shown, fixed when the question arrives
\* taken      the rights of that moment; granted  those the facade reads
\* plan       the plan, normalised once validated
\* against    the resource it was last validated against, or None
\* prepared   the resource the query was bound to
\* suggested  the plans shown as help
NoAttempt ==
  [phase |-> "idle", guidance |-> <<>>, taken |-> {}, granted |-> {}, plan |-> None,
   against |-> None, prepared |-> None, suggested |-> <<>>, help |-> <<>>, code |-> "ok"]

Init ==
  /\ resources = <<>>
  /\ permissions \in PermissionSets
  /\ races = 0
  /\ cleared = FALSE
  /\ attempt = NoAttempt

-----------------------------------------------------------------------------
(* The host *)

\* Changes between attempts are free, those during one are counted; an attempt
\* that is over reads nothing more, so a change is left for after it.
Race ==
  \/ attempt.phase = "idle" /\ races' = races
  \/ /\ attempt.phase \in {"asked", "planned", "helped", "validated"}
     /\ races < MaxRaces
     /\ races' = races + 1

\* Mutant of Register: a second resource of the same name is kept.
RegisterTwice(decl) ==
  /\ Race
  /\ Len(resources) < MaxResources
  /\ DeclarationAccepted(decl, DefaultScopeMode)
  /\ resources' = Append(resources, BuildResource(decl, DefaultScopeMode))
  /\ UNCHANGED <<permissions, cleared, attempt>>

\* A refused declaration and a second one of the same name raise.
Register(decl) ==
  /\ Race
  /\ Len(resources) < MaxResources
  /\ decl.name \notin Names(resources)
  /\ DeclarationAccepted(decl, DefaultScopeMode)
  /\ resources' = Append(resources, BuildResource(decl, DefaultScopeMode))
  /\ UNCHANGED <<permissions, cleared, attempt>>

Clear ==
  /\ Race
  /\ resources # <<>>
  /\ resources' = <<>>
  /\ cleared' = (attempt.phase # "idle")
  /\ UNCHANGED <<permissions, attempt>>

ChangePermissions(P) ==
  /\ Race
  /\ P # permissions
  /\ permissions' = P
  /\ UNCHANGED <<resources, cleared, attempt>>

-----------------------------------------------------------------------------
(* Planning *)

Step(next) ==
  /\ attempt' = next
  /\ UNCHANGED <<resources, permissions, races, cleared>>

\* The question arrives: rights are read and the guidance is built once.
Ask ==
  /\ attempt.phase = "idle"
  /\ Step([attempt EXCEPT !.phase = "asked", !.taken = permissions,
                          !.guidance = QueryGuidance(resources, permissions)])

Refuse(code) == [attempt EXCEPT !.phase = "refused", !.code = code]

Against(plan) == IF plan.resource \in Names(resources)
                 THEN Named(resources, plan.resource) ELSE None

\* normalize_compact_query_plan: the unified response forgives an aggregate plan
\* that selects what it groups by.
NormalizeCompactQueryPlan(plan) ==
  IF plan.intent = "aggregate" /\ ToSet(plan.select) \subseteq {g.field : g \in ToSet(plan.group)}
  THEN [plan EXCEPT !.select = <<>>] ELSE plan

\* The provider answers with a plan, to the planner or in a unified response.
ProvidePlan(given, unified) ==
  /\ attempt.phase = "asked"
  /\ \E plan \in {IF unified THEN NormalizeCompactQueryPlan(given) ELSE given} :
       \E answer \in {Validate(plan, resources, attempt.taken)} :
         Step(IF answer.code # "ok"
              THEN [Refuse(answer.code) EXCEPT !.plan = plan, !.against = Against(plan),
                                               !.granted = attempt.taken]
              ELSE [attempt EXCEPT !.phase = "planned", !.plan = answer.plan,
                                   !.against = Against(plan)])

\* The provider answers with suggestions, validated against the guidance shown
\* and the registry of now.
ProvideHelp(help, count) ==
  /\ attempt.phase = "asked"
  /\ \E answer \in {ValidateHelp(help, count, attempt.guidance, resources, attempt.taken)} :
       Step(IF answer.code # "ok"
            THEN [Refuse(answer.code) EXCEPT !.help = help]
            ELSE [attempt EXCEPT !.phase = "helped", !.help = help,
                                 !.suggested = answer.plans])

\* Without a provider the help is built from the guidance.
DeterministicHelp(count) ==
  /\ attempt.phase = "asked"
  /\ Step([attempt EXCEPT !.phase = "helped",
             !.suggested = DeterministicPlans(count, attempt.guidance, resources,
                                              attempt.taken)])

\* A saved, edited or direct plan; nothing is known of it.
Submit(plan) ==
  /\ attempt.phase = "idle"
  /\ Step([attempt EXCEPT !.phase = "planned", !.plan = plan])

\* A suggestion shown earlier is clicked.
Click(i) ==
  /\ attempt.phase = "helped"
  /\ Step([attempt EXCEPT !.phase = "planned", !.plan = attempt.suggested[i],
                          !.against = Against(attempt.suggested[i])])

-----------------------------------------------------------------------------
(* The facade *)

\* Mutant of Execute: a plan that was validated when it was made is trusted.
ExecuteTrusting ==
  /\ attempt.phase = "planned"
  /\ \E answer \in {Validate(attempt.plan, resources, permissions)} :
       Step(IF answer.code # "ok" /\ (attempt.against = None \/ Against(attempt.plan) = None)
            THEN [Refuse(answer.code) EXCEPT !.granted = permissions,
                                             !.against = Against(attempt.plan)]
            ELSE [attempt EXCEPT !.phase = "validated", !.granted = permissions,
                                 !.plan = answer.plan, !.against = Against(attempt.plan)])

\* The context reads the rights of now and the plan is parsed and validated
\* again, whoever made it.
Execute ==
  /\ attempt.phase = "planned"
  /\ \E answer \in {Validate(attempt.plan, resources, permissions)} :
       Step(IF answer.code # "ok"
            THEN [Refuse(answer.code) EXCEPT !.granted = permissions,
                                             !.against = Against(attempt.plan)]
            ELSE [attempt EXCEPT !.phase = "validated", !.granted = permissions,
                                 !.plan = answer.plan, !.against = Against(attempt.plan)])

\* _prepare_query_plan: the name is looked up a second time and the resource's
\* scope provider is called.
Prepare(returned) ==
  /\ attempt.phase = "validated"
  /\ \E resource \in {Against(attempt.plan)} :
       Step(IF resource = None THEN Refuse("UnknownResource")
            ELSE IF ScopeOutcome(resource, TRUE, returned) = "scope"
            THEN Refuse("ScopeUnavailable")
            ELSE [attempt EXCEPT !.phase = "prepared", !.prepared = resource])

Finish ==
  /\ attempt.phase \in {"helped", "prepared", "refused"}
  /\ attempt' = NoAttempt
  /\ races' = 0
  /\ cleared' = FALSE
  /\ UNCHANGED <<resources, permissions>>

Next ==
  \/ \E decl \in Declarations : Register(decl)
  \/ Clear
  \/ \E P \in PermissionSets : ChangePermissions(P)
  \/ Ask
  \/ \E plan \in Plans, unified \in BOOLEAN : ProvidePlan(plan, unified)
  \/ \E plan \in Plans : Submit(plan)
  \/ \E help \in Helps, count \in Counts : ProvideHelp(help, count)
  \/ \E count \in Counts : DeterministicHelp(count)
  \/ \E i \in DOMAIN attempt.suggested : Click(i)
  \/ Execute
  \/ \E returned \in {"queryset", "evaluated"} : Prepare(returned)
  \/ Finish

Spec == Init /\ [][Next]_vars

-----------------------------------------------------------------------------
(* Properties *)

\* The variables have their types, and an attempt carries what its phase needs.
TypeOK ==
  /\ Len(resources) <= MaxResources
  /\ Distinct([i \in DOMAIN resources |-> resources[i].name])
  /\ permissions \in PermissionSets
  /\ races \in 0..MaxRaces /\ cleared \in BOOLEAN
  /\ attempt.phase \in Phases
  /\ attempt.phase \in {"planned", "validated", "prepared"} => IsPlan(attempt.plan)
  /\ \A i \in DOMAIN attempt.suggested : IsPlan(attempt.suggested[i])
  /\ attempt.phase \in {"validated", "prepared"} => attempt.plan.limit \in 1..Limits.rows
  /\ (attempt.phase = "refused") <=> (attempt.code # "ok")

\* Every path a database that satisfies the models can leave empty is declared
\* nullable, and every text a registered enumeration accepts means one value.
\* (resources.py: what registration promises the planner.)
DeclarationsHold ==
  \A i \in DOMAIN resources : \A f \in ToSet(resources[i].fields) :
    LET owner == Owners(resources[i].model, f.binding)
        Empty(j) == LET c == Schema[owner[j]][f.binding[j]]
                    IN c.null \/ c.kind \notin {"column", "forward"}
    IN /\ f.nullable \/ \A j \in DOMAIN f.binding : ~Empty(j)
       /\ f.enum # None =>
            \A v \in ToSet(f.enum.values) : \A t \in EnumTokens(v) :
              EnumValueOf(f.enum, t) = {v.value}

\* What the guidance offers is what validation accepts: a field is listed for
\* results, filters or grouping exactly when it may be used so, and a metric is
\* listed exactly when it may be requested, by everyone and within MAX_JOINS.
\* (capabilities.py and validation.py decide this separately.)
GuidanceIsExact ==
  attempt.phase = "asked" /\ races = 0 =>
    \A i \in DOMAIN resources :
      LET resource == resources[i]
          listed == resource.name \in Names(attempt.guidance)
          capability == Named(attempt.guidance, resource.name)
          Offered(name) == listed /\ name \in Names(capability.fields)
          Use(name, usage) == FieldUse(resource, name, usage, attempt.taken)
          permitted == PermissionSetAllows(attempt.taken, resource.perm)
      IN /\ \A f \in ToSet(resource.fields) : Cardinality(f.edges) <= Limits.joins =>
              /\ Offered(f.name) <=> (permitted /\ Use(f.name, "filter") = "ok")
              /\ \A usage \in ResultUsages :
                   (Offered(f.name) /\ Named(capability.fields, f.name).canSelect)
                     <=> (permitted /\ Use(f.name, usage) = "ok")
         /\ \A k \in ToSet(resource.metrics) : k.depth <= Limits.joins =>
              ((listed /\ k.name \in Names(capability.metrics))
                 <=> (permitted /\ MetricUse(resource, k.name, attempt.taken) = "ok"))

AllRights == UNION PermissionSets

\* A caller who only lacks rights is told what a caller naming an unknown member
\* is told: a plan that every right together would admit is refused, if at all,
\* as asklens.member.unavailable.  (validation.py, exceptions.py)
OnlyRightsDiffer ==
  /\ attempt.phase = "refused" /\ attempt.plan # None /\ attempt.against # None
  /\ Bytes(attempt.plan) <= Limits.bytes /\ Parses(attempt.plan)
  /\ ValidateForResource(attempt.plan, attempt.against, AllRights).code = "ok"
  => attempt.code \in MemberUnavailable \cup {"ScopeUnavailable"}

\* A validated plan validates again to itself: a suggestion, a preview or a saved
\* plan means the same when it comes back, as long as the byte budget holds the
\* limit that was added.  (validation.py: normalisation is idempotent.)
RevalidationIsStable ==
  /\ attempt.phase = "validated" /\ Bytes(attempt.plan) <= Limits.bytes =>
       ValidateForResource(attempt.plan, attempt.against, attempt.granted)
         = [code |-> "ok", plan |-> attempt.plan]
  /\ attempt.phase = "helped" /\ races = 0 =>
       \A i \in DOMAIN attempt.suggested :
         Bytes(attempt.suggested[i]) <= Limits.bytes =>
           Validate(attempt.suggested[i], resources, attempt.taken)
             = [code |-> "ok", plan |-> attempt.suggested[i]]

\* A query is prepared only from members the caller may use under the rights the
\* facade read, however they changed since the plan was made; and, unless the
\* registry was cleared, against the very resource it was validated against.
\* (runner.py: the name is looked up twice.)
PreparedUnderCurrentRights ==
  attempt.phase = "prepared" =>
    /\ ValidateForResource(attempt.plan, attempt.against, attempt.granted).code = "ok"
    /\ \A f \in UsedFields(attempt.plan, attempt.against) :
         FieldCatalogVisible(f, attempt.granted)
    /\ \A k \in UsedMetrics(attempt.plan, attempt.against) :
         PermissionSetAllows(attempt.granted, k.perm)
    /\ ~cleared => attempt.prepared = attempt.against

\* Every plan shown as help names only members of the guidance the caller was
\* given, and within a single scope an example without a provider never asks for
\* the scope dimension.  (help.py, capabilities.py)
HelpStaysInGuidance ==
  attempt.phase = "helped" =>
    \A i \in DOMAIN attempt.suggested :
      LET plan == attempt.suggested[i] IN
      /\ plan.resource \in Names(attempt.guidance)
      /\ LET capability == Named(attempt.guidance, plan.resource) IN
         /\ PlanUsesCapability(plan, capability)
         /\ attempt.help = <<>> =>
              \A f \in ToSet(capability.fields) :
                f.name \in FieldReferences(plan) => ~ScopeDimension(f, capability.scope)

\* "filters invalid suggestions before display": help is refused only when none
\* of its suggestions is valid.  (docs/test-project-demo.md; help.py)
InvalidSuggestionsAreFiltered ==
  attempt.phase = "refused" /\ attempt.help # <<>> =>
    \A i \in DOMAIN attempt.help :
      ValidateSuggestion(attempt.help[i], attempt.guidance, resources,
                         attempt.taken).code # "ok"
=============================================================================

------------------------ MODULE PlanAdmissionProofs ------------------------
(***************************************************************************)
(* For any schema, declarations, rights, answers and limits that satisfy   *)
(* the assumptions, and any number of registrations and races: every       *)
(* property of PlanAdmission the run checks, but the one the code does not *)
(* keep. The inductive invariant carries what an attempt learned in an     *)
(* earlier step: the facade looks a resource up, validates, and looks it   *)
(* up again later, and in between the host may register, clear or change   *)
(* rights. It says that registered names stay unique, so both lookups      *)
(* agree unless the registry was cleared; under which rights and against   *)
(* which resource a plan was validated, and that it is its own normal      *)
(* form; why a plan was refused; and, while nobody interferes, that the    *)
(* guidance is that of the registry and every plan shown as help would be  *)
(* accepted. Step by step it is shown that Init establishes it and that    *)
(* every action keeps it.                                                  *)
(***************************************************************************)
EXTENDS PlanAdmission, PlanRulesProofs

-----------------------------------------------------------------------------
(* The inductive invariant *)

\* What hosts can have registered.
Registrable ==
  {BuildResource(decl, DefaultScopeMode) :
     decl \in {d \in Declarations : DeclarationAccepted(d, DefaultScopeMode)}}

AttemptIsRecord ==
  attempt = [phase |-> attempt.phase, guidance |-> attempt.guidance,
             taken |-> attempt.taken, granted |-> attempt.granted, plan |-> attempt.plan,
             against |-> attempt.against, prepared |-> attempt.prepared,
             suggested |-> attempt.suggested, help |-> attempt.help, code |-> attempt.code]

RegistryHolds ==
  /\ resources \in Seq(Registrable) /\ Len(resources) <= MaxResources
  /\ Distinct([i \in DOMAIN resources |-> resources[i].name])
  /\ permissions \in PermissionSets /\ races \in 0..MaxRaces /\ cleared \in BOOLEAN

\* What every phase knows of the attempt.
PhasesHold ==
  /\ AttemptIsRecord /\ attempt.phase \in Phases
  /\ (attempt.phase = "refused") <=> (attempt.code # "ok")
  /\ attempt.phase = "idle" => attempt = NoAttempt /\ races = 0 /\ cleared = FALSE
  /\ attempt.phase = "asked" =>
       attempt.taken \in PermissionSets /\ attempt.plan = None /\ attempt.help = <<>>
  /\ attempt.phase = "planned" => IsPlan(attempt.plan)
  /\ \A i \in DOMAIN attempt.suggested : IsPlan(attempt.suggested[i])

\* A plan the facade validated: under which rights and against which resource.
ValidatedHolds ==
  attempt.phase \in {"validated", "prepared"} =>
    /\ IsPlan(attempt.plan) /\ attempt.plan.limit \in 1..Limits.rows
    /\ attempt.against \in Registrable /\ attempt.granted \in PermissionSets
    /\ AdmissionCode(attempt.plan, attempt.against, attempt.granted) = "ok"
    /\ ValidateForResource(attempt.plan, attempt.against, attempt.granted)
         = [code |-> "ok", plan |-> attempt.plan]
    /\ ~cleared =>
         IF attempt.phase = "prepared" THEN attempt.prepared = attempt.against
         ELSE /\ attempt.plan.resource \in Names(resources)
              /\ Named(resources, attempt.plan.resource) = attempt.against

\* Why an attempt was refused: a right or a scope, or what its plan is.
RefusedHolds ==
  attempt.phase = "refused" =>
    \/ attempt.plan = None \/ attempt.against = None
    \/ attempt.code \in MemberUnavailable \cup {"ScopeUnavailable"}
    \/ /\ IsPlan(attempt.plan) /\ attempt.granted \in PermissionSets
       /\ Bytes(attempt.plan) <= Limits.bytes /\ Parses(attempt.plan) =>
            attempt.code
              = ValidateForResource(attempt.plan, attempt.against, attempt.granted).code

SuggestedAgain ==
  \A i \in DOMAIN attempt.suggested :
    Bytes(attempt.suggested[i]) <= Limits.bytes =>
      Validate(attempt.suggested[i], resources, attempt.taken)
        = [code |-> "ok", plan |-> attempt.suggested[i]]

\* While nobody else changes anything, what was shown is what is registered.
UndisturbedHolds ==
  races = 0 =>
    /\ attempt.phase = "asked" => attempt.guidance = QueryGuidance(resources, attempt.taken)
    /\ attempt.phase = "helped" => SuggestedAgain

\* A field of the guidance has a place among those to group by.
IsRanked(f) == f.depth \in Nat /\ Alphabetical[f.name] \in Nat

GuidanceIsNamed(guidance) ==
  /\ IsList(guidance) /\ Distinct([i \in DOMAIN guidance |-> guidance[i].name])
  /\ \A i \in DOMAIN guidance :
       /\ IsList(guidance[i].fields) /\ IsList(guidance[i].metrics)
       /\ Distinct([j \in DOMAIN guidance[i].fields |-> guidance[i].fields[j].name])
       /\ \A f \in ToSet(guidance[i].fields) : IsRanked(f)

\* The guidance of an attempt and the help drawn from it.
GuidanceHolds ==
  /\ attempt.phase \in {"asked", "helped"} => GuidanceIsNamed(attempt.guidance)
  /\ HelpStaysInGuidance

IndInv ==
  /\ RegistryHolds /\ PhasesHold /\ ValidatedHolds /\ RefusedHolds
  /\ UndisturbedHolds /\ GuidanceHolds

-----------------------------------------------------------------------------
(* Registered resources *)

\* DeclarationsHold of one resource.
FieldsHold(resource) ==
  \A f \in ToSet(resource.fields) :
    LET owner == Owners(resource.model, f.binding)
        Empty(j) == LET c == Schema[owner[j]][f.binding[j]]
                    IN c.null \/ c.kind \notin {"column", "forward"}
    IN /\ f.nullable \/ \A j \in DOMAIN f.binding : ~Empty(j)
       /\ f.enum # None =>
            \A v \in ToSet(f.enum.values) : \A t \in EnumTokens(v) :
              EnumValueOf(f.enum, t) = {v.value}

\* What registration makes certain of a resource: its names are unique, its paths
\* resolve, what can be empty is nullable and its enumerations are unambiguous.
LEMMA RegistrableHolds ==
  ASSUME NEW r \in Registrable
  PROVE  /\ IsList(r.fields) /\ IsList(r.metrics) /\ EnumsHold(r) /\ MembersNamedOnce(r)
         /\ FieldsHold(r)
         /\ \A i \in DOMAIN r.fields :
              /\ Cardinality(r.fields[i].edges) \in Nat
              /\ Alphabetical[r.fields[i].name] \in Nat
<1>1. PICK decl \in Declarations :
        DeclarationAccepted(decl, DefaultScopeMode) /\ r = BuildResource(decl, DefaultScopeMode)
  BY DEF Registrable
<1>2. /\ IsList(decl.fields) /\ IsList(decl.metrics)
      /\ Distinct([i \in DOMAIN decl.fields |-> decl.fields[i].name])
      /\ \A i \in DOMAIN decl.fields :
           /\ IsList(decl.fields[i].binding) /\ Alphabetical[decl.fields[i].name] \in Nat
           /\ decl.fields[i].enum # None =>
                \A v \in ToSet(decl.fields[i].enum.values) : IsScalar(v.value)
  BY DeclarationAssumption
<1>3. /\ IsList(r.fields) /\ r.name = decl.name /\ r.model = decl.model
      /\ DOMAIN r.fields = DOMAIN decl.fields
      /\ \A i \in DOMAIN decl.fields :
           /\ r.fields[i].name = decl.fields[i].name
           /\ r.fields[i].binding = decl.fields[i].binding
           /\ r.fields[i].nullable = decl.fields[i].nullable
           /\ r.fields[i].enum = decl.fields[i].enum
           /\ r.fields[i].type = decl.fields[i].type
           /\ r.fields[i].edges = ResolveFieldPath(decl.model, decl.fields[i].binding).edges
           /\ FieldAccepted(decl.model, decl.fields[i])
  BY <1>1, <1>2, BuiltField
<1>4. IsList(r.metrics) /\ Distinct([i \in DOMAIN r.metrics |-> r.metrics[i].name])
  BY <1>1, <1>2, BuiltMetrics
<1>5. MembersNamedOnce(r)
  <2>1. \A i, j \in DOMAIN r.fields : r.fields[i].name = r.fields[j].name => i = j
    BY <1>2, <1>3 DEF Distinct
  <2>. DEFINE names == [i \in DOMAIN r.fields |-> r.fields[i].name]
  <2>2. \A i, j \in DOMAIN names : names[i] = names[j] => i = j
    BY <2>1
  <2>. QED  BY <1>4, <2>2 DEF MembersNamedOnce, Distinct
<1>6. \A i \in DOMAIN r.fields :
        \E type : EnumAccepted(r.fields[i].type, type, r.fields[i].enum)
  BY <1>3 DEF FieldAccepted
<1>7. ASSUME NEW f \in ToSet(r.fields)
      PROVE  /\ f.enum = None \/ EnumUnambiguous(f.enum.values)
             /\ f.type = "enum" =>
                  /\ f.enum # None /\ EnumUnambiguous(f.enum.values)
                  /\ \A v \in ToSet(f.enum.values) :
                       IsScalar(v.value) /\ v.value.py \in {"str", "int"}
  <2>1. PICK i \in DOMAIN r.fields : f = r.fields[i]
    BY DEF ToSet
  <2>2. PICK type : EnumAccepted(f.type, type, f.enum)
    BY <1>6, <2>1
  <2>3. f.enum # None => \A v \in ToSet(f.enum.values) : IsScalar(v.value)
    BY <1>2, <1>3, <2>1
  <2>. QED  BY <2>2, <2>3 DEF EnumAccepted
<1>8. EnumsHold(r)
  BY <1>7 DEF EnumsHold, EnumHolds
<1>9. ASSUME NEW f \in ToSet(r.fields), NEW j \in DOMAIN f.binding, ~f.nullable
      PROVE  LET c == Schema[Owners(r.model, f.binding)[j]][f.binding[j]]
             IN ~c.null /\ c.kind \in {"column", "forward"}
  <2>1. PICK i \in DOMAIN r.fields : f = r.fields[i]
    BY DEF ToSet
  <2>2. FieldAccepted(decl.model, decl.fields[i]) /\ ~decl.fields[i].nullable
        /\ IsList(decl.fields[i].binding) /\ j \in DOMAIN decl.fields[i].binding
        /\ decl.fields[i].binding = f.binding /\ decl.model = r.model
    BY <1>2, <1>3, <1>9, <2>1
  <2>. QED  BY <2>2, BindingNeverEmpty
<1>10. ASSUME NEW f \in ToSet(r.fields), f.enum # None,
              NEW v \in ToSet(f.enum.values), NEW t \in EnumTokens(v)
       PROVE  EnumValueOf(f.enum, t) = {v.value}
  BY <1>7, <1>10, EnumTokensAgree DEF EnumValueOf
<1>11. FieldsHold(r)
  <2>1. ASSUME NEW f \in ToSet(r.fields)
        PROVE  f.nullable \/ \A j \in DOMAIN f.binding :
                 LET c == Schema[Owners(r.model, f.binding)[j]][f.binding[j]]
                 IN ~(c.null \/ c.kind \notin {"column", "forward"})
    BY <1>9
  <2>. QED  BY <1>10, <2>1 DEF FieldsHold
<1>12. ASSUME NEW i \in DOMAIN r.fields
       PROVE  Cardinality(r.fields[i].edges) \in Nat /\ Alphabetical[r.fields[i].name] \in Nat
  <2>1. ResolveFieldPath(decl.model, decl.fields[i].binding).found
    BY <1>3 DEF FieldAccepted
  <2>2. IsFiniteSet(r.fields[i].edges)
    BY <1>2, <1>3, <2>1, EdgesFinite
  <2>. QED  BY <1>2, <1>3, <2>2, FS_CardinalityType
<1>. QED  BY <1>3, <1>4, <1>5, <1>8, <1>11, <1>12

-----------------------------------------------------------------------------
(* Guidance *)

\* What the guidance offers of a resource: the members the caller may see.
LEMMA CapabilityOf ==
  ASSUME NEW r \in Registrable, NEW P
  PROVE  LET c == ResourceCapability(ResourceItem(r, P), r.perm, P) IN
         /\ c.name = r.name /\ IsList(c.fields) /\ IsList(c.metrics)
         /\ Distinct([j \in DOMAIN c.fields |-> c.fields[j].name])
         /\ \A f \in ToSet(c.fields) : IsRanked(f)
         /\ \A f \in ToSet(r.fields) :
              /\ f.name \in Names(c.fields) <=> FieldCatalogVisible(f, P)
              /\ FieldCatalogVisible(f, P) =>
                   Named(c.fields, f.name) = FieldCapability(FieldItem(f))
         /\ \A k \in ToSet(r.metrics) :
              k.name \in Names(c.metrics) <=> PermissionSetAllows(P, k.perm)
<1>. DEFINE item == ResourceItem(r, P)
            c == ResourceCapability(item, r.perm, P)
            K == {i \in DOMAIN r.fields : FieldCatalogVisible(r.fields[i], P)}
            L == {i \in DOMAIN r.metrics : PermissionSetAllows(P, r.metrics[i].perm)}
            fields == AtPositions(r.fields, K)
            metrics == AtPositions(r.metrics, L)
<1>1. /\ IsList(r.fields) /\ Distinct([i \in DOMAIN r.fields |-> r.fields[i].name])
      /\ IsList(r.metrics) /\ Distinct([i \in DOMAIN r.metrics |-> r.metrics[i].name])
      /\ \A i \in DOMAIN r.fields :
           /\ Cardinality(r.fields[i].edges) \in Nat
           /\ Alphabetical[r.fields[i].name] \in Nat
  BY RegistrableHolds DEF MembersNamedOnce
<1>2. /\ IsList(fields) /\ Distinct([n \in DOMAIN fields |-> fields[n].name])
      /\ \A n \in DOMAIN fields : \E i \in K : fields[n] = r.fields[i]
      /\ \A i \in DOMAIN r.fields : (r.fields[i].name \in Names(fields)) <=> (i \in K)
      /\ \A i \in K : Named(fields, r.fields[i].name) = r.fields[i]
  BY <1>1, SelectedByName
<1>3. /\ IsList(metrics) /\ Distinct([n \in DOMAIN metrics |-> metrics[n].name])
      /\ \A i \in DOMAIN r.metrics : (r.metrics[i].name \in Names(metrics)) <=> (i \in L)
  BY <1>1, SelectedByName
<1>4. /\ item.name = r.name
      /\ item.fields = [i \in DOMAIN fields |-> FieldItem(fields[i])]
      /\ item.metrics = [i \in DOMAIN metrics |-> MetricItem(metrics[i])]
  BY DEF ResourceItem, Those
<1>5. /\ c.name = item.name /\ c.metrics = item.metrics
      /\ c.fields = [i \in DOMAIN item.fields |-> FieldCapability(item.fields[i])]
  BY DEF ResourceCapability
<1>. HIDE DEF item, c, fields, metrics
<1>6. /\ DOMAIN c.fields = DOMAIN fields
      /\ \A i \in DOMAIN fields : c.fields[i] = FieldCapability(FieldItem(fields[i]))
  BY <1>4, <1>5
<1>7. \A i \in DOMAIN fields : c.fields[i].name = fields[i].name
  <2>1. ASSUME NEW f  PROVE FieldCapability(FieldItem(f)).name = f.name
    BY DEF FieldCapability, FieldItem
  <2>. QED  BY <1>6, <2>1
<1>8. /\ DOMAIN c.metrics = DOMAIN metrics
      /\ \A i \in DOMAIN metrics : c.metrics[i].name = metrics[i].name
  BY <1>4, <1>5 DEF MetricItem
<1>9. /\ Distinct([j \in DOMAIN c.fields |-> c.fields[j].name])
      /\ Names(c.fields) = Names(fields)
      /\ \A i \in DOMAIN fields : Named(c.fields, fields[i].name) = c.fields[i]
  <2>. DEFINE u == c.fields
  <2>1. DOMAIN u = DOMAIN fields /\ \A i \in DOMAIN fields : u[i].name = fields[i].name
    BY <1>6, <1>7
  <2>2. Distinct([n \in DOMAIN fields |-> fields[n].name])
    BY <1>2
  <2>. HIDE DEF u, K, L
  <2>3. /\ Distinct([i \in DOMAIN u |-> u[i].name]) /\ Names(u) = Names(fields)
        /\ \A i \in DOMAIN fields : Named(u, fields[i].name) = u[i]
    BY <2>1, <2>2, MappedByName
  <2>. QED  BY <2>3 DEF u
<1>10. Names(c.metrics) = Names(metrics)
  BY <1>8 DEF Names
<1>11. IsList(c.fields) /\ IsList(c.metrics)
  BY <1>2, <1>3, <1>4, <1>5 DEF IsList
<1>12. ASSUME NEW f \in ToSet(r.fields)
       PROVE  /\ f.name \in Names(c.fields) <=> FieldCatalogVisible(f, P)
              /\ FieldCatalogVisible(f, P) =>
                   Named(c.fields, f.name) = FieldCapability(FieldItem(f))
  <2>1. PICK i \in DOMAIN r.fields : f = r.fields[i]
    BY DEF ToSet
  <2>2. f.name \in Names(c.fields) <=> FieldCatalogVisible(f, P)
    BY <1>2, <1>9, <2>1
  <2>3. ASSUME FieldCatalogVisible(f, P)
        PROVE  Named(c.fields, f.name) = FieldCapability(FieldItem(f))
    <3>1. f.name \in Names(fields) /\ Named(fields, f.name) = f
      BY <1>2, <2>1, <2>3
    <3>2. PICK n \in DOMAIN fields : fields[n] = f
      BY <3>1, NamedMember
    <3>. QED  BY <1>6, <1>9, <3>2
  <2>. QED  BY <2>2, <2>3
<1>13. ASSUME NEW k \in ToSet(r.metrics)
       PROVE  k.name \in Names(c.metrics) <=> PermissionSetAllows(P, k.perm)
  <2>1. PICK i \in DOMAIN r.metrics : k = r.metrics[i]
    BY DEF ToSet
  <2>. QED  BY <1>3, <1>10, <2>1
<1>14. ASSUME NEW f \in ToSet(c.fields)  PROVE IsRanked(f)
  <2>1. PICK n \in DOMAIN fields : f = FieldCapability(FieldItem(fields[n]))
    BY <1>6 DEF ToSet
  <2>2. /\ f.depth = Cardinality(fields[n].edges)
        /\ f.name = fields[n].name
    BY <2>1 DEF FieldCapability, FieldItem
  <2>3. PICK i \in DOMAIN r.fields : fields[n] = r.fields[i]
    BY <1>2
  <2>. QED  BY <1>1, <2>2, <2>3 DEF IsRanked
<1>. QED  BY <1>4, <1>5, <1>9, <1>11, <1>12, <1>13, <1>14 DEF c, item

\* The guidance lists exactly the permitted resources, each once.
LEMMA GuidanceOf ==
  ASSUME NEW registered \in Seq(Registrable),
         Distinct([i \in DOMAIN registered |-> registered[i].name]), NEW P
  PROVE  LET guidance == QueryGuidance(registered, P) IN
         /\ GuidanceIsNamed(guidance)
         /\ \A i \in DOMAIN registered :
              LET r == registered[i] IN
              /\ r.name \in Names(guidance) <=> PermissionSetAllows(P, r.perm)
              /\ PermissionSetAllows(P, r.perm) =>
                   Named(guidance, r.name) = ResourceCapability(ResourceItem(r, P), r.perm, P)
<1>. DEFINE K == {i \in DOMAIN registered : PermissionSetAllows(P, registered[i].perm)}
            visible == AtPositions(registered, K)
            capability(r) == ResourceCapability(ResourceItem(r, P), r.perm, P)
            guidance == QueryGuidance(registered, P)
            snapshot == [i \in DOMAIN visible |-> ResourceItem(visible[i], P)]
<1>1. IsList(registered) /\ \A i \in DOMAIN registered : registered[i] \in Registrable
  BY SeqIsList
<1>2. /\ IsList(visible) /\ Distinct([n \in DOMAIN visible |-> visible[n].name])
      /\ \A n \in DOMAIN visible : \E i \in K : visible[n] = registered[i]
      /\ \A i \in DOMAIN registered : (registered[i].name \in Names(visible)) <=> (i \in K)
      /\ \A i \in K : Named(visible, registered[i].name) = registered[i]
  BY <1>1, SelectedByName
<1>3. CatalogSnapshot(registered, P) = snapshot
  BY DEF CatalogSnapshot, Those
<1>4. guidance = [i \in DOMAIN snapshot |->
                    ResourceCapability(snapshot[i], Named(registered, snapshot[i].name).perm, P)]
  BY <1>3 DEF QueryGuidance
<1>. HIDE DEF visible
<1>5. \A n \in DOMAIN visible : visible[n] \in Registrable
  BY <1>1, <1>2
<1>6. ASSUME NEW n \in DOMAIN visible
      PROVE  guidance[n] = capability(visible[n])
  <2>1. PICK i \in K : visible[n] = registered[i]
    BY <1>2
  <2>2. Named(registered, visible[n].name) = visible[n]
    BY <2>1, NamedUnique
  <2>3. ResourceItem(visible[n], P).name = visible[n].name
    BY DEF ResourceItem
  <2>. QED  BY <1>4, <2>2, <2>3
<1>7. DOMAIN guidance = DOMAIN visible /\ IsList(guidance)
  BY <1>2, <1>4 DEF IsList
<1>. HIDE DEF guidance, capability
<1>8. \A n \in DOMAIN visible :
        LET c == guidance[n] IN
        /\ c.name = visible[n].name /\ IsList(c.fields) /\ IsList(c.metrics)
        /\ Distinct([j \in DOMAIN c.fields |-> c.fields[j].name])
        /\ \A f \in ToSet(c.fields) : IsRanked(f)
  BY <1>5, <1>6, CapabilityOf DEF capability
<1>9. /\ Distinct([i \in DOMAIN guidance |-> guidance[i].name]) /\ Names(guidance) = Names(visible)
      /\ \A n \in DOMAIN visible : Named(guidance, visible[n].name) = guidance[n]
  <2>1. \A n \in DOMAIN visible : guidance[n].name = visible[n].name
    BY <1>8
  <2>2. Distinct([n \in DOMAIN visible |-> visible[n].name]) /\ DOMAIN guidance = DOMAIN visible
    BY <1>2, <1>7
  <2>. HIDE DEF K, snapshot
  <2>. QED  BY <2>1, <2>2, MappedByName
<1>10. GuidanceIsNamed(guidance)
  BY <1>7, <1>8, <1>9 DEF GuidanceIsNamed
<1>11. ASSUME NEW i \in DOMAIN registered
       PROVE  LET r == registered[i] IN
              /\ r.name \in Names(guidance) <=> PermissionSetAllows(P, r.perm)
              /\ PermissionSetAllows(P, r.perm) => Named(guidance, r.name) = capability(r)
  <2>. DEFINE r == registered[i]
  <2>1. r.name \in Names(guidance) <=> PermissionSetAllows(P, r.perm)
    BY <1>2, <1>9
  <2>2. ASSUME PermissionSetAllows(P, r.perm)
        PROVE  Named(guidance, r.name) = capability(r)
    <3>1. r.name \in Names(visible) /\ Named(visible, r.name) = r
      BY <1>2, <2>2
    <3>2. PICK n \in DOMAIN visible : visible[n] = r
      BY <3>1, NamedMember
    <3>. QED  BY <1>6, <1>9, <3>2
  <2>. QED  BY <2>1, <2>2
<1>. QED  BY <1>10, <1>11 DEF guidance, capability

-----------------------------------------------------------------------------
(* Answers *)

\* Python's s[:n] of a list.
LEMMA TakeOfList ==
  ASSUME NEW n \in Nat, NEW s, IsList(s)
  PROVE  LET t == Take(n, s) IN
         /\ IsList(t) /\ \A i \in DOMAIN t : i \in DOMAIN s /\ t[i] = s[i]
         /\ n # 0 /\ s # <<>> => t # <<>>
<1>. DEFINE m == IF Len(s) < n THEN Len(s) ELSE n
            t == Take(n, s)
<1>1. Len(s) \in Nat /\ DOMAIN s = 1..Len(s) /\ m \in 0..Len(s)
  BY DEF IsList
<1>2. s \in Seq({s[i] : i \in DOMAIN s})
  BY ListIsSeq
<1>3. t = SubSeq(s, 1, m)
  BY DEF Take
<1>. HIDE DEF m
<1>4. Len(t) = m /\ DOMAIN t = 1..m /\ t = [i \in 1..m |-> t[i]] /\ \A i \in 1..m : t[i] = s[i]
  BY <1>1, <1>2, <1>3
<1>. HIDE DEF t
<1>5. n # 0 /\ s # <<>> => m # 0
  BY <1>1, <1>2 DEF m
<1>. QED  BY <1>1, <1>4, <1>5 DEF IsList, t

\* Every plan that is kept of some validated ones was accepted.
LEMMA ThoseAccepted ==
  ASSUME NEW answers, IsList(answers)
  PROVE  LET plans == AcceptedPlans(answers) IN
         /\ IsList(plans)
         /\ \A i \in DOMAIN plans : \E k \in DOMAIN answers :
              answers[k].code = "ok" /\ plans[i] = answers[k].plan
<1>. DEFINE K == {i \in DOMAIN answers : answers[i].code = "ok"}
            kept == AtPositions(answers, K)
            plans == AcceptedPlans(answers)
<1>1. IsList(kept) /\ \A n \in DOMAIN kept : \E i \in K : kept[n] = answers[i]
  BY SelectionOfList
<1>2. plans = [i \in DOMAIN kept |-> kept[i].plan]
  BY DEF AcceptedPlans, Those
<1>. HIDE DEF kept, plans
<1>3. IsList(plans)
  BY <1>1, <1>2 DEF IsList
<1>. QED  BY <1>1, <1>2, <1>3 DEF plans

\* What is known of a plan that validation accepts now.
LEMMA AnswerHolds ==
  ASSUME NEW plan, IsPlan(plan), NEW registered \in Seq(Registrable),
         Distinct([i \in DOMAIN registered |-> registered[i].name]), NEW P,
         Validate(plan, registered, P).code = "ok"
  PROVE  LET answer == Validate(plan, registered, P)
             q == answer.plan
             r == Named(registered, q.resource)
         IN /\ Parses(plan) /\ IsPlan(q) /\ q.limit \in 1..Limits.rows
            /\ q.resource = plan.resource /\ q.resource \in Names(registered)
            /\ r \in Registrable /\ r.name = q.resource
            /\ AdmissionCode(q, r, P) = "ok"
            /\ ValidateForResource(q, r, P) = [code |-> "ok", plan |-> q]
            /\ Bytes(q) <= Limits.bytes =>
                 Validate(q, registered, P) = [code |-> "ok", plan |-> q]
            /\ FieldReferences(q) = FieldReferences(plan)
<1>. DEFINE answer == Validate(plan, registered, P)
            q == answer.plan
            r == Named(registered, plan.resource)
<1>1. Parses(plan) /\ plan.resource \in Names(registered)
      /\ answer = ValidateForResource(plan, r, P)
  BY Validated
<1>2. r \in Registrable /\ r.name = plan.resource
  BY <1>1, NamedMember, SeqIsList
<1>3. EnumsHold(r)
  BY <1>2, RegistrableHolds
<1>. HIDE DEF answer, r
<1>4. /\ IsPlan(q) /\ Parses(q) /\ q.limit \in 1..Limits.rows /\ q.resource = plan.resource
      /\ AdmissionCode(q, r, P) = "ok"
      /\ ValidateForResource(q, r, P) = [code |-> "ok", plan |-> q]
  BY <1>1, <1>3, ValidationIsIdempotent DEF answer
<1>5. FieldReferences(q) = FieldReferences(plan)
  BY <1>1, <1>3, ValidatedReferences DEF answer
<1>6. r = Named(registered, q.resource)
  BY <1>4 DEF r
<1>7. Bytes(q) <= Limits.bytes => Validate(q, registered, P) = [code |-> "ok", plan |-> q]
  BY <1>1, <1>4, <1>6, Validated
<1>. QED  BY <1>1, <1>2, <1>4, <1>5, <1>6, <1>7 DEF answer

-----------------------------------------------------------------------------
(* Suggestions *)

\* A plan that may be shown as help: it validates again to itself and stays
\* within the guidance.
Showable(plan, guidance, registered, P) ==
  /\ IsPlan(plan)
  /\ Bytes(plan) <= Limits.bytes =>
       Validate(plan, registered, P) = [code |-> "ok", plan |-> plan]
  /\ plan.resource \in Names(guidance)
  /\ PlanUsesCapability(plan, Named(guidance, plan.resource))

\* A list of one entry.
LEMMA SingletonIsList ==
  ASSUME NEW x
  PROVE  IsList(<<x>>)
BY DEF IsList

\* The empty list.
LEMMA EmptyIsList == IsList(<<>>)
BY DEF IsList

\* The plan made for a suggestion is a plan.
LEMMA SuggestedPlanIsPlan ==
  ASSUME NEW s, IsSuggestion(s), NEW capability, IsList(capability.fields)
  PROVE  IsPlan(SuggestionPlan(s, capability))
<1>1. IsList(s.fields) /\ IsList(s.metrics) /\ IsList(s.dates) /\ SuggestionLimit \in Int
      /\ ToSet(<<>>) = {}
  BY DEF IsSuggestion, SuggestionLimit, ToSet
<1>2. IsPlan(AggregateSuggestionPlan(s, capability))
  <2>. DEFINE K == {i \in DOMAIN Take(2, s.fields) : Take(2, s.fields)[i] \in Selectable(capability)}
              asked == AtPositions(Take(2, s.fields), K)
              grouped == IF s.dates # <<>> THEN <<s.dates[1]>> ELSE asked
              trunc == IF s.dates # <<>> THEN "month" ELSE None
              group == [i \in DOMAIN grouped |-> [field |-> grouped[i], trunc |-> trunc]]
              order == IF s.dates # <<>>
                       THEN <<[field |-> grouped[1], metric |-> None, direction |-> "asc"]>>
                       ELSE <<[field |-> None, metric |-> s.metrics[1], direction |-> "desc"]>>
              p == [resource |-> capability.name, intent |-> "aggregate", select |-> <<>>,
                    filters |-> <<>>, metrics |-> s.metrics, limit |-> SuggestionLimit,
                    group |-> group, order |-> order]
  <2>1. AggregateSuggestionPlan(s, capability) = p
    BY DEF AggregateSuggestionPlan, Those
  <2>2. IsList(asked)
    <3>1. IsList(Take(2, s.fields))
      BY <1>1, TakeOfList
    <3>2. K \in SUBSET DOMAIN Take(2, s.fields)
      OBVIOUS
    <3>. HIDE DEF K
    <3>. QED  BY <3>1, <3>2, SelectionOfList
  <2>3. IsList(grouped)
    <3>1. IsList(<<s.dates[1]>>)
      BY SingletonIsList
    <3>. HIDE DEF asked
    <3>. QED  BY <2>2, <3>1
  <2>. HIDE DEF grouped
  <2>4. IsList(group)
    <3>1. Len(grouped) \in Nat /\ DOMAIN grouped = 1..Len(grouped)
      BY <2>3 DEF IsList
    <3>. HIDE DEF trunc
    <3>. QED  BY <3>1 DEF IsList
  <2>5. IsList(order)
    BY SingletonIsList
  <2>. HIDE DEF group, order
  <2>6. IsPlan(p)
    BY <1>1, <2>4, <2>5, EmptyIsList DEF IsPlan
  <2>. QED  BY <2>1, <2>6
<1>3. IsPlan(ListSuggestionPlan(s, capability))
  <2>. DEFINE K == {i \in DOMAIN s.fields : s.fields[i] \in Selectable(capability)}
              L == {i \in DOMAIN capability.fields : capability.fields[i].canSelect}
              asked == AtPositions(s.fields, K)
              all == AtPositions(capability.fields, L)
              names == [i \in DOMAIN all |-> all[i].name]
              select == IF asked # <<>> THEN Take(8, asked) ELSE Take(3, names)
              p == [resource |-> capability.name, intent |-> "list",
                    select |-> select, filters |-> <<>>, metrics |-> <<>>,
                    group |-> <<>>, order |-> <<>>, limit |-> SuggestionLimit]
  <2>1. ListSuggestionPlan(s, capability) = p
    BY DEF ListSuggestionPlan, ListSuggestionFields, Those
  <2>2. IsList(asked) /\ IsList(all)
    <3>1. K \in SUBSET DOMAIN s.fields /\ L \in SUBSET DOMAIN capability.fields
      OBVIOUS
    <3>. HIDE DEF K, L
    <3>. QED  BY <1>1, <3>1, SelectionOfList
  <2>. HIDE DEF asked, all
  <2>3. IsList(names)
    BY <2>2 DEF IsList
  <2>. HIDE DEF names
  <2>4. IsList(select)
    BY <2>2, <2>3, TakeOfList
  <2>. HIDE DEF select
  <2>5. IsPlan(p)
    BY <1>1, <2>4, EmptyIsList DEF IsPlan
  <2>. QED  BY <2>1, <2>5
<1>. QED  BY <1>2, <1>3 DEF SuggestionPlan, IsSuggestion

\* An accepted suggestion's plan may be shown.
LEMMA SuggestionAnswer ==
  ASSUME NEW s, IsSuggestion(s), NEW guidance, GuidanceIsNamed(guidance),
         NEW name \in Names(guidance), NEW registered \in Seq(Registrable),
         Distinct([i \in DOMAIN registered |-> registered[i].name]), NEW P,
         ValidateSuggestionPlan(s, Named(guidance, name), registered, P).code = "ok"
  PROVE  LET capability == Named(guidance, name)
             answer == ValidateSuggestionPlan(s, capability, registered, P)
         IN /\ Showable(answer.plan, guidance, registered, P)
            /\ answer.plan.resource = name
            /\ FieldReferences(answer.plan) = FieldReferences(SuggestionPlan(s, capability))
<1>. DEFINE capability == Named(guidance, name)
            plan == SuggestionPlan(s, capability)
            validated == Validate(plan, registered, P)
            answer == ValidateSuggestionPlan(s, capability, registered, P)
            q == validated.plan
<1>1. capability.name = name /\ IsList(capability.fields)
  <2>1. PICK i \in DOMAIN guidance : capability = guidance[i] /\ guidance[i].name = name
    BY NamedMember
  <2>. QED  BY <2>1 DEF GuidanceIsNamed
<1>2. IsPlan(plan)
  <2>. HIDE DEF capability
  <2>. QED  BY <1>1, SuggestedPlanIsPlan
<1>3. /\ validated.code = "ok" /\ q.resource = capability.name
      /\ PlanUsesCapability(q, capability) /\ answer.plan = q
  <2>. HIDE DEF capability
  <2>1. answer = IF validated.code # "ok" THEN validated
                 ELSE [validated EXCEPT !.code =
                         Check(/\ q.resource = capability.name
                               /\ PlanUsesCapability(q, capability), "PlanInvalid")]
    BY DEF ValidateSuggestionPlan
  <2>2. validated.code = "ok"
    BY <2>1 DEF capability
  <2>3. answer.plan = q
    BY <2>1, <2>2
  <2>4. "code" \in DOMAIN validated
    <3>1. Parses(plan) /\ plan.resource \in Names(registered)
          /\ validated = ValidateForResource(plan, Named(registered, plan.resource), P)
      BY <1>2, <2>2, Validated
    <3>2. validated = [code |-> "ok", plan |-> q]
      BY <2>2, <3>1 DEF ValidateForResource
    <3>. QED  BY <3>2
  <2>5. Check(/\ q.resource = capability.name
              /\ PlanUsesCapability(q, capability), "PlanInvalid") = "ok"
    BY <2>1, <2>2, <2>4 DEF capability
  <2>. QED  BY <2>2, <2>3, <2>5 DEF Check
<1>. HIDE DEF plan
<1>4. /\ IsPlan(q) /\ q.resource = plan.resource /\ FieldReferences(q) = FieldReferences(plan)
      /\ Bytes(q) <= Limits.bytes => Validate(q, registered, P) = [code |-> "ok", plan |-> q]
  BY <1>2, <1>3, AnswerHolds
<1>. QED  BY <1>1, <1>3, <1>4 DEF Showable, plan

\* Every plan kept of a provider's help may be shown.
LEMMA HelpAnswer ==
  ASSUME NEW help, IsList(help), \A s \in ToSet(help) : IsSuggestion(s), NEW count \in Nat,
         NEW guidance, GuidanceIsNamed(guidance), NEW registered \in Seq(Registrable),
         Distinct([i \in DOMAIN registered |-> registered[i].name]), NEW P,
         ValidateHelp(help, count, guidance, registered, P).code = "ok"
  PROVE  LET plans == ValidateHelp(help, count, guidance, registered, P).plans IN
         /\ \A i \in DOMAIN plans : Showable(plans[i], guidance, registered, P)
         /\ help = <<>> => DOMAIN plans = {}
<1>. DEFINE answers == [i \in DOMAIN help |-> ValidateSuggestion(help[i], guidance, registered, P)]
            K == {i \in DOMAIN answers : answers[i].code \notin PlanValidationErrors \cup {"ok"}}
            raised == AtPositions(answers, K)
            accepted == AcceptedPlans(answers)
            result == ValidateHelp(help, count, guidance, registered, P)
<1>1. Len(help) \in Nat /\ DOMAIN help = 1..Len(help) /\ IsList(answers)
      /\ DOMAIN answers = DOMAIN help
  BY DEF IsList
<1>2. result = CASE raised # <<>> -> [code |-> raised[1].code, plans |-> <<>>]
                 [] raised = <<>> /\ accepted = <<>> /\ help # <<>> ->
                      [code |-> "PlanInvalid", plans |-> <<>>]
                 [] OTHER -> [code |-> "ok", plans |-> Take(count, accepted)]
  BY DEF ValidateHelp, Those
<1>3. \A i \in DOMAIN answers : answers[i] = ValidateSuggestion(help[i], guidance, registered, P)
  OBVIOUS
<1>. HIDE DEF answers
<1>4. IsList(raised) /\ \A n \in DOMAIN raised : \E i \in K : raised[n] = answers[i]
  BY <1>1, SelectionOfList
<1>5. IsList(accepted) /\ \A i \in DOMAIN accepted : \E k \in DOMAIN answers :
        answers[k].code = "ok" /\ accepted[i] = answers[k].plan
  BY <1>1, ThoseAccepted
<1>. HIDE DEF raised, accepted
<1>6. raised = <<>>
  <2>1. SUFFICES ASSUME raised # <<>>  PROVE FALSE
    OBVIOUS
  <2>2. result.code = raised[1].code
    BY <1>2, <2>1
  <2>3. 1 \in DOMAIN raised
    BY <1>4, <2>1 DEF IsList
  <2>4. raised[1].code # "ok"
    BY <1>4, <2>3
  <2>. QED  BY <2>2, <2>4
<1>7. result.plans = Take(count, accepted)
  BY <1>2, <1>6
<1>8. ASSUME NEW k \in DOMAIN answers, answers[k].code = "ok"
      PROVE  Showable(answers[k].plan, guidance, registered, P)
  <2>. DEFINE s == help[k]
  <2>1. IsSuggestion(s)
    BY <1>1 DEF ToSet
  <2>2. answers[k] = ValidateSuggestion(s, guidance, registered, P)
    BY <1>3
  <2>3. /\ s.resource \in Names(guidance)
        /\ answers[k] = ValidateSuggestionPlan(s, Named(guidance, s.resource), registered, P)
    BY <1>8, <2>2 DEF ValidateSuggestion
  <2>. HIDE DEF s
  <2>. QED  BY <1>8, <2>1, <2>3, SuggestionAnswer
<1>9. ASSUME NEW i \in DOMAIN result.plans
      PROVE  Showable(result.plans[i], guidance, registered, P) /\ help # <<>>
  <2>1. i \in DOMAIN accepted /\ result.plans[i] = accepted[i]
    BY <1>5, <1>7, TakeOfList
  <2>2. PICK k \in DOMAIN answers : answers[k].code = "ok" /\ accepted[i] = answers[k].plan
    BY <1>5, <2>1
  <2>. QED  BY <1>1, <1>8, <2>1, <2>2
<1>. HIDE DEF result
<1>. QED  BY <1>9 DEF result

-----------------------------------------------------------------------------
(* Examples without a provider *)

\* An example of a resource names only fields that results may show and, within a
\* single scope, never the scope dimension.
IsExampleOf(s, capability) ==
  /\ IsSuggestion(s) /\ s.resource = capability.name /\ s.plan = None
  /\ s.fields # <<>> \/ s.metrics # <<>>
  /\ \A n \in ToSet(s.fields) \cup ToSet(s.dates) : \E f \in ToSet(capability.fields) :
       f.name = n /\ f.canSelect /\ ~ScopeDimension(f, capability.scope)

\* Some field to group by is the most readable, nearest and first.
LEMMA FirstGroupFieldExists ==
  ASSUME NEW fields, ToSet(fields) # {}, \A f \in ToSet(fields) : IsRanked(f)
  PROVE  FirstGroupField(fields) \in ToSet(fields)
<1>. DEFINE ranks == {GroupRank(f) : f \in ToSet(fields)}
            nearest == NearestGroupFields(fields)
            places == {Alphabetical[f.name] : f \in nearest}
<1>1. \A f \in ToSet(fields) : GroupRank(f) \in Nat
  BY DEF GroupRank, IsRanked
<1>2. ranks \in SUBSET Nat /\ ranks # {}
  BY <1>1
<1>. HIDE DEF ranks
<1>3. PICK least \in ranks : \A r \in ranks : least <= r
  BY <1>2, LeastExists
<1>4. \E f \in ToSet(fields) : \A g \in ToSet(fields) : GroupRank(f) <= GroupRank(g)
  BY <1>3 DEF ranks
<1>5. nearest # {} /\ nearest \subseteq ToSet(fields)
  BY <1>4 DEF NearestGroupFields
<1>. HIDE DEF nearest
<1>6. places \in SUBSET Nat /\ places # {}
  BY <1>5 DEF IsRanked
<1>. HIDE DEF places
<1>7. PICK first \in places : \A p \in places : first <= p
  BY <1>6, LeastExists
<1>8. \E f \in nearest : \A g \in nearest : Alphabetical[f.name] <= Alphabetical[g.name]
  BY <1>7 DEF places
<1>9. FirstGroupField(fields) \in nearest
  BY <1>8 DEF FirstGroupField, nearest
<1>. QED  BY <1>5, <1>9

\* What the examples made without a provider name is in the guidance and can be
\* selected, or grouped by, outside a single scope's dimension.
LEMMA ExamplesHold ==
  ASSUME NEW c, IsList(c.fields), IsList(c.metrics), \A f \in ToSet(c.fields) : IsRanked(f)
  PROVE  /\ Examples(c) \in Seq(ToSet(Examples(c)))
         /\ \A s \in ToSet(Examples(c)) : IsExampleOf(s, c)
<1>. DEFINE K == {i \in DOMAIN c.fields : /\ c.fields[i].canSelect
                                          /\ ~ScopeDimension(c.fields[i], c.scope)}
            fields == AtPositions(c.fields, K)
            G == {i \in DOMAIN fields : ~fields[i].canBucket}
            D == {i \in DOMAIN fields : fields[i].canBucket}
            groups == AtPositions(fields, G)
            dates == AtPositions(fields, D)
            taken == Take(3, fields)
            names == [i \in DOMAIN taken |-> taken[i].name]
            s1 == Suggestion(c.name, names, <<>>, <<>>)
            s2 == Suggestion(c.name, <<FirstGroupField(groups).name>>, <<c.metrics[1].name>>, <<>>)
            s3 == Suggestion(c.name, <<>>, <<c.metrics[1].name>>, <<dates[1].name>>)
            S == {s \in {s1, s2, s3} : IsExampleOf(s, c)}
            w1 == IF fields # <<>> THEN <<s1>> ELSE <<>>
            w2 == IF c.metrics # <<>> /\ groups # <<>> THEN <<s2>> ELSE <<>>
            w3 == IF c.metrics # <<>> /\ dates # <<>> THEN <<s3>> ELSE <<>>
            Good(f) == f \in ToSet(c.fields) /\ f.canSelect /\ ~ScopeDimension(f, c.scope)
<1>1. IsList(fields) /\ \A n \in DOMAIN fields : \E i \in K : fields[n] = c.fields[i]
  <2>1. K \in SUBSET DOMAIN c.fields
    OBVIOUS
  <2>. HIDE DEF K
  <2>. QED  BY <2>1, SelectionOfList
<1>2. \A n \in DOMAIN fields : Good(fields[n])
  BY <1>1 DEF ToSet
<1>3. Examples(c) = IF ~c.examples \/ SingleScopeResource(c, c.scope)
                    THEN <<>> ELSE w1 \o w2 \o w3
  BY DEF Examples, ExampleFields, Those
<1>. HIDE DEF K, fields
<1>4. /\ IsList(groups) /\ \A n \in DOMAIN groups : \E i \in DOMAIN fields : groups[n] = fields[i]
      /\ IsList(dates) /\ \A n \in DOMAIN dates : \E i \in DOMAIN fields : dates[n] = fields[i]
  <2>1. G \in SUBSET DOMAIN fields /\ D \in SUBSET DOMAIN fields
    OBVIOUS
  <2>. HIDE DEF G, D
  <2>. QED  BY <1>1, <2>1, SelectionOfList
<1>. HIDE DEF groups, dates, G, D
<1>5. \A f \in ToSet(groups) \cup ToSet(dates) : Good(f)
  BY <1>2, <1>4 DEF ToSet
<1>6. fields # <<>> => IsExampleOf(s1, c)
  <2>1. IsList(taken) /\ (fields # <<>> => taken # <<>>)
        /\ \A i \in DOMAIN taken : i \in DOMAIN fields /\ taken[i] = fields[i]
    BY <1>1, TakeOfList
  <2>. HIDE DEF taken
  <2>2. IsList(names) /\ DOMAIN names = DOMAIN taken /\ Len(names) = Len(taken)
    BY <2>1 DEF IsList
  <2>3. \A n \in ToSet(names) : \E f \in ToSet(c.fields) :
          f.name = n /\ f.canSelect /\ ~ScopeDimension(f, c.scope)
    BY <1>2, <2>1 DEF ToSet
  <2>4. fields # <<>> => names # <<>>
    BY <2>1, <2>2 DEF IsList
  <2>5. ToSet(<<>>) = {}
    BY DEF ToSet
  <2>. HIDE DEF names
  <2>. QED  BY <2>2, <2>3, <2>4, <2>5, EmptyIsList DEF IsExampleOf, IsSuggestion, Suggestion
<1>7. groups # <<>> => IsExampleOf(s2, c)
  <2>1. SUFFICES ASSUME groups # <<>>  PROVE IsExampleOf(s2, c)
    OBVIOUS
  <2>. DEFINE first == FirstGroupField(groups)
  <2>2. ToSet(groups) # {}
    <3>1. 1 \in DOMAIN groups
      BY <1>4, <2>1 DEF IsList
    <3>. QED  BY <3>1 DEF ToSet
  <2>3. first \in ToSet(groups)
    BY <1>5, <2>2, FirstGroupFieldExists
  <2>4. Good(first)
    BY <1>5, <2>3
  <2>. HIDE DEF first
  <2>5. ToSet(<<first.name>>) = {first.name} /\ ToSet(<<>>) = {}
    BY DEF ToSet
  <2>6. IsList(<<first.name>>) /\ IsList(<<c.metrics[1].name>>) /\ IsList(<<>>)
    BY SingletonIsList, EmptyIsList
  <2>7. <<first.name>> # <<>>
    OBVIOUS
  <2>. QED  BY <2>4, <2>5, <2>6, <2>7 DEF IsExampleOf, IsSuggestion, Suggestion, first
<1>8. dates # <<>> => IsExampleOf(s3, c)
  <2>1. SUFFICES ASSUME dates # <<>>  PROVE IsExampleOf(s3, c)
    OBVIOUS
  <2>. DEFINE first == dates[1]
  <2>2. 1 \in DOMAIN dates
    BY <1>4, <2>1 DEF IsList
  <2>3. Good(first)
    BY <1>5, <2>2 DEF ToSet
  <2>. HIDE DEF first
  <2>5. ToSet(<<first.name>>) = {first.name} /\ ToSet(<<>>) = {}
    BY DEF ToSet
  <2>6. IsList(<<first.name>>) /\ IsList(<<c.metrics[1].name>>) /\ IsList(<<>>)
    BY SingletonIsList, EmptyIsList
  <2>7. <<c.metrics[1].name>> # <<>>
    OBVIOUS
  <2>. QED  BY <2>3, <2>5, <2>6, <2>7 DEF IsExampleOf, IsSuggestion, Suggestion, first
<1>. HIDE DEF s1, s2, s3
<1>9. w1 \in Seq(S) /\ w2 \in Seq(S) /\ w3 \in Seq(S)
  <2>1. (fields # <<>> => s1 \in S) /\ (groups # <<>> => s2 \in S) /\ (dates # <<>> => s3 \in S)
    BY <1>6, <1>7, <1>8
  <2>2. ASSUME NEW T, NEW x, NEW holds \in BOOLEAN, holds => x \in T
        PROVE  (IF holds THEN <<x>> ELSE <<>>) \in Seq(T)
    BY <2>2
  <2>. HIDE DEF S
  <2>. QED  BY <2>1, <2>2
<1>. HIDE DEF w1, w2, w3, S
<1>10. Examples(c) \in Seq(S)
  BY <1>3, <1>9
<1>11. IsList(Examples(c)) /\ \A i \in DOMAIN Examples(c) : Examples(c)[i] \in S
  BY <1>10, SeqIsList
<1>12. Examples(c) \in Seq(ToSet(Examples(c)))
  BY <1>11, ListIsSeq DEF ToSet
<1>13. \A s \in ToSet(Examples(c)) : IsExampleOf(s, c)
  BY <1>11 DEF ToSet, S
<1>. QED  BY <1>12, <1>13

\* The plan made for an example refers to what the example names.
LEMMA ExamplePlanReferences ==
  ASSUME NEW c, IsList(c.fields), NEW s, IsExampleOf(s, c)
  PROVE  \A n \in FieldReferences(SuggestionPlan(s, c)) : \E f \in ToSet(c.fields) :
           f.name = n /\ ~ScopeDimension(f, c.scope)
<1>1. IsList(s.fields) /\ IsList(s.dates)
  BY DEF IsExampleOf, IsSuggestion
<1>2. \A i \in DOMAIN s.fields : s.fields[i] \in ToSet(s.fields)
  BY DEF ToSet
<1>3. SUFFICES FieldReferences(SuggestionPlan(s, c)) \subseteq ToSet(s.fields) \cup ToSet(s.dates)
  BY DEF IsExampleOf
<1>4. ToSet(<<>>) = {}
  BY DEF ToSet
<1>5. CASE s.metrics # <<>>
  <2>. DEFINE K == {i \in DOMAIN Take(2, s.fields) : Take(2, s.fields)[i] \in Selectable(c)}
              asked == AtPositions(Take(2, s.fields), K)
              grouped == IF s.dates # <<>> THEN <<s.dates[1]>> ELSE asked
              trunc == IF s.dates # <<>> THEN "month" ELSE None
              group == [i \in DOMAIN grouped |-> [field |-> grouped[i], trunc |-> trunc]]
              term == IF s.dates # <<>>
                      THEN [field |-> grouped[1], metric |-> None, direction |-> "asc"]
                      ELSE [field |-> None, metric |-> s.metrics[1], direction |-> "desc"]
              p == SuggestionPlan(s, c)
  <2>1. p.select = <<>> /\ p.filters = <<>> /\ p.group = group /\ p.order = <<term>>
    BY <1>5 DEF SuggestionPlan, AggregateSuggestionPlan, Those, IsExampleOf
  <2>2. \A i \in DOMAIN asked : asked[i] \in ToSet(s.fields)
    <3>1. IsList(Take(2, s.fields))
          /\ \A i \in DOMAIN Take(2, s.fields) : Take(2, s.fields)[i] \in ToSet(s.fields)
      BY <1>1, <1>2, TakeOfList
    <3>2. K \in SUBSET DOMAIN Take(2, s.fields)
      OBVIOUS
    <3>. HIDE DEF K
    <3>3. \A n \in DOMAIN asked : \E i \in K : asked[n] = Take(2, s.fields)[i]
      BY <3>1, <3>2, SelectionOfList
    <3>. HIDE DEF asked
    <3>. QED  BY <3>1, <3>2, <3>3
  <2>. HIDE DEF asked
  <2>3. s.dates # <<>> => s.dates[1] \in ToSet(s.dates)
    <3>1. s.dates # <<>> => 1 \in DOMAIN s.dates
      BY <1>1 DEF IsList
    <3>. QED  BY <3>1 DEF ToSet
  <2>4. \A i \in DOMAIN grouped : grouped[i] \in ToSet(s.fields) \cup ToSet(s.dates)
    BY <2>2, <2>3
  <2>5. term.field = None \/ term.field \in ToSet(s.dates)
    BY <2>3
  <2>. HIDE DEF grouped, term, p
  <2>6. ToSet(<<term>>) = {term}
    BY DEF ToSet
  <2>7. {g.field : g \in ToSet(group)} = {grouped[i] : i \in DOMAIN grouped}
    <3>1. DOMAIN group = DOMAIN grouped /\ \A i \in DOMAIN grouped : group[i].field = grouped[i]
      OBVIOUS
    <3>. HIDE DEF group
    <3>. QED  BY <3>1 DEF ToSet
  <2>. HIDE DEF group
  <2>8. FieldReferences(p)
          = ToSet(<<>>) \cup {f.field : f \in ToSet(<<>>)} \cup {g.field : g \in ToSet(group)}
              \cup ({o.field : o \in ToSet(<<term>>)} \ {None})
    BY <2>1 DEF FieldReferences
  <2>9. FieldReferences(p) \subseteq ToSet(s.fields) \cup ToSet(s.dates)
    BY <1>4, <2>4, <2>5, <2>6, <2>7, <2>8
  <2>. QED  BY <2>9 DEF p
<1>6. CASE s.metrics = <<>>
  <2>. DEFINE K == {i \in DOMAIN s.fields : s.fields[i] \in Selectable(c)}
              asked == AtPositions(s.fields, K)
              p == SuggestionPlan(s, c)
  <2>1. /\ p.select = (IF asked # <<>> THEN Take(8, asked)
                       ELSE Take(3, LET all == AtPositions(c.fields,
                                                 {i \in DOMAIN c.fields : c.fields[i].canSelect})
                                    IN [i \in DOMAIN all |-> all[i].name]))
        /\ p.filters = <<>> /\ p.group = <<>> /\ p.order = <<>>
    BY <1>6 DEF SuggestionPlan, ListSuggestionPlan, ListSuggestionFields, Those, IsExampleOf
  <2>2. 1 \in DOMAIN s.fields
    BY <1>1, <1>6 DEF IsExampleOf, IsList
  <2>3. \A n \in ToSet(s.fields) : n \in Selectable(c)
    BY DEF IsExampleOf, Selectable
  <2>4. K \in SUBSET DOMAIN s.fields /\ K # {}
    BY <1>2, <2>2, <2>3
  <2>. HIDE DEF K
  <2>5. IsList(asked) /\ asked # <<>> /\ \A n \in DOMAIN asked : \E i \in K : asked[n] = s.fields[i]
    BY <1>1, <2>4, SelectionOfList
  <2>. HIDE DEF asked, p
  <2>6. p.select = Take(8, asked)
    BY <2>1, <2>5
  <2>7. \A i \in DOMAIN p.select : i \in DOMAIN asked /\ p.select[i] = asked[i]
    BY <2>5, <2>6, TakeOfList
  <2>8. ToSet(p.select) \subseteq ToSet(s.fields)
    <3>1. \A i \in DOMAIN p.select : p.select[i] \in ToSet(s.fields)
      BY <1>2, <2>4, <2>5, <2>7
    <3>. QED  BY <3>1 DEF ToSet
  <2>9. FieldReferences(p) = ToSet(p.select)
    BY <1>4, <2>1 DEF FieldReferences
  <2>. QED  BY <2>8, <2>9 DEF p
<1>. QED  BY <1>5, <1>6

\* Within a single scope, a plan leaves the scope dimension alone.
WithinScope(plan, guidance) ==
  LET capability == Named(guidance, plan.resource) IN
  \A f \in ToSet(capability.fields) :
    f.name \in FieldReferences(plan) => ~ScopeDimension(f, capability.scope)

\* Every plan of the examples may be shown and stays within the scope.
LEMMA DeterministicAnswer ==
  ASSUME NEW guidance, GuidanceIsNamed(guidance), NEW registered \in Seq(Registrable),
         Distinct([i \in DOMAIN registered |-> registered[i].name]), NEW P, NEW count \in Nat
  PROVE  LET plans == DeterministicPlans(count, guidance, registered, P) IN
         \A i \in DOMAIN plans :
           Showable(plans[i], guidance, registered, P) /\ WithinScope(plans[i], guidance)
<1>. DEFINE seqs == [i \in DOMAIN guidance |-> Examples(guidance[i])]
            S == UNION {ToSet(Examples(guidance[i])) : i \in DOMAIN guidance}
            all == FlattenSeq(seqs)
            examples == Take(count, all)
            answers == [i \in DOMAIN examples |->
                          ValidateSuggestionPlan(examples[i], Named(guidance, examples[i].resource),
                                                 registered, P)]
            plans == AcceptedPlans(answers)
<1>1. DeterministicPlans(count, guidance, registered, P) = plans
  BY DEF DeterministicPlans
<1>2. \A i \in DOMAIN guidance :
        /\ IsList(guidance[i].fields) /\ IsList(guidance[i].metrics)
        /\ Distinct([j \in DOMAIN guidance[i].fields |-> guidance[i].fields[j].name])
        /\ \A f \in ToSet(guidance[i].fields) : IsRanked(f)
  BY DEF GuidanceIsNamed
<1>3. \A i \in DOMAIN guidance :
        /\ Examples(guidance[i]) \in Seq(ToSet(Examples(guidance[i])))
        /\ \A s \in ToSet(Examples(guidance[i])) : IsExampleOf(s, guidance[i])
  BY <1>2, ExamplesHold
<1>4. \A i \in DOMAIN guidance : seqs[i] \in Seq(S)
  <2>1. ASSUME NEW T, NEW U, T \subseteq U, NEW q \in Seq(T)  PROVE q \in Seq(U)
    BY <2>1
  <2>2. \A i \in DOMAIN guidance : ToSet(Examples(guidance[i])) \subseteq S
    OBVIOUS
  <2>. HIDE DEF S
  <2>. QED  BY <1>3, <2>1, <2>2
<1>5. IsList(seqs) /\ DOMAIN seqs = DOMAIN guidance
  BY DEF IsList, GuidanceIsNamed
<1>. HIDE DEF seqs
<1>6. all \in Seq(S)
  <2>. HIDE DEF S
  <2>. QED  BY <1>4, <1>5, Flattened
<1>. HIDE DEF all
<1>7. IsList(examples) /\ \A k \in DOMAIN examples :
        \E i \in DOMAIN guidance : IsExampleOf(examples[k], guidance[i])
  <2>1. IsList(all) /\ \A k \in DOMAIN all : all[k] \in S
    <3>. HIDE DEF S
    <3>. QED  BY <1>6, SeqIsList
  <2>2. IsList(examples) /\ \A k \in DOMAIN examples : k \in DOMAIN all /\ examples[k] = all[k]
    BY <2>1, TakeOfList
  <2>. HIDE DEF examples
  <2>. QED  BY <1>3, <2>1, <2>2
<1>. HIDE DEF examples
<1>8. IsList(answers) /\ DOMAIN answers = DOMAIN examples
      /\ \A k \in DOMAIN examples : answers[k] =
           ValidateSuggestionPlan(examples[k], Named(guidance, examples[k].resource),
                                  registered, P)
  BY <1>7 DEF IsList
<1>. HIDE DEF answers
<1>9. \A i \in DOMAIN plans : \E k \in DOMAIN answers :
        answers[k].code = "ok" /\ plans[i] = answers[k].plan
  BY <1>8, ThoseAccepted
<1>. HIDE DEF plans
<1>10. ASSUME NEW k \in DOMAIN examples, answers[k].code = "ok"
       PROVE  /\ Showable(answers[k].plan, guidance, registered, P)
              /\ WithinScope(answers[k].plan, guidance)
  <2>. DEFINE s == examples[k]
              plan == answers[k].plan
  <2>1. PICK i \in DOMAIN guidance : IsExampleOf(s, guidance[i])
    BY <1>7
  <2>2. /\ s.resource \in Names(guidance) /\ Named(guidance, s.resource) = guidance[i]
        /\ IsSuggestion(s)
    BY <2>1, NamedUnique DEF IsExampleOf, GuidanceIsNamed
  <2>3. answers[k] = ValidateSuggestionPlan(s, Named(guidance, s.resource), registered, P)
    BY <1>8
  <2>. HIDE DEF s
  <2>4. /\ Showable(plan, guidance, registered, P) /\ plan.resource = s.resource
        /\ FieldReferences(plan) = FieldReferences(SuggestionPlan(s, guidance[i]))
    BY <1>10, <2>2, <2>3, SuggestionAnswer
  <2>5. \A n \in FieldReferences(plan) : \E f \in ToSet(guidance[i].fields) :
          f.name = n /\ ~ScopeDimension(f, guidance[i].scope)
    <3>1. IsList(guidance[i].fields)
      BY <1>2
    <3>. HIDE DEF plan
    <3>2. \A n \in FieldReferences(SuggestionPlan(s, guidance[i])) :
            \E f \in ToSet(guidance[i].fields) :
              f.name = n /\ ~ScopeDimension(f, guidance[i].scope)
      BY <2>1, <3>1, ExamplePlanReferences
    <3>. QED  BY <2>4, <3>2
  <2>6. \A f, g \in ToSet(guidance[i].fields) : f.name = g.name => f = g
    BY <1>2 DEF Distinct, ToSet
  <2>. HIDE DEF plan
  <2>7. WithinScope(plan, guidance)
    BY <2>2, <2>4, <2>5, <2>6 DEF WithinScope
  <2>. QED  BY <2>4, <2>7 DEF plan
<1>11. ASSUME NEW i \in DOMAIN plans
       PROVE  Showable(plans[i], guidance, registered, P) /\ WithinScope(plans[i], guidance)
  <2>1. PICK k \in DOMAIN answers : answers[k].code = "ok" /\ plans[i] = answers[k].plan
    BY <1>9
  <2>. QED  BY <1>8, <1>10, <2>1
<1>. QED  BY <1>1, <1>11

-----------------------------------------------------------------------------
(* The invariant is inductive *)

\* A registry without resources holds.
LEMMA EmptyRegistry ==
  /\ <<>> \in Seq(Registrable) /\ Len(<<>>) <= MaxResources
  /\ Distinct([i \in DOMAIN <<>> |-> <<>>[i].name])
<1>1. DOMAIN <<>> = {}
  OBVIOUS
<1>2. \A s : DOMAIN s = {} => Distinct([i \in DOMAIN s |-> s[i].name])
  BY DEF Distinct
<1>3. Distinct([i \in DOMAIN <<>> |-> <<>>[i].name])
  BY <1>1, <1>2
<1>. QED  BY <1>3, BoundAssumption

\* The invariant holds initially.
LEMMA InitHolds ==
  Init => IndInv
<1>. SUFFICES ASSUME Init  PROVE IndInv
  OBVIOUS
<1>1. RegistryHolds
  <2>1. races \in 0..MaxRaces
    BY BoundAssumption DEF Init
  <2>. QED  BY <2>1, EmptyRegistry DEF Init, RegistryHolds
<1>2. PhasesHold
  BY DEF Init, PhasesHold, AttemptIsRecord, NoAttempt, Phases
<1>3. attempt.phase = "idle"
  BY DEF Init, NoAttempt
<1>. QED  BY <1>1, <1>2, <1>3 DEF IndInv, ValidatedHolds, RefusedHolds, UndisturbedHolds,
               GuidanceHolds, HelpStaysInGuidance

\* A step of the host, that registers, clears or changes rights, keeps it: names
\* stay unique, and what was validated stays validated under the rights it was.
LEMMA HostKeepsInv ==
  ASSUME IndInv,
         \/ \E decl \in Declarations : Register(decl)
         \/ Clear
         \/ \E P \in PermissionSets : ChangePermissions(P)
  PROVE  IndInv'
<1>1. /\ attempt' = attempt
      /\ attempt.phase \in {"idle", "asked", "planned", "helped", "validated"}
      /\ attempt.phase = "idle" => races' = races
      /\ attempt.phase # "idle" => races' = races + 1 /\ races' <= MaxRaces
      /\ attempt.phase = "idle" => cleared' = FALSE
  BY BoundAssumption
     DEF IndInv, RegistryHolds, PhasesHold, Register, Clear, ChangePermissions, Race
<1>2. /\ RegistryHolds'
      /\ ~cleared' /\ attempt.phase # "idle" =>
           /\ ~cleared
           /\ \A n \in Names(resources) :
                n \in Names(resources') /\ Named(resources', n) = Named(resources, n)
  <2>0. races' \in 0..MaxRaces
    BY <1>1, BoundAssumption DEF IndInv, RegistryHolds
  <2>1. ASSUME NEW decl \in Declarations, Register(decl)
        PROVE  /\ RegistryHolds' /\ cleared' = cleared
               /\ \A n \in Names(resources) :
                    n \in Names(resources') /\ Named(resources', n) = Named(resources, n)
    <3>. DEFINE r == BuildResource(decl, DefaultScopeMode)
    <3>1. /\ resources' = Append(resources, r) /\ Len(resources) < MaxResources
          /\ decl.name \notin Names(resources) /\ UNCHANGED <<permissions, cleared>>
      BY <2>1 DEF Register
    <3>2. r \in Registrable /\ r.name = decl.name
      BY <2>1 DEF Register, Registrable, BuildResource
    <3>. HIDE DEF r
    <3>3. resources \in Seq(Registrable)
          /\ Distinct([i \in DOMAIN resources |-> resources[i].name])
      BY DEF IndInv, RegistryHolds
    <3>4. /\ Distinct([i \in DOMAIN resources' |-> resources'[i].name])
          /\ \A n \in Names(resources) :
               n \in Names(resources') /\ Named(resources', n) = Named(resources, n)
      BY <3>1, <3>2, <3>3, NamedAfterAppend
    <3>5. resources' \in Seq(Registrable) /\ Len(resources') <= MaxResources
      BY <3>1, <3>2, <3>3, BoundAssumption
    <3>. QED  BY <2>0, <3>1, <3>4, <3>5 DEF IndInv, RegistryHolds
  <2>2. CASE Clear
    <3>1. resources' = <<>> /\ permissions' = permissions /\ cleared' = (attempt.phase # "idle")
      BY <2>2 DEF Clear
    <3>2. RegistryHolds'
      BY <2>0, <3>1, EmptyRegistry DEF IndInv, RegistryHolds
    <3>. QED  BY <3>1, <3>2
  <2>3. ASSUME NEW P \in PermissionSets, ChangePermissions(P)
        PROVE  RegistryHolds' /\ UNCHANGED <<resources, cleared>>
    BY <2>0, <2>3 DEF IndInv, RegistryHolds, ChangePermissions
  <2>. QED  BY <2>1, <2>2, <2>3
<1>3. PhasesHold'
  BY <1>1 DEF IndInv, PhasesHold, AttemptIsRecord
<1>4. ValidatedHolds'
  BY <1>1, <1>2 DEF IndInv, ValidatedHolds
<1>5. RefusedHolds'
  BY <1>1 DEF RefusedHolds
<1>6. UndisturbedHolds'
  <2>1. races \in Nat
    BY BoundAssumption DEF IndInv, RegistryHolds
  <2>. QED  BY <1>1, <2>1 DEF UndisturbedHolds
<1>7. GuidanceHolds'
  BY <1>1 DEF IndInv, GuidanceHolds, HelpStaysInGuidance
<1>. QED  BY <1>2, <1>3, <1>4, <1>5, <1>6, <1>7 DEF IndInv

\* A step that leaves the registry and the counters alone keeps what is known of
\* them.
LEMMA RegistryUntouched ==
  ASSUME RegistryHolds, UNCHANGED <<resources, permissions, races, cleared>>
  PROVE  RegistryHolds'
BY DEF RegistryHolds

\* Asking takes rights and guidance from what is registered now.
LEMMA AskKeepsInv ==
  ASSUME IndInv, Ask
  PROVE  IndInv'
<1>1. attempt.phase = "idle" /\ attempt = NoAttempt
      /\ UNCHANGED <<resources, permissions, races, cleared>>
      /\ attempt' = [attempt EXCEPT !.phase = "asked", !.taken = permissions,
                                    !.guidance = QueryGuidance(resources, permissions)]
  BY DEF IndInv, PhasesHold, Ask, Step
<1>2. attempt' = [phase |-> "asked", guidance |-> QueryGuidance(resources, permissions),
                  taken |-> permissions, granted |-> {}, plan |-> None, against |-> None,
                  prepared |-> None, suggested |-> <<>>, help |-> <<>>, code |-> "ok"]
  BY <1>1 DEF NoAttempt
<1>3. RegistryHolds /\ RegistryHolds'
  BY <1>1, RegistryUntouched DEF IndInv
<1>4. PhasesHold'
  BY <1>2, <1>3 DEF PhasesHold, AttemptIsRecord, Phases, RegistryHolds
<1>5. GuidanceIsNamed(attempt'.guidance)
  BY <1>2, <1>3, GuidanceOf DEF RegistryHolds
<1>6. attempt'.phase = "asked"
      /\ attempt'.guidance = QueryGuidance(resources', attempt'.taken)
  BY <1>1, <1>2
<1>. QED  BY <1>3, <1>4, <1>5, <1>6 DEF IndInv, ValidatedHolds, RefusedHolds, UndisturbedHolds,
               GuidanceHolds, HelpStaysInGuidance

\* Submitting a plan of any kind.
LEMMA SubmitKeepsInv ==
  ASSUME IndInv, NEW plan \in Plans, Submit(plan)
  PROVE  IndInv'
<1>1. attempt.phase = "idle" /\ attempt = NoAttempt
      /\ UNCHANGED <<resources, permissions, races, cleared>>
      /\ attempt' = [attempt EXCEPT !.phase = "planned", !.plan = plan]
  BY DEF IndInv, PhasesHold, Submit, Step
<1>2. attempt' = [phase |-> "planned", guidance |-> <<>>, taken |-> {}, granted |-> {},
                  plan |-> plan, against |-> None, prepared |-> None, suggested |-> <<>>,
                  help |-> <<>>, code |-> "ok"]
  BY <1>1 DEF NoAttempt
<1>3. RegistryHolds'
  BY <1>1, RegistryUntouched DEF IndInv
<1>4. IsPlan(plan)
  BY AnswerAssumption
<1>5. PhasesHold'
  BY <1>2, <1>4 DEF PhasesHold, AttemptIsRecord, Phases
<1>6. attempt'.phase = "planned"
  BY <1>2
<1>. QED  BY <1>3, <1>5, <1>6 DEF IndInv, ValidatedHolds, RefusedHolds, UndisturbedHolds,
               GuidanceHolds, HelpStaysInGuidance

\* Sending a suggested plan back.
LEMMA ClickKeepsInv ==
  ASSUME IndInv, NEW i \in DOMAIN attempt.suggested, Click(i)
  PROVE  IndInv'
<1>1. attempt.phase = "helped"
      /\ UNCHANGED <<resources, permissions, races, cleared>>
      /\ attempt' = [attempt EXCEPT !.phase = "planned", !.plan = attempt.suggested[i],
                                    !.against = Against(attempt.suggested[i])]
  BY DEF Click, Step
<1>2. PhasesHold
  BY DEF IndInv
<1>3. /\ AttemptIsRecord' /\ attempt'.phase = "planned" /\ attempt'.code = attempt.code
      /\ attempt'.plan = attempt.suggested[i] /\ attempt'.suggested = attempt.suggested
  BY <1>1, <1>2 DEF PhasesHold, AttemptIsRecord
<1>4. PhasesHold'
  BY <1>1, <1>2, <1>3 DEF PhasesHold, Phases
<1>5. RegistryHolds'
  BY <1>1, RegistryUntouched DEF IndInv
<1>. QED  BY <1>3, <1>4, <1>5 DEF IndInv, ValidatedHolds, RefusedHolds, UndisturbedHolds,
               GuidanceHolds, HelpStaysInGuidance

\* The end of an attempt.
LEMMA FinishKeepsInv ==
  ASSUME IndInv, Finish
  PROVE  IndInv'
<1>1. attempt' = NoAttempt /\ races' = 0 /\ cleared' = FALSE /\ UNCHANGED <<resources, permissions>>
  BY DEF Finish
<1>2. RegistryHolds'
  <2>1. 0 \in 0..MaxRaces
    BY BoundAssumption
  <2>. QED  BY <1>1, <2>1 DEF IndInv, RegistryHolds
<1>3. PhasesHold' /\ attempt'.phase = "idle"
  BY <1>1 DEF PhasesHold, AttemptIsRecord, NoAttempt, Phases
<1>. QED  BY <1>2, <1>3 DEF IndInv, ValidatedHolds, RefusedHolds, UndisturbedHolds,
               GuidanceHolds, HelpStaysInGuidance

\* Preparing looks the resource up a second time.
LEMMA PrepareKeepsInv ==
  ASSUME IndInv, NEW returned \in {"queryset", "evaluated"}, Prepare(returned)
  PROVE  IndInv'
<1>. DEFINE resource == Against(attempt.plan)
<1>1. attempt.phase = "validated"
      /\ UNCHANGED <<resources, permissions, races, cleared>>
      /\ \/ attempt' = Refuse("UnknownResource") \/ attempt' = Refuse("ScopeUnavailable")
         \/ resource # None
              /\ attempt' = [attempt EXCEPT !.phase = "prepared", !.prepared = resource]
  BY DEF Prepare, Step
<1>2. PhasesHold /\ ValidatedHolds
  BY DEF IndInv
<1>3. RegistryHolds'
  BY <1>1, RegistryUntouched DEF IndInv
<1>4. CASE attempt' = Refuse("UnknownResource") \/ attempt' = Refuse("ScopeUnavailable")
  <2>1. /\ AttemptIsRecord' /\ attempt'.phase = "refused" /\ attempt'.suggested = attempt.suggested
        /\ attempt'.code \in {"UnknownResource", "ScopeUnavailable"}
    BY <1>2, <1>4 DEF Refuse, PhasesHold, AttemptIsRecord
  <2>2. PhasesHold' /\ RefusedHolds'
    BY <1>2, <2>1 DEF PhasesHold, Phases, RefusedHolds, MemberUnavailable
  <2>. QED  BY <1>3, <2>1, <2>2 DEF IndInv, ValidatedHolds, UndisturbedHolds,
                 GuidanceHolds, HelpStaysInGuidance
<1>5. CASE resource # None
             /\ attempt' = [attempt EXCEPT !.phase = "prepared", !.prepared = resource]
  <2>1. /\ AttemptIsRecord' /\ attempt'.phase = "prepared" /\ attempt'.suggested = attempt.suggested
        /\ attempt'.code = attempt.code /\ attempt'.plan = attempt.plan
        /\ attempt'.against = attempt.against /\ attempt'.granted = attempt.granted
        /\ attempt'.prepared = resource
    BY <1>2, <1>5 DEF PhasesHold, AttemptIsRecord
  <2>2. PhasesHold'
    BY <1>1, <1>2, <2>1 DEF PhasesHold, Phases
  <2>3. resource = Named(resources, attempt.plan.resource)
    BY <1>5 DEF Against
  <2>. HIDE DEF resource
  <2>4. ValidatedHolds'
    BY <1>1, <1>2, <2>1, <2>3 DEF ValidatedHolds
  <2>. QED  BY <1>3, <2>1, <2>2, <2>4 DEF IndInv, RefusedHolds, UndisturbedHolds,
                 GuidanceHolds, HelpStaysInGuidance
<1>. QED  BY <1>1, <1>4, <1>5

\* Why a plan of a known resource is refused.
LEMMA RefusedAnswer ==
  ASSUME NEW plan, IsPlan(plan), NEW P, Against(plan) # None,
         Bytes(plan) <= Limits.bytes, Parses(plan)
  PROVE  Validate(plan, resources, P).code = ValidateForResource(plan, Against(plan), P).code
BY Validated DEF Against

\* A provider's plan, validated or refused.
LEMMA ProvidePlanKeepsInv ==
  ASSUME IndInv, NEW given \in Plans, NEW unified \in BOOLEAN, ProvidePlan(given, unified)
  PROVE  IndInv'
<1>. DEFINE plan == IF unified THEN NormalizeCompactQueryPlan(given) ELSE given
            answer == Validate(plan, resources, attempt.taken)
            refused == [Refuse(answer.code) EXCEPT !.plan = plan, !.against = Against(plan),
                                                   !.granted = attempt.taken]
            planned == [attempt EXCEPT !.phase = "planned", !.plan = answer.plan,
                                       !.against = Against(plan)]
<1>1. attempt.phase = "asked"
      /\ UNCHANGED <<resources, permissions, races, cleared>>
      /\ attempt' = IF answer.code # "ok" THEN refused ELSE planned
  BY DEF ProvidePlan, Step
<1>2. PhasesHold /\ RegistryHolds /\ RegistryHolds'
  BY <1>1, RegistryUntouched DEF IndInv
<1>3. IsPlan(plan)
  <2>1. IsPlan(given)
    BY AnswerAssumption
  <2>2. IsPlan([given EXCEPT !.select = <<>>])
    BY <2>1, EmptyIsList DEF IsPlan
  <2>. QED  BY <2>1, <2>2 DEF NormalizeCompactQueryPlan
<1>. HIDE DEF plan, answer
<1>4. CASE answer.code # "ok"
  <2>1. /\ AttemptIsRecord' /\ attempt'.phase = "refused" /\ attempt'.suggested = attempt.suggested
        /\ attempt'.code = answer.code /\ attempt'.plan = plan
        /\ attempt'.against = Against(plan) /\ attempt'.granted = attempt.taken
    BY <1>1, <1>2, <1>4 DEF Refuse, PhasesHold, AttemptIsRecord
  <2>2. PhasesHold'
    BY <1>2, <1>4, <2>1 DEF PhasesHold, Phases
  <2>3. attempt.taken \in PermissionSets
    BY <1>1, <1>2 DEF PhasesHold
  <2>4. Against(plan) # None /\ Bytes(plan) <= Limits.bytes /\ Parses(plan) =>
          answer.code = ValidateForResource(plan, Against(plan), attempt.taken).code
    BY <1>3, RefusedAnswer DEF answer
  <2>5. RefusedHolds'
    BY <1>3, <2>1, <2>3, <2>4 DEF RefusedHolds
  <2>. QED  BY <1>2, <2>1, <2>2, <2>5 DEF IndInv, ValidatedHolds, UndisturbedHolds,
                 GuidanceHolds, HelpStaysInGuidance
<1>5. CASE answer.code = "ok"
  <2>1. /\ AttemptIsRecord' /\ attempt'.phase = "planned" /\ attempt'.suggested = attempt.suggested
        /\ attempt'.code = attempt.code /\ attempt'.plan = answer.plan
    BY <1>1, <1>2, <1>5 DEF PhasesHold, AttemptIsRecord
  <2>2. IsPlan(answer.plan)
    BY <1>2, <1>3, <1>5, AnswerHolds DEF RegistryHolds, answer
  <2>3. PhasesHold'
    BY <1>1, <1>2, <2>1, <2>2 DEF PhasesHold, Phases
  <2>. QED  BY <1>2, <2>1, <2>3 DEF IndInv, ValidatedHolds, RefusedHolds, UndisturbedHolds,
                 GuidanceHolds, HelpStaysInGuidance
<1>. QED  BY <1>4, <1>5

\* A submitted plan, validated or refused under the rights read now.
LEMMA ExecuteKeepsInv ==
  ASSUME IndInv, Execute
  PROVE  IndInv'
<1>. DEFINE plan == attempt.plan
            answer == Validate(plan, resources, permissions)
            r == Named(resources, answer.plan.resource)
            refused == [Refuse(answer.code) EXCEPT !.granted = permissions,
                                                   !.against = Against(plan)]
            validated == [attempt EXCEPT !.phase = "validated", !.granted = permissions,
                                         !.plan = answer.plan, !.against = Against(plan)]
<1>1. attempt.phase = "planned"
      /\ UNCHANGED <<resources, permissions, races, cleared>>
      /\ attempt' = IF answer.code # "ok" THEN refused ELSE validated
  BY DEF Execute, Step
<1>2. PhasesHold /\ RegistryHolds /\ RegistryHolds'
  BY <1>1, RegistryUntouched DEF IndInv
<1>3. IsPlan(plan) /\ permissions \in PermissionSets
  BY <1>1, <1>2 DEF PhasesHold, RegistryHolds
<1>. HIDE DEF answer
<1>4. CASE answer.code # "ok"
  <2>1. /\ AttemptIsRecord' /\ attempt'.phase = "refused" /\ attempt'.suggested = attempt.suggested
        /\ attempt'.code = answer.code /\ attempt'.plan = plan
        /\ attempt'.against = Against(plan) /\ attempt'.granted = permissions
    BY <1>1, <1>2, <1>4 DEF Refuse, PhasesHold, AttemptIsRecord
  <2>2. PhasesHold'
    BY <1>2, <1>4, <2>1 DEF PhasesHold, Phases
  <2>3. Against(plan) # None /\ Bytes(plan) <= Limits.bytes /\ Parses(plan) =>
          answer.code = ValidateForResource(plan, Against(plan), permissions).code
    BY <1>3, RefusedAnswer DEF answer
  <2>4. RefusedHolds'
    BY <1>3, <2>1, <2>3 DEF RefusedHolds
  <2>. QED  BY <1>2, <2>1, <2>2, <2>4 DEF IndInv, ValidatedHolds, UndisturbedHolds,
                 GuidanceHolds, HelpStaysInGuidance
<1>5. CASE answer.code = "ok"
  <2>1. /\ AttemptIsRecord' /\ attempt'.phase = "validated"
        /\ attempt'.suggested = attempt.suggested /\ attempt'.code = attempt.code
        /\ attempt'.plan = answer.plan /\ attempt'.against = Against(plan)
        /\ attempt'.granted = permissions
    BY <1>1, <1>2, <1>5 DEF PhasesHold, AttemptIsRecord
  <2>2. /\ IsPlan(answer.plan) /\ answer.plan.limit \in 1..Limits.rows
        /\ answer.plan.resource = plan.resource /\ answer.plan.resource \in Names(resources)
        /\ r \in Registrable
        /\ AdmissionCode(answer.plan, r, permissions) = "ok"
        /\ ValidateForResource(answer.plan, r, permissions) = [code |-> "ok", plan |-> answer.plan]
    BY <1>2, <1>3, <1>5, AnswerHolds DEF RegistryHolds, answer
  <2>3. Against(plan) = r
    BY <2>2 DEF Against
  <2>. HIDE DEF r
  <2>4. r = Named(resources, answer.plan.resource)
    BY DEF r
  <2>5. PhasesHold'
    BY <1>1, <1>2, <2>1 DEF PhasesHold, Phases
  <2>6. ValidatedHolds'
    BY <1>1, <1>3, <2>1, <2>2, <2>3, <2>4 DEF ValidatedHolds
  <2>. QED  BY <1>2, <2>1, <2>5, <2>6 DEF IndInv, RefusedHolds, UndisturbedHolds,
                 GuidanceHolds, HelpStaysInGuidance
<1>. QED  BY <1>4, <1>5

\* A provider's help: each suggestion is validated, those accepted are shown.
LEMMA ProvideHelpKeepsInv ==
  ASSUME IndInv, NEW help \in Helps, NEW count \in Counts, ProvideHelp(help, count)
  PROVE  IndInv'
<1>. DEFINE answer == ValidateHelp(help, count, attempt.guidance, resources, attempt.taken)
            plans == answer.plans
<1>1. attempt.phase = "asked"
      /\ UNCHANGED <<resources, permissions, races, cleared>>
      /\ attempt' = IF answer.code # "ok" THEN [Refuse(answer.code) EXCEPT !.help = help]
                    ELSE [attempt EXCEPT !.phase = "helped", !.help = help, !.suggested = plans]
  BY DEF ProvideHelp, Step
<1>2. PhasesHold /\ RegistryHolds /\ RegistryHolds'
  BY <1>1, RegistryUntouched DEF IndInv
<1>3. GuidanceIsNamed(attempt.guidance) /\ attempt.plan = None
  BY <1>1 DEF IndInv, GuidanceHolds, PhasesHold
<1>. HIDE DEF answer
<1>4. CASE answer.code # "ok"
  <2>1. /\ AttemptIsRecord' /\ attempt'.phase = "refused" /\ attempt'.suggested = attempt.suggested
        /\ attempt'.code = answer.code /\ attempt'.plan = None
    BY <1>1, <1>2, <1>3, <1>4 DEF Refuse, PhasesHold, AttemptIsRecord
  <2>2. PhasesHold' /\ RefusedHolds'
    BY <1>2, <1>4, <2>1 DEF PhasesHold, Phases, RefusedHolds
  <2>. QED  BY <1>2, <2>1, <2>2 DEF IndInv, ValidatedHolds, UndisturbedHolds,
                 GuidanceHolds, HelpStaysInGuidance
<1>5. CASE answer.code = "ok"
  <2>1. /\ AttemptIsRecord' /\ attempt'.phase = "helped" /\ attempt'.suggested = plans
        /\ attempt'.code = attempt.code /\ attempt'.guidance = attempt.guidance
        /\ attempt'.taken = attempt.taken /\ attempt'.help = help
    BY <1>1, <1>2, <1>5 DEF PhasesHold, AttemptIsRecord
  <2>2. /\ \A i \in DOMAIN plans : Showable(plans[i], attempt.guidance, resources, attempt.taken)
        /\ help = <<>> => DOMAIN plans = {}
    <3>1. count \in Nat /\ IsList(help) /\ \A s \in ToSet(help) : IsSuggestion(s)
      BY AnswerAssumption, BoundAssumption
    <3>. QED  BY <1>2, <1>3, <1>5, <3>1, HelpAnswer DEF RegistryHolds, answer
  <2>. HIDE DEF plans
  <2>3. PhasesHold'
    BY <1>1, <1>2, <2>1, <2>2 DEF PhasesHold, Phases, Showable
  <2>4. SuggestedAgain'
    BY <1>1, <2>1, <2>2 DEF SuggestedAgain, Showable
  <2>5. GuidanceHolds'
    BY <1>3, <2>1, <2>2 DEF GuidanceHolds, HelpStaysInGuidance, Showable
  <2>. QED  BY <1>2, <2>1, <2>3, <2>4, <2>5 DEF IndInv, ValidatedHolds, RefusedHolds,
                 UndisturbedHolds
<1>. QED  BY <1>4, <1>5

\* The help made without a provider.
LEMMA DeterministicHelpKeepsInv ==
  ASSUME IndInv, NEW count \in Counts, DeterministicHelp(count)
  PROVE  IndInv'
<1>. DEFINE plans == DeterministicPlans(count, attempt.guidance, resources, attempt.taken)
<1>1. attempt.phase = "asked"
      /\ UNCHANGED <<resources, permissions, races, cleared>>
      /\ attempt' = [attempt EXCEPT !.phase = "helped", !.suggested = plans]
  BY DEF DeterministicHelp, Step
<1>2. PhasesHold /\ RegistryHolds /\ RegistryHolds'
  BY <1>1, RegistryUntouched DEF IndInv
<1>3. GuidanceIsNamed(attempt.guidance)
  BY <1>1 DEF IndInv, GuidanceHolds
<1>4. \A i \in DOMAIN plans :
        /\ Showable(plans[i], attempt.guidance, resources, attempt.taken)
        /\ WithinScope(plans[i], attempt.guidance)
  <2>1. count \in Nat
    BY BoundAssumption
  <2>. QED  BY <1>2, <1>3, <2>1, DeterministicAnswer DEF RegistryHolds
<1>. HIDE DEF plans
<1>5. /\ AttemptIsRecord' /\ attempt'.phase = "helped" /\ attempt'.suggested = plans
      /\ attempt'.code = attempt.code /\ attempt'.guidance = attempt.guidance
      /\ attempt'.taken = attempt.taken
  BY <1>1, <1>2 DEF PhasesHold, AttemptIsRecord
<1>6. PhasesHold'
  BY <1>1, <1>2, <1>4, <1>5 DEF PhasesHold, Phases, Showable
<1>7. SuggestedAgain'
  BY <1>1, <1>4, <1>5 DEF SuggestedAgain, Showable
<1>8. GuidanceHolds'
  BY <1>3, <1>4, <1>5 DEF GuidanceHolds, HelpStaysInGuidance, Showable, WithinScope
<1>. QED  BY <1>2, <1>5, <1>6, <1>7, <1>8 DEF IndInv, ValidatedHolds, RefusedHolds,
               UndisturbedHolds

\* The invariant holds in every reachable state: of the registry, of every phase,
\* of what was validated, refused, left undisturbed and shown.
THEOREM InductiveInvariant == Spec => []IndInv
<1>1. IndInv /\ [Next]_vars => IndInv'
  <2>. SUFFICES ASSUME IndInv, [Next]_vars  PROVE IndInv'
    OBVIOUS
  <2>1. CASE \/ \E decl \in Declarations : Register(decl)
             \/ Clear
             \/ \E P \in PermissionSets : ChangePermissions(P)
    BY <2>1, HostKeepsInv
  <2>2. CASE Ask
    BY <2>2, AskKeepsInv
  <2>3. CASE \E plan \in Plans, unified \in BOOLEAN : ProvidePlan(plan, unified)
    BY <2>3, ProvidePlanKeepsInv
  <2>4. CASE \E plan \in Plans : Submit(plan)
    BY <2>4, SubmitKeepsInv
  <2>5. CASE \E help \in Helps, count \in Counts : ProvideHelp(help, count)
    BY <2>5, ProvideHelpKeepsInv
  <2>6. CASE \E count \in Counts : DeterministicHelp(count)
    BY <2>6, DeterministicHelpKeepsInv
  <2>7. CASE \E i \in DOMAIN attempt.suggested : Click(i)
    BY <2>7, ClickKeepsInv
  <2>8. CASE Execute
    BY <2>8, ExecuteKeepsInv
  <2>9. CASE \E returned \in {"queryset", "evaluated"} : Prepare(returned)
    BY <2>9, PrepareKeepsInv
  <2>10. CASE Finish
    BY <2>10, FinishKeepsInv
  <2>11. CASE UNCHANGED vars
    BY <2>11 DEF vars, IndInv, RegistryHolds, PhasesHold, AttemptIsRecord, ValidatedHolds,
                 RefusedHolds, UndisturbedHolds, SuggestedAgain, GuidanceHolds,
                 HelpStaysInGuidance
  <2>. QED  BY <2>1, <2>2, <2>3, <2>4, <2>5, <2>6, <2>7, <2>8, <2>9, <2>10, <2>11 DEF Next
<1>. QED  BY InitHolds, <1>1, PTL DEF Spec

-----------------------------------------------------------------------------
(* What it makes certain of *)

\* The variables have their types: in particular two resources never share a name,
\* a validated plan has a limit within MAX_ROWS, and an attempt has an error code
\* exactly when it was refused.
THEOREM TypeCorrect == Spec => []TypeOK
<1>1. IndInv => TypeOK
  <2>1. PhasesHold /\ ValidatedHolds =>
          (attempt.phase \in {"planned", "validated", "prepared"} => IsPlan(attempt.plan))
    BY DEF PhasesHold, ValidatedHolds
  <2>. QED  BY <2>1 DEF IndInv, RegistryHolds, PhasesHold, ValidatedHolds, TypeOK
<1>. QED  BY InductiveInvariant, <1>1, PTL

\* Every path that the database can leave empty is declared nullable, and every
\* token of a registered enumeration means one value, in every reachable registry.
\* (resources.py: registration checks each declaration against the models.)
THEOREM RegisteredAsDeclared == Spec => []DeclarationsHold
<1>1. IndInv => DeclarationsHold
  <2>. SUFFICES ASSUME IndInv  PROVE DeclarationsHold
    OBVIOUS
  <2>1. \A i \in DOMAIN resources : resources[i] \in Registrable
    BY SeqIsList DEF IndInv, RegistryHolds
  <2>2. \A i \in DOMAIN resources : FieldsHold(resources[i])
    BY <2>1, RegistrableHolds
  <2>. QED  BY <2>2 DEF DeclarationsHold, FieldsHold
<1>. QED  BY InductiveInvariant, <1>1, PTL

\* A plan that every right together would admit is refused, if at all, as a member
\* that is not available.  (validation.py, exceptions.py)  By OnlyDenied, and the
\* part of the invariant that knows why an attempt was refused.
THEOREM RightsOnlyDeny == Spec => []OnlyRightsDiffer
<1>1. IndInv => OnlyRightsDiffer
  <2>. SUFFICES ASSUME IndInv, attempt.phase = "refused", attempt.plan # None,
                       attempt.against # None, Bytes(attempt.plan) <= Limits.bytes,
                       Parses(attempt.plan),
                       ValidateForResource(attempt.plan, attempt.against, AllRights).code = "ok"
                PROVE  attempt.code \in MemberUnavailable \cup {"ScopeUnavailable"}
    BY DEF OnlyRightsDiffer
  <2>1. CASE /\ IsPlan(attempt.plan) /\ attempt.granted \in PermissionSets
             /\ attempt.code
                  = ValidateForResource(attempt.plan, attempt.against, attempt.granted).code
    <3>1. attempt.granted \in SUBSET AllRights
      BY <2>1 DEF AllRights
    <3>2. attempt.code \in Denied
      BY <2>1, <3>1, OnlyDenied
    <3>3. attempt.code # "ok"
      BY DEF IndInv, PhasesHold
    <3>. QED  BY <3>2, <3>3 DEF Denied, MemberUnavailable
  <2>. QED  BY <2>1 DEF IndInv, RefusedHolds
<1>. QED  BY InductiveInvariant, <1>1, PTL

\* A validated plan, and a suggestion while nobody interfered, validates again to
\* itself when it is within the byte budget.  (validation.py, help.py)
THEOREM RevalidatesToItself == Spec => []RevalidationIsStable
<1>1. IndInv => RevalidationIsStable
  BY DEF IndInv, ValidatedHolds, UndisturbedHolds, SuggestedAgain, RevalidationIsStable
<1>. QED  BY InductiveInvariant, <1>1, PTL

\* A query is prepared only from members visible under the rights the facade read,
\* and against the resource it was validated against unless the registry was
\* cleared in between.  (runner.py: two lookups of one name.)
THEOREM PreparedWithCurrentRights == Spec => []PreparedUnderCurrentRights
<1>1. IndInv => PreparedUnderCurrentRights
  <2>. SUFFICES ASSUME IndInv, attempt.phase = "prepared"  PROVE PreparedUnderCurrentRights
    BY DEF PreparedUnderCurrentRights
  <2>1. /\ IsPlan(attempt.plan) /\ attempt.against \in Registrable
        /\ AdmissionCode(attempt.plan, attempt.against, attempt.granted) = "ok"
        /\ ValidateForResource(attempt.plan, attempt.against, attempt.granted)
             = [code |-> "ok", plan |-> attempt.plan]
        /\ ~cleared => attempt.prepared = attempt.against
    BY DEF IndInv, ValidatedHolds
  <2>2. MembersNamedOnce(attempt.against)
    BY <2>1, RegistrableHolds
  <2>3. /\ \A f \in UsedFields(attempt.plan, attempt.against) :
             FieldCatalogVisible(f, attempt.granted)
        /\ \A k \in UsedMetrics(attempt.plan, attempt.against) :
             PermissionSetAllows(attempt.granted, k.perm)
    BY <2>1, <2>2, AdmittedMembersAreVisible
  <2>. QED  BY <2>1, <2>3 DEF PreparedUnderCurrentRights
<1>. QED  BY InductiveInvariant, <1>1, PTL

\* Every plan shown as help names only what the guidance of the caller names, and
\* an example made without a provider stays out of a single scope's dimension.
\* (help.py)
THEOREM HelpWithinGuidance == Spec => []HelpStaysInGuidance
<1>1. IndInv => HelpStaysInGuidance
  BY DEF IndInv, GuidanceHolds
<1>. QED  BY InductiveInvariant, <1>1, PTL

\* What the guidance lists for a caller is what validation accepts from that caller,
\* within MAX_JOINS and while nobody interfered.  (capabilities.py and validation.py
\* decide it separately.)
THEOREM GuidanceMatchesValidation == Spec => []GuidanceIsExact
<1>1. IndInv => GuidanceIsExact
  <2>. SUFFICES ASSUME IndInv, attempt.phase = "asked", races = 0, NEW i \in DOMAIN resources
                PROVE  LET resource == resources[i]
                           listed == resource.name \in Names(attempt.guidance)
                           capability == Named(attempt.guidance, resource.name)
                           Offered(name) == listed /\ name \in Names(capability.fields)
                           Use(name, usage) == FieldUse(resource, name, usage, attempt.taken)
                           permitted == PermissionSetAllows(attempt.taken, resource.perm)
                       IN /\ \A f \in ToSet(resource.fields) :
                               Cardinality(f.edges) <= Limits.joins =>
                               /\ Offered(f.name) <=> (permitted /\ Use(f.name, "filter") = "ok")
                               /\ \A usage \in ResultUsages :
                                    (Offered(f.name) /\ Named(capability.fields, f.name).canSelect)
                                      <=> (permitted /\ Use(f.name, usage) = "ok")
                          /\ \A k \in ToSet(resource.metrics) : k.depth <= Limits.joins =>
                               ((listed /\ k.name \in Names(capability.metrics))
                                  <=> (permitted
                                         /\ MetricUse(resource, k.name, attempt.taken) = "ok"))
    BY DEF GuidanceIsExact
  <2>. DEFINE r == resources[i]
              P == attempt.taken
              c == Named(attempt.guidance, r.name)
              listed == r.name \in Names(attempt.guidance)
              permitted == PermissionSetAllows(P, r.perm)
  <2>1. resources \in Seq(Registrable) /\ Distinct([j \in DOMAIN resources |-> resources[j].name])
        /\ attempt.guidance = QueryGuidance(resources, P)
    BY DEF IndInv, RegistryHolds, UndisturbedHolds
  <2>2. r \in Registrable
    BY <2>1, SeqIsList
  <2>3. /\ listed <=> permitted
        /\ permitted => c = ResourceCapability(ResourceItem(r, P), r.perm, P)
    BY <2>1, GuidanceOf
  <2>. HIDE DEF c, listed, P, r, permitted
  <2>4. permitted =>
          /\ \A f \in ToSet(r.fields) :
               /\ f.name \in Names(c.fields) <=> FieldCatalogVisible(f, P)
               /\ FieldCatalogVisible(f, P) =>
                    Named(c.fields, f.name) = FieldCapability(FieldItem(f))
          /\ \A k \in ToSet(r.metrics) :
               k.name \in Names(c.metrics) <=> PermissionSetAllows(P, k.perm)
    <3>. DEFINE d == ResourceCapability(ResourceItem(r, P), r.perm, P)
    <3>1. /\ \A f \in ToSet(r.fields) :
               /\ f.name \in Names(d.fields) <=> FieldCatalogVisible(f, P)
               /\ FieldCatalogVisible(f, P) =>
                    Named(d.fields, f.name) = FieldCapability(FieldItem(f))
          /\ \A k \in ToSet(r.metrics) :
               k.name \in Names(d.metrics) <=> PermissionSetAllows(P, k.perm)
      BY <2>2, CapabilityOf
    <3>2. permitted => c = d
      BY <2>3
    <3>. HIDE DEF d
    <3>. QED  BY <3>1, <3>2
  <2>5. MembersNamedOnce(r)
    BY <2>2, RegistrableHolds
  <2>6. ASSUME NEW f \in ToSet(r.fields), Cardinality(f.edges) <= Limits.joins
        PROVE  /\ (listed /\ f.name \in Names(c.fields))
                    <=> (permitted /\ FieldUse(r, f.name, "filter", P) = "ok")
               /\ \A usage \in ResultUsages :
                    (/\ listed /\ f.name \in Names(c.fields)
                     /\ Named(c.fields, f.name).canSelect)
                      <=> (permitted /\ FieldUse(r, f.name, usage, P) = "ok")
    <3>1. f.name \in Names(r.fields) /\ Named(r.fields, f.name) = f
      BY <2>5, NamedUnique DEF MembersNamedOnce, ToSet
    <3>2. FieldUse(r, f.name, "filter", P) = "ok" <=> FieldCatalogVisible(f, P)
      BY <2>6, <3>1, FieldUseOk DEF ResultUsages
    <3>3. ASSUME NEW usage \in ResultUsages
          PROVE  FieldUse(r, f.name, usage, P) = "ok" <=>
                   FieldCatalogVisible(f, P) /\ ~f.filterOnly /\ f.resultVisible
      BY <2>6, <3>1, <3>3, FieldUseOk DEF ResultUsages
    <3>4. FieldCapability(FieldItem(f)).canSelect <=> ~f.filterOnly /\ f.resultVisible
      BY DEF FieldCapability, FieldItem
    <3>. QED  BY <2>3, <2>4, <3>2, <3>3, <3>4
  <2>7. ASSUME NEW k \in ToSet(r.metrics), k.depth <= Limits.joins
        PROVE  (listed /\ k.name \in Names(c.metrics))
                 <=> (permitted /\ MetricUse(r, k.name, P) = "ok")
    <3>1. k.name \in Names(r.metrics) /\ Named(r.metrics, k.name) = k
      BY <2>5, NamedUnique DEF MembersNamedOnce, ToSet
    <3>2. MetricUse(r, k.name, P) = "ok" <=> PermissionSetAllows(P, k.perm)
      BY <2>7, <3>1, MetricUseOk
    <3>. QED  BY <2>3, <2>4, <3>2
  <2>. QED  BY <2>6, <2>7 DEF c, listed, P, r, permitted
<1>. QED  BY InductiveInvariant, <1>1, PTL
=============================================================================
